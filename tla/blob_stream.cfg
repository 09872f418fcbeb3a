\* Uploads and downloads of up to four chunks through a buffer of two.
SPECIFICATION FairSpec
CONSTANTS
  MaxTotal = 4
  HighWater = 2
CHECK_DEADLOCK FALSE
INVARIANTS
  BackPressure
  NoStreamLeft
PROPERTIES
  ImplementsTransfer
  Settles
  ResumesAfterPause
