\* Up to three versions with names of up to two pieces.
SPECIFICATION Spec
CONSTANTS
  Text <- MCText
  Argument <- MCArgument
  MaxVersions = 3
  MaxSegment = 2
CHECK_DEADLOCK FALSE
INVARIANTS
  FetchNamesPublished
  ListShowsPublished
