\* Probes of every kind, and two reports.
SPECIFICATION FairSpec
CONSTANT Probe <- MCProbe
CHECK_DEADLOCK FALSE
INVARIANTS
  NothingLeft
  SuccessMeansProbed
PROPERTIES
  AlwaysEnds
