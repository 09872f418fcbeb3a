\* Two publish commands for one reference, and two readers.
SPECIFICATION FairRelaySpec
CONSTANTS
  Proc = {p1, p2}
  Ref = {r1}
  ValidRef = {r1}
  Source = {s1}
  LegalName = {s1}
  Chunk = {a}
  MaxLen = 1
  Sha256 <- MCSha256
  Writable = TRUE
  Server = Server
  None = None
  Reader = {d1, d2}
CHECK_DEADLOCK FALSE
INVARIANTS
  NeverRejected
PROPERTIES
  AcknowledgedReachesReaders
  ImplementsDistribution
