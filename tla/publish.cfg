\* Two publish commands; r1 is a good reference; s2 has an illegal file name.
SPECIFICATION FairSpec
CONSTANTS
  Proc = {p1, p2}
  Ref = {r1, bad}
  ValidRef = {r1}
  Source = {s1, s2}
  LegalName = {s1}
  Chunk = {a}
  MaxLen = 2
  Sha256 <- MCSha256
  Writable = TRUE
  Server = Server
  None = None
CHECK_DEADLOCK FALSE
INVARIANTS
  BlobBeforeManifest
  ContentAddressed
  VersionsImmutable
  AcknowledgedIsPublished
  NoReaderOutlivesSnapshot
  FailureAfterCommitIsCleanup
PROPERTIES
  ImplementsRegistry
  EventuallyDone
