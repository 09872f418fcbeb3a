\* Two fetches of one artifact to one output path; f1 is the publisher's own.
SPECIFICATION Spec
CONSTANTS
  Cmd = {f1, f2}
  Kinds = {"fetch"}
  Writer = {f1}
  Chunk = {a}
  MaxLen = 1
  Sha256 <- MCSha256
  Invalid = Invalid
  Foreign = Foreign
  None = None
CHECK_DEADLOCK FALSE
INVARIANTS
  OutputVerified
  PrintedMeansDelivered
  FailedMeansUndelivered
  NothingAfterReport
PROPERTIES
  ImplementsDelivery
