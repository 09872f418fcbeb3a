\* One command of any kind, artifacts of up to two chunks, peers that come and go.
SPECIFICATION FairSpec
CONSTANTS
  Cmd = {f1}
  Kinds = {"fetch", "seed", "list"}
  Writer = {}
  Chunk = {a}
  MaxLen = 2
  Sha256 <- MCSha256
  Invalid = Invalid
  Foreign = Foreign
  None = None
CHECK_DEADLOCK FALSE
INVARIANTS
  SeedServesVerified
  NoEarlyMiss
PROPERTIES
  EventuallyReturns
