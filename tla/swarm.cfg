\* Two calls of trust, untrust or sync and two peers, in any order.
SPECIFICATION FairSpec
CONSTANTS
  Peer = {x, y}
  Call = {c1, c2}
CHECK_DEADLOCK FALSE
INVARIANTS
  UntrustedDisconnected
  TrustedNotBanned
PROPERTIES
  SyncNeedsPeer
  SyncReturns
