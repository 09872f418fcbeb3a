\* Three commands that may overlap: a setup and two changes of the allowlist.
SPECIFICATION Spec
CONSTANTS
  Proc = {p1, p2, p3}
  own = own
  other = other
  x = x
  y = y
  Key <- MCKeys
  BadKey = {badkey}
  Own = own
  Peer <- MCPeers
  BadPeer = {badpeer}
  Serial = FALSE
  Torn = Torn
  None = None
CHECK_DEADLOCK FALSE
PROPERTIES
  SaveChangesOnlyItsPeer
