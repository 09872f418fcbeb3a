\* Four commands, one at a time.
SPECIFICATION Spec
CONSTANTS
  Proc = {p1, p2, p3, p4}
  own = own
  other = other
  x = x
  y = y
  Key <- MCKeys
  BadKey = {badkey}
  Own = own
  Peer <- MCPeers
  BadPeer = {badpeer}
  Serial = TRUE
  Torn = Torn
  None = None
SYMMETRY Symmetry
CHECK_DEADLOCK FALSE
PROPERTIES
  ImplementsMembership
