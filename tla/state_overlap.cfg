\* Three commands that may overlap in any way.
SPECIFICATION Spec
CONSTANTS
  Proc = {p1, p2, p3}
  own = own
  other = other
  x = x
  y = y
  Key <- MCKeys
  BadKey = {badkey}
  Own = own
  Peer <- MCPeers
  BadPeer = {badpeer}
  Serial = FALSE
  Torn = Torn
  None = None
CHECK_DEADLOCK FALSE
SYMMETRY Symmetry
INVARIANTS
  ReportedStands
PROPERTIES
  IdentityStable
