\* A server that dials and one that accepts.
SPECIFICATION Spec
CONSTANTS
  n1 = n1
  n2 = n2
  n3 = n3
  Nodes = {n1, n2, n3}
  Self = self
  Trusted = {n3}
  Bootnodes <- MCBootnodes
  Setups <- MCSetups
INVARIANTS
  PeerLimits
  DynDialBound
CHECK_DEADLOCK FALSE
