SPECIFICATION Spec
CONSTANTS
  Endpoint = {e1, e2}
  Empty = empty
  ClientId = {c1}
  Node = {n1, n2}
  MaxSessions = 3
  MaxQueue = 2
SYMMETRY Alike
INVARIANTS
  
  EndpointsAgree
  EndIsPosted
CHECK_DEADLOCK FALSE
