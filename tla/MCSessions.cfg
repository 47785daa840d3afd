SPECIFICATION Spec
CONSTANTS
  NULL = NULL
  c1 = c1
  c2 = c2
  b1 = b1
  b2 = b2
  b3 = b3
  Conns = {c1, c2}
  MaxClients = 2
  MaxPointNumInQueue = 2
  Blocks = {b1, b2, b3}
  MaxPackets = 2
SYMMETRY Symmetry
INVARIANTS
  TypeOK
  SessionsMatchConnections
  
  BlocksHaveOneOwner
