CONSTANTS
  c1 = c1
  c2 = c2
  c3 = c3
  b1 = b1
  b2 = b2
  Connections = {c1, c2, c3}
  Blocks = {b1, b2}
  MaxClients = 2
  Null = Null
SYMMETRY Symmetry
SPECIFICATION Spec
INVARIANTS
  TypeOK
  PacketFreedOnce
  WritesToOpenConnections
PROPERTIES
  EveryClientTold
