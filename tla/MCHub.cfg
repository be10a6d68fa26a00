SPECIFICATION Spec
CONSTANTS
  Users = {u1, u2}
  NoUser = NoUser
  Conns = {c1, c2}
  NoConn = NoConn
  Writers = {w1}
  PongTimeout = 2
SYMMETRY Symmetry
INVARIANTS TypeOK NoDoubleClose SoleConnectionOnline
PROPERTIES TakenOutByOlder ImplementsRegistry
CHECK_DEADLOCK FALSE
