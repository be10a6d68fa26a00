SPECIFICATION Spec
CONSTANTS
  Users = {u1}
  NoUser = NoUser
  Conns = {c1, c2}
  NoConn = NoConn
  Writers = {}
  PongTimeout = 2
INVARIANT ConnectedIsOnline
CHECK_DEADLOCK FALSE
