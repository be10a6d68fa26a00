SPECIFICATION FairSpec
CONSTANTS
  Users = {u1}
  NoUser = NoUser
  Conns = {c1, c2}
  NoConn = NoConn
  Writers = {w1}
  PongTimeout = 1
PROPERTIES NoPingLeak DeadConnectionRemoved
CHECK_DEADLOCK FALSE
