SPECIFICATION Spec
CONSTANTS
  a = a
  b = b
  d = d
  aConns = {a1}
  bConns = {b1}
  dConns = {}
  Group = TRUE
  NoConn = NoConn
  Users <- MCUsers
  Msgs = {m1}
  Conns <- MCConns
  Requests = {q1}
  OwnerOf <- MCOwnerOf
  SenderOf <- MCSenderOf
  RecipientsOf <- MCRecipientsOf
  GroupMsgs <- MCGroupMsgs
  BatchSize = 2
  LossyUsers <- MCUsers
  DBFails = TRUE
  MaxCrashes = 1
INVARIANTS TypeOK HeldOnce NothingForgotten
PROPERTY ImplementsMailbox
CHECK_DEADLOCK FALSE
