SPECIFICATION Spec
CONSTANTS
  a = a
  b = b
  d = d
  aConns = {a1, a2}
  bConns = {b1}
  dConns = {}
  Group = FALSE
  NoConn = NoConn
  Users <- MCUsers
  Msgs = {m1}
  Conns <- MCConns
  Requests = {}
  OwnerOf <- MCOwnerOf
  SenderOf <- MCSenderOf
  RecipientsOf <- MCRecipientsOf
  GroupMsgs <- MCGroupMsgs
  BatchSize = 1
  LossyUsers <- Sender
  DBFails = FALSE
  MaxCrashes = 0

INVARIANT AckedNotLost
CHECK_DEADLOCK FALSE
