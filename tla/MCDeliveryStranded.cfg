SPECIFICATION FairSpec
CONSTANTS
  a = a
  b = b
  d = d
  aConns = {a1}
  bConns = {b1}
  dConns = {}
  Group = FALSE
  NoConn = NoConn
  Users <- MCUsers
  Msgs = {m1}
  Conns <- MCConns
  Requests = {}
  OwnerOf <- MCOwnerOf
  SenderOf <- MCSenderOf
  RecipientsOf <- MCRecipientsOf
  GroupMsgs <- MCGroupMsgs
  BatchSize = 1
  LossyUsers <- Nobody
  DBFails = FALSE
  MaxCrashes = 0

PROPERTY QueuedReachesOnlineUser
CHECK_DEADLOCK FALSE
