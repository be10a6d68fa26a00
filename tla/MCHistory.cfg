SPECIFICATION Spec
CONSTANTS
  a = a
  b = b
  Users <- MCUsers
  Conv = Conv
  None = None
  Requests = {r1, r2}
  MaxMessages = 4
  Workloads <- MCWorkloads
  Limits <- MCLimits
  DefaultLimit = 1
  PageCap = 2
  Faults = TRUE
SYMMETRY RequestSymmetry
INVARIANTS TypeOK StaleNamed PagesComplete SyncComplete StatusBacked
PROPERTIES UpdateGrounded ImplementsConversation
CHECK_DEADLOCK FALSE
