SPECIFICATION Spec
CONSTANTS
  a = a
  b = b
  Users <- MCUsers
  Conv = Conv
  None = None
  Requests = {r1}
  MaxMessages = 1
  Workloads <- MCReceipts
  Limits <- MCLimits
  DefaultLimit = 1
  PageCap = 2
  Faults = FALSE
PROPERTY StatusProgresses
CHECK_DEADLOCK FALSE
