SPECIFICATION Spec
CONSTANTS
  bob = bob
  Bob = Bob
  eve = eve
  None = None
  u1 = u1
  u2 = u2
  Users = {u1, u2}
  Names <- MCNames
  Lower <- MCLower
  Tokens = {1, 2, 3}
  Keys = {1, 2, 3}
  Requests = {r1, r2, r3}
  MaxConns = 2
  Workloads <- MCWorkloads
  Faults = TRUE
SYMMETRY AccountsSymmetry
INVARIANTS TypeOK NamesDistinct RotatedOnce AvatarsAgree PresenceSettled
PROPERTY ImplementsSessions
CHECK_DEADLOCK FALSE
