SPECIFICATION Spec
CONSTANTS
  Users = {u1, u2}
  Groups = {g1}
  PublicGroups = {g1}
  Direct = Direct
  Requests = {r1, r2}
  Links = {l1}
  NoLink = NoLink
  GroupOf <- MCGroupOf
  SingleUse = {l1}
  DBFails = TRUE
  MaxPosts = 2
  MaxJoins = 3
SYMMETRY Symmetry
INVARIANTS TypeOK InviteAccounted OverlapOnly ReadGrounded OrphansNamed AdminNamed
PROPERTY OnlyLeavingForgets
