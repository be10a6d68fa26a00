SPECIFICATION Spec
CONSTANTS
  Users = {u1}
  Groups = {g1}
  PublicGroups = {g1}
  Direct = Direct
  Requests = {r1, r2}
  Links = {}
  NoLink = NoLink
  GroupOf <- MCGroupOf
  SingleUse = {}
  DBFails = FALSE
  MaxPosts = 1
  MaxJoins = 1
PROPERTY ReadMonotonic
