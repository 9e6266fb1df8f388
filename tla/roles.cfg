SPECIFICATION RolesSpec
CONSTANTS
  a = a
  b = b
  clerk = clerk
  Admin = Admin
  User = {a, b}
  Reader = {b}
  Role = {Admin, clerk}
  CopyOf <- Copies
  MaxScope = 1
  Slots = 2
  MaxRequests = 3
CHECK_DEADLOCK FALSE
INVARIANTS
  CacheIsTrue
PROPERTIES
  AdminRemains
