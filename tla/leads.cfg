SPECIFICATION LeadsSpec
CONSTANTS
  l1 = l1
  l2 = l2
  u1 = u1
  u2 = u2
  u3 = u3
  Nobody = Nobody
  Lead = {l1, l2}
  User = {u1, u2, u3}
  Caller = {u1, u2}
  Scope <- Scopes
  Members <- Teams
  Department = {"d1", "d2"}
  Staff <- Staffing
  Rank <- Order
  Slots = 2
  MaxRequests = 3
CHECK_DEADLOCK FALSE
INVARIANTS
  DateFollowsStage
  OneFollowUp
  ConvertedOnce
PROPERTY
  AutoAssignIsFair
