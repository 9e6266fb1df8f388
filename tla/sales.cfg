SPECIFICATION Spec
CONSTANTS
  o1 = o1
  o2 = o2
  u1 = u1
  u2 = u2
  other = other
  vendor = vendor
  NoType = NoType
  QUALIFICATION = QUALIFICATION
  PROSPECTING = PROSPECTING
  Opp = {o1, o2}
  Type = {other, vendor}
  Other = other
  Invoice = {1}
  Payment = {1, 2, 3}
  Owner = {u1, u2}
  OpenStage = {PROSPECTING, QUALIFICATION}
  Figure <- Figures
  Change <- Changes
  Paid <- Amounts
  Slots = 2
  MaxRequests = 3
CHECK_DEADLOCK FALSE
INVARIANTS
  HistoryIsTrue
  TypeInUseIsLive
  TotalMatches
  PaidWithinTotal
