SPECIFICATION ContactsSpec
CONSTANTS
  n1 = n1
  n2 = n2
  k = k
  None = None
  Number = {n1, n2, k}
  Short = {k}
  MaxContacts = 3
  Slots = 2
  MaxRequests = 3
CHECK_DEADLOCK FALSE
SYMMETRY Numbers
INVARIANTS
  OneMain
  
  MainSurvives
PROPERTIES
  MainPhoneIsLeads
