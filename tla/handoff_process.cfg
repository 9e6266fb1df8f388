SPECIFICATION Spec
CONSTANTS
  t1 = t1
  t2 = t2
  Txn = {t1, t2}
  Reasons = {"WRONG_OR_MISSING_CONTACT", "COMPLIANCE_ISSUE"}
  ReviewReasons = {"COMPLIANCE_ISSUE"}
  EvidenceKinds = {"phone", "override"}
  MaxReturns = 1
  MaxProcessReturns = 2
SYMMETRY Symmetry
INVARIANTS
  ProcessCoherence
  ClosedIsSettled
PROPERTY ImplementsOwnership
