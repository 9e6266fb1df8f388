SPECIFICATION Spec
CONSTANTS
  t1 = t1
  t2 = t2
  u1 = u1
  u2 = u2
  Txn = {t1, t2}
  MaxRequest = 2
  Upload = {u1, u2}
  MaxPuts = 2
  Firm = Firm
  NoRequest = NoRequest
SYMMETRY Symmetry
INVARIANTS
  OneUploadPerRequest
  OnlyGatedIsKept
PROPERTIES
  ClosedTakesNoClientUpload
