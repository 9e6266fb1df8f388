SPECIFICATION Spec
CONSTANTS
  t1 = t1
  t2 = t2
  note = note
  doc = doc
  p1 = p1
  p2 = p2
  u1 = u1
  u2 = u2
  s1 = s1
  s2 = s2
  c1 = c1
  Txn = {t1, t2}
  Item = {note, doc}
  Phone = {p1, p2}
  NoPhone = NoPhone
  User = {u1, u2}
  Session = {s1, s2}
  Change = {c1}
  MAX_ATTEMPTS = 1
SYMMETRY Symmetry
INVARIANTS
  ClosedIsDark
  DarkHasNoSession
  SeesWithCurrentPhone
