SPECIFICATION Spec
CONSTANTS
  t1 = t1
  t2 = t2
  t3 = t3
  dated = dated
  iso = iso
  braces = braces
  quoted = quoted
  Txn = {t1, t2, t3}
  Payload = {dated, iso}
  Text = {braces, quoted}
  canonicalJson <- CanonicalJson
  Stored <- ReadBack
  Clock = {0, 1, 2}
  NoTxn = NoTxn
  MaxRows = 5
SYMMETRY Symmetry
INVARIANTS
  AlwaysVerifies
PROPERTIES
  ImplementsTrail
