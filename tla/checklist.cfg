SPECIFICATION ChecklistSpec
CONSTANTS
  t1 = t1
  t2 = t2
  a = a
  b = b
  pa = pa
  pb = pb
  k1 = k1
  Caller = {t1, t2}
  NoCaller = NoCaller
  Component = {a, b}
  Preset = {pa, pb}
  Key = {k1}
  componentOf <- ComponentOf
  keyOf <- KeyOf
  MaxDoc = 2
SYMMETRY Symmetry
INVARIANTS
  OneRequirementPerKey
  LinkedIsLive
PROPERTIES
  SaveHeals
  
