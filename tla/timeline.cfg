SPECIFICATION Spec
CONSTANTS
  t1 = t1
  t2 = t2
  w1 = w1
  w2 = w2
  N = 3
  Txn = {t1, t2}
  Sweeper = {w1, w2}
  Dependent = {2, 3}
  HardBlock = {2}
SYMMETRY Symmetry
INVARIANTS
  UnlockedStaysUnlocked
PROPERTIES
  TransitionSettlesTimeline
  TransitionSettlesReadiness
