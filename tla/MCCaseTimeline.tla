--------------------------- MODULE MCCaseTimeline ---------------------------
EXTENDS CaseTimeline, TLC
Symmetry == Permutations(Txn) \cup Permutations(Sweeper)
=============================================================================
