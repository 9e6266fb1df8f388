--------------------------- MODULE MCCaseHandoff ---------------------------
EXTENDS CaseHandoff, TLC
Symmetry == Permutations(Txn)
=============================================================================
