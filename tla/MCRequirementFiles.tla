------------------------- MODULE MCRequirementFiles -------------------------
EXTENDS RequirementFiles, TLC
Symmetry == Permutations(Txn) \cup Permutations(Req) \cup Permutations(File)
=============================================================================
