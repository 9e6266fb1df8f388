-------------------------- MODULE MCMandateRequests --------------------------
EXTENDS MandateRequests, TLC
Symmetry == Permutations(Txn) \cup Permutations(Upload)
=============================================================================
