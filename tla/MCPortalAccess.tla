---------------------------- MODULE MCPortalAccess ----------------------------
EXTENDS PortalAccess, TLC
Symmetry == Permutations(Txn) \cup Permutations(Item) \cup Permutations(Phone) \cup Permutations(User)
            \cup Permutations(Session) \cup Permutations(Change)
=============================================================================
