---------------------------- MODULE MCAuditChain ----------------------------
EXTENDS AuditChain, TLC
CONSTANTS dated, iso, braces, quoted
CanonicalJson == dated :> braces @@ iso :> quoted
ReadBack == dated :> iso @@ iso :> iso
Symmetry == Permutations(Txn)
=============================================================================
