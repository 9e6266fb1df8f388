-------------------------- MODULE MCPolicyDocuments --------------------------
EXTENDS PolicyDocuments, TLC
CONSTANTS a, b, pa, pb, k1
ComponentOf == pa :> a @@ pb :> b
KeyOf == pa :> k1 @@ pb :> k1
\* The two components and their presets change places together.
Symmetry == Permutations(Caller) \cup {a :> b @@ b :> a @@ pa :> pb @@ pb :> pa}
=============================================================================
