-------------------------- MODULE MCLeadLifecycle --------------------------
EXTENDS LeadLifecycle, TLC
CONSTANTS u1, u2, u3
\* u1 has the scope of its own leads, u2 that of a team of two, u3 none to speak of.
Scopes == u1 :> "OWN" @@ u2 :> "GROUP" @@ u3 :> "OWN"
Teams == u1 :> {} @@ u2 :> {u1, u2} @@ u3 :> {}
Order == u1 :> 1 @@ u2 :> 2 @@ u3 :> 3
\* u1 and u2 work in one department, u3 in another.
Staffing == "d1" :> {u1, u2} @@ "d2" :> {u3}
=============================================================================
