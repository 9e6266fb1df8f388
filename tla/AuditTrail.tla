----------------------------- MODULE AuditTrail -----------------------------
(***************************************************************************)
(* What the audit log promises: one growing sequence of entries.  A        *)
(* transaction adds the entries it appended, in their order and without    *)
(* anybody's in between, and nothing is ever changed, removed or reordered.*)
(***************************************************************************)
EXTENDS Naturals, Sequences

CONSTANT Entry

VARIABLE trail

Init == trail = <<>>

\* The new trail continues the old one.
Grows ==
    /\ Len(trail') > Len(trail)
    /\ trail' \in Seq(Entry)
    /\ SubSeq(trail', 1, Len(trail)) = trail

Spec == Init /\ [][Grows]_trail
=============================================================================
