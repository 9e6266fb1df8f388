-------------------------- MODULE ProcessOwnership --------------------------
(***************************************************************************)
(* What the code keeps of the Documentation -> Process handover (the       *)
(* header of src/domain/process-handoff.ts): Documentation offers a case,  *)
(* Process takes it or gives it back, and the record of the last of these  *)
(* three steps decides what may be done next.  The header's other promise, *)
(* that what Process holds is out of Documentation's hands, is not kept:   *)
(* TakeBack says what happens instead.                                     *)
(***************************************************************************)
EXTENDS Naturals

VARIABLES
    owner,      \* who holds the case: documentation, offered, process
    record,     \* the last step of the handover: none, offered, taken, given back
    givenBack   \* how many times Process gave it back

Init == owner = "documentation" /\ record = "none" /\ givenBack = 0

\* A case is offered first, or again after Process gave it back; never one that
\* Process was offered or has taken, and that was taken back from it.
Offer ==
    /\ owner = "documentation"
    /\ record \in {"none", "given back"}
    /\ owner' = "offered"
    /\ record' = "offered"
    /\ UNCHANGED givenBack

TakeOver ==
    /\ owner = "offered"
    /\ owner' = "process"
    /\ record' = "taken"
    /\ UNCHANGED givenBack

GiveBack ==
    /\ owner = "offered"
    /\ owner' = "documentation"
    /\ record' = "given back"
    /\ givenBack' = givenBack + 1

\* A manager's override, or a write by id of a request that read the case before
\* it was offered, puts the case back into Documentation's hands.  Process is not
\* asked and the record stays as it was, so that the case cannot be offered again.
TakeBack ==
    /\ owner # "documentation"
    /\ owner' = "documentation"
    /\ UNCHANGED <<record, givenBack>>

Next == Offer \/ TakeOver \/ GiveBack \/ TakeBack

Spec == Init /\ [][Next]_<<owner, record, givenBack>>
=============================================================================
