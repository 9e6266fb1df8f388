---------------------------- MODULE CaseHandoff ----------------------------
(***************************************************************************)
(* One DocCase row and the requests that move it: Sales -> Documentation   *)
(* (handoff.service), Documentation -> Process (documentation.service and  *)
(* process-handoff.service), and the close/reopen pair (case-lifecycle).   *)
(*                                                                         *)
(* Every operation is an interactive transaction at READ COMMITTED.  A     *)
(* request that reads the row, decides, and then writes is TWO steps here: *)
(* Begin reads and checks the guard, Commit performs the write with what   *)
(* was read; other requests may commit in between.  An `update` by id      *)
(* writes whatever the row has become; an `updateMany` whose WHERE names   *)
(* the status is evaluated against the row as it is when it writes, and    *)
(* matching no row aborts the request.  All the writes of one transaction  *)
(* become visible together, so the write and the commit are one step, and  *)
(* a rollback (failed audit append, lost connection) is Abort.             *)
(***************************************************************************)
EXTENDS Naturals

CONSTANTS
    Txn,            \* requests that may be in flight at the same time
    Reasons,        \* HandoffReturnReason
    ReviewReasons,  \* ALWAYS_MANAGER_REVIEW
    EvidenceKinds,  \* the proofs of a fix that can appear: phone, preset, override
    MaxReturns,     \* bound on the committed REJECTs and RETURNs
    MaxProcessReturns \* bound on the committed Process returns

ASSUME ReasonsAssumption == ReviewReasons \subseteq Reasons
ASSUME BoundsAssumption == MaxReturns \in Nat /\ MaxProcessReturns \in Nat
ASSUME EvidenceAssumption == EvidenceKinds \subseteq {"phone", "preset", "override"}

NoReason == "NO_REASON"
ASSUME NoReasonAssumption == NoReason \notin Reasons

VARIABLES
    row,        \* the DocCase row
    evidence,   \* what a reason-coded resend is checked against: the phone or the
                \* preset differs from its snapshot, a contact override is approved
    tx,         \* the request each transaction is executing
    returns     \* history: committed REJECT and RETURN operations

vars == <<row, evidence, tx, returns>>

DocCaseStatus == {"INCOMING", "ACTIVE", "RETURNED", "DOCUMENTATION_READY",
                  "PENDING_PROCESS_REVIEW", "RETURNED_TO_DOCUMENTATION",
                  "TRANSFERRED_TO_PROCESS", "CLOSED_NO_DOCS"}
HandoffState == {"NONE", "HANDED_OFF", "ACCEPTED", "RETURNED", "RESENT",
                 "MANAGER_REVIEW_REQUIRED"}
ProcessHandoffState == {"NONE", "PENDING_REVIEW", "ACCEPTED", "RETURNED"}

Closable == {"INCOMING", "ACTIVE"}
RecalcMutable == {"ACTIVE", "DOCUMENTATION_READY"}
TerminalStatuses == {"CLOSED_NO_DOCS"}
DocumentationOwned == {"ACTIVE", "DOCUMENTATION_READY", "RETURNED_TO_DOCUMENTATION"}

\* The row before createCase or confirmHandoff: no DocCase exists.
Absent == "ABSENT"

Operations == {"CREATE", "CONFIRM_NEW", "CONFIRM", "ACCEPT", "REJECT", "RETURN",
               "RESEND", "CLEAR_REVIEW", "TRANSFER", "P_ACCEPT", "P_RETURN",
               "RECALC", "RECALC_PROGRESS"}

Idle == [op |-> "IDLE", reason |-> NoReason, count |-> 0, ready |-> FALSE]

Request == [op : Operations \cup {"IDLE"}, reason : Reasons \cup {NoReason},
            count : Nat, ready : BOOLEAN]

Row == [status : DocCaseStatus \cup {Absent}, handoffState : HandoffState,
        returnCount : Nat, managerReviewRequired : BOOLEAN,
        returnReasonCode : Reasons \cup {NoReason}, numbered : BOOLEAN,
        processHandoffState : ProcessHandoffState, processReturnCount : Nat,
        closedAt : BOOLEAN, isReady : BOOLEAN, managerOverride : BOOLEAN]

Init ==
    /\ row = [status |-> Absent, handoffState |-> "NONE", returnCount |-> 0,
              managerReviewRequired |-> FALSE, returnReasonCode |-> NoReason,
              numbered |-> FALSE, processHandoffState |-> "NONE",
              processReturnCount |-> 0, closedAt |-> FALSE, isReady |-> FALSE,
              managerOverride |-> FALSE]
    /\ evidence = {}
    /\ tx = [t \in Txn |-> Idle]
    /\ returns = 0

-----------------------------------------------------------------------------
(* A request's first half: read the row, pass the guard, remember what the  *)
(* write will use.                                                          *)

Begin(t, op, reason, count, ready) ==
    /\ tx[t] = Idle
    /\ tx' = [tx EXCEPT ![t] = [op |-> op, reason |-> reason, count |-> count,
                                ready |-> ready]]
    /\ UNCHANGED <<row, evidence, returns>>

Finish(t, op) ==
    /\ tx[t].op = op
    /\ tx' = [tx EXCEPT ![t] = Idle]

\* canTransition of src/domain/handoff.ts, with the status and state it reads.
CanConfirm == row.handoffState = "NONE"
CanAccept == row.status = "INCOMING"
CanReject == row.status = "INCOMING"
CanReturn == row.status \in DocumentationOwned
CanResend ==
    /\ ~row.managerReviewRequired
    /\ row.status \in {"INCOMING", "RETURNED"}
    /\ row.handoffState \in {"RETURNED", "NONE"}

\* checkResendAllowed: the reason code decides what counts as proof.
ResendProof(reason) ==
    /\ reason \notin ReviewReasons
    /\ reason = "WRONG_OR_MISSING_CONTACT" => evidence \cap {"phone", "override"} # {}
    /\ reason = "WRONG_PRESET" => "preset" \in evidence

requiresManagerReviewAfterReturn(count, reason) ==
    reason \in ReviewReasons \/ count >= 2

-----------------------------------------------------------------------------
(* documentation.service.createCase and handoff.service.confirmHandoff.     *)

BeginCreateCase(t) ==
    /\ row.status = Absent
    /\ \E ready \in BOOLEAN : Begin(t, "CREATE", NoReason, 0, ready)

CommitCreateCase(t) ==
    /\ Finish(t, "CREATE")
    /\ row.status = Absent   \* unique (tenantId, leadId)
    /\ row' = [row EXCEPT !.status = "ACTIVE", !.isReady = tx[t].ready]
    /\ UNCHANGED <<evidence, returns>>

BeginConfirm(t) ==
    /\ ~row.numbered         \* otherwise the existing case is returned as it is
    /\ CanConfirm
    /\ Begin(t, IF row.status = Absent THEN "CONFIRM_NEW" ELSE "CONFIRM",
             NoReason, 0, FALSE)

HandedOff == [row EXCEPT !.status = "INCOMING", !.handoffState = "HANDED_OFF",
                         !.numbered = TRUE]

CommitConfirmNew(t) ==
    /\ Finish(t, "CONFIRM_NEW")
    /\ row.status = Absent
    /\ row' = HandedOff
    /\ UNCHANGED <<evidence, returns>>

\* The preset named by the request need not be the preset of the case.
CommitConfirm(t) ==
    /\ Finish(t, "CONFIRM")
    /\ row' = HandedOff
    /\ \E preset \in SUBSET (EvidenceKinds \cap {"preset"}) :
           evidence' = (evidence \cap {"override"}) \cup preset
    /\ UNCHANGED returns

\* case-id.service: numbers a case that has no number (read and write under
\* one unique index; the number's own uniqueness is not this module's matter).
GenerateCaseId ==
    /\ row.status # Absent
    /\ ~row.numbered
    /\ row' = [row EXCEPT !.numbered = TRUE]
    /\ UNCHANGED <<evidence, tx, returns>>

-----------------------------------------------------------------------------
(* handoff.service: unconditional updates by id.                            *)

BeginAccept(t) == CanAccept /\ Begin(t, "ACCEPT", NoReason, 0, FALSE)

CommitAccept(t) ==
    /\ Finish(t, "ACCEPT")
    /\ row' = [row EXCEPT !.status = "ACTIVE", !.handoffState = "ACCEPTED"]
    /\ UNCHANGED <<evidence, returns>>

BeginReject(t) ==
    /\ CanReject
    /\ \E reason \in Reasons : Begin(t, "REJECT", reason, row.returnCount, FALSE)

BeginReturn(t) ==
    /\ CanReturn
    /\ \E reason \in Reasons : Begin(t, "RETURN", reason, row.returnCount, FALSE)

\* Mutant: the give-back leaves the status as it finds it.
GivenBackInPlace(t, status) ==
    LET review == requiresManagerReviewAfterReturn(tx[t].count + 1, tx[t].reason)
    IN [row EXCEPT !.handoffState = IF review THEN "MANAGER_REVIEW_REQUIRED" ELSE "RETURNED",
                   !.returnCount = tx[t].count + 1,
                   !.returnReasonCode = tx[t].reason,
                   !.managerReviewRequired = review]

\* The row a reject or a return writes: the count is the one that was READ, plus one.
GivenBack(t, status) ==
    LET count == tx[t].count + 1
        review == requiresManagerReviewAfterReturn(count, tx[t].reason)
    IN [row EXCEPT !.status = status,
                   !.handoffState = IF review THEN "MANAGER_REVIEW_REQUIRED" ELSE "RETURNED",
                   !.returnCount = count,
                   !.returnReasonCode = tx[t].reason,
                   !.managerReviewRequired = review]

CommitReject(t) ==
    /\ returns < MaxReturns
    /\ Finish(t, "REJECT")
    /\ row' = GivenBack(t, "INCOMING")
    /\ returns' = returns + 1
    /\ UNCHANGED evidence

CommitReturn(t) ==
    /\ returns < MaxReturns
    /\ Finish(t, "RETURN")
    /\ row' = GivenBack(t, "RETURNED")
    /\ returns' = returns + 1
    /\ UNCHANGED evidence

BeginResend(t) ==
    /\ CanResend
    /\ ResendProof(row.returnReasonCode)
    /\ Begin(t, "RESEND", NoReason, 0, FALSE)

\* Re-snapshots the phone and the preset; returnCount and the review flag stay.
CommitResend(t) ==
    /\ Finish(t, "RESEND")
    /\ row' = [row EXCEPT !.status = "INCOMING", !.handoffState = "RESENT",
                          !.returnReasonCode = NoReason]
    /\ evidence' = evidence \cap {"override"}
    /\ UNCHANGED returns

BeginClearReview(t) ==
    /\ row.managerReviewRequired
    /\ Begin(t, "CLEAR_REVIEW", NoReason, 0, FALSE)

CommitClearReview(t) ==
    /\ Finish(t, "CLEAR_REVIEW")
    /\ row' = [row EXCEPT !.managerReviewRequired = FALSE, !.handoffState = "RETURNED"]
    /\ UNCHANGED <<evidence, returns>>

-----------------------------------------------------------------------------
(* documentation.service and process-handoff.service: the Process side.     *)

\* managerOverride writes in one statement, whatever the status is.
ManagerOverride ==
    /\ row.status # Absent
    /\ row' = [row EXCEPT !.managerOverride = TRUE, !.isReady = TRUE,
                          !.status = "DOCUMENTATION_READY"]
    /\ UNCHANGED <<evidence, tx, returns>>

\* canTransition and precondition of src/domain/process-handoff.ts: one set.
CanTransfer ==
    /\ row.status \in DocumentationOwned
    /\ row.processHandoffState \in {"NONE", "RETURNED"}
PendingProcess ==
    /\ row.status = "PENDING_PROCESS_REVIEW"
    /\ row.processHandoffState = "PENDING_REVIEW"

BeginTransfer(t) ==
    /\ CanTransfer
    /\ row.isReady \/ row.managerOverride
    /\ Begin(t, "TRANSFER", NoReason, 0, FALSE)

\* Mutant: the second dimension is not written.
CommitTransferStatusOnly(t) ==
    /\ Finish(t, "TRANSFER")
    /\ CanTransfer
    /\ row' = [row EXCEPT !.status = "PENDING_PROCESS_REVIEW"]
    /\ UNCHANGED <<evidence, returns>>

CommitTransfer(t) ==
    /\ Finish(t, "TRANSFER")
    /\ CanTransfer           \* the WHERE clause; no row is a ConflictError
    /\ row' = [row EXCEPT !.status = "PENDING_PROCESS_REVIEW",
                          !.processHandoffState = "PENDING_REVIEW"]
    /\ UNCHANGED <<evidence, returns>>

BeginProcessAccept(t) == PendingProcess /\ Begin(t, "P_ACCEPT", NoReason, 0, FALSE)

CommitProcessAccept(t) ==
    /\ Finish(t, "P_ACCEPT")
    /\ PendingProcess
    /\ row' = [row EXCEPT !.status = "TRANSFERRED_TO_PROCESS",
                          !.processHandoffState = "ACCEPTED"]
    /\ UNCHANGED <<evidence, returns>>

BeginProcessReturn(t) ==
    PendingProcess /\ Begin(t, "P_RETURN", NoReason, row.processReturnCount, FALSE)

\* Mutant: the counter is written from the value that was read.
CommitProcessReturnStale(t) ==
    /\ row.processReturnCount < MaxProcessReturns
    /\ Finish(t, "P_RETURN")
    /\ PendingProcess
    /\ row' = [row EXCEPT !.status = "RETURNED_TO_DOCUMENTATION",
                          !.processHandoffState = "RETURNED",
                          !.processReturnCount = tx[t].count + 1]
    /\ UNCHANGED <<evidence, returns>>

\* processReturnCount is incremented by the database, not from the value read.
CommitProcessReturn(t) ==
    /\ row.processReturnCount < MaxProcessReturns
    /\ Finish(t, "P_RETURN")
    /\ PendingProcess
    /\ row' = [row EXCEPT !.status = "RETURNED_TO_DOCUMENTATION",
                          !.processHandoffState = "RETURNED",
                          !.processReturnCount = @ + 1]
    /\ UNCHANGED <<evidence, returns>>

-----------------------------------------------------------------------------
(* _recalcAndUpdateCase: skip a terminal case, compute the progress (any    *)
(* outcome of the checklist is possible here), update the status where it   *)
(* is mutable, otherwise the progress alone where the case is not terminal. *)

BeginRecalc(t) ==
    /\ row.status \notin TerminalStatuses \cup {Absent}
    /\ \E ready \in BOOLEAN : Begin(t, "RECALC", NoReason, 0, ready)

CommitRecalc(t) ==
    /\ Finish(t, "RECALC")
    /\ row.status \in RecalcMutable
    /\ row' = [row EXCEPT !.isReady = tx[t].ready,
                  !.status = IF tx[t].ready THEN "DOCUMENTATION_READY" ELSE "ACTIVE"]
    /\ UNCHANGED <<evidence, returns>>

RecalcStatusMissed(t) ==
    /\ tx[t].op = "RECALC"
    /\ row.status \notin RecalcMutable
    /\ tx' = [tx EXCEPT ![t].op = "RECALC_PROGRESS"]
    /\ UNCHANGED <<row, evidence, returns>>

CommitRecalcProgress(t) ==
    /\ Finish(t, "RECALC_PROGRESS")
    /\ row' = IF row.status \in TerminalStatuses THEN row
              ELSE [row EXCEPT !.isReady = tx[t].ready]
    /\ UNCHANGED <<evidence, returns>>

-----------------------------------------------------------------------------
(* case-lifecycle.service: one conditional updateMany each.                 *)

CloseWithoutDocs ==
    /\ row.status \in Closable
    /\ ~row.closedAt
    /\ row' = [row EXCEPT !.status = "CLOSED_NO_DOCS", !.closedAt = TRUE,
                          !.managerReviewRequired = FALSE]
    /\ UNCHANGED <<evidence, tx, returns>>

ReopenCase ==
    /\ row.status = "CLOSED_NO_DOCS"
    /\ row' = [row EXCEPT !.status = "INCOMING", !.closedAt = FALSE]
    /\ UNCHANGED <<evidence, tx, returns>>

-----------------------------------------------------------------------------
\* Sales edits the lead's phone (lead.service); a manager approves a portal
\* contact change (portal.service.approveContactChange).
EditLeadPhone ==
    /\ row.status # Absent
    /\ "phone" \in EvidenceKinds
    /\ \/ evidence' = evidence \cup {"phone"}
       \/ evidence' = evidence \ {"phone"}
    /\ UNCHANGED <<row, tx, returns>>

ApproveContactChange ==
    /\ row.status # Absent
    /\ "override" \in EvidenceKinds
    /\ evidence' = evidence \cup {"override"}
    /\ UNCHANGED <<row, tx, returns>>

\* The transaction rolls back: a lost race, a failed audit append, a timeout.
Abort(t) ==
    /\ tx[t] # Idle
    /\ tx' = [tx EXCEPT ![t] = Idle]
    /\ UNCHANGED <<row, evidence, returns>>

BeginSome(t) ==
    \/ BeginCreateCase(t) \/ BeginConfirm(t) \/ BeginAccept(t) \/ BeginReject(t)
    \/ BeginReturn(t) \/ BeginResend(t) \/ BeginClearReview(t) \/ BeginTransfer(t)
    \/ BeginProcessAccept(t) \/ BeginProcessReturn(t) \/ BeginRecalc(t)

CommitSome(t) ==
    \/ CommitCreateCase(t) \/ CommitConfirmNew(t) \/ CommitConfirm(t)
    \/ CommitAccept(t) \/ CommitReject(t) \/ CommitReturn(t) \/ CommitResend(t)
    \/ CommitClearReview(t) \/ CommitTransfer(t) \/ CommitProcessAccept(t)
    \/ CommitProcessReturn(t) \/ CommitRecalc(t) \/ RecalcStatusMissed(t)
    \/ CommitRecalcProgress(t)

SingleStatement ==
    \/ GenerateCaseId \/ ManagerOverride \/ CloseWithoutDocs \/ ReopenCase
    \/ EditLeadPhone \/ ApproveContactChange

Next ==
    \/ \E t \in Txn : BeginSome(t) \/ CommitSome(t) \/ Abort(t)
    \/ SingleStatement

Spec == Init /\ [][Next]_vars

-----------------------------------------------------------------------------
(* Properties that hold however the requests interleave.                    *)

\* Every reachable value has its type.
TypeOK ==
    /\ row \in Row
    /\ evidence \in SUBSET EvidenceKinds
    /\ tx \in [Txn -> Request]
    /\ returns \in Nat

\* The status never claims more about Process than the second handoff dimension
\* recorded: a case shown as under review, owned or sent back by Process got
\* there through the preconditioned updates, whatever stale `update` by id of
\* handoff.service, override or recalculation ran in between.
ProcessCoherence ==
    /\ row.status = "PENDING_PROCESS_REVIEW" => row.processHandoffState = "PENDING_REVIEW"
    /\ row.status = "TRANSFERRED_TO_PROCESS" => row.processHandoffState = "ACCEPTED"
    /\ row.status = "RETURNED_TO_DOCUMENTATION" => row.processHandoffState = "RETURNED"

\* A case that reads CLOSED_NO_DOCS carries its closing stamp and waits for no
\* manager, although clearManagerReview, resend, accept and recalculation may all
\* be between their read and their write when it closes.
ClosedIsSettled ==
    row.status = "CLOSED_NO_DOCS" => row.closedAt /\ ~row.managerReviewRequired

\* The status says who can work on the case: canTransition gives Documentation its
\* own statuses (documentation.service.ts:154), Process the two that it names.
Owner ==
    CASE row.status = "PENDING_PROCESS_REVIEW" -> "offered"
      [] row.status = "TRANSFERRED_TO_PROCESS" -> "process"
      [] OTHER -> "documentation"

\* The second dimension is the record of the handover's last step.
Record ==
    CASE row.processHandoffState = "PENDING_REVIEW" -> "offered"
      [] row.processHandoffState = "ACCEPTED" -> "taken"
      [] row.processHandoffState = "RETURNED" -> "given back"
      [] OTHER -> "none"

Ownership == INSTANCE ProcessOwnership
                 WITH owner <- Owner, record <- Record,
                      givenBack <- row.processReturnCount

\* Under every interleaving the case moves as the ownership protocol says: offered
\* before Process takes it, given back only while it is offered and each time
\* counted once (also when a stale request meets the case offered again), and never
\* taken by Process after it was taken back.  What the code lets Documentation do
\* with a case that Process holds is in the protocol too: an override, or a stale
\* write by id, takes it back and leaves the record, after which no transfer can
\* offer the case again.
ImplementsOwnership == Ownership!Spec
=============================================================================
