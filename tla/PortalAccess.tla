---------------------------- MODULE PortalAccess ----------------------------
(***************************************************************************)
(* The client portal of one case (portal.service): what staff publish and  *)
(* whether that lights the portal, the clients' sessions, and the change   *)
(* of the contact the clients prove they hold.  Publishing writes an item, *)
(* reads the case and the counts, and then updates the case conditionally. *)
(* Verifying, confirming the handoff, and requesting, approving or         *)
(* rejecting a change, read in one step and write in another, whatever was *)
(* committed in between; the history field "missed" says what became of a  *)
(* proof in the meantime.                                                  *)
(***************************************************************************)
EXTENDS Integers, FiniteSets

CONSTANTS
    Txn,          \* requests the server may be handling at the same time
    Item,         \* notes and checklist documents of the case
    Phone,        \* what a client can prove, the last four digits
    NoPhone,
    User,         \* staff
    Session,      \* portal sessions that may ever be issued (finite model)
    Change,       \* contact change requests that may ever be made (finite model)
    MAX_ATTEMPTS  \* failed attempts that lock the case number out

ASSUME PhoneAssumption == NoPhone \notin Phone
ASSUME AttemptAssumption == MAX_ATTEMPTS \in Nat \ {0}

VARIABLES
    docCase,    \* the DocCase row, as far as the portal reads or writes it
    visible,    \* the items that are clientVisible
    session,    \* the PortalSession rows
    change,     \* the PortalContactChangeRequest rows
    failures,   \* failed PortalAuthAttempt rows inside the lockout window
    tx          \* what each open request is doing

vars == <<docCase, visible, session, change, failures, tx>>

\* OPEN stands for the statuses between ACTIVE and the end of the Process review.
Status == {"INCOMING", "ACTIVE", "OPEN", "CLOSED_NO_DOCS"}
DocCase == [numbered : BOOLEAN, status : Status, enabled : BOOLEAN, phone : Phone \cup {NoPhone}]

\* What may happen to a proof that no session is revoked for: between it and the session
\* the portal was taken away or a contact change approved; at any time after it a
\* confirmation that had read the case before it was numbered wrote its phone again.
Missable == {"portal", "contact", "confirmation"}

Unused == [state |-> "unused"]
Ended == [state |-> "ended"]   \* revokedAt is set, or expiresAt is past: it never comes back
PortalSession == [state : {"live"}, phone : Phone, missed : SUBSET Missable] \cup {Ended}
PortalContactChangeRequest ==
    [state : {"PENDING", "APPROVED", "REJECTED"}, newPhone : Phone, by : User]

Idle == [pc |-> "idle"]
Work == [pc : {"publish", "unpublish"}, item : Item, enabled : BOOLEAN, canActivate : BOOLEAN]
        \cup [pc : {"verify"}, phone : Phone, missed : SUBSET Missable]
        \cup [pc : {"confirm"}, phone : Phone \cup {NoPhone}]
        \cup [pc : {"request"}, by : User, newPhone : Phone]
        \cup [pc : {"approve", "reject"}, c : Change]

\* A case made by createCase: active, without a case number or a phone.
Init ==
    /\ docCase = [numbered |-> FALSE, status |-> "ACTIVE", enabled |-> FALSE, phone |-> NoPhone]
    /\ visible = {}
    /\ session = [s \in Session |-> Unused]
    /\ change = [c \in Change |-> Unused]
    /\ failures = 0
    /\ tx = [t \in Txn |-> Idle]

-----------------------------------------------------------------------------
At(t, pc) == tx[t].pc = pc
Do(t, work) == tx' = [tx EXCEPT ![t] = work]

\* The open verifications miss what happens to their proof.
Misses(t, what) == IF At(t, "verify") THEN [tx[t] EXCEPT !.missed = @ \cup what] ELSE tx[t]
Passes(what) == tx' = [t \in Txn |-> Misses(t, what)]
Finishes(t, what) == tx' = [u \in Txn |-> IF u = t THEN Idle ELSE Misses(u, what)]

\* What a write that takes the portal away is to them.
Darkens == IF docCase.enabled /\ ~docCase'.enabled THEN {"portal"} ELSE {}

isPortalAccessible == docCase.enabled /\ docCase.phone # NoPhone

Live(s) == session[s].state = "live"

\* Every live session of the case is revoked.
Revoked == [s \in Session |-> IF Live(s) THEN Ended ELSE session[s]]

\* A live session's bearer is shown the case: resolveSession, then getCaseView.
CanView(s) == Live(s) /\ isPortalAccessible

-----------------------------------------------------------------------------
(* Activation.                                                              *)

\* Mutant: the phone is checked, the status is left to the caller's read.
EnablesAnyStatus(case) == ~case.enabled /\ case.phone # NoPhone

\* The WHERE of enablePortalInTx, evaluated on the row as it is when it writes.
Enables(case) == ~case.enabled /\ case.status = "ACTIVE" /\ case.phone # NoPhone

EnablePortal(case) ==
    /\ docCase' = IF Enables(case) THEN [case EXCEPT !.enabled = TRUE] ELSE case
    /\ UNCHANGED session

\* Mutant: the sessions are left to expire.
DisablePortalOnly(case) ==
    /\ docCase' = [case EXCEPT !.enabled = FALSE]
    /\ UNCHANGED session

DisablePortal(case) ==
    /\ docCase' = [case EXCEPT !.enabled = FALSE]
    /\ session' = IF case.enabled THEN Revoked ELSE session

LeavePortal(case) == docCase' = case /\ UNCHANGED session

\* The row lock on the item keeps a second request for it waiting.
Locked(i) == \E t \in Txn : tx[t].pc \in {"publish", "unpublish"} /\ tx[t].item = i

\* The transaction sees its own write and what others have committed.
BeginSetVisibility(t, i, pc) ==
    LET seen == IF pc = "publish" THEN visible \cup {i} ELSE visible \ {i}
    IN /\ At(t, "idle")
       /\ ~Locked(i)
       /\ Do(t, [pc |-> pc, item |-> i, enabled |-> docCase.enabled,
                 canActivate |-> /\ seen # {}
                                 /\ docCase.phone # NoPhone
                                 /\ docCase.status = "ACTIVE"])
       /\ UNCHANGED <<docCase, visible, session, change, failures>>

\* reconcilePortalActivation, from what the request has read.
ReconcilePortalActivation(t) ==
    IF tx[t].canActivate /\ ~tx[t].enabled THEN EnablePortal(docCase)
    ELSE IF ~tx[t].canActivate /\ tx[t].enabled THEN DisablePortal(docCase)
    ELSE LeavePortal(docCase)

CommitSetVisibility(t) ==
    /\ tx[t].pc \in {"publish", "unpublish"}
    /\ visible' = IF At(t, "publish") THEN visible \cup {tx[t].item} ELSE visible \ {tx[t].item}
    /\ ReconcilePortalActivation(t)
    /\ Finishes(t, Darkens)
    /\ UNCHANGED <<change, failures>>

\* Whatever the outcome reported, only a conditional update that found the row changes it.
ActivatePortal ==
    /\ Enables(docCase)
    /\ EnablePortal(docCase)
    /\ UNCHANGED <<visible, change, failures, tx>>

-----------------------------------------------------------------------------
(* Clients.                                                                 *)

\* A probe that is locked out, or finds no accessible portal, or has other digits.
Refused(phone) == failures >= MAX_ATTEMPTS \/ ~isPortalAccessible \/ phone # docCase.phone

BeginVerify(t, phone) ==
    /\ At(t, "idle")
    /\ docCase.numbered
    /\ ~Refused(phone)
    /\ Do(t, [pc |-> "verify", phone |-> phone, missed |-> {}])
    /\ UNCHANGED <<docCase, visible, session, change, failures>>

\* Counting beyond the limit changes nothing.
FailVerify(phone) ==
    /\ docCase.numbered
    /\ Refused(phone)
    /\ failures < MAX_ATTEMPTS
    /\ failures' = failures + 1
    /\ UNCHANGED <<docCase, visible, session, change, tx>>

\* The session is created outside any transaction; recording the success changes no count.
CreateSession(t) ==
    /\ At(t, "verify")
    /\ \E s \in Session :
        /\ session[s] = Unused
        /\ session' = [session EXCEPT ![s] = [state |-> "live", phone |-> tx[t].phone,
                                              missed |-> tx[t].missed]]
    /\ Do(t, Idle)
    /\ UNCHANGED <<docCase, visible, change, failures>>

\* The client signs out, or SESSION_MINUTES pass.
EndSession(s) ==
    /\ Live(s)
    /\ session' = [session EXCEPT ![s] = Ended]
    /\ UNCHANGED <<docCase, visible, change, failures, tx>>

\* LOCKOUT_MINUTES pass.
WindowPasses ==
    /\ failures' = 0
    /\ UNCHANGED <<docCase, visible, session, change, tx>>

RevokeSessions ==
    /\ session' = Revoked
    /\ UNCHANGED <<docCase, visible, change, failures, tx>>

-----------------------------------------------------------------------------
(* The contact change, gated by a second person.                            *)

BeginRequestChange(t, by, newPhone) ==
    /\ At(t, "idle")
    /\ \A c \in Change : change[c].state # "PENDING"
    /\ Do(t, [pc |-> "request", by |-> by, newPhone |-> newPhone])
    /\ UNCHANGED <<docCase, visible, session, change, failures>>

CommitRequestChange(t) ==
    /\ At(t, "request")
    /\ \E c \in Change :
        /\ change[c] = Unused
        /\ change' = [change EXCEPT ![c] = [state |-> "PENDING", newPhone |-> tx[t].newPhone, by |-> tx[t].by]]
    /\ Do(t, Idle)
    /\ UNCHANGED <<docCase, visible, session, failures>>

BeginApproveContactChange(t, c, by) ==
    /\ At(t, "idle")
    /\ change[c].state = "PENDING"
    /\ change[c].by # by
    /\ Do(t, [pc |-> "approve", c |-> c])
    /\ UNCHANGED <<docCase, visible, session, change, failures>>

\* Mutant: the previous holder's sessions survive.
CommitApproveKeeping(t) ==
    /\ At(t, "approve")
    /\ change' = [change EXCEPT ![tx[t].c].state = "APPROVED"]
    /\ docCase' = [docCase EXCEPT !.phone = change[tx[t].c].newPhone]
    /\ Finishes(t, {"contact"})
    /\ UNCHANGED <<visible, session, failures>>

\* The request and the case are updated by id, and every live session is revoked.
CommitApproveContactChange(t) ==
    /\ At(t, "approve")
    /\ change' = [change EXCEPT ![tx[t].c].state = "APPROVED"]
    /\ docCase' = [docCase EXCEPT !.phone = change[tx[t].c].newPhone]
    /\ session' = Revoked
    /\ Finishes(t, {"contact"})
    /\ UNCHANGED <<visible, failures>>

BeginRejectContactChange(t, c) ==
    /\ At(t, "idle")
    /\ change[c].state = "PENDING"
    /\ Do(t, [pc |-> "reject", c |-> c])
    /\ UNCHANGED <<docCase, visible, session, change, failures>>

CommitRejectContactChange(t) ==
    /\ At(t, "reject")
    /\ change' = [change EXCEPT ![tx[t].c].state = "REJECTED"]
    /\ Do(t, Idle)
    /\ UNCHANGED <<docCase, visible, session, failures>>

-----------------------------------------------------------------------------
(* The rest of the case's life, as far as the portal depends on it.         *)

\* A case that has its number is returned as it is.
BeginConfirmHandoff(t, leadPhone) ==
    /\ At(t, "idle")
    /\ ~docCase.numbered
    /\ Do(t, [pc |-> "confirm", phone |-> leadPhone])
    /\ UNCHANGED <<docCase, visible, session, change, failures>>

\* By id: numbered by now or not, the case gets a new number, status and the phone the lead
\* had, and the sessions stay as they are.
CommitConfirmHandoff(t) ==
    /\ At(t, "confirm")
    /\ docCase' = [docCase EXCEPT !.numbered = TRUE, !.status = "INCOMING", !.phone = tx[t].phone]
    /\ session' = [s \in Session |->
           IF Live(s) THEN [session[s] EXCEPT !.missed = @ \cup {"confirmation"}] ELSE session[s]]
    /\ Finishes(t, {"confirmation"})
    /\ UNCHANGED <<visible, change, failures>>

\* That a closing also needs closedAt to be unset is in CaseHandoff; here it may always close.
CloseCase ==
    /\ docCase.status \in {"INCOMING", "ACTIVE"}
    /\ DisablePortal([docCase EXCEPT !.status = "CLOSED_NO_DOCS"])
    /\ Passes(Darkens)
    /\ UNCHANGED <<visible, change, failures>>

ReopenCase ==
    /\ docCase.status = "CLOSED_NO_DOCS"
    /\ docCase' = [docCase EXCEPT !.status = "INCOMING"]
    /\ UNCHANGED <<visible, session, change, failures, tx>>

\* Accepting, recalculating, transferring and returning move an open case.
MoveCase(status) ==
    /\ docCase.status \notin {status, "CLOSED_NO_DOCS"}
    /\ docCase' = [docCase EXCEPT !.status = status]
    /\ UNCHANGED <<visible, session, change, failures, tx>>

-----------------------------------------------------------------------------
Publishing ==
    \/ \E t \in Txn, i \in Item, pc \in {"publish", "unpublish"} : BeginSetVisibility(t, i, pc)
    \/ \E t \in Txn : CommitSetVisibility(t)
    \/ ActivatePortal

Client ==
    \/ \E t \in Txn, p \in Phone : BeginVerify(t, p)
    \/ \E t \in Txn : CreateSession(t)
    \/ \E p \in Phone : FailVerify(p)
    \/ \E s \in Session : EndSession(s)
    \/ WindowPasses

Contact ==
    \/ \E t \in Txn, by \in User, p \in Phone : BeginRequestChange(t, by, p)
    \/ \E t \in Txn, c \in Change, by \in User : BeginApproveContactChange(t, c, by)
    \/ \E t \in Txn, c \in Change : BeginRejectContactChange(t, c)
    \/ \E t \in Txn : CommitRequestChange(t) \/ CommitApproveContactChange(t) \/ CommitRejectContactChange(t)
    \/ RevokeSessions

Case ==
    \/ \E t \in Txn, p \in Phone \cup {NoPhone} : BeginConfirmHandoff(t, p)
    \/ \E t \in Txn : CommitConfirmHandoff(t)
    \/ CloseCase
    \/ ReopenCase
    \/ \E status \in {"ACTIVE", "OPEN"} : MoveCase(status)

Next == Publishing \/ Client \/ Contact \/ Case

Spec == Init /\ [][Next]_vars

-----------------------------------------------------------------------------
\* Every reachable value has its type; the failures never exceed the limit.
TypeOK ==
    /\ docCase \in DocCase
    /\ visible \subseteq Item
    /\ session \in [Session -> PortalSession \cup {Unused}]
    /\ change \in [Change -> PortalContactChangeRequest \cup {Unused}]
    /\ failures \in 0..MAX_ATTEMPTS
    /\ tx \in [Txn -> Work \cup {Idle}]

\* A case closed without documents has no portal, whatever publish, activation or move
\* was under way: both the closing and the enabling are single conditional updates.
ClosedIsDark == docCase.status = "CLOSED_NO_DOCS" => ~docCase.enabled

\* Whatever takes the portal away revokes the sessions, so that none is left to come back
\* when the portal does, but one whose client had proved the phone before and was given it
\* after.
DarkHasNoSession ==
    ~docCase.enabled => \A s \in Session : Live(s) => "portal" \in session[s].missed

\* Nobody is shown the case who proved another contact than it has, unless a change of it
\* was approved between the proof and the session, or a second confirmation that overlapped
\* the first overwrote it and revoked nobody.
SeesWithCurrentPhone ==
    \A s \in Session : CanView(s) =>
        session[s].missed \cap {"contact", "confirmation"} # {} \/ session[s].phone = docCase.phone

=============================================================================
