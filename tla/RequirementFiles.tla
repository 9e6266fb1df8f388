-------------------------- MODULE RequirementFiles --------------------------
(***************************************************************************)
(* The checklist of one case: its requirements (DocCaseDocument), the      *)
(* files uploaded for them (Document) and the progress recorded on the     *)
(* case.  Reviewers (documentation.service.updateDocumentStatus) lock the  *)
(* requirement row first and reach the case row last; uploads, replaces,   *)
(* deletions and file status changes (document.service) lock the case row  *)
(* first.  The two groups meet on row locks, so the locks are modelled:    *)
(* a transaction holds each row it updated or selected FOR UPDATE until it *)
(* ends, waits for a row another one holds, and everything it wrote        *)
(* becomes visible when it commits.  Two transactions that wait for each   *)
(* other are broken by the database aborting one.                          *)
(***************************************************************************)
EXTENDS Naturals, FiniteSets

CONSTANTS
    Txn,    \* transactions that may be open at the same time
    Req,    \* the mandatory requirements of the case
    File,   \* the documents that may ever be uploaded (finite model)
    NoTxn

ASSUME TxnAssumption == NoTxn \notin Txn
ASSUME RowsAssumption == Req \cap File = {} /\ "case" \notin Req \cup File

VARIABLES
    req,    \* status of each requirement
    file,   \* the Document rows
    case,   \* status and isReady of the DocCase row
    lock,   \* the transaction holding each row
    tx      \* the program counter and the reads of each transaction

vars == <<req, file, case, lock, tx>>

ReqStatus == {"PENDING_COLLECTION", "UNDER_VERIFICATION", "APPROVED", "REJECTED"}
FileStatus == {"RECEIVED", "UNDER_REVIEW", "VERIFIED", "REJECTED", "EXPIRED", "ARCHIVED"}
CaseStatus == {"ACTIVE", "DOCUMENTATION_READY", "CLOSED_NO_DOCS"}

VALID_TRANSITIONS ==
    [PENDING_COLLECTION |-> {"UNDER_VERIFICATION"},
     UNDER_VERIFICATION |-> {"APPROVED", "REJECTED"},
     APPROVED |-> {},
     REJECTED |-> {"UNDER_VERIFICATION"}]

DOCUMENT_STATUS_TRANSITIONS ==
    [RECEIVED |-> {"UNDER_REVIEW", "VERIFIED", "REJECTED", "EXPIRED", "ARCHIVED"},
     UNDER_REVIEW |-> {"VERIFIED", "REJECTED", "EXPIRED", "ARCHIVED"},
     VERIFIED |-> {"EXPIRED", "ARCHIVED"},
     REJECTED |-> {}, EXPIRED |-> {"ARCHIVED"}, ARCHIVED |-> {}]

Rows == {"case"} \cup Req \cup File

\* A Document row: unused before it is created, req is the requirement it is for.
Unused == [state |-> "unused"]
FileRow == [state : {"live", "deleted"}, req : Req, active : BOOLEAN,
            status : FileStatus, verifiedAt : BOOLEAN]

Idle == [pc |-> "idle"]
Transaction ==
    [pc : {"files", "recalc", "case", "insert", "file", "req", "commit", "enter"},
     op : {"REVIEW", "UPLOAD", "REPLACE", "DELETE", "PATCH"},
     req : Req, to : ReqStatus \cup FileStatus, old : SUBSET File, new : SUBSET File,
     writesReq : BOOLEAN, ready : {"none", "yes", "no"}]

Init ==
    /\ req = [r \in Req |-> "PENDING_COLLECTION"]
    /\ file = [f \in File |-> Unused]
    /\ case = [status |-> "ACTIVE", isReady |-> FALSE]
    /\ lock = [x \in Rows |-> NoTxn]
    /\ tx = [t \in Txn |-> Idle]

-----------------------------------------------------------------------------
Live(f) == file[f].state = "live"
Active(f) == Live(f) /\ file[f].active
ActiveFiles(r) == {f \in File : Active(f) /\ file[f].req = r}

\* calcProgress: every mandatory requirement approved.
isReady(status) == \A r \in Req : status[r] = "APPROVED"

Free(t, x) == lock[x] \in {t, NoTxn}
Take(t, xs) == lock' = [x \in Rows |-> IF x \in xs THEN t ELSE lock[x]]
Release(t) == lock' = [x \in Rows |-> IF lock[x] = t THEN NoTxn ELSE lock[x]]

At(t, pc) == tx[t].pc = pc
Continue(t, record) == tx' = [tx EXCEPT ![t] = record]

\* Start op for requirement r: old files it will deactivate, new files it creates.
Start(t, pc, op, r, to, old, new) ==
    Continue(t, [pc |-> pc, op |-> op, req |-> r, to |-> to, old |-> old, new |-> new,
                 writesReq |-> op = "REVIEW", ready |-> "none"])

RollBack(t) ==
    /\ Continue(t, Idle)
    /\ Release(t)
    /\ UNCHANGED <<req, file, case>>

-----------------------------------------------------------------------------
(* documentation.service.updateDocumentStatus: SELECT ... FOR UPDATE of the *)
(* requirement, then the checks on what is read under that lock.            *)

\* Mutant: the requirement is read without locking it.
BeginReviewUnlocked(t, r, to) ==
    /\ At(t, "idle")
    /\ to \in VALID_TRANSITIONS[req[r]]
    /\ to = "APPROVED" => ActiveFiles(r) # {}
    /\ Start(t, IF to = "REJECTED" THEN "files" ELSE "req", "REVIEW", r, to,
             IF to = "REJECTED" THEN ActiveFiles(r) ELSE {}, {})
    /\ UNCHANGED <<req, file, case, lock>>

BeginReview(t, r, to) ==
    /\ At(t, "idle")
    /\ Free(t, r)
    /\ to \in VALID_TRANSITIONS[req[r]]
    /\ to = "APPROVED" => ActiveFiles(r) # {}
    /\ Take(t, {r})
    /\ Start(t, IF to = "REJECTED" THEN "files" ELSE "recalc", "REVIEW", r, to,
             IF to = "REJECTED" THEN ActiveFiles(r) ELSE {}, {})
    /\ UNCHANGED <<req, file, case>>

\* A rejection deactivates the active files its statement found: it waits for
\* their rows and skips those that are no longer active by then.
LockRejectedFiles(t) ==
    /\ At(t, "files")
    /\ \A f \in tx[t].old : Free(t, f)
    /\ LET still == {f \in tx[t].old : Active(f)}
       IN /\ Take(t, still)
          /\ Continue(t, [tx[t] EXCEPT !.pc = "recalc", !.old = still])
    /\ UNCHANGED <<req, file, case>>

\* Mutant: the transaction asks again and again for the case row, a wait the
\* database's deadlock detector knows nothing of.
ReadChecklistPolling(t) ==
    /\ At(t, "recalc")
    /\ Free(t, "case")
    /\ Continue(t, [tx[t] EXCEPT !.pc = "case",
                     !.ready = IF isReady([req EXCEPT ![tx[t].req] = tx[t].to])
                               THEN "yes" ELSE "no"])
    /\ UNCHANGED <<req, file, case, lock>>

\* _recalcAndUpdateCase reads the case and the checklist (its own write included)
\* and only then writes the case row.
ReadChecklist(t) ==
    /\ At(t, "recalc")
    /\ Continue(t,
         IF case.status = "CLOSED_NO_DOCS"
         THEN [tx[t] EXCEPT !.pc = "commit"]
         ELSE [tx[t] EXCEPT !.pc = "case",
                 !.ready = IF isReady([req EXCEPT ![tx[t].req] = tx[t].to])
                           THEN "yes" ELSE "no"])
    /\ UNCHANGED <<req, file, case, lock>>

LockCaseRow(t) ==
    /\ At(t, "case")
    /\ Free(t, "case")
    /\ Take(t, {"case"})
    /\ Continue(t, [tx[t] EXCEPT !.pc = "commit"])
    /\ UNCHANGED <<req, file, case>>

-----------------------------------------------------------------------------
(* document.service: the case row is locked first.                          *)

EnterCase(t) ==
    /\ At(t, "idle")
    /\ Free(t, "case")
    /\ Take(t, {"case"})
    /\ UNCHANGED <<req, file, case>>

BeginUpload(t, r, f) ==
    /\ EnterCase(t)
    /\ file[f] = Unused
    /\ Start(t, "insert", "UPLOAD", r, "UNDER_VERIFICATION", {}, {f})

\* The target is read again under the lock and must still be active.
BeginReplace(t, f, g) ==
    /\ EnterCase(t)
    /\ Active(f)
    /\ file[g] = Unused
    /\ Start(t, "file", "REPLACE", file[f].req, "UNDER_VERIFICATION", {f}, {g})

\* Mutant: the status that was read before the case was locked decides.
BeginPatchStale(t, f, to) ==
    /\ At(t, "idle")
    /\ Active(f)
    /\ to \in DOCUMENT_STATUS_TRANSITIONS[file[f].status]
    /\ Start(t, "file", "PATCH", file[f].req, to, {f}, {})
    /\ UNCHANGED <<req, file, case, lock>>

BeginPatch(t, f, to) ==
    /\ EnterCase(t)
    /\ Active(f)
    /\ to \in DOCUMENT_STATUS_TRANSITIONS[file[f].status]
    /\ Start(t, "file", "PATCH", file[f].req, to, {f}, {})

\* softDelete finds the document, waits for the case and does not look again.
BeginDelete(t, f) ==
    /\ At(t, "idle")
    /\ Live(f)
    /\ Start(t, "enter", "DELETE", file[f].req, "PENDING_COLLECTION", {f}, {})
    /\ UNCHANGED <<req, file, case, lock>>

LockCaseToDelete(t) ==
    /\ At(t, "enter")
    /\ Free(t, "case")
    /\ Take(t, {"case"})
    /\ Continue(t, [tx[t] EXCEPT !.pc = "file"])
    /\ UNCHANGED <<req, file, case>>

\* Mutant: removing the last file does not look at the requirement.
LockFileForget(t) ==
    /\ At(t, "file")
    /\ \A f \in tx[t].old : Free(t, f)
    /\ Take(t, tx[t].old)
    /\ Continue(t, [tx[t] EXCEPT !.pc = IF tx[t].op = "REPLACE" THEN "insert" ELSE "commit"])
    /\ UNCHANGED <<req, file, case>>

\* The update of the old document.  A deletion that leaves no active file resets
\* the requirement, unless it is pending already.
LockFile(t) ==
    LET resets == /\ tx[t].op = "DELETE"
                  /\ ActiveFiles(tx[t].req) \subseteq tx[t].old
                  /\ req[tx[t].req] # "PENDING_COLLECTION"
    IN /\ At(t, "file")
       /\ \A f \in tx[t].old : Free(t, f)
       /\ Take(t, tx[t].old)
       /\ Continue(t, [tx[t] EXCEPT
              !.pc = CASE tx[t].op = "REPLACE" -> "insert"
                       [] resets -> "req"
                       [] OTHER -> "commit",
              !.writesReq = resets])
       /\ UNCHANGED <<req, file, case>>

\* The active files of the requirement that the new row would collide with in
\* the partial unique index.
Colliding(t) == ActiveFiles(tx[t].req) \ tx[t].old

\* Creates the document, then transitionRequirementInTx: a requirement already
\* under verification is left alone (and neither locked nor recalculated).
Insert(t) ==
    /\ At(t, "insert")
    /\ Colliding(t) = {}
    /\ LET status == req[tx[t].req]
           noop == status = "UNDER_VERIFICATION"
       IN /\ noop \/ "UNDER_VERIFICATION" \in VALID_TRANSITIONS[status]
          /\ Continue(t, [tx[t] EXCEPT !.pc = IF noop THEN "commit" ELSE "req",
                                       !.writesReq = ~noop])
    /\ UNCHANGED <<req, file, case, lock>>

\* The unique index, or a requirement that takes no upload, aborts the request.
\* A row some other transaction is deactivating is waited for.
RefuseInsert(t) ==
    /\ At(t, "insert")
    /\ IF Colliding(t) = {}
       THEN req[tx[t].req] = "APPROVED"
       ELSE \A f \in Colliding(t) : Free(t, f)
    /\ RollBack(t)

\* The update of the requirement by id, whatever its status has become.
LockRequirement(t) ==
    /\ At(t, "req")
    /\ Free(t, tx[t].req)
    /\ Take(t, {tx[t].req})
    /\ Continue(t, [tx[t] EXCEPT !.pc = "recalc"])
    /\ UNCHANGED <<req, file, case>>

-----------------------------------------------------------------------------
(* Commit: everything the transaction wrote becomes visible.                *)

NewRow(t, verified) ==
    [state |-> "live", req |-> tx[t].req, active |-> TRUE,
     status |-> IF verified THEN "VERIFIED" ELSE "RECEIVED", verifiedAt |-> verified]

\* updateStatus: VERIFIED stamps verifiedAt; leaving it for REJECTED or EXPIRED
\* clears the stamp; ARCHIVED keeps it.
Patched(row, to) ==
    [row EXCEPT !.status = to,
                !.verifiedAt = \/ to = "VERIFIED"
                               \/ @ /\ to \notin {"REJECTED", "EXPIRED"}]

\* What the transaction does to the row of an old file.
Written(t, row) ==
    CASE tx[t].op = "PATCH" -> Patched(row, tx[t].to)
      [] tx[t].op = "DELETE" -> [row EXCEPT !.state = "deleted", !.active = FALSE]
      [] OTHER -> [row EXCEPT !.active = FALSE]

Commit(t) ==
    /\ At(t, "commit")
    /\ \E verified \in BOOLEAN :
           /\ verified => tx[t].new # {}
           /\ file' = [f \in File |-> CASE f \in tx[t].new -> NewRow(t, verified)
                                        [] f \in tx[t].old -> Written(t, file[f])
                                        [] OTHER -> file[f]]
    /\ req' = IF tx[t].writesReq THEN [req EXCEPT ![tx[t].req] = tx[t].to] ELSE req
    /\ case' = IF tx[t].ready = "none" \/ case.status = "CLOSED_NO_DOCS" THEN case
               ELSE [status |-> IF tx[t].ready = "yes" THEN "DOCUMENTATION_READY" ELSE "ACTIVE",
                     isReady |-> tx[t].ready = "yes"]
    /\ Release(t)
    /\ Continue(t, Idle)

\* case-lifecycle.service closes the case meanwhile: its update needs the row.
CloseCase ==
    /\ lock["case"] = NoTxn
    /\ case.status = "ACTIVE"
    /\ case' = [case EXCEPT !.status = "CLOSED_NO_DOCS"]
    /\ UNCHANGED <<req, file, lock, tx>>

-----------------------------------------------------------------------------
\* The rows a transaction is about to lock.
Wanted(t) ==
    CASE tx[t].pc \in {"files", "file"} -> tx[t].old
      [] tx[t].pc \in {"case", "enter"} -> {"case"}
      [] tx[t].pc = "req" -> {tx[t].req}
      [] tx[t].pc = "insert" -> Colliding(t)
      [] OTHER -> {}

WaitsFor(t, u) == t # u /\ \E x \in Wanted(t) : lock[x] = u

\* The database breaks a cycle of waiting transactions by aborting one of them.
DeadlockVictim(t) ==
    /\ \E C \in SUBSET Txn : t \in C /\ \A u \in C : \E v \in C : WaitsFor(u, v)
    /\ RollBack(t)

\* Any other failure inside the transaction.
Fail(t) == ~At(t, "idle") /\ RollBack(t)

\* The requests, by what they are about.
Reviews(t) == \E r \in Req, to \in ReqStatus : BeginReview(t, r, to)

FileRequests(t) ==
    \/ \E r \in Req, f \in File : BeginUpload(t, r, f)
    \/ \E f \in File, g \in File : BeginReplace(t, f, g)
    \/ \E f \in File, to \in FileStatus : BeginPatch(t, f, to)
    \/ \E f \in File : BeginDelete(t, f)

Step(t) ==
    \/ LockRejectedFiles(t) \/ ReadChecklist(t) \/ LockCaseRow(t) \/ LockCaseToDelete(t)
    \/ LockFile(t) \/ Insert(t) \/ RefuseInsert(t) \/ LockRequirement(t) \/ Commit(t)

Next ==
    \/ \E t \in Txn : Reviews(t) \/ FileRequests(t) \/ Step(t) \/ DeadlockVictim(t) \/ Fail(t)
    \/ CloseCase

Spec == Init /\ [][Next]_vars

\* A transaction whose statement can run runs it: the server and the database keep
\* working, and the queue of a row lock is served in order, so nobody is overtaken for
\* ever.  The database's detector fires for a cycle that stays.
FairSpec == Spec /\ \A t \in Txn : SF_vars(Step(t)) /\ WF_vars(DeadlockVictim(t))

-----------------------------------------------------------------------------
\* Every reachable value has its type.
TypeOK ==
    /\ req \in [Req -> ReqStatus]
    /\ file \in [File -> FileRow \cup {Unused}]
    /\ case \in [status : CaseStatus, isReady : BOOLEAN]
    /\ lock \in [Rows -> Txn \cup {NoTxn}]
    /\ tx \in [Txn -> Transaction \cup {Idle}]

\* An approved requirement has an active file: no deletion slips between the
\* reviewer's count of the files and the approval, though the two operations
\* lock different rows first.
ApprovedHasFile == \A r \in Req : req[r] = "APPROVED" => ActiveFiles(r) # {}

\* Requirement r leaves a reviewer's decision otherwise than the code means to: an
\* approval is undone only by removing the file, a rejection only by a new submission.
Overturned(r) ==
    \/ req[r] = "APPROVED" /\ req'[r] \notin {"APPROVED", "PENDING_COLLECTION"}
    \/ req[r] = "REJECTED" /\ req'[r] = "APPROVED"

\* On an open case a reviewer's decision stands: an upload or a replacement that read
\* the requirement before the decision cannot be written over it.
VerdictStands == [][case.status # "CLOSED_NO_DOCS" => ~\E r \in Req : Overturned(r)]_vars

\* Of two conflicting status changes of one file exactly one wins: every committed
\* change follows the transition table from the status it replaces.
FileFollowsTable ==
    [][\A f \in File :
         Live(f) /\ file[f].status # file'[f].status
           => file'[f].status \in DOCUMENT_STATUS_TRANSITIONS[file[f].status]]_vars

\* Every transaction ends: waiting on row locks is always resolved.
EveryTransactionEnds == \A t \in Txn : ~At(t, "idle") ~> At(t, "idle")
=============================================================================
