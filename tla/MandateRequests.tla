--------------------------- MODULE MandateRequests ---------------------------
(***************************************************************************)
(* The mandate requests of one case (mandate.service), the files uploaded  *)
(* for them and the objects in storage.  A client confirms an upload with  *)
(* a token, staff with a session; both gate the staged object, copy it to  *)
(* its final key, delete the staged one and record a MandateUpload, in     *)
(* separate steps that can each be the last one.  Staff decisions read the *)
(* request and then write it by id, whatever it has become.  The case      *)
(* closes, reopens and moves on, links expire and the sweeps run meanwhile.*)
(***************************************************************************)
EXTENDS Naturals, FiniteSets

CONSTANTS
    Txn,         \* requests the server may be handling at the same time
    MaxRequest,  \* mandate requests that may ever be created (finite model)
    Upload,      \* uploadIds that may ever be handed out (finite model)
    MaxPuts,     \* PUTs that may ever be made (finite model)
    Firm,        \* marks the uploads staff make
    NoRequest

Request == 1..MaxRequest

ASSUME BoundAssumption == MaxRequest \in Nat /\ MaxPuts \in Nat
ASSUME MarksAssumption == Firm \notin Request /\ NoRequest \notin Request

VARIABLES
    caseStatus,  \* ACTIVE, READY (a later open status) or CLOSED_NO_DOCS
    request,     \* the MandateRequest rows, numbered in the order of creation
    upload,      \* per uploadId: the staged and the final object and the row
    tx           \* what each open request is doing

vars == <<caseStatus, request, upload, tx>>

MandateRequestStatus ==
    {"PENDING_UPLOAD", "UPLOADED", "VERIFIED", "REJECTED", "EXPIRED", "SUPERSEDED"}

Unused == [state |-> "unused"]
RequestRow == [state : {"used"}, status : MandateRequestStatus, tokenExpired : BOOLEAN]

\* staged: nothing was put there yet, what was put there last, or removed.  swapped: an
\* object was put there after a confirmation had gated the one before and not copied it.
Kind == {"clean", "infected", "invalid"}
UploadRow == [state : {"used"}, of : Request \cup {Firm}, staged : {"url", "gone"} \cup Kind,
              final : Kind \cup {"none"}, row : Request \cup {NoRequest}, puts : Nat, swapped : BOOLEAN]

Idle == [pc |-> "idle"]
Work == [pc : {"send", "regenerate", "verify", "reject"}, r : Request \cup {NoRequest}]
        \cup [pc : {"claim", "infected", "refuse", "copy", "unstage", "record"},
              r : Request \cup {Firm}, u : Upload]

Init ==
    /\ caseStatus = "ACTIVE"
    /\ request = [r \in Request |-> Unused]
    /\ upload = [u \in Upload |-> Unused]
    /\ tx = [t \in Txn |-> Idle]

-----------------------------------------------------------------------------
Has(r, S) == request[r] # Unused /\ request[r].status \in S
With(S) == {r \in Request : Has(r, S)}
RowsOf(r) == {u \in Upload : upload[u] # Unused /\ upload[u].row = r}

At(t, pc) == tx[t].pc = pc
Do(t, work) == tx' = [tx EXCEPT ![t] = work]

\* Requests rs get the status, and new, if any, is created as a pending request.
Write(rs, status, new) ==
    request' = [r \in Request |->
        CASE r \in rs -> [request[r] EXCEPT !.status = status]
          [] r \in new -> [state |-> "used", status |-> "PENDING_UPLOAD", tokenExpired |-> FALSE]
          [] OTHER -> request[r]]

\* The next id, if the model has one left.
Fresh == {r \in Request : request[r] = Unused /\ \A q \in 1..(r - 1) : request[q] # Unused}

OPEN_CASE_STATUSES == {"ACTIVE"}
CaseAcceptsUploads == caseStatus # "CLOSED_NO_DOCS"

\* A link accepts uploads while its request is pending, unexpired, and the case is not closed.
LinkAccepts(r) == CaseAcceptsUploads /\ Has(r, {"PENDING_UPLOAD"}) /\ ~request[r].tokenExpired

-----------------------------------------------------------------------------
(* Staff: each operation reads in one step and writes in another.           *)

\* The newest request that is neither verified, superseded nor expired.
Existing == LET active == With({"PENDING_UPLOAD", "UPLOADED", "REJECTED"})
            IN {r \in active : \A q \in active : q <= r}

BeginSend(t) ==
    /\ At(t, "idle")
    /\ caseStatus \in OPEN_CASE_STATUSES
    /\ \A r \in Existing : ~Has(r, {"UPLOADED"})
    /\ \E r \in IF Existing = {} THEN {NoRequest} ELSE Existing : Do(t, [pc |-> "send", r |-> r])
    /\ UNCHANGED <<caseStatus, request, upload>>

BeginRegenerate(t, r) ==
    /\ At(t, "idle")
    /\ CaseAcceptsUploads
    /\ Has(r, {"PENDING_UPLOAD", "EXPIRED", "REJECTED"})
    /\ Do(t, [pc |-> "regenerate", r |-> r])
    /\ UNCHANGED <<caseStatus, request, upload>>

\* Supersedes the request that was read and creates the new one.
CommitNewLink(t) ==
    /\ tx[t].pc \in {"send", "regenerate"}
    /\ Fresh # {}
    /\ Write({tx[t].r} \cap Request, "SUPERSEDED", Fresh)
    /\ Do(t, Idle)
    /\ UNCHANGED <<caseStatus, upload>>

BeginDecision(t, r, decision) ==
    /\ At(t, "idle")
    /\ Has(r, {"UPLOADED"})
    /\ Cardinality(RowsOf(r)) <= 1
    /\ Do(t, [pc |-> decision, r |-> r])
    /\ UNCHANGED <<caseStatus, request, upload>>

CommitDecision(t) ==
    /\ tx[t].pc \in {"verify", "reject"}
    /\ Write({tx[t].r}, IF At(t, "verify") THEN "VERIFIED" ELSE "REJECTED", {})
    /\ Do(t, Idle)
    /\ UNCHANGED <<caseStatus, upload>>

-----------------------------------------------------------------------------
(* Uploading: a presigned URL, the client's PUT, the confirmation.          *)

GenerateUploadUrl(r, u) ==
    /\ LinkAccepts(r)
    /\ upload[u] = Unused
    /\ upload' = [upload EXCEPT ![u] = [state |-> "used", of |-> r, staged |-> "url",
                                        final |-> "none", row |-> NoRequest,
                                        puts |-> 0, swapped |-> FALSE]]
    /\ UNCHANGED <<caseStatus, request, tx>>

FirmUploadUrl(u) ==
    /\ CaseAcceptsUploads
    /\ upload[u] = Unused
    /\ upload' = [upload EXCEPT ![u] = [state |-> "used", of |-> Firm, staged |-> "url",
                                        final |-> "none", row |-> NoRequest,
                                        puts |-> 0, swapped |-> FALSE]]
    /\ UNCHANGED <<caseStatus, request, tx>>

\* A confirmation of u that has gated the staged object and is still to copy it.
ToCopy(u) == {t \in Txn : tx[t].pc \in {"claim", "copy"} /\ tx[t].u = u}

Puts == Cardinality({p \in Upload \X (1..MaxPuts) : upload[p[1]] # Unused /\ p[2] <= upload[p[1]].puts})

\* The URL is good for 900 seconds (no clock here) and any number of PUTs: each replaces
\* what is staged, or stages it again.
PutObject(u, kind) ==
    /\ upload[u] # Unused /\ Puts < MaxPuts
    /\ upload' = [upload EXCEPT ![u] = [upload[u] EXCEPT !.staged = kind, !.puts = @ + 1,
                                                          !.swapped = @ \/ ToCopy(u) # {}]]
    /\ UNCHANGED <<caseStatus, request, tx>>

Staged(u) == upload[u] # Unused /\ upload[u].staged \in Kind

\* Mutant: a scanner that is down lets the object pass.
GateOpen(u, onClean) == IF upload[u].staged = "invalid" THEN "refuse" ELSE onClean

\* Where the gates send a staged object: an invalid one is refused and deleted, an
\* infected one is deleted, a clean one goes on.  A scanner that is down ends the
\* request and leaves everything for a retry, which is not to begin at all.
Gate(u, onClean) ==
    CASE upload[u].staged = "invalid" -> "refuse"
      [] upload[u].staged = "infected" -> "infected"
      [] OTHER -> onClean

BeginConfirm(t, u) ==
    /\ At(t, "idle")
    /\ Staged(u) /\ upload[u].of \in Request
    /\ LinkAccepts(upload[u].of)
    /\ Do(t, [pc |-> Gate(u, "claim"), r |-> upload[u].of, u |-> u])
    /\ UNCHANGED <<caseStatus, request, upload>>

\* A prior confirmation of the uploadId is answered as it is, without a new one.
BeginFirmConfirm(t, u) ==
    /\ At(t, "idle")
    /\ Staged(u) /\ upload[u].of = Firm /\ upload[u].row = NoRequest
    /\ CaseAcceptsUploads
    /\ Do(t, [pc |-> Gate(u, "copy"), r |-> Firm, u |-> u])
    /\ UNCHANGED <<caseStatus, request, upload>>

Refuse(t) ==
    /\ At(t, "refuse")
    /\ upload' = [upload EXCEPT ![tx[t].u].staged = "gone"]
    /\ Do(t, Idle)
    /\ UNCHANGED <<caseStatus, request>>

\* handleInfectedUpload deletes the object (a failure to is only logged), then rejects
\* the request if it is still pending.  Dying in between leaves what SweepStaging leaves.
DeleteInfected(t) ==
    /\ At(t, "infected")
    /\ upload' \in {upload, [upload EXCEPT ![tx[t].u].staged = "gone"]}
    /\ request' = IF tx[t].r # Firm /\ Has(tx[t].r, {"PENDING_UPLOAD"})
                  THEN [request EXCEPT ![tx[t].r].status = "REJECTED"] ELSE request
    /\ Do(t, Idle)
    /\ UNCHANGED caseStatus

\* Mutant: the request is marked uploaded without looking at it again.
ClaimAlways(t) ==
    /\ At(t, "claim")
    /\ Write({tx[t].r}, "UPLOADED", {})
    /\ Do(t, [tx[t] EXCEPT !.pc = "copy"])
    /\ UNCHANGED <<caseStatus, upload>>

\* Of several confirmations one finds the request pending; the others get CONFLICT.
Claim(t) ==
    /\ At(t, "claim")
    /\ IF Has(tx[t].r, {"PENDING_UPLOAD"})
       THEN Write({tx[t].r}, "UPLOADED", {}) /\ Do(t, [tx[t] EXCEPT !.pc = "copy"])
       ELSE Do(t, Idle) /\ UNCHANGED request
    /\ UNCHANGED <<caseStatus, upload>>

\* What is staged by now is copied, if it is still there (another confirmation may have
\* removed it).
Copy(t) ==
    /\ At(t, "copy")
    /\ IF Staged(tx[t].u)
       THEN /\ upload' = [upload EXCEPT ![tx[t].u].final = upload[tx[t].u].staged]
            /\ Do(t, [tx[t] EXCEPT !.pc = "unstage"])
       ELSE Do(t, Idle) /\ UNCHANGED upload
    /\ UNCHANGED <<caseStatus, request>>

Unstage(t) ==
    /\ At(t, "unstage")
    /\ upload' = [upload EXCEPT ![tx[t].u].staged = "gone"]
    /\ Do(t, [tx[t] EXCEPT !.pc = "record"])
    /\ UNCHANGED <<caseStatus, request>>

Record(t) ==
    /\ At(t, "record") /\ tx[t].r # Firm
    /\ upload' = [upload EXCEPT ![tx[t].u].row = tx[t].r]
    /\ Do(t, Idle)
    /\ UNCHANGED <<caseStatus, request>>

\* Staff uploads supersede every request that may be superseded, in the transaction
\* that creates the new one.  A second confirmation of the uploadId hits its unique
\* index and is answered with the first one's result.
FirmCommit(t, verified) ==
    /\ At(t, "record") /\ tx[t].r = Firm
    /\ IF upload[tx[t].u].row # NoRequest THEN UNCHANGED <<request, upload>>
       ELSE \E new \in Fresh :
        /\ request' = [r \in Request |->
               IF r = new THEN [state |-> "used", tokenExpired |-> TRUE,
                                status |-> IF verified THEN "VERIFIED" ELSE "UPLOADED"]
               ELSE IF Has(r, {"PENDING_UPLOAD", "UPLOADED", "REJECTED", "EXPIRED"})
                    THEN [request[r] EXCEPT !.status = "SUPERSEDED"] ELSE request[r]]
        /\ upload' = [upload EXCEPT ![tx[t].u].row = new]
    /\ Do(t, Idle)
    /\ UNCHANGED caseStatus

\* The process dies, or storage or the database fails, between two steps.
Fail(t) ==
    /\ ~At(t, "idle")
    /\ Do(t, Idle)
    /\ UNCHANGED <<caseStatus, request, upload>>

-----------------------------------------------------------------------------
\* Mutant: closing the case leaves its links pending.
CloseCaseOnly ==
    /\ caseStatus = "ACTIVE"
    /\ caseStatus' = "CLOSED_NO_DOCS"
    /\ UNCHANGED <<request, upload, tx>>

\* Closing supersedes the pending requests in the same transaction.
CloseCase ==
    /\ caseStatus = "ACTIVE"
    /\ caseStatus' = "CLOSED_NO_DOCS"
    /\ Write(With({"PENDING_UPLOAD"}), "SUPERSEDED", {})
    /\ UNCHANGED <<upload, tx>>

ReopenCase ==
    /\ caseStatus = "CLOSED_NO_DOCS"
    /\ caseStatus' = "ACTIVE"
    /\ UNCHANGED <<request, upload, tx>>

\* The checklist makes the case ready, or unready again.
CaseMoves ==
    /\ caseStatus # "CLOSED_NO_DOCS"
    /\ caseStatus' \in {"ACTIVE", "READY"} \ {caseStatus}
    /\ UNCHANGED <<request, upload, tx>>

TokenExpires(r) ==
    /\ Has(r, {"PENDING_UPLOAD"}) /\ ~request[r].tokenExpired
    /\ request' = [request EXCEPT ![r].tokenExpired = TRUE]
    /\ UNCHANGED <<caseStatus, upload, tx>>

Overdue == {r \in With({"PENDING_UPLOAD"}) : request[r].tokenExpired}

ExpirePendingMandates ==
    /\ Overdue # {}
    /\ Write(Overdue, "EXPIRED", {})
    /\ UNCHANGED <<caseStatus, upload, tx>>

\* The sweep removes an object that has been staged for a day.
SweepStaging(u) ==
    /\ Staged(u)
    /\ upload' = [upload EXCEPT ![u].staged = "gone"]
    /\ UNCHANGED <<caseStatus, request, tx>>

StaffRequests(t) ==
    \/ BeginSend(t)
    \/ \E r \in Request : BeginRegenerate(t, r)
    \/ \E r \in Request, decision \in {"verify", "reject"} : BeginDecision(t, r, decision)
    \/ \E u \in Upload : FirmUploadUrl(u) \/ BeginFirmConfirm(t, u)

\* The holder of a link.
ClientRequests(t) ==
    \E u \in Upload : BeginConfirm(t, u) \/ (\E r \in Request : GenerateUploadUrl(r, u))

Step(t) ==
    \/ CommitNewLink(t) \/ CommitDecision(t)
    \/ Refuse(t) \/ DeleteInfected(t) \/ Claim(t) \/ Copy(t) \/ Unstage(t) \/ Record(t)
    \/ \E verified \in BOOLEAN : FirmCommit(t, verified)

Environment ==
    \/ \E u \in Upload : SweepStaging(u)
    \/ \E u \in Upload, kind \in Kind : PutObject(u, kind)
    \/ CloseCase \/ ReopenCase \/ CaseMoves
    \/ \E r \in Request : TokenExpires(r)
    \/ ExpirePendingMandates

Next == (\E t \in Txn : StaffRequests(t) \/ ClientRequests(t) \/ Step(t) \/ Fail(t)) \/ Environment

Spec == Init /\ [][Next]_vars

-----------------------------------------------------------------------------
\* Every reachable value has its type.
TypeOK ==
    /\ caseStatus \in {"ACTIVE", "READY", "CLOSED_NO_DOCS"}
    /\ request \in [Request -> RequestRow \cup {Unused}]
    /\ upload \in [Upload -> UploadRow \cup {Unused}]
    /\ tx \in [Txn -> Work \cup {Idle}]

\* A request never gets two uploads, however many confirmations of it run at once:
\* verifyMandate and rejectMandate refuse such a request as an invariant violation.
OneUploadPerRequest == \A r \in Request : Cardinality(RowsOf(r)) <= 1

\* What lies at a final key passed every gate, unless another object was put in its place
\* between the gates and the copy, which nothing prevents; and an upload that is recorded
\* has its object there: the record is written after the copy, and the sweep and other
\* confirmations only ever remove staged objects.
OnlyGatedIsKept ==
    \A u \in Upload : upload[u] # Unused =>
        /\ upload[u].swapped \/ upload[u].final \in {"none", "clean"}
        /\ upload[u].row # NoRequest => upload[u].final # "none"

\* A client's upload is taken only while the case is not closed, also when the case
\* closes between the confirmation's check and its write.
ClosedTakesNoClientUpload ==
    [][caseStatus = "CLOSED_NO_DOCS" =>
         \A r \in Request : Has(r, {"PENDING_UPLOAD"}) => request'[r].status # "UPLOADED"]_vars
=============================================================================
