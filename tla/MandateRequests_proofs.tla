----------------------- MODULE MandateRequests_proofs -----------------------
(***************************************************************************)
(* Theorems about MandateRequests for any number of requests in flight,    *)
(* mandate requests and uploads.  The claim is what keeps uploads apart: a *)
(* mandate request leaves PENDING_UPLOAD once and never returns, so one    *)
(* confirmation at most is past the claim of it, and until that has        *)
(* recorded its upload there is none.                                      *)
(***************************************************************************)
EXTENDS MandateRequests, FiniteSetTheorems, TLAPS

Pending(r) == Has(r, {"PENDING_UPLOAD"})

\* A client's confirmation of r that has claimed it.
Claims(t, r) == tx[t].pc \in {"copy", "unstage", "record"} /\ tx[t].r = r

\* What an open request has read is there.
Known ==
    \A t \in Txn : tx[t] # Idle =>
        /\ tx[t].r \in Request => request[tx[t].r] # Unused
        /\ At(t, "claim") => tx[t].r \in Request
        /\ tx[t].pc \in {"claim", "infected", "refuse", "copy", "unstage", "record"} => upload[tx[t].u] # Unused

\* A confirmation that goes on has passed the gates with what is staged, unless that was
\* swapped since, and has copied an object before it records one.
Gated ==
    \A t \in Txn :
        /\ tx[t].pc \in {"claim", "copy"} =>
              upload[tx[t].u].swapped \/ upload[tx[t].u].staged \in {"clean", "gone"}
        /\ tx[t].pc \in {"unstage", "record"} => upload[tx[t].u].final # "none"

\* A claimed request is not pending, has no upload yet, and is claimed by one only.
Claimed ==
    \A t \in Txn, r \in Request : Claims(t, r) =>
        /\ ~Pending(r)
        /\ RowsOf(r) = {}
        /\ \A s \in Txn : Claims(s, r) => s = t

\* A request with an upload is there and not pending, and has no other upload.
Recorded ==
    \A r \in Request : \A u \in RowsOf(r) :
        /\ request[r] # Unused /\ ~Pending(r)
        /\ \A v \in RowsOf(r) : v = u

\* While the case is closed no confirmation is about to claim a pending request.
Shut == caseStatus = "CLOSED_NO_DOCS" => \A t \in Txn : At(t, "claim") => ~Pending(tx[t].r)

IInv == TypeOK /\ Known /\ Gated /\ OnlyGatedIsKept /\ Claimed /\ Recorded /\ Shut

-----------------------------------------------------------------------------
LEMMA InitIInv == Init => IInv
<1> SUFFICES ASSUME Init PROVE IInv
  OBVIOUS
<1>1. TypeOK
  BY DEF Init, TypeOK
<1>2. Known /\ Gated /\ Claimed /\ Shut
  BY DEF Init, Known, Gated, Claimed, Shut, Claims, Idle
<1>3. OnlyGatedIsKept /\ Recorded
  BY DEF Init, OnlyGatedIsKept, Recorded, RowsOf
<1> QED BY <1>1, <1>2, <1>3 DEF IInv

LEMMA BeginSendKeeps == ASSUME IInv, NEW t \in Txn, BeginSend(t) PROVE IInv'
<1>1. TypeOK'
  BY DEF IInv, BeginSend, Do, Existing, With, TypeOK, Work
<1>2. Known'
  BY MarksAssumption DEF IInv, BeginSend, Do, Existing, With, Known, At, Has
<1>3. Gated'
  BY DEF IInv, BeginSend, Do, Gated
<1>4. OnlyGatedIsKept'
  BY DEF IInv, BeginSend, OnlyGatedIsKept
<1>5. Claimed'
  BY DEF IInv, BeginSend, Do, Claimed, Claims, Pending, Has, RowsOf
<1>6. Recorded'
  BY DEF IInv, BeginSend, Recorded, Pending, Has, RowsOf
<1>7. Shut'
  BY DEF IInv, BeginSend, Do, Shut, Pending, At, Has
<1> QED BY <1>1, <1>2, <1>3, <1>4, <1>5, <1>6, <1>7 DEF IInv

LEMMA BeginRegenerateKeeps == ASSUME IInv, NEW t \in Txn, NEW r \in Request, BeginRegenerate(t, r) PROVE IInv'
<1>1. TypeOK'
  BY DEF IInv, BeginRegenerate, Do, TypeOK, Work
<1>2. Known'
  BY DEF IInv, BeginRegenerate, Do, Known, At, Has
<1>3. Gated'
  BY DEF IInv, BeginRegenerate, Do, Gated
<1>4. OnlyGatedIsKept'
  BY DEF IInv, BeginRegenerate, OnlyGatedIsKept
<1>5. Claimed'
  BY DEF IInv, BeginRegenerate, Do, Claimed, Claims, Pending, Has, RowsOf
<1>6. Recorded'
  BY DEF IInv, BeginRegenerate, Recorded, Pending, Has, RowsOf
<1>7. Shut'
  BY DEF IInv, BeginRegenerate, Do, Shut, Pending, At, Has
<1> QED BY <1>1, <1>2, <1>3, <1>4, <1>5, <1>6, <1>7 DEF IInv

LEMMA CommitNewLinkKeeps == ASSUME IInv, NEW t \in Txn, CommitNewLink(t) PROVE IInv'
<1>1. TypeOK'
  BY DEF IInv, CommitNewLink, Do, Write, Fresh, TypeOK, RequestRow, MandateRequestStatus, Unused
<1>2. Known'
  BY DEF IInv, CommitNewLink, Do, Write, Fresh, TypeOK, Known, RequestRow, Unused, At
<1>3. Gated'
  BY DEF IInv, CommitNewLink, Do, Write, Fresh, Gated, Idle
<1>4. OnlyGatedIsKept'
  BY DEF IInv, CommitNewLink, Write, Fresh, OnlyGatedIsKept
<1>5. Claimed'
  BY DEF IInv, CommitNewLink, Do, Write, Fresh, Known, Claimed, Claims, Pending, Idle, Has, RowsOf
<1>6. Recorded'
  BY DEF IInv, CommitNewLink, Write, Fresh, TypeOK, Recorded, Pending, RequestRow, MandateRequestStatus, Unused, Has,
     RowsOf
<1>7. Shut'
  BY DEF IInv, CommitNewLink, Do, Write, Fresh, Known, Shut, Pending, Idle, At, Has
<1> QED BY <1>1, <1>2, <1>3, <1>4, <1>5, <1>6, <1>7 DEF IInv

LEMMA BeginDecisionKeeps == ASSUME IInv, NEW t \in Txn, NEW r \in Request, NEW decision \in {"verify", "reject"}, BeginDecision(t, r, decision) PROVE IInv'
<1>1. TypeOK'
  BY DEF IInv, BeginDecision, Do, TypeOK, Work
<1>2. Known'
  BY DEF IInv, BeginDecision, Do, Known, At, Has
<1>3. Gated'
  BY DEF IInv, BeginDecision, Do, Gated
<1>4. OnlyGatedIsKept'
  BY DEF IInv, BeginDecision, OnlyGatedIsKept
<1>5. Claimed'
  BY DEF IInv, BeginDecision, Do, Claimed, Claims, Pending, Has, RowsOf
<1>6. Recorded'
  BY DEF IInv, BeginDecision, Recorded, Pending, Has, RowsOf
<1>7. Shut'
  BY DEF IInv, BeginDecision, Do, Shut, Pending, At, Has
<1> QED BY <1>1, <1>2, <1>3, <1>4, <1>5, <1>6, <1>7 DEF IInv

LEMMA CommitDecisionKeeps == ASSUME IInv, NEW t \in Txn, CommitDecision(t) PROVE IInv'
<1>1. TypeOK'
  BY DEF IInv, CommitDecision, Do, Write, TypeOK, RequestRow, MandateRequestStatus, Unused
<1>2. Known'
  BY DEF IInv, CommitDecision, Do, Write, TypeOK, Known, RequestRow, Unused, At
<1>3. Gated'
  BY DEF IInv, CommitDecision, Do, Write, Gated, Idle
<1>4. OnlyGatedIsKept'
  BY DEF IInv, CommitDecision, Write, OnlyGatedIsKept
<1>5. Claimed'
  BY DEF IInv, CommitDecision, Do, Write, Claimed, Claims, Pending, Idle, Has, RowsOf
<1>6. Recorded'
  BY DEF IInv, CommitDecision, Write, TypeOK, Recorded, Pending, RequestRow, MandateRequestStatus, Unused, Has, RowsOf
<1>7. Shut'
  BY DEF IInv, CommitDecision, Do, Write, Known, Shut, Pending, Idle, At, Has
<1> QED BY <1>1, <1>2, <1>3, <1>4, <1>5, <1>6, <1>7 DEF IInv

LEMMA GenerateUploadUrlKeeps == ASSUME IInv, NEW r \in Request, NEW u \in Upload, GenerateUploadUrl(r, u) PROVE IInv'
<1>1. TypeOK'
  BY DEF IInv, GenerateUploadUrl, LinkAccepts, TypeOK, UploadRow
<1>2. Known'
  BY DEF IInv, GenerateUploadUrl, LinkAccepts, Known, At
<1>3. Gated'
  BY DEF IInv, GenerateUploadUrl, LinkAccepts, Known, Gated, Idle
<1>4. OnlyGatedIsKept'
  BY DEF IInv, GenerateUploadUrl, LinkAccepts, OnlyGatedIsKept
<1>5. Claimed'
  BY MarksAssumption DEF IInv, GenerateUploadUrl, LinkAccepts, Claimed, Claims, Pending, Has, RowsOf
<1>6. Recorded'
  BY MarksAssumption DEF IInv, GenerateUploadUrl, LinkAccepts, Recorded, Pending, Has, RowsOf
<1>7. Shut'
  BY DEF IInv, GenerateUploadUrl, LinkAccepts, Shut, Pending, At, Has
<1> QED BY <1>1, <1>2, <1>3, <1>4, <1>5, <1>6, <1>7 DEF IInv

LEMMA FirmUploadUrlKeeps == ASSUME IInv, NEW u \in Upload, FirmUploadUrl(u) PROVE IInv'
<1>1. TypeOK'
  BY DEF IInv, FirmUploadUrl, TypeOK, UploadRow
<1>2. Known'
  BY DEF IInv, FirmUploadUrl, Known, At
<1>3. Gated'
  BY DEF IInv, FirmUploadUrl, Known, Gated, Idle
<1>4. OnlyGatedIsKept'
  BY DEF IInv, FirmUploadUrl, OnlyGatedIsKept
<1>5. Claimed'
  BY MarksAssumption DEF IInv, FirmUploadUrl, Claimed, Claims, Pending, Has, RowsOf
<1>6. Recorded'
  BY MarksAssumption DEF IInv, FirmUploadUrl, Recorded, Pending, Has, RowsOf
<1>7. Shut'
  BY DEF IInv, FirmUploadUrl, Shut, Pending, At, Has
<1> QED BY <1>1, <1>2, <1>3, <1>4, <1>5, <1>6, <1>7 DEF IInv

LEMMA PutObjectKeeps == ASSUME IInv, NEW u \in Upload, NEW kind \in Kind, PutObject(u, kind) PROVE IInv'
<1> DEFINE row == [upload[u] EXCEPT !.staged = kind, !.puts = @ + 1, !.swapped = @ \/ ToCopy(u) # {}]
<1>1. upload[u] \in UploadRow /\ upload \in [Upload -> UploadRow \cup {Unused}]
  BY DEF IInv, PutObject, TypeOK
<1>2. upload' = [upload EXCEPT ![u] = row] /\ UNCHANGED <<caseStatus, request, tx>>
  BY DEF PutObject
<1>3. /\ row \in UploadRow /\ row # Unused /\ row.final = upload[u].final /\ row.row = upload[u].row
      /\ upload[u].swapped => row.swapped
      /\ ToCopy(u) # {} => row.swapped
  <2> DEFINE x == upload[u]
             swapped == x.swapped \/ ToCopy(u) # {}
             puts == x.puts + 1
  <2>1. swapped \in BOOLEAN
    OBVIOUS
  <2>2. puts \in Nat
    BY <1>1 DEF UploadRow
  <2>3. row = [x EXCEPT !.staged = kind, !.puts = puts, !.swapped = swapped]
    OBVIOUS
  <2>4. x.swapped \/ ToCopy(u) # {} => swapped
    OBVIOUS
  <2> HIDE DEF row, swapped, puts, x
  <2>5. x \in UploadRow
    BY <1>1 DEF x
  <2>6. row \in UploadRow /\ row.final = x.final /\ row.row = x.row /\ row.swapped = swapped
    BY <2>1, <2>2, <2>3, <2>5 DEF UploadRow
  <2>7. row # Unused
    BY <2>6 DEF UploadRow, Unused
  <2> QED BY <2>4, <2>6, <2>7 DEF x
<1> HIDE DEF row
<1>4. /\ upload' \in [Upload -> UploadRow \cup {Unused}]
      /\ \A v \in Upload : upload'[v] = IF v = u THEN row ELSE upload[v]
  BY <1>1, <1>2, <1>3
<1>5. upload[u] # Unused
  BY DEF PutObject
<1>6. TypeOK'
  BY <1>2, <1>4 DEF IInv, TypeOK
<1>7. Known'
  BY <1>2, <1>3, <1>4 DEF IInv, TypeOK, Known, At, Work, Idle
<1>8. Gated'
  <2>1. ASSUME NEW t \in Txn PROVE
           /\ tx[t].pc \in {"claim", "copy"} =>
                 upload'[tx[t].u].swapped \/ upload'[tx[t].u].staged \in {"clean", "gone"}
           /\ tx[t].pc \in {"unstage", "record"} => upload'[tx[t].u].final # "none"
    <3>1. tx[t].pc \in {"claim", "copy", "unstage", "record"} => tx[t].u \in Upload
      BY DEF IInv, TypeOK, Work, Idle
    <3>2. tx[t].pc \in {"claim", "copy"} /\ tx[t].u = u => row.swapped
      BY <1>3 DEF ToCopy
    <3> QED BY <1>3, <1>4, <3>1, <3>2 DEF IInv, Gated
  <2> QED BY <1>2, <2>1 DEF Gated
<1>9. OnlyGatedIsKept'
  BY <1>3, <1>4, <1>5 DEF IInv, OnlyGatedIsKept
<1>10. \A r \in Request : RowsOf(r)' = RowsOf(r)
  BY <1>3, <1>4, <1>5 DEF RowsOf
<1>11. Claimed' /\ Recorded'
  BY <1>2, <1>10 DEF IInv, Claimed, Claims, Recorded, Pending, Has
<1>12. Shut'
  BY <1>2 DEF IInv, Shut, Pending, At, Has
<1> QED BY <1>6, <1>7, <1>8, <1>9, <1>11, <1>12 DEF IInv

LEMMA BeginConfirmKeeps == ASSUME IInv, NEW t \in Txn, NEW u \in Upload, BeginConfirm(t, u) PROVE IInv'
<1>1. TypeOK'
  BY DEF IInv, BeginConfirm, Do, Staged, Gate, LinkAccepts, CaseAcceptsUploads, TypeOK, Work
<1>2. Known'
  BY DEF IInv, BeginConfirm, Do, Staged, Gate, LinkAccepts, CaseAcceptsUploads, Known, At, Has
<1>3. Gated'
  BY DEF IInv, BeginConfirm, Do, Staged, Gate, LinkAccepts, CaseAcceptsUploads, Gated, UploadRow, Kind
<1>4. OnlyGatedIsKept'
  BY DEF IInv, BeginConfirm, Staged, Gate, LinkAccepts, CaseAcceptsUploads, OnlyGatedIsKept
<1>5. Claimed'
  BY DEF IInv, BeginConfirm, Do, Staged, Gate, LinkAccepts, CaseAcceptsUploads, Claimed, Claims, Pending, Has, RowsOf
<1>6. Recorded'
  BY DEF IInv, BeginConfirm, Staged, Gate, LinkAccepts, CaseAcceptsUploads, Recorded, Pending, Has, RowsOf
<1>7. Shut'
  BY DEF BeginConfirm, Staged, Gate, LinkAccepts, CaseAcceptsUploads, Shut, Pending
<1> QED BY <1>1, <1>2, <1>3, <1>4, <1>5, <1>6, <1>7 DEF IInv

LEMMA BeginFirmConfirmKeeps == ASSUME IInv, NEW t \in Txn, NEW u \in Upload, BeginFirmConfirm(t, u) PROVE IInv'
<1>1. TypeOK'
  BY DEF IInv, BeginFirmConfirm, Do, Staged, Gate, TypeOK, Work
<1>2. Known'
  BY MarksAssumption DEF IInv, BeginFirmConfirm, Do, Staged, Gate, Known, At
<1>3. Gated'
  BY DEF IInv, BeginFirmConfirm, Do, Staged, Gate, Gated, UploadRow, Kind
<1>4. OnlyGatedIsKept'
  BY DEF IInv, BeginFirmConfirm, Staged, Gate, OnlyGatedIsKept
<1>5. Claimed'
  BY MarksAssumption DEF IInv, BeginFirmConfirm, Do, Staged, Gate, Claimed, Claims, Pending, Has, RowsOf
<1>6. Recorded'
  BY DEF IInv, BeginFirmConfirm, Staged, Gate, Recorded, Pending, Has, RowsOf
<1>7. Shut'
  BY DEF IInv, BeginFirmConfirm, Do, Staged, Gate, Shut, Pending, At, Has
<1> QED BY <1>1, <1>2, <1>3, <1>4, <1>5, <1>6, <1>7 DEF IInv

LEMMA RefuseKeeps == ASSUME IInv, NEW t \in Txn, Refuse(t) PROVE IInv'
<1>1. TypeOK'
  <2> DEFINE u == tx[t].u
  <2>1. u \in Upload /\ upload[u] \in UploadRow
    BY DEF IInv, Known, TypeOK, Work, Refuse, At, Unused, Idle
  <2>2. [upload[u] EXCEPT !.staged = "gone"] \in UploadRow
    BY <2>1 DEF UploadRow
  <2>3. upload' \in [Upload -> UploadRow \cup {Unused}]
    BY <2>1, <2>2 DEF IInv, TypeOK, Refuse
  <2> QED BY <2>3 DEF IInv, TypeOK, Refuse, Do
<1>2. Known'
  BY DEF IInv, Refuse, Do, TypeOK, Known, UploadRow, Unused, At
<1>3. Gated'
  BY DEF IInv, Refuse, Do, Gated, Idle
<1>4. OnlyGatedIsKept'
  BY DEF IInv, Refuse, Unused, OnlyGatedIsKept
<1>5. Claimed'
  BY DEF IInv, Refuse, Do, Claimed, Claims, Pending, Unused, Idle, Has, RowsOf
<1>6. Recorded'
  BY DEF IInv, Refuse, Recorded, Pending, Unused, Has, RowsOf
<1>7. Shut'
  BY DEF IInv, Refuse, Do, Shut, Pending, Idle, At, Has
<1> QED BY <1>1, <1>2, <1>3, <1>4, <1>5, <1>6, <1>7 DEF IInv

LEMMA DeleteInfectedKeeps == ASSUME IInv, NEW t \in Txn, DeleteInfected(t) PROVE IInv'
<1>1. TypeOK'
  BY DEF IInv, DeleteInfected, Do, TypeOK, Work, UploadRow, RequestRow, MandateRequestStatus, Unused, Idle, At
<1>2. Known'
  BY DEF IInv, DeleteInfected, Do, TypeOK, Known, Work, UploadRow, RequestRow, Unused, At
<1>3. Gated'
  BY DEF IInv, DeleteInfected, Do, TypeOK, Gated, Work, UploadRow, Unused, Idle
<1>4. OnlyGatedIsKept'
  BY DEF IInv, DeleteInfected, TypeOK, UploadRow, Unused, OnlyGatedIsKept
<1>5. Claimed'
  BY DEF IInv, DeleteInfected, Do, TypeOK, Claimed, Claims, Pending, UploadRow, Unused, Idle, Has, RowsOf
<1>6. Recorded'
  BY DEF IInv, DeleteInfected, TypeOK, Recorded, Pending, UploadRow, Unused, Has, RowsOf
<1>7. Shut'
  BY DEF IInv, DeleteInfected, Do, Shut, Pending, Idle, At, Has
<1> QED BY <1>1, <1>2, <1>3, <1>4, <1>5, <1>6, <1>7 DEF IInv

LEMMA ClaimKeeps == ASSUME IInv, NEW t \in Txn, Claim(t) PROVE IInv'
<1>1. TypeOK'
  BY DEF IInv, Claim, Do, Write, TypeOK, Work, RequestRow, MandateRequestStatus, Unused, Idle, At
<1>2. Known'
  BY DEF IInv, Claim, Do, Write, TypeOK, Known, Work, RequestRow, Unused, Idle, At
<1>3. Gated'
  BY DEF IInv, Claim, Do, Write, TypeOK, Gated, Work, Idle, At
<1>4. OnlyGatedIsKept'
  BY DEF IInv, Claim, Write, OnlyGatedIsKept
<1>5. Claimed'
  BY DEF IInv, Claim, Do, Write, TypeOK, Claimed, Claims, Recorded, Pending, Work, RequestRow, MandateRequestStatus,
     Idle, At, Has, RowsOf
<1>6. Recorded'
  BY DEF IInv, Claim, Write, Recorded, Pending, Has, RowsOf
<1>7. Shut'
  BY DEF IInv, Claim, Do, Write, TypeOK, Shut, Pending, Idle, At, Has
<1> QED BY <1>1, <1>2, <1>3, <1>4, <1>5, <1>6, <1>7 DEF IInv

LEMMA CopyKeeps == ASSUME IInv, NEW t \in Txn, Copy(t) PROVE IInv'
<1>1. TypeOK'
  BY DEF IInv, Copy, Do, Staged, TypeOK, Work, UploadRow, Idle, At
<1>2. Known'
  BY DEF IInv, Copy, Do, Staged, TypeOK, Known, Work, UploadRow, Unused, Idle, At
<1>3. Gated'
  BY DEF IInv, Copy, Do, Staged, TypeOK, Gated, Work, UploadRow, Kind, Idle, At
<1>4. OnlyGatedIsKept'
  BY DEF IInv, Copy, Staged, TypeOK, Gated, UploadRow, Kind, At, OnlyGatedIsKept
<1>5. \A r \in Request : RowsOf(r)' = RowsOf(r)
  BY DEF IInv, TypeOK, Copy, Staged, RowsOf, UploadRow, Unused
<1>6. \A s \in Txn, r \in Request : Claims(s, r)' => Claims(s, r)
  BY DEF IInv, Copy, Do, TypeOK, Claims, Work, Idle, At
<1>7. \A r \in Request : Pending(r)' <=> Pending(r)
  BY DEF Copy, Pending, Has
<1>8. Claimed' /\ Recorded'
  BY <1>5, <1>6, <1>7 DEF IInv, Copy, Claimed, Recorded
<1>9. Shut'
  BY DEF IInv, Copy, Do, Staged, TypeOK, Shut, Pending, Work, Idle, At, Has
<1> QED BY <1>1, <1>2, <1>3, <1>4, <1>8, <1>9 DEF IInv

LEMMA UnstageKeeps == ASSUME IInv, NEW t \in Txn, Unstage(t) PROVE IInv'
<1>1. TypeOK'
  BY DEF IInv, Unstage, Do, TypeOK, Work, UploadRow, Unused, Idle, At
<1>2. Known'
  BY DEF IInv, Unstage, Do, TypeOK, Known, UploadRow, Unused, Idle, At
<1>3. Gated'
  BY DEF IInv, Unstage, Do, Gated, At
<1>4. OnlyGatedIsKept'
  BY DEF IInv, Unstage, Unused, OnlyGatedIsKept
<1>5. Claimed'
  BY DEF IInv, Unstage, Do, Claimed, Claims, Pending, Unused, At, Has, RowsOf
<1>6. Recorded'
  BY DEF IInv, Unstage, Recorded, Pending, Unused, Has, RowsOf
<1>7. Shut'
  BY DEF IInv, Unstage, Do, Shut, Pending, At, Has
<1> QED BY <1>1, <1>2, <1>3, <1>4, <1>5, <1>6, <1>7 DEF IInv

LEMMA RecordKeeps == ASSUME IInv, NEW t \in Txn, Record(t) PROVE IInv'
<1>1. TypeOK'
  BY DEF IInv, Record, Do, TypeOK, Work, UploadRow, Unused, Idle, At
<1>2. Known'
  BY DEF IInv, Record, Do, TypeOK, Known, UploadRow, Unused, At
<1>3. Gated'
  BY DEF IInv, Record, Do, Gated, Idle
<1>4. OnlyGatedIsKept'
  <2>1. tx[t].u \in Upload /\ upload[tx[t].u].final # "none" /\ upload[tx[t].u] \in UploadRow
    BY DEF IInv, Record, Gated, Known, At, TypeOK, Work, Idle
  <2>2. upload' = [upload EXCEPT ![tx[t].u] = [upload[tx[t].u] EXCEPT !.row = tx[t].r]]
    BY DEF Record
  <2>3. ASSUME NEW v \in Upload, v # tx[t].u PROVE upload'[v] = upload[v]
    BY <2>1, <2>2, <2>3 DEF IInv, TypeOK
  <2>4. LET x == upload'[tx[t].u]
        IN x.final = upload[tx[t].u].final /\ x.swapped = upload[tx[t].u].swapped
    BY <2>1, <2>2 DEF IInv, TypeOK, UploadRow
  <2>5. upload[tx[t].u] # Unused
    BY <2>1 DEF UploadRow, Unused
  <2> QED BY <2>1, <2>3, <2>4, <2>5 DEF IInv, OnlyGatedIsKept
<1>5. Claimed'
  BY DEF IInv, Record, Do, TypeOK, Claimed, Claims, Pending, Idle, At, Has, RowsOf
<1>6. Recorded'
  BY DEF IInv, Record, Known, Claimed, Claims, Recorded, Pending, Idle, At, Has, RowsOf
<1>7. Shut'
  BY DEF IInv, Record, Do, Shut, Pending, Idle, At, Has
<1> QED BY <1>1, <1>2, <1>3, <1>4, <1>5, <1>6, <1>7 DEF IInv

LEMMA FirmCommitKeeps == ASSUME IInv, NEW t \in Txn, NEW verified \in BOOLEAN, FirmCommit(t, verified) PROVE IInv'
<1>1. tx[t] \in Work /\ tx[t].pc = "record" /\ tx[t].r = Firm /\ tx[t].u \in Upload
  BY DEF IInv, TypeOK, FirmCommit, At, Idle, Work
<1>2. upload[tx[t].u] # Unused /\ upload[tx[t].u].final # "none"
  BY <1>1 DEF IInv, Known, Gated, Idle
<1>3. CASE upload[tx[t].u].row # NoRequest
  <2>1. request' = request /\ upload' = upload /\ caseStatus' = caseStatus /\ tx' = [tx EXCEPT ![t] = Idle]
    BY <1>3 DEF FirmCommit, Do
  <2>2. TypeOK'
    BY <2>1 DEF IInv, TypeOK
  <2>3. Known' /\ Gated' /\ OnlyGatedIsKept' /\ Shut'
    BY <2>1 DEF IInv, Known, Gated, OnlyGatedIsKept, Shut, Pending, Has, At, Idle
  <2>4. Claimed' /\ Recorded'
    BY <2>1 DEF IInv, Claimed, Recorded, Claims, Pending, Has, RowsOf, Idle
  <2> QED BY <2>2, <2>3, <2>4 DEF IInv
<1>4. CASE upload[tx[t].u].row = NoRequest
  <2>1. PICK new \in Fresh :
          /\ request' = [r \in Request |->
               IF r = new THEN [state |-> "used", tokenExpired |-> TRUE,
                                status |-> IF verified THEN "VERIFIED" ELSE "UPLOADED"]
               ELSE IF Has(r, {"PENDING_UPLOAD", "UPLOADED", "REJECTED", "EXPIRED"})
                    THEN [request[r] EXCEPT !.status = "SUPERSEDED"] ELSE request[r]]
          /\ upload' = [upload EXCEPT ![tx[t].u].row = new]
    BY <1>4 DEF FirmCommit
  <2>2. caseStatus' = caseStatus /\ tx' = [tx EXCEPT ![t] = Idle]
    BY DEF FirmCommit, Do
  <2>3. new \in Request /\ request[new] = Unused
    BY DEF Fresh
  <2>4. \A s \in Txn, r \in Request : Claims(s, r)' => Claims(s, r) /\ s # t /\ r # new
    BY <2>2, <2>3 DEF IInv, Known, TypeOK, Claims, Idle
  <2>5. /\ request'[new] # Unused
        /\ \A r \in Request : request[r] # Unused => request'[r] # Unused /\ r # new
    BY <2>1, <2>3 DEF IInv, TypeOK, RequestRow, Unused
  <2>6. \A r \in Request : ~Pending(r)'
    BY <2>1, <2>3 DEF Pending, Has
  <2>7. /\ RowsOf(new) = {}
        /\ RowsOf(new)' = {tx[t].u}
        /\ \A r \in Request : r # new => RowsOf(r)' = RowsOf(r)
    <3>1. RowsOf(new) = {}
      BY <2>3 DEF IInv, Recorded
    <3> QED BY <1>1, <1>2, <1>4, <2>1, <2>3, <3>1, MarksAssumption DEF IInv, TypeOK, RowsOf, UploadRow, Unused
  <2>8. TypeOK'
    BY <1>1, <1>2, <2>1, <2>2, <2>3 DEF IInv, TypeOK, RequestRow, MandateRequestStatus, UploadRow, Unused
  <2>9. Known' /\ Gated' /\ OnlyGatedIsKept'
    BY <1>1, <1>2, <2>1, <2>2, <2>5 DEF IInv, TypeOK, Known, Gated, OnlyGatedIsKept, UploadRow, Unused, At, Idle
  <2>10. Claimed'
    BY <2>4, <2>6, <2>7 DEF IInv, Claimed
  <2>11. Recorded'
    BY <2>1, <2>5, <2>6, <2>7 DEF IInv, Recorded
  <2>12. Shut'
    BY <2>2, <2>6 DEF IInv, Known, Shut, At, Idle
  <2> QED BY <2>8, <2>9, <2>10, <2>11, <2>12 DEF IInv
<1> QED BY <1>3, <1>4

LEMMA FailKeeps == ASSUME IInv, NEW t \in Txn, Fail(t) PROVE IInv'
<1>1. TypeOK'
  BY DEF IInv, Fail, Do, TypeOK
<1>2. Known'
  BY DEF IInv, Fail, Do, Known, At
<1>3. Gated'
  BY DEF IInv, Fail, Do, Gated, Idle
<1>4. OnlyGatedIsKept'
  BY DEF IInv, Fail, OnlyGatedIsKept
<1>5. Claimed'
  BY DEF IInv, Fail, Do, Claimed, Claims, Pending, Idle, Has, RowsOf
<1>6. Recorded'
  BY DEF IInv, Fail, Recorded, Pending, Has, RowsOf
<1>7. Shut'
  BY DEF IInv, Fail, Do, Shut, Pending, Idle, At, Has
<1> QED BY <1>1, <1>2, <1>3, <1>4, <1>5, <1>6, <1>7 DEF IInv

LEMMA CloseCaseKeeps == ASSUME IInv, CloseCase PROVE IInv'
<1>1. TypeOK'
  BY DEF IInv, CloseCase, Write, TypeOK, RequestRow, MandateRequestStatus, Unused
<1>2. Known'
  BY DEF IInv, CloseCase, Write, TypeOK, Known, RequestRow, Unused, At
<1>3. Gated'
  BY DEF IInv, CloseCase, Write, Gated
<1>4. OnlyGatedIsKept'
  BY DEF IInv, CloseCase, Write, OnlyGatedIsKept
<1>5. Claimed'
  BY DEF IInv, CloseCase, Write, Claimed, Claims, Pending, Has, RowsOf
<1>6. Recorded'
  BY DEF IInv, CloseCase, Write, With, Recorded, Pending, Has, RowsOf
<1>7. Shut'
  BY DEF IInv, CloseCase, Write, With, Known, Shut, Pending, Idle, At, Has
<1> QED BY <1>1, <1>2, <1>3, <1>4, <1>5, <1>6, <1>7 DEF IInv

LEMMA ReopenCaseKeeps == ASSUME IInv, ReopenCase PROVE IInv'
<1>1. TypeOK'
  BY DEF IInv, ReopenCase, TypeOK
<1>2. Known'
  BY DEF IInv, ReopenCase, Known, At
<1>3. Gated'
  BY DEF IInv, ReopenCase, Gated
<1>4. OnlyGatedIsKept'
  BY DEF IInv, ReopenCase, OnlyGatedIsKept
<1>5. Claimed'
  BY DEF IInv, ReopenCase, Claimed, Claims, Pending, Has, RowsOf
<1>6. Recorded'
  BY DEF IInv, ReopenCase, Recorded, Pending, Has, RowsOf
<1>7. Shut'
  BY DEF ReopenCase, Shut, Pending
<1> QED BY <1>1, <1>2, <1>3, <1>4, <1>5, <1>6, <1>7 DEF IInv

LEMMA CaseMovesKeeps == ASSUME IInv, CaseMoves PROVE IInv'
<1>1. TypeOK'
  BY DEF IInv, CaseMoves, TypeOK
<1>2. Known'
  BY DEF IInv, CaseMoves, Known, At
<1>3. Gated'
  BY DEF IInv, CaseMoves, Gated
<1>4. OnlyGatedIsKept'
  BY DEF IInv, CaseMoves, OnlyGatedIsKept
<1>5. Claimed'
  BY DEF IInv, CaseMoves, Claimed, Claims, Pending, Has, RowsOf
<1>6. Recorded'
  BY DEF IInv, CaseMoves, Recorded, Pending, Has, RowsOf
<1>7. Shut'
  BY DEF CaseMoves, Shut, Pending
<1> QED BY <1>1, <1>2, <1>3, <1>4, <1>5, <1>6, <1>7 DEF IInv

LEMMA TokenExpiresKeeps == ASSUME IInv, NEW r \in Request, TokenExpires(r) PROVE IInv'
<1>1. TypeOK'
  BY DEF IInv, TokenExpires, TypeOK, RequestRow, MandateRequestStatus, Unused
<1>2. Known'
  BY DEF IInv, TokenExpires, TypeOK, Known, RequestRow, Unused, At
<1>3. Gated'
  BY DEF IInv, TokenExpires, Gated
<1>4. OnlyGatedIsKept'
  BY DEF IInv, TokenExpires, OnlyGatedIsKept
<1>5. Claimed'
  BY DEF IInv, TokenExpires, Claimed, Claims, Pending, Has, RowsOf
<1>6. Recorded'
  BY DEF IInv, TokenExpires, Recorded, Pending, Has, RowsOf
<1>7. Shut'
  BY DEF IInv, TokenExpires, Shut, Pending, At, Has
<1> QED BY <1>1, <1>2, <1>3, <1>4, <1>5, <1>6, <1>7 DEF IInv

LEMMA ExpirePendingMandatesKeeps == ASSUME IInv, ExpirePendingMandates PROVE IInv'
<1>1. TypeOK'
  BY DEF IInv, ExpirePendingMandates, Write, Overdue, TypeOK, RequestRow, MandateRequestStatus, Unused
<1>2. Known'
  BY DEF IInv, ExpirePendingMandates, Write, Overdue, TypeOK, Known, RequestRow, Unused, At
<1>3. Gated'
  BY DEF IInv, ExpirePendingMandates, Write, Overdue, Gated
<1>4. OnlyGatedIsKept'
  BY DEF IInv, ExpirePendingMandates, Write, Overdue, OnlyGatedIsKept
<1>5. Claimed'
  BY DEF IInv, ExpirePendingMandates, Write, Overdue, Claimed, Claims, Pending, Has, RowsOf
<1>6. Recorded'
  BY DEF IInv, ExpirePendingMandates, Write, Overdue, With, Recorded, Pending, Has, RowsOf
<1>7. Shut'
  BY DEF IInv, ExpirePendingMandates, Write, Overdue, Known, Shut, Pending, Idle, At, Has
<1> QED BY <1>1, <1>2, <1>3, <1>4, <1>5, <1>6, <1>7 DEF IInv

LEMMA SweepStagingKeeps == ASSUME IInv, NEW u \in Upload, SweepStaging(u) PROVE IInv'
<1>1. TypeOK'
  BY DEF IInv, SweepStaging, Staged, TypeOK, UploadRow
<1>2. Known'
  BY DEF IInv, SweepStaging, Staged, TypeOK, Known, UploadRow, Unused, At
<1>3. Gated'
  BY DEF IInv, SweepStaging, Staged, Gated
<1>4. OnlyGatedIsKept'
  BY DEF IInv, SweepStaging, Staged, OnlyGatedIsKept
<1>5. Claimed'
  BY DEF IInv, SweepStaging, Staged, Claimed, Claims, Pending, Has, RowsOf
<1>6. Recorded'
  BY DEF IInv, SweepStaging, Staged, Recorded, Pending, Has, RowsOf
<1>7. Shut'
  BY DEF IInv, SweepStaging, Staged, Shut, Pending, At, Has
<1> QED BY <1>1, <1>2, <1>3, <1>4, <1>5, <1>6, <1>7 DEF IInv

-----------------------------------------------------------------------------
LEMMA StutterKeeps == IInv /\ UNCHANGED vars => IInv'
<1> SUFFICES ASSUME IInv, UNCHANGED vars PROVE IInv'
  OBVIOUS
<1>1. TypeOK' /\ Known' /\ Gated' /\ OnlyGatedIsKept' /\ Shut'
  BY DEF vars, IInv, TypeOK, Known, Gated, OnlyGatedIsKept, Shut, Pending, Has, At
<1>2. Claimed' /\ Recorded'
  BY DEF vars, IInv, Claimed, Recorded, Claims, Pending, Has, RowsOf
<1> QED BY <1>1, <1>2 DEF IInv

LEMMA NextKeeps == IInv /\ [Next]_vars => IInv'
<1> SUFFICES ASSUME IInv, Next PROVE IInv'
  BY StutterKeeps
<1>1. ASSUME NEW t \in Txn, StaffRequests(t) PROVE IInv'
  BY <1>1, BeginSendKeeps, BeginRegenerateKeeps, BeginDecisionKeeps, FirmUploadUrlKeeps, BeginFirmConfirmKeeps DEF
     StaffRequests
<1>2. ASSUME NEW t \in Txn, ClientRequests(t) PROVE IInv'
  BY <1>2, BeginConfirmKeeps, GenerateUploadUrlKeeps DEF ClientRequests
<1>3. ASSUME NEW t \in Txn, Step(t) PROVE IInv'
  BY <1>3, CommitNewLinkKeeps, CommitDecisionKeeps, RefuseKeeps, DeleteInfectedKeeps, ClaimKeeps, CopyKeeps,
   UnstageKeeps, RecordKeeps, FirmCommitKeeps DEF Step
<1>4. ASSUME NEW t \in Txn, Fail(t) PROVE IInv'
  BY <1>4, FailKeeps
<1>5. ASSUME Environment PROVE IInv'
  BY <1>5, SweepStagingKeeps, PutObjectKeeps, CloseCaseKeeps, ReopenCaseKeeps, CaseMovesKeeps, TokenExpiresKeeps,
   ExpirePendingMandatesKeeps DEF Environment
<1> QED BY <1>1, <1>2, <1>3, <1>4, <1>5 DEF Next

\* IInv holds at every moment.
THEOREM Invariance == Spec => []IInv
BY InitIInv, NextKeeps, PTL DEF Spec

\* Every reachable state has its type: the rows, objects and open requests of mandate.service.
THEOREM TypeCorrect == Spec => []TypeOK
<1>1. IInv => TypeOK
  BY DEF IInv
<1> QED BY <1>1, Invariance, PTL

\* However many confirmations of one mandate request run at once, and whichever of them
\* die on the way, it never gets a second MandateUpload row: verifyMandate and rejectMandate
\* never meet what they refuse as an invariant violation.
THEOREM NeverTwoUploads == Spec => []OneUploadPerRequest
<1>1. ASSUME IInv, NEW r \in Request PROVE Cardinality(RowsOf(r)) <= 1
  <2>1. CASE RowsOf(r) = {}
    BY <2>1, FS_EmptySet
  <2>2. CASE RowsOf(r) # {}
    <3>1. PICK u \in RowsOf(r) : TRUE
      BY <2>2
    <3>2. RowsOf(r) = {u}
      BY <1>1, <3>1 DEF IInv, Recorded
    <3> QED BY <3>2, FS_Singleton
  <2> QED BY <2>1, <2>2
<1>2. IInv => OneUploadPerRequest
  BY <1>1 DEF OneUploadPerRequest
<1> QED BY <1>2, Invariance, PTL

\* What lies at a final key passed every gate, unless another object was put over it between
\* the gates and the copy, and a recorded upload has its object there: no order of PUTs,
\* copies, removals by other confirmations or the sweep, and deaths in between leaves a row
\* without its object.
THEOREM KeptIsGated == Spec => []OnlyGatedIsKept
<1>1. IInv => OnlyGatedIsKept
  BY DEF IInv
<1> QED BY <1>1, Invariance, PTL

\* No step marks a pending request uploaded while the case is closed, although the
\* confirmation looks at the case before the scan and writes after it: closing has
\* superseded what it would claim.
THEOREM NoUploadAfterClosing == Spec => ClosedTakesNoClientUpload
<1> DEFINE Kept == caseStatus = "CLOSED_NO_DOCS" =>
                     \A r \in Request : Has(r, {"PENDING_UPLOAD"}) => request'[r].status # "UPLOADED"
<1>1. ASSUME IInv, UNCHANGED request PROVE Kept
  BY <1>1 DEF Has
<1>2. ASSUME IInv, NEW t \in Txn, Step(t) PROVE Kept
  <2>1. CASE CommitNewLink(t)
    BY <1>2, <2>1 DEF CommitNewLink, Write, Has
  <2>2. CASE CommitDecision(t)
    BY <1>2, <2>2 DEF CommitDecision, Write, Has
  <2>3. CASE DeleteInfected(t)
    BY <1>2, <2>3 DEF DeleteInfected, Has
  <2>4. CASE Claim(t)
    BY <1>2, <2>4 DEF IInv, Shut, Pending, Claim, Write, Has
  <2>5. ASSUME NEW verified \in BOOLEAN, FirmCommit(t, verified) PROVE Kept
    <3>1. CASE UNCHANGED request
      BY <1>1, <1>2, <3>1
    <3>2. CASE ~UNCHANGED request
      <4>1. PICK new \in Fresh :
              request' = [r \in Request |->
               IF r = new THEN [state |-> "used", tokenExpired |-> TRUE,
                                status |-> IF verified THEN "VERIFIED" ELSE "UPLOADED"]
               ELSE IF Has(r, {"PENDING_UPLOAD", "UPLOADED", "REJECTED", "EXPIRED"})
                    THEN [request[r] EXCEPT !.status = "SUPERSEDED"] ELSE request[r]]
        BY <2>5, <3>2 DEF FirmCommit
      <4> QED BY <1>2, <4>1 DEF Fresh, Has
    <3> QED BY <3>1, <3>2
  <2>6. CASE Refuse(t) \/ Copy(t) \/ Unstage(t) \/ Record(t)
    BY <1>1, <1>2, <2>6 DEF Refuse, Copy, Unstage, Record
  <2> QED BY <1>2, <2>1, <2>2, <2>3, <2>4, <2>5, <2>6 DEF Step
<1>3. ASSUME IInv, Environment PROVE Kept
  <2>1. CASE CloseCase
    BY <2>1 DEF CloseCase
  <2>2. ASSUME NEW r \in Request, TokenExpires(r) PROVE Kept
    BY <1>3, <2>2 DEF TokenExpires, Has
  <2>3. CASE ExpirePendingMandates
    BY <1>3, <2>3 DEF ExpirePendingMandates, Write, Overdue, Has
  <2> QED BY <1>1, <1>3, <2>1, <2>2, <2>3 DEF Environment, SweepStaging, PutObject, ReopenCase, CaseMoves
<1>4. ASSUME IInv, NEW t \in Txn, StaffRequests(t) \/ ClientRequests(t) \/ Fail(t) PROVE Kept
  BY <1>1, <1>4 DEF StaffRequests, ClientRequests, Fail, BeginSend, BeginRegenerate, BeginDecision, FirmUploadUrl,
   BeginFirmConfirm, BeginConfirm, GenerateUploadUrl
<1>5. IInv /\ [Next]_vars => [Kept]_vars
  BY <1>1, <1>2, <1>3, <1>4 DEF Next, vars
<1> QED BY <1>5, Invariance, PTL DEF Spec, ClosedTakesNoClientUpload
=============================================================================
