----------------------- MODULE RequirementFiles_proofs -----------------------
(***************************************************************************)
(* Theorems about RequirementFiles for any number of transactions,         *)
(* requirements and files.  Every transaction keeps the row locks that     *)
(* protect what it has read: one that changes files holds the case row, a  *)
(* reviewer the requirement row, and whoever commits on an open case holds *)
(* the case row too.  So what a transaction knows of the rows it will      *)
(* write stays true until it commits, and each step but a commit concerns  *)
(* only the transaction that takes it.                                     *)
(***************************************************************************)
EXTENDS RequirementFiles, TLAPS

Open == case.status # "CLOSED_NO_DOCS"

\* What the checklist promises while nothing is under way.
PendingHasNoFile == \A r \in Req : req[r] = "PENDING_COLLECTION" => ActiveFiles(r) = {}
OneActiveFile == \A r \in Req : \A f, g \in ActiveFiles(r) : f = g

\* The form of each request.
Shape(w) ==
    \/ /\ w.op = "REVIEW" /\ w.pc \in {"files", "recalc", "case", "commit"}
       /\ w.writesReq /\ w.to \in ReqStatus /\ w.new = {} /\ (w.to # "REJECTED" => w.old = {})
    \/ /\ w.op = "UPLOAD" /\ w.pc \in {"insert", "req", "recalc", "case", "commit"}
       /\ w.to = "UNDER_VERIFICATION" /\ w.old = {} /\ \E f \in File : w.new = {f}
    \/ /\ w.op = "REPLACE" /\ w.pc \in {"file", "insert", "req", "recalc", "case", "commit"}
       /\ w.to = "UNDER_VERIFICATION" /\ \E f \in File : w.new = {f}
    \/ /\ w.op = "DELETE" /\ w.pc \in {"enter", "file", "req", "recalc", "case", "commit"}
       /\ w.to = "PENDING_COLLECTION" /\ w.new = {}
    \/ /\ w.op = "PATCH" /\ w.pc \in {"file", "commit"}
       /\ w.to \in FileStatus /\ w.new = {} /\ ~w.writesReq

\* The locks a request holds at each point.
Holding(t) ==
    /\ tx[t].op # "REVIEW" /\ tx[t].pc # "enter" => lock["case"] = t
    /\ tx[t].op = "REVIEW" \/ (tx[t].pc \in {"recalc", "case", "commit"} /\ tx[t].writesReq) => lock[tx[t].req] = t
    /\ tx[t].pc = "commit" /\ Open => lock["case"] = t

\* Past the point where it has looked at the files and decided what to write.
Decided(t) == tx[t].pc \in {"req", "recalc", "case", "commit"}

\* What a request knows of the files it will write.
KnowsFiles(t) ==
    /\ \A f \in tx[t].old : file[f] # Unused /\ file[f].req = tx[t].req
    /\ \A f \in tx[t].new : file[f] = Unused
    /\ tx[t].op = "PATCH" => \A f \in tx[t].old : tx[t].to \in DOCUMENT_STATUS_TRANSITIONS[file[f].status]
    /\ tx[t].op \in {"UPLOAD", "REPLACE"} /\ Decided(t) => ActiveFiles(tx[t].req) \subseteq tx[t].old
    /\ tx[t].op = "DELETE" /\ Decided(t) =>
         IF tx[t].writesReq THEN ActiveFiles(tx[t].req) \subseteq tx[t].old
         ELSE tx[t].old \cap ActiveFiles(tx[t].req) = {}

\* What it knows of the requirement.
KnowsRequirement(t) ==
    /\ tx[t].op = "REVIEW" =>
         /\ tx[t].to \in VALID_TRANSITIONS[req[tx[t].req]]
         /\ tx[t].to = "APPROVED" => ActiveFiles(tx[t].req) # {}
    /\ tx[t].op \in {"UPLOAD", "REPLACE"} /\ Decided(t) =>
         IF tx[t].writesReq THEN Open => req[tx[t].req] \in {"PENDING_COLLECTION", "REJECTED"}
         ELSE req[tx[t].req] # "PENDING_COLLECTION"

Consistent(t) == tx[t] # Idle => Shape(tx[t]) /\ Holding(t) /\ KnowsFiles(t) /\ KnowsRequirement(t)

IInv == TypeOK /\ PendingHasNoFile /\ OneActiveFile /\ ApprovedHasFile /\ \A t \in Txn : Consistent(t)

-----------------------------------------------------------------------------
LEMMA Transitions ==
  ASSUME NEW s \in ReqStatus, NEW to \in VALID_TRANSITIONS[s]
  PROVE  /\ to \in ReqStatus /\ to # "PENDING_COLLECTION" /\ s # "APPROVED"
         /\ to = "APPROVED" => s = "UNDER_VERIFICATION"
         /\ to = "UNDER_VERIFICATION" => s \in {"PENDING_COLLECTION", "REJECTED"}
<1>1. CASE s = "PENDING_COLLECTION"
  BY <1>1 DEF VALID_TRANSITIONS, ReqStatus
<1>2. CASE s = "UNDER_VERIFICATION"
  BY <1>2 DEF VALID_TRANSITIONS, ReqStatus
<1>3. CASE s = "APPROVED"
  BY <1>3 DEF VALID_TRANSITIONS, ReqStatus
<1>4. CASE s = "REJECTED"
  BY <1>4 DEF VALID_TRANSITIONS, ReqStatus
<1> QED BY <1>1, <1>2, <1>3, <1>4 DEF ReqStatus

LEMMA InitIInv == Init => IInv
<1> SUFFICES ASSUME Init PROVE IInv
  OBVIOUS
<1>1. TypeOK
  BY DEF Init, TypeOK, ReqStatus, CaseStatus
<1>2. \A r \in Req : ActiveFiles(r) = {}
  BY DEF Init, ActiveFiles, Active, Live, Unused
<1>3. PendingHasNoFile /\ OneActiveFile /\ ApprovedHasFile
  BY <1>2 DEF Init, PendingHasNoFile, OneActiveFile, ApprovedHasFile
<1>4. \A t \in Txn : Consistent(t)
  BY DEF Init, Consistent
<1> QED BY <1>1, <1>3, <1>4 DEF IInv

\* A step that is not a commit concerns the transaction that takes it: the others keep
\* their locks and what they know.
LEMMA QuietStep ==
  ASSUME IInv, NEW t \in Txn, NEW w \in Transaction \cup {Idle},
         tx' = [tx EXCEPT ![t] = w], UNCHANGED <<req, file, case>>,
         lock' \in [Rows -> Txn \cup {NoTxn}],
         \A x \in Rows : lock[x] \in Txn \ {t} => lock'[x] = lock[x],
         Consistent(t)'
  PROVE  IInv'
<1>1. TypeOK'
  BY DEF IInv, TypeOK
<1>2. \A r \in Req : ActiveFiles(r)' = ActiveFiles(r)
  BY DEF ActiveFiles, Active, Live
<1>3. PendingHasNoFile' /\ OneActiveFile' /\ ApprovedHasFile'
  BY <1>2 DEF IInv, PendingHasNoFile, OneActiveFile, ApprovedHasFile
<1>4. ASSUME NEW u \in Txn, u # t PROVE Consistent(u)'
  <2> SUFFICES ASSUME tx[u] # Idle PROVE Consistent(u)'
    BY <1>4 DEF IInv, TypeOK, Consistent
  <2>1. tx'[u] = tx[u] /\ tx[u].req \in Req
    BY <1>4 DEF IInv, TypeOK, Transaction
  <2>2. Shape(tx[u]) /\ Holding(u) /\ KnowsFiles(u) /\ KnowsRequirement(u)
    BY DEF IInv, Consistent
  <2>3. Holding(u)'
    BY <1>4, <2>1, <2>2 DEF Holding, Open, Rows
  <2>4. KnowsFiles(u)' /\ KnowsRequirement(u)'
    BY <1>2, <2>1, <2>2 DEF KnowsFiles, KnowsRequirement, Decided, Open
  <2> QED BY <2>1, <2>2, <2>3, <2>4 DEF Consistent
<1> QED BY <1>1, <1>3, <1>4 DEF IInv

\* Rows that are free for t can be taken, and what t has released, without touching the
\* locks of others.
LEMMA TakenLocks ==
  ASSUME TypeOK, NEW t \in Txn, NEW xs \in SUBSET Rows, \A x \in xs : Free(t, x), Take(t, xs)
  PROVE  /\ lock' \in [Rows -> Txn \cup {NoTxn}]
         /\ \A x \in Rows : lock[x] \in Txn \ {t} => lock'[x] = lock[x]
         /\ \A x \in Rows : x \in xs \/ lock[x] = t => lock'[x] = t
BY TxnAssumption DEF TypeOK, Take, Free

LEMMA ReleasedLocks ==
  ASSUME TypeOK, NEW t \in Txn, Release(t)
  PROVE  /\ lock' \in [Rows -> Txn \cup {NoTxn}]
         /\ \A x \in Rows : lock[x] \in Txn \ {t} => lock'[x] = lock[x]
BY DEF TypeOK, Release

LEMMA RollBackKeeps == ASSUME IInv, NEW t \in Txn, RollBack(t) PROVE IInv'
<1>1. tx' = [tx EXCEPT ![t] = Idle] /\ UNCHANGED <<req, file, case>> /\ Release(t)
  BY DEF RollBack, Continue
<1>2. Consistent(t)'
  BY <1>1 DEF IInv, TypeOK, Consistent
<1>3. TypeOK
  BY DEF IInv
<1> QED BY <1>1, <1>2, <1>3, ReleasedLocks, QuietStep

-----------------------------------------------------------------------------
(* The steps before a commit.                                               *)

LEMMA BeginReviewKeeps == ASSUME IInv, NEW t \in Txn, NEW r \in Req, NEW to \in ReqStatus, BeginReview(t, r, to) PROVE IInv'
<1> DEFINE w == [pc |-> IF to = "REJECTED" THEN "files" ELSE "recalc", op |-> "REVIEW", req |-> r, to |-> to,
                 old |-> IF to = "REJECTED" THEN ActiveFiles(r) ELSE {}, new |-> {}, writesReq |-> TRUE, ready |-> "none"]
<1>1. tx' = [tx EXCEPT ![t] = w] /\ UNCHANGED <<req, file, case>> /\ Take(t, {r}) /\ Free(t, r)
  BY DEF BeginReview, Start, Continue
<1>2. w \in Transaction
  BY DEF Transaction, ActiveFiles
<1>3. /\ lock' \in [Rows -> Txn \cup {NoTxn}]
      /\ \A x \in Rows : lock[x] \in Txn \ {t} => lock'[x] = lock[x]
      /\ lock'[r] = t
  <2>1. {r} \in SUBSET Rows
    BY DEF Rows
  <2> QED BY <1>1, <2>1, TakenLocks DEF IInv
<1>4. tx'[t] = w
  BY <1>1 DEF IInv, TypeOK
<1>5. Shape(w)
  BY DEF Shape
<1>6. Holding(t)'
  BY <1>3, <1>4 DEF Holding
<1>7. KnowsFiles(t)'
  BY <1>1, <1>4 DEF KnowsFiles, ActiveFiles, Active, Live, Unused
<1>8. KnowsRequirement(t)'
  BY <1>1, <1>4 DEF BeginReview, KnowsRequirement, ActiveFiles, Active, Live
<1>9. Consistent(t)'
  BY <1>4, <1>5, <1>6, <1>7, <1>8 DEF Consistent
<1> HIDE DEF w
<1> QED BY <1>1, <1>2, <1>3, <1>9, QuietStep

LEMMA LockRejectedFilesKeeps == ASSUME IInv, NEW t \in Txn, LockRejectedFiles(t) PROVE IInv'
<1> DEFINE still == {f \in tx[t].old : Active(f)}
           w == [tx[t] EXCEPT !.pc = "recalc", !.old = still]
<1>0. tx[t] \in Transaction /\ tx[t] # Idle /\ tx[t].pc = "files" /\ Consistent(t)
  BY DEF IInv, TypeOK, LockRejectedFiles, At, Idle
<1>1. tx' = [tx EXCEPT ![t] = w] /\ UNCHANGED <<req, file, case>> /\ Take(t, still) /\ \A x \in still : Free(t, x)
  BY DEF LockRejectedFiles, Continue
<1>2. /\ w \in Transaction /\ w.op = tx[t].op /\ w.req = tx[t].req /\ w.to = tx[t].to /\ w.new = tx[t].new
      /\ w.pc = "recalc" /\ w.old = still /\ w.writesReq = tx[t].writesReq
  BY <1>0 DEF Transaction
<1> HIDE DEF w
<1>3. /\ lock' \in [Rows -> Txn \cup {NoTxn}]
      /\ \A x \in Rows : lock[x] \in Txn \ {t} => lock'[x] = lock[x]
      /\ \A x \in Rows : x \in still \/ lock[x] = t => lock'[x] = t
  <2>1. still \in SUBSET Rows
    BY <1>0 DEF Transaction, Rows
  <2> QED BY <1>1, <2>1, TakenLocks DEF IInv
<1>4. tx'[t] = w
  BY <1>1 DEF IInv, TypeOK
<1>5. Shape(w) /\ tx[t].op = "REVIEW"
  BY <1>0, <1>2 DEF Consistent, Shape
<1>6. Holding(t)'
  <2>1. "case" \in Rows /\ tx[t].req \in Rows
    BY <1>0 DEF Rows, Transaction
  <2>2. Holding(t) /\ Shape(tx[t])
    BY <1>0 DEF Consistent
  <2> QED BY <1>0, <1>1, <1>2, <1>3, <1>4, <2>1, <2>2 DEF Holding, Shape, Open
<1>7. KnowsFiles(t)'
  BY <1>0, <1>1, <1>2, <1>4, <1>5 DEF Consistent, KnowsFiles, Decided, ActiveFiles, Active, Live
<1>8. KnowsRequirement(t)'
  BY <1>0, <1>1, <1>2, <1>4, <1>5 DEF Consistent, KnowsRequirement, Decided, Open, ActiveFiles, Active, Live
<1>9. Consistent(t)'
  BY <1>4, <1>5, <1>6, <1>7, <1>8 DEF Consistent
<1> QED BY <1>1, <1>2, <1>3, <1>9, QuietStep

LEMMA ReadChecklistKeeps == ASSUME IInv, NEW t \in Txn, ReadChecklist(t) PROVE IInv'
<1> DEFINE w == IF case.status = "CLOSED_NO_DOCS" THEN [tx[t] EXCEPT !.pc = "commit"]
                ELSE [tx[t] EXCEPT !.pc = "case",
                        !.ready = IF isReady([req EXCEPT ![tx[t].req] = tx[t].to]) THEN "yes" ELSE "no"]
<1>0. tx[t] \in Transaction /\ tx[t] # Idle /\ tx[t].pc = "recalc" /\ Consistent(t)
  BY DEF IInv, TypeOK, ReadChecklist, At, Idle
<1>1. tx' = [tx EXCEPT ![t] = w] /\ UNCHANGED <<req, file, case>> /\ lock' = lock
  BY DEF ReadChecklist, Continue
<1>2. /\ w \in Transaction /\ w.op = tx[t].op /\ w.req = tx[t].req /\ w.to = tx[t].to /\ w.new = tx[t].new
      /\ w.pc = (IF case.status = "CLOSED_NO_DOCS" THEN "commit" ELSE "case") /\ w.old = tx[t].old /\ w.writesReq = tx[t].writesReq
  BY <1>0 DEF Transaction
<1> HIDE DEF w
<1>3. /\ lock' \in [Rows -> Txn \cup {NoTxn}]
      /\ \A x \in Rows : lock[x] \in Txn \ {t} => lock'[x] = lock[x]
      /\ lock' = lock
  BY <1>1 DEF IInv, TypeOK
<1>4. tx'[t] = w
  BY <1>1 DEF IInv, TypeOK
<1>5. Shape(w)
  BY <1>0, <1>2 DEF Consistent, Shape
<1>6. Holding(t)'
  BY <1>0, <1>1, <1>2, <1>3, <1>4, <1>5 DEF Consistent, Holding, Shape, Transaction, Rows, Open
<1>7. KnowsFiles(t)'
  BY <1>0, <1>1, <1>2, <1>4 DEF Consistent, KnowsFiles, Decided, ActiveFiles, Active, Live
<1>8. KnowsRequirement(t)'
  BY <1>0, <1>1, <1>2, <1>4 DEF Consistent, KnowsRequirement, Decided, Open, ActiveFiles, Active, Live
<1>9. Consistent(t)'
  BY <1>4, <1>5, <1>6, <1>7, <1>8 DEF Consistent
<1> QED BY <1>1, <1>2, <1>3, <1>9, QuietStep

LEMMA LockCaseRowKeeps == ASSUME IInv, NEW t \in Txn, LockCaseRow(t) PROVE IInv'
<1> DEFINE w == [tx[t] EXCEPT !.pc = "commit"]
<1>0. tx[t] \in Transaction /\ tx[t] # Idle /\ tx[t].pc = "case" /\ Consistent(t)
  BY DEF IInv, TypeOK, LockCaseRow, At, Idle
<1>1. tx' = [tx EXCEPT ![t] = w] /\ UNCHANGED <<req, file, case>> /\ Take(t, {"case"}) /\ \A x \in {"case"} : Free(t, x)
  BY DEF LockCaseRow, Continue
<1>2. /\ w \in Transaction /\ w.op = tx[t].op /\ w.req = tx[t].req /\ w.to = tx[t].to /\ w.new = tx[t].new
      /\ w.pc = "commit" /\ w.old = tx[t].old /\ w.writesReq = tx[t].writesReq
  BY <1>0 DEF Transaction
<1> HIDE DEF w
<1>3. /\ lock' \in [Rows -> Txn \cup {NoTxn}]
      /\ \A x \in Rows : lock[x] \in Txn \ {t} => lock'[x] = lock[x]
      /\ \A x \in Rows : x \in {"case"} \/ lock[x] = t => lock'[x] = t
  <2>1. {"case"} \in SUBSET Rows
    BY <1>0 DEF Transaction, Rows
  <2> QED BY <1>1, <2>1, TakenLocks DEF IInv
<1>4. tx'[t] = w
  BY <1>1 DEF IInv, TypeOK
<1>5. Shape(w)
  BY <1>0, <1>2 DEF Consistent, Shape
<1>6. Holding(t)'
  <2>1. "case" \in Rows /\ tx[t].req \in Rows
    BY <1>0 DEF Rows, Transaction
  <2>2. Holding(t) /\ Shape(tx[t])
    BY <1>0 DEF Consistent
  <2> QED BY <1>0, <1>1, <1>2, <1>3, <1>4, <2>1, <2>2 DEF Holding, Shape, Open
<1>7. KnowsFiles(t)'
  BY <1>0, <1>1, <1>2, <1>4 DEF Consistent, KnowsFiles, Decided, ActiveFiles, Active, Live
<1>8. KnowsRequirement(t)'
  BY <1>0, <1>1, <1>2, <1>4 DEF Consistent, KnowsRequirement, Decided, Open, ActiveFiles, Active, Live
<1>9. Consistent(t)'
  BY <1>4, <1>5, <1>6, <1>7, <1>8 DEF Consistent
<1> QED BY <1>1, <1>2, <1>3, <1>9, QuietStep

LEMMA LockCaseToDeleteKeeps == ASSUME IInv, NEW t \in Txn, LockCaseToDelete(t) PROVE IInv'
<1> DEFINE w == [tx[t] EXCEPT !.pc = "file"]
<1>0. tx[t] \in Transaction /\ tx[t] # Idle /\ tx[t].pc = "enter" /\ Consistent(t)
  BY DEF IInv, TypeOK, LockCaseToDelete, At, Idle
<1>1. tx' = [tx EXCEPT ![t] = w] /\ UNCHANGED <<req, file, case>> /\ Take(t, {"case"}) /\ \A x \in {"case"} : Free(t, x)
  BY DEF LockCaseToDelete, Continue
<1>2. /\ w \in Transaction /\ w.op = tx[t].op /\ w.req = tx[t].req /\ w.to = tx[t].to /\ w.new = tx[t].new
      /\ w.pc = "file" /\ w.old = tx[t].old /\ w.writesReq = tx[t].writesReq
  BY <1>0 DEF Transaction
<1> HIDE DEF w
<1>3. /\ lock' \in [Rows -> Txn \cup {NoTxn}]
      /\ \A x \in Rows : lock[x] \in Txn \ {t} => lock'[x] = lock[x]
      /\ \A x \in Rows : x \in {"case"} \/ lock[x] = t => lock'[x] = t
  <2>1. {"case"} \in SUBSET Rows
    BY <1>0 DEF Transaction, Rows
  <2> QED BY <1>1, <2>1, TakenLocks DEF IInv
<1>4. tx'[t] = w
  BY <1>1 DEF IInv, TypeOK
<1>5. Shape(w)
  BY <1>0, <1>2 DEF Consistent, Shape
<1>6. Holding(t)'
  BY <1>0, <1>1, <1>2, <1>3, <1>4, <1>5 DEF Consistent, Holding, Shape, Transaction, Rows, Open
<1>7. KnowsFiles(t)'
  BY <1>0, <1>1, <1>2, <1>4 DEF Consistent, KnowsFiles, Decided, ActiveFiles, Active, Live
<1>8. KnowsRequirement(t)'
  BY <1>0, <1>1, <1>2, <1>4 DEF Consistent, KnowsRequirement, Decided, Open, ActiveFiles, Active, Live
<1>9. Consistent(t)'
  BY <1>4, <1>5, <1>6, <1>7, <1>8 DEF Consistent
<1> QED BY <1>1, <1>2, <1>3, <1>9, QuietStep

LEMMA LockRequirementKeeps == ASSUME IInv, NEW t \in Txn, LockRequirement(t) PROVE IInv'
<1> DEFINE w == [tx[t] EXCEPT !.pc = "recalc"]
<1>0. tx[t] \in Transaction /\ tx[t] # Idle /\ tx[t].pc = "req" /\ Consistent(t)
  BY DEF IInv, TypeOK, LockRequirement, At, Idle
<1>1. tx' = [tx EXCEPT ![t] = w] /\ UNCHANGED <<req, file, case>> /\ Take(t, {tx[t].req}) /\ \A x \in {tx[t].req} : Free(t, x)
  BY DEF LockRequirement, Continue
<1>2. /\ w \in Transaction /\ w.op = tx[t].op /\ w.req = tx[t].req /\ w.to = tx[t].to /\ w.new = tx[t].new
      /\ w.pc = "recalc" /\ w.old = tx[t].old /\ w.writesReq = tx[t].writesReq
  BY <1>0 DEF Transaction
<1> HIDE DEF w
<1>3. /\ lock' \in [Rows -> Txn \cup {NoTxn}]
      /\ \A x \in Rows : lock[x] \in Txn \ {t} => lock'[x] = lock[x]
      /\ \A x \in Rows : x \in {tx[t].req} \/ lock[x] = t => lock'[x] = t
  <2>1. {tx[t].req} \in SUBSET Rows
    BY <1>0 DEF Transaction, Rows
  <2> QED BY <1>1, <2>1, TakenLocks DEF IInv
<1>4. tx'[t] = w
  BY <1>1 DEF IInv, TypeOK
<1>5. Shape(w)
  BY <1>0, <1>2 DEF Consistent, Shape
<1>6. Holding(t)'
  <2>1. "case" \in Rows /\ tx[t].req \in Rows
    BY <1>0 DEF Rows, Transaction
  <2>2. Holding(t) /\ Shape(tx[t])
    BY <1>0 DEF Consistent
  <2> QED BY <1>0, <1>1, <1>2, <1>3, <1>4, <2>1, <2>2 DEF Holding, Shape, Open
<1>7. KnowsFiles(t)'
  BY <1>0, <1>1, <1>2, <1>4 DEF Consistent, KnowsFiles, Decided, ActiveFiles, Active, Live
<1>8. KnowsRequirement(t)'
  BY <1>0, <1>1, <1>2, <1>4 DEF Consistent, KnowsRequirement, Decided, Open, ActiveFiles, Active, Live
<1>9. Consistent(t)'
  BY <1>4, <1>5, <1>6, <1>7, <1>8 DEF Consistent
<1> QED BY <1>1, <1>2, <1>3, <1>9, QuietStep

LEMMA LockFileKeeps == ASSUME IInv, NEW t \in Txn, LockFile(t) PROVE IInv'
<1> DEFINE resets == tx[t].op = "DELETE" /\ ActiveFiles(tx[t].req) \subseteq tx[t].old /\ req[tx[t].req] # "PENDING_COLLECTION"
           w == [tx[t] EXCEPT !.pc = CASE tx[t].op = "REPLACE" -> "insert" [] resets -> "req" [] OTHER -> "commit", !.writesReq = resets]
<1>0. tx[t] \in Transaction /\ tx[t] # Idle /\ tx[t].pc = "file" /\ Consistent(t)
  BY DEF IInv, TypeOK, LockFile, At, Idle
<1>1. tx' = [tx EXCEPT ![t] = w] /\ UNCHANGED <<req, file, case>> /\ Take(t, tx[t].old) /\ \A x \in tx[t].old : Free(t, x)
  BY DEF LockFile, Continue
<1>2. /\ w \in Transaction /\ w.op = tx[t].op /\ w.req = tx[t].req /\ w.to = tx[t].to /\ w.new = tx[t].new
      /\ w.pc = (IF tx[t].op = "REPLACE" THEN "insert" ELSE IF resets THEN "req" ELSE "commit") /\ w.old = tx[t].old /\ w.writesReq = resets
  BY <1>0 DEF Transaction
<1> HIDE DEF w
<1>3. /\ lock' \in [Rows -> Txn \cup {NoTxn}]
      /\ \A x \in Rows : lock[x] \in Txn \ {t} => lock'[x] = lock[x]
      /\ \A x \in Rows : x \in tx[t].old \/ lock[x] = t => lock'[x] = t
  <2>1. tx[t].old \in SUBSET Rows
    BY <1>0 DEF Transaction, Rows
  <2> QED BY <1>1, <2>1, TakenLocks DEF IInv
<1>4. tx'[t] = w
  BY <1>1 DEF IInv, TypeOK
<1>5. Shape(w)
  BY <1>0, <1>2 DEF Consistent, Shape
<1>6. Holding(t)'
  BY <1>0, <1>1, <1>2, <1>3, <1>4, <1>5 DEF Consistent, Holding, Shape, Transaction, Rows, Open
<1>7. KnowsFiles(t)'
  <2>1. KnowsFiles(t) /\ tx[t].old \in SUBSET File /\ tx[t].req \in Req
    BY <1>0 DEF Consistent, Transaction
  <2>2. \A r \in Req : ActiveFiles(r)' = ActiveFiles(r)
    BY <1>1 DEF ActiveFiles, Active, Live
  <2>3. ASSUME tx[t].op = "DELETE"
        PROVE  IF resets THEN ActiveFiles(tx[t].req) \subseteq tx[t].old ELSE tx[t].old \cap ActiveFiles(tx[t].req) = {}
    <3>1. CASE resets
      BY <3>1
    <3>2. CASE ~resets
      BY <2>1, <2>3, <3>2 DEF IInv, OneActiveFile, PendingHasNoFile
    <3> QED BY <3>1, <3>2
  <2>4. ~(w.op \in {"UPLOAD", "REPLACE"} /\ Decided(t)')
    BY <1>0, <1>2, <1>4 DEF Consistent, Shape, Decided
  <2> HIDE DEF resets
  <2> QED BY <1>1, <1>2, <1>4, <2>1, <2>2, <2>3, <2>4 DEF KnowsFiles
<1>8. KnowsRequirement(t)'
  BY <1>0, <1>2, <1>4 DEF Consistent, Shape, KnowsRequirement, Decided
<1>9. Consistent(t)'
  BY <1>4, <1>5, <1>6, <1>7, <1>8 DEF Consistent
<1> QED BY <1>1, <1>2, <1>3, <1>9, QuietStep

LEMMA InsertKeeps == ASSUME IInv, NEW t \in Txn, Insert(t) PROVE IInv'
<1> DEFINE noop == req[tx[t].req] = "UNDER_VERIFICATION"
           w == [tx[t] EXCEPT !.pc = IF noop THEN "commit" ELSE "req", !.writesReq = ~noop]
<1>0. tx[t] \in Transaction /\ tx[t] # Idle /\ tx[t].pc = "insert" /\ Consistent(t)
  BY DEF IInv, TypeOK, Insert, At, Idle
<1>1. tx' = [tx EXCEPT ![t] = w] /\ UNCHANGED <<req, file, case>> /\ lock' = lock
  BY DEF Insert, Continue
<1>2. /\ w \in Transaction /\ w.op = tx[t].op /\ w.req = tx[t].req /\ w.to = tx[t].to /\ w.new = tx[t].new
      /\ w.pc = (IF noop THEN "commit" ELSE "req") /\ w.old = tx[t].old /\ w.writesReq = ~noop
  BY <1>0 DEF Transaction
<1> HIDE DEF w
<1>3. /\ lock' \in [Rows -> Txn \cup {NoTxn}]
      /\ \A x \in Rows : lock[x] \in Txn \ {t} => lock'[x] = lock[x]
      /\ lock' = lock
  BY <1>1 DEF IInv, TypeOK
<1>4. tx'[t] = w
  BY <1>1 DEF IInv, TypeOK
<1>5. Shape(w)
  BY <1>0, <1>2 DEF Consistent, Shape
<1>6. Holding(t)'
  BY <1>0, <1>1, <1>2, <1>3, <1>4, <1>5 DEF Consistent, Holding, Shape, Transaction, Rows, Open
<1>7. tx[t].op \in {"UPLOAD", "REPLACE"} /\ tx[t].req \in Req
  BY <1>0 DEF Consistent, Shape, Transaction
<1>8. KnowsFiles(t)'
  <2>1. KnowsFiles(t) /\ ActiveFiles(tx[t].req) \subseteq tx[t].old
    BY <1>0 DEF Consistent, Insert, Colliding
  <2>2. \A r \in Req : ActiveFiles(r)' = ActiveFiles(r)
    BY <1>1 DEF ActiveFiles, Active, Live
  <2> QED BY <1>1, <1>2, <1>4, <1>7, <2>1, <2>2 DEF KnowsFiles
<1>9. KnowsRequirement(t)'
  <2>1. noop \/ req[tx[t].req] \in {"PENDING_COLLECTION", "REJECTED"}
    <3>1. noop \/ "UNDER_VERIFICATION" \in VALID_TRANSITIONS[req[tx[t].req]]
      BY DEF Insert
    <3>2. req[tx[t].req] \in ReqStatus
      BY <1>7 DEF IInv, TypeOK
    <3> QED BY <3>1, <3>2, Transitions
  <2> QED BY <1>1, <1>2, <1>4, <1>7, <2>1 DEF KnowsRequirement
<1>10. Consistent(t)'
  BY <1>4, <1>5, <1>6, <1>8, <1>9 DEF Consistent
<1> QED BY <1>1, <1>2, <1>3, <1>10, QuietStep

LEMMA BeginUploadKeeps == ASSUME IInv, NEW t \in Txn, NEW r \in Req, NEW f \in File, BeginUpload(t, r, f) PROVE IInv'
<1> DEFINE w == [pc |-> "insert", op |-> "UPLOAD", req |-> r, to |-> "UNDER_VERIFICATION", old |-> {}, new |-> {f},
                 writesReq |-> FALSE, ready |-> "none"]
<1>1. tx' = [tx EXCEPT ![t] = w] /\ UNCHANGED <<req, file, case>> /\ Take(t, {"case"}) /\ \A x \in {"case"} : Free(t, x)
  BY DEF BeginUpload, EnterCase, Start, Continue
<1>2. w \in Transaction
  BY DEF IInv, TypeOK, BeginUpload, FileRow, Unused, Live, Active, Transaction, ReqStatus
<1>3. /\ lock' \in [Rows -> Txn \cup {NoTxn}]
      /\ \A x \in Rows : lock[x] \in Txn \ {t} => lock'[x] = lock[x]
      /\ \A x \in Rows : x \in {"case"} \/ lock[x] = t => lock'[x] = t
  <2>1. {"case"} \in SUBSET Rows
    BY DEF Rows
  <2> QED BY <1>1, <2>1, TakenLocks DEF IInv
<1>4. tx'[t] = w
  BY <1>1 DEF IInv, TypeOK
<1>5. Shape(w)
  BY DEF Shape
<1>6. Holding(t)'
  BY <1>3, <1>4 DEF Holding, Rows
<1>7. KnowsFiles(t)'
  BY <1>1, <1>4 DEF BeginUpload, EnterCase, KnowsFiles, Decided, Active, Live, Unused
<1>8. KnowsRequirement(t)'
  BY <1>1, <1>4 DEF KnowsRequirement, Decided
<1>9. Consistent(t)'
  BY <1>4, <1>5, <1>6, <1>7, <1>8 DEF Consistent
<1> HIDE DEF w
<1> QED BY <1>1, <1>2, <1>3, <1>9, QuietStep

LEMMA BeginReplaceKeeps == ASSUME IInv, NEW t \in Txn, NEW f \in File, NEW g \in File, BeginReplace(t, f, g) PROVE IInv'
<1> DEFINE w == [pc |-> "file", op |-> "REPLACE", req |-> file[f].req, to |-> "UNDER_VERIFICATION", old |-> {f}, new |-> {g},
                 writesReq |-> FALSE, ready |-> "none"]
<1>1. tx' = [tx EXCEPT ![t] = w] /\ UNCHANGED <<req, file, case>> /\ Take(t, {"case"}) /\ \A x \in {"case"} : Free(t, x)
  BY DEF BeginReplace, EnterCase, Start, Continue
<1>2. w \in Transaction
  BY DEF IInv, TypeOK, BeginReplace, FileRow, Unused, Live, Active, Transaction, ReqStatus
<1>3. /\ lock' \in [Rows -> Txn \cup {NoTxn}]
      /\ \A x \in Rows : lock[x] \in Txn \ {t} => lock'[x] = lock[x]
      /\ \A x \in Rows : x \in {"case"} \/ lock[x] = t => lock'[x] = t
  <2>1. {"case"} \in SUBSET Rows
    BY DEF Rows
  <2> QED BY <1>1, <2>1, TakenLocks DEF IInv
<1>4. tx'[t] = w
  BY <1>1 DEF IInv, TypeOK
<1>5. Shape(w)
  BY DEF Shape
<1>6. Holding(t)'
  BY <1>3, <1>4 DEF Holding, Rows
<1>7. KnowsFiles(t)'
  BY <1>1, <1>4 DEF BeginReplace, EnterCase, KnowsFiles, Decided, Active, Live, Unused
<1>8. KnowsRequirement(t)'
  BY <1>1, <1>4 DEF KnowsRequirement, Decided
<1>9. Consistent(t)'
  BY <1>4, <1>5, <1>6, <1>7, <1>8 DEF Consistent
<1> HIDE DEF w
<1> QED BY <1>1, <1>2, <1>3, <1>9, QuietStep

LEMMA BeginPatchKeeps == ASSUME IInv, NEW t \in Txn, NEW f \in File, NEW to \in FileStatus, BeginPatch(t, f, to) PROVE IInv'
<1> DEFINE w == [pc |-> "file", op |-> "PATCH", req |-> file[f].req, to |-> to, old |-> {f}, new |-> {},
                 writesReq |-> FALSE, ready |-> "none"]
<1>1. tx' = [tx EXCEPT ![t] = w] /\ UNCHANGED <<req, file, case>> /\ Take(t, {"case"}) /\ \A x \in {"case"} : Free(t, x)
  BY DEF BeginPatch, EnterCase, Start, Continue
<1>2. w \in Transaction
  BY DEF IInv, TypeOK, BeginPatch, FileRow, Unused, Live, Active, Transaction, ReqStatus
<1>3. /\ lock' \in [Rows -> Txn \cup {NoTxn}]
      /\ \A x \in Rows : lock[x] \in Txn \ {t} => lock'[x] = lock[x]
      /\ \A x \in Rows : x \in {"case"} \/ lock[x] = t => lock'[x] = t
  <2>1. {"case"} \in SUBSET Rows
    BY DEF Rows
  <2> QED BY <1>1, <2>1, TakenLocks DEF IInv
<1>4. tx'[t] = w
  BY <1>1 DEF IInv, TypeOK
<1>5. Shape(w)
  BY DEF Shape
<1>6. Holding(t)'
  BY <1>3, <1>4 DEF Holding, Rows
<1>7. KnowsFiles(t)'
  BY <1>1, <1>4 DEF BeginPatch, EnterCase, KnowsFiles, Decided, Active, Live, Unused
<1>8. KnowsRequirement(t)'
  BY <1>1, <1>4 DEF KnowsRequirement, Decided
<1>9. Consistent(t)'
  BY <1>4, <1>5, <1>6, <1>7, <1>8 DEF Consistent
<1> HIDE DEF w
<1> QED BY <1>1, <1>2, <1>3, <1>9, QuietStep

LEMMA BeginDeleteKeeps == ASSUME IInv, NEW t \in Txn, NEW f \in File, BeginDelete(t, f) PROVE IInv'
<1> DEFINE w == [pc |-> "enter", op |-> "DELETE", req |-> file[f].req, to |-> "PENDING_COLLECTION", old |-> {f}, new |-> {},
                 writesReq |-> FALSE, ready |-> "none"]
<1>1. tx' = [tx EXCEPT ![t] = w] /\ UNCHANGED <<req, file, case>> /\ lock' = lock
  BY DEF BeginDelete, Start, Continue
<1>2. w \in Transaction
  BY DEF IInv, TypeOK, BeginDelete, FileRow, Unused, Live, Active, Transaction, ReqStatus
<1>3. /\ lock' \in [Rows -> Txn \cup {NoTxn}]
      /\ \A x \in Rows : lock[x] \in Txn \ {t} => lock'[x] = lock[x]
      /\ lock' = lock
  BY <1>1 DEF IInv, TypeOK
<1>4. tx'[t] = w
  BY <1>1 DEF IInv, TypeOK
<1>5. Shape(w)
  BY DEF Shape
<1>6. Holding(t)'
  BY <1>3, <1>4 DEF Holding, Rows
<1>7. KnowsFiles(t)'
  BY <1>1, <1>4 DEF BeginDelete, KnowsFiles, Decided, Active, Live, Unused
<1>8. KnowsRequirement(t)'
  BY <1>1, <1>4 DEF KnowsRequirement, Decided
<1>9. Consistent(t)'
  BY <1>4, <1>5, <1>6, <1>7, <1>8 DEF Consistent
<1> HIDE DEF w
<1> QED BY <1>1, <1>2, <1>3, <1>9, QuietStep

LEMMA RefuseInsertKeeps == ASSUME IInv, NEW t \in Txn, RefuseInsert(t) \/ DeadlockVictim(t) \/ Fail(t) PROVE IInv'
BY RollBackKeeps DEF RefuseInsert, DeadlockVictim, Fail

-----------------------------------------------------------------------------
(* The commit.                                                              *)

\* What a commit does to the files, whoever makes it.
LEMMA CommittedFiles ==
  ASSUME IInv, NEW t \in Txn, Commit(t)
  PROVE  /\ tx[t] \in Transaction /\ Shape(tx[t]) /\ Holding(t) /\ KnowsFiles(t) /\ KnowsRequirement(t)
         /\ file' \in [File -> FileRow \cup {Unused}]
         /\ \A f \in File : file[f] # Unused => file'[f] # Unused /\ file'[f].req = file[f].req
         /\ \A r \in Req : ActiveFiles(r)' =
              IF r # tx[t].req \/ tx[t].op = "PATCH" THEN ActiveFiles(r) ELSE (ActiveFiles(r) \ tx[t].old) \cup tx[t].new
<1>1. tx[t] \in Transaction /\ Shape(tx[t]) /\ Holding(t) /\ KnowsFiles(t) /\ KnowsRequirement(t)
  BY DEF IInv, TypeOK, Commit, At, Idle, Consistent
<1>2. PICK verified \in BOOLEAN :
        file' = [f \in File |-> CASE f \in tx[t].new -> NewRow(t, verified)
                                  [] f \in tx[t].old -> Written(t, file[f])
                                  [] OTHER -> file[f]]
  BY DEF Commit
<1>3. ASSUME NEW f \in tx[t].new
      PROVE  /\ f \in File /\ file[f] = Unused
             /\ file'[f] \in FileRow /\ file'[f].state = "live" /\ file'[f].active /\ file'[f].req = tx[t].req
  <2>1. f \in File /\ file[f] = Unused /\ tx[t].req \in Req
    BY <1>1 DEF KnowsFiles, Transaction
  <2>a. f \notin tx[t].old
    BY <1>1, <2>1 DEF KnowsFiles
  <2>2. file'[f] = NewRow(t, verified)
    BY <1>2, <2>1, <2>a, Zenon
  <2>3. NewRow(t, verified) \in FileRow
    BY <2>1 DEF NewRow, FileRow, FileStatus
  <2> QED BY <2>1, <2>2, <2>3 DEF NewRow
<1>4. ASSUME NEW f \in tx[t].old
      PROVE  /\ f \in File /\ f \notin tx[t].new /\ file[f] \in FileRow /\ file[f].req = tx[t].req
             /\ file'[f] \in FileRow /\ file'[f].req = file[f].req
             /\ IF tx[t].op = "PATCH" THEN file'[f].state = file[f].state /\ file'[f].active = file[f].active
                ELSE ~file'[f].active
  <2>1. f \in File /\ f \notin tx[t].new /\ file[f] \in FileRow /\ file[f].req = tx[t].req
    BY <1>1 DEF IInv, TypeOK, KnowsFiles, Transaction
  <2>2. file'[f] = Written(t, file[f])
    BY <1>2, <2>1
  <2>3. CASE tx[t].op = "PATCH"
    <3>1. file'[f] = Patched(file[f], tx[t].to) /\ tx[t].to \in FileStatus
      BY <1>1, <2>2, <2>3 DEF Written, Shape
    <3> QED BY <2>1, <2>3, <3>1 DEF Patched, FileRow
  <2>4. CASE tx[t].op = "DELETE"
    BY <2>1, <2>2, <2>4 DEF Written, FileRow
  <2>5. CASE tx[t].op \notin {"PATCH", "DELETE"}
    BY <2>1, <2>2, <2>5 DEF Written, FileRow
  <2> QED BY <2>1, <2>3, <2>4, <2>5
<1>5. \A f \in File : f \notin tx[t].new /\ f \notin tx[t].old => file'[f] = file[f]
  BY <1>2
<1>6. file' \in [File -> FileRow \cup {Unused}]
  BY <1>2, <1>3, <1>4, <1>5 DEF IInv, TypeOK
<1>7. \A f \in File : file[f] # Unused => file'[f] # Unused /\ file'[f].req = file[f].req
  BY <1>3, <1>4, <1>5 DEF FileRow, Unused
<1>8. ASSUME NEW r \in Req
      PROVE  ActiveFiles(r)' = IF r # tx[t].req \/ tx[t].op = "PATCH" THEN ActiveFiles(r)
                               ELSE (ActiveFiles(r) \ tx[t].old) \cup tx[t].new
  <2>1. tx[t].op = "PATCH" => tx[t].new = {}
    BY <1>1 DEF Shape
  <2>2. ASSUME NEW f \in tx[t].new
        PROVE  f \in File /\ tx[t].op # "PATCH" /\ (f \in ActiveFiles(r)' <=> r = tx[t].req) /\ f \notin ActiveFiles(r)
    BY <1>3, <2>1 DEF ActiveFiles, Active, Live, Unused
  <2>3. ASSUME NEW f \in tx[t].old
        PROVE  /\ f \in File /\ f \notin tx[t].new /\ (r # tx[t].req => f \notin ActiveFiles(r) /\ f \notin ActiveFiles(r)')
               /\ IF tx[t].op = "PATCH" THEN f \in ActiveFiles(r)' <=> f \in ActiveFiles(r)
                  ELSE f \notin ActiveFiles(r)'
    BY <1>4 DEF ActiveFiles, Active, Live
  <2>4. ASSUME NEW f \in File, f \notin tx[t].new, f \notin tx[t].old
        PROVE  f \in ActiveFiles(r)' <=> f \in ActiveFiles(r)
    BY <1>5, <2>4 DEF ActiveFiles, Active, Live
  <2>5. ActiveFiles(r)' \subseteq File /\ ActiveFiles(r) \subseteq File
    BY DEF ActiveFiles
  <2> HIDE DEF ActiveFiles
  <2>6. CASE r # tx[t].req \/ tx[t].op = "PATCH"
    BY <2>2, <2>3, <2>4, <2>5, <2>6
  <2>7. CASE r = tx[t].req /\ tx[t].op # "PATCH"
    BY <2>2, <2>3, <2>4, <2>5, <2>7
  <2> QED BY <2>6, <2>7
<1> QED BY <1>1, <1>6, <1>7, <1>8

LEMMA CommitKeeps == ASSUME IInv, NEW t \in Txn, Commit(t) PROVE IInv'
<1>1. /\ tx[t] \in Transaction /\ Shape(tx[t]) /\ Holding(t) /\ KnowsFiles(t) /\ KnowsRequirement(t)
      /\ tx[t].pc = "commit" /\ tx[t].req \in Req
  BY CommittedFiles DEF Commit, At, Transaction
<1>2. /\ \A f \in File : file[f] # Unused => file'[f] # Unused /\ file'[f].req = file[f].req
      /\ \A r \in Req : ActiveFiles(r)' =
           IF r # tx[t].req \/ tx[t].op = "PATCH" THEN ActiveFiles(r) ELSE (ActiveFiles(r) \ tx[t].old) \cup tx[t].new
  BY CommittedFiles
<1>3. /\ tx' = [tx EXCEPT ![t] = Idle]
      /\ lock' \in [Rows -> Txn \cup {NoTxn}]
      /\ \A x \in Rows : lock[x] \in Txn \ {t} => lock'[x] = lock[x]
      /\ Open' => Open
  BY ReleasedLocks DEF IInv, Commit, Continue, Open
<1>4. req' \in [Req -> ReqStatus] /\ (\A r \in Req : r # tx[t].req \/ ~tx[t].writesReq => req'[r] = req[r])
      /\ (tx[t].writesReq => req'[tx[t].req] = tx[t].to)
  <2>1. tx[t].writesReq => tx[t].to \in ReqStatus
    BY <1>1 DEF Shape, ReqStatus
  <2> QED BY <1>1, <2>1 DEF IInv, TypeOK, Commit
<1>5. TypeOK'
  <2>1. case' \in [status : CaseStatus, isReady : BOOLEAN]
    BY DEF IInv, TypeOK, Commit, CaseStatus
  <2> QED BY <1>3, <1>4, <2>1, CommittedFiles DEF IInv, TypeOK
<1>6. tx[t].op = "REVIEW" => tx[t].to # "PENDING_COLLECTION" /\ req[tx[t].req] # "APPROVED"
  BY <1>1, Transitions DEF IInv, TypeOK, KnowsRequirement
<1>7. ASSUME NEW r \in Req
      PROVE  /\ req'[r] = "PENDING_COLLECTION" => ActiveFiles(r)' = {}
             /\ \A f, g \in ActiveFiles(r)' : f = g
             /\ req'[r] = "APPROVED" => ActiveFiles(r)' # {}
  <2>1. /\ req[r] = "PENDING_COLLECTION" => ActiveFiles(r) = {}
        /\ \A f, g \in ActiveFiles(r) : f = g
        /\ req[r] = "APPROVED" => ActiveFiles(r) # {}
    BY DEF IInv, PendingHasNoFile, OneActiveFile, ApprovedHasFile
  <2>2. CASE r # tx[t].req
    BY <1>2, <1>4, <2>1, <2>2
  <2>3. CASE r = tx[t].req /\ tx[t].op = "PATCH"
    <3>1. ActiveFiles(r)' = ActiveFiles(r) /\ req'[r] = req[r]
      BY <1>1, <1>2, <1>4, <2>3 DEF Shape
    <3> QED BY <2>1, <3>1
  <2>4. CASE r = tx[t].req /\ tx[t].op # "PATCH"
    <3>1. ActiveFiles(r)' = (ActiveFiles(r) \ tx[t].old) \cup tx[t].new
      BY <1>2, <2>4
    <3>2. req'[r] = IF tx[t].writesReq THEN tx[t].to ELSE req[r]
      BY <1>4, <2>4
    <3>3. CASE tx[t].op = "REVIEW"
      <4>1. /\ tx[t].writesReq /\ tx[t].new = {} /\ (tx[t].to # "REJECTED" => tx[t].old = {})
            /\ tx[t].to # "PENDING_COLLECTION" /\ (tx[t].to = "APPROVED" => ActiveFiles(r) # {})
        BY <1>1, <1>6, <2>4, <3>3 DEF Shape, KnowsRequirement
      <4> QED BY <2>1, <3>1, <3>2, <4>1
    <3>4. CASE tx[t].op \in {"UPLOAD", "REPLACE"}
      <4>1. PICK f \in File : tx[t].new = {f}
        BY <1>1, <3>4 DEF Shape
      <4>2. ActiveFiles(r)' = {f}
        BY <1>1, <2>4, <3>1, <3>4, <4>1 DEF KnowsFiles, Decided
      <4>3. req'[r] # "PENDING_COLLECTION"
        BY <1>1, <2>4, <3>2, <3>4 DEF Shape, KnowsRequirement, Decided
      <4> QED BY <4>2, <4>3
    <3>5. CASE tx[t].op = "DELETE"
      <4>1. /\ tx[t].new = {} /\ tx[t].to = "PENDING_COLLECTION"
            /\ IF tx[t].writesReq THEN ActiveFiles(r) \subseteq tx[t].old ELSE tx[t].old \cap ActiveFiles(r) = {}
        BY <1>1, <2>4, <3>5 DEF Shape, KnowsFiles, Decided
      <4> QED BY <2>1, <3>1, <3>2, <4>1
    <3> QED BY <1>1, <2>4, <3>3, <3>4, <3>5 DEF Shape
  <2> QED BY <2>2, <2>3, <2>4
<1>8. ASSUME NEW u \in Txn PROVE Consistent(u)'
  <2> SUFFICES ASSUME u # t, tx[u] # Idle PROVE Shape(tx[u]) /\ Holding(u)' /\ KnowsFiles(u)' /\ KnowsRequirement(u)'
    BY <1>3 DEF IInv, TypeOK, Consistent
  <2>1. /\ tx'[u] = tx[u] /\ tx[u] \in Transaction /\ tx[u].req \in Req /\ tx[u].req \in Rows /\ "case" \in Rows
        /\ Shape(tx[u]) /\ Holding(u) /\ KnowsFiles(u) /\ KnowsRequirement(u)
    BY <1>3 DEF IInv, TypeOK, Consistent, Transaction, Rows
  <2>2. Holding(u)'
    BY <1>3, <2>1 DEF Holding
  \* Both hold the rows they write: they meet on none.
  <2>3. tx[u].op # "REVIEW" /\ tx[u].pc # "enter" => tx[t].op = "REVIEW" /\ ~Open
    BY <1>1, <2>1 DEF Holding
  <2>4. tx[u].op = "REVIEW" /\ tx[u].req = tx[t].req => tx[t].op # "REVIEW" /\ ~tx[t].writesReq
    BY <1>1, <2>1 DEF Holding
  <2>5. tx[t].op = "REVIEW" => /\ \A r \in Req : ActiveFiles(r)' \subseteq ActiveFiles(r)
                               /\ \A f \in File : file[f] = Unused => file'[f] = Unused
                               /\ \A f \in File : file[f] # Unused => file'[f].status = file[f].status
    <3> SUFFICES ASSUME tx[t].op = "REVIEW"
                 PROVE  /\ \A r \in Req : ActiveFiles(r)' \subseteq ActiveFiles(r)
                        /\ \A f \in File : file[f] = Unused => file'[f] = Unused
                        /\ \A f \in File : file[f] # Unused => file'[f].status = file[f].status
      OBVIOUS
    <3>1. tx[t].new = {}
      BY <1>1 DEF Shape
    <3>2. ASSUME NEW r \in Req PROVE ActiveFiles(r)' \subseteq ActiveFiles(r)
      <4>1. CASE r # tx[t].req
        BY <1>2, <4>1
      <4>2. CASE r = tx[t].req
        <5>1. ActiveFiles(r)' = (ActiveFiles(r) \ tx[t].old) \cup tx[t].new
          BY <1>2, <4>2
        <5> QED BY <3>1, <5>1
      <4> QED BY <4>1, <4>2
    <3>3. \A f \in File : f \notin tx[t].old => file'[f] = file[f]
      BY <3>1 DEF Commit
    <3>4. ASSUME NEW f \in tx[t].old PROVE f \in File /\ file[f] # Unused /\ file'[f].status = file[f].status
      <4>1. f \in File /\ file[f] # Unused /\ file[f] \in FileRow
        BY <1>1 DEF IInv, TypeOK, KnowsFiles, Transaction
      <4>2. file'[f] = [file[f] EXCEPT !.active = FALSE]
        BY <3>1, <4>1 DEF Commit, Written
      <4> QED BY <4>1, <4>2 DEF FileRow
    <3> QED BY <3>2, <3>3, <3>4
  <2>6. KnowsFiles(u)'
    <3>1. \A f \in tx[u].old : file'[f] # Unused /\ file'[f].req = tx[u].req
      BY <1>2, <2>1 DEF KnowsFiles, Transaction
    <3>2. CASE tx[u].op = "REVIEW"
      BY <2>1, <3>1, <3>2 DEF KnowsFiles, Shape
    <3>3. CASE tx[u].pc = "enter"
      BY <2>1, <3>1, <3>3 DEF KnowsFiles, Shape, Decided
    <3>4. CASE tx[u].op # "REVIEW" /\ tx[u].pc # "enter"
      <4>1. /\ \A r \in Req : ActiveFiles(r)' \subseteq ActiveFiles(r)
            /\ \A f \in File : file[f] = Unused => file'[f] = Unused
            /\ \A f \in File : file[f] # Unused => file'[f].status = file[f].status
        BY <2>3, <2>5, <3>4
      <4>2. tx[u].old \subseteq File /\ tx[u].new \subseteq File
        BY <2>1 DEF Transaction
      <4>3. \A f \in tx[u].new : file'[f] = Unused
        BY <2>1, <4>1, <4>2 DEF KnowsFiles
      <4>4. tx[u].op = "PATCH" => \A f \in tx[u].old : tx[u].to \in DOCUMENT_STATUS_TRANSITIONS[file'[f].status]
        BY <2>1, <4>1, <4>2 DEF KnowsFiles
      <4> QED BY <2>1, <3>1, <4>1, <4>3, <4>4 DEF KnowsFiles, Decided
    <3> QED BY <3>2, <3>3, <3>4
  <2>7. KnowsRequirement(u)'
    <3>1. CASE tx[u].op = "REVIEW"
      <4>1. req'[tx[u].req] = req[tx[u].req]
        BY <1>4, <2>1, <2>4, <3>1
      <4>2. ASSUME NEW r \in Req, r = tx[u].req, ActiveFiles(r) # {} PROVE ActiveFiles(r)' # {}
        <5>1. CASE r # tx[t].req
          BY <1>2, <4>2, <5>1
        <5>2. CASE r = tx[t].req
          <6>1. tx[t].op # "REVIEW" /\ ~tx[t].writesReq
            BY <2>4, <3>1, <4>2, <5>2
          <6>2. CASE tx[t].op = "PATCH"
            BY <1>2, <4>2, <5>2, <6>2
          <6>3. CASE tx[t].op = "DELETE"
            <7>1. tx[t].new = {} /\ tx[t].old \cap ActiveFiles(tx[t].req) = {}
              BY <1>1, <6>1, <6>3 DEF Shape, KnowsFiles, Decided
            <7> QED BY <1>2, <4>2, <5>2, <6>3, <7>1
          <6>4. CASE tx[t].op \in {"UPLOAD", "REPLACE"}
            <7>1. tx[t].new # {}
              BY <1>1, <6>4 DEF Shape
            <7> QED BY <1>2, <4>2, <5>2, <6>4, <7>1
          <6> QED BY <1>1, <6>1, <6>2, <6>3, <6>4 DEF Shape
        <5> QED BY <5>1, <5>2
      <4> QED BY <2>1, <3>1, <4>1, <4>2 DEF KnowsRequirement
    <3>2. CASE tx[u].op \in {"UPLOAD", "REPLACE"} /\ Decided(u)
      <4>1. tx[t].op = "REVIEW" /\ ~Open /\ ~Open'
        BY <1>3, <2>3, <3>2 DEF Decided
      <4>2. req[tx[u].req] # "PENDING_COLLECTION" => req'[tx[u].req] # "PENDING_COLLECTION"
        BY <1>4, <1>6, <2>1, <4>1
      <4> QED BY <2>1, <3>2, <4>1, <4>2 DEF KnowsRequirement, Decided
    <3>3. CASE tx[u].op # "REVIEW" /\ ~(tx[u].op \in {"UPLOAD", "REPLACE"} /\ Decided(u))
      BY <2>1, <3>3 DEF KnowsRequirement, Decided
    <3> QED BY <3>1, <3>2, <3>3
  <2> QED BY <2>1, <2>2, <2>6, <2>7
<1> QED BY <1>5, <1>7, <1>8 DEF IInv, PendingHasNoFile, OneActiveFile, ApprovedHasFile

LEMMA CloseCaseKeeps == ASSUME IInv, CloseCase PROVE IInv'
<1>1. UNCHANGED <<req, file, lock, tx>> /\ case' = [case EXCEPT !.status = "CLOSED_NO_DOCS"]
  BY DEF CloseCase
<1>2. TypeOK' /\ ~Open'
  BY <1>1 DEF IInv, TypeOK, CaseStatus, Open
<1>3. \A r \in Req : ActiveFiles(r)' = ActiveFiles(r)
  BY <1>1 DEF ActiveFiles, Active, Live
<1>4. PendingHasNoFile' /\ OneActiveFile' /\ ApprovedHasFile'
  BY <1>1, <1>3 DEF IInv, PendingHasNoFile, OneActiveFile, ApprovedHasFile
<1>5. ASSUME NEW u \in Txn, tx[u] # Idle PROVE Shape(tx[u]) /\ Holding(u)' /\ KnowsFiles(u)' /\ KnowsRequirement(u)'
  <2>1. Shape(tx[u]) /\ Holding(u) /\ KnowsFiles(u) /\ KnowsRequirement(u) /\ tx[u].req \in Req
    BY <1>5 DEF IInv, TypeOK, Consistent, Transaction
  <2> QED BY <1>1, <1>2, <1>3, <2>1 DEF Holding, KnowsFiles, KnowsRequirement, Decided
<1> QED BY <1>1, <1>2, <1>4, <1>5 DEF IInv, Consistent


-----------------------------------------------------------------------------
(* The specification.                                                       *)

LEMMA NextKeeps == ASSUME IInv, [Next]_vars PROVE IInv'
<1>1. ASSUME NEW t \in Txn, Reviews(t) PROVE IInv'
  BY <1>1, BeginReviewKeeps DEF Reviews
<1>2. ASSUME NEW t \in Txn, FileRequests(t) PROVE IInv'
  BY <1>2, BeginUploadKeeps, BeginReplaceKeeps, BeginPatchKeeps, BeginDeleteKeeps DEF FileRequests
<1>3. ASSUME NEW t \in Txn, Step(t) PROVE IInv'
  BY <1>3, LockRejectedFilesKeeps, ReadChecklistKeeps, LockCaseRowKeeps, LockCaseToDeleteKeeps, LockFileKeeps,
     InsertKeeps, RefuseInsertKeeps, LockRequirementKeeps, CommitKeeps DEF Step
<1>4. CASE UNCHANGED vars
  BY <1>4 DEF vars, IInv, TypeOK, PendingHasNoFile, OneActiveFile, ApprovedHasFile, Consistent, Holding,
              KnowsFiles, KnowsRequirement, Decided, ActiveFiles, Active, Live, Open
<1> QED BY <1>1, <1>2, <1>3, <1>4, RefuseInsertKeeps, CloseCaseKeeps DEF Next

\* IInv holds at every moment, however the transactions interleave.
THEOREM Invariance == Spec => []IInv
<1>1. Init => IInv
  BY InitIInv
<1>2. IInv /\ [Next]_vars => IInv'
  BY NextKeeps
<1> QED BY <1>1, <1>2, PTL DEF Spec

-----------------------------------------------------------------------------
(* What the checklist promises.                                             *)

\* Every reachable value has its type, whoever reviews, uploads, replaces, deletes or
\* fails.
THEOREM TypeCorrect == Spec => []TypeOK
BY Invariance, PTL DEF IInv

\* updateDocumentStatus approves only a requirement with an active file, and no
\* deletion or replacement takes the last one away without resetting it: at every
\* moment an approved requirement has an active file.
THEOREM ApprovalsHaveFiles == Spec => []ApprovedHasFile
BY Invariance, PTL DEF IInv

\* Only a commit writes requirements and files.
LEMMA OnlyCommitWrites ==
  ASSUME [Next]_vars, ~\E t \in Txn : Commit(t)
  PROVE  UNCHANGED <<req, file>>
BY DEF Next, vars, Reviews, FileRequests, Step, BeginReview, BeginUpload, BeginReplace, BeginPatch, BeginDelete,
       EnterCase, LockRejectedFiles, ReadChecklist, LockCaseRow, LockCaseToDelete, LockFile, Insert, RefuseInsert,
       LockRequirement, DeadlockVictim, Fail, RollBack, CloseCase

\* On an open case a decision of updateDocumentStatus is not overwritten by an upload or
\* a replacement that read the requirement before it: transitionRequirementInTx still
\* finds it pending or rejected, because the uploader holds the case row that the
\* reviewer needs to commit.
THEOREM DecisionsStand == Spec => VerdictStands
<1> DEFINE Stands == Open => ~\E r \in Req : Overturned(r)
<1>1. ASSUME IInv, NEW t \in Txn, Commit(t), Open, NEW r \in Req PROVE ~Overturned(r)
  <2>1. /\ tx[t] \in Transaction /\ Shape(tx[t]) /\ KnowsFiles(t) /\ KnowsRequirement(t)
        /\ tx[t].pc = "commit" /\ req[r] \in ReqStatus
    BY <1>1, CommittedFiles DEF IInv, TypeOK, Commit, At
  <2>2. CASE r # tx[t].req \/ ~tx[t].writesReq
    <3>1. req'[r] = req[r]
      BY <1>1, <2>2 DEF IInv, TypeOK, Commit
    <3> QED BY <2>1, <3>1 DEF Overturned
  <2>3. CASE r = tx[t].req /\ tx[t].writesReq
    <3>1. req'[r] = tx[t].to
      BY <1>1, <2>3 DEF IInv, TypeOK, Commit
    <3>2. CASE tx[t].op = "REVIEW"
      BY <2>1, <2>3, <3>1, <3>2, Transitions DEF KnowsRequirement, Overturned
    <3>3. CASE tx[t].op \in {"UPLOAD", "REPLACE"}
      BY <1>1, <2>1, <2>3, <3>1, <3>3 DEF Shape, KnowsRequirement, Decided, Overturned
    <3>4. CASE tx[t].op \in {"DELETE", "PATCH"}
      BY <2>1, <2>3, <3>1, <3>4 DEF Shape, Overturned
    <3> QED BY <2>1, <3>2, <3>3, <3>4 DEF Shape
  <2> QED BY <2>2, <2>3
<1>2. ASSUME IInv, [Next]_vars PROVE [Stands]_vars
  <2>1. CASE ~\E t \in Txn : Commit(t)
    BY <1>2, <2>1, OnlyCommitWrites DEF Overturned, IInv, TypeOK
  <2> QED BY <1>1, <1>2, <2>1
<1>3. IInv /\ [Next]_vars => [Stands]_vars
  BY <1>2
<1> QED BY <1>3, Invariance, PTL DEF Spec, VerdictStands, Open

\* updateStatus checks the transition table under the lock of the case row, and every
\* other writer of files leaves the status of a live one alone: each committed change of
\* a file's status follows DOCUMENT_STATUS_TRANSITIONS from the status it replaces.
THEOREM StatusFollowsTable == Spec => FileFollowsTable
<1> DEFINE Follows == \A f \in File : Live(f) /\ file[f].status # file'[f].status
                                      => file'[f].status \in DOCUMENT_STATUS_TRANSITIONS[file[f].status]
<1>1. ASSUME IInv, NEW t \in Txn, Commit(t), NEW f \in File, Live(f), file[f].status # file'[f].status
      PROVE  file'[f].status \in DOCUMENT_STATUS_TRANSITIONS[file[f].status]
  <2>1. /\ tx[t] \in Transaction /\ Shape(tx[t]) /\ KnowsFiles(t) /\ file[f] \in FileRow
    BY <1>1, CommittedFiles DEF IInv, TypeOK, Live, Unused
  <2>2. f \notin tx[t].new
    BY <1>1, <2>1 DEF KnowsFiles, Live, Unused
  <2>3. file'[f] = IF f \in tx[t].old THEN Written(t, file[f]) ELSE file[f]
    BY <1>1, <2>2 DEF Commit
  <2>4. CASE tx[t].op = "PATCH" /\ f \in tx[t].old
    <3>1. file'[f] = Patched(file[f], tx[t].to)
      BY <2>3, <2>4 DEF Written
    <3>2. file'[f].status = tx[t].to
      BY <2>1, <3>1 DEF Patched, FileRow
    <3> QED BY <2>1, <2>4, <3>2 DEF KnowsFiles
  <2>5. CASE tx[t].op # "PATCH" \/ f \notin tx[t].old
    <3>1. file'[f].status = file[f].status
      BY <2>1, <2>3, <2>5 DEF Written, FileRow
    <3> QED BY <1>1, <3>1
  <2> QED BY <2>4, <2>5
<1>2. ASSUME IInv, [Next]_vars PROVE [Follows]_vars
  <2>1. CASE ~\E t \in Txn : Commit(t)
    BY <1>2, <2>1, OnlyCommitWrites
  <2> QED BY <1>1, <1>2, <2>1
<1>3. IInv /\ [Next]_vars => [Follows]_vars
  BY <1>2
<1> QED BY <1>3, Invariance, PTL DEF Spec, FileFollowsTable
=============================================================================
