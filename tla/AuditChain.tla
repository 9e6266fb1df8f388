----------------------------- MODULE AuditChain -----------------------------
(***************************************************************************)
(* The hash chain of one tenant's AuditLog (audit.service).  appendInTx    *)
(* takes the tenant's advisory lock, which the transaction keeps to its    *)
(* end, looks for the row nothing chains off and adds a row after it.  The *)
(* newest row by createdAt is only a guess at that row: createdAt is the   *)
(* application's clock, in milliseconds, and several processes append.     *)
(*                                                                         *)
(* A hash is modelled by what it stands for: the hash of a row is the      *)
(* previous hash followed by the canonical form of the row's content, so   *)
(* that equal hashes mean equal contents after equal contents.  The first  *)
(* row's previous hash (NULL) is the empty sequence.                       *)
(*                                                                         *)
(* The content is hashed as the caller gave it and stored as JSON.  What   *)
(* the column gives back need not have the canonical form of what was      *)
(* given: canonicalJson writes a Date as {}, JSON keeps its text.          *)
(***************************************************************************)
EXTENDS Naturals, Sequences, FiniteSets

CONSTANTS
    Txn,      \* connections, each with at most one open transaction
    Payload,  \* what an entry says: payload, beforeState and afterState
    Text,     \* canonical forms
    canonicalJson,
    Stored,   \* what the JSON columns give back of a payload
    Clock,    \* values of createdAt; no order between successive readings
    NoTxn,
    MaxRows   \* bound on the rows of a run (finite model)

ASSUME TxnAssumption == NoTxn \notin Txn
ASSUME ClockAssumption == Clock \subseteq Nat
ASSUME ContentAssumption == canonicalJson \in [Payload -> Text] /\ Stored \in [Payload -> Payload]
ASSUME MaxAssumption == MaxRows \in Nat

VARIABLES
    log,    \* the committed rows
    lock,   \* the holder of pg_advisory_xact_lock(hashtext(tenantId), 7001)
    open,   \* the open transactions
    own     \* the uncommitted rows of each transaction

vars == <<log, lock, open, own>>

Entry == [payload : Payload, createdAt : Clock]
Content == [text : Text, createdAt : Clock]
Row == [previousHash : Seq(Content), entry : Entry]
hashInput(payload, createdAt) == [text |-> canonicalJson[payload], createdAt |-> createdAt]
currentHash(row) == Append(row.previousHash, hashInput(row.entry.payload, row.entry.createdAt))
Null == <<>>

Init ==
    /\ log = {}
    /\ lock = NoTxn
    /\ open = {}
    /\ own = [t \in Txn |-> {}]

\* What a statement of t sees: the committed rows and its own.
Visible(t) == log \cup own[t]

-----------------------------------------------------------------------------
Successors(rows, hash) == {s \in rows : s.previousHash = hash}
Leaves(rows) == {r \in rows : Successors(rows, currentHash(r)) = {}}
Newest(rows) == {r \in rows : \A s \in rows : s.entry.createdAt <= r.entry.createdAt}

\* Mutant: the newest row is taken for the tip.
findNewest(rows) ==
    IF rows = {} THEN {Null} ELSE {currentHash(r) : r \in Newest(rows)}

\* The hashes findLeaf may return; none means that it throws AuditChainBranchError.
\* The newest row, any of them on a tie, is taken if nothing chains off it; otherwise
\* the rows without a successor are searched for, and there must be exactly one.
findLeaf(rows) ==
    IF rows = {} THEN {Null}
    ELSE UNION {IF n \in Leaves(rows) THEN {currentHash(n)}
                ELSE IF \E r \in Leaves(rows) : Leaves(rows) = {r}
                     THEN {currentHash(r) : r \in Leaves(rows)} ELSE {}
                : n \in Newest(rows)}

-----------------------------------------------------------------------------
Begin(t) ==
    /\ t \notin open
    /\ open' = open \cup {t}
    /\ UNCHANGED <<log, lock, own>>

\* Taking the lock again in the same transaction is a no-op.
AcquireAuditLock(t) ==
    /\ t \in open
    /\ lock = NoTxn
    /\ lock' = t
    /\ UNCHANGED <<log, open, own>>

AppendInTx(t) ==
    /\ t \in open
    /\ lock = t
    /\ Cardinality(Visible(t)) < MaxRows
    /\ \E e \in Entry, previousHash \in findLeaf(Visible(t)) :
           own' = [own EXCEPT ![t] = @ \cup {[previousHash |-> previousHash, entry |-> e]}]
    /\ UNCHANGED <<log, lock, open>>

End(t) ==
    /\ t \in open
    /\ open' = open \ {t}
    /\ lock' = IF lock = t THEN NoTxn ELSE lock
    /\ own' = [own EXCEPT ![t] = {}]

\* Mutant: the transaction's entries replace the ones that say the same.
CommitReplacing(t) ==
    /\ End(t)
    /\ log' = {r \in log : \A o \in own[t] : o.entry.payload # r.entry.payload} \cup own[t]

Commit(t) ==
    /\ End(t)
    /\ log' = log \cup own[t]

\* A failure, or a timeout of the transaction.
RollBack(t) ==
    /\ End(t)
    /\ UNCHANGED log

Next == \E t \in Txn : Begin(t) \/ AcquireAuditLock(t) \/ AppendInTx(t) \/ Commit(t) \/ RollBack(t)

Spec == Init /\ [][Next]_vars

-----------------------------------------------------------------------------
(* verifyChain: walk from the genesis row.                                  *)

Genesis(rows) == {r \in rows : r.previousHash = Null}

\* The rows visited after n steps: the walk stops at a leaf and at a branch.
walk(rows) ==
    LET visited[n \in Nat] ==
            IF n = 0 THEN Genesis(rows)
            ELSE visited[n - 1] \cup
                 UNION {LET next == Successors(rows, currentHash(r))
                        IN IF Cardinality(next) = 1 THEN next ELSE {} : r \in visited[n - 1]}
    IN visited[Cardinality(rows)]

\* The hash that is computed again of what the columns give back.
expected(row) == Append(row.previousHash, hashInput(Stored[row.entry.payload], row.entry.createdAt))

verifyChain(rows) ==
    \/ rows = {}
    \/ /\ Cardinality(Genesis(rows)) = 1
       /\ walk(rows) = rows
       /\ \A r \in rows : expected(r) = currentHash(r)

-----------------------------------------------------------------------------
\* Every reachable value has its type; the lock is held by an open transaction.
TypeOK ==
    /\ log \subseteq Row
    /\ lock \in open \cup {NoTxn}
    /\ open \subseteq Txn
    /\ own \in [Txn -> SUBSET Row]

\* The log never branches: no two committed rows chain off the same row, whatever
\* the clocks said and however the transactions that wrote them overlapped.
NoBranch == \A r, s \in log : r.previousHash = s.previousHash => r = s

\* Every row but the first chains off a committed row: a rolled back transaction
\* leaves nobody's predecessor missing.
NoOrphan == \A r \in log : r.previousHash = Null \/ \E s \in log : currentHash(s) = r.previousHash

\* Whoever holds the lock finds a leaf: AuditChainBranchError is never thrown, so that
\* no clock and no rollback can stop a tenant's business transactions for good.
AppendNeverRefused == \A t \in Txn : lock = t => findLeaf(Visible(t)) # {}

\* What JSON gives back in another canonical form than it was hashed in: rows with Dates.
Lossy(payload) == canonicalJson[Stored[payload]] # canonicalJson[payload]

\* An auditor who runs verifyChain at any moment gets valid = true unless a payload was logged
\* that storage changes: neither clocks nor rollbacks nor overlapping appends make it fail.
AlwaysVerifies == verifyChain(log) <=> \A r \in log : ~Lossy(r.entry.payload)

\* The log implements the audit trail: its value is the hash of the only leaf.
Tip(rows) == IF rows = {} THEN Null ELSE currentHash(CHOOSE r \in rows : r \in Leaves(rows))
Trail == INSTANCE AuditTrail WITH trail <- Tip(log), Entry <- Content
ImplementsTrail == Trail!Spec
=============================================================================
