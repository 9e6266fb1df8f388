------------------------ MODULE AuditAndRoles_proofs ------------------------
(***************************************************************************)
(* Proofs about two components that share nothing but the idea that a      *)
(* writer must not act on what another one has changed since: AuditChain,  *)
(* the hash chain of the audit log, first, and RoleGrants, the managers of *)
(* an organisation and the manifests in its cache, second.                 *)
(*                                                                         *)
(* The chain never branches and an append is never refused, for any number *)
(* of connections and any clocks.  The invariant speaks of the rows each   *)
(* transaction sees: they have one row per depth and no gap, so a row      *)
(* nothing chains off is the deepest one, wherever createdAt puts it.      *)
(***************************************************************************)
EXTENDS AuditChain, RoleGrants, SequenceTheorems, FiniteSetTheorems, FunctionTheorems, WellFoundedInduction, TLAPS

depth(r) == Len(r.previousHash)

Linear(rows) == \A r, s \in rows : depth(r) = depth(s) => r = s
Linked(rows) == \A r \in rows : r.previousHash = Null \/ \E s \in rows : currentHash(s) = r.previousHash
Gapless(rows) == \A r \in rows, k \in Nat : k < depth(r) => \E s \in rows : depth(s) = k
HasTip(rows) == rows = {} \/ \E r \in rows : Leaves(rows) = {r}
HasNewest(rows) == rows = {} \/ Newest(rows) # {}

Chain(rows) ==
    /\ rows \subseteq Row
    /\ Linear(rows) /\ Linked(rows) /\ Gapless(rows) /\ HasTip(rows) /\ HasNewest(rows)

\* Only the holder of the lock has uncommitted rows.
Exclusive == \A t \in Txn : own[t] # {} => lock = t

IInv ==
    /\ TypeOK
    /\ Exclusive
    /\ Chain(log)
    /\ \A t \in Txn : Chain(Visible(t))

-----------------------------------------------------------------------------
(* Rows and their depth.                                                    *)

LEMMA InputIsContent ==
  ASSUME NEW e \in Entry
  PROVE  hashInput(e.payload, e.createdAt) \in Content
BY ContentAssumption DEF Entry, Content, hashInput

\* A row's hash is one longer than its previous hash, and no hash is NULL.
LEMMA HashDepth ==
  ASSUME NEW r \in Row
  PROVE  /\ depth(r) \in Nat
         /\ currentHash(r) \in Seq(Content)
         /\ Len(currentHash(r)) = depth(r) + 1
         /\ currentHash(r) # Null
<1> DEFINE c == hashInput(r.entry.payload, r.entry.createdAt)
<1>1. r.previousHash \in Seq(Content) /\ c \in Content
  BY InputIsContent DEF Row
<1>2. currentHash(r) = Append(r.previousHash, c)
  BY DEF currentHash
<1> HIDE DEF c
<1> QED BY <1>1, <1>2 DEF depth, Null

\* Only the first row has depth 0.
LEMMA NullDepth ==
  ASSUME NEW r \in Row
  PROVE  r.previousHash = Null <=> depth(r) = 0
BY EmptySeq DEF Row, depth, Null

\* In a chain a row without a successor is the deepest.
LEMMA LeafIsDeepest ==
  ASSUME NEW rows, Chain(rows), NEW r \in Leaves(rows), NEW s \in rows
  PROVE  depth(s) <= depth(r)
<1>1. r \in rows /\ rows \subseteq Row
  BY DEF Leaves, Chain
<1>2. depth(r) \in Nat /\ depth(s) \in Nat
  BY <1>1, HashDepth
<1>3. SUFFICES ASSUME depth(s) > depth(r) PROVE FALSE
  BY <1>2
<1>4. PICK x \in rows : depth(x) = depth(r) + 1
  <2>1. CASE depth(s) = depth(r) + 1
    BY <2>1
  <2>2. CASE depth(s) # depth(r) + 1
    BY <2>2, <1>2, <1>3 DEF Chain, Gapless
  <2> QED BY <2>1, <2>2
<1>5. x \in Row /\ x.previousHash # Null
  BY <1>1, <1>2, <1>4, NullDepth
<1>6. PICK q \in rows : currentHash(q) = x.previousHash
  BY <1>5 DEF Chain, Linked
<1>7. depth(q) = depth(r)
  <2>1. q \in Row /\ depth(q) \in Nat /\ Len(currentHash(q)) = depth(q) + 1
    BY <1>1, HashDepth
  <2> QED BY <2>1, <1>2, <1>4, <1>6 DEF depth
<1>8. q = r
  BY <1>1, <1>7 DEF Chain, Linear
<1>9. x \in Successors(rows, currentHash(r))
  BY <1>6, <1>8 DEF Successors
<1> QED BY <1>9 DEF Leaves

\* What findLeaf returns is the hash of a row nothing chains off.
LEMMA FoundIsLeaf ==
  ASSUME NEW rows, rows # {}, NEW hash \in findLeaf(rows)
  PROVE  \E r \in Leaves(rows) : hash = currentHash(r)
<1>1. PICK n \in Newest(rows) :
         hash \in IF n \in Leaves(rows) THEN {currentHash(n)}
                  ELSE IF \E r \in Leaves(rows) : Leaves(rows) = {r}
                       THEN {currentHash(r) : r \in Leaves(rows)} ELSE {}
  BY DEF findLeaf
<1>2. CASE n \in Leaves(rows)
  BY <1>1, <1>2
<1>3. CASE n \notin Leaves(rows)
  BY <1>1, <1>3
<1> QED BY <1>2, <1>3

\* In a chain findLeaf finds something: it never throws.
LEMMA LeafIsFound ==
  ASSUME NEW rows, Chain(rows)
  PROVE  findLeaf(rows) # {}
<1>1. CASE rows = {}
  BY <1>1 DEF findLeaf
<1>2. CASE rows # {}
  <2>1. PICK n : n \in Newest(rows)
    BY <1>2 DEF Chain, HasNewest
  <2>2. PICK tip \in rows : Leaves(rows) = {tip}
    BY <1>2 DEF Chain, HasTip
  <2>3. currentHash(tip) \in IF n \in Leaves(rows) THEN {currentHash(n)}
                  ELSE IF \E r \in Leaves(rows) : Leaves(rows) = {r}
                       THEN {currentHash(r) : r \in Leaves(rows)} ELSE {}
    BY <2>2
  <2>4. currentHash(tip) \in findLeaf(rows)
    BY <1>2, <2>1, <2>3 DEF findLeaf
  <2> QED BY <2>4
<1> QED BY <1>1, <1>2

\* Adding a row after a leaf keeps the chain: the new row is the only leaf.
LEMMA AppendKeepsChain ==
  ASSUME NEW rows, Chain(rows), NEW hash \in findLeaf(rows), NEW e \in Entry, e.createdAt \in Nat,
         \A r \in rows : r.entry.createdAt \in Nat
  PROVE  Chain(rows \cup {[previousHash |-> hash, entry |-> e]})
<1> DEFINE new == [previousHash |-> hash, entry |-> e]
           rows2 == rows \cup {new}
<1>1. CASE rows = {}
  <2>1. hash = Null
    BY <1>1 DEF findLeaf
  <2>2. new \in Row /\ depth(new) = 0 /\ new.previousHash = Null /\ currentHash(new) # Null
    <3>1. new \in Row
      BY <2>1 DEF Row, Null
    <3> QED BY <2>1, <3>1, HashDepth, NullDepth
  <2> HIDE DEF new
  <2>3. rows2 = {new} /\ rows2 \subseteq Row
    BY <1>1, <2>2
  <2>4. Leaves(rows2) = {new}
    BY <2>2, <2>3 DEF Leaves, Successors
  <2>5. Newest(rows2) = {new}
    <3>1. new.entry.createdAt \in Nat
      BY DEF new
    <3> QED BY <2>3, <3>1 DEF Newest
  <2>6. Linear(rows2) /\ Linked(rows2)
    BY <2>2, <2>3 DEF Linear, Linked
  <2>7. Gapless(rows2)
    BY <2>2, <2>3 DEF Gapless
  <2>8. Chain(rows2)
    BY <2>3, <2>4, <2>5, <2>6, <2>7 DEF Chain, HasTip, HasNewest
  <2> QED BY <2>8 DEF new
<1>2. CASE rows # {}
  <2>1. PICK leaf \in Leaves(rows) : hash = currentHash(leaf)
    BY <1>2, FoundIsLeaf
  <2>2. leaf \in rows /\ leaf \in Row /\ rows \subseteq Row
    BY DEF Leaves, Chain
  <2>3. /\ new \in Row
        /\ depth(new) = depth(leaf) + 1
        /\ new.previousHash = currentHash(leaf)
        /\ new.entry = e
        /\ depth(leaf) \in Nat
    BY <2>1, <2>2, HashDepth DEF Row, depth
  <2> HIDE DEF new
  <2>4. \A s \in rows : depth(s) \in Nat /\ depth(s) <= depth(leaf)
    BY <2>2, LeafIsDeepest, HashDepth
  <2>5. Linear(rows2)
    BY <2>3, <2>4 DEF Chain, Linear
  <2>6. Linked(rows2)
    BY <2>2, <2>3 DEF Chain, Linked
  <2>7. Gapless(rows2)
    <3> SUFFICES ASSUME NEW r \in rows2, NEW k \in Nat, k < depth(r)
                 PROVE  \E s \in rows2 : depth(s) = k
      BY DEF Gapless
    <3>1. CASE r \in rows
      BY <3>1 DEF Chain, Gapless
    <3>2. CASE r = new /\ k = depth(leaf)
      BY <2>2, <3>2
    <3>3. CASE r = new /\ k # depth(leaf)
      BY <2>2, <2>3, <3>3 DEF Chain, Gapless
    <3> QED BY <3>1, <3>2, <3>3
  <2>8. Leaves(rows2) = {new}
    <3>1. \A s \in rows : s.previousHash # currentHash(new)
      <4> SUFFICES ASSUME NEW s \in rows, s.previousHash = currentHash(new) PROVE FALSE
        OBVIOUS
      <4>1. depth(s) = depth(new) + 1
        BY <2>3, HashDepth DEF depth
      <4> QED BY <2>3, <2>4, <4>1
    <3>2. new.previousHash # currentHash(new)
      <4>1. Len(currentHash(new)) = depth(new) + 1 /\ depth(new) \in Nat
        BY <2>3, HashDepth
      <4> QED BY <4>1 DEF depth
    <3>3. new \in Leaves(rows2)
      BY <3>1, <3>2 DEF Leaves, Successors
    <3>4. leaf \notin Leaves(rows2)
      BY <2>3 DEF Leaves, Successors
    <3>5. \A r \in rows : r \in Leaves(rows2) => r \in Leaves(rows)
      BY DEF Leaves, Successors
    <3>6. Leaves(rows) = {leaf}
      BY <2>2, <1>2 DEF Chain, HasTip
    <3>7. Leaves(rows2) \subseteq rows2
      BY DEF Leaves
    <3> QED BY <3>3, <3>4, <3>5, <3>6, <3>7
  <2>9. HasNewest(rows2)
    <3>1. PICK n \in rows : \A s \in rows : s.entry.createdAt <= n.entry.createdAt
      BY <1>2 DEF Chain, HasNewest, Newest
    <3>2. n.entry.createdAt \in Nat /\ new.entry.createdAt \in Nat
      BY <2>3
    <3>3. CASE new.entry.createdAt <= n.entry.createdAt
      <4>1. n \in Newest(rows2)
        BY <3>1, <3>2, <3>3 DEF Newest
      <4> QED BY <4>1 DEF HasNewest
    <3>4. CASE ~(new.entry.createdAt <= n.entry.createdAt)
      <4>1. \A s \in rows2 : s.entry.createdAt <= new.entry.createdAt
        BY <3>1, <3>2, <3>4
      <4>2. new \in Newest(rows2)
        BY <4>1 DEF Newest
      <4> QED BY <4>2 DEF HasNewest
    <3> QED BY <3>3, <3>4
  <2>10. Chain(rows2)
    <3>1. rows2 \subseteq Row
      BY <2>2, <2>3
    <3>2. HasTip(rows2)
      BY <2>8 DEF HasTip
    <3> QED BY <2>5, <2>6, <2>7, <2>9, <3>1, <3>2 DEF Chain
  <2> QED BY <2>10 DEF new
<1> QED BY <1>1, <1>2

-----------------------------------------------------------------------------
(* The invariant.                                                           *)

LEMMA InitInv == Init => IInv
<1> SUFFICES ASSUME Init PROVE IInv
  OBVIOUS
<1>1. Chain({})
  BY DEF Chain, Linear, Linked, Gapless, HasTip, HasNewest
<1>2. \A t \in Txn : Visible(t) = {}
  BY DEF Init, Visible
<1>3. TypeOK /\ Exclusive
  BY DEF Init, TypeOK, Exclusive
<1> QED BY <1>1, <1>2, <1>3 DEF IInv, Init

LEMMA NextInv == IInv /\ [Next]_vars => IInv'
<1> SUFFICES ASSUME IInv, [Next]_vars PROVE IInv'
  OBVIOUS
<1>0. TypeOK /\ Exclusive /\ Chain(log) /\ \A t \in Txn : Chain(Visible(t))
  BY DEF IInv
<1>1. ASSUME NEW t \in Txn, Begin(t) PROVE IInv'
  <2>1. TypeOK' /\ Exclusive'
    BY <1>0, <1>1 DEF Begin, TypeOK, Exclusive
  <2>2. log' = log /\ \A u \in Txn : Visible(u)' = Visible(u)
    BY <1>1 DEF Begin, Visible
  <2> QED BY <1>0, <2>1, <2>2 DEF IInv
<1>2. ASSUME NEW t \in Txn, AcquireAuditLock(t) PROVE IInv'
  <2>1. TypeOK' /\ Exclusive'
    BY <1>0, <1>2, TxnAssumption DEF AcquireAuditLock, TypeOK, Exclusive
  <2>2. log' = log /\ \A u \in Txn : Visible(u)' = Visible(u)
    BY <1>2 DEF AcquireAuditLock, Visible
  <2> QED BY <1>0, <2>1, <2>2 DEF IInv
<1>3. ASSUME NEW t \in Txn, AppendInTx(t) PROVE IInv'
  <2>1. PICK e \in Entry, hash \in findLeaf(Visible(t)) :
           own' = [own EXCEPT ![t] = @ \cup {[previousHash |-> hash, entry |-> e]}]
    BY <1>3 DEF AppendInTx
  <2> DEFINE new == [previousHash |-> hash, entry |-> e]
  <2>2. lock = t /\ log' = log /\ lock' = lock /\ open' = open
    BY <1>3 DEF AppendInTx
  <2>3. own \in [Txn -> SUBSET Row]
    BY <1>0 DEF TypeOK
  <2>4. e.createdAt \in Nat /\ \A r \in Visible(t) : r.entry.createdAt \in Nat
    <3>1. \A r \in Row : r.entry.createdAt \in Nat
      BY ClockAssumption DEF Row, Entry
    <3> QED BY <1>0, <3>1, ClockAssumption DEF Chain, Entry
  <2>5. Chain(Visible(t) \cup {new})
    BY <1>0, <2>4, AppendKeepsChain
  <2>6. Visible(t)' = Visible(t) \cup {new}
    BY <2>1, <2>2, <2>3 DEF Visible
  <2>7. \A u \in Txn \ {t} : Visible(u)' = Visible(u)
    BY <2>1, <2>2, <2>3 DEF Visible
  <2>8. new \in Row
    BY <2>5 DEF Chain
  <2> HIDE DEF new
  <2>9. TypeOK'
    <3>1. own' \in [Txn -> SUBSET Row]
      BY <2>1, <2>3, <2>8 DEF new
    <3> QED BY <1>0, <2>2, <3>1 DEF TypeOK
  <2>10. Exclusive'
    BY <1>0, <2>1, <2>2, <2>3 DEF Exclusive
  <2> QED BY <1>0, <2>2, <2>5, <2>6, <2>7, <2>9, <2>10 DEF IInv
<1>4. ASSUME NEW t \in Txn, End(t), log' \in {log, log \cup own[t]} PROVE IInv'
  <2>1. own \in [Txn -> SUBSET Row] /\ log \subseteq Row
    BY <1>0 DEF TypeOK
  <2>2. own' = [own EXCEPT ![t] = {}]
    BY <1>4 DEF End
  <2>3. TypeOK'
    BY <1>0, <1>4, <2>1 DEF End, TypeOK
  <2>4. Exclusive'
    BY <1>0, <1>4, <2>1 DEF End, Exclusive
  <2>5. Chain(log')
    BY <1>0, <1>4 DEF Visible
  <2>6. \A u \in Txn : Chain(Visible(u)')
    <3> SUFFICES ASSUME NEW u \in Txn PROVE Chain(Visible(u)')
      OBVIOUS
    <3>1. Visible(u)' = log' \cup own'[u]
      BY DEF Visible
    <3>2. CASE u = t \/ own[u] = {}
      <4>1. Visible(u)' = log'
        BY <2>1, <2>2, <3>1, <3>2
      <4> QED BY <2>5, <4>1
    <3>3. CASE u # t /\ own[u] # {}
      <4>1. own[t] = {}
        BY <1>0, <3>3 DEF Exclusive
      <4>2. Visible(u)' = Visible(u)
        BY <1>4, <2>1, <2>2, <3>1, <3>3, <4>1 DEF Visible
      <4> QED BY <1>0, <4>2
    <3> QED BY <3>2, <3>3
  <2> QED BY <2>3, <2>4, <2>5, <2>6 DEF IInv
<1>5. ASSUME UNCHANGED vars PROVE IInv'
  <2>1. TypeOK' /\ Exclusive'
    BY <1>0, <1>5 DEF vars, TypeOK, Exclusive
  <2>2. log' = log /\ \A u \in Txn : Visible(u)' = Visible(u)
    BY <1>5 DEF vars, Visible
  <2> QED BY <1>0, <2>1, <2>2 DEF IInv
<1> QED BY <1>1, <1>2, <1>3, <1>4, <1>5 DEF Next, Commit, RollBack

LEMMA Invariance == Spec => []IInv
BY InitInv, NextInv, PTL DEF Spec

\* The log is well typed.
THEOREM TypeCorrect == Spec => []TypeOK
<1>1. IInv => TypeOK
  BY DEF IInv
<1> QED BY <1>1, Invariance, PTL

\* No two committed rows chain off the same row, for any number of connections, any
\* clocks and any number of rows: appendInTx never branches the log.
THEOREM ChainNeverBranches == Spec => []NoBranch
<1>1. IInv => NoBranch
  BY DEF IInv, Chain, Linear, NoBranch, depth
<1> QED BY <1>1, Invariance, PTL

\* Every committed row's predecessor is committed.
THEOREM ChainHasNoOrphan == Spec => []NoOrphan
<1>1. IInv => NoOrphan
  BY DEF IInv, Chain, Linked, NoOrphan
<1> QED BY <1>1, Invariance, PTL

\* findLeaf finds a leaf whenever the lock is held, so AuditChainBranchError is never
\* thrown: not by a tie of createdAt, nor by a clock that goes backwards.
THEOREM NeverRefused == Spec => []AppendNeverRefused
<1>1. IInv => AppendNeverRefused
  BY LeafIsFound DEF IInv, AppendNeverRefused
<1> QED BY <1>1, Invariance, PTL

-----------------------------------------------------------------------------
(* The chain implements the audit trail.                                    *)

Prefix(p, q) == Len(p) <= Len(q) /\ SubSeq(q, 1, Len(p)) = p

\* What a transaction has appended continues the committed trail.
Continues == \A t \in Txn : \A r \in own[t] : Prefix(Tip(log), r.previousHash)

LEMMA PrefixItself ==
  ASSUME NEW p \in Seq(Content)
  PROVE  Prefix(p, p)
<1>1. SubSeq(p, 1, Len(p)) = p
  OBVIOUS
<1> QED BY <1>1 DEF Prefix

LEMMA PrefixAppend ==
  ASSUME NEW p \in Seq(Content), NEW q \in Seq(Content), NEW e \in Content, Prefix(p, q)
  PROVE  Prefix(p, Append(q, e))
<1>1. Len(p) <= Len(q) /\ SubSeq(q, 1, Len(p)) = p /\ Len(p) \in Nat /\ Len(q) \in Nat
  BY DEF Prefix
<1>2. Len(Append(q, e)) = Len(q) + 1 /\ Append(q, e) \in Seq(Content)
  OBVIOUS
<1>3. \A i \in 1..Len(p) : Append(q, e)[i] = q[i]
  BY <1>1
<1>4. SubSeq(Append(q, e), 1, Len(p)) = [i \in 1..Len(p) |-> Append(q, e)[i]]
  BY <1>1, <1>2
<1>5. SubSeq(q, 1, Len(p)) = [i \in 1..Len(p) |-> q[i]]
  BY <1>1
<1> QED BY <1>1, <1>2, <1>3, <1>4, <1>5 DEF Prefix

\* The tip is the hash of the only leaf, and everything is at most as deep.
LEMMA TipOfChain ==
  ASSUME NEW rows, Chain(rows)
  PROVE  /\ Tip(rows) \in Seq(Content)
         /\ \A r \in Leaves(rows) : Tip(rows) = currentHash(r)
         /\ \A r \in rows : depth(r) < Len(Tip(rows))
         /\ rows = {} => Tip(rows) = Null
<1>1. CASE rows = {}
  BY <1>1 DEF Tip, Null, Leaves
<1>2. CASE rows # {}
  <2>1. PICK tip \in rows : Leaves(rows) = {tip}
    BY <1>2 DEF Chain, HasTip
  <2>2. (CHOOSE r \in rows : r \in Leaves(rows)) = tip
    BY <2>1
  <2>3. Tip(rows) = currentHash(tip)
    BY <1>2, <2>2 DEF Tip
  <2>4. tip \in Row /\ rows \subseteq Row
    BY DEF Chain
  <2>5. Len(Tip(rows)) = depth(tip) + 1 /\ Tip(rows) \in Seq(Content) /\ depth(tip) \in Nat
    BY <2>3, <2>4, HashDepth
  <2>6. \A r \in rows : depth(r) \in Nat /\ depth(r) <= depth(tip)
    BY <2>1, <2>4, LeafIsDeepest, HashDepth
  <2> QED BY <1>2, <2>1, <2>3, <2>5, <2>6
<1> QED BY <1>1, <1>2

LEMMA InitContinues == Init => Continues
BY DEF Init, Continues

LEMMA NextContinues == IInv /\ Continues /\ [Next]_vars => Continues'
<1> SUFFICES ASSUME IInv, Continues, [Next]_vars PROVE Continues'
  OBVIOUS
<1>0. own \in [Txn -> SUBSET Row] /\ Exclusive /\ Chain(log) /\ \A t \in Txn : Chain(Visible(t))
  BY DEF IInv, TypeOK
<1>1. CASE UNCHANGED <<log, own>>
  BY <1>1 DEF Continues
<1>2. ASSUME NEW t \in Txn, AppendInTx(t) PROVE Continues'
  <2>1. PICK e \in Entry, hash \in findLeaf(Visible(t)) :
           own' = [own EXCEPT ![t] = @ \cup {[previousHash |-> hash, entry |-> e]}]
    BY <1>2 DEF AppendInTx
  <2>2. log' = log
    BY <1>2 DEF AppendInTx
  <2>3. Prefix(Tip(log), hash)
    <3>1. CASE Visible(t) = {}
      <4>1. log = {} /\ hash = Null
        BY <3>1 DEF Visible, findLeaf
      <4>2. Tip(log) = Null /\ Tip(log) \in Seq(Content)
        BY <1>0, <4>1, TipOfChain
      <4> QED BY <4>1, <4>2, PrefixItself
    <3>2. CASE Visible(t) # {}
      <4>1. PICK leaf \in Leaves(Visible(t)) : hash = currentHash(leaf)
        BY <3>2, FoundIsLeaf
      <4>2. leaf \in Visible(t) /\ leaf \in Row
        BY <1>0 DEF Leaves, Chain
      <4>3. CASE leaf \in log
        <5>1. leaf \in Leaves(log)
          BY <4>1, <4>3 DEF Leaves, Successors, Visible
        <5>2. Tip(log) = hash /\ Tip(log) \in Seq(Content)
          BY <1>0, <4>1, <5>1, TipOfChain
        <5> QED BY <5>2, PrefixItself
      <4>4. CASE leaf \in own[t]
        <5>1. Prefix(Tip(log), leaf.previousHash)
          BY <4>4 DEF Continues
        <5>2. leaf.previousHash \in Seq(Content) /\ hashInput(leaf.entry.payload, leaf.entry.createdAt) \in Content
          BY <4>2, InputIsContent DEF Row
        <5>3. Tip(log) \in Seq(Content)
          BY <1>0, TipOfChain
        <5> QED BY <4>1, <5>1, <5>2, <5>3, PrefixAppend DEF currentHash
      <4> QED BY <4>2, <4>3, <4>4 DEF Visible
    <3> QED BY <3>1, <3>2
  <2>4. SUFFICES ASSUME NEW u \in Txn, NEW r \in own'[u] PROVE Prefix(Tip(log), r.previousHash)
    BY <2>2 DEF Continues
  <2>5. CASE r \in own[u]
    BY <2>5 DEF Continues
  <2>6. CASE r \notin own[u]
    <3>1. r.previousHash = hash
      BY <1>0, <2>1, <2>6
    <3> QED BY <2>3, <3>1
  <2> QED BY <2>5, <2>6
<1>3. ASSUME NEW t \in Txn, End(t), log' \in {log, log \cup own[t]} PROVE Continues'
  <2>1. own' = [own EXCEPT ![t] = {}]
    BY <1>3 DEF End
  <2>2. CASE own[t] = {}
    <3>1. log' = log
      BY <1>3, <2>2
    <3> QED BY <1>0, <2>1, <3>1 DEF Continues
  <2>3. CASE own[t] # {}
    <3>1. \A u \in Txn : own'[u] = {}
      BY <1>0, <2>1, <2>3 DEF Exclusive
    <3> QED BY <3>1 DEF Continues
  <2> QED BY <2>2, <2>3
<1> QED BY <1>1, <1>2, <1>3 DEF Next, Begin, AcquireAuditLock, Commit, RollBack, vars

LEMMA StepGrows == IInv /\ Continues /\ [Next]_vars => [Trail!Grows]_(Tip(log))
<1> SUFFICES ASSUME IInv, Continues, [Next]_vars, Tip(log') # Tip(log) PROVE Trail!Grows
  BY DEF Trail!Grows
<1>0. own \in [Txn -> SUBSET Row] /\ Chain(log) /\ \A t \in Txn : Chain(Visible(t))
  BY DEF IInv, TypeOK
<1>1. PICK t \in Txn : Commit(t)
  <2>1. log' # log
    OBVIOUS
  <2> QED BY <2>1 DEF Next, Begin, AcquireAuditLock, AppendInTx, RollBack, vars
<1>2. log' = Visible(t)
  BY <1>1 DEF Commit, Visible
<1>3. own[t] # {}
  BY <1>2 DEF Visible
<1>4. PICK o : o \in own[t]
  BY <1>3
<1>5. Chain(log') /\ log' # {} /\ o \in log'
  BY <1>0, <1>2, <1>4 DEF Visible
<1>6. PICK tip \in log' : Leaves(log') = {tip}
  BY <1>5 DEF Chain, HasTip
<1>7. tip \in Row /\ o \in Row
  BY <1>5 DEF Chain
<1>8. Tip(log') = currentHash(tip) /\ Tip(log') \in Seq(Content)
  BY <1>5, <1>6, TipOfChain
<1>9. Tip(log) \in Seq(Content) /\ \A r \in log : depth(r) < Len(Tip(log))
  BY <1>0, TipOfChain
<1>10. tip \in own[t]
  <2>1. Len(Tip(log)) <= depth(o)
    BY <1>4 DEF Continues, Prefix, depth
  <2>2. depth(o) <= depth(tip)
    BY <1>5, <1>6, LeafIsDeepest
  <2>3. depth(o) \in Nat /\ depth(tip) \in Nat /\ Len(Tip(log)) \in Nat
    BY <1>7, <1>9, HashDepth
  <2>4. tip \notin log
    BY <1>9, <2>1, <2>2, <2>3
  <2> QED BY <1>2, <2>4 DEF Visible
<1>11. Prefix(Tip(log), tip.previousHash)
  BY <1>10 DEF Continues
<1>12. tip.previousHash \in Seq(Content) /\ hashInput(tip.entry.payload, tip.entry.createdAt) \in Content
  BY <1>7, InputIsContent DEF Row
<1>13. Prefix(Tip(log), Tip(log'))
  BY <1>8, <1>9, <1>11, <1>12, PrefixAppend DEF currentHash
<1>14. Len(Tip(log)) <= Len(tip.previousHash) /\ Len(Tip(log')) = Len(tip.previousHash) + 1
  BY <1>7, <1>8, <1>11, HashDepth DEF Prefix, depth
<1>15. Len(Tip(log')) > Len(Tip(log))
  BY <1>9, <1>12, <1>14
<1> QED BY <1>8, <1>13, <1>15 DEF Trail!Grows, Prefix

\* The audit log is an append-only trail: every commit adds its transaction's entries
\* at the end, and nothing else ever happens to it.
THEOREM Refinement == Spec => ImplementsTrail
<1>1. Init => Trail!Init
  BY DEF Init, Trail!Init, Tip, Null
<1>2. Spec => []Continues
  BY Invariance, InitContinues, NextContinues, PTL DEF Spec
<1>3. IInv /\ Continues /\ [Next]_vars => [Trail!Grows]_(Tip(log))
  BY StepGrows
<1> QED BY <1>1, <1>2, <1>3, Invariance, PTL DEF Spec, ImplementsTrail, Trail!Spec
-----------------------------------------------------------------------------
(* verifyChain walks the whole chain: after n steps it has visited every    *)
(* row of depth at most n.                                                  *)

\* A non-empty set of numbers has a least one, which induction rests on here.
LEMMA LeastNumber ==
  ASSUME NEW T \in SUBSET Nat, T # {}
  PROVE  \E n \in T : \A m \in T : n <= m
<1>1. PICK x \in T : \A y \in T : ~ (<<y, x>> \in OpToRel(<, Nat))
  BY NatLessThanWellFounded, WFMin
<1>2. \A y \in T : ~(y < x)
  BY <1>1 DEF OpToRel
<1> QED BY <1>2

\* The rows a transaction sees are finitely many.
IFin == IsFiniteSet(log) /\ \A t \in Txn : IsFiniteSet(own[t])

LEMMA AlwaysFinite == Spec => []IFin
<1>1. Init => IFin
  BY FS_EmptySet DEF Init, IFin
<1>2. TypeOK /\ IFin /\ [Next]_vars => IFin'
  <2> SUFFICES ASSUME TypeOK, IFin, [Next]_vars PROVE IFin'
    OBVIOUS
  <2>0. own \in [Txn -> SUBSET Row]
    BY DEF TypeOK
  <2>1. CASE UNCHANGED <<log, own>>
    BY <2>1 DEF IFin
  <2>2. ASSUME NEW t \in Txn, AppendInTx(t) PROVE IFin'
    <3>1. PICK r : own' = [own EXCEPT ![t] = @ \cup {r}]
      BY <2>2 DEF AppendInTx
    <3>2. IsFiniteSet(own[t] \cup {r})
      BY FS_AddElement DEF IFin
    <3>3. log' = log
      BY <2>2 DEF AppendInTx
    <3> QED BY <2>0, <3>1, <3>2, <3>3 DEF IFin
  <2>3. ASSUME NEW t \in Txn, End(t), log' \in {log, log \cup own[t]} PROVE IFin'
    <3>1. IsFiniteSet(log \cup own[t])
      BY FS_Union DEF IFin
    <3>2. own' = [own EXCEPT ![t] = {}]
      BY <2>3 DEF End
    <3> QED BY <2>0, <2>3, <3>1, <3>2, FS_EmptySet DEF IFin
  <2> QED BY <2>1, <2>2, <2>3 DEF Next, Begin, AcquireAuditLock, Commit, RollBack, vars
<1> QED BY <1>1, <1>2, TypeCorrect, PTL DEF Spec

UpTo(rows, n) == {r \in rows : depth(r) <= n}

\* One step of the walk, from the rows it has visited.
Walked(rows, seen) ==
    seen \cup UNION {LET next == Successors(rows, currentHash(r))
                     IN IF Cardinality(next) = 1 THEN next ELSE {} : r \in seen}

\* In a chain the walk never meets a branch: it goes on to whatever follows a row.
LEMMA WalksOn ==
  ASSUME NEW rows, Chain(rows), NEW r \in rows
  PROVE  LET next == Successors(rows, currentHash(r))
         IN (IF Cardinality(next) = 1 THEN next ELSE {}) = next
<1> DEFINE next == Successors(rows, currentHash(r))
<1>1. CASE next = {}
  BY <1>1
<1>2. CASE next # {}
  <2>1. PICK s \in next : TRUE
    BY <1>2
  <2>2. \A q \in next : q = s
    BY <2>1 DEF Successors, Chain, Linear, depth
  <2>3. next = {s}
    BY <2>1, <2>2
  <2>4. Cardinality({s}) = 1
    BY FS_Singleton
  <2> QED BY <2>3, <2>4
<1> QED BY <1>1, <1>2

\* One step takes the walk one row deeper.
LEMMA WalkStep ==
  ASSUME NEW rows, Chain(rows), NEW n \in Nat
  PROVE  Walked(rows, UpTo(rows, n)) = UpTo(rows, n + 1)
<1> DEFINE seen == UpTo(rows, n)
           follows == UNION {Successors(rows, currentHash(r)) : r \in seen}
<1>0. /\ rows \subseteq Row
      /\ \A r \in rows : depth(r) \in Nat /\ Len(currentHash(r)) = depth(r) + 1
  BY HashDepth DEF Chain
<1>1. Walked(rows, seen) = seen \cup follows
  BY WalksOn DEF Walked, UpTo
<1>2. ASSUME NEW s \in follows PROVE s \in UpTo(rows, n + 1)
  <2>1. PICK r \in seen : s \in Successors(rows, currentHash(r))
    OBVIOUS
  <2>2. s \in rows /\ s.previousHash = currentHash(r) /\ r \in rows /\ depth(r) <= n
    BY <2>1 DEF Successors, UpTo
  <2> QED BY <1>0, <2>2 DEF UpTo, depth
<1>3. ASSUME NEW s \in UpTo(rows, n + 1), s \notin seen PROVE s \in follows
  <2>1. s \in rows /\ depth(s) = n + 1
    BY <1>0, <1>3 DEF UpTo
  <2>2. s.previousHash # Null
    BY <1>0, <2>1, NullDepth
  <2>3. PICK r \in rows : currentHash(r) = s.previousHash
    BY <2>1, <2>2 DEF Chain, Linked
  <2>4. depth(r) <= n
    BY <1>0, <2>1, <2>3 DEF depth
  <2> QED BY <2>1, <2>3, <2>4 DEF UpTo, Successors
<1>4. seen \subseteq UpTo(rows, n + 1)
  BY <1>0 DEF UpTo
<1> QED BY <1>1, <1>2, <1>3, <1>4

\* The walk begins with the genesis row, and there is one.
LEMMA WalkBegins ==
  ASSUME NEW rows, Chain(rows)
  PROVE  /\ Genesis(rows) = UpTo(rows, 0)
         /\ rows # {} => Cardinality(Genesis(rows)) = 1
<1>0. /\ rows \subseteq Row
      /\ \A r \in rows : depth(r) \in Nat /\ (r.previousHash = Null <=> depth(r) = 0)
  BY HashDepth, NullDepth DEF Chain
<1>1. Genesis(rows) = UpTo(rows, 0)
  BY <1>0 DEF Genesis, UpTo
<1>2. ASSUME rows # {} PROVE Cardinality(Genesis(rows)) = 1
  <2>1. PICK r \in rows : TRUE
    BY <1>2
  <2>2. PICK s \in rows : depth(s) = 0
    <3>1. CASE depth(r) = 0
      BY <3>1
    <3>2. CASE depth(r) # 0
      BY <1>0, <3>2 DEF Chain, Gapless
    <3> QED BY <3>1, <3>2
  <2>3. Genesis(rows) = {s}
    BY <1>0, <2>2 DEF Genesis, Chain, Linear
  <2> QED BY <2>3, FS_Singleton
<1> QED BY <1>1, <1>2

\* A chain has more rows than its deepest row has before it.
LEMMA DepthIsBounded ==
  ASSUME NEW rows, Chain(rows), IsFiniteSet(rows), NEW r \in rows
  PROVE  /\ Cardinality(rows) \in Nat
         /\ depth(r) < Cardinality(rows)
<1> DEFINE d == depth(r)
           at == [k \in 0..d |-> CHOOSE s \in rows : depth(s) = k]
<1>0. d \in Nat /\ \A s \in rows : depth(s) \in Nat
  BY HashDepth DEF Chain
<1>1. \A k \in 0..d : at[k] \in rows /\ depth(at[k]) = k
  BY <1>0 DEF Chain, Gapless
<1>2. at \in Injection(0..d, rows)
  <2>1. at \in [0..d -> rows]
    BY <1>1
  <2>2. \A j, k \in 0..d : at[j] = at[k] => j = k
    BY <1>1
  <2> HIDE DEF at
  <2> QED BY <2>1, <2>2, Fun_IsInj
<1>3. Cardinality(0..d) <= Cardinality(rows)
  <2> HIDE DEF at
  <2> QED BY <1>2, FS_Injection
<1>4. Cardinality(0..d) = d + 1
  BY <1>0, FS_Interval
<1>5. Cardinality(rows) \in Nat
  BY FS_CardinalityType
<1> QED BY <1>0, <1>3, <1>4, <1>5

\* The walk visits every row of a chain.
LEMMA WalkVisitsAll ==
  ASSUME NEW rows, Chain(rows), IsFiniteSet(rows), rows # {}
  PROVE  walk(rows) = rows
<1> DEFINE Visits(v) == v = [n \in Nat |-> IF n = 0 THEN Genesis(rows) ELSE Walked(rows, v[n - 1])]
           all == [n \in Nat |-> UpTo(rows, n)]
           chosen == CHOOSE v : Visits(v)
<1>1. walk(rows) = chosen[Cardinality(rows)]
  BY DEF walk, Walked
<1>2. Visits(all)
  <2>1. ASSUME NEW n \in Nat
        PROVE  UpTo(rows, n) = IF n = 0 THEN Genesis(rows) ELSE Walked(rows, all[n - 1])
    <3>1. CASE n = 0
      BY <3>1, WalkBegins
    <3>2. CASE n # 0
      <4>1. n - 1 \in Nat /\ (n - 1) + 1 = n
        BY <3>2
      <4>2. Walked(rows, UpTo(rows, n - 1)) = UpTo(rows, (n - 1) + 1)
        BY <4>1, WalkStep
      <4> QED BY <3>2, <4>1, <4>2
    <3> QED BY <3>1, <3>2
  <2> QED BY <2>1
<1>3. Visits(chosen)
  <2> HIDE DEF Visits, all
  <2> QED BY <1>2
<1>4. \A n \in Nat : chosen[n] = UpTo(rows, n)
  <2> DEFINE T == {n \in Nat : chosen[n] # UpTo(rows, n)}
  <2>1. /\ chosen[0] = Genesis(rows)
        /\ \A n \in Nat \ {0} : chosen[n] = Walked(rows, chosen[n - 1])
    <3> HIDE DEF chosen
    <3> QED BY <1>3
  <2> HIDE DEF chosen
  <2>2. SUFFICES ASSUME T # {} PROVE FALSE
    OBVIOUS
  <2>3. PICK n \in T : \A m \in T : n <= m
    BY <2>2, LeastNumber
  <2>4. n # 0
    BY <2>1, WalkBegins
  <2>5. n - 1 \in Nat /\ n - 1 \notin T /\ (n - 1) + 1 = n
    BY <2>3, <2>4
  <2>6. Walked(rows, UpTo(rows, n - 1)) = UpTo(rows, (n - 1) + 1)
    BY <2>5, WalkStep
  <2> QED BY <2>1, <2>3, <2>4, <2>5, <2>6
<1>5. Cardinality(rows) \in Nat
  BY FS_CardinalityType
<1>6. UpTo(rows, Cardinality(rows)) = rows
  <2>1. \A r \in rows : depth(r) \in Nat /\ depth(r) < Cardinality(rows)
    BY DepthIsBounded, HashDepth DEF Chain
  <2> QED BY <1>5, <2>1 DEF UpTo
<1> HIDE DEF chosen
<1> QED BY <1>1, <1>4, <1>5, <1>6

\* A row's content has the hash it was given exactly if storage left its canonical form alone.
LEMMA ContentMatches ==
  ASSUME NEW r \in Row
  PROVE  expected(r) = currentHash(r) <=> ~Lossy(r.entry.payload)
<1> DEFINE c == hashInput(r.entry.payload, r.entry.createdAt)
           d == hashInput(Stored[r.entry.payload], r.entry.createdAt)
<1>1. r.previousHash \in Seq(Content) /\ r.entry \in Entry
  BY DEF Row
<1>2. c \in Content /\ d \in Content
  BY <1>1, ContentAssumption DEF Entry, Content, hashInput
<1>3. c = d <=> ~Lossy(r.entry.payload)
  BY DEF hashInput, Lossy
<1>4. expected(r) = Append(r.previousHash, d) /\ currentHash(r) = Append(r.previousHash, c)
  BY DEF expected, currentHash
<1> HIDE DEF c, d
<1>5. Append(r.previousHash, c) = Append(r.previousHash, d) => c = d
  <2>1. /\ Append(r.previousHash, c)[Len(r.previousHash) + 1] = c
        /\ Append(r.previousHash, d)[Len(r.previousHash) + 1] = d
    BY <1>1, <1>2
  <2> QED BY <2>1
<1> QED BY <1>3, <1>4, <1>5

\* Whenever an auditor runs verifyChain it finds one genesis row and a walk from it that meets
\* no branch and misses no row, so it finds the log valid unless storage changed a payload.
THEOREM LogAlwaysVerifies == Spec => []AlwaysVerifies
<1>1. IInv /\ IFin => AlwaysVerifies
  <2> SUFFICES ASSUME IInv, IFin PROVE AlwaysVerifies
    OBVIOUS
  <2>1. CASE log = {}
    BY <2>1 DEF AlwaysVerifies, verifyChain
  <2>2. CASE log # {}
    <3>1. Cardinality(Genesis(log)) = 1 /\ walk(log) = log
      BY <2>2, WalkBegins, WalkVisitsAll DEF IInv, IFin
    <3>2. \A r \in log : expected(r) = currentHash(r) <=> ~Lossy(r.entry.payload)
      BY ContentMatches DEF IInv, TypeOK
    <3> QED BY <2>2, <3>1, <3>2 DEF AlwaysVerifies, verifyChain
  <2> QED BY <2>1, <2>2
<1> QED BY <1>1, Invariance, AlwaysFinite, PTL
-----------------------------------------------------------------------------
(* RoleGrants.  Neither of the two properties is inductive.  The cache is   *)
(* true because of what the readers hold while they build a manifest: under *)
(* the current version it is still what the tables say, and nothing has     *)
(* been filed under a version that is still to come.  A manager remains     *)
(* because the set that a guard counted outlives every write but those that *)
(* beat the guard.                                                          *)
\* What the read of a reader knows at each step.
Reading ==
    [step : {"idle", "version"}]
    \cup [step : {"roles"}, seen : Nat, version : Version]
    \cup [step : {"grants"}, seen : Nat, version : Version, held : [Role -> Scope]]
    \cup [step : {"write"}, seen : Nat, version : Version, built : Manifest]

WellTyped == RolesTypeOK /\ reading \in [Reader -> Reading]

\* What is left of a role that is gone.
NoDeadRows == \A r \in Role \ live : grants[r] = {} /\ \A u \in User : holds[u][r] = 0

\* The version that readers take for the current one.
Current == IF version = 0 THEN 1 ELSE version
\* Every increment belongs to a request that was begun.
Counted == Current + Cardinality(Ops) <= begun + 1

\* Nothing is filed under a version that is still to come.
NothingAhead ==
    ~past.reset => \A u \in Reader :
        /\ \A v \in Version : v > Current => cache[u][v] = Nothing
        /\ reading[u].step \in {"roles", "grants", "write"} => reading[u].version <= Current

\* Every change of roles was followed by its increment.
Quiet == (\A s \in Ops : change[s].step # "invalidate") /\ ~past.lost /\ ~past.reset
\* What is filed under the current version, or is about to be.
UpToDate(u) ==
    /\ cache[u][Current] \in {Nothing, buildManifestFromDB(u)}
    /\ reading[u].step = "grants" /\ reading[u].version = Current => reading[u].held = holds[u]
    /\ reading[u].step = "write" /\ reading[u].version = Current => reading[u].built = buildManifestFromDB(u)
AllUpToDate == Quiet => \A u \in Reader : UpToDate(u)

\* A guard that no other transaction has beaten leaves a manager behind.
GuardHolds ==
    ~past.misjudged => \A s \in Ops :
        change[s].step = "commit" /\ ~change[s].beaten
        => Remaining(change[s].op, change[s].user, change[s].role) # {}

\* The inductive invariant.
RolesInv == WellTyped /\ NoDeadRows /\ Counted /\ NothingAhead /\ AllUpToDate /\ GuardHolds

-----------------------------------------------------------------------------
(* Operators of RoleGrants.                                                *)

\* A set of scopes has a greatest one.
LEMMA GreatestIsThere ==
  ASSUME NEW S \in SUBSET Scope, S # {}
  PROVE  Greatest(S) \in S
<1>0. MaxScope \in Nat /\ \A n \in S : n \in Nat /\ n <= MaxScope
  BY BoundAssumption DEF Scope
<1> DEFINE T == {MaxScope - n : n \in S}
<1>1. T \in SUBSET Nat /\ T # {}
  <2>1. \A n \in S : MaxScope - n \in Nat
    BY <1>0
  <2> QED BY <2>1
<1>2. PICK d \in T : \A e \in T : d <= e
  BY <1>1, LeastNumber
<1>3. PICK m \in S : d = MaxScope - m
  BY <1>2
<1>4. ASSUME NEW n \in S PROVE n <= m
  <2>1. MaxScope - m <= MaxScope - n
    BY <1>2, <1>3
  <2> QED BY <1>0, <2>1
<1>5. \E k \in S : \A n \in S : n <= k
  BY <1>4
<1> QED BY <1>5 DEF Greatest

\* A manifest says a scope for every permission.
LEMMA ManifestIsTyped ==
  ASSUME NEW held \in [Role -> Scope], NEW given, live \subseteq Role
  PROVE  ManifestOf(held, given) \in Manifest
<1> DEFINE of(p) == {0} \cup {held[r] : r \in {q \in live : p \in given[q]}}
<1>1. 0 \in Scope
  BY BoundAssumption DEF Scope
<1>2. ASSUME NEW p \in Permission PROVE Greatest(of(p)) \in Scope
  <2>1. of(p) \in SUBSET Scope /\ of(p) # {}
    BY <1>1
  <2> QED BY <2>1, GreatestIsThere
<1> QED BY <1>2 DEF ManifestOf, Manifest

LEMMA NothingIsTyped == Nothing \in Manifest
BY BoundAssumption DEF Nothing, Manifest, Scope

\* A role without permissions adds nothing to a manifest.
LEMMA EmptyRoleAddsNothing ==
  ASSUME NEW r, grants[r] = {}, live' = live \cup {r}, grants' = grants, holds' = holds, NEW u
  PROVE  buildManifestFromDB(u)' = buildManifestFromDB(u)
<1>1. ASSUME NEW p PROVE {q \in live' : p \in grants[q]} = {q \in live : p \in grants[q]}
  OBVIOUS
<1> QED BY <1>1 DEF buildManifestFromDB, ManifestOf

-----------------------------------------------------------------------------
(* How many requests are open.                                             *)

LEMMA OpsAreFinite == IsFiniteSet(Ops) /\ Cardinality(Ops) \in Nat
<1>1. IsFiniteSet(Slot)
  BY BoundAssumption, FS_Interval DEF Slot
<1> QED BY <1>1, FS_Subset, FS_CardinalityType DEF Ops

LEMMA CountsOpening ==
  ASSUME NEW s \in Slot \ Ops, NEW q, q.op # "idle", WellTyped, Counted,
         change' = [change EXCEPT ![s] = q], begun' = begun + 1, version' = version
  PROVE  Counted'
<1>1. Ops' = Ops \cup {s}
  BY DEF Ops, WellTyped, RolesTypeOK
<1>2. Cardinality(Ops') = Cardinality(Ops) + 1
  BY <1>1, OpsAreFinite, FS_AddElement
<1> QED BY <1>2, OpsAreFinite DEF Counted, Current, WellTyped, RolesTypeOK

LEMMA CountsClosing ==
  ASSUME NEW s \in Ops, WellTyped, Counted, change' = [change EXCEPT ![s] = Idle],
         begun' = begun, version' \in {version, version + 1}
  PROVE  Counted'
<1>1. Ops' = Ops \ {s}
  BY DEF Ops, WellTyped, RolesTypeOK, Idle
<1>2. Cardinality(Ops') = Cardinality(Ops) - 1
  BY <1>1, OpsAreFinite, FS_RemoveElement
<1> QED BY <1>2, OpsAreFinite DEF Counted, Current, WellTyped, RolesTypeOK

LEMMA CountsGoingOn ==
  ASSUME WellTyped, Counted, Ops' \subseteq Ops, begun' \in {begun, begun + 1}, Current' <= Current, version' \in Nat
  PROVE  Counted'
<1>1. IsFiniteSet(Ops') /\ Cardinality(Ops') <= Cardinality(Ops)
  BY OpsAreFinite, FS_Subset
<1>2. Cardinality(Ops') \in Nat
  BY <1>1, FS_CardinalityType
<1> QED BY <1>1, <1>2, OpsAreFinite DEF Counted, Current, WellTyped, RolesTypeOK

\* The current version has a place in the cache.
LEMMA CurrentIsAVersion ==
  ASSUME WellTyped, Counted
  PROVE  Current \in Version
BY OpsAreFinite, BoundAssumption DEF WellTyped, RolesTypeOK, Counted, Current, Version

-----------------------------------------------------------------------------
(* What leaves a part of the invariant as it is.                           *)

LEMMA SameTables ==
  ASSUME UNCHANGED tables
  PROVE  /\ NoDeadRows => NoDeadRows'
         /\ \A u : buildManifestFromDB(u)' = buildManifestFromDB(u)
         /\ \A op, u, r : Remaining(op, u, r)' = Remaining(op, u, r)
<1>1. status' = status /\ signedIn' = signedIn /\ live' = live /\ grants' = grants /\ holds' = holds
  BY DEF tables
<1>2. NoDeadRows => NoDeadRows'
  BY <1>1 DEF NoDeadRows
<1>3. \A u : buildManifestFromDB(u)' = buildManifestFromDB(u)
  BY <1>1 DEF buildManifestFromDB, ManifestOf
<1>4. \A op, u, r : Remaining(op, u, r)' = Remaining(op, u, r)
  BY <1>1 DEF Remaining, Holds
<1> QED BY <1>2, <1>3, <1>4

\* What is added leaves the managers that a guard counted.
LEMMA MoreRemain ==
  ASSUME status' = status, live \subseteq live', \A q \in live : grants[q] \subseteq grants'[q],
         \A u \in User, q \in live : Holds(u, q) => Holds(u, q)'
  PROVE  \A op, u, r : Remaining(op, u, r) \subseteq Remaining(op, u, r)'
BY DEF Remaining

LEMMA GuardKept ==
  ASSUME WellTyped, GuardHolds, past.misjudged => past'.misjudged,
         ~past'.misjudged => \A op, u, r : Remaining(op, u, r) \subseteq Remaining(op, u, r)',
         \A s \in Ops' : change'[s].step = "commit" /\ ~change'[s].beaten
            => /\ s \in Ops /\ change[s].step = "commit" /\ ~change[s].beaten
               /\ change'[s].op = change[s].op /\ change'[s].user = change[s].user /\ change'[s].role = change[s].role
  PROVE  GuardHolds'
BY DEF GuardHolds

LEMMA AheadKept ==
  ASSUME NothingAhead, past.reset => past'.reset, Current \in Nat, Current' \in Nat,
         ~past'.reset => Current <= Current', cache' = cache, reading \in [Reader -> Reading],
         \A u \in Reader : reading'[u] = reading[u] \/ reading'[u].step \in {"idle", "version"}
  PROVE  NothingAhead'
<1> SUFFICES ASSUME ~past'.reset, NEW u \in Reader
             PROVE  /\ \A v \in Version : v > Current' => cache[u][v] = Nothing
                    /\ reading'[u].step \in {"roles", "grants", "write"} => reading'[u].version <= Current'
  BY DEF NothingAhead
<1>1. /\ \A v \in Version : v > Current => cache[u][v] = Nothing
      /\ reading[u].step \in {"roles", "grants", "write"} => reading[u].version <= Current
  BY DEF NothingAhead
<1>2. \A v \in Version : v > Current' => v > Current
  BY BoundAssumption DEF Version
<1>3. reading[u].step \in {"roles", "grants", "write"} => reading[u].version \in Nat
  BY BoundAssumption DEF Reading, Version
<1> QED BY <1>1, <1>2, <1>3

LEMMA UpToDateKept ==
  ASSUME AllUpToDate, Quiet' => Quiet, cache' = cache,
         \A u \in Reader : reading'[u] = reading[u] \/ reading'[u].step \in {"idle", "version"},
         Quiet' => /\ Current' = Current /\ holds' = holds
                   /\ \A u \in Reader : buildManifestFromDB(u)' = buildManifestFromDB(u)
  PROVE  AllUpToDate'
<1> SUFFICES ASSUME Quiet', NEW u \in Reader PROVE UpToDate(u)'
  BY DEF AllUpToDate
<1>1. UpToDate(u)
  BY DEF AllUpToDate
<1> QED BY <1>1 DEF UpToDate

-----------------------------------------------------------------------------
(* Reading a manifest.                                                     *)

LEMMA ReadersKeep ==
  ASSUME RolesInv, UNCHANGED <<tables, version, change, past>>, begun' \in {begun, begun + 1}
  PROVE  /\ NoDeadRows' /\ Counted' /\ GuardHolds' /\ Quiet' = Quiet /\ Current' = Current /\ Current \in Version
         /\ \A u \in Reader : buildManifestFromDB(u)' = buildManifestFromDB(u)
         /\ holds' = holds
<1>1. version' = version /\ change' = change /\ past' = past /\ UNCHANGED tables /\ holds' = holds
  BY DEF tables
<1>2. Ops' = Ops /\ Current' = Current /\ version' \in Nat /\ Current \in Nat
  BY <1>1 DEF Ops, Current, RolesInv, WellTyped, RolesTypeOK
<1>3. NoDeadRows' /\ \A u \in Reader : buildManifestFromDB(u)' = buildManifestFromDB(u)
  BY <1>1, SameTables DEF RolesInv
<1>4. Counted'
  BY <1>2, CountsGoingOn DEF RolesInv
<1>5. \A op, u, r : Remaining(op, u, r)' = Remaining(op, u, r)
  BY <1>1, SameTables
<1>6. GuardHolds'
  BY <1>1, <1>2, <1>5, GuardKept DEF RolesInv
<1>7. Quiet' = Quiet
  BY <1>1, <1>2 DEF Quiet
<1>8. Current \in Version
  BY CurrentIsAVersion DEF RolesInv
<1> QED BY <1>1, <1>2, <1>3, <1>4, <1>6, <1>7, <1>8

\* A reader that stops, or writes the version next, changes nothing else.
LEMMA ReaderStops ==
  ASSUME RolesInv, NEW u \in Reader, NEW q \in {"idle", "version"},
         UNCHANGED <<tables, redis, change, past, begun>>, reading' = [reading EXCEPT ![u] = [step |-> q]]
  PROVE  RolesInv'
<1>0. UNCHANGED tables /\ cache' = cache /\ version' = version /\ change' = change /\ past' = past /\ begun' = begun
  BY DEF redis
<1>1. /\ NoDeadRows' /\ Counted' /\ GuardHolds' /\ Quiet' = Quiet /\ Current' = Current /\ Current \in Nat
      /\ \A v \in Reader : buildManifestFromDB(v)' = buildManifestFromDB(v)
      /\ holds' = holds
  BY <1>0, ReadersKeep, BoundAssumption DEF Version
<1>2. WellTyped'
  <2>1. [step |-> q] \in Reading
    BY DEF Reading
  <2>2. reading' \in [Reader -> Reading]
    BY <2>1 DEF RolesInv, WellTyped
  <2>3. \A v \in Reader : reading'[v].step \in {"idle", "roles", "grants", "write", "version"}
    BY DEF RolesInv, WellTyped, RolesTypeOK
  <2> QED BY <1>0, <2>2, <2>3 DEF RolesInv, WellTyped, RolesTypeOK, tables
<1>3. \A v \in Reader : reading'[v] = reading[v] \/ reading'[v].step \in {"idle", "version"}
  BY DEF RolesInv, WellTyped
<1>4. NothingAhead'
  BY <1>0, <1>1, <1>3, AheadKept DEF RolesInv, WellTyped
<1>5. AllUpToDate'
  BY <1>0, <1>1, <1>3, UpToDateKept DEF RolesInv
<1> QED BY <1>1, <1>2, <1>4, <1>5 DEF RolesInv

LEMMA ReadVersionKeeps ==
  ASSUME RolesInv, NEW u \in Reader, ReadVersion(u)
  PROVE  RolesInv'
<1>1. PICK seen \in {0, version} : reading' = [reading EXCEPT ![u] =
         [step |-> "roles", seen |-> seen, version |-> IF seen = 0 THEN 1 ELSE seen]]
  BY DEF ReadVersion
<1>0. UNCHANGED <<tables, version, change, past>> /\ cache' = cache /\ begun' = begun + 1 /\ begun < MaxRequests
  BY DEF ReadVersion, redis
<1>2. /\ NoDeadRows' /\ Counted' /\ GuardHolds' /\ Quiet' = Quiet /\ Current' = Current /\ Current \in Version
      /\ \A v \in Reader : buildManifestFromDB(v)' = buildManifestFromDB(v)
      /\ holds' = holds
  BY <1>0, ReadersKeep
<1> DEFINE under == IF seen = 0 THEN 1 ELSE seen
           q == [step |-> "roles", seen |-> seen, version |-> under]
<1>3. seen \in Nat /\ under \in Version /\ under <= Current
  BY <1>1, <1>2, BoundAssumption DEF Version, Current, RolesInv, WellTyped, RolesTypeOK
<1>4. reading' = [reading EXCEPT ![u] = q] /\ q.step = "roles" /\ q.version = under
  BY <1>1
<1>5. q \in Reading
  BY <1>3 DEF Reading
<1> HIDE DEF q, under
<1>6. reading' \in [Reader -> Reading] /\ \A v \in Reader : reading'[v] = IF v = u THEN q ELSE reading[v]
  BY <1>4, <1>5 DEF RolesInv, WellTyped
<1>7. WellTyped'
  BY <1>0, <1>4, <1>6, BoundAssumption DEF RolesInv, WellTyped, RolesTypeOK, tables
<1>8. NothingAhead'
  BY <1>0, <1>2, <1>3, <1>4, <1>6 DEF NothingAhead, RolesInv
<1>9. AllUpToDate'
  <2> SUFFICES ASSUME Quiet', NEW v \in Reader PROVE UpToDate(v)'
    BY DEF AllUpToDate
  <2>1. UpToDate(v)
    BY <1>2 DEF AllUpToDate, RolesInv
  <2> QED BY <2>1, <1>0, <1>2, <1>4, <1>6 DEF UpToDate
<1> QED BY <1>2, <1>7, <1>8, <1>9 DEF RolesInv

LEMMA ReadCacheKeeps ==
  ASSUME RolesInv, NEW u \in Reader, ReadCache(u)
  PROVE  RolesInv'
BY ReaderStops DEF ReadCache

LEMMA ReadRolesKeeps ==
  ASSUME RolesInv, NEW u \in Reader, ReadRoles(u)
  PROVE  RolesInv'
<1> DEFINE r == reading[u]
           held == [q \in Role |-> IF q \in live THEN holds[u][q] ELSE 0]
           q == [step |-> "grants", seen |-> r.seen, version |-> r.version, held |-> held]
<1>0. /\ UNCHANGED <<tables, version, change, past>> /\ cache' = cache /\ begun' = begun
      /\ r.step = "roles" /\ reading' = [reading EXCEPT ![u] = q]
  BY DEF ReadRoles, redis
<1>1. /\ NoDeadRows' /\ Counted' /\ GuardHolds' /\ Quiet' = Quiet /\ Current' = Current /\ Current \in Version
      /\ \A v \in Reader : buildManifestFromDB(v)' = buildManifestFromDB(v)
      /\ holds' = holds
  BY <1>0, ReadersKeep
<1>2. u \in User /\ r \in Reading /\ holds[u] \in [Role -> Scope]
  BY RoleAssumption DEF RolesInv, WellTyped, RolesTypeOK
<1>3. r.seen \in Nat /\ r.version \in Version
  BY <1>0, <1>2 DEF Reading
<1>4. held = holds[u]
  BY <1>2 DEF RolesInv, NoDeadRows
<1>5. q \in Reading /\ q.step = "grants" /\ q.version = r.version /\ q.held = holds[u]
  BY <1>2, <1>3, <1>4 DEF Reading
<1> HIDE DEF q, held
<1>6. reading' \in [Reader -> Reading] /\ \A v \in Reader : reading'[v] = IF v = u THEN q ELSE reading[v]
  BY <1>0, <1>5 DEF RolesInv, WellTyped
<1>7. WellTyped'
  BY <1>0, <1>5, <1>6 DEF RolesInv, WellTyped, RolesTypeOK, tables
<1>8. NothingAhead'
  BY <1>0, <1>1, <1>5, <1>6 DEF NothingAhead, RolesInv
<1>9. AllUpToDate'
  <2> SUFFICES ASSUME Quiet', NEW v \in Reader PROVE UpToDate(v)'
    BY DEF AllUpToDate
  <2>1. UpToDate(v)
    BY <1>1 DEF AllUpToDate, RolesInv
  <2> QED BY <2>1, <1>0, <1>1, <1>5, <1>6 DEF UpToDate
<1> QED BY <1>1, <1>7, <1>8, <1>9 DEF RolesInv

LEMMA ReadGrantsKeeps ==
  ASSUME RolesInv, NEW u \in Reader, ReadGrants(u)
  PROVE  RolesInv'
<1> DEFINE r == reading[u]
           built == ManifestOf(r.held, grants)
           q == [step |-> "write", seen |-> r.seen, version |-> r.version, built |-> built]
<1>0. /\ UNCHANGED <<tables, redis, change, past, begun>> /\ r.step = "grants"
      /\ reading' = [reading EXCEPT ![u] = IF built = Nothing THEN [step |-> "idle"] ELSE q]
  BY DEF ReadGrants
<1>1. CASE built = Nothing
  BY <1>0, <1>1, ReaderStops
<1>2. CASE built # Nothing
  <2>0. /\ UNCHANGED <<tables, version, change, past>> /\ cache' = cache /\ begun' = begun
        /\ reading' = [reading EXCEPT ![u] = q]
    BY <1>0, <1>2 DEF redis
  <2>1. /\ NoDeadRows' /\ Counted' /\ GuardHolds' /\ Quiet' = Quiet /\ Current' = Current /\ Current \in Version
        /\ \A v \in Reader : buildManifestFromDB(v)' = buildManifestFromDB(v)
        /\ holds' = holds
    BY <2>0, ReadersKeep
  <2>2. r \in Reading /\ live \subseteq Role
    BY DEF RolesInv, WellTyped, RolesTypeOK
  <2>3. r.seen \in Nat /\ r.version \in Version /\ r.held \in [Role -> Scope]
    BY <1>0, <2>2 DEF Reading
  <2>4. built \in Manifest
    BY <2>2, <2>3, ManifestIsTyped
  <2>5. r.held = holds[u] => built = buildManifestFromDB(u)
    BY DEF buildManifestFromDB
  <2> HIDE DEF built
  <2>6. q \in Reading /\ q.step = "write" /\ q.version = r.version /\ q.built = built
    BY <2>3, <2>4 DEF Reading
  <2> HIDE DEF q
  <2>7. reading' \in [Reader -> Reading] /\ \A v \in Reader : reading'[v] = IF v = u THEN q ELSE reading[v]
    BY <2>0, <2>6 DEF RolesInv, WellTyped
  <2>8. WellTyped'
    BY <2>0, <2>6, <2>7 DEF RolesInv, WellTyped, RolesTypeOK, tables
  <2>9. NothingAhead'
    BY <1>0, <2>0, <2>1, <2>6, <2>7 DEF NothingAhead, RolesInv
  <2>10. AllUpToDate'
    <3> SUFFICES ASSUME Quiet', NEW v \in Reader PROVE UpToDate(v)'
      BY DEF AllUpToDate
    <3>1. UpToDate(v)
      BY <2>1 DEF AllUpToDate, RolesInv
    <3> QED BY <3>1, <1>0, <2>0, <2>1, <2>5, <2>6, <2>7 DEF UpToDate
  <2> QED BY <2>1, <2>8, <2>9, <2>10 DEF RolesInv
<1> QED BY <1>1, <1>2

\* What is filed under the current version was built from what is there.
LEMMA WriteCacheKeeps ==
  ASSUME RolesInv, NEW u \in Reader, WriteCache(u)
  PROVE  RolesInv'
<1> DEFINE r == reading[u]
           q == IF r.seen = 0 THEN "version" ELSE "idle"
<1>0. /\ UNCHANGED <<tables, version, change, past>> /\ begun' = begun /\ version' = version
      /\ r.step = "write" /\ reading' = [reading EXCEPT ![u] = [step |-> q]]
      /\ \/ cache' = [cache EXCEPT ![u][r.version] = r.built]
         \/ UNCHANGED cache
  BY DEF WriteCache, FiledUnder
<1>1. CASE UNCHANGED cache
  <2>1. UNCHANGED <<tables, redis, change, past, begun>> /\ q \in {"idle", "version"}
    BY <1>0, <1>1 DEF redis
  <2> QED BY <1>0, <2>1, ReaderStops
<1>2. CASE cache' = [cache EXCEPT ![u][r.version] = r.built]
  <2>1. /\ NoDeadRows' /\ Counted' /\ GuardHolds' /\ Quiet' = Quiet /\ Current' = Current /\ Current \in Version
        /\ \A v \in Reader : buildManifestFromDB(v)' = buildManifestFromDB(v)
        /\ holds' = holds
    BY <1>0, ReadersKeep
  <2>2. r \in Reading /\ u \in User
    BY RoleAssumption DEF RolesInv, WellTyped
  <2>3. r.version \in Version /\ r.built \in Manifest
    BY <1>0, <2>2 DEF Reading
  <2>4. /\ cache' \in [User -> [Version -> Manifest]]
        /\ \A v \in User, n \in Version : cache'[v][n] = IF v = u /\ n = r.version THEN r.built ELSE cache[v][n]
    BY <1>2, <2>2, <2>3 DEF RolesInv, WellTyped, RolesTypeOK
  <2>5. [step |-> q] \in Reading /\ [step |-> q].step \in {"idle", "version"}
    BY DEF Reading
  <2>6. reading' \in [Reader -> Reading] /\ \A v \in Reader : reading'[v] = IF v = u THEN [step |-> q] ELSE reading[v]
    BY <1>0, <2>5 DEF RolesInv, WellTyped
  <2>7. WellTyped'
    <3>1. \A v \in Reader : reading'[v].step \in {"idle", "roles", "grants", "write", "version"}
      BY <2>5, <2>6 DEF RolesInv, WellTyped, RolesTypeOK
    <3> QED BY <1>0, <2>4, <2>6, <3>1 DEF RolesInv, WellTyped, RolesTypeOK, tables
  <2> HIDE DEF q
  <2>8. Reader \subseteq User
    BY RoleAssumption
  <2>9. NothingAhead'
    <3> SUFFICES ASSUME ~past.reset, NEW v \in Reader
                 PROVE  /\ \A n \in Version : n > Current => cache'[v][n] = Nothing
                        /\ reading'[v].step \in {"roles", "grants", "write"} => reading'[v].version <= Current
      BY <1>0, <2>1 DEF NothingAhead
    <3>1. r.version <= Current
      BY <1>0 DEF RolesInv, NothingAhead
    <3>2. \A n \in Version : n > Current => n # r.version
      BY <3>1, <2>1, <2>3, BoundAssumption DEF Version
    <3>3. /\ \A n \in Version : n > Current => cache[v][n] = Nothing
          /\ reading[v].step \in {"roles", "grants", "write"} => reading[v].version <= Current
      BY DEF RolesInv, NothingAhead
    <3>4. \A n \in Version : n > Current => cache'[v][n] = Nothing
      BY <2>4, <2>8, <3>2, <3>3
    <3>5. reading'[v].step \in {"roles", "grants", "write"} => reading'[v].version <= Current
      BY <2>5, <2>6, <3>3
    <3> QED BY <3>4, <3>5
  <2>10. AllUpToDate'
    <3> SUFFICES ASSUME Quiet', NEW v \in Reader PROVE UpToDate(v)'
      BY DEF AllUpToDate
    <3>1. UpToDate(v) /\ UpToDate(u)
      BY <2>1 DEF AllUpToDate, RolesInv
    <3>2. cache'[v][Current] \in {Nothing, buildManifestFromDB(v)}
      BY <1>0, <2>1, <2>4, <2>8, <3>1 DEF UpToDate
    <3> QED BY <3>1, <3>2, <2>1, <2>5, <2>6 DEF UpToDate
  <2> QED BY <2>1, <2>7, <2>9, <2>10 DEF RolesInv
<1> QED BY <1>0, <1>1, <1>2

LEMMA WriteVersionKeeps ==
  ASSUME RolesInv, NEW u \in Reader, WriteVersion(u)
  PROVE  RolesInv'
<1>0. /\ UNCHANGED tables /\ cache' = cache /\ change' = change /\ begun' = begun
      /\ version' \in {1, version} /\ past' = [past EXCEPT !.reset = @ \/ version' < version]
      /\ reading' = [reading EXCEPT ![u] = [step |-> "idle"]]
  BY DEF WriteVersion
<1>1. version \in Nat /\ version' \in Nat /\ Current \in Nat /\ Current' \in Nat /\ Current' <= Current
  BY <1>0 DEF RolesInv, WellTyped, RolesTypeOK, Current
<1>2. /\ past' \in [misjudged : BOOLEAN, lost : BOOLEAN, reset : BOOLEAN]
      /\ past'.misjudged = past.misjudged /\ past'.lost = past.lost
      /\ past.reset => past'.reset
      /\ ~past'.reset => version <= version'
  <2>1. past \in [misjudged : BOOLEAN, lost : BOOLEAN, reset : BOOLEAN]
    BY DEF RolesInv, WellTyped, RolesTypeOK
  <2> DEFINE less == past.reset \/ version' < version
  <2>2. past' = [past EXCEPT !.reset = less] /\ less \in BOOLEAN
    BY <1>0, <2>1
  <2>3. ~less => version <= version' /\ ~past.reset
    BY <1>1
  <2> HIDE DEF less
  <2> QED BY <2>1, <2>2, <2>3
<1>3. ~past'.reset => Current' = Current
  BY <1>0, <1>1, <1>2 DEF Current
<1>4. Ops' = Ops
  BY <1>0 DEF Ops
<1>5. NoDeadRows' /\ \A v \in Reader : buildManifestFromDB(v)' = buildManifestFromDB(v)
  BY <1>0, SameTables DEF RolesInv
<1>6. Counted'
  BY <1>0, <1>1, <1>4, CountsGoingOn DEF RolesInv
<1>7. GuardHolds'
  <2>1. \A op, v, r : Remaining(op, v, r)' = Remaining(op, v, r)
    BY <1>0, SameTables
  <2> QED BY <1>0, <1>2, <1>4, <2>1, GuardKept DEF RolesInv
<1>8. [step |-> "idle"] \in Reading
  BY DEF Reading
<1>9. reading' \in [Reader -> Reading] /\ \A v \in Reader : reading'[v] = reading[v] \/ reading'[v].step = "idle"
  BY <1>0, <1>8 DEF RolesInv, WellTyped
<1>10. WellTyped'
  <2>1. version' \in 0..(MaxRequests + 1)
    BY <1>0, BoundAssumption DEF RolesInv, WellTyped, RolesTypeOK
  <2> QED BY <1>0, <1>2, <1>9, <2>1 DEF RolesInv, WellTyped, RolesTypeOK, tables
<1>11. NothingAhead'
  BY <1>0, <1>1, <1>2, <1>3, <1>9, AheadKept DEF RolesInv, WellTyped
<1>12. AllUpToDate'
  <2>1. Quiet' => Quiet /\ Current' = Current
    BY <1>0, <1>2, <1>3, <1>4 DEF Quiet
  <2> QED BY <1>0, <1>5, <1>9, <2>1, UpToDateKept DEF RolesInv, tables
<1> QED BY <1>5, <1>6, <1>7, <1>10, <1>11, <1>12 DEF RolesInv

LEMMA ExpireKeeps ==
  ASSUME RolesInv, NEW u \in User, NEW v \in Version, Expire(u, v)
  PROVE  RolesInv'
<1>0. /\ UNCHANGED <<tables, version, change, past>> /\ begun' = begun /\ reading' = reading
      /\ cache' = [cache EXCEPT ![u][v] = Nothing]
  BY DEF Expire
<1>1. /\ NoDeadRows' /\ Counted' /\ GuardHolds' /\ Quiet' = Quiet /\ Current' = Current /\ Current \in Version
      /\ \A w \in Reader : buildManifestFromDB(w)' = buildManifestFromDB(w)
      /\ holds' = holds
  BY <1>0, ReadersKeep
<1>2. /\ cache' \in [User -> [Version -> Manifest]]
      /\ \A w \in User, n \in Version : cache'[w][n] \in {Nothing, cache[w][n]}
  BY <1>0, NothingIsTyped DEF RolesInv, WellTyped, RolesTypeOK
<1>3. WellTyped'
  BY <1>0, <1>2 DEF RolesInv, WellTyped, RolesTypeOK, tables
<1>4. Reader \subseteq User
  BY RoleAssumption
<1>5. NothingAhead'
  BY <1>0, <1>1, <1>2, <1>4 DEF NothingAhead, RolesInv
<1>6. AllUpToDate'
  <2> SUFFICES ASSUME Quiet', NEW w \in Reader PROVE UpToDate(w)'
    BY DEF AllUpToDate
  <2>1. UpToDate(w)
    BY <1>1 DEF AllUpToDate, RolesInv
  <2>2. cache'[w][Current] \in {Nothing, cache[w][Current]}
    BY <1>1, <1>2, <1>4
  <2> QED BY <2>1, <2>2, <1>0, <1>1 DEF UpToDate
<1> QED BY <1>1, <1>3, <1>5, <1>6 DEF RolesInv

-----------------------------------------------------------------------------
(* Changing requests: what begins.                                         *)

TablesTyped ==
    /\ status \in [User -> {"NEW", "ACTIVE", "SUSPENDED", "TERMINATED"}]
    /\ signedIn \subseteq User /\ live \subseteq Role
    /\ grants \in [Role -> SUBSET Permission]
    /\ holds \in [User -> [Role -> Scope]]

LEMMA OpensKeeps ==
  ASSUME RolesInv, TablesTyped', NEW s \in Slot, NEW op \in Direct \cup OfRole \cup OfUser, NEW u \in User,
         NEW r \in Role, NEW p \in Permission, NEW step \in {"plain", "guard", "invalidate"},
         Opens(s, op, u, r, p, step), \A o, v, q : Remaining(o, v, q) \subseteq Remaining(o, v, q)'
  PROVE  /\ WellTyped' /\ Counted' /\ NothingAhead' /\ GuardHolds'
         /\ Quiet' => Quiet /\ step # "invalidate"
         /\ version' = version /\ cache' = cache /\ reading' = reading /\ Current' = Current
<1> DEFINE q == [op |-> op, user |-> u, role |-> r, perm |-> p, step |-> step, beaten |-> FALSE]
<1>0. /\ begun < MaxRequests /\ begun' = begun + 1 /\ s \notin Ops /\ change' = [change EXCEPT ![s] = q]
      /\ version' = version /\ cache' = cache /\ reading' = reading /\ past' = past
  BY DEF Opens, redis
<1>1. /\ q \in Request /\ q.op = op /\ q.step = step
  BY DEF Request
<1>2. q.op # "idle"
  BY <1>1 DEF Direct, OfRole, OfUser
<1> HIDE DEF q
<1>3. /\ change' \in [Slot -> Request \cup {Idle}]
      /\ \A t \in Slot : change'[t] = IF t = s THEN q ELSE change[t]
  BY <1>0, <1>1 DEF RolesInv, WellTyped, RolesTypeOK
<1>4. Ops' = Ops \cup {s}
  BY <1>2, <1>3 DEF Ops
<1>5. WellTyped'
  <2>1. begun' \in 0..MaxRequests
    BY <1>0, BoundAssumption DEF RolesInv, WellTyped, RolesTypeOK
  <2> QED BY <1>0, <1>3, <2>1 DEF TablesTyped, RolesInv, WellTyped, RolesTypeOK
<1>6. Counted'
  BY <1>0, <1>2, CountsOpening DEF RolesInv
<1>7. Current' = Current /\ Current \in Nat
  BY <1>0 DEF Current, RolesInv, WellTyped, RolesTypeOK
<1>8. NothingAhead'
  BY <1>0, <1>7, AheadKept DEF RolesInv, WellTyped
<1>9. GuardHolds'
  <2>1. \A t \in Ops' : change'[t].step = "commit" => t \in Ops /\ change'[t] = change[t]
    BY <1>1, <1>3, <1>4 DEF Ops
  <2> QED BY <1>0, <2>1, GuardKept DEF RolesInv
<1>10. Quiet' => Quiet /\ step # "invalidate"
  <2>1. change'[s] = q /\ s \in Ops' /\ \A t \in Ops : t \in Ops' /\ change'[t] = change[t]
    BY <1>0, <1>3, <1>4 DEF Ops
  <2> QED BY <1>0, <1>1, <2>1 DEF Quiet
<1> QED BY <1>0, <1>5, <1>6, <1>7, <1>8, <1>9, <1>10

\* A change of the tables that an increment has to follow.
LEMMA OpensChanging ==
  ASSUME RolesInv, TablesTyped', NoDeadRows', NEW s \in Slot, NEW op \in Direct, NEW u \in User,
         NEW r \in Role, NEW p \in Permission, Opens(s, op, u, r, p, "invalidate"), status' = status,
         live \subseteq live', \A q \in live : grants[q] \subseteq grants'[q],
         \A v \in User, q \in live : Holds(v, q) => Holds(v, q)'
  PROVE  RolesInv'
<1>1. \A o, v, q : Remaining(o, v, q) \subseteq Remaining(o, v, q)'
  BY MoreRemain
<1>2. WellTyped' /\ Counted' /\ NothingAhead' /\ GuardHolds' /\ ~Quiet'
  BY <1>1, OpensKeeps
<1> QED BY <1>2 DEF RolesInv, AllUpToDate

LEMMA AddPermissionKeeps ==
  ASSUME RolesInv, NEW s \in Slot, NEW r \in Role, NEW p \in Permission, User # {}, addPermission(s, r, p)
  PROVE  RolesInv'
<1> DEFINE someone == CHOOSE u \in User : TRUE
<1>1. someone \in User /\ "GRANT" \in Direct
  BY DEF Direct
<1> HIDE DEF someone
<1>2. /\ r \in live \ {Admin} /\ grants' = [grants EXCEPT ![r] = @ \cup {p}]
      /\ Opens(s, "GRANT", someone, r, p, "invalidate")
      /\ status' = status /\ signedIn' = signedIn /\ live' = live /\ holds' = holds
  BY DEF addPermission, someone
<1>3. /\ grants' \in [Role -> SUBSET Permission]
      /\ \A q \in Role : grants[q] \subseteq grants'[q] /\ (q # r => grants'[q] = grants[q])
  BY <1>2 DEF RolesInv, WellTyped, RolesTypeOK
<1>4. TablesTyped'
  BY <1>2, <1>3 DEF TablesTyped, RolesInv, WellTyped, RolesTypeOK
<1>5. NoDeadRows'
  BY <1>2, <1>3 DEF NoDeadRows, RolesInv
<1>6. \A q \in live : grants[q] \subseteq grants'[q]
  BY <1>3 DEF RolesInv, WellTyped, RolesTypeOK
<1>7. \A v \in User, q \in live : Holds(v, q) => Holds(v, q)'
  BY <1>2 DEF Holds
<1> QED BY <1>1, <1>2, <1>4, <1>5, <1>6, <1>7, OpensChanging

LEMMA AssignRoleKeeps ==
  ASSUME RolesInv, NEW s \in Slot, NEW u \in User, NEW r \in Role, NEW scope \in 1..MaxScope, assignRole(s, u, r, scope)
  PROVE  RolesInv'
<1>1. "ASSIGN" \in Direct /\ RoleManage \in Permission /\ scope \in Scope /\ scope > 0
  BY BoundAssumption DEF Direct, Permission, Scope
<1>2. /\ r \in live /\ holds' = [holds EXCEPT ![u][r] = scope]
      /\ Opens(s, "ASSIGN", u, r, RoleManage, "invalidate")
      /\ status' = status /\ signedIn' = signedIn /\ live' = live /\ grants' = grants
  BY DEF assignRole
<1>3. /\ holds' \in [User -> [Role -> Scope]]
      /\ \A v \in User, q \in Role : holds'[v][q] = IF v = u /\ q = r THEN scope ELSE holds[v][q]
  BY <1>1, <1>2 DEF RolesInv, WellTyped, RolesTypeOK
<1>4. TablesTyped'
  BY <1>2, <1>3 DEF TablesTyped, RolesInv, WellTyped, RolesTypeOK
<1>5. NoDeadRows'
  BY <1>2, <1>3 DEF NoDeadRows, RolesInv
<1>6. \A q \in live : grants[q] \subseteq grants'[q]
  BY <1>2
<1>7. \A v \in User, q \in live : Holds(v, q) => Holds(v, q)'
  BY <1>1, <1>3 DEF Holds, RolesInv, WellTyped, RolesTypeOK
<1> QED BY <1>1, <1>2, <1>4, <1>5, <1>6, <1>7, OpensChanging

LEMMA CloneRoleKeeps ==
  ASSUME RolesInv, NEW s \in Slot, NEW r \in Role, User # {}, cloneRole(s, r)
  PROVE  RolesInv'
<1> DEFINE someone == CHOOSE u \in User : TRUE
           copy == CopyOf[r]
<1>1. someone \in User /\ "CLONE" \in Direct /\ RoleManage \in Permission /\ copy \in Role
  BY RoleAssumption DEF Direct, Permission
<1> HIDE DEF someone
<1>2. /\ r \in live /\ copy \notin live /\ live' = live \cup {copy} /\ grants' = [grants EXCEPT ![copy] = grants[r]]
      /\ Opens(s, "CLONE", someone, r, RoleManage, "invalidate")
      /\ status' = status /\ signedIn' = signedIn /\ holds' = holds
  BY DEF cloneRole, someone
<1> HIDE DEF copy
<1>3. /\ grants' \in [Role -> SUBSET Permission]
      /\ \A q \in Role \ {copy} : grants'[q] = grants[q]
  BY <1>1, <1>2 DEF RolesInv, WellTyped, RolesTypeOK
<1>4. TablesTyped'
  BY <1>1, <1>2, <1>3 DEF TablesTyped, RolesInv, WellTyped, RolesTypeOK
<1>5. NoDeadRows'
  BY <1>2, <1>3 DEF NoDeadRows, RolesInv
<1>6. live \subseteq live' /\ \A q \in live : grants[q] \subseteq grants'[q]
  BY <1>2, <1>3 DEF RolesInv, WellTyped, RolesTypeOK
<1>7. \A v \in User, q \in live : Holds(v, q) => Holds(v, q)'
  BY <1>2 DEF Holds
<1> QED BY <1>1, <1>2, <1>4, <1>5, <1>6, <1>7, OpensChanging

\* A new role is nobody's and grants nothing, so that no manifest changes.
LEMMA CreateRoleKeeps ==
  ASSUME RolesInv, NEW r \in Role, createRole(r)
  PROVE  RolesInv'
<1>0. /\ begun < MaxRequests /\ begun' = begun + 1 /\ r \notin live /\ live' = live \cup {r}
      /\ status' = status /\ signedIn' = signedIn /\ grants' = grants /\ holds' = holds
      /\ version' = version /\ cache' = cache /\ reading' = reading /\ change' = change /\ past' = past
  BY DEF createRole, redis
<1>1. WellTyped'
  <2>1. begun' \in 0..MaxRequests
    BY <1>0, BoundAssumption DEF RolesInv, WellTyped, RolesTypeOK
  <2> QED BY <1>0, <2>1 DEF RolesInv, WellTyped, RolesTypeOK
<1>2. NoDeadRows'
  BY <1>0 DEF NoDeadRows, RolesInv
<1>3. Ops' = Ops /\ Current' = Current /\ Current \in Nat /\ version' \in Nat
  BY <1>0 DEF Ops, Current, RolesInv, WellTyped, RolesTypeOK
<1>4. Counted'
  BY <1>0, <1>3, CountsGoingOn DEF RolesInv
<1>5. NothingAhead'
  BY <1>0, <1>3, AheadKept DEF RolesInv, WellTyped
<1>6. \A v \in Reader : buildManifestFromDB(v)' = buildManifestFromDB(v)
  <2>1. grants[r] = {}
    BY <1>0 DEF NoDeadRows, RolesInv
  <2> QED BY <1>0, <2>1, EmptyRoleAddsNothing
<1>7. Quiet' = Quiet
  BY <1>0, <1>3 DEF Quiet
<1>8. AllUpToDate'
  BY <1>0, <1>3, <1>6, <1>7, UpToDateKept DEF RolesInv
<1>9. GuardHolds'
  <2>1. \A v \in User, q \in live : Holds(v, q) => Holds(v, q)'
    BY <1>0 DEF Holds
  <2>2. \A op, v, q : Remaining(op, v, q) \subseteq Remaining(op, v, q)'
    BY <1>0, <2>1, MoreRemain
  <2> QED BY <1>0, <1>3, <2>2, GuardKept DEF RolesInv
<1> QED BY <1>1, <1>2, <1>4, <1>5, <1>8, <1>9 DEF RolesInv

LEMMA JudgeKeeps ==
  ASSUME RolesInv, NEW s \in Slot, NEW op \in OfRole \cup OfUser, NEW u \in User, NEW r \in Role,
         NEW p \in Permission, Judge(s, op, u, r, p)
  PROVE  RolesInv'
<1> DEFINE step == IF AtStake(op, u, r, p) THEN "guard" ELSE "plain"
<1>1. step \in {"plain", "guard", "invalidate"} /\ step # "invalidate" /\ op \in Direct \cup OfRole \cup OfUser
  OBVIOUS
<1>2. Opens(s, op, u, r, p, step) /\ UNCHANGED tables
  BY DEF Judge
<1> HIDE DEF step
<1>3. TablesTyped'
  BY <1>2 DEF TablesTyped, RolesInv, WellTyped, RolesTypeOK, tables
<1>4. /\ NoDeadRows' /\ \A v \in Reader : buildManifestFromDB(v)' = buildManifestFromDB(v)
      /\ \A o, v, q : Remaining(o, v, q)' = Remaining(o, v, q)
  BY <1>2, SameTables DEF RolesInv
<1>5. /\ WellTyped' /\ Counted' /\ NothingAhead' /\ GuardHolds'
      /\ Quiet' => Quiet
      /\ version' = version /\ cache' = cache /\ reading' = reading /\ Current' = Current
  BY <1>1, <1>2, <1>3, <1>4, OpensKeeps
<1>6. AllUpToDate'
  BY <1>2, <1>4, <1>5, UpToDateKept DEF RolesInv, tables
<1> QED BY <1>4, <1>5, <1>6 DEF RolesInv

-----------------------------------------------------------------------------
(* Changing requests: what goes on.                                        *)

\* The other requests go on as they were, or beaten.
OthersStay(s) ==
    \A t \in Slot \ {s} :
        /\ change'[t].op = change[t].op
        /\ change[t].op # "idle" =>
              /\ change'[t].step = change[t].step /\ change'[t].user = change[t].user
              /\ change'[t].role = change[t].role
              /\ change[t].beaten => change'[t].beaten

PastTyped == past \in [misjudged : BOOLEAN, lost : BOOLEAN, reset : BOOLEAN]

LEMMA GoesOnKeeps ==
  ASSUME RolesInv, TablesTyped', NEW s \in Ops, change' \in [Slot -> Request \cup {Idle}], OthersStay(s),
         UNCHANGED <<redis, reading, begun>>, PastTyped', past'.reset = past.reset
  PROVE  /\ WellTyped' /\ Counted' /\ NothingAhead'
         /\ version' = version /\ cache' = cache /\ reading' = reading /\ Current' = Current
<1>0. version' = version /\ cache' = cache /\ reading' = reading /\ begun' = begun
  BY DEF redis
<1>1. WellTyped'
  BY <1>0 DEF TablesTyped, PastTyped, RolesInv, WellTyped, RolesTypeOK
<1>2. Ops' \subseteq Ops
  BY DEF Ops, OthersStay
<1>3. Current' = Current /\ Current \in Nat /\ version' \in Nat
  BY <1>0 DEF Current, RolesInv, WellTyped, RolesTypeOK
<1>4. Counted'
  BY <1>0, <1>2, <1>3, CountsGoingOn DEF RolesInv
<1>5. NothingAhead'
  BY <1>0, <1>3, AheadKept DEF RolesInv, WellTyped
<1> QED BY <1>0, <1>1, <1>3, <1>4, <1>5

\* A request that did not change a role leaves the manifests as they were.
LEMMA StillUpToDate ==
  ASSUME RolesInv, NEW s \in Ops, OthersStay(s), change[s].step # "invalidate",
         version' = version, cache' = cache, reading' = reading, Current' = Current,
         past.lost => past'.lost, past.reset => past'.reset,
         live' = live, grants' = grants, holds' = holds
  PROVE  AllUpToDate'
<1>1. Quiet' => Quiet
  <2>1. \A t \in Ops \ {s} : t \in Ops' /\ change'[t].step = change[t].step
    BY DEF Ops, OthersStay
  <2> QED BY <2>1 DEF Quiet
<1>2. \A v \in Reader : buildManifestFromDB(v)' = buildManifestFromDB(v)
  BY DEF buildManifestFromDB, ManifestOf
<1> QED BY <1>1, <1>2, UpToDateKept DEF RolesInv

\* A change of a role waits for its increment.
LEMMA ToBeInvalidated ==
  ASSUME NEW s \in Slot, change'[s].op # "idle", change'[s].step = "invalidate"
  PROVE  AllUpToDate'
BY DEF AllUpToDate, Quiet, Ops

LEMMA OthersGuard ==
  ASSUME RolesInv, NEW s \in Ops, OthersStay(s), past.misjudged => past'.misjudged,
         ~past'.misjudged => \A op, u, r : Remaining(op, u, r) \subseteq Remaining(op, u, r)',
         change'[s].op = "idle" \/ change'[s].step # "commit"
  PROVE  GuardHolds'
<1>1. \A t \in Ops' : change'[t].step = "commit" /\ ~change'[t].beaten
        => /\ t \in Ops /\ change[t].step = "commit" /\ ~change[t].beaten
           /\ change'[t].op = change[t].op /\ change'[t].user = change[t].user /\ change'[t].role = change[t].role
  BY DEF Ops, OthersStay
<1> QED BY <1>1, GuardKept DEF RolesInv

\* A slot that becomes free.
LEMMA FreesSlot ==
  ASSUME RolesInv, NEW s \in Ops, NEW q \in Request \cup {Idle}, change' = [change EXCEPT ![s] = q]
  PROVE  change' \in [Slot -> Request \cup {Idle}] /\ OthersStay(s) /\ change'[s] = q
BY DEF OthersStay, Ops, RolesInv, WellTyped, RolesTypeOK

LEMMA OpenIsRequest ==
  ASSUME RolesInv, NEW s \in Slot, change[s].op # "idle"
  PROVE  s \in Ops /\ change[s] \in Request
<1>1. change[s] \in Request \cup {Idle}
  BY DEF RolesInv, WellTyped, RolesTypeOK
<1>2. Idle.op = "idle"
  BY DEF Idle
<1> QED BY <1>1, <1>2 DEF Ops

LEMMA GuardKeeps ==
  ASSUME RolesInv, NEW s \in Slot, Guard(s)
  PROVE  RolesInv'
<1> DEFINE r == change[s]
           passes == Remaining(r.op, r.user, r.role) # {} /\ CanEnd(r.op, r.user)
           q == IF passes THEN [r EXCEPT !.step = "commit"] ELSE Idle
<1>0. /\ r.op # "idle" /\ r.step = "guard" /\ change' = [change EXCEPT ![s] = q]
      /\ UNCHANGED tables /\ UNCHANGED <<redis, reading, begun>> /\ past' = past
  BY DEF Guard
<1>1. s \in Ops /\ r \in Request
  BY <1>0, OpenIsRequest
<1>2. q \in Request \cup {Idle}
  BY <1>1 DEF Request
<1>3. /\ passes => /\ q.op = r.op /\ q.user = r.user /\ q.role = r.role
                   /\ Remaining(r.op, r.user, r.role) # {}
      /\ ~passes => q.op = "idle"
  BY <1>1 DEF Idle, Request
<1> HIDE DEF q
<1>4. change' \in [Slot -> Request \cup {Idle}] /\ OthersStay(s) /\ change'[s] = q
  BY <1>0, <1>1, <1>2, FreesSlot
<1>5. TablesTyped' /\ NoDeadRows' /\ live' = live /\ grants' = grants /\ holds' = holds /\ PastTyped'
  BY <1>0, SameTables DEF TablesTyped, PastTyped, RolesInv, WellTyped, RolesTypeOK, tables
<1>6. /\ WellTyped' /\ Counted' /\ NothingAhead'
      /\ version' = version /\ cache' = cache /\ reading' = reading /\ Current' = Current
  BY <1>0, <1>1, <1>4, <1>5, GoesOnKeeps
<1>7. AllUpToDate'
  BY <1>0, <1>1, <1>4, <1>5, <1>6, StillUpToDate
<1>8. GuardHolds'
  <2>1. \A op, u, w : Remaining(op, u, w)' = Remaining(op, u, w)
    BY <1>0, SameTables
  <2> SUFFICES ASSUME ~past.misjudged, NEW t \in Ops', change'[t].step = "commit", ~change'[t].beaten
               PROVE  Remaining(change'[t].op, change'[t].user, change'[t].role) # {}
    BY <1>0, <2>1 DEF GuardHolds
  <2>2. CASE t = s
    <3>1. q.op # "idle"
      BY <1>4, <2>2 DEF Ops
    <3> QED BY <1>3, <1>4, <2>2, <3>1
  <2>3. CASE t # s
    <3>1. t \in Ops /\ change[t].step = "commit" /\ ~change[t].beaten
          /\ change'[t].op = change[t].op /\ change'[t].user = change[t].user /\ change'[t].role = change[t].role
      BY <1>4, <2>3 DEF Ops, OthersStay
    <3>2. Remaining(change[t].op, change[t].user, change[t].role) # {}
      BY <3>1 DEF GuardHolds, RolesInv
    <3> QED BY <3>1, <3>2
  <2> QED BY <2>2, <2>3
<1> QED BY <1>5, <1>6, <1>7, <1>8 DEF RolesInv

\* Without a change the managers are those that remain.
LEMMA ManagersRemain ==
  \A u, r : Managers = Remaining("GRANT", u, r) /\ Managers' = Remaining("GRANT", u, r)'
BY DEF Managers, HasManage, Remaining, OfUser

LEMMA EffectKeepsRows ==
  ASSUME RolesInv, NEW r \in Request, Effect(r)
  PROVE  TablesTyped' /\ NoDeadRows'
<1>0. r.user \in User /\ r.role \in Role /\ 0 \in Scope
  BY BoundAssumption DEF Request, Scope
<1>1. TablesTyped
  BY DEF TablesTyped, RolesInv, WellTyped, RolesTypeOK
<1>2. status' \in [User -> {"NEW", "ACTIVE", "SUSPENDED", "TERMINATED"}] /\ signedIn' \subseteq User
  BY <1>0, <1>1 DEF Effect, TablesTyped, Ended
<1>3. live' = IF r.op = "DELETE" THEN live \ {r.role} ELSE live
  BY DEF Effect
<1>4. /\ grants' \in [Role -> SUBSET Permission]
      /\ \A q \in Role : grants'[q] \subseteq grants[q] /\ (r.op = "DELETE" /\ q = r.role => grants'[q] = {})
  <2>1. CASE r.op = "REVOKE"
    BY <2>1, <1>0, <1>1 DEF Effect, TablesTyped
  <2>2. CASE r.op = "DELETE"
    BY <2>2, <1>0, <1>1 DEF Effect, TablesTyped
  <2>3. CASE r.op \notin {"REVOKE", "DELETE"}
    BY <2>3, <1>1 DEF Effect, TablesTyped
  <2> QED BY <2>1, <2>2, <2>3
<1>5. /\ holds' \in [User -> [Role -> Scope]]
      /\ \A u \in User, q \in Role :
            /\ holds'[u][q] \in {holds[u][q], 0}
            /\ r.op = "DELETE" /\ q = r.role => holds'[u][q] = 0
  <2>1. CASE r.op = "UNASSIGN"
    BY <2>1, <1>0, <1>1 DEF Effect, TablesTyped
  <2>2. CASE r.op = "DELETE"
    <3>1. holds' = [u \in User |-> [holds[u] EXCEPT ![r.role] = 0]]
      BY <2>2 DEF Effect
    <3> QED BY <3>1, <2>2, <1>0, <1>1 DEF TablesTyped
  <2>3. CASE r.op \notin {"UNASSIGN", "DELETE"}
    BY <2>3, <1>1 DEF Effect, TablesTyped
  <2> QED BY <2>1, <2>2, <2>3
<1>6. TablesTyped'
  BY <1>1, <1>2, <1>3, <1>4, <1>5 DEF TablesTyped
<1>7. NoDeadRows'
  BY <1>1, <1>3, <1>4, <1>5 DEF NoDeadRows, RolesInv, TablesTyped
<1> QED BY <1>6, <1>7

\* What a guard counted is what stays when the request is done.
LEMMA RemainingAreManagers ==
  ASSUME RolesInv, NEW r \in Request, Effect(r)
  PROVE  Remaining(r.op, r.user, r.role) \subseteq Managers'
<1>0. /\ r.user \in User /\ r.role \in Role
      /\ status \in [User -> {"NEW", "ACTIVE", "SUSPENDED", "TERMINATED"}] /\ live \subseteq Role
      /\ grants \in [Role -> SUBSET Permission] /\ holds \in [User -> [Role -> Scope]]
      /\ r.op \in Direct \cup OfRole \cup OfUser
  BY DEF Request, RolesInv, WellTyped, RolesTypeOK
<1> SUFFICES ASSUME NEW v \in Remaining(r.op, r.user, r.role)
             PROVE  v \in Managers'
  OBVIOUS
<1>1. PICK q \in {q \in live : RoleManage \in grants[q]} \ (IF r.op \in {"REVOKE", "DELETE"} THEN {r.role} ELSE {}) :
         Holds(v, q) /\ ~(r.op = "UNASSIGN" /\ v = r.user /\ q = r.role)
  BY DEF Remaining
<1>2. v \in User /\ status[v] = "ACTIVE" /\ (r.op \in OfUser => v # r.user)
  BY DEF Remaining
<1>3. status'[v] = "ACTIVE"
  BY <1>0, <1>2 DEF Effect
<1>4. q \in live'
  BY <1>1 DEF Effect
<1>5. grants'[q] = grants[q]
  <2>1. CASE r.op \in {"REVOKE", "DELETE"}
    BY <2>1, <1>0, <1>1 DEF Effect
  <2>2. CASE r.op \notin {"REVOKE", "DELETE"}
    BY <2>2 DEF Effect
  <2> QED BY <2>1, <2>2
<1>6. holds'[v][q] = holds[v][q]
  <2>1. CASE r.op = "UNASSIGN"
    BY <2>1, <1>0, <1>1, <1>2 DEF Effect
  <2>2. CASE r.op = "DELETE"
    <3>1. holds' = [u \in User |-> [holds[u] EXCEPT ![r.role] = 0]]
      BY <2>2 DEF Effect
    <3> QED BY <3>1, <2>2, <1>0, <1>1, <1>2
  <2>3. CASE r.op \notin {"UNASSIGN", "DELETE"}
    BY <2>3 DEF Effect
  <2> QED BY <2>1, <2>2, <2>3
<1>7. HasManage(v)'
  BY <1>1, <1>4, <1>5, <1>6 DEF HasManage, Holds
<1> QED BY <1>2, <1>3, <1>7 DEF Managers

\* A request that has not role:manage at stake takes no manager away.
LEMMA NotAtStake ==
  ASSUME RolesInv, NEW r \in Request, r.op \in OfRole, Effect(r), ~AtStake(r.op, r.user, r.role, r.perm)
  PROVE  \A op, u, w : Remaining(op, u, w) \subseteq Remaining(op, u, w)'
<1>0. /\ r.user \in User /\ r.role \in Role /\ live \subseteq Role
      /\ grants \in [Role -> SUBSET Permission] /\ holds \in [User -> [Role -> Scope]]
  BY DEF Request, RolesInv, WellTyped, RolesTypeOK
<1>1. status' = status
  BY DEF Effect, OfUser, OfRole
<1>2. ASSUME NEW q \in live, RoleManage \in grants[q], NEW v \in User, Holds(v, q)
      PROVE  q \in live' /\ RoleManage \in grants'[q] /\ Holds(v, q)'
  <2>1. CASE r.op = "REVOKE"
    <3>1. grants' = [grants EXCEPT ![r.role] = @ \ {r.perm}] /\ live' = live /\ holds' = holds /\ r.perm # RoleManage
      BY <2>1 DEF Effect, AtStake
    <3> QED BY <3>1, <1>0, <1>2 DEF Holds
  <2>2. CASE r.op = "UNASSIGN"
    <3>1. holds' = [holds EXCEPT ![r.user][r.role] = 0] /\ live' = live /\ grants' = grants /\ q # r.role
      BY <2>2, <1>2 DEF Effect, AtStake
    <3> QED BY <3>1, <1>0, <1>2 DEF Holds
  <2>3. CASE r.op = "DELETE"
    <3>1. /\ holds' = [u \in User |-> [holds[u] EXCEPT ![r.role] = 0]] /\ live' = live \ {r.role}
          /\ grants' = [grants EXCEPT ![r.role] = {}] /\ q # r.role
      BY <2>3, <1>2 DEF Effect, AtStake
    <3> QED BY <3>1, <1>0, <1>2 DEF Holds
  <2> QED BY <2>1, <2>2, <2>3 DEF OfRole
<1> SUFFICES ASSUME NEW op, NEW u, NEW w, NEW v \in Remaining(op, u, w)
             PROVE  v \in Remaining(op, u, w)'
  OBVIOUS
<1>3. PICK q \in {q \in live : RoleManage \in grants[q]} \ (IF op \in {"REVOKE", "DELETE"} THEN {w} ELSE {}) :
         Holds(v, q) /\ ~(op = "UNASSIGN" /\ v = u /\ q = w)
  BY DEF Remaining
<1>4. v \in User /\ status[v] = "ACTIVE" /\ (op \in OfUser => v # u)
  BY DEF Remaining
<1>5. q \in live' /\ RoleManage \in grants'[q] /\ Holds(v, q)'
  BY <1>2, <1>3, <1>4
<1>6. q \in {k \in live' : RoleManage \in grants'[k]} \ (IF op \in {"REVOKE", "DELETE"} THEN {w} ELSE {})
  BY <1>3, <1>5
<1> QED BY <1>1, <1>3, <1>4, <1>5, <1>6 DEF Remaining

\* Neither does one that ends a user who is no manager.
LEMMA NoManagerEnded ==
  ASSUME NEW u \in User, NEW to, status' = [status EXCEPT ![u] = to], ~HasManage(u),
         live' = live, grants' = grants, holds' = holds, status \in [User -> {"NEW", "ACTIVE", "SUSPENDED", "TERMINATED"}]
  PROVE  /\ \A op, v, w : Remaining(op, v, w) \subseteq Remaining(op, v, w)'
         /\ Managers \subseteq Managers'
<1>1. \A v \in User : v # u => status'[v] = status[v]
  OBVIOUS
<1>2. \A v, q : Holds(v, q)' = Holds(v, q)
  BY DEF Holds
<1>3. \A op, v, w : u \notin Remaining(op, v, w) /\ Remaining(op, v, w) \subseteq User
  BY DEF Remaining, HasManage
<1>4. \A op, v, w : Remaining(op, v, w) \subseteq Remaining(op, v, w)'
  <2> SUFFICES ASSUME NEW op, NEW v, NEW w, NEW m \in Remaining(op, v, w)
               PROVE  m \in Remaining(op, v, w)'
    OBVIOUS
  <2>1. m # u /\ m \in User
    BY <1>3
  <2>2. status'[m] = status[m]
    BY <1>1, <2>1
  <2> QED BY <1>2, <2>1, <2>2 DEF Remaining
<1>5. \A v : HasManage(v)' = HasManage(v)
  BY <1>2 DEF HasManage
<1> QED BY <1>1, <1>4, <1>5 DEF Managers

LEMMA Beaten ==
  ASSUME RolesInv, NEW s \in Ops, NEW q \in Request \cup {Idle}, NEW over, \A t \in Slot : over[t] \in BOOLEAN,
         change' = [[t \in Slot |-> IF t # s /\ change[t].op # "idle" /\ change[t].step = "commit" /\ over[t]
                                    THEN [change[t] EXCEPT !.beaten = TRUE] ELSE change[t]] EXCEPT ![s] = q]
  PROVE  /\ change' \in [Slot -> Request \cup {Idle}] /\ OthersStay(s) /\ change'[s] = q
         /\ \A t \in Ops \ {s} : change[t].step = "commit" /\ over[t] => change'[t].beaten
<1>1. change \in [Slot -> Request \cup {Idle}] /\ s \in Slot
  BY DEF RolesInv, WellTyped, RolesTypeOK, Ops
<1>2. ASSUME NEW t \in Slot, change[t].op # "idle"
      PROVE  /\ change[t] \in Request
             /\ [change[t] EXCEPT !.beaten = TRUE] \in Request
             /\ [change[t] EXCEPT !.beaten = TRUE].op = change[t].op
             /\ [change[t] EXCEPT !.beaten = TRUE].step = change[t].step
             /\ [change[t] EXCEPT !.beaten = TRUE].user = change[t].user
             /\ [change[t] EXCEPT !.beaten = TRUE].role = change[t].role
             /\ [change[t] EXCEPT !.beaten = TRUE].beaten
  <2>1. change[t] \in Request
    BY <1>2, OpenIsRequest
  <2> QED BY <2>1 DEF Request
<1>3. \A t \in Slot \ {s} : change'[t] = IF change[t].op # "idle" /\ change[t].step = "commit" /\ over[t]
                                         THEN [change[t] EXCEPT !.beaten = TRUE] ELSE change[t]
  OBVIOUS
<1>4. change'[s] = q
  BY <1>1
<1>5. change' \in [Slot -> Request \cup {Idle}]
  <2>1. \A t \in Slot : change'[t] \in Request \cup {Idle}
    BY <1>1, <1>2, <1>3, <1>4
  <2> QED BY <2>1
<1>6. OthersStay(s)
  BY <1>2, <1>3 DEF OthersStay
<1>7. \A t \in Ops \ {s} : change[t].step = "commit" /\ over[t] => change'[t].beaten
  BY <1>2, <1>3 DEF Ops
<1> QED BY <1>4, <1>5, <1>6, <1>7

\* Where a request goes when its rows are written.
LEMMA AfterEffect ==
  ASSUME NEW r \in Request
  PROVE  /\ Next1(r) \in Request \cup {Idle}
         /\ r.op \in OfUser => Next1(r) = Idle /\ Next1(r).op = "idle"
         /\ r.op \notin OfUser => Next1(r).op # "idle" /\ Next1(r).step = "invalidate"
<1>1. r.op # "idle"
  BY DEF Request, Direct, OfRole, OfUser
<1>2. [r EXCEPT !.step = "invalidate"] \in Request
  BY DEF Request
<1>3. [r EXCEPT !.step = "invalidate"].op = r.op /\ [r EXCEPT !.step = "invalidate"].step = "invalidate"
  BY DEF Request
<1> QED BY <1>1, <1>2, <1>3 DEF Next1, Idle

\* The guard that commits beats every other one, and leaves the managers it counted.
LEMMA GuardedCommitKeeps ==
  ASSUME RolesInv, NEW s \in Slot, GuardedCommit(s)
  PROVE  RolesInv' /\ (~past'.misjudged => Managers' # {})
<1> DEFINE r == change[s]
           over == [t \in Slot |-> TRUE]
<1>0. /\ r.op # "idle" /\ r.step = "commit" /\ ~r.beaten /\ Effect(r)
      /\ change' = [Beats(s, LAMBDA q : TRUE) EXCEPT ![s] = Next1(r)]
      /\ UNCHANGED <<redis, reading, begun>> /\ past' = past
  BY DEF GuardedCommit
<1>1. s \in Ops /\ r \in Request
  BY <1>0, OpenIsRequest
<1>2. change' = [[t \in Slot |-> IF t # s /\ change[t].op # "idle" /\ change[t].step = "commit" /\ over[t]
                                 THEN [change[t] EXCEPT !.beaten = TRUE] ELSE change[t]] EXCEPT ![s] = Next1(r)]
  BY <1>0 DEF Beats
<1>3. /\ change' \in [Slot -> Request \cup {Idle}] /\ OthersStay(s) /\ change'[s] = Next1(r)
      /\ \A t \in Ops \ {s} : change[t].step = "commit" => change'[t].beaten
  <2>1. Next1(r) \in Request \cup {Idle} /\ \A t \in Slot : over[t] \in BOOLEAN
    BY <1>1, AfterEffect
  <2> HIDE DEF r
  <2> QED BY <1>1, <1>2, <2>1, Beaten DEF Ops
<1>4. TablesTyped' /\ NoDeadRows' /\ PastTyped'
  BY <1>0, <1>1, EffectKeepsRows DEF PastTyped, RolesInv, WellTyped, RolesTypeOK
<1>5. /\ WellTyped' /\ Counted' /\ NothingAhead'
      /\ version' = version /\ cache' = cache /\ reading' = reading /\ Current' = Current
  BY <1>0, <1>1, <1>3, <1>4, GoesOnKeeps
<1>6. AllUpToDate'
  <2>1. CASE r.op \in OfUser
    <3>1. live' = live /\ grants' = grants /\ holds' = holds
      BY <1>0, <2>1 DEF Effect, OfUser
    <3> QED BY <1>0, <1>1, <1>3, <1>5, <3>1, StillUpToDate
  <2>2. CASE r.op \notin OfUser
    BY <1>1, <1>3, <2>2, AfterEffect, ToBeInvalidated
  <2> QED BY <2>1, <2>2
<1>7. GuardHolds'
  <2> SUFFICES ASSUME NEW t \in Ops', change'[t].step = "commit", ~change'[t].beaten PROVE FALSE
    BY DEF GuardHolds
  <2>1. t # s
    BY <1>1, <1>3, AfterEffect DEF Ops
  <2> QED BY <1>3, <2>1 DEF Ops, OthersStay
<1>8. ASSUME ~past'.misjudged PROVE Managers' # {}
  <2>1. Remaining(r.op, r.user, r.role) # {}
    BY <1>0, <1>1, <1>8 DEF RolesInv, GuardHolds
  <2> QED BY <1>0, <1>1, <2>1, RemainingAreManagers
<1> QED BY <1>4, <1>5, <1>6, <1>7, <1>8 DEF RolesInv

LEMMA PlainCommitKeeps ==
  ASSUME RolesInv, NEW s \in Slot, PlainCommit(s)
  PROVE  RolesInv' /\ (Managers # {} /\ ~past'.misjudged => Managers' # {})
<1> DEFINE r == change[s]
           stake == past.misjudged \/ AtStake(r.op, r.user, r.role, r.perm)
<1>0. /\ r.op \in OfRole /\ r.step = "plain" /\ Effect(r) /\ change' = [change EXCEPT ![s] = Next1(r)]
      /\ UNCHANGED <<redis, reading, begun>> /\ past' = [past EXCEPT !.misjudged = stake]
  BY DEF PlainCommit
<1>1. s \in Ops /\ r \in Request
  BY <1>0, OpenIsRequest DEF OfRole
<1>2. /\ change' \in [Slot -> Request \cup {Idle}] /\ OthersStay(s)
      /\ change'[s].op # "idle" /\ change'[s].step = "invalidate"
  <2>1. Next1(r) \in Request \cup {Idle} /\ Next1(r).op # "idle" /\ Next1(r).step = "invalidate"
    BY <1>0, <1>1, AfterEffect DEF OfRole, OfUser
  <2> HIDE DEF r
  <2> QED BY <1>0, <1>1, <2>1, FreesSlot
<1>3. /\ past' \in [misjudged : BOOLEAN, lost : BOOLEAN, reset : BOOLEAN] /\ past'.reset = past.reset
      /\ past'.misjudged = stake
  <2>1. past \in [misjudged : BOOLEAN, lost : BOOLEAN, reset : BOOLEAN] /\ stake \in BOOLEAN
    BY DEF RolesInv, WellTyped, RolesTypeOK, AtStake, HasManage
  <2> HIDE DEF stake
  <2> QED BY <1>0, <2>1
<1>4. TablesTyped' /\ NoDeadRows' /\ PastTyped'
  BY <1>0, <1>1, <1>3, EffectKeepsRows DEF PastTyped
<1>5. WellTyped' /\ Counted' /\ NothingAhead'
  BY <1>0, <1>1, <1>2, <1>3, <1>4, GoesOnKeeps
<1>6. AllUpToDate'
  BY <1>2, ToBeInvalidated
<1>7. ~past'.misjudged => \A op, u, w : Remaining(op, u, w) \subseteq Remaining(op, u, w)'
  BY <1>0, <1>1, <1>3, NotAtStake
<1>8. GuardHolds'
  BY <1>1, <1>2, <1>3, <1>7, OthersGuard
<1>9. ASSUME Managers # {}, ~past'.misjudged PROVE Managers' # {}
  <2>1. Managers = Remaining("GRANT", {}, {}) /\ Managers' = Remaining("GRANT", {}, {})'
    BY ManagersRemain
  <2>2. Remaining("GRANT", {}, {}) \subseteq Remaining("GRANT", {}, {})'
    BY <1>7, <1>9
  <2> QED BY <1>9, <2>1, <2>2
<1> QED BY <1>4, <1>5, <1>6, <1>8, <1>9 DEF RolesInv

LEMMA EndSessionsKeeps ==
  ASSUME RolesInv, NEW s \in Slot, EndSessions(s)
  PROVE  RolesInv' /\ Managers' = Managers
<1> DEFINE r == change[s]
           q == IF CanEnd(r.op, r.user) THEN [r EXCEPT !.step = "status"] ELSE Idle
<1>0. /\ r.op \in OfUser /\ r.step = "plain" /\ change' = [change EXCEPT ![s] = q]
      /\ signedIn' \in {signedIn, signedIn \ {r.user}}
      /\ status' = status /\ live' = live /\ grants' = grants /\ holds' = holds
      /\ UNCHANGED <<redis, reading, begun>> /\ past' = past
  BY DEF EndSessions
<1>1. s \in Ops /\ r \in Request
  BY <1>0, OpenIsRequest DEF OfUser
<1>2. q \in Request \cup {Idle} /\ (q.op = "idle" \/ q.step # "commit")
  BY <1>1 DEF Request, Idle
<1> HIDE DEF q
<1>3. change' \in [Slot -> Request \cup {Idle}] /\ OthersStay(s) /\ change'[s] = q
  BY <1>0, <1>1, <1>2, FreesSlot
<1>4. TablesTyped' /\ NoDeadRows' /\ PastTyped'
  BY <1>0 DEF TablesTyped, PastTyped, NoDeadRows, RolesInv, WellTyped, RolesTypeOK
<1>5. /\ WellTyped' /\ Counted' /\ NothingAhead'
      /\ version' = version /\ cache' = cache /\ reading' = reading /\ Current' = Current
  BY <1>0, <1>1, <1>3, <1>4, GoesOnKeeps
<1>6. AllUpToDate'
  BY <1>0, <1>1, <1>3, <1>5, StillUpToDate
<1>7. \A op, u, w : Remaining(op, u, w) \subseteq Remaining(op, u, w)'
  BY <1>0 DEF Remaining, Holds
<1>8. GuardHolds'
  BY <1>0, <1>1, <1>2, <1>3, <1>7, OthersGuard
<1>9. Managers' = Managers
  BY <1>0 DEF Managers, HasManage, Holds
<1> QED BY <1>4, <1>5, <1>6, <1>8, <1>9 DEF RolesInv

LEMMA WriteStatusKeeps ==
  ASSUME RolesInv, NEW s \in Slot, WriteStatus(s)
  PROVE  RolesInv' /\ (Managers # {} /\ ~past'.misjudged => Managers' # {})
<1> DEFINE r == change[s]
           stake == past.misjudged \/ AtStake(r.op, r.user, r.role, r.perm)
           over == [t \in Slot |-> change[t].op \in OfUser /\ change[t].user = r.user]
<1>0. /\ r.op \in OfUser /\ r.step = "status" /\ status' = [status EXCEPT ![r.user] = Ended(r.op)]
      /\ change' = [Beats(s, LAMBDA q : q.op \in OfUser /\ q.user = r.user) EXCEPT ![s] = Idle]
      /\ signedIn' = signedIn /\ live' = live /\ grants' = grants /\ holds' = holds
      /\ UNCHANGED <<redis, reading, begun>> /\ past' = [past EXCEPT !.misjudged = stake]
  BY DEF WriteStatus
<1>1. s \in Ops /\ r \in Request
  BY <1>0, OpenIsRequest DEF OfUser
<1>2. change' = [[t \in Slot |-> IF t # s /\ change[t].op # "idle" /\ change[t].step = "commit" /\ over[t]
                                 THEN [change[t] EXCEPT !.beaten = TRUE] ELSE change[t]] EXCEPT ![s] = Idle]
  BY <1>0 DEF Beats
<1>3. change' \in [Slot -> Request \cup {Idle}] /\ OthersStay(s) /\ change'[s] = Idle
  <2>1. \A t \in Slot : over[t] \in BOOLEAN
    OBVIOUS
  <2> HIDE DEF r, over
  <2> QED BY <1>1, <1>2, <2>1, Beaten
<1>4. /\ past' \in [misjudged : BOOLEAN, lost : BOOLEAN, reset : BOOLEAN] /\ past'.reset = past.reset
      /\ past'.lost = past.lost /\ past'.misjudged = stake
  <2>1. past \in [misjudged : BOOLEAN, lost : BOOLEAN, reset : BOOLEAN] /\ stake \in BOOLEAN
    BY DEF RolesInv, WellTyped, RolesTypeOK, AtStake, HasManage
  <2> HIDE DEF stake
  <2> QED BY <1>0, <2>1
<1>5. r.user \in User /\ Ended(r.op) \in {"SUSPENDED", "TERMINATED"}
      /\ status \in [User -> {"NEW", "ACTIVE", "SUSPENDED", "TERMINATED"}]
  BY <1>1 DEF Request, Ended, RolesInv, WellTyped, RolesTypeOK
<1>6. TablesTyped' /\ NoDeadRows' /\ PastTyped'
  BY <1>0, <1>4, <1>5 DEF TablesTyped, PastTyped, NoDeadRows, RolesInv, WellTyped, RolesTypeOK
<1>7. /\ WellTyped' /\ Counted' /\ NothingAhead'
      /\ version' = version /\ cache' = cache /\ reading' = reading /\ Current' = Current
  BY <1>0, <1>1, <1>3, <1>4, <1>6, GoesOnKeeps
<1>8. AllUpToDate'
  BY <1>0, <1>1, <1>3, <1>4, <1>7, StillUpToDate
<1>9. ~past'.misjudged => Managers \subseteq Managers' /\ \A op, u, w : Remaining(op, u, w) \subseteq Remaining(op, u, w)'
  <2> SUFFICES ASSUME ~past'.misjudged
               PROVE  Managers \subseteq Managers' /\ \A op, u, w : Remaining(op, u, w) \subseteq Remaining(op, u, w)'
    OBVIOUS
  <2>1. ~HasManage(r.user)
    BY <1>0, <1>4 DEF AtStake
  <2> QED BY <1>0, <1>5, <2>1, NoManagerEnded
<1>10. GuardHolds'
  BY <1>1, <1>3, <1>4, <1>9, OthersGuard DEF Idle
<1> QED BY <1>6, <1>7, <1>8, <1>9, <1>10 DEF RolesInv

\* The increment leaves every manifest that was filed behind.
LEMMA InvalidateKeeps ==
  ASSUME RolesInv, NEW s \in Slot, Invalidate(s)
  PROVE  RolesInv'
<1> DEFINE again == past.reset \/ version = 0
<1>0. /\ change[s].op # "idle" /\ change[s].step = "invalidate" /\ version' = version + 1
      /\ past' = [past EXCEPT !.lost = FALSE, !.reset = again] /\ change' = [change EXCEPT ![s] = Idle]
      /\ UNCHANGED tables /\ cache' = cache /\ reading' = reading /\ begun' = begun
  BY DEF Invalidate
<1>1. s \in Ops
  BY <1>0, OpenIsRequest
<1>2. /\ past' \in [misjudged : BOOLEAN, lost : BOOLEAN, reset : BOOLEAN] /\ past'.misjudged = past.misjudged
      /\ past.reset => past'.reset
      /\ ~past'.reset => ~past.reset /\ version # 0
  <2>1. past \in [misjudged : BOOLEAN, lost : BOOLEAN, reset : BOOLEAN] /\ again \in BOOLEAN
    BY DEF RolesInv, WellTyped, RolesTypeOK
  <2>2. ~again => ~past.reset /\ version # 0
    OBVIOUS
  <2>3. past.reset => again
    OBVIOUS
  <2> HIDE DEF again
  <2> QED BY <1>0, <2>1, <2>2, <2>3
<1>3. change' \in [Slot -> Request \cup {Idle}] /\ OthersStay(s) /\ change'[s] = Idle
  BY <1>0, <1>1, FreesSlot
<1>4. version \in Nat /\ begun \in Nat /\ Current \in Nat /\ Current' \in Nat /\ Current' <= Current + 1
      /\ (~past'.reset => Current' = Current + 1)
  BY <1>0, <1>2, BoundAssumption DEF Current, RolesInv, WellTyped, RolesTypeOK
<1>5. Counted'
  BY <1>0, <1>1, CountsClosing DEF RolesInv
<1>6. version' \in 0..(MaxRequests + 1)
  <2>1. Cardinality(Ops) >= 1
    <3>1. Cardinality(Ops) # 0
      BY <1>1, OpsAreFinite, FS_EmptySet
    <3> QED BY <3>1, OpsAreFinite
  <2> QED BY <1>0, <1>4, <2>1, OpsAreFinite, BoundAssumption DEF Counted, Current, RolesInv, WellTyped, RolesTypeOK
<1>7. WellTyped'
  BY <1>0, <1>2, <1>3, <1>6 DEF RolesInv, WellTyped, RolesTypeOK, tables
<1>8. NoDeadRows'
  BY <1>0, SameTables DEF RolesInv
<1>9. NothingAhead'
  BY <1>0, <1>2, <1>4, AheadKept DEF RolesInv, WellTyped
<1>10. AllUpToDate'
  <2> SUFFICES ASSUME Quiet', NEW u \in Reader PROVE UpToDate(u)'
    BY DEF AllUpToDate
  <2>1. ~past.reset /\ ~past'.reset
    BY <1>2 DEF Quiet
  <2>2. Current' > Current /\ Current' \in Version
    <3>1. Current' \in Version
      BY <1>4, <1>6, <2>1, BoundAssumption DEF Version, Current
    <3> QED BY <1>4, <2>1, <3>1
  <2>3. cache[u][Current'] = Nothing
    BY <2>1, <2>2 DEF NothingAhead, RolesInv
  <2>4. reading[u].step \in {"roles", "grants", "write"} => reading[u].version # Current'
    BY <1>4, <2>1, <2>2 DEF NothingAhead, RolesInv
  <2> QED BY <1>0, <2>3, <2>4 DEF UpToDate
<1>11. GuardHolds'
  <2>1. \A op, u, w : Remaining(op, u, w)' = Remaining(op, u, w)
    BY <1>0, SameTables
  <2> QED BY <1>1, <1>2, <1>3, <2>1, OthersGuard DEF Idle
<1> QED BY <1>5, <1>7, <1>8, <1>9, <1>10, <1>11 DEF RolesInv

LEMMA FailKeeps ==
  ASSUME RolesInv, NEW s \in Slot, Fail(s)
  PROVE  RolesInv'
<1> DEFINE gone == past.lost \/ change[s].step = "invalidate"
<1>0. /\ s \in Ops /\ past' = [past EXCEPT !.lost = gone] /\ change' = [change EXCEPT ![s] = Idle]
      /\ UNCHANGED tables /\ UNCHANGED <<redis, reading, begun>>
  BY DEF Fail
<1>1. /\ past' \in [misjudged : BOOLEAN, lost : BOOLEAN, reset : BOOLEAN]
      /\ past'.misjudged = past.misjudged /\ past'.reset = past.reset /\ past'.lost = gone
      /\ past.lost => past'.lost
  <2>1. past \in [misjudged : BOOLEAN, lost : BOOLEAN, reset : BOOLEAN] /\ gone \in BOOLEAN /\ (past.lost => gone)
    BY DEF RolesInv, WellTyped, RolesTypeOK
  <2> HIDE DEF gone
  <2> QED BY <1>0, <2>1
<1>2. change' \in [Slot -> Request \cup {Idle}] /\ OthersStay(s) /\ change'[s] = Idle
  BY <1>0, FreesSlot
<1>3. TablesTyped' /\ NoDeadRows' /\ PastTyped' /\ live' = live /\ grants' = grants /\ holds' = holds
  BY <1>0, <1>1, SameTables DEF TablesTyped, PastTyped, RolesInv, WellTyped, RolesTypeOK, tables
<1>4. /\ WellTyped' /\ Counted' /\ NothingAhead'
      /\ version' = version /\ cache' = cache /\ reading' = reading /\ Current' = Current
  BY <1>0, <1>1, <1>2, <1>3, GoesOnKeeps
<1>5. AllUpToDate'
  <2>1. CASE gone
    BY <1>1, <2>1 DEF AllUpToDate, Quiet
  <2>2. CASE ~gone
    BY <1>0, <1>1, <1>2, <1>3, <1>4, <2>2, StillUpToDate
  <2> QED BY <2>1, <2>2
<1>6. GuardHolds'
  <2>1. \A op, u, w : Remaining(op, u, w)' = Remaining(op, u, w)
    BY <1>0, SameTables
  <2> QED BY <1>0, <1>1, <1>2, <2>1, OthersGuard DEF Idle
<1> QED BY <1>3, <1>4, <1>5, <1>6 DEF RolesInv

LEMMA LoginKeeps ==
  ASSUME RolesInv, NEW u \in User, Login(u)
  PROVE  RolesInv' /\ Managers' = Managers
<1>0. /\ signedIn' = signedIn \cup {u} /\ status' = status /\ live' = live /\ grants' = grants /\ holds' = holds
      /\ version' = version /\ cache' = cache /\ reading' = reading /\ change' = change /\ begun' = begun /\ past' = past
  BY DEF Login, redis
<1>1. Ops' = Ops /\ Current' = Current /\ Current \in Nat /\ version' \in Nat
  BY <1>0 DEF Ops, Current, RolesInv, WellTyped, RolesTypeOK
<1>2. WellTyped' /\ NoDeadRows'
  BY <1>0 DEF RolesInv, WellTyped, RolesTypeOK, NoDeadRows
<1>3. Counted'
  BY <1>0, <1>1, CountsGoingOn DEF RolesInv
<1>4. NothingAhead'
  BY <1>0, <1>1, AheadKept DEF RolesInv, WellTyped
<1>5. AllUpToDate'
  <2>1. \A v \in Reader : buildManifestFromDB(v)' = buildManifestFromDB(v)
    BY <1>0 DEF buildManifestFromDB, ManifestOf
  <2>2. Quiet' = Quiet
    BY <1>0, <1>1 DEF Quiet
  <2> QED BY <1>0, <1>1, <2>1, <2>2, UpToDateKept DEF RolesInv
<1>6. GuardHolds'
  <2>1. \A op, v, w : Remaining(op, v, w) \subseteq Remaining(op, v, w)'
    BY <1>0 DEF Remaining, Holds
  <2> QED BY <1>0, <1>1, <2>1, GuardKept DEF RolesInv
<1>7. Managers' = Managers
  BY <1>0 DEF Managers, HasManage, Holds
<1> QED BY <1>2, <1>3, <1>4, <1>5, <1>6, <1>7 DEF RolesInv

-----------------------------------------------------------------------------
LEMMA RolesInitHolds == RolesInit => RolesInv
<1> SUFFICES ASSUME RolesInit PROVE RolesInv
  OBVIOUS
<1>1. PICK u \in User, first \in {"NEW", "ACTIVE"}, r \in Role, holders \in SUBSET User :
        /\ u \notin holders /\ r # Admin
        /\ status = [v \in User |-> IF v = u THEN first ELSE "ACTIVE"]
        /\ signedIn = User
        /\ live = {Admin, r}
        /\ grants = [q \in Role |-> IF q = Admin THEN Permission ELSE {}]
        /\ holds = [v \in User |-> [q \in Role |->
              IF v = u /\ q = Admin THEN MaxScope ELSE IF v \in holders /\ q = r THEN 1 ELSE 0]]
        /\ version = IF first = "NEW" THEN 0 ELSE 1
        /\ cache = [v \in User |-> [n \in Version |-> Nothing]]
        /\ reading = [v \in Reader |-> [step |-> "idle"]]
        /\ change = [s \in Slot |-> Idle]
        /\ begun = 0
        /\ past = [misjudged |-> FALSE, lost |-> FALSE, reset |-> FALSE]
  BY DEF RolesInit
<1>2. /\ cache = [v \in User |-> [n \in Version |-> Nothing]]
      /\ reading = [v \in Reader |-> [step |-> "idle"]]
      /\ change = [s \in Slot |-> Idle] /\ begun = 0
      /\ past = [misjudged |-> FALSE, lost |-> FALSE, reset |-> FALSE]
  BY <1>1
<1>3. Admin \in Role /\ MaxScope \in Scope /\ 0 \in Scope /\ 1 \in Scope /\ Reader \subseteq User
  BY RoleAssumption, BoundAssumption DEF Scope
<1>4. TablesTyped
  BY <1>1, <1>3 DEF TablesTyped
<1>5. NoDeadRows
  BY <1>1, <1>3 DEF NoDeadRows
<1>6. Ops = {} /\ Current = 1 /\ version \in 0..1
  BY <1>1, <1>2 DEF Ops, Idle, Current
<1>7. WellTyped
  <2>1. version \in 0..(MaxRequests + 1) /\ begun \in 0..MaxRequests
    BY <1>2, <1>6, BoundAssumption
  <2>2. cache \in [User -> [Version -> Manifest]]
    BY <1>2, NothingIsTyped
  <2>3. reading \in [Reader -> Reading] /\ \A v \in Reader : reading[v].step = "idle"
    BY <1>2 DEF Reading
  <2> QED BY <1>2, <1>4, <2>1, <2>2, <2>3 DEF WellTyped, RolesTypeOK, TablesTyped
<1>8. Counted
  BY <1>2, <1>6, FS_EmptySet DEF Counted
<1>9. NothingAhead /\ AllUpToDate
  <2>1. 1 \in Version
    BY BoundAssumption DEF Version
  <2>2. \A v \in Reader : reading[v].step = "idle" /\ \A n \in Version : cache[v][n] = Nothing
    BY <1>2, <1>3
  <2> QED BY <1>6, <2>1, <2>2 DEF NothingAhead, AllUpToDate, UpToDate
<1>10. GuardHolds
  BY <1>6 DEF GuardHolds
<1> QED BY <1>5, <1>7, <1>8, <1>9, <1>10 DEF RolesInv

LEMMA BeginsKeeps ==
  ASSUME RolesInv, NEW s \in Slot, Begins(s)
  PROVE  RolesInv'
<1>0. User # {}
  BY DEF Begins
<1> DEFINE someone == CHOOSE u \in User : TRUE
<1>1. someone \in User /\ RoleManage \in Permission /\ Admin \in Role
  BY <1>0, RoleAssumption DEF Permission
<1> HIDE DEF someone
<1>2. \/ \E r \in Role, p \in Permission : addPermission(s, r, p)
      \/ \E r \in Role, p \in Permission : Judge(s, "REVOKE", someone, r, p)
      \/ \E u \in User, r \in Role, scope \in 1..MaxScope : assignRole(s, u, r, scope)
      \/ \E r \in Role : cloneRole(s, r)
      \/ \E r \in Role : Judge(s, "DELETE", someone, r, RoleManage)
      \/ \E u \in User, r \in Role : Judge(s, "UNASSIGN", u, r, RoleManage)
      \/ \E u \in User, op \in OfUser : Judge(s, op, u, Admin, RoleManage)
  BY DEF Begins, someone
<1>3. ASSUME NEW r \in Role, NEW p \in Permission, addPermission(s, r, p) PROVE RolesInv'
  BY <1>0, <1>3, AddPermissionKeeps
<1>4. ASSUME NEW r \in Role, NEW p \in Permission, Judge(s, "REVOKE", someone, r, p) PROVE RolesInv'
  <2>1. "REVOKE" \in OfRole \cup OfUser
    BY DEF OfRole
  <2> QED BY <1>1, <1>4, <2>1, JudgeKeeps
<1>5. ASSUME NEW u \in User, NEW r \in Role, NEW scope \in 1..MaxScope, assignRole(s, u, r, scope) PROVE RolesInv'
  BY <1>5, AssignRoleKeeps
<1>6. ASSUME NEW r \in Role, cloneRole(s, r) PROVE RolesInv'
  BY <1>0, <1>6, CloneRoleKeeps
<1>7. ASSUME NEW r \in Role, Judge(s, "DELETE", someone, r, RoleManage) PROVE RolesInv'
  <2>1. "DELETE" \in OfRole \cup OfUser
    BY DEF OfRole
  <2> QED BY <1>1, <1>7, <2>1, JudgeKeeps
<1>8. ASSUME NEW u \in User, NEW r \in Role, Judge(s, "UNASSIGN", u, r, RoleManage) PROVE RolesInv'
  <2>1. "UNASSIGN" \in OfRole \cup OfUser
    BY DEF OfRole
  <2> QED BY <1>1, <1>8, <2>1, JudgeKeeps
<1>9. ASSUME NEW u \in User, NEW op \in OfUser, Judge(s, op, u, Admin, RoleManage) PROVE RolesInv'
  BY <1>1, <1>9, JudgeKeeps
<1> QED BY <1>2, <1>3, <1>4, <1>5, <1>6, <1>7, <1>8, <1>9

LEMMA WorksKeeps ==
  ASSUME RolesInv, NEW s \in Slot, Works(s)
  PROVE  RolesInv'
BY GuardKeeps, GuardedCommitKeeps, PlainCommitKeeps, EndSessionsKeeps, WriteStatusKeeps, InvalidateKeeps DEF Works

LEMMA ReadsKeep ==
  ASSUME RolesInv, NEW u \in Reader, Reads(u)
  PROVE  RolesInv'
BY ReadVersionKeeps, ReadCacheKeeps, ReadRolesKeeps, ReadGrantsKeeps, WriteCacheKeeps, WriteVersionKeeps DEF Reads

LEMMA RolesStutter ==
  ASSUME RolesInv, UNCHANGED rolesVars
  PROVE  RolesInv'
<1>0. /\ UNCHANGED <<tables, version, change, past>> /\ begun' = begun /\ cache' = cache /\ reading' = reading
  BY DEF rolesVars, redis
<1>1. /\ NoDeadRows' /\ Counted' /\ GuardHolds' /\ Quiet' = Quiet /\ Current' = Current /\ Current \in Version
      /\ \A v \in Reader : buildManifestFromDB(v)' = buildManifestFromDB(v)
      /\ holds' = holds
  BY <1>0, ReadersKeep
<1>2. WellTyped'
  BY <1>0 DEF RolesInv, WellTyped, RolesTypeOK, tables
<1>3. Current \in Nat
  BY <1>1, BoundAssumption DEF Version
<1>4. NothingAhead'
  BY <1>0, <1>1, <1>3, AheadKept DEF RolesInv, WellTyped
<1>5. AllUpToDate'
  BY <1>0, <1>1, UpToDateKept DEF RolesInv
<1> QED BY <1>1, <1>2, <1>4, <1>5 DEF RolesInv

LEMMA RolesStep == RolesInv /\ [RolesNext]_rolesVars => RolesInv'
<1> SUFFICES ASSUME RolesInv, [RolesNext]_rolesVars PROVE RolesInv'
  OBVIOUS
<1>1. CASE UNCHANGED rolesVars
  BY <1>1, RolesStutter
<1>2. CASE RolesNext
  BY <1>2, BeginsKeeps, CreateRoleKeeps, WorksKeeps, FailKeeps, LoginKeeps, ReadsKeep, ExpireKeeps DEF RolesNext
<1> QED BY <1>1, <1>2

LEMMA RolesInvariance == RolesSpec => []RolesInv
BY RolesInitHolds, RolesStep, PTL DEF RolesSpec

\* Every value stays in its range; the version of the permission cache never passes the number of
\* changes that were made, so that the bound on the run is the only one it has.
THEOREM RolesTypeCorrect == RolesSpec => []RolesTypeOK
<1>1. RolesInv => RolesTypeOK
  BY DEF RolesInv, WellTyped
<1> QED BY <1>1, RolesInvariance, PTL

\* Unless the version was set back, or its key was missing at an increment: when no change
\* of roles waits for its increment and none was lost since the last one,
\* getPermissionManifest finds in the cache what it would read from the database, whatever
\* overlapped and whatever increments were lost before.
THEOREM ManifestsAreTrue == RolesSpec => []CacheIsTrue
<1>1. RolesInv => CacheIsTrue
  <2> SUFFICES ASSUME RolesInv, Quiet, version # 0, NEW u \in Reader
               PROVE  cache[u][version] \in {Nothing, buildManifestFromDB(u)}
    BY DEF CacheIsTrue, Quiet
  <2>1. UpToDate(u) /\ Current = version
    BY DEF RolesInv, AllUpToDate, Current
  <2> QED BY <2>1 DEF UpToDate
<1> QED BY <1>1, RolesInvariance, PTL

\* What begins, and what reads, takes no manager away.
LEMMA AddingKeepsManagers ==
  ASSUME status' = status, live \subseteq live', \A q \in live : grants[q] \subseteq grants'[q],
         \A u \in User, q \in live : Holds(u, q) => Holds(u, q)'
  PROVE  Managers \subseteq Managers'
<1>1. Remaining("GRANT", {}, {}) \subseteq Remaining("GRANT", {}, {})'
  BY MoreRemain
<1> QED BY <1>1, ManagersRemain

LEMMA BeginsKeepsManagers ==
  ASSUME RolesInv, NEW s \in Slot, Begins(s)
  PROVE  Managers \subseteq Managers'
<1>0. /\ live \subseteq Role /\ grants \in [Role -> SUBSET Permission] /\ holds \in [User -> [Role -> Scope]]
  BY DEF RolesInv, WellTyped, RolesTypeOK
<1>1. status' = status
  BY DEF Begins, addPermission, assignRole, cloneRole, Judge, tables
<1>2. \/ \E r \in Role, p \in Permission : addPermission(s, r, p)
      \/ \E u \in User, r \in Role, scope \in 1..MaxScope : assignRole(s, u, r, scope)
      \/ \E r \in Role : cloneRole(s, r)
      \/ UNCHANGED tables
  BY DEF Begins, Judge
<1>3. CASE \E r \in Role, p \in Permission : addPermission(s, r, p)
  <2>1. PICK r \in Role, p \in Permission : addPermission(s, r, p)
    BY <1>3
  <2>2. grants' = [grants EXCEPT ![r] = @ \cup {p}] /\ live' = live /\ holds' = holds
    BY <2>1 DEF addPermission
  <2> QED BY <1>0, <1>1, <2>2, AddingKeepsManagers DEF Holds
<1>4. CASE \E u \in User, r \in Role, scope \in 1..MaxScope : assignRole(s, u, r, scope)
  <2>1. PICK u \in User, r \in Role, scope \in 1..MaxScope : assignRole(s, u, r, scope)
    BY <1>4
  <2>2. holds' = [holds EXCEPT ![u][r] = scope] /\ live' = live /\ grants' = grants /\ scope > 0
    BY <2>1, BoundAssumption DEF assignRole
  <2>3. \A v \in User, q \in live : Holds(v, q) => Holds(v, q)'
    BY <1>0, <2>2 DEF Holds
  <2> QED BY <1>0, <1>1, <2>2, <2>3, AddingKeepsManagers
<1>5. CASE \E r \in Role : cloneRole(s, r)
  <2>1. PICK r \in Role : cloneRole(s, r)
    BY <1>5
  <2>2. /\ CopyOf[r] \notin live /\ live' = live \cup {CopyOf[r]} /\ holds' = holds
        /\ grants' = [grants EXCEPT ![CopyOf[r]] = grants[r]]
    BY <2>1 DEF cloneRole
  <2>3. \A q \in live : grants'[q] = grants[q]
    BY <1>0, <2>2
  <2> QED BY <1>1, <2>2, <2>3, AddingKeepsManagers DEF Holds
<1>6. CASE UNCHANGED tables
  BY <1>6, AddingKeepsManagers DEF tables, Holds
<1> QED BY <1>2, <1>3, <1>4, <1>5, <1>6

\* AdminLockoutService: whatever overlaps, no step leaves an organisation that has an active
\* user with role:manage without one, unless a request that was judged to need no guard was overtaken.
THEOREM AManagerRemains == RolesSpec => AdminRemains
<1>1. RolesInv /\ [RolesNext]_rolesVars => (Managers # {} /\ ~past'.misjudged => Managers' # {})
  <2> SUFFICES ASSUME RolesInv, [RolesNext]_rolesVars, Managers # {}, ~past'.misjudged PROVE Managers' # {}
    OBVIOUS
  <2>1. CASE UNCHANGED <<status, live, grants, holds>>
    BY <2>1 DEF Managers, HasManage, Holds
  <2>2. ASSUME NEW s \in Slot, Begins(s) PROVE Managers' # {}
    BY <2>2, BeginsKeepsManagers
  <2>3. ASSUME NEW r \in Role, createRole(r) PROVE Managers' # {}
    <3>1. status' = status /\ live \subseteq live' /\ grants' = grants /\ holds' = holds
      BY <2>3 DEF createRole
    <3> QED BY <3>1, AddingKeepsManagers DEF Holds
  <2>4. ASSUME NEW s \in Slot, GuardedCommit(s) \/ PlainCommit(s) \/ WriteStatus(s) PROVE Managers' # {}
    BY <2>4, GuardedCommitKeeps, PlainCommitKeeps, WriteStatusKeeps
  <2>5. \/ UNCHANGED <<status, live, grants, holds>>
        \/ \E s \in Slot : Begins(s)
        \/ \E r \in Role : createRole(r)
        \/ \E s \in Slot : GuardedCommit(s) \/ PlainCommit(s) \/ WriteStatus(s)
    <3>1. CASE UNCHANGED rolesVars
      BY <3>1 DEF rolesVars, tables
    <3>2. ASSUME NEW u \in Reader, Reads(u) PROVE UNCHANGED tables
      BY <3>2 DEF Reads, ReadVersion, ReadCache, ReadRoles, ReadGrants, WriteCache, WriteVersion
    <3>3. ASSUME NEW s \in Slot, Guard(s) \/ EndSessions(s) \/ Invalidate(s) \/ Fail(s)
          PROVE  UNCHANGED <<status, live, grants, holds>>
      BY <3>3 DEF Guard, EndSessions, Invalidate, Fail, tables
    <3>4. ASSUME NEW u \in User, NEW v \in Version, Expire(u, v) PROVE UNCHANGED tables
      BY <3>4 DEF Expire
    <3>5. ASSUME NEW u \in User, Login(u) PROVE UNCHANGED <<status, live, grants, holds>>
      BY <3>5 DEF Login
    <3> QED BY <3>1, <3>2, <3>3, <3>4, <3>5 DEF RolesNext, Works, tables
  <2> QED BY <2>1, <2>2, <2>3, <2>4, <2>5
<1> QED BY <1>1, RolesInvariance, PTL DEF RolesSpec, AdminRemains
=============================================================================
