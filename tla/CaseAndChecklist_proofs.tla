----------------------- MODULE CaseAndChecklist_proofs ----------------------
(***************************************************************************)
(* Proofs about the case's two kinds of row: CaseHandoff, who owns the     *)
(* case and in which status it is, first, for any number of concurrent     *)
(* requests, any reasons and any bounds; and PolicyDocuments, the          *)
(* requirements on its checklist and the links that stand behind them,     *)
(* second, for any catalog.                                                *)
(***************************************************************************)
EXTENDS CaseHandoff, PolicyDocuments, FiniteSetTheorems, WellFoundedInduction, TLAPS

IInv == TypeOK /\ ProcessCoherence /\ ClosedIsSettled

LEMMA InitIInv == Init => IInv
BY NoReasonAssumption DEF Init, IInv, TypeOK, ProcessCoherence, ClosedIsSettled, Row,
   Request, Idle, Absent, DocCaseStatus, HandoffState, ProcessHandoffState

\* The first half of a request touches the transaction's record only.
LEMMA BeginKeeps ==
    ASSUME IInv, NEW t \in Txn, NEW op \in Operations, NEW reason \in Reasons \cup {NoReason},
           NEW count \in Nat, NEW ready \in BOOLEAN, Begin(t, op, reason, count, ready)
    PROVE  IInv'
BY DEF Begin, IInv, TypeOK, ProcessCoherence, ClosedIsSettled, Request

LEMMA BeginSomeKeeps ==
    ASSUME IInv, NEW t \in Txn, BeginSome(t) PROVE IInv'
<1>1. row.returnCount \in Nat /\ row.processReturnCount \in Nat
  BY DEF IInv, TypeOK, Row
<1>2. CASE BeginCreateCase(t)
  BY <1>2, BeginKeeps DEF BeginCreateCase, Operations
<1>3. CASE BeginConfirm(t)
  BY <1>3, BeginKeeps DEF BeginConfirm, Operations
<1>4. CASE BeginAccept(t)
  BY <1>4, BeginKeeps DEF BeginAccept, Operations
<1>5. CASE BeginReject(t)
  BY <1>1, <1>5, BeginKeeps DEF BeginReject, Operations
<1>6. CASE BeginReturn(t)
  BY <1>1, <1>6, BeginKeeps DEF BeginReturn, Operations
<1>7. CASE BeginResend(t)
  BY <1>7, BeginKeeps DEF BeginResend, Operations
<1>8. CASE BeginClearReview(t)
  BY <1>8, BeginKeeps DEF BeginClearReview, Operations
<1>9. CASE BeginTransfer(t)
  BY <1>9, BeginKeeps DEF BeginTransfer, Operations
<1>10. CASE BeginProcessAccept(t)
  BY <1>10, BeginKeeps DEF BeginProcessAccept, Operations
<1>11. CASE BeginProcessReturn(t)
  BY <1>1, <1>11, BeginKeeps DEF BeginProcessReturn, Operations
<1>12. CASE BeginRecalc(t)
  BY <1>12, BeginKeeps DEF BeginRecalc, Operations
<1> QED
  BY <1>2, <1>3, <1>4, <1>5, <1>6, <1>7, <1>8, <1>9, <1>10, <1>11, <1>12 DEF BeginSome

\* The row that a reject or a return writes.
LEMMA GivenBackRow ==
    ASSUME IInv, NEW t \in Txn, NEW status \in DocCaseStatus
    PROVE  /\ GivenBack(t, status) \in Row
           /\ GivenBack(t, status).status = status
<1> DEFINE count == tx[t].count + 1
           review == requiresManagerReviewAfterReturn(count, tx[t].reason)
           state == IF review THEN "MANAGER_REVIEW_REQUIRED" ELSE "RETURNED"
<1>1. row \in Row /\ count \in Nat /\ tx[t].reason \in Reasons \cup {NoReason}
  BY DEF IInv, TypeOK, Request
<1>2. review \in BOOLEAN
  BY DEF requiresManagerReviewAfterReturn
<1>3. state \in HandoffState
  BY DEF HandoffState
<1>4. GivenBack(t, status) =
        [row EXCEPT !.status = status, !.handoffState = state, !.returnCount = count,
                    !.returnReasonCode = tx[t].reason, !.managerReviewRequired = review]
  BY DEF GivenBack
<1> HIDE DEF count, review, state
<1> QED BY <1>1, <1>2, <1>3, <1>4 DEF Row

\* The second half: the only way a request changes the row.
LEMMA CommitSomeKeeps ==
    ASSUME IInv, NEW t \in Txn, CommitSome(t) PROVE IInv'
<1> USE DEF IInv, TypeOK, ProcessCoherence, ClosedIsSettled, Row, Finish, DocCaseStatus,
            HandoffState, ProcessHandoffState
<1>1. Idle \in Request /\ tx[t] \in Request
  BY NoReasonAssumption DEF Request, Idle
<1>2. CASE CommitCreateCase(t)
  BY <1>1, <1>2 DEF CommitCreateCase, Request
<1>3. CASE CommitConfirmNew(t)
  BY <1>1, <1>3 DEF CommitConfirmNew, HandedOff
<1>4. CASE CommitConfirm(t)
  BY <1>1, <1>4 DEF CommitConfirm, HandedOff
<1>5. CASE CommitAccept(t)
  BY <1>1, <1>5 DEF CommitAccept
<1>6. CASE CommitReject(t)
  <2>1. GivenBack(t, "INCOMING") \in Row /\ GivenBack(t, "INCOMING").status = "INCOMING"
    BY GivenBackRow
  <2>2. row' = GivenBack(t, "INCOMING")
    BY <1>6 DEF CommitReject
  <2> HIDE DEF GivenBack
  <2> QED BY <1>1, <1>6, <2>1, <2>2 DEF CommitReject
<1>7. CASE CommitReturn(t)
  <2>1. GivenBack(t, "RETURNED") \in Row /\ GivenBack(t, "RETURNED").status = "RETURNED"
    BY GivenBackRow
  <2>2. row' = GivenBack(t, "RETURNED")
    BY <1>7 DEF CommitReturn
  <2> HIDE DEF GivenBack
  <2> QED BY <1>1, <1>7, <2>1, <2>2 DEF CommitReturn
<1>8. CASE CommitResend(t)
  BY <1>1, <1>8 DEF CommitResend
<1>9. CASE CommitClearReview(t)
  BY <1>1, <1>9 DEF CommitClearReview
<1>10. CASE CommitTransfer(t)
  BY <1>1, <1>10 DEF CommitTransfer
<1>11. CASE CommitProcessAccept(t)
  BY <1>1, <1>11 DEF CommitProcessAccept
<1>12. CASE CommitProcessReturn(t)
  <2> DEFINE count == row.processReturnCount + 1
  <2>1. count \in Nat
    OBVIOUS
  <2>2. row' = [row EXCEPT !.status = "RETURNED_TO_DOCUMENTATION",
                           !.processHandoffState = "RETURNED",
                           !.processReturnCount = count]
    BY <1>12 DEF CommitProcessReturn
  <2> HIDE DEF count
  <2>3. row' \in Row /\ row'.status = "RETURNED_TO_DOCUMENTATION"
          /\ row'.processHandoffState = "RETURNED"
    BY <2>1, <2>2
  <2> QED BY <1>1, <1>12, <2>3 DEF CommitProcessReturn
<1>13. CASE CommitRecalc(t)
  <2>1. tx[t].ready \in BOOLEAN
    BY <1>1 DEF Request
  <2>2. \E s \in RecalcMutable :
          row' = [row EXCEPT !.isReady = tx[t].ready, !.status = s]
    BY <1>13 DEF CommitRecalc, RecalcMutable
  <2> QED
    BY <1>1, <1>13, <2>1, <2>2 DEF CommitRecalc, RecalcMutable
<1>14. CASE RecalcStatusMissed(t)
  BY <1>1, <1>14 DEF RecalcStatusMissed, Request, Operations
<1>15. CASE CommitRecalcProgress(t)
  BY <1>1, <1>15 DEF CommitRecalcProgress, Request
<1> QED
  BY <1>2, <1>3, <1>4, <1>5, <1>6, <1>7, <1>8, <1>9, <1>10, <1>11, <1>12, <1>13, <1>14, <1>15
  DEF CommitSome

LEMMA SingleStatementKeeps ==
    ASSUME IInv, SingleStatement PROVE IInv'
<1> USE DEF IInv, TypeOK, ProcessCoherence, ClosedIsSettled, Row, DocCaseStatus,
            HandoffState, ProcessHandoffState
<1>1. CASE GenerateCaseId   BY <1>1 DEF GenerateCaseId
<1>2. CASE ManagerOverride  BY <1>2 DEF ManagerOverride
<1>3. CASE CloseWithoutDocs BY <1>3 DEF CloseWithoutDocs
<1>4. CASE ReopenCase       BY <1>4 DEF ReopenCase
<1>5. CASE EditLeadPhone    BY <1>5 DEF EditLeadPhone
<1>6. CASE ApproveContactChange BY <1>6 DEF ApproveContactChange
<1> QED BY <1>1, <1>2, <1>3, <1>4, <1>5, <1>6 DEF SingleStatement

LEMMA StepKeeps == IInv /\ [Next]_vars => IInv'
<1> SUFFICES ASSUME IInv, [Next]_vars PROVE IInv'
  OBVIOUS
<1>1. CASE UNCHANGED vars
  BY <1>1 DEF vars, IInv, TypeOK, ProcessCoherence, ClosedIsSettled
<1>2. ASSUME NEW t \in Txn, Abort(t) PROVE IInv'
  BY <1>2, NoReasonAssumption
  DEF Abort, IInv, TypeOK, ProcessCoherence, ClosedIsSettled, Request, Idle
<1> QED
  BY <1>1, <1>2, BeginSomeKeeps, CommitSomeKeeps, SingleStatementKeeps DEF Next

\* Every reachable state of the case row and of its requests has its type.
THEOREM TypeCorrect == Spec => []TypeOK
<1>1. IInv => TypeOK BY DEF IInv
<1> QED BY <1>1, InitIInv, StepKeeps, PTL DEF Spec

\* The status never claims more about Process than the preconditioned updates
\* of the second handoff dimension recorded.
THEOREM Coherence == Spec => []ProcessCoherence
<1>1. IInv => ProcessCoherence BY DEF IInv
<1> QED BY <1>1, InitIInv, StepKeeps, PTL DEF Spec

\* A case that reads CLOSED_NO_DOCS is stamped and waits for no manager.
THEOREM Settled == Spec => []ClosedIsSettled
<1>1. IInv => ClosedIsSettled BY DEF IInv
<1> QED BY <1>1, InitIInv, StepKeeps, PTL DEF Spec

-----------------------------------------------------------------------------
(* The refinement of ProcessOwnership: only a transfer and the two answers  *)
(* of Process move the record, each from the state its WHERE clause names;  *)
(* every other operation leaves the owner as it is or takes the case back.  *)

OwnerStep == [Ownership!Next]_<<Owner, Record, row.processReturnCount>>

LEMMA TransferOffers ==
    ASSUME IInv, NEW t \in Txn, CommitTransfer(t) PROVE Ownership!Offer
BY DEF CommitTransfer, CanTransfer, DocumentationOwned, Ownership!Offer, Owner, Record, IInv,
   TypeOK, Row

LEMMA AcceptTakes ==
    ASSUME IInv, NEW t \in Txn, CommitProcessAccept(t) PROVE Ownership!TakeOver
BY DEF CommitProcessAccept, PendingProcess, Ownership!TakeOver, Owner, Record, IInv, TypeOK, Row

LEMMA ReturnGivesBack ==
    ASSUME IInv, NEW t \in Txn, CommitProcessReturn(t) PROVE Ownership!GiveBack
BY DEF CommitProcessReturn, PendingProcess, Ownership!GiveBack, Owner, Record, IInv, TypeOK, Row

\* What no other operation does: touch the second dimension, or put the case into
\* one of the two statuses of Process.
KeepsProcessSide ==
    /\ UNCHANGED <<row.processHandoffState, row.processReturnCount>>
    /\ \/ UNCHANGED row.status
       \/ row'.status \notin {"PENDING_PROCESS_REVIEW", "TRANSFERRED_TO_PROCESS"}

LEMMA OthersTakeBack == KeepsProcessSide => OwnerStep
<1> SUFFICES ASSUME KeepsProcessSide PROVE OwnerStep
  OBVIOUS
<1>1. Record' = Record
  BY DEF KeepsProcessSide, Record
<1>2. Owner' = Owner \/ Owner' = "documentation"
  BY DEF KeepsProcessSide, Owner
<1> QED
  BY <1>1, <1>2 DEF KeepsProcessSide, OwnerStep, Ownership!Next, Ownership!TakeBack

LEMMA CommitRefines ==
    ASSUME IInv, NEW t \in Txn, CommitSome(t) PROVE OwnerStep
<1>1. CASE CommitTransfer(t)
  BY <1>1, TransferOffers DEF OwnerStep, Ownership!Next
<1>2. CASE CommitProcessAccept(t)
  BY <1>2, AcceptTakes DEF OwnerStep, Ownership!Next
<1>3. CASE CommitProcessReturn(t)
  BY <1>3, ReturnGivesBack DEF OwnerStep, Ownership!Next
<1>4. CASE ~(CommitTransfer(t) \/ CommitProcessAccept(t) \/ CommitProcessReturn(t))
  <2>1. KeepsProcessSide
    BY <1>4 DEF CommitSome, IInv, TypeOK, Row, KeepsProcessSide, CommitCreateCase,
       CommitConfirmNew, CommitConfirm, HandedOff, CommitAccept, CommitReject,
       CommitReturn, GivenBack, CommitResend, CommitClearReview, CommitRecalc,
       RecalcStatusMissed, CommitRecalcProgress
  <2> QED BY <2>1, OthersTakeBack
<1> QED BY <1>1, <1>2, <1>3, <1>4

LEMMA StepRefines == IInv /\ [Next]_vars => OwnerStep
<1> SUFFICES ASSUME IInv, [Next]_vars PROVE OwnerStep
  OBVIOUS
<1>1. ASSUME KeepsProcessSide PROVE OwnerStep
  BY <1>1, OthersTakeBack
<1>2. CASE UNCHANGED vars
  BY <1>1, <1>2 DEF vars, KeepsProcessSide
<1>3. ASSUME NEW t \in Txn, BeginSome(t) \/ Abort(t) PROVE KeepsProcessSide
  BY <1>3 DEF KeepsProcessSide, BeginSome, Begin, Abort, BeginCreateCase, BeginConfirm,
     BeginAccept, BeginReject, BeginReturn, BeginResend, BeginClearReview, BeginTransfer,
     BeginProcessAccept, BeginProcessReturn, BeginRecalc
<1>4. CASE SingleStatement
  <2>1. KeepsProcessSide
    BY <1>4 DEF SingleStatement, GenerateCaseId, ManagerOverride, CloseWithoutDocs,
       ReopenCase, EditLeadPhone, ApproveContactChange, KeepsProcessSide, IInv, TypeOK, Row
  <2> QED BY <1>1, <2>1
<1> QED BY <1>1, <1>2, <1>3, <1>4, CommitRefines DEF Next

\* Under every interleaving of every operation, a case moves between Documentation
\* and Process as the ownership protocol says, take-backs included.
THEOREM Refinement == Spec => ImplementsOwnership
<1>1. Init => Ownership!Init
  BY DEF Init, Ownership!Init, Owner, Record, Absent
<1> QED
  BY <1>1, InitIInv, StepKeeps, StepRefines, PTL
  DEF Spec, ImplementsOwnership, Ownership!Spec, OwnerStep
-----------------------------------------------------------------------------
(* PolicyDocuments.  That a key has one row is inductive only together with *)
(* what makes assignPolicyToCase find it: the row it finds carries the name *)
(* of the key, and the rows it found when it took the case row's lock are   *)
(* the rows that are there when it writes, so nobody made one meanwhile.    *)

\* A key has one row.
UniqueKeys == \A d, e \in Doc : Used(d) /\ Used(e) /\ doc[d].keyed /\ doc[e].keyed /\ doc[d].name = doc[e].name => d = e

\* Whoever holds the case row finds the checklist as it found it.
Holds(t) == At(t, "save") \/ At(t, "retire") \/ At(t, "propagate")
HolderKnows == \A t \in Caller : Holds(t) => lock = t /\ doing[t].found = Snapshot

\* What a save has read of the presets, but for those that were edited since.
Saves(t) == At(t, "save") \/ At(t, "retire")
IsRequired(w, p) ==
    /\ p \in w.required <=> preset[p].state = "active"
    /\ p \in w.mandatory <=> preset[p].state = "active" /\ preset[p].isMandatory
ReadIsCurrent ==
    \A t \in Caller :
        /\ Saves(t) => \A p \in doing[t].required \cup doing[t].mandatory : HasRead(t, componentOf[p])
        /\ At(t, "save") => doing[t].toRead \subseteq doing[t].sel
        /\ \A p \in Preset \ edited : HasRead(t, componentOf[p]) => IsRequired(doing[t], p)

\* Of the links that its reconciliation read, only those of deleted presets are gone.
WasIsThere == \A t \in Caller : At(t, "retire") => \A p \in Preset : link[p] \in {doing[t].was[p], NoLink}

\* The inductive invariant.
ChecklistInv == ChecklistTypeOK /\ UniqueKeys /\ LinkedIsLive /\ HolderKnows /\ ReadIsCurrent /\ WasIsThere

-----------------------------------------------------------------------------
(* What Find returns.                                                       *)

\* A set of rows has a first one.
LEMMA FirstIsThere ==
  ASSUME NEW S \in SUBSET Doc, S # {}
  PROVE  First(S) \in S
<1>1. S \subseteq Nat
  BY DocAssumption DEF Doc
<1>2. PICK d \in S : \A e \in S : ~ (<<e, d>> \in OpToRel(<, Nat))
  BY <1>1, NatLessThanWellFounded, WFMin
<1>3. \A e \in S : ~(e < d) /\ e \in Nat /\ d \in Nat
  BY <1>1, <1>2 DEF OpToRel
<1>4. \A e \in S : d <= e
  BY <1>3
<1> QED BY <1>4 DEF First

DocsTyped == doc \in [Doc -> DocCaseDocument \cup {Unused}]

\* Nothing was found for a key without a row; otherwise the row of that name that carries the
\* key, or, when no row does, one that may carry it.
FindIsRight(k, d) ==
    \/ d = NoDoc /\ Keyed(k) = {}
    \/ d \in Doc /\ Used(d) /\ doc[d].name = k /\ Keyed(k) \subseteq {d}

LEMMA UsedIsRow ==
  ASSUME DocsTyped, NEW d \in Doc
  PROVE  /\ Used(d) => doc[d] \in DocCaseDocument
         /\ Live(d) => Used(d)
BY DEF DocsTyped, Used, Live, Unused

LEMMA FindFinds ==
  ASSUME DocsTyped, UniqueKeys, NEW k \in Key
  PROVE  FindIsRight(k, Find(k))
<1>1. \A d, e \in Keyed(k) : d = e
  BY DEF UniqueKeys, Keyed
<1>2. Keyed(k) \in SUBSET Doc /\ {d \in Keyed(k) : Live(d)} \in SUBSET Doc /\ Adoptable(k) \in SUBSET Doc
  BY DEF Keyed, Adoptable
<1>3. CASE \E d \in Keyed(k) : Live(d)
  <2>1. Find(k) = First({d \in Keyed(k) : Live(d)})
    BY <1>3 DEF Find
  <2>2. First({d \in Keyed(k) : Live(d)}) \in Keyed(k)
    BY <1>2, <1>3, FirstIsThere
  <2> QED BY <1>1, <2>1, <2>2 DEF FindIsRight, Keyed
<1>4. CASE Keyed(k) # {} /\ \A d \in Keyed(k) : ~Live(d)
  <2>1. Find(k) = First(Keyed(k))
    BY <1>4 DEF Find
  <2>2. First(Keyed(k)) \in Keyed(k)
    BY <1>2, <1>4, FirstIsThere
  <2> QED BY <1>1, <2>1, <2>2 DEF FindIsRight, Keyed
<1>5. CASE Keyed(k) = {} /\ Adoptable(k) # {}
  <2>1. Find(k) = First(Adoptable(k))
    BY <1>5 DEF Find
  <2>2. First(Adoptable(k)) \in Adoptable(k)
    BY <1>2, <1>5, FirstIsThere
  <2> QED BY <1>5, <2>1, <2>2, UsedIsRow DEF FindIsRight, Adoptable
<1>6. CASE Keyed(k) = {} /\ Adoptable(k) = {}
  BY <1>6 DEF Find, FindIsRight
<1> QED BY <1>3, <1>4, <1>5, <1>6

LEMMA SnapshotIsRight ==
  ASSUME DocsTyped, UniqueKeys
  PROVE  Snapshot \in Found /\ \A k \in Key : FindIsRight(k, Snapshot[k])
BY FindFinds DEF Snapshot, Found, FindIsRight

-----------------------------------------------------------------------------
(* What a save and a propagation write.                                     *)

\* Each key ends up on a row of its own: the one of that name, or an unused one.
LEMMA TargetsAreRight ==
  ASSUME DocsTyped, UniqueKeys, NEW ps \in SUBSET Preset, NEW target \in Targets(ps, Snapshot)
  PROVE  /\ target \in [{keyOf[p] : p \in ps} -> Doc]
         /\ {keyOf[p] : p \in ps} \subseteq Key
         /\ \A k \in {keyOf[p] : p \in ps} :
               /\ Used(target[k]) => doc[target[k]].name = k
               /\ Keyed(k) \subseteq {target[k]}
         /\ \A k, l \in {keyOf[p] : p \in ps} : target[k] = target[l] => k = l
<1> DEFINE keys == {keyOf[p] : p \in ps}
           new == {k \in keys : Snapshot[k] = NoDoc}
<1>1. keys \subseteq Key
  BY CatalogAssumption
<1>2. /\ target \in [keys -> Doc]
      /\ \A k \in keys \ new : target[k] = Snapshot[k]
      /\ \A k \in new : doc[target[k]] = Unused
      /\ \A k, l \in new : target[k] = target[l] => k = l
  BY DEF Targets
<1>3. \A k \in keys : FindIsRight(k, Snapshot[k])
  BY <1>1, SnapshotIsRight
<1> HIDE DEF keys
<1>4. ASSUME NEW k \in keys
      PROVE  /\ Used(target[k]) => doc[target[k]].name = k
             /\ Keyed(k) \subseteq {target[k]}
             /\ k \notin new => Used(target[k])
  <2>1. CASE k \in new
    BY <1>2, <1>3, <2>1, DocAssumption DEF Used, FindIsRight, NoDoc, Doc
  <2>2. CASE k \notin new
    BY <1>2, <1>3, <2>2 DEF FindIsRight
  <2> QED BY <2>1, <2>2
<1>5. ASSUME NEW k \in keys, NEW l \in keys, target[k] = target[l] PROVE k = l
  <2>1. CASE k \in new /\ l \in new
    BY <1>2, <1>5, <2>1
  <2>2. CASE k \in new /\ l \notin new
    BY <1>2, <1>4, <1>5, <2>2 DEF Used
  <2>3. CASE k \notin new /\ l \in new
    BY <1>2, <1>4, <1>5, <2>3 DEF Used
  <2>4. CASE k \notin new /\ l \notin new
    BY <1>4, <1>5, <2>4
  <2> QED BY <2>1, <2>2, <2>3, <2>4
<1> QED BY <1>1, <1>2, <1>4, <1>5 DEF keys

LEMMA MaterializedIsRight ==
  ASSUME DocsTyped, NEW d \in Doc, NEW k \in Key, Used(d) => doc[d].name = k
  PROVE  /\ Materialized(d, k) \in DocCaseDocument
         /\ Materialized(d, k).state = "live" /\ Materialized(d, k).keyed /\ Materialized(d, k).name = k
<1>1. CASE Used(d)
  <2>1. doc[d] \in DocCaseDocument
    BY <1>1, UsedIsRow
  <2> QED BY <1>1, <2>1 DEF Materialized, DocCaseDocument
<1>2. CASE ~Used(d)
  BY <1>2 DEF Materialized, DocCaseDocument
<1> QED BY <1>1, <1>2

LEMMA ReconciledIsRight ==
  ASSUME NEW r \in DocCaseDocument, NEW links, NEW traced, NEW d
  PROVE  /\ Reconciled(r, links, traced, d) \in DocCaseDocument
         /\ Reconciled(r, links, traced, d).name = r.name /\ Reconciled(r, links, traced, d).keyed = r.keyed
         /\ Sources(links, d) # {} =>
               /\ Reconciled(r, links, traced, d).state = "live"
               /\ Reconciled(r, links, traced, d).isMandatory <=> \E p \in Sources(links, d) : links[p].isMandatory
<1> DEFINE asked == \E p \in Sources(links, d) : links[p].isMandatory
           st == IF r.manual \/ ~r.keyed \/ d \in traced THEN r.state ELSE "retired"
<1>1. asked \in BOOLEAN
  OBVIOUS
<1>2. CASE Sources(links, d) # {}
  <2>1. Reconciled(r, links, traced, d) = [r EXCEPT !.state = "live", !.isMandatory = asked]
    BY <1>2 DEF Reconciled
  <2> HIDE DEF asked
  <2>2. /\ Reconciled(r, links, traced, d) \in DocCaseDocument
        /\ Reconciled(r, links, traced, d).name = r.name /\ Reconciled(r, links, traced, d).keyed = r.keyed
        /\ Reconciled(r, links, traced, d).state = "live" /\ Reconciled(r, links, traced, d).isMandatory = asked
    BY <1>1, <2>1 DEF DocCaseDocument
  <2> QED BY <2>2 DEF asked
<1>3. CASE Sources(links, d) = {}
  <2>1. Reconciled(r, links, traced, d) = [r EXCEPT !.isMandatory = FALSE, !.state = st]
    BY <1>3 DEF Reconciled
  <2>2. st \in {"live", "retired"}
    BY DEF DocCaseDocument
  <2> HIDE DEF st
  <2> QED BY <1>3, <2>1, <2>2 DEF DocCaseDocument
<1> QED BY <1>2, <1>3

\* The rows the presets ended up on are live under their keys, and mandatory as their sources
\* say; every other row keeps its name and its key, and is live if it was and has a source.
LEMMA ChecklistIsRight ==
  ASSUME DocsTyped, UniqueKeys, NEW ps \in SUBSET Preset, NEW target \in Targets(ps, Snapshot),
         NEW links, NEW traced, NEW touched, \A p \in ps : target[keyOf[p]] \in touched,
         \A d \in touched : Used(d) \/ \E p \in ps : target[keyOf[p]] = d,
         \A p \in ps : p \in Sources(links, target[keyOf[p]]),
         doc' = Checklist(links, traced, target, touched)
  PROVE  /\ DocsTyped' /\ UniqueKeys'
         /\ \A d \in Doc : Used(d) => Used(d)'
         /\ \A p \in ps : LET d == target[keyOf[p]] IN
               /\ Live(d)' /\ doc'[d].keyed /\ doc'[d].name = keyOf[p]
               /\ doc'[d].isMandatory <=> \E q \in Sources(links, d) : links[q].isMandatory
         /\ \A d \in Doc : Live(d) /\ doc[d].keyed /\ Sources(links, d) # {} =>
               Live(d)' /\ doc'[d].keyed /\ doc'[d].name = doc[d].name
<1> DEFINE keys == {keyOf[p] : p \in ps}
           reconciled(r, d) == IF d \in touched THEN Reconciled(r, links, traced, d) ELSE r
<1>1. /\ target \in [keys -> Doc] /\ keys \subseteq Key
      /\ \A k \in keys : (Used(target[k]) => doc[target[k]].name = k) /\ Keyed(k) \subseteq {target[k]}
      /\ \A k, l \in keys : target[k] = target[l] => k = l
  BY TargetsAreRight
<1>2. ASSUME NEW p \in ps
      PROVE  keyOf[p] \in keys /\ target[keyOf[p]] \in Doc
  BY <1>1
<1>3. \A k \in keys : target[k] \in touched /\ Sources(links, target[k]) # {}
  OBVIOUS
<1> HIDE DEF keys
<1>4. ASSUME NEW k \in keys
      PROVE  /\ doc'[target[k]] \in DocCaseDocument
             /\ doc'[target[k]].state = "live" /\ doc'[target[k]].keyed /\ doc'[target[k]].name = k
             /\ doc'[target[k]].isMandatory <=> \E q \in Sources(links, target[k]) : links[q].isMandatory
  <2> DEFINE d == target[k]
             r == Materialized(d, k)
  <2>1. d \in Doc /\ k \in Key /\ (Used(d) => doc[d].name = k)
    BY <1>1
  <2>2. {l \in DOMAIN target : target[l] = d} = {k}
    BY <1>1
  <2>3. doc'[d] = Reconciled(r, links, traced, d)
    <3>1. doc'[d] = LET of == {l \in DOMAIN target : target[l] = d}
                        was == IF of = {} THEN doc[d] ELSE Materialized(d, CHOOSE l \in of : TRUE)
                    IN IF d \in touched THEN Reconciled(was, links, traced, d) ELSE was
      BY <2>1 DEF Checklist
    <3>2. (CHOOSE l \in {k} : TRUE) = k
      OBVIOUS
    <3> QED BY <1>3, <2>2, <3>1, <3>2
  <2>4. r \in DocCaseDocument /\ r.state = "live" /\ r.keyed /\ r.name = k
    BY <2>1, MaterializedIsRight
  <2>5. Sources(links, d) # {}
    BY <1>3
  <2> HIDE DEF d, r
  <2>6. /\ doc'[d] \in DocCaseDocument
        /\ doc'[d].state = "live" /\ doc'[d].keyed /\ doc'[d].name = k
        /\ doc'[d].isMandatory <=> \E q \in Sources(links, d) : links[q].isMandatory
    BY <2>3, <2>4, <2>5, ReconciledIsRight
  <2> QED BY <2>6 DEF d
<1>5. ASSUME NEW d \in Doc, \A k \in keys : target[k] # d
      PROVE  doc'[d] = reconciled(doc[d], d)
  <2>1. {l \in DOMAIN target : target[l] = d} = {}
    BY <1>1, <1>5
  <2> QED BY <2>1 DEF Checklist
<1>6. ASSUME NEW d \in Doc, \A k \in keys : target[k] # d, Used(d)
      PROVE  /\ doc'[d] \in DocCaseDocument /\ doc'[d].name = doc[d].name /\ doc'[d].keyed = doc[d].keyed
             /\ Sources(links, d) # {} /\ Live(d) => doc'[d].state = "live"
  <2>1. doc[d] \in DocCaseDocument
    BY <1>6, UsedIsRow
  <2>2. doc'[d] = reconciled(doc[d], d)
    BY <1>5, <1>6
  <2> QED BY <2>1, <2>2, ReconciledIsRight DEF Live
<1>7. ASSUME NEW d \in Doc, \A k \in keys : target[k] # d, ~Used(d)
      PROVE  doc'[d] = Unused
  <2>1. d \notin touched
    BY <1>2, <1>7
  <2> QED BY <1>5, <1>7, <2>1 DEF Used
<1>8. DocsTyped'
  <2>1. doc' = [d \in Doc |-> doc'[d]]
    BY DEF Checklist
  <2>2. \A d \in Doc : doc'[d] \in DocCaseDocument \cup {Unused}
    BY <1>4, <1>6, <1>7
  <2> QED BY <2>1, <2>2 DEF DocsTyped
<1>9. \A d \in Doc : doc'[d] \in DocCaseDocument => doc'[d] # Unused
  BY DEF DocCaseDocument, Unused
<1>10. \A d \in Doc : Used(d) => Used(d)'
  BY <1>4, <1>6, <1>9 DEF Used
<1>11. UniqueKeys'
  <2> SUFFICES ASSUME NEW d \in Doc, NEW e \in Doc, doc'[d] # Unused, doc'[e] # Unused,
                      doc'[d].keyed, doc'[e].keyed, doc'[d].name = doc'[e].name
               PROVE  d = e
    BY DEF UniqueKeys, Used
  <2>1. ASSUME NEW k \in keys, NEW f \in Doc, \A l \in keys : target[l] # f, doc'[f] # Unused,
               doc'[f].keyed, doc'[f].name = k
        PROVE  FALSE
    <3>1. Used(f)
      BY <1>7, <2>1
    <3>2. f \in Keyed(k)
      BY <1>6, <2>1, <3>1 DEF Keyed
    <3> QED BY <1>1, <2>1, <3>2
  <2>2. CASE \E k, l \in keys : target[k] = d /\ target[l] = e
    BY <1>4, <2>2
  <2>3. CASE (\E k \in keys : target[k] = d) /\ \A l \in keys : target[l] # e
    BY <1>4, <2>1, <2>3
  <2>4. CASE (\E k \in keys : target[k] = e) /\ \A l \in keys : target[l] # d
    BY <1>4, <2>1, <2>4
  <2>5. CASE \A l \in keys : target[l] # d /\ target[l] # e
    <3>1. Used(d) /\ Used(e)
      BY <1>7, <2>5
    <3>2. doc[d].keyed /\ doc[e].keyed /\ doc[d].name = doc[e].name
      BY <1>6, <2>5, <3>1
    <3> QED BY <3>1, <3>2 DEF UniqueKeys
  <2> QED BY <2>2, <2>3, <2>4, <2>5
<1>12. \A p \in ps : LET d == target[keyOf[p]] IN
          /\ Live(d)' /\ doc'[d].keyed /\ doc'[d].name = keyOf[p]
          /\ doc'[d].isMandatory <=> \E q \in Sources(links, d) : links[q].isMandatory
  BY <1>2, <1>4 DEF Live
<1>13. ASSUME NEW d \in Doc, Live(d), doc[d].keyed, Sources(links, d) # {}
       PROVE  Live(d)' /\ doc'[d].keyed /\ doc'[d].name = doc[d].name
  <2>1. Used(d)
    BY <1>13, UsedIsRow
  <2>2. CASE \E k \in keys : target[k] = d
    BY <1>1, <1>4, <2>1, <2>2 DEF Live
  <2>3. CASE \A k \in keys : target[k] # d
    BY <1>6, <1>13, <2>1, <2>3 DEF Live
  <2> QED BY <2>2, <2>3
<1> QED BY <1>8, <1>10, <1>11, <1>12, <1>13

-----------------------------------------------------------------------------
(* The steps.                                                               *)

LEMMA SnapshotStays ==
  ASSUME doc' = doc
  PROVE  Snapshot' = Snapshot /\ (UniqueKeys => UniqueKeys')
BY DEF Snapshot, Find, Keyed, Adoptable, Used, Live, UniqueKeys

LEMMA RowsTyped ==
  ASSUME ChecklistInv
  PROVE  /\ DocsTyped /\ UniqueKeys /\ LinkedIsLive /\ HolderKnows /\ ReadIsCurrent /\ WasIsThere
         /\ doing \in [Caller -> Work \cup {NoWork}]
         /\ link \in Links /\ edited \in SUBSET Preset
         /\ preset \in [Preset -> PresetRow]
BY DEF ChecklistInv, ChecklistTypeOK, DocsTyped

LEMMA LinkIsTyped ==
  ASSUME NEW links \in Links, NEW p \in Preset
  PROVE  /\ links[p].live \in BOOLEAN
         /\ links[p].live => links[p] \in Source /\ links[p].doc \in Doc
         /\ ~links[p].live => links[p] = NoLink
         /\ ~NoLink.live
<1>1. ~NoLink.live
  BY DEF NoLink
<1>2. CASE links[p] \in Source
  BY <1>1, <1>2 DEF Source
<1>3. CASE links[p] = NoLink
  BY <1>1, <1>3 DEF NoLink
<1> QED BY <1>1, <1>2, <1>3 DEF Links

\* A request that is at work knows what it is about.
LEMMA WorkIsTyped ==
  ASSUME ChecklistInv, NEW t \in Caller
  PROVE  /\ Saves(t) => /\ doing[t].sel \in SUBSET Component /\ doing[t].found \in Found
                        /\ doing[t].required \in SUBSET Preset /\ doing[t].mandatory \in SUBSET Preset
         /\ At(t, "save") => doing[t].toRead \in SUBSET Component
         /\ At(t, "retire") => doing[t].was \in Links
         /\ At(t, "read") \/ At(t, "propagate") => doing[t].p \in Preset /\ doing[t].isMandatory \in BOOLEAN
         /\ doing[t].pc \in {"idle", "save", "retire", "read", "propagate"}
<1>1. doing[t] \in Work \cup {NoWork}
  BY RowsTyped
<1> QED BY <1>1 DEF Saves, At, Work, NoWork

LEMMA LinksStay ==
  ASSUME LinkedIsLive, link' = link, doc' = doc
  PROVE  LinkedIsLive'
BY DEF LinkedIsLive, Live

\* What saves have read stays as current as it was: they go on, or begin to read.
LEMMA ReadsStay ==
  ASSUME ReadIsCurrent, preset' = preset, edited' = edited, \A t \in Caller : doing'[t] = doing[t] \/ ~Saves(t)'
  PROVE  ReadIsCurrent'
BY DEF ReadIsCurrent, Saves, At, HasRead, IsRequired

LEMMA WasStays ==
  ASSUME WasIsThere, \A p \in Preset : link'[p] \in {link[p], NoLink},
         \A t \in Caller : doing'[t] = doing[t] \/ doing'[t].pc # "retire"
  PROVE  WasIsThere'
BY DEF WasIsThere, At

\* No save is open any more.
LEMMA NoSaves ==
  ASSUME \A t \in Caller : ~Saves(t)'
  PROVE  ReadIsCurrent' /\ WasIsThere'
BY DEF ReadIsCurrent, WasIsThere, Saves, HasRead, At

\* What writes no row: whoever holds the case row still finds the checklist as it found it.
LEMMA DocStays ==
  ASSUME ChecklistInv, doc' = doc, ChecklistTypeOK', LinkedIsLive', ReadIsCurrent', WasIsThere',
         \A t \in Caller : doing'[t] # doing[t] =>
            (doing'[t].pc \in {"save", "retire", "propagate"} => lock' = t /\ doing'[t].found = Snapshot),
         \A t \in Caller : lock' # lock => doing'[t] # doing[t] \/ ~Holds(t)
  PROVE  ChecklistInv'
<1>1. UniqueKeys' /\ Snapshot' = Snapshot
  BY SnapshotStays DEF ChecklistInv
<1>2. HolderKnows'
  BY <1>1 DEF ChecklistInv, HolderKnows, Holds, At
<1> QED BY <1>1, <1>2 DEF ChecklistInv

\* A save that had read the preset learns nothing of the edit: the preset is marked.
LEMMA CatalogKeeps ==
  ASSUME ChecklistInv, Catalog
  PROVE  ChecklistInv'
<1>0. /\ assignable' = assignable /\ selected' = selected /\ doc' = doc /\ lock' = lock /\ doing' = doing
  BY DEF Catalog, CreateComponentDocument, UpdateComponentDocument, DeleteComponentDocument
<1>1. PICK p \in Preset, st \in {"active", "archived", "deleted"}, m \in BOOLEAN : Edit(p, st, m)
  BY DEF Catalog, CreateComponentDocument, UpdateComponentDocument, DeleteComponentDocument
<1>2. /\ preset' \in [Preset -> PresetRow] /\ edited' \in SUBSET Preset
      /\ \A q \in Preset : q # p => preset'[q] = preset[q]
      /\ edited \subseteq edited'
      /\ (\E t \in Caller : HasRead(t, componentOf[p])) => p \in edited'
  BY <1>1, RowsTyped DEF Edit, PresetRow
<1>3. link' = link \/ \E q \in Preset : link' = [link EXCEPT ![q] = NoLink]
  BY DEF Catalog, CreateComponentDocument, UpdateComponentDocument, DeleteComponentDocument
<1>4. link' \in Links /\ \A q \in Preset : link'[q] = link[q] \/ link'[q] = NoLink
  BY <1>3, RowsTyped DEF Links
<1>5. LinkedIsLive'
  BY <1>0, <1>4, RowsTyped DEF LinkedIsLive, Live, NoLink
<1>6. ChecklistTypeOK'
  BY <1>0, <1>2, <1>4 DEF ChecklistInv, ChecklistTypeOK
<1>7. ReadIsCurrent'
  <2>1. \A t \in Caller : /\ At(t, "save")' <=> At(t, "save")
                          /\ Saves(t)' <=> Saves(t)
                          /\ \A c : HasRead(t, c)' <=> HasRead(t, c)
    BY <1>0 DEF Saves, At, HasRead
  <2>2. ASSUME NEW t \in Caller, NEW q \in Preset \ edited', HasRead(t, componentOf[q])
        PROVE  IsRequired(doing[t], q)'
    <3>1. q # p /\ q \in Preset \ edited
      BY <1>2, <2>2
    <3> QED BY <1>0, <1>2, <2>2, <3>1, RowsTyped DEF ReadIsCurrent, IsRequired
  <2>3. \A t \in Caller : /\ Saves(t) => \A q \in doing[t].required \cup doing[t].mandatory : HasRead(t, componentOf[q])
                          /\ At(t, "save") => doing[t].toRead \subseteq doing[t].sel
    BY RowsTyped DEF ReadIsCurrent
  <2>4. \A t \in Caller : \A q \in Preset \ edited' : HasRead(t, componentOf[q])' => IsRequired(doing[t], q)'
    BY <2>1, <2>2
  <2>5. \A t \in Caller : /\ Saves(t)' => \A q \in doing'[t].required \cup doing'[t].mandatory : HasRead(t, componentOf[q])'
                          /\ At(t, "save")' => doing'[t].toRead \subseteq doing'[t].sel
    BY <1>0, <2>1, <2>3
  <2> QED BY <1>0, <2>4, <2>5 DEF ReadIsCurrent
<1>8. WasIsThere'
  BY <1>0, <1>4, RowsTyped, WasStays
<1> QED BY <1>0, <1>5, <1>6, <1>7, <1>8, DocStays

\* One request goes on; nothing but what it knows and the lock changes.
LEMMA OneGoesOn ==
  ASSUME ChecklistInv, NEW t \in Caller, NEW w \in Work \cup {NoWork}, Do(t, w), lock' \in Caller \cup {NoCaller},
         UNCHANGED <<assignable, preset, selected, link, doc, edited>>
  PROVE  /\ \A s \in Caller : doing'[s] = IF s = t THEN w ELSE doing[s]
         /\ ChecklistTypeOK' /\ LinkedIsLive'
<1>1. /\ doing' \in [Caller -> Work \cup {NoWork}]
      /\ \A s \in Caller : doing'[s] = IF s = t THEN w ELSE doing[s]
  BY RowsTyped DEF Do
<1>2. ChecklistTypeOK'
  BY <1>1 DEF ChecklistInv, ChecklistTypeOK
<1> QED BY <1>1, <1>2, RowsTyped, LinksStay

\* When the case row is free nobody works on the checklist.
LEMMA FreeIsFree ==
  ASSUME ChecklistInv, lock = NoCaller
  PROVE  \A t \in Caller : ~Holds(t) /\ ~Saves(t)
BY CallerAssumption DEF ChecklistInv, HolderKnows, Holds, Saves

LEMMA BeginAssignKeeps ==
  ASSUME ChecklistInv, NEW t \in Caller, NEW sel \in SUBSET Component, BeginAssign(t, sel)
  PROVE  ChecklistInv'
<1> DEFINE w == Saving(sel)
<1>0. /\ lock = NoCaller /\ lock' = t /\ Do(t, w)
      /\ UNCHANGED <<assignable, preset, selected, link, doc, edited>>
  BY DEF BeginAssign
<1>1. /\ w \in Work /\ w.pc = "save" /\ w.found = Snapshot
      /\ w.required = {} /\ w.mandatory = {} /\ w.toRead = w.sel
  BY SnapshotIsRight, RowsTyped DEF Work, Saving
<1> HIDE DEF w
<1>2. /\ \A s \in Caller : doing'[s] = IF s = t THEN w ELSE doing[s]
      /\ ChecklistTypeOK' /\ LinkedIsLive'
  BY <1>0, <1>1, OneGoesOn
<1>3. \A s \in Caller : ~Holds(s) /\ ~Saves(s)
  BY <1>0, FreeIsFree
<1>4. ReadIsCurrent'
  <2>1. \A s \in Caller : s # t => ~Saves(s)'
    BY <1>2, <1>3 DEF Saves, At
  <2> QED BY <1>1, <1>2, <2>1 DEF ReadIsCurrent, Saves, At, HasRead
<1>5. WasIsThere'
  BY <1>0, <1>1, <1>2, RowsTyped, WasStays
<1> QED BY <1>0, <1>1, <1>2, <1>3, <1>4, <1>5, DocStays

\* After the presets of a component were read they are current, whatever was edited before.
LEMMA ReadPresetsKeeps ==
  ASSUME ChecklistInv, NEW t \in Caller, NEW c \in Component, ReadPresets(t, c)
  PROVE  ChecklistInv'
<1> DEFINE w == [doing[t] EXCEPT !.toRead = @ \ {c}, !.required = @ \cup Asks(c),
                                 !.mandatory = @ \cup {p \in Asks(c) : preset[p].isMandatory}]
<1>0. /\ At(t, "save") /\ c \in doing[t].toRead /\ Do(t, w) /\ lock' = lock
      /\ UNCHANGED <<assignable, preset, selected, link, doc, edited>>
  BY DEF ReadPresets
<1>1. doing[t] \in [pc : {"save"}, sel : SUBSET Component, found : Found, toRead : SUBSET Component,
                    required : SUBSET Preset, mandatory : SUBSET Preset]
  <2>1. doing[t] \in Work \cup {NoWork}
    BY RowsTyped
  <2> QED BY <1>0, <2>1 DEF At, Work, NoWork
<1>2. Asks(c) \in SUBSET Preset
  BY DEF Asks
<1>3. /\ w \in Work /\ w.pc = "save" /\ w.found = doing[t].found /\ w.sel = doing[t].sel
      /\ w.toRead = doing[t].toRead \ {c} /\ w.required = doing[t].required \cup Asks(c)
      /\ w.mandatory = doing[t].mandatory \cup {p \in Asks(c) : preset[p].isMandatory}
  BY <1>1, <1>2 DEF Work
<1> HIDE DEF w
<1>4. /\ \A s \in Caller : doing'[s] = IF s = t THEN w ELSE doing[s]
      /\ ChecklistTypeOK' /\ LinkedIsLive'
  BY <1>0, <1>3, OneGoesOn DEF ChecklistInv, ChecklistTypeOK
<1>5. ReadIsCurrent'
  <2>1. \A s \in Caller : s # t => doing'[s] = doing[s]
    BY <1>4
  <2>0. /\ \A p \in doing[t].required \cup doing[t].mandatory : componentOf[p] \in doing[t].sel \ doing[t].toRead
        /\ doing[t].toRead \subseteq doing[t].sel
    BY <1>0, RowsTyped DEF ReadIsCurrent, Saves, HasRead, At
  <2>2. /\ \A p \in w.required \cup w.mandatory : componentOf[p] \in w.sel \ w.toRead
        /\ w.toRead \subseteq w.sel
    <3>1. \A p \in Asks(c) : componentOf[p] = c
      BY DEF Asks
    <3> QED BY <1>0, <1>3, <2>0, <3>1
  <2>3. ASSUME NEW p \in Preset \ edited, componentOf[p] \in w.sel \ w.toRead PROVE IsRequired(w, p)
    <3>1. CASE componentOf[p] = c
      <4>1. p \in Asks(c) <=> preset[p].state = "active"
        BY <3>1 DEF Asks
      <4>2. p \notin doing[t].required \cup doing[t].mandatory
        BY <1>0, <2>0, <3>1
      <4> QED BY <1>3, <4>1, <4>2 DEF IsRequired
    <3>2. CASE componentOf[p] # c
      <4>1. IsRequired(doing[t], p)
        BY <1>0, <1>3, <2>3, <3>2, RowsTyped DEF ReadIsCurrent, HasRead
      <4>2. p \notin Asks(c)
        BY <3>2 DEF Asks
      <4> QED BY <1>3, <4>1, <4>2 DEF IsRequired
    <3> QED BY <3>1, <3>2
  <2> QED BY <1>0, <1>3, <1>4, <2>1, <2>2, <2>3, RowsTyped DEF ReadIsCurrent, Saves, At, HasRead, IsRequired
<1>6. WasIsThere'
  BY <1>0, <1>3, <1>4, RowsTyped, WasStays
<1> QED BY <1>0, <1>3, <1>4, <1>5, <1>6, RowsTyped, DocStays DEF HolderKnows, Holds


LEMMA ReadTracesKeeps ==
  ASSUME ChecklistInv, NEW t \in Caller, ReadTraces(t)
  PROVE  ChecklistInv'
<1> DEFINE w == [pc |-> "retire", sel |-> doing[t].sel, found |-> doing[t].found, required |-> doing[t].required,
                 mandatory |-> doing[t].mandatory, was |-> link, traced |-> Traced]
<1>0. /\ At(t, "save") /\ doing[t].toRead = {} /\ Do(t, w) /\ lock' = lock
      /\ UNCHANGED <<assignable, preset, selected, link, doc, edited>>
  BY DEF ReadTraces
<1>1. /\ w \in Work /\ w.pc = "retire" /\ w.found = doing[t].found /\ w.sel = doing[t].sel
      /\ w.required = doing[t].required /\ w.mandatory = doing[t].mandatory /\ w.was = link
  <2>1. Traced \in SUBSET Doc
    BY DEF Traced
  <2> QED BY <1>0, <2>1, WorkIsTyped, RowsTyped DEF Work, Saves
<1> HIDE DEF w
<1>2. /\ \A s \in Caller : doing'[s] = IF s = t THEN w ELSE doing[s]
      /\ ChecklistTypeOK' /\ LinkedIsLive'
  BY <1>0, <1>1, OneGoesOn DEF ChecklistInv, ChecklistTypeOK
<1>3. ReadIsCurrent'
  BY <1>0, <1>1, <1>2, RowsTyped DEF ReadIsCurrent, Saves, At, HasRead, IsRequired
<1>4. WasIsThere'
  BY <1>0, <1>1, <1>2, RowsTyped DEF WasIsThere, At
<1> QED BY <1>0, <1>1, <1>2, <1>3, <1>4, RowsTyped, DocStays DEF HolderKnows, Holds

LEMMA BeginPropagateKeeps ==
  ASSUME ChecklistInv, NEW t \in Caller, NEW p \in Preset, BeginPropagate(t, p)
  PROVE  ChecklistInv'
<1> DEFINE w == [pc |-> "read", p |-> p, isMandatory |-> preset[p].isMandatory]
<1>0. /\ lock' = lock /\ Do(t, w)
      /\ UNCHANGED <<assignable, preset, selected, link, doc, edited>>
  BY DEF BeginPropagate
<1>1. w \in Work /\ w.pc = "read"
  <2>1. preset[p] \in PresetRow
    BY RowsTyped
  <2> QED BY <2>1 DEF Work, PresetRow
<1> HIDE DEF w
<1>2. /\ \A s \in Caller : doing'[s] = IF s = t THEN w ELSE doing[s]
      /\ ChecklistTypeOK' /\ LinkedIsLive'
  BY <1>0, <1>1, OneGoesOn DEF ChecklistInv, ChecklistTypeOK
<1>3. \A s \in Caller : doing'[s] = doing[s] \/ (~Saves(s)' /\ doing'[s].pc # "retire")
  BY <1>1, <1>2 DEF Saves, At
<1>4. ReadIsCurrent' /\ WasIsThere'
  BY <1>0, <1>3, RowsTyped, ReadsStay, WasStays
<1> QED BY <1>0, <1>1, <1>2, <1>4, DocStays

LEMMA LockPropagateKeeps ==
  ASSUME ChecklistInv, NEW t \in Caller, LockPropagate(t)
  PROVE  ChecklistInv'
<1> DEFINE w == [pc |-> "propagate", p |-> doing[t].p, isMandatory |-> doing[t].isMandatory, found |-> Snapshot]
           next == IF assignable THEN w ELSE NoWork
<1>0. /\ At(t, "read") /\ lock = NoCaller /\ lock' = (IF assignable THEN t ELSE lock) /\ Do(t, next)
      /\ UNCHANGED <<assignable, preset, selected, link, doc, edited>>
  BY DEF LockPropagate
<1>1. /\ next \in Work \cup {NoWork}
      /\ assignable => next.pc = "propagate" /\ next.found = Snapshot
      /\ ~assignable => next.pc = "idle"
  <2>1. Snapshot \in Found /\ doing[t].p \in Preset /\ doing[t].isMandatory \in BOOLEAN
    BY <1>0, SnapshotIsRight, RowsTyped, WorkIsTyped
  <2>2. w \in Work
    BY <2>1 DEF Work
  <2> QED BY <2>2 DEF NoWork
<1> HIDE DEF next
<1>2. /\ \A s \in Caller : doing'[s] = IF s = t THEN next ELSE doing[s]
      /\ ChecklistTypeOK' /\ LinkedIsLive'
  BY <1>0, <1>1, OneGoesOn
<1>3. \A s \in Caller : ~Holds(s) /\ ~Saves(s)
  BY <1>0, FreeIsFree
<1>4. \A s \in Caller : ~Saves(s)'
  BY <1>1, <1>2, <1>3 DEF Saves, At
<1>5. ReadIsCurrent' /\ WasIsThere'
  BY <1>4, NoSaves
<1>6. CASE assignable
  BY <1>0, <1>1, <1>2, <1>3, <1>5, <1>6, DocStays
<1>7. CASE ~assignable
  BY <1>0, <1>1, <1>2, <1>3, <1>5, <1>7, DocStays
<1> QED BY <1>6, <1>7

LEMMA FailureKeeps ==
  ASSUME ChecklistInv, NEW t \in Caller, Fail(t)
  PROVE  ChecklistInv'
<1>0. /\ ~At(t, "idle") /\ Unlock(t) /\ Do(t, NoWork) /\ edited' = IF lock = t THEN {} ELSE edited
      /\ UNCHANGED <<assignable, preset, selected, link, doc>>
  BY DEF Fail
<1>1. /\ doing' \in [Caller -> Work \cup {NoWork}]
      /\ \A s \in Caller : doing'[s] = IF s = t THEN NoWork ELSE doing[s]
      /\ NoWork.pc = "idle"
  BY <1>0, RowsTyped DEF Do, NoWork
<1>2. ChecklistTypeOK' /\ LinkedIsLive'
  BY <1>0, <1>1, RowsTyped, LinksStay DEF ChecklistInv, ChecklistTypeOK, Unlock
<1>3. \A s \in Caller : Holds(s) \/ Saves(s) => lock = s
  BY RowsTyped DEF HolderKnows, Holds, Saves
<1>4. \A s \in Caller : doing'[s] = doing[s] \/ (~Saves(s)' /\ doing'[s].pc # "retire")
  BY <1>1 DEF Saves, At
<1>5. ReadIsCurrent' /\ WasIsThere'
  <2>1. CASE lock = t
    <3>1. \A s \in Caller : ~Saves(s)'
      BY <1>1, <1>3, <2>1 DEF Saves, At
    <3> QED BY <3>1, NoSaves
  <2>2. CASE lock # t
    BY <1>0, <1>4, <2>2, RowsTyped, ReadsStay, WasStays
  <2> QED BY <2>1, <2>2
<1>6. \A s \in Caller : lock' # lock => s = t \/ ~Holds(s)
  BY <1>0, <1>3 DEF Unlock
<1> QED BY <1>0, <1>1, <1>2, <1>5, <1>6, DocStays DEF At

LEMMA MoveCaseKeeps ==
  ASSUME ChecklistInv, MoveCase
  PROVE  ChecklistInv'
<1>0. assignable' = ~assignable /\ UNCHANGED <<preset, selected, link, doc, lock, doing, edited>>
  BY DEF MoveCase
<1>1. ChecklistTypeOK' /\ LinkedIsLive'
  BY <1>0, RowsTyped, LinksStay DEF ChecklistInv, ChecklistTypeOK
<1>2. ReadIsCurrent' /\ WasIsThere'
  BY <1>0, RowsTyped, ReadsStay, WasStays
<1> QED BY <1>0, <1>1, <1>2, DocStays

\* Only the holder of the case row rewrites the checklist, and it lets go of it.
LEMMA HolderWrites ==
  ASSUME ChecklistInv, NEW t \in Caller, lock = t, Unlock(t), Do(t, NoWork),
         UNCHANGED <<assignable, preset>>, selected' \subseteq Component, edited' \in SUBSET Preset,
         link' \in Links, DocsTyped', UniqueKeys', LinkedIsLive'
  PROVE  ChecklistInv'
<1>1. /\ doing' \in [Caller -> Work \cup {NoWork}]
      /\ \A s \in Caller : doing'[s] = IF s = t THEN NoWork ELSE doing[s]
      /\ NoWork.pc = "idle"
  BY RowsTyped DEF Do, NoWork
<1>2. lock' = NoCaller
  BY DEF Unlock
<1>3. ChecklistTypeOK'
  BY <1>1, <1>2 DEF ChecklistInv, ChecklistTypeOK, DocsTyped
<1>4. \A s \in Caller : ~Holds(s)' /\ ~Saves(s)'
  <2>1. \A s \in Caller : s # t => ~Holds(s) /\ ~Saves(s)
    BY RowsTyped DEF HolderKnows, Holds, Saves
  <2> QED BY <1>1, <2>1 DEF Holds, Saves, At
<1>5. HolderKnows' /\ ReadIsCurrent' /\ WasIsThere'
  BY <1>4, NoSaves DEF HolderKnows
<1> QED BY <1>3, <1>5 DEF ChecklistInv

\* What a link stood behind stays as it is when the links that remain are reconciled, though
\* some of the links that the reconciliation read may be gone.
LEMMA LinksStandBehind ==
  ASSUME ChecklistInv, NEW ps \in SUBSET Preset, NEW target \in Targets(ps, Snapshot),
         NEW links, NEW traced, NEW touched, \A p \in ps : target[keyOf[p]] \in touched,
         \A d \in touched : Used(d) \/ \E p \in ps : target[keyOf[p]] = d,
         \A p \in ps : links[p].live /\ links[p].doc = target[keyOf[p]] /\ link'[p] = links[p],
         \A p \in Preset \ ps : link'[p].live => link'[p] = link[p] /\ links[p] = link[p],
         doc' = Checklist(links, traced, target, touched)
  PROVE  DocsTyped' /\ UniqueKeys' /\ LinkedIsLive'
<1>1. \A p \in ps : p \in Sources(links, target[keyOf[p]])
  BY DEF Sources
<1>2. /\ DocsTyped' /\ UniqueKeys'
      /\ \A p \in ps : LET d == target[keyOf[p]] IN
            Live(d)' /\ doc'[d].keyed /\ doc'[d].name = keyOf[p]
      /\ \A d \in Doc : Live(d) /\ doc[d].keyed /\ Sources(links, d) # {} =>
            Live(d)' /\ doc'[d].keyed /\ doc'[d].name = doc[d].name
  BY <1>1, RowsTyped, ChecklistIsRight
<1>3. ASSUME NEW p \in Preset, link'[p].live
      PROVE  doc'[link'[p].doc].state = "live" /\ doc'[link'[p].doc].keyed /\ doc'[link'[p].doc].name = keyOf[p]
  <2>1. CASE p \in ps
    BY <1>2, <2>1 DEF Live
  <2>2. CASE p \notin ps
    <3>1. link'[p] = link[p] /\ links[p] = link[p] /\ link[p].live
      BY <1>3, <2>2
    <3>2. link[p].doc \in Doc
      BY <3>1, RowsTyped, LinkIsTyped
    <3>3. Live(link[p].doc) /\ doc[link[p].doc].keyed /\ doc[link[p].doc].name = keyOf[p]
      BY <3>1, RowsTyped DEF LinkedIsLive
    <3>4. Sources(links, link[p].doc) # {}
      BY <3>1 DEF Sources
    <3> QED BY <1>2, <3>1, <3>2, <3>3, <3>4 DEF Live
  <2> QED BY <2>1, <2>2
<1>4. LinkedIsLive'
  BY <1>3 DEF LinkedIsLive, Live
<1> QED BY <1>2, <1>4

\* The links after a save, as they are written and as the reconciliation reads them.
SavesLinks(w, target, old, links) ==
    /\ links \in Links
    /\ \A p \in w.required : links[p] = [doc |-> target[keyOf[p]], isMandatory |-> p \in w.mandatory, live |-> TRUE]
    /\ \A p \in Preset \ w.required : /\ links[p].live => links[p] = old[p] /\ componentOf[p] \in w.sel
                                      /\ componentOf[p] \in w.sel => links[p] = old[p]

LEMMA SavedLinksAreRight ==
  ASSUME ChecklistInv, NEW t \in Caller, Saves(t), NEW target \in Targets(doing[t].required, Snapshot),
         NEW old \in Links
  PROVE  SavesLinks(doing[t], target, old, SavedLinks(doing[t], old, target))
<1> DEFINE w == doing[t]
           links == SavedLinks(w, old, target)
<1>0. w.required \in SUBSET Preset
  BY WorkIsTyped
<1>1. \A p \in w.required : target[keyOf[p]] \in Doc
  <2>1. target \in [{keyOf[p] : p \in w.required} -> Doc]
    BY <1>0, RowsTyped, TargetsAreRight
  <2> QED BY <2>1
<1> HIDE DEF w
<1>2. ASSUME NEW p \in w.required
      PROVE  /\ links[p] = [doc |-> target[keyOf[p]], isMandatory |-> p \in w.mandatory, live |-> TRUE]
             /\ links[p] \in Source
  <2>1. links[p] = [doc |-> target[keyOf[p]], isMandatory |-> p \in w.mandatory, live |-> TRUE]
    BY <1>0 DEF SavedLinks
  <2> QED BY <1>1, <2>1 DEF Source
<1>3. ASSUME NEW p \in Preset \ w.required
      PROVE  /\ links[p] \in Source \cup {NoLink}
             /\ links[p].live => links[p] = old[p] /\ componentOf[p] \in w.sel
             /\ componentOf[p] \in w.sel => links[p] = old[p]
  <2>1. CASE componentOf[p] \notin w.sel
    <3>1. links[p] = NoLink
      BY <1>3, <2>1 DEF SavedLinks
    <3> QED BY <2>1, <3>1 DEF NoLink
  <2>2. CASE componentOf[p] \in w.sel
    <3>1. links[p] = old[p]
      BY <1>3, <2>2 DEF SavedLinks
    <3> QED BY <2>2, <3>1 DEF Links
  <2> QED BY <2>1, <2>2
<1>4. links = [p \in Preset |-> links[p]]
  BY DEF SavedLinks
<1>5. links \in Links
  <2> HIDE DEF links
  <2> QED BY <1>2, <1>3, <1>4 DEF Links
<1>6. SavesLinks(w, target, old, links)
  <2> HIDE DEF links
  <2> QED BY <1>2, <1>3, <1>5 DEF SavesLinks
<1> QED BY <1>6 DEF w

\* What a save does, as the holder of the case row.
Decided(w, target, links) ==
    /\ link' = SavedLinks(w, link, target)
    /\ links = SavedLinks(w, w.was, target)
    /\ LET touched == {link[p].doc : p \in Dropped(w)} \cup {target[k] : k \in DOMAIN target} IN
       /\ doc' = Checklist(links, w.traced, target, touched)
       /\ \A p \in w.required : target[keyOf[p]] \in touched
       /\ \A d \in touched : Used(d) \/ \E p \in w.required : target[keyOf[p]] = d
    /\ link' \in Links
    /\ \A p \in w.required : /\ links[p].live /\ links[p].doc = target[keyOf[p]]
                              /\ links[p].isMandatory = (p \in w.mandatory) /\ link'[p] = links[p]
    /\ \A p \in Preset \ w.required : link'[p].live =>
          componentOf[p] \in w.sel /\ link'[p] = link[p] /\ links[p] = link[p]

LEMMA SaveIsRight ==
  ASSUME ChecklistInv, NEW t \in Caller, CommitAssign(t)
  PROVE  \E target \in Targets(doing[t].required, Snapshot) :
            \E links : Decided(doing[t], target, links)
<1> DEFINE w == doing[t]
<1>1. At(t, "retire") /\ Saves(t) /\ w.found = Snapshot /\ w.was \in Links /\ w.required \in SUBSET Preset
  BY RowsTyped, WorkIsTyped DEF CommitAssign, Saves, HolderKnows, Holds
<1>2. PICK target \in Targets(w.required, Snapshot) :
         /\ link' = SavedLinks(w, link, target)
         /\ doc' = Checklist(SavedLinks(w, w.was, target), w.traced, target,
                             {link[p].doc : p \in Dropped(w)} \cup {target[k] : k \in DOMAIN target})
  BY <1>1 DEF CommitAssign
<1> DEFINE links == SavedLinks(w, w.was, target)
           touched == {link[p].doc : p \in Dropped(w)} \cup {target[k] : k \in DOMAIN target}
<1>3. SavesLinks(w, target, link, link')
  <2>1. SavesLinks(w, target, link, SavedLinks(w, link, target))
    BY <1>1, RowsTyped, SavedLinksAreRight
  <2> QED BY <1>2, <2>1
<1>4. SavesLinks(w, target, w.was, links)
  BY <1>1, SavedLinksAreRight
<1>5. \A p \in Preset : link[p] \in {w.was[p], NoLink}
  BY <1>1, RowsTyped DEF WasIsThere
<1>6. \A p \in Preset \ w.required : link'[p].live =>
         componentOf[p] \in w.sel /\ link'[p] = link[p] /\ links[p] = link[p]
  <2> HIDE DEF w, links
  <2>1. SUFFICES ASSUME NEW p \in Preset \ w.required, link'[p].live
                 PROVE  componentOf[p] \in w.sel /\ link'[p] = link[p] /\ links[p] = link[p]
    OBVIOUS
  <2>2. componentOf[p] \in w.sel /\ link'[p] = link[p] /\ links[p] = w.was[p]
    BY <1>3, <1>4, <2>1 DEF SavesLinks
  <2> QED BY <1>5, <2>1, <2>2 DEF NoLink
<1>7. DOMAIN target = {keyOf[p] : p \in w.required}
  BY <1>1, RowsTyped, TargetsAreRight
<1>8. /\ \A p \in w.required : target[keyOf[p]] \in touched
      /\ \A d \in touched : Used(d) \/ \E p \in w.required : target[keyOf[p]] = d
  <2>1. \A p \in Preset : link[p].live => Used(link[p].doc)
    BY RowsTyped, LinkIsTyped, UsedIsRow DEF LinkedIsLive
  <2> QED BY <1>7, <2>1 DEF Dropped
<1> HIDE DEF w, links
<1>9. Decided(w, target, links)
  <2>1. ASSUME NEW p \in w.required
        PROVE  /\ links[p].live /\ links[p].doc = target[keyOf[p]]
               /\ links[p].isMandatory = (p \in w.mandatory) /\ link'[p] = links[p]
    <3> DEFINE asks == p \in w.mandatory
               value == [doc |-> target[keyOf[p]], isMandatory |-> asks, live |-> TRUE]
    <3>1. links[p] = value /\ link'[p] = value
      BY <1>3, <1>4, <2>1 DEF SavesLinks
    <3> HIDE DEF asks
    <3>2. value.live /\ value.doc = target[keyOf[p]] /\ value.isMandatory = asks
      OBVIOUS
    <3> HIDE DEF value
    <3>3. links[p].live /\ links[p].doc = target[keyOf[p]] /\ links[p].isMandatory = asks /\ link'[p] = links[p]
      BY <3>1, <3>2
    <3> QED BY <3>3 DEF asks
  <2>2. link' \in Links
    BY <1>3 DEF SavesLinks
  <2> QED BY <1>2, <1>6, <1>8, <2>1, <2>2 DEF Decided, links
<1> QED BY <1>9 DEF w

LEMMA CommitAssignKeeps ==
  ASSUME ChecklistInv, NEW t \in Caller, CommitAssign(t)
  PROVE  ChecklistInv'
<1> DEFINE w == doing[t]
<1>0. /\ At(t, "retire") /\ selected' = w.sel /\ Unlock(t) /\ Do(t, NoWork) /\ edited' = {}
      /\ UNCHANGED <<assignable, preset>>
  BY DEF CommitAssign
<1>1. lock = t /\ w.sel \in SUBSET Component /\ w.required \in SUBSET Preset
  BY <1>0, WorkIsTyped, RowsTyped DEF HolderKnows, Holds, Saves
<1>2. PICK target \in Targets(w.required, Snapshot) : \E links : Decided(w, target, links)
  BY SaveIsRight
<1>3. PICK links : Decided(w, target, links)
  BY <1>2
<1> HIDE DEF w
<1>4. link' \in Links /\ DocsTyped' /\ UniqueKeys' /\ LinkedIsLive'
  <2> DEFINE touched == {link[p].doc : p \in Dropped(w)} \cup {target[k] : k \in DOMAIN target}
  <2>1. /\ doc' = Checklist(links, w.traced, target, touched)
        /\ \A p \in w.required : target[keyOf[p]] \in touched
        /\ \A d \in touched : Used(d) \/ \E p \in w.required : target[keyOf[p]] = d
        /\ link' \in Links
        /\ \A p \in w.required : links[p].live /\ links[p].doc = target[keyOf[p]] /\ link'[p] = links[p]
        /\ \A p \in Preset \ w.required : link'[p].live => link'[p] = link[p] /\ links[p] = link[p]
    BY <1>3 DEF Decided
  <2> HIDE DEF touched
  <2> QED BY <1>1, <1>2, <2>1, LinksStandBehind
<1> QED BY <1>0, <1>1, <1>4, HolderWrites

LEMMA CommitPropagateKeeps ==
  ASSUME ChecklistInv, NEW t \in Caller, CommitPropagate(t)
  PROVE  ChecklistInv'
<1> DEFINE p == doing[t].p
           k == keyOf[p]
<1>0. /\ At(t, "propagate") /\ Unlock(t) /\ Do(t, NoWork) /\ UNCHANGED <<assignable, preset, selected, edited>>
  BY DEF CommitPropagate
<1>1. lock = t /\ doing[t].found = Snapshot /\ p \in Preset /\ doing[t].isMandatory \in BOOLEAN
  BY <1>0, WorkIsTyped, RowsTyped DEF HolderKnows, Holds
<1>2. PICK target \in Targets({p}, Snapshot) :
         /\ link' = [link EXCEPT ![p] = [doc |-> target[k], isMandatory |-> doing[t].isMandatory, live |-> TRUE]]
         /\ doc' = Checklist(link', Traced, target, {target[k]})
  BY <1>1 DEF CommitPropagate
<1>3. target[k] \in Doc
  <2> DEFINE ps == {p}
  <2>1. target \in [{keyOf[q] : q \in ps} -> Doc]
    <3>1. ps \in SUBSET Preset /\ target \in Targets(ps, Snapshot)
      BY <1>1, <1>2
    <3> HIDE DEF ps
    <3> QED BY <3>1, RowsTyped, TargetsAreRight
  <2> QED BY <2>1
<1> DEFINE l == [doc |-> target[k], isMandatory |-> doing[t].isMandatory, live |-> TRUE]
<1>4. l \in Source /\ l.live /\ l.doc = target[k] /\ link' = [link EXCEPT ![p] = l]
  BY <1>1, <1>2, <1>3 DEF Source
<1> HIDE DEF p, l
<1>5. link' \in Links /\ \A q \in Preset : link'[q] = IF q = p THEN l ELSE link[q]
  BY <1>1, <1>4, RowsTyped DEF Links
<1>6. DocsTyped' /\ UniqueKeys' /\ LinkedIsLive'
  <2> DEFINE ps == {p}
             touched == {target[k]}
             links == link'
  <2>1. /\ ps \in SUBSET Preset /\ target \in Targets(ps, Snapshot)
        /\ \A q \in ps : target[keyOf[q]] \in touched
        /\ \A d \in touched : Used(d) \/ \E q \in ps : target[keyOf[q]] = d
        /\ \A q \in ps : links[q].live /\ links[q].doc = target[keyOf[q]] /\ link'[q] = links[q]
        /\ \A q \in Preset \ ps : link'[q].live => link'[q] = link[q] /\ links[q] = link[q]
        /\ doc' = Checklist(links, Traced, target, touched)
    BY <1>1, <1>2, <1>4, <1>5
  <2> HIDE DEF ps, touched, links, k
  <2> QED BY <2>1, LinksStandBehind
<1> QED BY <1>0, <1>1, <1>5, <1>6, HolderWrites DEF ChecklistInv, ChecklistTypeOK

\* A row that is added without a key, or one on which a trace is left, while the case row may
\* be held: whoever holds it finds what it found.
LEMMA RowWritten ==
  ASSUME ChecklistInv, ChecklistTypeOK', UniqueKeys', LinkedIsLive',
         UNCHANGED <<assignable, preset, selected, link, lock, doing, edited>>,
         lock = NoCaller \/ Snapshot' = Snapshot
  PROVE  ChecklistInv'
<1>1. HolderKnows'
  <2>1. lock = NoCaller => \A t \in Caller : ~Holds(t)
    BY FreeIsFree
  <2> QED BY <2>1, RowsTyped DEF HolderKnows, Holds, At
<1>2. ReadIsCurrent' /\ WasIsThere'
  BY RowsTyped, ReadsStay, WasStays
<1> QED BY <1>1, <1>2 DEF ChecklistInv

\* A requirement added by hand is a new row without a key.
LEMMA AddDocumentKeeps ==
  ASSUME ChecklistInv, NEW name \in Key, AddDocumentToCase(name)
  PROVE  ChecklistInv'
<1> DEFINE r == [state |-> "live", name |-> name, keyed |-> FALSE, manual |-> TRUE, isMandatory |-> FALSE, touched |-> FALSE]
<1>0. /\ lock = NoCaller /\ UNCHANGED <<assignable, preset, selected, link, lock, doing, edited>>
  BY DEF AddDocumentToCase
<1>1. PICK d \in Doc : doc[d] = Unused /\ doc' = [doc EXCEPT ![d] = r]
  BY DEF AddDocumentToCase
<1>2. r \in DocCaseDocument /\ r.keyed = FALSE /\ r # Unused
  BY DEF DocCaseDocument, Unused
<1> HIDE DEF r
<1>3. DocsTyped' /\ \A e \in Doc : doc'[e] = IF e = d THEN r ELSE doc[e]
  BY <1>1, <1>2, RowsTyped DEF DocsTyped
<1>4. UniqueKeys'
  BY <1>2, <1>3, RowsTyped DEF UniqueKeys, Used
<1>5. LinkedIsLive'
  <2>1. ASSUME NEW p \in Preset, link[p].live
        PROVE  doc'[link[p].doc] = doc[link[p].doc]
    <3>1. Used(link[p].doc) /\ link[p].doc \in Doc
      BY <2>1, RowsTyped, LinkIsTyped, UsedIsRow DEF LinkedIsLive
    <3> QED BY <1>1, <1>3, <3>1 DEF Used
  <2> QED BY <1>0, <2>1, RowsTyped DEF LinkedIsLive, Live
<1>6. ChecklistTypeOK'
  BY <1>0, <1>3 DEF ChecklistInv, ChecklistTypeOK, DocsTyped
<1> QED BY <1>0, <1>4, <1>5, <1>6, RowWritten

\* A trace changes nothing that a save looks for when it looks for the row of a key.
LEMMA LeaveTraceKeeps ==
  ASSUME ChecklistInv, NEW d \in Doc, LeaveTrace(d)
  PROVE  ChecklistInv'
<1> DEFINE r == [doc[d] EXCEPT !.touched = TRUE]
<1>0. /\ Used(d) /\ UNCHANGED <<assignable, preset, selected, link, lock, doing, edited>>
      /\ doc' = [doc EXCEPT ![d] = r]
  BY DEF LeaveTrace
<1>1. doc[d] \in DocCaseDocument
  BY <1>0, RowsTyped, UsedIsRow
<1>2. /\ r \in DocCaseDocument /\ r # Unused
      /\ r.name = doc[d].name /\ r.keyed = doc[d].keyed /\ r.state = doc[d].state /\ r.manual = doc[d].manual
  BY <1>1 DEF DocCaseDocument, Unused
<1> HIDE DEF r
<1>3. DocsTyped' /\ \A e \in Doc : doc'[e] = IF e = d THEN r ELSE doc[e]
  BY <1>0, <1>1, <1>2, RowsTyped DEF DocsTyped
<1>4. \A e \in Doc : /\ Used(e)' <=> Used(e)
                     /\ Live(e)' <=> Live(e)
                     /\ Used(e) => /\ doc'[e].name = doc[e].name /\ doc'[e].keyed = doc[e].keyed
                                   /\ doc'[e].manual = doc[e].manual
  BY <1>0, <1>2, <1>3 DEF Used, Live
<1>5. UniqueKeys'
  BY <1>4, RowsTyped DEF UniqueKeys
<1>6. LinkedIsLive'
  <2>1. \A p \in Preset : link[p].live => link[p].doc \in Doc /\ Used(link[p].doc)
    BY RowsTyped, LinkIsTyped, UsedIsRow DEF LinkedIsLive
  <2> QED BY <1>0, <1>4, <2>1, RowsTyped DEF LinkedIsLive
<1>7. Snapshot' = Snapshot
  <2>1. \A k \in Key : Keyed(k)' = Keyed(k) /\ Adoptable(k)' = Adoptable(k)
    BY <1>4, RowsTyped, UsedIsRow DEF Keyed, Adoptable
  <2>2. \A k \in Key : /\ {e \in Keyed(k) : Live(e)}' = {e \in Keyed(k) : Live(e)}
                       /\ (\E e \in Keyed(k) : Live(e))' <=> \E e \in Keyed(k) : Live(e)
                       /\ (\A e \in Keyed(k) : ~Live(e))' <=> \A e \in Keyed(k) : ~Live(e)
    BY <1>4, <2>1 DEF Keyed
  <2>3. \A k \in Key : Find(k)' = Find(k)
    BY <2>1, <2>2 DEF Find
  <2> QED BY <2>3 DEF Snapshot
<1>8. ChecklistTypeOK'
  BY <1>0, <1>3 DEF ChecklistInv, ChecklistTypeOK, DocsTyped
<1> QED BY <1>0, <1>5, <1>6, <1>7, <1>8, RowWritten

-----------------------------------------------------------------------------
LEMMA ChecklistInitHolds == ChecklistInit => ChecklistInv
<1> SUFFICES ASSUME ChecklistInit PROVE ChecklistInv
  OBVIOUS
<1>1. ChecklistTypeOK
  BY DEF ChecklistInit, ChecklistTypeOK, PresetRow, Links
<1>2. \A p \in Preset : ~link[p].live
  BY DEF ChecklistInit, NoLink
<1>3. \A d \in Doc : ~Used(d)
  BY DEF ChecklistInit, Used
<1>4. \A t \in Caller : doing[t].pc = "idle"
  BY DEF ChecklistInit, NoWork
<1>5. HolderKnows /\ ReadIsCurrent /\ WasIsThere
  BY <1>4 DEF HolderKnows, ReadIsCurrent, WasIsThere, Holds, Saves, HasRead, At
<1> QED BY <1>1, <1>2, <1>3, <1>5 DEF ChecklistInv, UniqueKeys, LinkedIsLive

LEMMA ChecklistStep == ChecklistInv /\ [ChecklistNext]_checklistVars => ChecklistInv'
<1> SUFFICES ASSUME ChecklistInv, [ChecklistNext]_checklistVars PROVE ChecklistInv'
  OBVIOUS
<1>1. CASE UNCHANGED checklistVars
  <2>1. UNCHANGED <<assignable, preset, selected, link, doc, lock, doing, edited>>
    BY <1>1 DEF checklistVars
  <2>2. ChecklistTypeOK' /\ LinkedIsLive'
    BY <2>1, RowsTyped, LinksStay DEF ChecklistInv, ChecklistTypeOK
  <2>3. ReadIsCurrent' /\ WasIsThere'
    BY <2>1, RowsTyped, ReadsStay, WasStays
  <2> QED BY <2>1, <2>2, <2>3, DocStays
<1>2. ASSUME NEW t \in Caller, CaseRequest(t) PROVE ChecklistInv'
  BY <1>2, BeginAssignKeeps, ReadPresetsKeeps, ReadTracesKeeps, CommitAssignKeeps, BeginPropagateKeeps,
     LockPropagateKeeps, CommitPropagateKeeps, FailureKeeps DEF CaseRequest
<1> QED BY <1>1, <1>2, CatalogKeeps, AddDocumentKeeps, LeaveTraceKeeps, MoveCaseKeeps DEF ChecklistNext

LEMMA ChecklistInvariance == ChecklistSpec => []ChecklistInv
BY ChecklistInitHolds, ChecklistStep, PTL DEF ChecklistSpec

\* Presets, links and requirements stay well typed: no link stands behind a row that was
\* never made, and every open request carries what its commit needs.
THEOREM ChecklistTypeCorrect == ChecklistSpec => []ChecklistTypeOK
<1>1. ChecklistInv => ChecklistTypeOK
  BY DEF ChecklistInv
<1> QED BY <1>1, ChecklistInvariance, PTL

\* However saves, propagations and requirements added by hand overlap, a case has one
\* requirement per key: assignPolicyToCase finds or adopts it, under the case row's lock.
THEOREM OneRowPerKey == ChecklistSpec => []OneRequirementPerKey
<1>1. ChecklistInv => OneRequirementPerKey
  <2> SUFFICES ASSUME ChecklistInv, NEW k \in Key PROVE Cardinality(Keyed(k)) <= 1
    BY DEF OneRequirementPerKey
  <2>1. \A d, e \in Keyed(k) : d = e
    BY RowsTyped DEF UniqueKeys, Keyed
  <2>2. CASE Keyed(k) = {}
    BY <2>2, FS_EmptySet
  <2>3. CASE Keyed(k) # {}
    <3>1. PICK d : Keyed(k) = {d}
      BY <2>1, <2>3
    <3>2. Cardinality({d}) = 1
      BY FS_Singleton
    <3> QED BY <3>1, <3>2
  <2> QED BY <2>2, <2>3
<1> QED BY <1>1, ChecklistInvariance, PTL

\* Whatever was deselected, archived, deleted or propagated meanwhile, the requirement that a
\* live link stands behind is on the checklist under the preset's key.
THEOREM LinksAreLive == ChecklistSpec => []LinkedIsLive
<1>1. ChecklistInv => LinkedIsLive
  BY DEF ChecklistInv
<1> QED BY <1>1, ChecklistInvariance, PTL

\* What SaveHeals says of one save.
Healed(t) ==
    /\ \A p \in Preset :
         preset[p].state = "active" /\ componentOf[p] \in selected' /\ p \notin edited =>
             link'[p].live /\ link'[p].isMandatory = preset[p].isMandatory
    /\ \A p \in Preset : link'[p].live => componentOf[p] \in selected'
    /\ link = doing[t].was => \A p \in doing[t].required :
         doc'[link'[p].doc].isMandatory <=>
             \E q \in Sources(link, link[p].doc)' : link'[q].isMandatory

LEMMA SaveLeavesItRight ==
  ASSUME ChecklistInv, NEW t \in Caller, CommitAssign(t)
  PROVE  Healed(t)
<1> DEFINE w == doing[t]
<1>0. At(t, "retire") /\ Saves(t) /\ selected' = w.sel
  BY DEF CommitAssign, Saves
<1>1. w.required \in SUBSET Preset
  BY <1>0, WorkIsTyped
<1>2. /\ \A p \in w.required : componentOf[p] \in w.sel
      /\ \A p \in Preset \ edited : componentOf[p] \in w.sel => IsRequired(w, p)
  BY <1>0, RowsTyped DEF ReadIsCurrent, HasRead, At
<1>3. PICK target \in Targets(w.required, Snapshot) : \E links : Decided(w, target, links)
  BY SaveIsRight
<1>4. PICK links : Decided(w, target, links)
  BY <1>3
<1> DEFINE touched == {link[p].doc : p \in Dropped(w)} \cup {target[k] : k \in DOMAIN target}
<1>5. /\ link' = SavedLinks(w, link, target) /\ links = SavedLinks(w, w.was, target)
      /\ doc' = Checklist(links, w.traced, target, touched)
      /\ \A p \in w.required : target[keyOf[p]] \in touched
      /\ \A d \in touched : Used(d) \/ \E p \in w.required : target[keyOf[p]] = d
      /\ \A p \in w.required : /\ links[p].live /\ links[p].doc = target[keyOf[p]]
                                /\ links[p].isMandatory = (p \in w.mandatory) /\ link'[p] = links[p]
      /\ \A p \in Preset \ w.required : link'[p].live => componentOf[p] \in w.sel
  BY <1>4 DEF Decided
<1> HIDE DEF w, touched
<1>6. ASSUME NEW p \in Preset, preset[p].state = "active", componentOf[p] \in w.sel, p \notin edited
      PROVE  link'[p].live /\ link'[p].isMandatory = preset[p].isMandatory
  <2>1. IsRequired(w, p) /\ preset[p].isMandatory \in BOOLEAN
    BY <1>2, <1>6, RowsTyped DEF PresetRow
  <2> QED BY <1>5, <1>6, <2>1 DEF IsRequired
<1>7. \A p \in Preset : link'[p].live => componentOf[p] \in w.sel
  BY <1>2, <1>5
<1>8. ASSUME link = w.was, NEW p \in w.required
      PROVE  doc'[link'[p].doc].isMandatory <=> \E q \in Sources(link, link[p].doc)' : link'[q].isMandatory
  <2>1. links = link' /\ link'[p].doc = target[keyOf[p]]
    BY <1>5, <1>8
  <2>2. \A q \in w.required : q \in Sources(links, target[keyOf[q]])
    BY <1>1, <1>5 DEF Sources
  <2>3. doc'[target[keyOf[p]]].isMandatory <=> \E q \in Sources(links, target[keyOf[p]]) : links[q].isMandatory
    BY <1>1, <1>3, <1>5, <2>2, RowsTyped, ChecklistIsRight
  <2>4. Sources(link, link[p].doc)' = Sources(links, target[keyOf[p]])
    BY <2>1 DEF Sources
  <2> QED BY <2>1, <2>3, <2>4
<1> QED BY <1>0, <1>6, <1>7, <1>8 DEF Healed, w

\* A save repairs what a propagation or a deletion left: it leaves exactly what the catalog
\* asks of the selected components, mandatory where a source says so, but for the presets that
\* the catalog changed after the save had read them.
THEOREM SavesHeal == ChecklistSpec => SaveHeals
<1>1. ChecklistInv => \A t \in Caller : CommitAssign(t) => Healed(t)
  BY SaveLeavesItRight
<1>2. SaveHeals <=> [][\A t \in Caller : CommitAssign(t) => Healed(t)]_checklistVars
  BY DEF SaveHeals, Healed
<1> QED BY <1>1, <1>2, ChecklistInvariance, PTL
-----------------------------------------------------------------------------
(* What is never taken back.                                                *)

\* A requirement stays what it was; with a trace that the reconciliation knew of, or added by
\* hand, it stays on the checklist.
Keeps(was, is, traced) ==
    /\ is.name = was.name /\ is.manual = was.manual
    /\ was.keyed => is.keyed
    /\ was.touched => is.touched
    /\ was.state = "live" /\ is.state # "live" => ~was.manual /\ ~traced

LEMMA ChecklistKeeps ==
  ASSUME DocsTyped, NEW links, NEW target, NEW traced, NEW touched,
         doc' = Checklist(links, traced, target, touched), NEW d \in Doc, Used(d)
  PROVE  Used(d)' /\ Keeps(doc[d], doc'[d], d \in traced)
<1> DEFINE r == [doc[d] EXCEPT !.state = "live", !.keyed = TRUE]
           known == d \in traced
<1>0. known \in BOOLEAN
  OBVIOUS
<1>1. doc[d] \in DocCaseDocument
  BY UsedIsRow
<1>2. r \in DocCaseDocument /\ Keeps(doc[d], r, known)
  BY <1>1 DEF DocCaseDocument, Keeps
<1>3. Keeps(doc[d], doc[d], known)
  BY DEF Keeps
<1>4. \A k : Materialized(d, k) = r
  BY DEF Materialized
<1>5. \E base \in {doc[d], r} : doc'[d] = IF d \in touched THEN Reconciled(base, links, traced, d) ELSE base
  <2>1. LET keys == {k \in DOMAIN target : target[k] = d}
            base == IF keys = {} THEN doc[d] ELSE Materialized(d, CHOOSE k \in keys : TRUE)
        IN doc'[d] = IF d \in touched THEN Reconciled(base, links, traced, d) ELSE base
    BY DEF Checklist
  <2> HIDE DEF r
  <2> QED BY <1>4, <2>1
<1> HIDE DEF r
<1>6. PICK base \in DocCaseDocument :
         /\ Keeps(doc[d], base, known)
         /\ doc'[d] = IF d \in touched THEN Reconciled(base, links, traced, d) ELSE base
  BY <1>1, <1>2, <1>3, <1>5
<1>7. Reconciled(base, links, traced, d) \in DocCaseDocument /\ Keeps(base, Reconciled(base, links, traced, d), known)
  <2> DEFINE asked == \E p \in Sources(links, d) : links[p].isMandatory
  <2>1. CASE Sources(links, d) # {}
    <3>1. Reconciled(base, links, traced, d) = [base EXCEPT !.state = "live", !.isMandatory = asked]
      BY <2>1 DEF Reconciled
    <3>2. asked \in BOOLEAN
      OBVIOUS
    <3> HIDE DEF asked, known
    <3> QED BY <3>1, <3>2 DEF DocCaseDocument, Keeps
  <2>2. CASE Sources(links, d) = {}
    <3>1. Reconciled(base, links, traced, d) =
            [base EXCEPT !.isMandatory = FALSE,
                        !.state = IF base.manual \/ ~base.keyed \/ known THEN base.state ELSE "retired"]
      BY <2>2 DEF Reconciled
    <3> HIDE DEF known
    <3> QED BY <1>0, <3>1 DEF DocCaseDocument, Keeps
  <2> QED BY <2>1, <2>2
<1>8. Keeps(doc[d], doc'[d], known) /\ doc'[d] \in DocCaseDocument
  <2> HIDE DEF known
  <2> QED BY <1>0, <1>1, <1>6, <1>7 DEF Keeps, DocCaseDocument
<1> QED BY <1>8 DEF Used, DocCaseDocument, Unused

\* What RequirementsStay says of one requirement.
Stays(d) ==
    /\ Used(d)' /\ doc'[d].name = doc[d].name /\ doc'[d].manual = doc[d].manual
    /\ doc[d].keyed => doc'[d].keyed
    /\ doc[d].touched => doc'[d].touched
    /\ Live(d) /\ ~Live(d)' =>
         /\ ~doc[d].manual
         /\ doc[d].touched => \E t \in Caller : CommitAssign(t) /\ d \notin doing[t].traced

LEMMA RowStays ==
  ASSUME NEW d \in Doc, Used(d), doc'[d] = doc[d]
  PROVE  Stays(d)
BY DEF Used, Stays, Live

LEMMA StepKeepsRequirements ==
  ASSUME ChecklistInv, [ChecklistNext]_checklistVars, NEW d \in Doc, Used(d)
  PROVE  Stays(d)
<1>0. DocsTyped /\ doc[d] \in DocCaseDocument
  BY RowsTyped, UsedIsRow
<1>1. CASE UNCHANGED doc
  BY <1>1, RowStays
<1>2. ASSUME NEW t \in Caller, CommitAssign(t) PROVE Stays(d)
  <2>1. \E links, target, touched : doc' = Checklist(links, doing[t].traced, target, touched)
    BY <1>2 DEF CommitAssign
  <2>2. Used(d)' /\ Keeps(doc[d], doc'[d], d \in doing[t].traced)
    BY <1>0, <2>1, ChecklistKeeps
  <2> QED BY <1>2, <2>2 DEF Keeps, Stays, Live
<1>3. ASSUME NEW t \in Caller, CommitPropagate(t) PROVE Stays(d)
  <2>1. \E links, target, touched : doc' = Checklist(links, Traced, target, touched)
    BY <1>3 DEF CommitPropagate
  <2>2. Used(d)' /\ Keeps(doc[d], doc'[d], d \in Traced)
    BY <1>0, <2>1, ChecklistKeeps
  <2>3. doc[d].touched => d \in Traced
    BY DEF Traced
  <2> QED BY <2>2, <2>3 DEF Keeps, Stays, Live
<1>4. ASSUME NEW k \in Key, AddDocumentToCase(k) PROVE Stays(d)
  <2>1. PICK e \in Doc : doc[e] = Unused /\ \E r : doc' = [doc EXCEPT ![e] = r]
    BY <1>4 DEF AddDocumentToCase
  <2>2. doc'[d] = doc[d]
    BY <1>0, <2>1 DEF DocsTyped, Used
  <2> QED BY <2>2, RowStays
<1>5. ASSUME NEW e \in Doc, LeaveTrace(e) PROVE Stays(d)
  <2>1. doc' = [doc EXCEPT ![e].touched = TRUE]
    BY <1>5 DEF LeaveTrace
  <2>2. doc'[d] = IF d = e THEN [doc[d] EXCEPT !.touched = TRUE] ELSE doc[d]
    BY <1>0, <2>1 DEF DocsTyped
  <2>3. CASE d = e
    <3>1. doc'[d] = [doc[d] EXCEPT !.touched = TRUE]
      BY <2>2, <2>3
    <3> QED BY <1>0, <3>1 DEF DocCaseDocument, Stays, Used, Unused, Live
  <2>4. CASE d # e
    BY <2>2, <2>4, RowStays
  <2> QED BY <2>3, <2>4
<1>6. ASSUME NEW t \in Caller, CaseRequest(t) PROVE Stays(d)
  <2>1. UNCHANGED doc \/ CommitAssign(t) \/ CommitPropagate(t)
    BY <1>6 DEF CaseRequest, BeginAssign, ReadPresets, ReadTraces, BeginPropagate, LockPropagate, Fail
  <2> QED BY <1>1, <1>2, <1>3, <2>1
<1>7. Catalog \/ MoveCase \/ UNCHANGED checklistVars => UNCHANGED doc
  BY DEF Catalog, CreateComponentDocument, UpdateComponentDocument, DeleteComponentDocument, MoveCase, checklistVars
<1> QED BY <1>1, <1>4, <1>5, <1>6, <1>7 DEF ChecklistNext

\* Nothing that was done on a requirement is lost with the component that asked for it, unless
\* it was done after _reconcilePolicyDocument had looked for it: that retires only what came
\* from a component and bore no trace when it was read.
THEOREM NothingIsLost == ChecklistSpec => RequirementsStay
<1> DEFINE Stay == \A d \in Doc : Used(d) => Stays(d)
<1>1. ChecklistInv /\ [ChecklistNext]_checklistVars => [Stay]_checklistVars
  BY StepKeepsRequirements
<1>2. RequirementsStay <=> [][Stay]_checklistVars
  BY DEF RequirementsStay, Stays
<1> HIDE DEF Stay
<1> QED BY <1>1, <1>2, ChecklistInvariance, PTL DEF ChecklistSpec
=============================================================================
