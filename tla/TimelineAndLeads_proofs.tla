---------------------- MODULE TimelineAndLeads_proofs ----------------------
(***************************************************************************)
(* Proofs about the two components whose rows several requests write at a  *)
(* time: CaseTimeline, the stages of a case's plan, first; LeadLifecycle,  *)
(* the leads, second.                                                      *)
(*                                                                         *)
(* Theorems about CaseTimeline for any number of stages, requests and      *)
(* sweepers.  What a transition has read stays true until it commits,      *)
(* because another transition cannot commit while it holds a row; what a   *)
(* sweep has decided stays harmless, because there is one sweep at a time  *)
(* and only a sweep blocks.                                                *)
(***************************************************************************)
EXTENDS CaseTimeline, LeadLifecycle, FiniteSetTheorems, WellFoundedInduction, TLAPS

Settled(status) ==
    \A i \in Stage : status[i] \in Untouched => (status[i] = "READY" <=> Eligible(status, i))

Reading(t) == tx[t].pc \in {"flip", "sync"}
Sole(t) == Reading(t) /\ Transitions(t) /\ ~tx[t].crossed

\* No request is open before the timeline exists.
Opened == timeline = "none" => \A t \in Txn : tx[t] = Idle

\* An open request writes its own stage, and never blocks one.
Harmless ==
    \A t \in Txn : /\ At(t, "update") => tx[t].to # "BLOCKED"
                   /\ Reading(t) => /\ tx[t].w[tx[t].s] # Keep
                                    /\ \A i \in Stage : tx[t].w[i] # "BLOCKED"

\* What a transition that nothing crossed is about to commit is settled.
Prepared ==
    \A t \in Txn : Sole(t) => /\ Settled(Seen(t, tx[t].w))
                              /\ At(t, "sync") => tx[t].status = TimelineStatus(Seen(t, tx[t].w))

\* One sweep runs at a time, and what it is about to block is neither blocked nor freed.
OneSweep == \A k, l \in Sweeper : sweep[k] # Idle /\ sweep[l] # Idle => k = l
Aimed == \A k \in Sweeper : sweep[k] # Idle =>
            \A i \in sweep[k].block : i \notin freed /\ stage[i].status # "BLOCKED"
Freed == \A i \in freed : stage[i].unlocked /\ stage[i].status # "BLOCKED"

IInv == TypeOK /\ Opened /\ Harmless /\ Prepared /\ OneSweep /\ Aimed /\ Freed

-----------------------------------------------------------------------------
(* Writes and readiness.                                                    *)

LEMMA StatusType ==
  ASSUME NEW rows \in [Stage -> StageRow]
  PROVE  Status(rows) \in [Stage -> CaseStageStatus]
BY DEF Status, StageRow

LEMMA WithType ==
  ASSUME NEW status \in [Stage -> CaseStageStatus], NEW w \in Writes
  PROVE  With(status, w) \in [Stage -> CaseStageStatus]
BY DEF With, Writes, Keep

LEMMA ReadinessType ==
  ASSUME NEW status \in [Stage -> CaseStageStatus]
  PROVE  /\ Readiness(status) \in Writes
         /\ \A i \in Stage : Readiness(status)[i] \in {"READY", "PENDING", Keep}
BY DEF Readiness, Writes, CaseStageStatus

\* Writes over writes are writes, and applying them at once is applying them in order.
LEMMA WithWith ==
  ASSUME NEW status \in [Stage -> CaseStageStatus], NEW v \in Writes, NEW w \in Writes
  PROVE  /\ With(v, w) \in Writes
         /\ With(status, With(v, w)) = With(With(status, v), w)
BY DEF With, Writes, Keep

\* Flipping PENDING and READY finishes no stage and unfinishes none, so that one pass
\* leaves every untouched stage as its predecessor asks.
LEMMA ReadinessSettles ==
  ASSUME NEW status \in [Stage -> CaseStageStatus]
  PROVE  Settled(With(status, Readiness(status)))
<1> DEFINE new == With(status, Readiness(status))
<1>1. \A i \in Stage : new[i] \in TERMINAL <=> status[i] \in TERMINAL
  BY DEF With, Readiness, Untouched, TERMINAL, Keep
<1>2. \A i \in Stage : Eligible(new, i) <=> Eligible(status, i)
  <2> TAKE i \in Stage
  <2>1. CASE i = 1
    BY <2>1 DEF Eligible
  <2>2. CASE i # 1
    <3>1. i - 1 \in Stage
      BY <2>2, StageAssumption DEF Stage
    <3> QED BY <3>1, <1>1 DEF Eligible
  <2> QED BY <2>1, <2>2
<1>3. \A i \in Stage : new[i] \in Untouched => (new[i] = "READY" <=> Eligible(status, i))
  BY DEF With, Readiness, Untouched, Keep
<1> QED BY <1>2, <1>3 DEF Settled

-----------------------------------------------------------------------------
(* Types.                                                                   *)

LEMMA ToType ==
  ASSUME NEW op \in Operation, NEW row \in StageRow
  PROVE  To(op, row) \in CaseStageStatus /\ To(op, row) # "BLOCKED"
BY DEF To, Operation, From, StageRow, CaseStageStatus

\* A request that has read has the type of its step.
LEMMA ReadingType ==
  ASSUME TypeOK, NEW t \in Txn, Reading(t)
  PROVE  /\ tx[t].op \in Operation /\ tx[t].s \in Stage /\ tx[t].w \in Writes
         /\ tx[t].crossed \in BOOLEAN
         /\ Seen(t, tx[t].w) \in [Stage -> CaseStageStatus]
         /\ At(t, "sync") => tx[t].status \in {"ACTIVE", "COMPLETED"}
<1>1. tx[t] \in Work \cup {Idle}
  BY DEF TypeOK
<1>2. tx[t].op \in Operation /\ tx[t].s \in Stage /\ tx[t].w \in Writes /\ tx[t].crossed \in BOOLEAN
  BY <1>1 DEF Reading, Work, Idle
<1>3. At(t, "sync") => tx[t].status \in {"ACTIVE", "COMPLETED"}
  BY <1>1 DEF At, Work, Idle
<1> QED BY <1>2, <1>3, StatusType, WithType DEF Seen, TypeOK


-----------------------------------------------------------------------------
(* The initial state and the steps.                                         *)

LEMMA InitIInv == Init => IInv
<1> SUFFICES ASSUME Init PROVE IInv
  OBVIOUS
<1>1. TypeOK
  BY DEF Init, TypeOK, StageRow, NewStage, CaseStageStatus, Idle
<1>2. Opened /\ Harmless /\ Prepared /\ OneSweep /\ Aimed /\ Freed
  BY DEF Init, Opened, Harmless, Prepared, OneSweep, Aimed, Freed, Reading, Sole, At, Idle
<1> QED BY <1>1, <1>2 DEF IInv

\* What t sees depends on the rows and on its own writes only.
LEMMA SeenFrame ==
  ASSUME stage' = stage, NEW t \in Txn, tx'[t] = tx[t], Prepared, Sole(t)'
  PROVE  /\ Settled(Seen(t, tx[t].w))'
         /\ At(t, "sync")' => (tx[t].status = TimelineStatus(Seen(t, tx[t].w)))'
<1>1. Sole(t)
  BY DEF Sole, Reading, Transitions
<1>2. Seen(t, tx[t].w)' = Seen(t, tx[t].w)
  BY DEF Seen, With, Status
<1>3. Settled(Seen(t, tx[t].w)) /\ (At(t, "sync") => tx[t].status = TimelineStatus(Seen(t, tx[t].w)))
  BY <1>1 DEF Prepared
<1> QED BY <1>2, <1>3 DEF Settled, TimelineStatus, Eligible, At

LEMMA CreateKeeps ==
  ASSUME IInv, CreateTimeline PROVE IInv'
<1> USE DEF IInv
<1>1. \A t \in Txn : tx[t] = Idle
  BY DEF Opened, CreateTimeline
<1>2. /\ stage' \in [Stage -> StageRow]
      /\ \A i \in Stage : stage[i].status # "BLOCKED" => stage'[i].status # "BLOCKED"
      /\ \A i \in Stage : stage'[i].unlocked = stage[i].unlocked
  <2> DEFINE new == Status(stage)
             after == With(new, Readiness(new))
  <2>1. new \in [Stage -> CaseStageStatus] /\ after \in [Stage -> CaseStageStatus]
    BY StatusType, ReadinessType, WithType DEF TypeOK
  <2>2. stage' = [i \in Stage |-> [stage[i] EXCEPT !.status = after[i]]]
    BY DEF CreateTimeline
  <2>3. \A i \in Stage : after[i] = new[i] \/ after[i] \in {"READY", "PENDING"}
    BY <2>1, ReadinessType DEF With
  <2>4. \A i \in Stage : new[i] = stage[i].status
    BY DEF Status
  <2> HIDE DEF after, new
  <2> QED BY <2>1, <2>2, <2>3, <2>4 DEF TypeOK, StageRow
<1>3. TypeOK'
  BY <1>2 DEF TypeOK, CreateTimeline
<1>4. Aimed' /\ Freed'
  <2>1. \A k \in Sweeper : sweep[k] # Idle => sweep[k].block \subseteq Stage
    BY KindAssumption DEF TypeOK
  <2> QED BY <1>2, <2>1 DEF Aimed, Freed, TypeOK, CreateTimeline
<1> QED BY <1>1, <1>3, <1>4 DEF CreateTimeline, Opened, Harmless, Prepared, OneSweep, Sole, Reading, At, Idle

LEMMA BeginKeeps ==
  ASSUME IInv, NEW t \in Txn, NEW op \in Operation, NEW s \in Stage, Begin(t, op, s)
  PROVE  IInv'
<1> USE DEF IInv
<1>1. stage[s] \in StageRow /\ To(op, stage[s]) \in CaseStageStatus /\ To(op, stage[s]) # "BLOCKED"
  BY ToType DEF TypeOK
<1>2. TypeOK'
  BY <1>1 DEF TypeOK, Begin, Work
<1>3. \A u \in Txn : u # t => tx'[u] = tx[u]
  BY DEF Begin, TypeOK
<1>4. tx'[t] = [pc |-> "update", op |-> op, s |-> s, to |-> To(op, stage[s])]
  BY DEF Begin, TypeOK
<1>5. Harmless'
  <2>1. ~Reading(t)' /\ tx'[t].to # "BLOCKED"
    BY <1>1, <1>4 DEF Reading
  <2> QED BY <1>3, <2>1 DEF Harmless, At, Reading
<1>6. Prepared'
  <2>1. ~Sole(t)'
    BY <1>4 DEF Sole, Reading
  <2>2. stage' = stage
    BY DEF Begin
  <2> QED BY <1>3, <2>1, <2>2, SeenFrame DEF Prepared
<1> QED BY <1>2, <1>5, <1>6 DEF Begin, Opened, OneSweep, Aimed, Freed

LEMMA UpdateKeeps ==
  ASSUME IInv, NEW t \in Txn, Update(t) PROVE IInv'
<1> USE DEF IInv
<1>1. /\ tx[t].op \in Operation /\ tx[t].s \in Stage
      /\ tx[t].to \in CaseStageStatus /\ tx[t].to # "BLOCKED"
  BY DEF TypeOK, Update, At, Work, Idle, Harmless
<1> DEFINE own == [i \in Stage |-> IF i = tx[t].s THEN tx[t].to ELSE Keep]
           seen == Seen(t, own)
           w == With(own, Readiness(seen))
<1>2. own \in Writes /\ own[tx[t].s] # Keep /\ \A i \in Stage : own[i] # "BLOCKED"
  BY <1>1 DEF Writes, Keep, CaseStageStatus
<1>3. /\ seen \in [Stage -> CaseStageStatus]
      /\ Readiness(seen) \in Writes
      /\ \A i \in Stage : Readiness(seen)[i] \in {"READY", "PENDING", Keep}
  BY <1>2, StatusType, WithType, ReadinessType DEF Seen, TypeOK
<1>4. tx' = [tx EXCEPT ![t] = [pc |-> "flip", op |-> tx[t].op, s |-> tx[t].s,
                               w |-> w, crossed |-> FALSE]]
  BY DEF Update
<1> HIDE DEF own
<1>5. /\ w \in Writes
      /\ Seen(t, w) = With(seen, Readiness(seen))
  <2>1. Status(stage) \in [Stage -> CaseStageStatus]
    BY StatusType DEF TypeOK
  <2> QED BY <1>2, <1>3, <2>1, WithWith DEF Seen
<1>6. w[tx[t].s] # Keep /\ \A i \in Stage : w[i] # "BLOCKED"
  BY <1>1, <1>2, <1>3 DEF With, Keep
<1>7. Settled(Seen(t, w))
  BY <1>3, <1>5, ReadinessSettles
<1> HIDE DEF w, seen
<1>8. TypeOK'
  BY <1>1, <1>4, <1>5 DEF TypeOK, Update, Work
<1>9. /\ \A u \in Txn : u # t => tx'[u] = tx[u]
      /\ tx'[t] = [pc |-> "flip", op |-> tx[t].op, s |-> tx[t].s, w |-> w, crossed |-> FALSE]
  BY <1>4 DEF TypeOK
<1>10. stage' = stage
  BY DEF Update
<1>11. Harmless'
  <2>1. ~At(t, "update")' /\ tx'[t].w = w /\ tx'[t].s = tx[t].s
    BY <1>9 DEF At
  <2> QED BY <1>6, <1>9, <2>1 DEF Harmless, At, Reading
<1>12. Prepared'
  <2>1. ~At(t, "sync")' /\ tx'[t].w = w
    BY <1>9 DEF At
  <2>2. Seen(t, tx[t].w)' = Seen(t, w)
    BY <1>10, <2>1 DEF Seen, Status, With
  <2>3. Settled(Seen(t, tx[t].w))'
    BY <1>7, <2>2 DEF Settled, Eligible
  <2> QED BY <1>9, <1>10, <2>1, <2>3, SeenFrame DEF Prepared
<1>13. timeline # "none"
  BY DEF Opened, Update, At, Idle
<1> QED BY <1>8, <1>11, <1>12, <1>13 DEF Update, Opened, OneSweep, Aimed, Freed

LEMMA FlipKeeps ==
  ASSUME IInv, NEW t \in Txn, Flip(t) PROVE IInv'
<1> USE DEF IInv
<1>1. Reading(t)
  BY DEF Flip, At, Reading
<1>2. /\ tx[t].op \in Operation /\ tx[t].s \in Stage /\ tx[t].w \in Writes
      /\ tx[t].crossed \in BOOLEAN
  BY <1>1, ReadingType
<1> DEFINE status == TimelineStatus(Seen(t, tx[t].w))
<1>3. status \in {"ACTIVE", "COMPLETED"}
  BY DEF TimelineStatus
<1>4. tx' = [tx EXCEPT ![t] = [pc |-> "sync", op |-> tx[t].op, s |-> tx[t].s, w |-> tx[t].w,
                               crossed |-> tx[t].crossed, status |-> status]]
  BY DEF Flip
<1> HIDE DEF status
<1>5. TypeOK'
  BY <1>2, <1>3, <1>4 DEF TypeOK, Flip, Work
<1>6. /\ \A u \in Txn : u # t => tx'[u] = tx[u]
      /\ tx'[t] = [pc |-> "sync", op |-> tx[t].op, s |-> tx[t].s, w |-> tx[t].w,
                   crossed |-> tx[t].crossed, status |-> status]
  BY <1>4 DEF TypeOK
<1>7. /\ ~At(t, "update")' /\ tx'[t].w = tx[t].w /\ tx'[t].s = tx[t].s /\ tx'[t].status = status
      /\ Sole(t)' => Sole(t)
  BY <1>1, <1>6 DEF At, Sole, Transitions
<1>8. Harmless'
  BY <1>1, <1>6, <1>7 DEF Harmless, At, Reading
<1>9. stage' = stage
  BY DEF Flip
<1>10. Prepared'
  <2>1. Seen(t, tx[t].w)' = Seen(t, tx[t].w)
    BY <1>7, <1>9 DEF Seen, Status, With
  <2>2. Sole(t)' => Settled(Seen(t, tx[t].w))'
    BY <1>7, <2>1 DEF Prepared, Settled, Eligible
  <2>3. (tx[t].status = TimelineStatus(Seen(t, tx[t].w)))'
    BY <1>7, <2>1 DEF status, TimelineStatus
  <2> QED BY <1>6, <1>9, <2>2, <2>3, SeenFrame DEF Prepared
<1>11. timeline # "none"
  BY DEF Opened, Flip, At, Idle
<1> QED BY <1>5, <1>8, <1>10, <1>11 DEF Flip, Opened, OneSweep, Aimed, Freed

\* An open request holds the row of its stage, so no other transition can commit.
LEMMA HoldsItsRow ==
  ASSUME IInv, NEW t \in Txn, Reading(t), NEW u \in Txn, u # t
  PROVE  ~Free(u, Stage)
<1>1. tx[t].s \in Stage /\ tx[t].w[tx[t].s] # Keep
  BY ReadingType DEF IInv, Harmless
<1>2. tx[t].s \in Locked(t)
  BY <1>1 DEF Locked, Reading, At
<1> QED BY <1>1, <1>2 DEF Free

\* Marking the readers as crossed changes nothing else of theirs.
LEMMA CrossedWork ==
  ASSUME TypeOK, NEW t \in Txn, Reading(t)
  PROVE  LET c == [tx[t] EXCEPT !.crossed = TRUE]
         IN /\ c \in Work
            /\ c.pc = tx[t].pc /\ c.s = tx[t].s /\ c.w = tx[t].w /\ c.crossed = TRUE
<1>1. tx[t] \in Work
  BY DEF TypeOK, Reading, Idle
<1>2. CASE At(t, "flip")
  BY <1>1, <1>2 DEF At, Work
<1>3. CASE At(t, "sync")
  BY <1>1, <1>3 DEF At, Work
<1> QED BY <1>2, <1>3 DEF Reading, At

LEMMA AfterType ==
  ASSUME IInv, NEW t \in Txn, At(t, "sync")
  PROVE  /\ After(t) \in [Stage -> StageRow]
         /\ Status(After(t)) = Seen(t, tx[t].w)
         /\ \A i \in Stage : /\ stage[i].status # "BLOCKED" => After(t)[i].status # "BLOCKED"
                             /\ stage[i].unlocked => After(t)[i].unlocked
         /\ After(t)[tx[t].s].status # "BLOCKED"
         /\ tx[t].op = "unlock" => After(t)[tx[t].s].unlocked
<1>1. Reading(t) /\ tx[t].s \in Stage /\ tx[t].w \in Writes
      /\ Seen(t, tx[t].w) \in [Stage -> CaseStageStatus]
  BY ReadingType DEF IInv, At, Reading
<1>2. tx[t].w[tx[t].s] # Keep /\ \A i \in Stage : tx[t].w[i] # "BLOCKED"
  BY <1>1 DEF IInv, Harmless
<1>3. \A i \in Stage : /\ stage[i].status # "BLOCKED" => Seen(t, tx[t].w)[i] # "BLOCKED"
                       /\ tx[t].w[i] # Keep => Seen(t, tx[t].w)[i] # "BLOCKED"
  BY <1>2 DEF Seen, With, Status
<1>4. \A i \in Stage : stage[i].started \in BOOLEAN /\ stage[i].unlocked \in BOOLEAN
  BY DEF IInv, TypeOK, StageRow
<1>5. After(t) \in [Stage -> StageRow]
  BY <1>1, <1>4 DEF After, StageRow
<1>6. Status(After(t)) = Seen(t, tx[t].w)
  BY <1>1 DEF Status, After
<1> QED BY <1>1, <1>2, <1>3, <1>5, <1>6 DEF After

LEMMA CommitKeeps ==
  ASSUME IInv, NEW t \in Txn, Commit(t) PROVE IInv'
<1> USE DEF IInv
<1>1. At(t, "sync") /\ Reading(t) /\ tx[t].s \in Stage /\ tx[t].status \in {"ACTIVE", "COMPLETED"}
  BY ReadingType DEF Commit, At, Reading
<1>2. stage' = After(t) /\ timeline' = tx[t].status /\ sweep' = sweep
  BY DEF Commit
<1>3. freed' = freed \/ (/\ tx[t].op = "unlock" /\ stage[tx[t].s].status = "BLOCKED"
                         /\ freed' = freed \cup {tx[t].s})
  BY DEF Commit, Transitions
<1>4. /\ tx' \in [Txn -> Work \cup {Idle}]
      /\ tx'[t] = Idle
      /\ \A u \in Txn \ {t} : \/ ~Reading(u) /\ tx'[u] = tx[u]
                              \/ /\ Reading(u) /\ tx'[u].pc = tx[u].pc /\ tx'[u].s = tx[u].s
                                 /\ tx'[u].w = tx[u].w /\ tx'[u].crossed = TRUE
  <2>1. CASE Transitions(t)
    <3>1. \A u \in Txn \ {t} : ~Reading(u)
      BY <2>1, HoldsItsRow DEF Commit
    <3>2. tx' = [tx EXCEPT ![t] = Idle]
      BY <2>1 DEF Commit
    <3> QED BY <3>1, <3>2 DEF TypeOK
  <2>2. CASE ~Transitions(t)
    <3>1. tx' = Crossed(t)
      BY <2>2 DEF Commit
    <3>2. \A u \in Txn \ {t} : tx'[u] = IF Reading(u) THEN [tx[u] EXCEPT !.crossed = TRUE] ELSE tx[u]
      BY <3>1 DEF Crossed, Reading
    <3>3. tx'[t] = Idle /\ tx' = [u \in Txn |-> tx'[u]]
      BY <3>1 DEF Crossed
    <3>4. \A u \in Txn \ {t} : Reading(u) => /\ tx'[u] \in Work /\ tx'[u].pc = tx[u].pc
                                             /\ tx'[u].s = tx[u].s
                                             /\ tx'[u].w = tx[u].w /\ tx'[u].crossed = TRUE
      BY <3>2, CrossedWork
    <3>5. \A u \in Txn \ {t} : ~Reading(u) => tx'[u] = tx[u]
      BY <3>2
    <3>6. \A u \in Txn : tx'[u] \in Work \cup {Idle}
      BY <3>3, <3>4, <3>5 DEF TypeOK
    <3> QED BY <3>3, <3>4, <3>5, <3>6
  <2> QED BY <2>1, <2>2
<1>5. TypeOK'
  BY <1>1, <1>2, <1>3, <1>4, AfterType DEF TypeOK
<1>6. Opened'
  BY <1>1, <1>2 DEF Opened
<1>7. Harmless'
  <2> SUFFICES ASSUME NEW u \in Txn
               PROVE  /\ At(u, "update")' => tx'[u].to # "BLOCKED"
                      /\ Reading(u)' => /\ tx'[u].w[tx'[u].s] # Keep
                                        /\ \A i \in Stage : tx'[u].w[i] # "BLOCKED"
    BY DEF Harmless
  <2>1. CASE u = t
    BY <1>4, <2>1 DEF At, Reading, Idle
  <2>2. CASE u # t /\ ~Reading(u)
    BY <1>4, <2>2 DEF At, Reading, Harmless
  <2>3. CASE u # t /\ Reading(u)
    BY <1>4, <2>3 DEF At, Reading, Harmless
  <2> QED BY <2>1, <2>2, <2>3
<1>8. Prepared'
  <2>1. \A u \in Txn : ~Sole(u)'
    BY <1>4 DEF Sole, Reading, Idle
  <2> QED BY <2>1 DEF Prepared
<1>9. Aimed'
  <2>1. \A k \in Sweeper : sweep[k] # Idle => sweep[k].block \subseteq Stage
    BY KindAssumption DEF TypeOK
  <2> QED BY <1>1, <1>2, <1>3, <2>1, AfterType DEF Aimed
<1>10. Freed'
  BY <1>1, <1>2, <1>3, AfterType DEF Freed, TypeOK
<1> QED BY <1>2, <1>5, <1>6, <1>7, <1>8, <1>9, <1>10 DEF OneSweep

LEMMA AbortKeeps ==
  ASSUME IInv, NEW t \in Txn, Abort(t) PROVE IInv'
<1> USE DEF IInv
<1>1. \A u \in Txn : tx'[u] = tx[u] \/ tx'[u] = Idle
  BY DEF Abort, TypeOK
<1>2. TypeOK'
  BY DEF Abort, TypeOK
<1>3. stage' = stage
  BY DEF Abort
<1>4. Prepared'
  <2>1. \A u \in Txn : Sole(u)' => tx'[u] = tx[u]
    BY <1>1 DEF Sole, Reading, Idle
  <2> QED BY <1>3, <2>1, SeenFrame DEF Prepared
<1>5. Harmless'
  BY <1>1 DEF Harmless, At, Reading, Idle
<1> QED BY <1>1, <1>2, <1>4, <1>5 DEF Abort, Opened, OneSweep, Aimed, Freed

-----------------------------------------------------------------------------
(* The sweep.                                                               *)

\* What a sweep leaves alone: the requests and the rows.
LEMMA RequestsFrame ==
  ASSUME IInv, tx' = tx, stage' = stage, timeline' = timeline
  PROVE  Opened' /\ Harmless' /\ Prepared'
<1>1. \A t \in Txn : tx'[t] = tx[t]
  OBVIOUS
<1> QED BY <1>1, SeenFrame DEF IInv, Opened, Harmless, Prepared, At, Reading

LEMMA BeginSweepKeeps ==
  ASSUME IInv, NEW k \in Sweeper, BeginSweep(k) PROVE IInv'
<1> USE DEF IInv
<1>1. PICK overdue \in SUBSET Blockable \ {{}} : sweep' = [sweep EXCEPT ![k] = [block |-> overdue]]
  BY DEF BeginSweep
<1>2. overdue \subseteq HardBlock /\ overdue \subseteq Stage
      /\ \A i \in overdue : ~stage[i].unlocked /\ stage[i].status # "BLOCKED"
  BY KindAssumption DEF Blockable
<1>3. \A l \in Sweeper : sweep[l] = Idle
  BY DEF BeginSweep, IsRunning
<1>4. tx' = tx /\ stage' = stage /\ timeline' = timeline /\ freed' = freed
  BY DEF BeginSweep
<1>5. TypeOK'
  BY <1>1, <1>2, <1>4 DEF TypeOK
<1>6. /\ sweep'[k].block = overdue
      /\ \A l \in Sweeper \ {k} : sweep'[l] = Idle
  BY <1>1, <1>3 DEF TypeOK
<1>7. OneSweep' /\ Aimed' /\ Freed'
  BY <1>2, <1>4, <1>6 DEF OneSweep, Aimed, Freed
<1> QED BY <1>4, <1>5, <1>7, RequestsFrame

LEMMA CommitSweepKeeps ==
  ASSUME IInv, NEW k \in Sweeper, CommitSweep(k) PROVE IInv'
<1> USE DEF IInv
<1>1. sweep[k] # Idle /\ \A l \in Sweeper : sweep'[l] = Idle
  BY DEF CommitSweep, OneSweep, TypeOK
<1>2. timeline' = timeline /\ freed' = freed
  BY DEF CommitSweep
<1>3. stage' = [i \in Stage |->
          IF i \in sweep[k].block THEN [stage[i] EXCEPT !.status = "BLOCKED"] ELSE stage[i]]
  BY DEF CommitSweep
<1>4. stage' \in [Stage -> StageRow]
  BY <1>3 DEF TypeOK, StageRow, CaseStageStatus
<1>5. \A t \in Txn : tx'[t] = IF Reading(t) THEN [tx[t] EXCEPT !.crossed = TRUE] ELSE tx[t]
  BY DEF CommitSweep, Reading
<1>6. \A t \in Txn : Reading(t) => /\ tx'[t] \in Work /\ tx'[t].pc = tx[t].pc
                                   /\ tx'[t].s = tx[t].s
                                   /\ tx'[t].w = tx[t].w /\ tx'[t].crossed = TRUE
  BY <1>5, CrossedWork
<1>7. \A t \in Txn : ~Reading(t) => tx'[t] = tx[t]
  BY <1>5
<1>8. TypeOK'
  <2>1. \A t \in Txn : tx'[t] \in Work \cup {Idle}
    BY <1>6, <1>7 DEF TypeOK
  <2>2. tx' = [t \in Txn |-> tx'[t]]
    BY DEF CommitSweep
  <2>3. sweep' = [sweep EXCEPT ![k] = Idle]
    BY DEF CommitSweep
  <2> QED BY <1>2, <1>4, <2>1, <2>2, <2>3 DEF TypeOK
<1>9. Harmless'
  BY <1>6, <1>7 DEF Harmless, At, Reading
<1>10. Prepared'
  <2>1. \A t \in Txn : ~Sole(t)'
    BY <1>6, <1>7 DEF Sole, Reading
  <2> QED BY <2>1 DEF Prepared
<1>11. Opened'
  <2>1. \A t \in Txn : tx[t] = Idle => tx'[t] = Idle
    BY <1>7 DEF Reading, Idle
  <2> QED BY <1>2, <2>1 DEF Opened
<1>12. Freed'
  <2>1. \A i \in freed : i \in Stage /\ i \notin sweep[k].block
    BY <1>1 DEF Aimed, TypeOK
  <2> QED BY <1>2, <1>3, <2>1 DEF Freed
<1> QED BY <1>1, <1>8, <1>9, <1>10, <1>11, <1>12 DEF OneSweep, Aimed

LEMMA FailSweepKeeps ==
  ASSUME IInv, NEW k \in Sweeper, FailSweep(k) PROVE IInv'
<1> USE DEF IInv
<1>1. \A l \in Sweeper : sweep'[l] = sweep[l] \/ sweep'[l] = Idle
  BY DEF FailSweep, TypeOK
<1>2. TypeOK'
  BY DEF FailSweep, TypeOK
<1>3. tx' = tx /\ stage' = stage /\ timeline' = timeline /\ freed' = freed
  BY DEF FailSweep
<1>4. OneSweep' /\ Aimed' /\ Freed'
  BY <1>1, <1>3 DEF OneSweep, Aimed, Freed
<1> QED BY <1>2, <1>3, <1>4, RequestsFrame

-----------------------------------------------------------------------------
(* The theorems.                                                            *)

LEMMA Inductive == IInv /\ [Next]_vars => IInv'
<1> SUFFICES ASSUME IInv, [Next]_vars PROVE IInv'
  OBVIOUS
<1>1. CASE CreateTimeline
  BY <1>1, CreateKeeps
<1>2. ASSUME NEW t \in Txn, Update(t) \/ Flip(t) \/ Commit(t) \/ Abort(t) PROVE IInv'
  BY <1>2, UpdateKeeps, FlipKeeps, CommitKeeps, AbortKeeps
<1>3. ASSUME NEW t \in Txn, NEW op \in Operation, NEW s \in Stage, Begin(t, op, s) PROVE IInv'
  BY <1>3, BeginKeeps
<1>4. ASSUME NEW k \in Sweeper, BeginSweep(k) \/ CommitSweep(k) \/ FailSweep(k) PROVE IInv'
  BY <1>4, BeginSweepKeeps, CommitSweepKeeps, FailSweepKeeps
<1>5. CASE UNCHANGED vars
  <2>1. TypeOK' /\ OneSweep' /\ Aimed' /\ Freed'
    BY <1>5 DEF vars, IInv, TypeOK, OneSweep, Aimed, Freed
  <2> QED BY <1>5, <2>1, RequestsFrame DEF vars, IInv
<1> QED BY <1>1, <1>2, <1>3, <1>4, <1>5 DEF Next

LEMMA Invariance == Spec => []IInv
<1> QED BY InitIInv, Inductive, PTL DEF Spec

\* Every reachable value has its type.
THEOREM TypeCorrect == Spec => []TypeOK
<1>1. IInv => TypeOK
  BY DEF IInv
<1> QED BY <1>1, Invariance, PTL

\* A stage that an unlock found blocked is never blocked again: the sweep that reads it
\* afterwards sees the unlock, and no sweep that read it before is still running.
THEOREM UnlockIsFinal == Spec => []UnlockedStaysUnlocked
<1>1. IInv => UnlockedStaysUnlocked
  BY DEF IInv, Freed, UnlockedStaysUnlocked
<1> QED BY <1>1, Invariance, PTL

\* What a committing transition leaves is what it had prepared.
LEMMA CommitSettles ==
  ASSUME IInv, NEW t \in Txn, Undisturbed(t), Commit(t)
  PROVE  /\ Settled(Status(stage'))
         /\ timeline' = TimelineStatus(Status(stage'))
<1>1. Sole(t)
  BY DEF Undisturbed, Sole, Reading, At
<1>2. At(t, "sync") /\ stage' = After(t) /\ timeline' = tx[t].status
  BY DEF Commit
<1>3. Status(stage') = Seen(t, tx[t].w)
  BY <1>2, AfterType
<1> QED BY <1>1, <1>2, <1>3 DEF IInv, Prepared

\* The status of the timeline is right after every transition that neither an unlock nor
\* the sweep crossed, although syncTimelineStatus locks nothing it reads: planning locks
\* every row in its stead.
THEOREM TimelineSettles == Spec => TransitionSettlesTimeline
<1>1. IInv => \A t \in Txn : Undisturbed(t) /\ Commit(t)
         => (timeline' = "COMPLETED" <=> \A i \in Stage : stage'[i].status \in TERMINAL)
  <2> SUFFICES ASSUME IInv, NEW t \in Txn, Undisturbed(t), Commit(t)
               PROVE  timeline' = "COMPLETED" <=> \A i \in Stage : stage'[i].status \in TERMINAL
    OBVIOUS
  <2>1. timeline' = TimelineStatus(Status(stage'))
    BY CommitSettles
  <2> QED BY <2>1 DEF TimelineStatus, Status
<1> QED BY <1>1, Invariance, PTL DEF TransitionSettlesTimeline

\* Readiness, likewise.
THEOREM ReadinessIsSettled == Spec => TransitionSettlesReadiness
<1>1. IInv => \A t \in Txn : Undisturbed(t) /\ Commit(t)
         => \A i \in Stage : stage'[i].status \in Untouched
              => (stage'[i].status = "READY" <=> Eligible(Status(stage'), i))
  <2> SUFFICES ASSUME IInv, NEW t \in Txn, Undisturbed(t), Commit(t), NEW i \in Stage,
                      stage'[i].status \in Untouched
               PROVE  stage'[i].status = "READY" <=> Eligible(Status(stage'), i)
    OBVIOUS
  <2>1. Settled(Status(stage'))
    BY CommitSettles
  <2>2. Status(stage')[i] = stage'[i].status
    BY DEF Status
  <2> QED BY <2>1, <2>2 DEF Settled
<1> QED BY <1>1, Invariance, PTL DEF TransitionSettlesReadiness

-----------------------------------------------------------------------------
(* LeadLifecycle.  A request that nothing overtook still finds what it has  *)
(* read: the date an update computed fits the stage, a conversion's lead is *)
(* not converted, and an automatic assignment's distribution is still the   *)
(* fair one.  The bounds on the follow-ups and the opportunities are those  *)
(* of the number of requests made.                                          *)

\* The types, but for the opportunities opened without a conversion: nothing here
\* depends on them.
Typed ==
    /\ lead \in [Lead -> Row]
    /\ opps \in [Lead -> 0..MaxRequests]
    /\ open \in [Slot -> Request \cup {NoRequest}]
    /\ begun \in 0..MaxRequests

Ops == {s \in Slot : open[s].op # "idle"}

\* What a request's fields hold, by its operation.
CarriesAll ==
    \A s \in Ops : open[s].op \in {"MANUAL", "AUTO"} => open[s].to \in [open[s].leads -> Owner]

StageAfter(row, given) == IF given.stage = "-" THEN row.stage ELSE given.stage
DateAfter(row, given) == IF given.date = "-" THEN row.date ELSE given.date = "set"

\* What a request that nothing overtook knows of the rows.
KnowsLead(r, row) ==
    /\ r.op = "UPDATE" /\ ~row.loose =>
         (DateAfter(row, r.given) <=> StageAfter(row, r.given) \in FOLLOW_UP_REQUIRED_STAGES)
    /\ r.op = "CONVERT" => row.status = "OPEN"
KnowsAll == \A s \in Ops : ~open[s].overtaken => \A l \in open[s].leads : KnowsLead(open[s], lead[l])

\* One automatic assignment of a department is open at a time, and what it has computed
\* is still fair.
OneAuto ==
    \A s, t \in Ops :
        open[s].op = "AUTO" /\ open[t].op = "AUTO" /\ open[s].dept = open[t].dept => s = t
StaysFair ==
    \A s \in Ops : open[s].op = "AUTO" /\ ~open[s].overtaken =>
        /\ open[s].dept \in Department
        /\ \A L, to, d : L = open[s].leads /\ to = open[s].to /\ d = open[s].dept =>
              to \in Distribution(d, L) /\ \A l \in L : Live(l)

\* A row that n opportunities refer to, after b requests.
RowOK(row, n, b) ==
    /\ row.asked <= b /\ row.pending <= 1 + row.asked
    /\ ~row.loose => (row.date <=> row.stage \in FOLLOW_UP_REQUIRED_STAGES)
    /\ n <= row.again + 1 /\ (row.status = "OPEN" => n <= row.again)
    /\ row.where = "absent" => n = 0
RowsOK == \A l \in Lead : RowOK(lead[l], opps[l], begun)

\* An opportunity was a request, and so will be the next ones.
Converting(l) == {s \in Slot : open[s].op = "CONVERT" /\ l \in open[s].leads}
OppsCounted == \A l \in Lead : opps[l] + Cardinality(Converting(l)) <= begun

\* The inductive invariant.
LeadsInv ==
    /\ Typed /\ CarriesAll /\ KnowsAll /\ OneAuto /\ StaysFair /\ RowsOK /\ OppsCounted

-----------------------------------------------------------------------------
(* What the writes make of a row.                                           *)

\* A row whose counts are not bounded yet.
WideRow == [where : {"absent", "live", "bin", "expired", "gone"}, owner : Owner, manager : Owner,
            status : LeadStatus, stage : LeadStage, date : BOOLEAN, loose : BOOLEAN, again : Nat,
            pending : Nat, asked : Nat]

LEMMA RowIsWide == Row \subseteq WideRow
BY BoundAssumption DEF Row, WideRow

LEMMA WideIsRow ==
  ASSUME NEW row \in WideRow, NEW n, NEW b \in 0..MaxRequests, RowOK(row, n, b)
  PROVE  row \in Row
<1>1. row.pending \in Nat /\ row.asked \in Nat
  BY DEF WideRow
<1>2. row.asked \in 0..MaxRequests
  BY <1>1, BoundAssumption DEF RowOK
<1>3. row.pending \in 0..(MaxRequests + 1)
  BY <1>1, BoundAssumption DEF RowOK
<1> QED BY <1>2, <1>3 DEF WideRow, Row

\* Another place, and another owner.
LEMMA MovedRow ==
  ASSUME NEW row \in WideRow, NEW n, NEW b, RowOK(row, n, b), NEW where \in {"live", "bin", "expired", "gone"}
  PROVE  [row EXCEPT !.where = where] \in WideRow /\ RowOK([row EXCEPT !.where = where], n, b)
<1> DEFINE q == [row EXCEPT !.where = where]
<1>1. q \in WideRow /\ q.where = where
  BY DEF WideRow
<1>2. /\ q.asked = row.asked /\ q.pending = row.pending /\ q.loose = row.loose /\ q.again = row.again
      /\ q.date = row.date /\ q.stage = row.stage /\ q.status = row.status
  BY DEF WideRow
<1> HIDE DEF q
<1>3. RowOK(q, n, b)
  BY <1>1, <1>2 DEF RowOK
<1> QED BY <1>1, <1>3 DEF q

Assigned(row, o, m) == [row EXCEPT !.owner = o, !.manager = m]

LEMMA GivenRow ==
  ASSUME NEW row \in WideRow, NEW n, NEW b, RowOK(row, n, b), NEW o \in Owner, NEW m \in Owner
  PROVE  LET q == Assigned(row, o, m)
         IN /\ q \in WideRow /\ RowOK(q, n, b)
            /\ q.owner = o /\ q.where = row.where /\ q.status = row.status
<1> DEFINE q == Assigned(row, o, m)
<1>1. q \in WideRow /\ q.where = row.where /\ q.owner = o
  BY DEF WideRow, Assigned
<1>2. /\ q.asked = row.asked /\ q.pending = row.pending /\ q.loose = row.loose /\ q.again = row.again
      /\ q.date = row.date /\ q.stage = row.stage /\ q.status = row.status
  BY DEF WideRow, Assigned
<1> HIDE DEF q
<1>3. RowOK(q, n, b)
  BY <1>1, <1>2 DEF RowOK
<1> QED BY <1>1, <1>2, <1>3 DEF q

LEMMA FreshRow ==
  ASSUME NEW o \in Owner, NEW st \in LeadStage, NEW b \in Nat
  PROVE  Fresh(o, st) \in WideRow /\ RowOK(Fresh(o, st), 0, b)
<1> DEFINE d == st \in FOLLOW_UP_REQUIRED_STAGES
<1>1. d \in BOOLEAN /\ Nobody \in Owner
  BY DEF Owner
<1>2. Fresh(o, st) = [where |-> "live", owner |-> o, manager |-> Nobody, status |-> "OPEN",
                         stage |-> st, date |-> d, loose |-> FALSE, again |-> 0, pending |-> 0, asked |-> 0]
  BY DEF Fresh
<1>3. d <=> st \in FOLLOW_UP_REQUIRED_STAGES
  OBVIOUS
<1> HIDE DEF d
<1>4. Fresh(o, st) \in WideRow
  BY <1>1, <1>2 DEF WideRow, LeadStatus
<1>5. RowOK(Fresh(o, st), 0, b)
  BY <1>1, <1>2, <1>3 DEF RowOK
<1> QED BY <1>4, <1>5

LEMMA ConvertedRow ==
  ASSUME NEW row \in WideRow, NEW n \in Nat, NEW b, RowOK(row, n, b), NEW late \in BOOLEAN,
         ~late => row.status = "OPEN", row.where # "absent"
  PROVE  LET q == [row EXCEPT !.status = "CONVERTED", !.again = IF late THEN row.again + 1 ELSE row.again]
         IN q \in WideRow /\ RowOK(q, n + 1, b)
<1> DEFINE again == IF late THEN row.again + 1 ELSE row.again
           q == [row EXCEPT !.status = "CONVERTED", !.again = again]
<1>0. row.again \in Nat
  BY DEF WideRow
<1>1. again \in Nat /\ (late => again = row.again + 1) /\ (~late => again = row.again)
  BY <1>0
<1> HIDE DEF again
<1>2. q \in WideRow /\ q.where = row.where /\ q.status = "CONVERTED" /\ q.again = again
  BY <1>1 DEF WideRow, LeadStatus
<1>3. /\ q.asked = row.asked /\ q.pending = row.pending /\ q.loose = row.loose
      /\ q.date = row.date /\ q.stage = row.stage
  BY DEF WideRow
<1> HIDE DEF q
<1>4. n + 1 <= q.again + 1
  BY <1>0, <1>1, <1>2 DEF RowOK
<1>5. RowOK(q, n + 1, b)
  BY <1>2, <1>3, <1>4 DEF RowOK
<1> QED BY <1>2, <1>5 DEF q, again

\* The update's own request r knows the row unless it is late.
LEMMA UpdatedRow ==
  ASSUME Typed, NEW s \in Ops, open[s].op = "UPDATE",
         NEW row \in WideRow, NEW n \in Nat, NEW b \in Nat, RowOK(row, n, b),
         ~open[s].overtaken => KnowsLead(open[s], row)
  PROVE  Updated(row, s) \in WideRow /\ RowOK(Updated(row, s), n, b)
<1> DEFINE r == open[s]
           given == r.given
           timed == IF r.due THEN WithFollowUp(row) ELSE row
           moved == IF given.owner = "-" THEN timed
                    ELSE [timed EXCEPT !.owner = given.owner,
                                       !.manager = IF given.owner = Nobody THEN Nobody ELSE r.user]
           status == IF given.status = "-" THEN moved.status ELSE given.status
           st == IF given.stage = "-" THEN moved.stage ELSE given.stage
           date == IF given.date = "-" THEN moved.date ELSE given.date = "set"
           loose == moved.loose \/ r.overtaken
           again == IF given.status = "-" THEN moved.again ELSE moved.again + 1
           q == Updated(row, s)
<1>1. /\ r.given \in Given /\ r.user \in User /\ r.overtaken \in BOOLEAN
  BY DEF Typed, Ops, Request, NoRequest
<1>2. q = [moved EXCEPT !.status = status, !.stage = st, !.date = date, !.loose = loose, !.again = again]
  BY DEF Updated
<1>3. /\ timed \in WideRow /\ timed.asked <= b /\ timed.pending <= 1 + timed.asked
      /\ timed.status = row.status /\ timed.stage = row.stage /\ timed.date = row.date
      /\ timed.loose = row.loose /\ timed.again = row.again /\ timed.where = row.where
  <2> DEFINE w == WithFollowUp(row)
  <2>1. /\ w \in WideRow /\ w.asked = 0 /\ w.pending = 1
        /\ w.status = row.status /\ w.stage = row.stage /\ w.date = row.date
        /\ w.loose = row.loose /\ w.again = row.again /\ w.where = row.where
    BY DEF WithFollowUp, WideRow
  <2>2. row.asked <= b /\ row.pending <= 1 + row.asked
    BY DEF RowOK
  <2> HIDE DEF w
  <2>3. timed = IF r.due THEN w ELSE row
    BY DEF w
  <2> HIDE DEF timed
  <2> QED BY <2>1, <2>2, <2>3
<1> HIDE DEF timed
<1>4. /\ moved \in WideRow /\ moved.asked = timed.asked /\ moved.pending = timed.pending
      /\ moved.status = timed.status /\ moved.stage = timed.stage /\ moved.date = timed.date
      /\ moved.loose = timed.loose /\ moved.again = timed.again /\ moved.where = timed.where
  <2>1. CASE given.owner = "-"
    BY <1>3, <2>1
  <2>2. CASE given.owner # "-"
    <3> DEFINE o == given.owner
               m == IF o = Nobody THEN Nobody ELSE r.user
    <3>1. o \in Owner /\ r.user \in Owner /\ Nobody \in Owner
      BY <1>1, <2>2 DEF Given, Owner
    <3>2. m \in Owner
      BY <3>1
    <3>3. moved = [timed EXCEPT !.owner = o, !.manager = m]
      BY <2>2
    <3> HIDE DEF o, m, moved
    <3>4. timed \in WideRow
      BY <1>3
    <3> QED BY <3>1, <3>2, <3>3, <3>4 DEF WideRow
  <2> QED BY <2>1, <2>2
<1>5. /\ status \in LeadStatus /\ st \in LeadStage /\ date \in BOOLEAN
      /\ loose \in BOOLEAN /\ again \in Nat
  <2>1. /\ moved.status \in LeadStatus /\ moved.stage \in LeadStage /\ moved.date \in BOOLEAN
        /\ moved.loose \in BOOLEAN /\ moved.again \in Nat
    <3> HIDE DEF moved
    <3> QED BY <1>4 DEF WideRow
  <2>2. /\ given.status \in LeadStatus \cup {"-"} /\ given.stage \in LeadStage \cup {"-"}
        /\ r.overtaken \in BOOLEAN
    BY <1>1 DEF Given
  <2> HIDE DEF moved, given
  <2>3. status \in LeadStatus /\ st \in LeadStage
    BY <2>1, <2>2
  <2>4. date \in BOOLEAN
    BY <2>1
  <2>5. loose \in BOOLEAN
    BY <2>1, <2>2
  <2>6. again \in Nat
    BY <2>1
  <2> QED BY <2>3, <2>4, <2>5, <2>6
<1>6. ~loose => ~row.loose /\ ~r.overtaken
  BY <1>3, <1>4
<1>7. /\ row.again \in Nat
      /\ (again = row.again /\ status = row.status) \/ again = row.again + 1
  <2>1. moved.again = row.again /\ moved.status = row.status
    BY <1>3, <1>4
  <2>2. row.again \in Nat
    BY DEF WideRow
  <2> HIDE DEF moved
  <2> QED BY <2>1, <2>2
<1>8. st = StageAfter(row, given) /\ (date <=> DateAfter(row, given))
  BY <1>3, <1>4 DEF StageAfter, DateAfter
<1>9. ~loose => (date <=> st \in FOLLOW_UP_REQUIRED_STAGES)
  BY <1>6, <1>8 DEF KnowsLead
<1> HIDE DEF moved, status, st, date, loose, again, q
<1>10. /\ q \in WideRow /\ q.status = status /\ q.stage = st /\ q.date = date /\ q.loose = loose /\ q.again = again
       /\ q.asked = moved.asked /\ q.pending = moved.pending /\ q.where = moved.where
  BY <1>2, <1>4, <1>5 DEF WideRow
<1>11. n <= q.again + 1 /\ (q.status = "OPEN" => n <= q.again)
  BY <1>7, <1>10 DEF RowOK
<1>12. q.where = "absent" => n = 0
  BY <1>3, <1>4, <1>10 DEF RowOK
<1>13. q.asked <= b /\ q.pending <= 1 + q.asked
  BY <1>3, <1>4, <1>10
<1>14. RowOK(q, n, b)
  BY <1>9, <1>10, <1>11, <1>12, <1>13 DEF RowOK
<1> QED BY <1>10, <1>14 DEF q

\* The import's overwrite answers for nothing but the follow-ups.
LEMMA OverwrittenRow ==
  ASSUME NEW row \in WideRow, NEW n, NEW b, RowOK(row, n, b), NEW st \in LeadStage, NEW dated \in BOOLEAN
  PROVE  LET q == [row EXCEPT !.stage = st, !.date = dated, !.loose = TRUE]
         IN q \in WideRow /\ RowOK(q, n, b)
<1> DEFINE q == [row EXCEPT !.stage = st, !.date = dated, !.loose = TRUE]
<1>1. /\ q \in WideRow /\ q.where = row.where /\ q.loose /\ q.asked = row.asked /\ q.pending = row.pending
      /\ q.again = row.again /\ q.status = row.status
  BY DEF WideRow
<1> HIDE DEF q
<1>2. RowOK(q, n, b)
  BY <1>1 DEF RowOK
<1> QED BY <1>1, <1>2 DEF q

\* Follow-ups that people ask for or complete.
Followed(row, p, a) == [row EXCEPT !.pending = p, !.asked = a]

LEMMA FollowedRow ==
  ASSUME NEW row \in WideRow, NEW n, NEW b \in Nat, RowOK(row, n, b), NEW p \in Nat, NEW a \in Nat,
         p <= 1 + a, a <= b + 1
  PROVE  LET q == Followed(row, p, a)
         IN /\ q \in WideRow /\ RowOK(q, n, b + 1)
            /\ q.stage = row.stage /\ q.date = row.date /\ q.loose = row.loose /\ q.status = row.status
            /\ q.where = row.where /\ q.owner = row.owner
<1> DEFINE q == Followed(row, p, a)
<1>1. q \in WideRow /\ q.asked = a /\ q.pending = p
  BY DEF WideRow, Followed
<1>2. /\ q.where = row.where /\ q.loose = row.loose /\ q.again = row.again
      /\ q.date = row.date /\ q.stage = row.stage /\ q.status = row.status /\ q.owner = row.owner
  BY DEF WideRow, Followed
<1> HIDE DEF q
<1>3. RowOK(q, n, b + 1)
  BY <1>1, <1>2 DEF RowOK
<1> QED BY <1>1, <1>2, <1>3 DEF q

-----------------------------------------------------------------------------
(* What a write leaves of the requests.                                     *)

LEMMA SlotsAre ==
  ASSUME Typed
  PROVE  /\ \A s \in Ops : s \in Slot /\ open[s] \in Request /\ open[s].op # "idle"
         /\ \A s \in Slot \ Ops : open[s] = NoRequest
         /\ NoRequest \notin Request /\ NoRequest.op = "idle"
         /\ \A l \in Lead : lead[l] \in WideRow /\ opps[l] \in Nat
         /\ begun \in Nat /\ begun <= MaxRequests
<1>1. \A s \in Slot : open[s] \in Request \cup {NoRequest}
  BY DEF Typed
<1>2. NoRequest \notin Request /\ NoRequest.op = "idle" /\ \A r \in Request : r.op # "idle"
  BY DEF Request, NoRequest
<1>3. \A l \in Lead : lead[l] \in WideRow /\ opps[l] \in Nat
  BY RowIsWide, BoundAssumption DEF Typed
<1>4. begun \in Nat /\ begun <= MaxRequests
  BY BoundAssumption DEF Typed
<1> QED BY <1>1, <1>2, <1>3, <1>4 DEF Ops

\* The requests but those that are gone go on, and those that read a row in L know it.
GoesOn(gone, L, op, d) ==
    /\ open' \in [Slot -> Request \cup {NoRequest}]
    /\ Ops' = Ops \ gone
    /\ \A t \in Ops \ gone :
          /\ open'[t].op = open[t].op /\ open'[t].leads = open[t].leads
          /\ open'[t].given = open[t].given /\ open'[t].to = open[t].to /\ open'[t].dept = open[t].dept
          /\ ~open'[t].overtaken =>
                /\ ~open[t].overtaken
                /\ \/ open[t].op # "AUTO" /\ open[t].leads \cap L = {}
                   \/ open[t].op = "AUTO" /\ (L = {} \/ (op = "AUTO" /\ open[t].dept = d))

LEMMA OvertakingIs ==
  ASSUME Typed, NEW op, NEW d, NEW L \in SUBSET Lead
  PROVE  /\ Overtaking(op, d, L) \in [Slot -> Request \cup {NoRequest}]
         /\ \A t \in Slot \ Ops : Overtaking(op, d, L)[t] = open[t]
         /\ \A t \in Ops :
               LET q == Overtaking(op, d, L)[t]
               IN /\ q \in Request /\ q.op = open[t].op /\ q.leads = open[t].leads
                  /\ q.given = open[t].given /\ q.to = open[t].to /\ q.dept = open[t].dept
                  /\ ~q.overtaken =>
                       /\ ~open[t].overtaken
                       /\ \/ open[t].op # "AUTO" /\ open[t].leads \cap L = {}
                          \/ open[t].op = "AUTO" /\ (L = {} \/ (op = "AUTO" /\ open[t].dept = d))
<1> DEFINE next(t) == [open[t] EXCEPT !.overtaken = TRUE]
           hit(t) == open[t].op # "idle" /\ Reads(t) \cap L # {} /\ ~(op = "AUTO" /\ HoldsLock(t, d))
           o == Overtaking(op, d, L)
<1>1. o = [t \in Slot |-> IF hit(t) THEN next(t) ELSE open[t]]
  BY DEF Overtaking
<1>2. ASSUME NEW t \in Ops
      PROVE  /\ open[t] \in Request /\ open[t].op # "idle"
             /\ next(t) \in Request /\ next(t).overtaken
             /\ next(t).op = open[t].op /\ next(t).leads = open[t].leads
             /\ next(t).given = open[t].given /\ next(t).to = open[t].to /\ next(t).dept = open[t].dept
  <2>1. open[t] \in Request /\ open[t].op # "idle"
    BY SlotsAre
  <2> QED BY <2>1 DEF Request
<1>3. ASSUME NEW t \in Ops, ~hit(t)
      PROVE  \/ open[t].op # "AUTO" /\ open[t].leads \cap L = {}
             \/ open[t].op = "AUTO" /\ (L = {} \/ (op = "AUTO" /\ open[t].dept = d))
  <2>1. Reads(t) \cap L = {} \/ (op = "AUTO" /\ open[t].op = "AUTO" /\ open[t].dept = d)
    BY <1>2, <1>3 DEF HoldsLock
  <2>2. CASE open[t].op = "AUTO"
    <3>1. Lead \cap L = {} => L = {}
      OBVIOUS
    <3> QED BY <2>1, <2>2, <3>1 DEF Reads
  <2>3. CASE open[t].op # "AUTO"
    BY <2>1, <2>3 DEF Reads
  <2> QED BY <2>2, <2>3
<1>4. \A t \in Slot \ Ops : ~hit(t) /\ open[t] = NoRequest
  BY SlotsAre DEF Ops
<1> HIDE DEF next, hit
<1>5. o \in [Slot -> Request \cup {NoRequest}]
  BY <1>1, <1>2, <1>4
<1>6. \A t \in Slot : o[t] = IF hit(t) THEN next(t) ELSE open[t]
  BY <1>1
<1> HIDE DEF o
<1>7. \A t \in Slot \ Ops : o[t] = open[t]
  BY <1>4, <1>6
<1>8. ASSUME NEW t \in Ops
      PROVE  /\ o[t] \in Request /\ o[t].op = open[t].op /\ o[t].leads = open[t].leads
             /\ o[t].given = open[t].given /\ o[t].to = open[t].to /\ o[t].dept = open[t].dept
             /\ ~o[t].overtaken =>
                  /\ ~open[t].overtaken
                  /\ \/ open[t].op # "AUTO" /\ open[t].leads \cap L = {}
                     \/ open[t].op = "AUTO" /\ (L = {} \/ (op = "AUTO" /\ open[t].dept = d))
  <2>1. t \in Slot
    BY DEF Ops
  <2>2. CASE hit(t)
    BY <1>2, <1>6, <2>1, <2>2
  <2>3. CASE ~hit(t)
    BY <1>2, <1>3, <1>6, <2>1, <2>3
  <2> QED BY <2>2, <2>3
<1> QED BY <1>5, <1>7, <1>8 DEF o

LEMMA MoveGoesOn ==
  ASSUME Typed, NEW op, NEW d, NEW L \in SUBSET Lead, open' = Overtaking(op, d, L)
  PROVE  GoesOn({}, L, op, d)
<1>1. /\ open' \in [Slot -> Request \cup {NoRequest}]
      /\ \A t \in Slot \ Ops : open'[t] = open[t]
      /\ \A t \in Ops :
            /\ open'[t] \in Request /\ open'[t].op = open[t].op /\ open'[t].leads = open[t].leads
            /\ open'[t].given = open[t].given /\ open'[t].to = open[t].to /\ open'[t].dept = open[t].dept
            /\ ~open'[t].overtaken =>
                 /\ ~open[t].overtaken
                 /\ \/ open[t].op # "AUTO" /\ open[t].leads \cap L = {}
                    \/ open[t].op = "AUTO" /\ (L = {} \/ (op = "AUTO" /\ open[t].dept = d))
  BY OvertakingIs
<1>2. Ops' = Ops
  BY <1>1, SlotsAre DEF Ops
<1> QED BY <1>1, <1>2 DEF GoesOn

LEMMA WriteGoesOn ==
  ASSUME Typed, NEW s \in Ops, NEW L \in SUBSET Lead,
         open' = [Overtaking(open[s].op, open[s].dept, L) EXCEPT ![s] = NoRequest]
  PROVE  GoesOn({s}, L, open[s].op, open[s].dept)
<1> DEFINE o == Overtaking(open[s].op, open[s].dept, L)
<1>1. /\ o \in [Slot -> Request \cup {NoRequest}]
      /\ \A t \in Slot \ Ops : o[t] = open[t]
      /\ \A t \in Ops :
            /\ o[t] \in Request /\ o[t].op = open[t].op /\ o[t].leads = open[t].leads
            /\ o[t].given = open[t].given /\ o[t].to = open[t].to /\ o[t].dept = open[t].dept
            /\ ~o[t].overtaken =>
                 /\ ~open[t].overtaken
                 /\ \/ open[t].op # "AUTO" /\ open[t].leads \cap L = {}
                    \/ open[t].op = "AUTO" /\ (L = {} \/ (open[s].op = "AUTO" /\ open[t].dept = open[s].dept))
  BY OvertakingIs
<1> HIDE DEF o
<1>2. /\ open' \in [Slot -> Request \cup {NoRequest}]
      /\ \A t \in Slot : open'[t] = IF t = s THEN NoRequest ELSE o[t]
  BY <1>1 DEF o
<1>3. Ops' = Ops \ {s}
  BY <1>1, <1>2, SlotsAre DEF Ops
<1>4. \A t \in Ops \ {s} : open'[t] = o[t]
  BY <1>2 DEF Ops
<1> QED BY <1>1, <1>2, <1>3, <1>4 DEF GoesOn

LEMMA StopGoesOn ==
  ASSUME Typed, NEW s \in Ops, open' = [open EXCEPT ![s] = NoRequest]
  PROVE  GoesOn({s}, {}, "NONE", NoDepartment)
<1>1. /\ open' \in [Slot -> Request \cup {NoRequest}]
      /\ \A t \in Slot : open'[t] = IF t = s THEN NoRequest ELSE open[t]
  BY DEF Typed, Ops
<1>2. Ops' = Ops \ {s}
  BY <1>1, SlotsAre DEF Ops
<1>3. \A t \in Ops \ {s} : open'[t] = open[t]
  BY <1>1 DEF Ops
<1> QED BY <1>1, <1>2, <1>3 DEF GoesOn

LEMMA ConvertingIsFinite ==
  ASSUME NEW l
  PROVE  IsFiniteSet(Converting(l)) /\ Cardinality(Converting(l)) \in Nat
<1>1. IsFiniteSet(Slot)
  BY BoundAssumption, FS_Interval DEF Slot
<1>2. Converting(l) \subseteq Slot
  BY DEF Converting
<1> QED BY <1>1, <1>2, FS_Subset, FS_CardinalityType

\* No conversion is begun: an opportunity more takes a conversion that was open.
LEMMA FewerConvert ==
  ASSUME Typed, NEW gone, NEW L, NEW op, NEW d, GoesOn(gone, L, op, d), NEW l \in Lead
  PROVE  /\ Cardinality(Converting(l)') <= Cardinality(Converting(l))
         /\ Cardinality(Converting(l)') \in Nat
         /\ \A s \in gone : s \in Converting(l) => Cardinality(Converting(l)') + 1 <= Cardinality(Converting(l))
<1> DEFINE next == Converting(l)'
<1>1. next = {s \in Ops \ gone : open'[s].op = "CONVERT" /\ l \in open'[s].leads}
  <2>1. next = {s \in Slot : open'[s].op = "CONVERT" /\ l \in open'[s].leads}
    BY DEF Converting
  <2>2. \A s \in Slot : open'[s].op = "CONVERT" => s \in Ops'
    BY DEF Ops
  <2>3. Ops' = Ops \ gone /\ Ops \subseteq Slot
    BY DEF GoesOn, Ops
  <2> QED BY <2>1, <2>2, <2>3
<1>2. next \subseteq Converting(l) /\ next \cap gone = {}
  BY <1>1 DEF GoesOn, Converting, Ops
<1> HIDE DEF next
<1>3. IsFiniteSet(Converting(l)) /\ Cardinality(Converting(l)) \in Nat
  BY ConvertingIsFinite
<1>4. IsFiniteSet(next) /\ Cardinality(next) \in Nat /\ Cardinality(next) <= Cardinality(Converting(l))
  BY <1>2, <1>3, FS_Subset, FS_CardinalityType
<1>5. ASSUME NEW s \in gone, s \in Converting(l)
      PROVE  Cardinality(next) + 1 <= Cardinality(Converting(l))
  <2>1. /\ IsFiniteSet(Converting(l) \ {s})
        /\ Cardinality(Converting(l) \ {s}) = Cardinality(Converting(l)) - 1
    BY <1>3, <1>5, FS_RemoveElement
  <2>2. next \subseteq Converting(l) \ {s}
    BY <1>2
  <2>3. Cardinality(next) <= Cardinality(Converting(l) \ {s})
    BY <2>1, <2>2, FS_Subset
  <2> QED BY <1>3, <1>4, <2>1, <2>3
<1> QED BY <1>4, <1>5 DEF next

LEMMA SameDistribution ==
  ASSUME NEW d, NEW L, \A l \in Lead : /\ lead'[l].where = lead[l].where /\ lead'[l].owner = lead[l].owner
                                /\ lead'[l].status = lead[l].status
  PROVE  Distribution(d, L)' = Distribution(d, L)
<1>1. ASSUME NEW u PROVE Workload(u, L)' = Workload(u, L)
  <2>1. {l \in Lead \ L : Live(l) /\ lead[l].owner = u /\ lead[l].status = "OPEN"}'
          = {l \in Lead \ L : Live(l) /\ lead[l].owner = u /\ lead[l].status = "OPEN"}
    BY DEF Live
  <2> QED BY <2>1 DEF Workload
<1> QED BY <1>1 DEF Distribution

\* A write keeps the invariant if the rows it writes are as they should be.
LEMMA WriteKeeps ==
  ASSUME LeadsInv, NEW gone \in SUBSET Ops, NEW L \in SUBSET Lead, NEW op, NEW d, GoesOn(gone, L, op, d),
         op = "AUTO" => \E s \in gone : open[s].op = "AUTO" /\ open[s].dept = d,
         lead' \in [Lead -> WideRow], \A l \in Lead \ L : lead'[l] = lead[l],
         begun' \in Nat, begun <= begun', begun' <= MaxRequests,
         opps' \in [Lead -> Nat], \A l \in Lead \ L : opps'[l] = opps[l],
         \A l \in L : RowOK(lead'[l], opps'[l], begun'),
         \A l \in Lead : opps'[l] + Cardinality(Converting(l)') <= begun'
  PROVE  LeadsInv'
<1>0. /\ Typed /\ CarriesAll /\ KnowsAll /\ OneAuto /\ StaysFair /\ RowsOK
      /\ \A s \in Ops : s \in Slot
  BY DEF LeadsInv, Ops
<1>1. \A l \in Lead : lead[l] \in WideRow /\ opps[l] \in Nat /\ lead'[l] \in WideRow /\ opps'[l] \in Nat
  BY <1>0, SlotsAre
<1>2. begun \in Nat
  BY <1>0, SlotsAre
<1>3. RowsOK'
  <2>1. ASSUME NEW l \in Lead \ L PROVE RowOK(lead'[l], opps'[l], begun')
    <3>1. lead[l].asked \in Nat /\ RowOK(lead[l], opps[l], begun)
      BY <1>0, <1>1 DEF WideRow, RowsOK
    <3>2. RowOK(lead[l], opps[l], begun')
      BY <1>2, <3>1 DEF RowOK
    <3> QED BY <3>2
  <2> QED BY <2>1 DEF RowsOK
<1>4. \A l \in Lead : opps'[l] <= begun'
  <2>1. \A l \in Lead : Cardinality(Converting(l)') \in Nat
    BY <1>0, FewerConvert
  <2> QED BY <1>1, <2>1
<1>5. Typed'
  <2>1. begun' \in 0..MaxRequests
    BY BoundAssumption
  <2>2. \A l \in Lead : lead'[l] \in Row
    <3>1. \A l \in Lead : lead'[l] \in WideRow /\ RowOK(lead'[l], opps'[l], begun')
      BY <1>1, <1>3 DEF RowsOK
    <3> QED BY <2>1, <3>1, WideIsRow
  <2>3. \A l \in Lead : opps'[l] \in 0..MaxRequests
    BY <1>1, <1>4, BoundAssumption
  <2>4. lead' \in [Lead -> Row]
    BY <2>2
  <2>5. opps' \in [Lead -> 0..MaxRequests]
    BY <2>3
  <2>6. open' \in [Slot -> Request \cup {NoRequest}]
    BY DEF GoesOn
  <2> QED BY <2>1, <2>4, <2>5, <2>6 DEF Typed
<1>6. CarriesAll'
  BY <1>0 DEF GoesOn, CarriesAll
<1>7. KnowsAll'
  <2> SUFFICES ASSUME NEW t \in Ops \ gone, ~open'[t].overtaken, NEW l \in open[t].leads
               PROVE  KnowsLead(open'[t], lead'[l])
    BY DEF GoesOn, KnowsAll
  <2>1. /\ open'[t].op = open[t].op /\ open'[t].given = open[t].given /\ ~open[t].overtaken
        /\ open[t].op # "AUTO" => open[t].leads \cap L = {}
    BY DEF GoesOn
  <2>2. KnowsLead(open[t], lead[l])
    BY <1>0, <2>1 DEF KnowsAll
  <2>3. CASE open[t].op = "AUTO"
    BY <2>1, <2>3 DEF KnowsLead
  <2>4. CASE open[t].op # "AUTO"
    <3>1. l \in Lead
      BY <1>0, SlotsAre DEF Request
    <3>2. lead'[l] = lead[l]
      BY <2>1, <2>4, <3>1
    <3> QED BY <2>1, <2>2, <3>2 DEF KnowsLead
  <2> QED BY <2>3, <2>4
<1>8. OneAuto'
  BY <1>0 DEF GoesOn, OneAuto
<1>9. StaysFair'
  <2> SUFFICES ASSUME NEW t \in Ops \ gone, open[t].op = "AUTO", ~open'[t].overtaken,
                      NEW K, NEW to, NEW d0, K = open[t].leads, to = open[t].to, d0 = open[t].dept
               PROVE  /\ to \in Distribution(d0, K)' /\ \A l \in K : Live(l)'
                      /\ d0 \in Department
    BY DEF GoesOn, StaysFair
  <2>1. ~open[t].overtaken /\ (L = {} \/ (op = "AUTO" /\ open[t].dept = d))
    BY DEF GoesOn
  <2>2. ~(op = "AUTO" /\ open[t].dept = d)
    BY <1>0 DEF OneAuto
  <2>3. \A l \in Lead : lead'[l] = lead[l]
    BY <2>1, <2>2
  <2>4. Distribution(d0, K)' = Distribution(d0, K)
    BY <2>3, SameDistribution
  <2>5. K \subseteq Lead
    BY <1>0, SlotsAre DEF Request
  <2>6. \A l \in K : Live(l)' = Live(l)
    BY <2>3, <2>5 DEF Live
  <2>7. to \in Distribution(d0, K) /\ (\A l \in K : Live(l)) /\ d0 \in Department
    BY <1>0, <2>1 DEF StaysFair
  <2> QED BY <2>4, <2>6, <2>7
<1>10. OppsCounted'
  BY DEF OppsCounted
<1> QED BY <1>3, <1>5, <1>6, <1>7, <1>8, <1>9, <1>10 DEF LeadsInv

\* The same for a write that makes no opportunity.
LEMMA PlainWriteKeeps ==
  ASSUME LeadsInv, NEW gone \in SUBSET Ops, NEW L \in SUBSET Lead, NEW op, NEW d, GoesOn(gone, L, op, d),
         op = "AUTO" => \E s \in gone : open[s].op = "AUTO" /\ open[s].dept = d,
         lead' \in [Lead -> WideRow], \A l \in Lead \ L : lead'[l] = lead[l],
         begun' \in Nat, begun <= begun', begun' <= MaxRequests,
         opps' = opps, \A l \in L : RowOK(lead'[l], opps[l], begun')
  PROVE  LeadsInv'
<1>0. Typed /\ OppsCounted
  BY DEF LeadsInv
<1>1. opps' \in [Lead -> Nat] /\ \A l \in Lead : opps'[l] = opps[l] /\ opps[l] \in Nat
  BY <1>0, BoundAssumption DEF Typed
<1>2. ASSUME NEW l \in Lead PROVE opps'[l] + Cardinality(Converting(l)') <= begun'
  <2>1. opps[l] + Cardinality(Converting(l)) <= begun
    BY <1>0 DEF OppsCounted
  <2>2. /\ Cardinality(Converting(l)') <= Cardinality(Converting(l))
        /\ Cardinality(Converting(l)') \in Nat
    BY <1>0, FewerConvert
  <2>3. Cardinality(Converting(l)) \in Nat /\ begun \in Nat
    BY <1>0, ConvertingIsFinite, SlotsAre
  <2> QED BY <1>1, <2>1, <2>2, <2>3
<1>3. \A l \in L : RowOK(lead'[l], opps'[l], begun')
  OBVIOUS
<1> QED BY <1>1, <1>2, <1>3, WriteKeeps

\* The rows that are the same in what the requests read leave the requests alone.
LEMMA TouchKeeps ==
  ASSUME LeadsInv, lead' \in [Lead -> WideRow], begun < MaxRequests, begun' = begun + 1,
         opps' = opps, open' = open,
         \A l \in Lead : /\ RowOK(lead'[l], opps[l], begun')
                         /\ lead'[l].where = lead[l].where /\ lead'[l].owner = lead[l].owner
                         /\ lead'[l].status = lead[l].status /\ lead'[l].stage = lead[l].stage
                         /\ lead'[l].date = lead[l].date /\ lead'[l].loose = lead[l].loose
  PROVE  LeadsInv'
<1>0. Typed /\ CarriesAll /\ KnowsAll /\ OneAuto /\ StaysFair /\ OppsCounted
  BY DEF LeadsInv
<1>1. begun' \in 0..MaxRequests /\ begun \in Nat
  BY <1>0, BoundAssumption DEF Typed
<1>2. RowsOK'
  BY DEF RowsOK
<1>3. lead' \in [Lead -> Row]
  BY <1>1, WideIsRow
<1>4. Typed'
  BY <1>0, <1>1, <1>3 DEF Typed
<1>5. CarriesAll' /\ OneAuto' /\ Ops' = Ops
  BY <1>0 DEF CarriesAll, OneAuto, Ops
<1>6. KnowsAll'
  <2>1. \A s \in Ops : open[s].leads \subseteq Lead
    BY <1>0, SlotsAre DEF Request
  <2> QED BY <1>0, <1>5, <2>1 DEF KnowsAll, KnowsLead, DateAfter, StageAfter
<1>7. StaysFair'
  <2> SUFFICES ASSUME NEW t \in Ops, open[t].op = "AUTO", ~open[t].overtaken,
                      NEW K, NEW to, NEW d0, K = open[t].leads, to = open[t].to, d0 = open[t].dept
               PROVE  /\ to \in Distribution(d0, K)' /\ \A l \in K : Live(l)'
                      /\ d0 \in Department
    BY <1>5 DEF StaysFair
  <2>1. Distribution(d0, K)' = Distribution(d0, K)
    BY SameDistribution
  <2>2. K \subseteq Lead
    BY <1>0, SlotsAre DEF Request
  <2>3. \A l \in K : Live(l)' = Live(l)
    BY <2>2 DEF Live
  <2>4. to \in Distribution(d0, K) /\ (\A l \in K : Live(l)) /\ d0 \in Department
    BY <1>0 DEF StaysFair
  <2> QED BY <2>1, <2>3, <2>4
<1>8. OppsCounted'
  <2>1. \A l \in Lead : Converting(l)' = Converting(l)
    BY DEF Converting
  <2>2. ASSUME NEW l \in Lead PROVE (opps[l] + Cardinality(Converting(l)) <= begun)'
    <3>1. opps[l] + Cardinality(Converting(l)) <= begun
      BY <1>0 DEF OppsCounted
    <3>2. Cardinality(Converting(l)) \in Nat /\ opps[l] \in Nat
      BY <1>0, ConvertingIsFinite, SlotsAre
    <3> QED BY <1>1, <2>1, <3>1, <3>2
  <2> QED BY <2>2 DEF OppsCounted
<1> QED BY <1>2, <1>4, <1>5, <1>6, <1>7, <1>8 DEF LeadsInv

LEMMA StopKeeps ==
  ASSUME LeadsInv, NEW s \in Ops, NotFound(s)
  PROVE  LeadsInv'
<1>0. Typed /\ open' = [open EXCEPT ![s] = NoRequest] /\ UNCHANGED <<lead, opps, begun>>
  BY DEF LeadsInv, NotFound
<1>1. GoesOn({s}, {}, "NONE", NoDepartment)
  BY <1>0, StopGoesOn
<1>2. lead' \in [Lead -> WideRow] /\ begun' \in Nat /\ begun <= begun' /\ begun' <= MaxRequests
  BY <1>0, SlotsAre DEF Typed
<1> QED BY <1>0, <1>1, <1>2, PlainWriteKeeps

-----------------------------------------------------------------------------
(* Requests begin.                                                          *)

LEMMA BeginRequestKeeps ==
  ASSUME LeadsInv, NEW s \in Slot, NEW op \in {"UPDATE", "CONVERT", "MANUAL", "AUTO"}, NEW u \in User,
         NEW d \in Department \cup {NoDepartment}, NEW L \in SUBSET Lead, NEW given \in Given, NEW to \in [L -> Owner] \cup [{} -> Owner],
         BeginRequest(s, op, d, u, L, given, to),
         op \in {"MANUAL", "AUTO"} => to \in [L -> Owner],
         \A l \in L : op = "UPDATE" /\ ~lead[l].loose =>
             (DateAfter(lead[l], given) <=> StageAfter(lead[l], given) \in FOLLOW_UP_REQUIRED_STAGES),
         \A l \in L : op = "CONVERT" => lead[l].status = "OPEN",
         op = "AUTO" => LockFree(d) /\ d \in Department /\ to \in Distribution(d, L) /\ \A l \in L : Live(l)
  PROVE  LeadsInv'
<1> DEFINE due == Schedules(L, given)
           r == [op |-> op, dept |-> d, user |-> u, leads |-> L, given |-> given, due |-> due, to |-> to,
                 overtaken |-> FALSE]
<1>0. /\ begun < MaxRequests /\ begun' = begun + 1 /\ open[s].op = "idle"
      /\ open' = [open EXCEPT ![s] = r] /\ lead' = lead /\ opps' = opps
  BY DEF BeginRequest, Make
<1>1. /\ Typed /\ CarriesAll /\ KnowsAll /\ OneAuto /\ StaysFair /\ RowsOK /\ OppsCounted
      /\ s \notin Ops /\ Ops \subseteq Slot
  BY <1>0 DEF LeadsInv, Ops
<1>2. due \in BOOLEAN
  BY DEF Schedules
<1> HIDE DEF due
<1>3. r \in Request
  <2>1. to \in UNION {[K -> Owner] : K \in SUBSET Lead}
    OBVIOUS
  <2> QED BY <1>2, <2>1 DEF Request
<1>4. /\ r.op = op /\ r.leads = L /\ r.given = given /\ r.to = to /\ r.dept = d /\ r.overtaken = FALSE /\ r.op # "idle"
  OBVIOUS
<1> HIDE DEF r
<1>5. /\ open' \in [Slot -> Request \cup {NoRequest}]
      /\ open'[s] = r /\ \A t \in Ops : open'[t] = open[t]
  BY <1>0, <1>1, <1>3 DEF Typed
<1>6. Ops' = Ops \cup {s}
  <2>1. \A t \in Slot : open'[t] = IF t = s THEN r ELSE open[t]
    BY <1>0, <1>1 DEF Typed
  <2> QED BY <1>4, <2>1 DEF Ops
<1>7. begun \in Nat /\ begun' \in 0..MaxRequests
  BY <1>0, <1>1, BoundAssumption DEF Typed
<1>8. Typed'
  BY <1>0, <1>1, <1>5, <1>7 DEF Typed
<1>9. RowsOK'
  <2>1. \A l \in Lead : RowOK(lead[l], opps[l], begun) /\ lead[l].asked \in Nat
    BY <1>1, SlotsAre DEF RowsOK, WideRow
  <2> QED BY <1>0, <1>7, <2>1 DEF RowsOK, RowOK
<1>10. CarriesAll'
  BY <1>1, <1>4, <1>5, <1>6 DEF CarriesAll
<1>11. KnowsAll'
  <2>1. \A l \in L : KnowsLead(r, lead[l])
    BY <1>4 DEF KnowsLead
  <2> QED BY <1>0, <1>1, <1>4, <1>5, <1>6, <2>1 DEF KnowsAll
<1>12. OneAuto'
  BY <1>1, <1>4, <1>5, <1>6 DEF OneAuto, LockFree, HoldsLock
<1>13. StaysFair'
  <2>1. \A e, K : Distribution(e, K)' = Distribution(e, K)
    BY <1>0, SameDistribution
  <2>2. \A l \in Lead : Live(l)' = Live(l)
    BY <1>0 DEF Live
  <2>3. ASSUME NEW t \in Ops', open'[t].op = "AUTO", ~open'[t].overtaken,
               NEW K, NEW assigned, NEW e, K = open'[t].leads, assigned = open'[t].to, e = open'[t].dept
        PROVE  assigned \in Distribution(e, K)' /\ (\A l \in K : Live(l)') /\ e \in Department
    <3>1. CASE t = s
      BY <1>4, <1>5, <2>1, <2>2, <2>3, <3>1
    <3>2. CASE t # s
      <4>1. t \in Ops /\ open'[t] = open[t]
        BY <1>5, <1>6, <3>2
      <4>2. K \subseteq Lead
        BY <1>1, <2>3, <4>1, SlotsAre DEF Request
      <4>3. assigned \in Distribution(e, K) /\ (\A l \in K : Live(l)) /\ e \in Department
        BY <1>1, <2>3, <4>1 DEF StaysFair
      <4> QED BY <2>1, <2>2, <4>2, <4>3
    <3> QED BY <3>1, <3>2
  <2> QED BY <2>3 DEF StaysFair
<1>14. OppsCounted'
  <2>1. ASSUME NEW l \in Lead PROVE opps'[l] + Cardinality(Converting(l)') <= begun'
    <3> DEFINE next == Converting(l)'
    <3>1. opps[l] + Cardinality(Converting(l)) <= begun /\ opps[l] \in Nat
      BY <1>1, SlotsAre DEF OppsCounted
    <3>2. IsFiniteSet(Converting(l)) /\ Cardinality(Converting(l)) \in Nat
      BY ConvertingIsFinite
    <3>3. next \subseteq Converting(l) \cup {s}
      <4>1. next = {t \in Slot : open'[t].op = "CONVERT" /\ l \in open'[t].leads}
        BY DEF Converting
      <4>2. \A t \in Slot : t # s => open'[t] = open[t]
        BY <1>0, <1>1 DEF Typed
      <4> QED BY <4>1, <4>2 DEF Converting
    <3> HIDE DEF next
    <3>4. s \notin Converting(l)
      BY <1>0 DEF Converting
    <3>5. /\ IsFiniteSet(Converting(l) \cup {s})
          /\ Cardinality(Converting(l) \cup {s}) = Cardinality(Converting(l)) + 1
      BY <3>2, <3>4, FS_AddElement
    <3>6. Cardinality(next) <= Cardinality(Converting(l) \cup {s}) /\ Cardinality(next) \in Nat
      BY <3>3, <3>5, FS_Subset, FS_CardinalityType
    <3>7. opps'[l] + Cardinality(next) <= begun'
      BY <1>0, <1>7, <3>1, <3>2, <3>5, <3>6
    <3> QED BY <3>7 DEF next
  <2> QED BY <2>1 DEF OppsCounted
<1> QED BY <1>8, <1>9, <1>10, <1>11, <1>12, <1>13, <1>14 DEF LeadsInv

\* A valid update leaves a date exactly where its stage asks for one.
LEMMA NormalisedFits ==
  ASSUME NEW l \in Lead, lead[l] \in WideRow, NEW given \in Given, DatedOK(l, Normalised(l, given)),
         ~lead[l].loose => (lead[l].date <=> lead[l].stage \in FOLLOW_UP_REQUIRED_STAGES)
  PROVE  LET n == Normalised(l, given)
         IN /\ n \in Given
            /\ ~lead[l].loose => (DateAfter(lead[l], n) <=> StageAfter(lead[l], n) \in FOLLOW_UP_REQUIRED_STAGES)
<1> DEFINE n == Normalised(l, given)
           plain == EffectiveStage(l, given) \notin FOLLOW_UP_REQUIRED_STAGES
<1>1. n = IF plain /\ (given.date # "-" \/ lead[l].date) THEN [given EXCEPT !.date = "clear"] ELSE given
  BY DEF Normalised
<1>2. n \in Given /\ n.stage = given.stage
  BY <1>1 DEF Given
<1>3. StageAfter(lead[l], n) = EffectiveStage(l, given) /\ EffectiveStage(l, n) = EffectiveStage(l, given)
  BY <1>2 DEF StageAfter, EffectiveStage
<1>4. CASE plain
  <2>1. DateAfter(lead[l], n) = FALSE
    <3>1. CASE given.date # "-" \/ lead[l].date
      <4>1. n = [given EXCEPT !.date = "clear"]
        BY <1>1, <1>4, <3>1
      <4>2. n.date = "clear"
        BY <4>1 DEF Given
      <4> QED BY <4>2 DEF DateAfter
    <3>2. CASE ~(given.date # "-" \/ lead[l].date)
      <4>1. n.date = "-" /\ lead[l].date = FALSE
        BY <1>1, <3>2 DEF WideRow
      <4> QED BY <4>1 DEF DateAfter
    <3> QED BY <3>1, <3>2
  <2> QED BY <1>2, <1>3, <1>4, <2>1
<1>5. CASE ~plain
  <2>1. n = given
    BY <1>1, <1>5
  <2>2. CASE given.stage # "-" \/ given.date # "-"
    <3>1. IF given.date = "-" THEN lead[l].date ELSE given.date = "set"
      BY <1>5, <2>1, <2>2 DEF DatedOK
    <3>2. DateAfter(lead[l], n)
      BY <2>1, <3>1 DEF DateAfter
    <3> QED BY <1>2, <1>3, <1>5, <3>2
  <2>3. CASE given.stage = "-" /\ given.date = "-"
    <3>1. DateAfter(lead[l], n) = lead[l].date /\ StageAfter(lead[l], n) = lead[l].stage
      BY <2>1, <2>3 DEF DateAfter, StageAfter
    <3> QED BY <1>2, <3>1
  <2> QED BY <2>2, <2>3
<1> QED BY <1>4, <1>5

LEMMA BeginUpdateKeeps ==
  ASSUME LeadsInv, NEW s \in Slot, NEW u \in User, NEW l \in Lead, NEW given \in Given,
         BeginUpdate(s, u, l, given)
  PROVE  LeadsInv'
<1>1. Typed /\ RowsOK
  BY DEF LeadsInv
<1> DEFINE n == Normalised(l, given)
           to == [k \in {} |-> Nobody]
           L == {l}
<1>2. /\ n \in Given
      /\ ~lead[l].loose => (DateAfter(lead[l], n) <=> StageAfter(lead[l], n) \in FOLLOW_UP_REQUIRED_STAGES)
  BY <1>1, NormalisedFits, SlotsAre DEF RowsOK, RowOK, BeginUpdate
<1>3. BeginRequest(s, "UPDATE", NoDepartment, u, L, n, to)
  BY DEF BeginUpdate
<1>4. to \in [L -> Owner] \cup [{} -> Owner]
  OBVIOUS
<1>5. L \in SUBSET Lead /\ \A k \in L : k = l
  OBVIOUS
<1> HIDE DEF n, to, L
<1> QED BY <1>2, <1>3, <1>4, <1>5, BeginRequestKeeps

LEMMA BeginConvertKeeps ==
  ASSUME LeadsInv, NEW s \in Slot, NEW u \in User, NEW l \in Lead, BeginConvert(s, u, l)
  PROVE  LeadsInv'
<1> DEFINE to == [k \in {} |-> Nobody]
           L == {l}
<1>1. lead[l].status = "OPEN"
  BY SlotsAre DEF LeadsInv, BeginConvert, WideRow, LeadStatus
<1>2. BeginRequest(s, "CONVERT", NoDepartment, u, L, Nothing, to)
  BY DEF BeginConvert
<1>3. to \in [L -> Owner] \cup [{} -> Owner] /\ Nothing \in Given
  BY DEF Nothing, Given
<1>4. L \in SUBSET Lead /\ \A k \in L : k = l
  OBVIOUS
<1> HIDE DEF to, L
<1> QED BY <1>1, <1>2, <1>3, <1>4, BeginRequestKeeps

LEMMA BeginManualKeeps ==
  ASSUME LeadsInv, NEW s \in Slot, NEW u \in User, NEW L \in SUBSET Lead, NEW target \in User,
         BeginManual(s, u, L, target)
  PROVE  LeadsInv'
<1> DEFINE K == {l \in L : Live(l)}
           to == [l \in K |-> target]
<1>1. BeginRequest(s, "MANUAL", NoDepartment, u, K, Nothing, to)
  BY DEF BeginManual
<1>2. to \in [K -> Owner] /\ K \in SUBSET Lead /\ Nothing \in Given
  BY DEF Owner, Nothing, Given
<1> HIDE DEF K, to
<1> QED BY <1>1, <1>2, BeginRequestKeeps

LEMMA BeginAutoKeeps ==
  ASSUME LeadsInv, NEW s \in Slot, NEW u \in User, NEW d \in Department, NEW L \in SUBSET Lead,
         BeginAuto(s, u, d, L)
  PROVE  LeadsInv'
<1> DEFINE K == {l \in L : Live(l)}
<1>1. PICK to \in Distribution(d, K) : BeginRequest(s, "AUTO", d, u, K, Nothing, to)
  BY DEF BeginAuto
<1>2. K \in SUBSET Lead /\ (\A l \in K : Live(l)) /\ Nothing \in Given
  BY DEF Nothing, Given
<1> HIDE DEF K
<1>3. to \in [K -> Owner]
  <2>1. to \in [K -> Staff[d]]
    BY DEF Distribution
  <2> QED BY <2>1, ScopeAssumption DEF Owner
<1>4. LockFree(d)
  BY DEF BeginAuto
<1> QED BY <1>1, <1>2, <1>3, <1>4, BeginRequestKeeps

-----------------------------------------------------------------------------
(* Requests commit, and those of one statement.                             *)

LEMMA CommitUpdateKeeps ==
  ASSUME LeadsInv, NEW s \in Slot, CommitUpdate(s)
  PROVE  LeadsInv'
<1>0. Typed /\ KnowsAll /\ RowsOK /\ open[s].op = "UPDATE" /\ s \in Ops
  BY DEF LeadsInv, CommitUpdate, Ops
<1>1. CASE ~\A l \in open[s].leads : Live(l) /\ InScope(open[s].user, l)
  BY <1>0, <1>1, StopKeeps DEF CommitUpdate
<1>2. CASE \A l \in open[s].leads : Live(l) /\ InScope(open[s].user, l)
  <2> DEFINE L == open[s].leads
  <2>1. /\ lead' = [l \in Lead |-> IF l \in L THEN Updated(lead[l], s) ELSE lead[l]]
        /\ open' = [Overtaking(open[s].op, open[s].dept, L) EXCEPT ![s] = NoRequest]
        /\ opps' = opps /\ begun' = begun
    BY <1>2 DEF CommitUpdate, Write
  <2>2. L \in SUBSET Lead
    BY <1>0, SlotsAre DEF Request
  <2>3. GoesOn({s}, L, "UPDATE", open[s].dept)
    BY <1>0, <2>1, <2>2, WriteGoesOn
  <2>4. begun' \in Nat /\ begun <= begun' /\ begun' <= MaxRequests
    BY <1>0, <2>1, SlotsAre
  <2>5. \A l \in Lead : lead[l] \in WideRow /\ opps[l] \in Nat /\ RowOK(lead[l], opps[l], begun)
    BY <1>0, SlotsAre DEF RowsOK
  <2>6. ASSUME NEW l \in L PROVE Updated(lead[l], s) \in WideRow /\ RowOK(Updated(lead[l], s), opps[l], begun)
    <3>1. ~open[s].overtaken => KnowsLead(open[s], lead[l])
      BY <1>0 DEF KnowsAll
    <3>2. begun \in Nat /\ l \in Lead
      BY <1>0, <2>2, SlotsAre
    <3> QED BY <1>0, <2>5, <3>1, <3>2, UpdatedRow
  <2> HIDE DEF L
  <2>7. /\ lead' \in [Lead -> WideRow] /\ \A l \in Lead \ L : lead'[l] = lead[l]
        /\ \A l \in L : RowOK(lead'[l], opps[l], begun')
    BY <2>1, <2>2, <2>5, <2>6
  <2> QED BY <1>0, <2>1, <2>2, <2>3, <2>4, <2>7, PlainWriteKeeps
<1> QED BY <1>1, <1>2

LEMMA CommitConvertKeeps ==
  ASSUME LeadsInv, NEW s \in Slot, CommitConvert(s)
  PROVE  LeadsInv'
<1>0. Typed /\ KnowsAll /\ RowsOK /\ OppsCounted /\ open[s].op = "CONVERT" /\ s \in Ops
  BY DEF LeadsInv, CommitConvert, Ops
<1>1. CASE ~\A l \in open[s].leads : Live(l) /\ InScope(open[s].user, l)
  BY <1>0, <1>1, StopKeeps DEF CommitConvert
<1>2. CASE \A l \in open[s].leads : Live(l) /\ InScope(open[s].user, l)
  <2> DEFINE L == open[s].leads
             late == open[s].overtaken
             New(row) == [row EXCEPT !.status = "CONVERTED", !.again = IF late THEN row.again + 1 ELSE row.again]
  <2>1. /\ lead' = [l \in Lead |-> IF l \in L THEN New(lead[l]) ELSE lead[l]]
        /\ open' = [Overtaking(open[s].op, open[s].dept, L) EXCEPT ![s] = NoRequest]
        /\ opps' = [l \in Lead |-> IF l \in L THEN opps[l] + 1 ELSE opps[l]] /\ begun' = begun
    BY <1>2 DEF CommitConvert, Write
  <2>2. L \in SUBSET Lead /\ late \in BOOLEAN
    BY <1>0, SlotsAre DEF Request
  <2>3. GoesOn({s}, L, "CONVERT", open[s].dept)
    BY <1>0, <2>1, <2>2, WriteGoesOn
  <2>4. begun' \in Nat /\ begun <= begun' /\ begun' <= MaxRequests
    <3>1. begun \in Nat /\ begun <= MaxRequests
      BY <1>0, SlotsAre
    <3>2. begun' = begun
      BY <2>1
    <3> QED BY <3>1, <3>2
  <2>5. \A l \in Lead : lead[l] \in WideRow /\ opps[l] \in Nat /\ RowOK(lead[l], opps[l], begun)
    BY <1>0, SlotsAre DEF RowsOK
  <2>6. ASSUME NEW l \in L PROVE New(lead[l]) \in WideRow /\ RowOK(New(lead[l]), opps[l] + 1, begun)
    <3>1. ~late => lead[l].status = "OPEN"
      BY <1>0 DEF KnowsAll, KnowsLead
    <3>2. lead[l].where # "absent"
      BY <1>2 DEF Live
    <3> HIDE DEF L, late
    <3>3. lead[l] \in WideRow /\ opps[l] \in Nat /\ RowOK(lead[l], opps[l], begun)
      BY <2>2, <2>5
    <3> QED BY <2>2, <3>1, <3>2, <3>3, ConvertedRow
  <2>7. \A l \in L : s \in Converting(l)
    BY <1>0 DEF Converting
  <2> HIDE DEF L, New
  <2>8. /\ lead' \in [Lead -> WideRow] /\ \A l \in Lead \ L : lead'[l] = lead[l] /\ opps'[l] = opps[l]
        /\ \A l \in L : lead'[l] = New(lead[l]) /\ opps'[l] = opps[l] + 1
    BY <2>1, <2>2, <2>5, <2>6
  <2>9. opps' \in [Lead -> Nat]
    <3>1. \A l \in Lead : (IF l \in L THEN opps[l] + 1 ELSE opps[l]) \in Nat
      BY <2>5
    <3> QED BY <2>1, <3>1
  <2>10. \A l \in L : RowOK(lead'[l], opps'[l], begun')
    BY <2>1, <2>6, <2>8
  <2>11. ASSUME NEW l \in Lead PROVE opps'[l] + Cardinality(Converting(l)') <= begun'
    <3>1. opps[l] + Cardinality(Converting(l)) <= begun
      BY <1>0 DEF OppsCounted
    <3>2. /\ Cardinality(Converting(l)') <= Cardinality(Converting(l))
          /\ Cardinality(Converting(l)') \in Nat
          /\ s \in Converting(l) => Cardinality(Converting(l)') + 1 <= Cardinality(Converting(l))
      BY <1>0, <2>3, FewerConvert
    <3>3. Cardinality(Converting(l)) \in Nat /\ begun \in Nat /\ opps[l] \in Nat
      BY <1>0, ConvertingIsFinite, SlotsAre
    <3>4. CASE l \in L
      BY <2>1, <2>7, <2>8, <3>1, <3>2, <3>3, <3>4
    <3>5. CASE l \notin L
      <4>1. opps'[l] = opps[l]
        BY <2>8, <3>5
      <4> QED BY <2>1, <3>1, <3>2, <3>3, <4>1
    <3> QED BY <3>4, <3>5
  <2> QED BY <1>0, <2>2, <2>3, <2>4, <2>8, <2>9, <2>10, <2>11, WriteKeeps
<1> QED BY <1>1, <1>2

\* An assignment's commit: every lead of L gets the owner that was computed.
LEMMA AssignKeeps ==
  ASSUME LeadsInv, NEW s \in Ops, NEW op, op = open[s].op, op \in {"MANUAL", "AUTO"},
         NEW L \in SUBSET Lead, L \subseteq open[s].leads,
         Write(s, L, LAMBDA l : [lead[l] EXCEPT !.owner = open[s].to[l], !.manager = open[s].user]),
         opps' = opps, begun' = begun
  PROVE  /\ LeadsInv'
         /\ \A l \in L : /\ lead'[l].owner = open[s].to[l] /\ lead'[l].where = lead[l].where
                         /\ lead'[l].status = lead[l].status
         /\ \A l \in Lead \ L : lead'[l] = lead[l]
<1> DEFINE New(l) == [lead[l] EXCEPT !.owner = open[s].to[l], !.manager = open[s].user]
<1>0. Typed /\ RowsOK /\ CarriesAll
  BY DEF LeadsInv
<1>1. /\ lead' = [l \in Lead |-> IF l \in L THEN New(l) ELSE lead[l]]
      /\ open' = [Overtaking(open[s].op, open[s].dept, L) EXCEPT ![s] = NoRequest]
  BY DEF Write
<1>2. GoesOn({s}, L, op, open[s].dept)
  BY <1>0, <1>1, WriteGoesOn
<1>3. begun' \in Nat /\ begun <= begun' /\ begun' <= MaxRequests
  BY <1>0, SlotsAre
<1>4. \A l \in Lead : lead[l] \in WideRow /\ RowOK(lead[l], opps[l], begun)
  BY <1>0, SlotsAre DEF RowsOK
<1>5. ASSUME NEW l \in L
      PROVE  /\ New(l) \in WideRow /\ RowOK(New(l), opps[l], begun)
             /\ New(l).owner = open[s].to[l] /\ New(l).where = lead[l].where /\ New(l).status = lead[l].status
  <2>1. open[s].to \in [open[s].leads -> Owner]
    BY <1>0 DEF CarriesAll
  <2>2. open[s].to[l] \in Owner
    BY <2>1
  <2>3. open[s].user \in Owner
    BY <1>0, SlotsAre DEF Request, Owner
  <2>4. New(l) = Assigned(lead[l], open[s].to[l], open[s].user)
    BY DEF Assigned
  <2> HIDE DEF New
  <2>5. lead[l] \in WideRow /\ RowOK(lead[l], opps[l], begun)
    BY <1>4
  <2> QED BY <2>2, <2>3, <2>4, <2>5, GivenRow
<1> HIDE DEF New
<1>6. /\ lead' \in [Lead -> WideRow] /\ \A l \in Lead \ L : lead'[l] = lead[l]
      /\ \A l \in L : lead'[l] = New(l)
  BY <1>1, <1>4, <1>5
<1>7. \A l \in L : RowOK(lead'[l], opps[l], begun')
  BY <1>5, <1>6
<1>8. LeadsInv'
  BY <1>2, <1>3, <1>6, <1>7, PlainWriteKeeps
<1> QED BY <1>5, <1>6, <1>8

LEMMA CommitManualKeeps ==
  ASSUME LeadsInv, NEW s \in Slot, CommitManual(s)
  PROVE  LeadsInv'
<1> DEFINE L == {l \in open[s].leads : Live(l)}
<1>1. s \in Ops /\ open[s].op = "MANUAL"
  BY DEF CommitManual, Ops
<1>2. L \in SUBSET Lead /\ L \subseteq open[s].leads
  BY <1>1, SlotsAre DEF Request, LeadsInv
<1>3. /\ Write(s, L, LAMBDA l : [lead[l] EXCEPT !.owner = open[s].to[l], !.manager = open[s].user])
      /\ opps' = opps /\ begun' = begun
  BY DEF CommitManual
<1> HIDE DEF L
<1> QED BY <1>1, <1>2, <1>3, AssignKeeps

LEMMA CommitAutoKeeps ==
  ASSUME LeadsInv, NEW s \in Slot, CommitAuto(s)
  PROVE  LeadsInv'
<1> DEFINE L == {l \in open[s].leads : lead[l].where # "gone"}
<1>1. s \in Ops /\ open[s].op = "AUTO"
  BY DEF CommitAuto, Ops
<1>2. L \in SUBSET Lead /\ L \subseteq open[s].leads
  BY <1>1, SlotsAre DEF Request, LeadsInv
<1>3. /\ Write(s, L, LAMBDA l : [lead[l] EXCEPT !.owner = open[s].to[l], !.manager = open[s].user])
      /\ opps' = opps /\ begun' = begun
  BY DEF CommitAuto
<1> HIDE DEF L
<1> QED BY <1>1, <1>2, <1>3, AssignKeeps

\* Leads that are there move into the bin, out of it, or away.
LEMMA MoveKeeps ==
  ASSUME LeadsInv, NEW L \in SUBSET Lead, NEW where \in {"live", "bin", "expired", "gone"}, Move(L, where),
         begun' \in {begun, begun + 1}, begun' <= MaxRequests
  PROVE  LeadsInv'
<1> DEFINE New(l) == [lead[l] EXCEPT !.where = where]
<1>0. Typed /\ RowsOK
  BY DEF LeadsInv
<1>1. /\ lead' = [l \in Lead |-> IF l \in L THEN New(l) ELSE lead[l]]
      /\ open' = Overtaking("BIN", NoDepartment, L) /\ opps' = opps
  BY DEF Move
<1>2. GoesOn({}, L, "BIN", NoDepartment)
  BY <1>0, <1>1, MoveGoesOn
<1>3. begun \in Nat /\ begun' \in Nat /\ begun <= begun'
  BY <1>0, SlotsAre
<1>4. \A l \in Lead : lead[l] \in WideRow /\ RowOK(lead[l], opps[l], begun')
  <2>1. \A l \in Lead : lead[l] \in WideRow /\ RowOK(lead[l], opps[l], begun) /\ lead[l].asked \in Nat
    BY <1>0, SlotsAre DEF RowsOK, WideRow
  <2> QED BY <1>3, <2>1 DEF RowOK
<1>5. \A l \in L : New(l) \in WideRow /\ RowOK(New(l), opps[l], begun')
  BY <1>4, MovedRow
<1> HIDE DEF New
<1>6. /\ lead' \in [Lead -> WideRow] /\ \A l \in Lead \ L : lead'[l] = lead[l]
      /\ \A l \in L : RowOK(lead'[l], opps[l], begun')
  BY <1>1, <1>4, <1>5
<1> QED BY <1>1, <1>2, <1>3, <1>6, PlainWriteKeeps

\* A lead that is made has no opportunity yet.
LEMMA MakingKeeps ==
  ASSUME LeadsInv, NEW l \in Lead, NEW o \in Owner, NEW st \in LeadStage, NEW op \in {"CREATE", "IMPORT"},
         Make, lead[l].where = "absent", lead' = [lead EXCEPT ![l] = Fresh(o, st)],
         open' = Overtaking(op, NoDepartment, {l}), opps' = opps
  PROVE  LeadsInv'
<1> DEFINE L == {l}
           row == Fresh(o, st)
<1>0. Typed /\ RowsOK /\ begun' = begun + 1 /\ begun < MaxRequests
  BY DEF LeadsInv, Make
<1>1. GoesOn({}, L, op, NoDepartment)
  BY <1>0, MoveGoesOn
<1>2. begun \in Nat /\ begun' \in Nat /\ begun <= begun' /\ begun' <= MaxRequests
  BY <1>0, BoundAssumption, SlotsAre
<1>3. opps[l] = 0
  BY <1>0 DEF RowsOK, RowOK
<1>4. row \in WideRow /\ RowOK(row, opps[l], begun')
  BY <1>2, <1>3, FreshRow
<1> HIDE DEF row
<1>5. /\ lead' \in [Lead -> WideRow] /\ lead'[l] = row /\ \A k \in Lead \ L : lead'[k] = lead[k]
  <2>1. lead \in [Lead -> WideRow]
    BY <1>0, RowIsWide DEF Typed
  <2> QED BY <1>4, <2>1 DEF row
<1>6. L \in SUBSET Lead /\ \A k \in L : k = l
  OBVIOUS
<1>7. \A k \in L : RowOK(lead'[k], opps[k], begun')
  BY <1>4, <1>5, <1>6
<1> HIDE DEF L
<1> QED BY <1>1, <1>2, <1>5, <1>6, <1>7, PlainWriteKeeps

LEMMA ImportOverwriteKeeps ==
  ASSUME LeadsInv, NEW l \in Lead, NEW st \in LeadStage \cup {"-"}, NEW dated \in BOOLEAN,
         ImportOverwrite(l, st, dated)
  PROVE  LeadsInv'
<1> DEFINE L == {l}
           next == IF st = "-" THEN lead[l].stage ELSE st
           row == [lead[l] EXCEPT !.stage = next, !.date = dated, !.loose = TRUE]
<1>0. /\ Typed /\ RowsOK /\ begun' = begun + 1 /\ begun < MaxRequests
      /\ opps' = opps /\ open' = Overtaking("IMPORT", NoDepartment, L)
  BY DEF LeadsInv, Make, ImportOverwrite
<1>1. GoesOn({}, L, "IMPORT", NoDepartment)
  BY <1>0, MoveGoesOn
<1>2. begun \in Nat /\ begun' \in Nat /\ begun <= begun' /\ begun' <= MaxRequests
  BY <1>0, BoundAssumption, SlotsAre
<1>3. lead \in [Lead -> WideRow] /\ lead[l] \in WideRow
  BY <1>0, RowIsWide DEF Typed
<1>4. RowOK(lead[l], opps[l], begun')
  <2>1. RowOK(lead[l], opps[l], begun) /\ lead[l].asked \in Nat
    BY <1>0, <1>3 DEF RowsOK, WideRow
  <2> QED BY <1>0, <1>2, <2>1 DEF RowOK
<1>5. lead' = [lead EXCEPT ![l] = row]
  BY <1>3 DEF ImportOverwrite, WideRow
<1>6. next \in LeadStage
  BY <1>3 DEF WideRow
<1> HIDE DEF next
<1>7. row \in WideRow /\ RowOK(row, opps[l], begun')
  BY <1>3, <1>4, <1>6, OverwrittenRow
<1> HIDE DEF row
<1>8. lead' \in [Lead -> WideRow] /\ lead'[l] = row /\ \A k \in Lead \ L : lead'[k] = lead[k]
  BY <1>3, <1>5, <1>7
<1>9. L \in SUBSET Lead /\ \A k \in L : k = l
  OBVIOUS
<1>10. \A k \in L : RowOK(lead'[k], opps[k], begun')
  BY <1>7, <1>8, <1>9
<1> HIDE DEF L
<1> QED BY <1>0, <1>1, <1>2, <1>8, <1>9, <1>10, PlainWriteKeeps

LEMMA MakeFits ==
  ASSUME LeadsInv, Make
  PROVE  begun' = begun + 1 /\ begun' <= MaxRequests /\ begun < MaxRequests
BY BoundAssumption DEF Make, LeadsInv, Typed

\* The leads of L have other follow-ups.
LEMMA FollowUpsKeep ==
  ASSUME LeadsInv, NEW L \in SUBSET Lead, NEW P \in [L -> Nat], NEW A \in [L -> Nat],
         Make, opps' = opps, open' = open,
         lead' = [l \in Lead |-> IF l \in L THEN Followed(lead[l], P[l], A[l]) ELSE lead[l]],
         \A l \in L : P[l] <= 1 + A[l] /\ A[l] <= begun + 1
  PROVE  LeadsInv'
<1>0. Typed /\ RowsOK /\ begun' = begun + 1 /\ begun < MaxRequests /\ begun \in Nat
  BY MakeFits, SlotsAre DEF LeadsInv
<1>1. \A l \in Lead : lead[l] \in WideRow /\ RowOK(lead[l], opps[l], begun)
  BY <1>0, SlotsAre DEF RowsOK
<1>2. \A l \in Lead \ L : RowOK(lead[l], opps[l], begun')
  <2>1. \A l \in Lead : lead[l].asked \in Nat
    BY <1>1 DEF WideRow
  <2> QED BY <1>0, <1>1, <2>1 DEF RowOK
<1>3. ASSUME NEW l \in L
      PROVE  LET q == Followed(lead[l], P[l], A[l])
             IN /\ q \in WideRow /\ RowOK(q, opps[l], begun')
                /\ q.stage = lead[l].stage /\ q.date = lead[l].date /\ q.loose = lead[l].loose
                /\ q.status = lead[l].status /\ q.where = lead[l].where /\ q.owner = lead[l].owner
  <2>1. P[l] \in Nat /\ A[l] \in Nat /\ P[l] <= 1 + A[l] /\ A[l] <= begun + 1
    OBVIOUS
  <2>2. lead[l] \in WideRow /\ RowOK(lead[l], opps[l], begun)
    BY <1>1
  <2> QED BY <1>0, <2>1, <2>2, FollowedRow
<1> DEFINE q(l) == Followed(lead[l], P[l], A[l])
<1> HIDE DEF q
<1>4. \A l \in Lead : lead'[l] = IF l \in L THEN q(l) ELSE lead[l]
  BY DEF q
<1>5. \A l \in L : /\ q(l) \in WideRow /\ RowOK(q(l), opps[l], begun')
                   /\ q(l).stage = lead[l].stage /\ q(l).date = lead[l].date /\ q(l).loose = lead[l].loose
                   /\ q(l).status = lead[l].status /\ q(l).where = lead[l].where /\ q(l).owner = lead[l].owner
  BY <1>3 DEF q
<1>6. lead' = [l \in Lead |-> lead'[l]]
  OBVIOUS
<1>7. lead' \in [Lead -> WideRow]
  <2>1. \A l \in Lead : lead'[l] \in WideRow
    BY <1>1, <1>4, <1>5
  <2> QED BY <1>6, <2>1
<1>8. ASSUME NEW l \in Lead
      PROVE  /\ RowOK(lead'[l], opps[l], begun')
             /\ lead'[l].where = lead[l].where /\ lead'[l].owner = lead[l].owner
             /\ lead'[l].status = lead[l].status /\ lead'[l].stage = lead[l].stage
             /\ lead'[l].date = lead[l].date /\ lead'[l].loose = lead[l].loose
  <2>1. CASE l \in L
    BY <1>4, <1>5, <2>1
  <2>2. CASE l \notin L
    BY <1>2, <1>4, <2>2
  <2> QED BY <2>1, <2>2
<1> QED BY <1>0, <1>7, <1>8, TouchKeeps

LEMMA createActivityKeeps ==
  ASSUME LeadsInv, NEW u \in User, NEW l \in Lead, createActivity(u, l)
  PROVE  LeadsInv'
<1> DEFINE L == {l}
           P == [k \in L |-> lead[k].pending + 1]
           A == [k \in L |-> lead[k].asked + 1]
<1>1. /\ Make /\ opps' = opps /\ open' = open
      /\ lead' = [k \in Lead |-> IF k \in L THEN Followed(lead[k], P[k], A[k]) ELSE lead[k]]
  BY DEF createActivity, Touch, Followed
<1>2. \A k \in L : /\ lead[k].pending \in Nat /\ lead[k].asked \in Nat
                   /\ lead[k].pending <= 1 + lead[k].asked /\ lead[k].asked <= begun
  BY SlotsAre DEF LeadsInv, RowsOK, RowOK, WideRow
<1>3. begun \in Nat
  BY SlotsAre DEF LeadsInv
<1>4. \A k \in L : P[k] \in Nat /\ A[k] \in Nat /\ P[k] <= 1 + A[k] /\ A[k] <= begun + 1
  BY <1>2, <1>3
<1>5. P \in [L -> Nat] /\ A \in [L -> Nat] /\ L \in SUBSET Lead
  BY <1>4
<1> HIDE DEF L, P, A
<1> QED BY <1>1, <1>4, <1>5, FollowUpsKeep

LEMMA markCompleteKeeps ==
  ASSUME LeadsInv, NEW u \in User, NEW l \in Lead, NEW done \in 0..1, NEW next \in 0..1,
         markComplete(u, l, done, next)
  PROVE  LeadsInv'
<1> DEFINE L == {l}
           P == [k \in L |-> lead[k].pending - done + next]
           A == [k \in L |-> lead[k].asked + next]
<1>1. /\ Make /\ opps' = opps /\ open' = open /\ done <= lead[l].pending
      /\ lead' = [k \in Lead |-> IF k \in L THEN Followed(lead[k], P[k], A[k]) ELSE lead[k]]
  BY DEF markComplete, Touch, Followed
<1>2. \A k \in L : /\ lead[k].pending \in Nat /\ lead[k].asked \in Nat
                   /\ lead[k].pending <= 1 + lead[k].asked /\ lead[k].asked <= begun
  BY SlotsAre DEF LeadsInv, RowsOK, RowOK, WideRow
<1>3. begun \in Nat
  BY SlotsAre DEF LeadsInv
<1>4. \A k \in L : P[k] \in Nat /\ A[k] \in Nat /\ P[k] <= 1 + A[k] /\ A[k] <= begun + 1
  BY <1>1, <1>2, <1>3
<1>5. P \in [L -> Nat] /\ A \in [L -> Nat] /\ L \in SUBSET Lead
  BY <1>4
<1> HIDE DEF L, P, A
<1> QED BY <1>1, <1>4, <1>5, FollowUpsKeep

LEMMA bulkCompleteKeeps ==
  ASSUME LeadsInv, NEW u \in User, NEW found \in SUBSET Lead, bulkComplete(u, found)
  PROVE  LeadsInv'
<1> DEFINE L == {l \in found : Live(l) /\ InScope(u, l) /\ lead[l].pending > 0}
           P == [k \in L |-> 0]
           A == [k \in L |-> lead[k].asked]
<1>1. \A k \in Lead : /\ lead[k] \in WideRow /\ lead[k].asked \in Nat /\ lead[k].asked <= begun
  BY SlotsAre DEF LeadsInv, RowsOK, RowOK, WideRow
<1>2. \A k \in Lead : Followed(lead[k], 0, lead[k].asked) = [lead[k] EXCEPT !.pending = 0]
  BY <1>1 DEF Followed, WideRow
<1>3. /\ Make /\ opps' = opps /\ open' = open
      /\ lead' = [k \in Lead |-> IF k \in L THEN [lead[k] EXCEPT !.pending = 0] ELSE lead[k]]
  BY DEF bulkComplete, Touch
<1>4. begun \in Nat
  BY SlotsAre DEF LeadsInv
<1>5. L \in SUBSET Lead
  OBVIOUS
<1> HIDE DEF L
<1>6. \A k \in L : P[k] \in Nat /\ A[k] \in Nat /\ P[k] <= 1 + A[k] /\ A[k] <= begun + 1
  BY <1>1, <1>4, <1>5
<1>7. P \in [L -> Nat] /\ A \in [L -> Nat]
  BY <1>6
<1>8. \A k \in L : Followed(lead[k], P[k], A[k]) = [lead[k] EXCEPT !.pending = 0]
  BY <1>2, <1>5
<1> HIDE DEF P, A
<1>9. lead' = [k \in Lead |-> IF k \in L THEN Followed(lead[k], P[k], A[k]) ELSE lead[k]]
  BY <1>3, <1>8
<1> QED BY <1>3, <1>5, <1>6, <1>7, <1>9, FollowUpsKeep

LEMMA createOpportunityKeeps ==
  ASSUME LeadsInv, NEW l \in Lead, createOpportunity(l)
  PROVE  LeadsInv'
<1>1. /\ Make /\ lead' = lead /\ opps' = opps /\ open' = open
  BY DEF createOpportunity
<1>2. /\ Typed /\ RowsOK /\ begun' = begun + 1 /\ begun < MaxRequests /\ begun \in Nat
  BY <1>1, MakeFits, SlotsAre DEF LeadsInv
<1>3. lead' \in [Lead -> WideRow]
  BY <1>1, <1>2, RowIsWide DEF Typed
<1>4. \A k \in Lead : RowOK(lead'[k], opps[k], begun')
  <2>1. \A k \in Lead : RowOK(lead[k], opps[k], begun) /\ lead[k].asked \in Nat
    BY <1>1, <1>2, <1>3 DEF RowsOK, WideRow
  <2> QED BY <1>1, <1>2, <2>1 DEF RowOK
<1> QED BY <1>1, <1>2, <1>3, <1>4, TouchKeeps

-----------------------------------------------------------------------------
(* Every step.                                                              *)

LEMMA UpdatesAreGiven == Updates \subseteq Given
<1> DEFINE Times == {<<"PLAIN", "-">>, <<"DATED", "set">>, <<"DATED", "-">>, <<"-", "set">>, <<"-", "clear">>}
<1>1. Nothing \in Given /\ LeadStage = {"PLAIN", "DATED"} /\ LeadStatus = {"OPEN", "CONVERTED"}
  BY DEF Nothing, Given, LeadStage, LeadStatus
<1>2. \A g \in Updates : \/ \E p \in Times : g = [Nothing EXCEPT !.stage = p[1], !.date = p[2]]
                         \/ \E o \in Owner : g = [Nothing EXCEPT !.owner = o]
                         \/ g = [Nothing EXCEPT !.status = "OPEN"]
  BY DEF Updates
<1>3. ASSUME NEW st \in LeadStage \cup {"-"}, NEW date \in {"set", "clear", "-"}
      PROVE  [Nothing EXCEPT !.stage = st, !.date = date] \in Given
  BY <1>1 DEF Given
<1>4. \A o \in Owner : [Nothing EXCEPT !.owner = o] \in Given
  BY <1>1 DEF Given
<1>5. [Nothing EXCEPT !.status = "OPEN"] \in Given
  BY <1>1 DEF Given
<1> SUFFICES ASSUME NEW g \in Updates PROVE g \in Given
  OBVIOUS
<1>6. CASE \E p \in Times : g = [Nothing EXCEPT !.stage = p[1], !.date = p[2]]
  <2>1. PICK p \in Times : g = [Nothing EXCEPT !.stage = p[1], !.date = p[2]]
    BY <1>6
  <2>2. p[1] \in LeadStage \cup {"-"} /\ p[2] \in {"set", "clear", "-"}
    BY <1>1, <2>1
  <2> QED BY <1>3, <2>1, <2>2
<1> QED BY <1>2, <1>4, <1>5, <1>6

LEMMA Request1Keeps ==
  ASSUME LeadsInv, NEW u \in User, Request1(u)
  PROVE  LeadsInv'
<1> PICK l \in Lead :
        \/ deleteLead(u, l) \/ restoreLead(u, l) \/ permanentDeleteLead(u, l)
        \/ \E s \in Slot : BeginConvert(s, u, l) \/ \E given \in Updates : BeginUpdate(s, u, l, given)
  BY DEF Request1
<1> DEFINE L == {l}
<1>0. L \in SUBSET Lead
  OBVIOUS
<1>1. CASE deleteLead(u, l)
  <2>1. Make /\ Move(L, "bin")
    BY <1>1 DEF deleteLead
  <2> HIDE DEF L
  <2> QED BY <1>0, <2>1, MakeFits, MoveKeeps
<1>2. CASE restoreLead(u, l)
  <2>1. Make /\ Move(L, "live")
    BY <1>2 DEF restoreLead
  <2> HIDE DEF L
  <2> QED BY <1>0, <2>1, MakeFits, MoveKeeps
<1>3. CASE permanentDeleteLead(u, l)
  <2>1. Make /\ Move(L, "gone")
    BY <1>3 DEF permanentDeleteLead
  <2> HIDE DEF L
  <2> QED BY <1>0, <2>1, MakeFits, MoveKeeps
<1>4. CASE \E s \in Slot : BeginConvert(s, u, l)
  BY <1>4, BeginConvertKeeps
<1>5. CASE \E s \in Slot, given \in Updates : BeginUpdate(s, u, l, given)
  BY <1>5, UpdatesAreGiven, BeginUpdateKeeps
<1> QED BY <1>1, <1>2, <1>3, <1>4, <1>5

LEMMA RequestManyKeeps ==
  ASSUME LeadsInv, NEW u \in User, RequestMany(u)
  PROVE  LeadsInv'
<1> PICK L \in SUBSET Lead :
        \/ bulkSoftDelete(u, L) \/ bulkRestore(u, L) \/ bulkPermanentDelete(u, L)
        \/ \E s \in Slot : (\E d \in Department : BeginAuto(s, u, d, L))
                           \/ \E target \in User : BeginManual(s, u, L, target)
  BY DEF RequestMany
<1> DEFINE live == {l \in L : Live(l) /\ InScope(u, l)}
           binned == {l \in L : Binned(l) /\ InScope(u, l)}
<1>0. live \in SUBSET Lead /\ binned \in SUBSET Lead
  OBVIOUS
<1>1. CASE bulkSoftDelete(u, L)
  <2>1. Make /\ Move(live, "bin")
    BY <1>1 DEF bulkSoftDelete
  <2> HIDE DEF live
  <2> QED BY <1>0, <2>1, MakeFits, MoveKeeps
<1>2. CASE bulkRestore(u, L)
  <2>1. Make /\ Move(binned, "live")
    BY <1>2 DEF bulkRestore
  <2> HIDE DEF binned
  <2> QED BY <1>0, <2>1, MakeFits, MoveKeeps
<1>3. CASE bulkPermanentDelete(u, L)
  <2>1. Make /\ Move(binned, "gone")
    BY <1>3 DEF bulkPermanentDelete
  <2> HIDE DEF binned
  <2> QED BY <1>0, <2>1, MakeFits, MoveKeeps
<1>4. CASE \E s \in Slot, d \in Department : BeginAuto(s, u, d, L)
  BY <1>4, BeginAutoKeeps
<1>5. CASE \E s \in Slot, target \in User : BeginManual(s, u, L, target)
  BY <1>5, BeginManualKeeps
<1> QED BY <1>1, <1>2, <1>3, <1>4, <1>5

LEMMA LeadsStep ==
  ASSUME LeadsInv, [LeadsNext]_leadsVars
  PROVE  LeadsInv'
<1>1. CASE UNCHANGED leadsVars
  <2>1. /\ Typed' /\ CarriesAll' /\ KnowsAll' /\ OneAuto' /\ RowsOK' /\ OppsCounted'
    BY <1>1 DEF leadsVars, LeadsInv, Typed, CarriesAll, KnowsAll, OneAuto, RowsOK, OppsCounted, Ops, Converting
  <2>2. StaysFair'
    <3>1. \A d, L : Distribution(d, L)' = Distribution(d, L)
      BY <1>1, SameDistribution DEF leadsVars
    <3> QED BY <1>1, <3>1 DEF leadsVars, LeadsInv, StaysFair, Ops, Live
  <2> QED BY <2>1, <2>2 DEF LeadsInv
<1>2. ASSUME NEW u \in User, Request1(u) PROVE LeadsInv'
  BY <1>2, Request1Keeps
<1>3. ASSUME NEW u \in User, FollowUps(u) PROVE LeadsInv'
  BY <1>3, createActivityKeeps, markCompleteKeeps, bulkCompleteKeeps DEF FollowUps
<1>4. ASSUME NEW u \in User, RequestMany(u) PROVE LeadsInv'
  BY <1>4, RequestManyKeeps
<1>5. CASE PostLead
  <2>1. "DATED" \in LeadStage
    BY DEF LeadStage
  <2> QED BY <1>5, <2>1, MakingKeeps DEF PostLead, CreateLead
<1>6. CASE ImportRow
  <2>1. PICK l \in Lead, g \in {"-", "DATED"}, d \in BOOLEAN, o \in Owner :
             ImportCreate(l, g, o) \/ ImportOverwrite(l, g, d)
    BY <1>6 DEF ImportRow
  <2>2. g \in LeadStage \cup {"-"}
    BY DEF LeadStage
  <2>3. CASE ImportCreate(l, g, o)
    <3> DEFINE st == IF g = "-" THEN "PLAIN" ELSE g
    <3>1. st \in LeadStage
      BY <2>2 DEF LeadStage
    <3>2. /\ Make /\ lead[l].where = "absent" /\ lead' = [lead EXCEPT ![l] = Fresh(o, st)]
          /\ open' = Overtaking("IMPORT", NoDepartment, {l}) /\ opps' = opps
      BY <2>3 DEF ImportCreate
    <3> HIDE DEF st
    <3> QED BY <3>1, <3>2, MakingKeeps
  <2>4. CASE ImportOverwrite(l, g, d)
    BY <2>2, <2>4, ImportOverwriteKeeps
  <2> QED BY <2>1, <2>3, <2>4
<1>7. ASSUME NEW s \in Slot, CommitRequest(s) PROVE LeadsInv'
  BY <1>7, CommitUpdateKeeps, CommitConvertKeeps, CommitManualKeeps, CommitAutoKeeps DEF CommitRequest
<1>8. begun \in Nat /\ begun <= MaxRequests
  BY SlotsAre DEF LeadsInv
<1>9. ASSUME NEW l \in Lead, Age(l) PROVE LeadsInv'
  <2> DEFINE L == {l}
  <2>1. Move(L, "expired") /\ begun' = begun /\ L \in SUBSET Lead
    BY <1>9 DEF Age
  <2> HIDE DEF L
  <2> QED BY <1>8, <2>1, MoveKeeps
<1>10. CASE Purge
  <2>1. Move(Expired, "gone") /\ begun' = begun /\ Expired \in SUBSET Lead
    BY <1>10 DEF Purge, Expired
  <2> QED BY <1>8, <2>1, MoveKeeps
<1>11. CASE PostOpportunity
  BY <1>11, createOpportunityKeeps DEF PostOpportunity
<1> QED
  BY <1>1, <1>2, <1>3, <1>4, <1>5, <1>6, <1>7, <1>9, <1>10, <1>11, ScopeAssumption DEF LeadsNext

\* The opportunities opened without a conversion are counted.
Counted == others \in [Lead -> Nat]

LEMMA CountedStep == Counted /\ [LeadsNext]_leadsVars => Counted'
<1> SUFFICES ASSUME Counted, [LeadsNext]_leadsVars PROVE Counted'
  OBVIOUS
<1>1. ASSUME others' = others PROVE Counted'
  BY <1>1 DEF Counted
<1>2. ASSUME NEW u, Request1(u) \/ FollowUps(u) \/ RequestMany(u) PROVE others' = others
  BY <1>2 DEF Request1, FollowUps, RequestMany, deleteLead, restoreLead, permanentDeleteLead, Move,
     BeginConvert, BeginUpdate, BeginManual, BeginAuto, BeginRequest, createActivity, markComplete,
     bulkComplete, Touch, bulkSoftDelete, bulkRestore, bulkPermanentDelete
<1>3. ASSUME NEW s \in Slot, CommitRequest(s) PROVE others' = others
  BY <1>3 DEF CommitRequest, CommitUpdate, CommitConvert, CommitManual, CommitAuto, NotFound
<1>4. CASE UNCHANGED leadsVars
  BY <1>1, <1>4 DEF leadsVars
<1>5. CASE PostLead \/ ImportRow \/ Purge \/ \E l \in Lead : Age(l)
  BY <1>1, <1>5 DEF PostLead, CreateLead, ImportRow, ImportCreate, ImportOverwrite, Purge, Age, Move
<1>6. CASE PostOpportunity
  BY <1>6 DEF PostOpportunity, createOpportunity, Counted
<1> QED BY <1>1, <1>2, <1>3, <1>4, <1>5, <1>6 DEF LeadsNext

LEMMA LeadsStart == LeadsInit => LeadsInv
<1> SUFFICES ASSUME LeadsInit PROVE LeadsInv
  OBVIOUS
<1>1. /\ lead \in [Lead -> {NoRow} \cup {Fresh(o, "PLAIN") : o \in Owner}]
      /\ opps = [l \in Lead |-> 0] /\ open = [s \in Slot |-> NoRequest] /\ begun = 0
  BY DEF LeadsInit
<1>2. Ops = {}
  BY <1>1 DEF Ops, NoRequest
<1>3. \A o \in Owner : Fresh(o, "PLAIN") \in WideRow /\ RowOK(Fresh(o, "PLAIN"), 0, 0)
  BY FreshRow DEF LeadStage
<1>4. NoRow \in WideRow /\ RowOK(NoRow, 0, 0)
  <2> DEFINE row == Fresh(Nobody, "PLAIN")
  <2>1. row \in WideRow /\ RowOK(row, 0, 0)
    BY <1>3 DEF Owner
  <2>2. NoRow = [row EXCEPT !.where = "absent"]
    BY DEF NoRow
  <2> HIDE DEF row
  <2>3. /\ NoRow \in WideRow /\ NoRow.asked = row.asked /\ NoRow.pending = row.pending /\ NoRow.loose = row.loose
        /\ NoRow.again = row.again /\ NoRow.date = row.date /\ NoRow.stage = row.stage /\ NoRow.status = row.status
    BY <2>1, <2>2 DEF WideRow
  <2> QED BY <2>1, <2>3 DEF RowOK
<1>5. ASSUME NEW l \in Lead PROVE lead[l] \in WideRow /\ RowOK(lead[l], 0, 0)
  BY <1>1, <1>3, <1>4
<1>6. \A l \in Lead : lead[l] \in Row
  BY <1>5, WideIsRow, BoundAssumption
<1>7. lead \in [Lead -> Row]
  BY <1>1, <1>6
<1>8. Typed
  BY <1>1, <1>7, BoundAssumption DEF Typed
<1>9. RowsOK
  BY <1>1, <1>5 DEF RowsOK
<1>10. OppsCounted
  <2>1. \A l \in Lead : Converting(l) = {}
    BY <1>1 DEF Converting, NoRequest
  <2>2. \A l \in Lead : Cardinality(Converting(l)) = 0
    BY <2>1, FS_EmptySet
  <2> QED BY <1>1, <2>2 DEF OppsCounted
<1> QED BY <1>2, <1>8, <1>9, <1>10 DEF LeadsInv, CarriesAll, KnowsAll, OneAuto, StaysFair

\* The invariant holds.
THEOREM LeadsInvariance == LeadsSpec => []LeadsInv
<1>1. LeadsInit => LeadsInv
  BY LeadsStart
<1>2. LeadsInv /\ [LeadsNext]_leadsVars => LeadsInv'
  BY LeadsStep
<1> QED BY <1>1, <1>2, PTL DEF LeadsSpec

\* The variables of the leads hold what their columns may hold.
THEOREM LeadsTypeCorrect == LeadsSpec => []LeadsTypeOK
<1>1. LeadsInv /\ Counted => LeadsTypeOK
  BY DEF LeadsInv, Typed, Counted, LeadsTypeOK
<1>2. LeadsInit => Counted
  BY DEF LeadsInit, Counted
<1>3. Counted /\ [LeadsNext]_leadsVars => Counted'
  BY CountedStep
<1> QED BY <1>1, <1>2, <1>3, LeadsInvariance, PTL DEF LeadsSpec

\* A lead's date follows its stage, unless a file was imported over it or a request that
\* another write overtook wrote it: updateLead validates the date it leaves behind.
THEOREM DatesFollowStages == LeadsSpec => []DateFollowsStage
<1>1. LeadsInv => DateFollowsStage
  BY DEF LeadsInv, RowsOK, RowOK, DateFollowsStage
<1> QED BY <1>1, LeadsInvariance, PTL

\* An update that schedules a follow-up replaces the one that is pending, however many
\* updates are made: more are pending only where people asked for them since.
THEOREM FollowUpsDoNotPileUp == LeadsSpec => []OneFollowUp
<1>1. LeadsInv => OneFollowUp
  BY DEF LeadsInv, RowsOK, RowOK, OneFollowUp
<1> QED BY <1>1, LeadsInvariance, PTL

\* convertLead makes one opportunity of a lead, and one more only for each status set by
\* hand and for each conversion that another write overtook before its transaction;
\* createOpportunity makes as many as it is asked for, which nothing here bounds.
THEOREM ConvertedAtMostOnce == LeadsSpec => []ConvertedOnce
<1>1. LeadsInv => ConvertedOnce
  <2> SUFFICES ASSUME LeadsInv, NEW l \in Lead PROVE opps[l] <= 1 + lead[l].again
    BY DEF ConvertedOnce
  <2>1. RowOK(lead[l], opps[l], begun) /\ opps[l] \in Nat /\ lead[l].again \in Nat
    BY SlotsAre DEF LeadsInv, RowsOK, WideRow
  <2> QED BY <2>1 DEF RowOK
<1> QED BY <1>1, LeadsInvariance, PTL

-----------------------------------------------------------------------------
(* The automatic assignment is fair.  Each lead of the batch goes to the    *)
(* employee with the fewest leads by then, so the last one somebody got     *)
(* found him with no more than anybody has in the end.                      *)

LEMMA LeastNumber ==
  ASSUME NEW T \in SUBSET Nat, T # {}
  PROVE  \E n \in T : \A m \in T : n <= m
<1>1. PICK x \in T : \A y \in T : ~ (<<y, x>> \in OpToRel(<, Nat))
  BY NatLessThanWellFounded, WFMin
<1>2. \A y \in T : ~(y < x)
  BY <1>1 DEF OpToRel
<1> QED BY <1>2

LEMMA LeastLoadedIsLeast ==
  ASSUME NEW d \in Department, NEW load \in [Staff[d] -> Nat], Staff[d] # {}
  PROVE  /\ LeastLoaded(d, load) \in Staff[d]
         /\ \A v \in Staff[d] : load[LeastLoaded(d, load)] <= load[v]
<1> DEFINE Loads == {load[u] : u \in Staff[d]}
<1>1. PICK n \in Loads : \A m \in Loads : n <= m
  <2>1. Loads \in SUBSET Nat /\ Loads # {}
    OBVIOUS
  <2> HIDE DEF Loads
  <2> QED BY <2>1, LeastNumber
<1> DEFINE Idlest == {u \in Staff[d] : load[u] = n}
           Ranks == {Rank[u] : u \in Idlest}
<1>2. PICK r \in Ranks : \A q \in Ranks : r <= q
  <2>1. Idlest # {} /\ Idlest \subseteq User
    BY <1>1, ScopeAssumption
  <2> HIDE DEF Idlest
  <2>2. Ranks \in SUBSET Nat /\ Ranks # {}
    BY <2>1, RankAssumption
  <2> HIDE DEF Ranks
  <2> QED BY <2>2, LeastNumber
<1>3. PICK u \in Idlest : r = Rank[u]
  OBVIOUS
<1>4. u \in Staff[d] /\ load[u] = n
  OBVIOUS
<1>5. ASSUME NEW v \in Staff[d] PROVE load[u] < load[v] \/ (load[u] = load[v] /\ Rank[u] <= Rank[v])
  <2>1. load[u] \in Nat /\ load[v] \in Nat /\ load[u] <= load[v]
    BY <1>1, <1>4
  <2>2. CASE load[v] = load[u]
    <3>1. v \in Idlest
      BY <1>4, <2>2
    <3> HIDE DEF Idlest
    <3>2. Rank[u] <= Rank[v]
      BY <1>2, <1>3, <3>1
    <3> QED BY <2>2, <3>2
  <2>3. CASE load[v] # load[u]
    BY <2>1, <2>3
  <2> QED BY <2>2, <2>3
<1> DEFINE Least(w) == \A v \in Staff[d] : load[w] < load[v] \/ (load[w] = load[v] /\ Rank[w] <= Rank[v])
<1>6. \E w \in Staff[d] : Least(w)
  BY <1>4, <1>5
<1>7. LeastLoaded(d, load) = CHOOSE w \in Staff[d] : Least(w)
  BY DEF LeastLoaded
<1> HIDE DEF Least
<1>8. LeastLoaded(d, load) \in Staff[d] /\ Least(LeastLoaded(d, load))
  BY <1>6, <1>7
<1> DEFINE w == LeastLoaded(d, load)
<1>9. \A v \in Staff[d] : load[w] < load[v] \/ load[w] = load[v]
  BY <1>8 DEF Least
<1>10. w \in Staff[d]
  BY <1>8
<1> HIDE DEF w
<1>11. \A v \in Staff[d] : load[w] <= load[v]
  BY <1>9, <1>10
<1> QED BY <1>10, <1>11 DEF w

\* What one of the batch's employees gets of it.
Got(to, L, u) == {k \in L : to[k] = u}

LEMMA WorkloadIsNat ==
  ASSUME NEW u, NEW L
  PROVE  Workload(u, L) \in Nat
<1> DEFINE S == {l \in Lead \ L : Live(l) /\ lead[l].owner = u /\ lead[l].status = "OPEN"}
<1>1. S \subseteq Lead
  OBVIOUS
<1> HIDE DEF S
<1>2. Cardinality(S) \in Nat
  BY <1>1, LeadAssumption, FS_Subset, FS_CardinalityType
<1> QED BY <1>2 DEF Workload, S

LEMMA DistributionIsFair ==
  ASSUME NEW d \in Department, NEW L \in SUBSET Lead, NEW to \in Distribution(d, L), NEW l \in L, NEW v \in Staff[d]
  PROVE  Workload(to[l], L) + Cardinality(Got(to, L, to[l])) <= Workload(v, L) + Cardinality(Got(to, L, v)) + 1
<1> DEFINE Before(at, k, u) == {j \in L : at[j] < at[k] /\ to[j] = u}
           Load(at, k) == [u \in Staff[d] |-> Workload(u, L) + Cardinality(Before(at, k, u))]
<1>1. PICK at \in [L -> 1..Cardinality(L)] :
        /\ \A k, j \in L : at[k] = at[j] => k = j
        /\ \A k \in L : to[k] = LeastLoaded(d, Load(at, k))
  BY DEF Distribution
<1>2. to \in [L -> Staff[d]]
  BY DEF Distribution
<1>3. IsFiniteSet(L) /\ Cardinality(L) \in Nat
  BY LeadAssumption, FS_Subset, FS_CardinalityType
<1>4. PICK u \in Staff[d] : u = to[l]
  BY <1>2
<1> DEFINE K == Got(to, L, u)
<1>5. l \in K /\ K \subseteq L
  BY <1>4 DEF Got
\* The last lead that u gets.
<1>6. PICK z \in K : \A k \in K : at[k] <= at[z]
  <2> DEFINE n == Cardinality(L)
             T == {n - at[k] : k \in K}
  <2>1. \A k \in K : at[k] \in 1..n
    BY <1>1, <1>5
  <2>2. T \in SUBSET Nat /\ T # {}
    BY <1>3, <1>5, <2>1
  <2> HIDE DEF T
  <2>3. PICK m \in T : \A i \in T : m <= i
    BY <2>2, LeastNumber
  <2>4. PICK z \in K : m = n - at[z]
    BY <2>3 DEF T
  <2>5. ASSUME NEW k \in K PROVE at[k] <= at[z]
    <3>1. n - at[k] \in T
      BY DEF T
    <3>2. n - at[z] <= n - at[k]
      BY <2>3, <2>4, <3>1
    <3> HIDE DEF n, K
    <3>3. at[k] \in Nat /\ at[z] \in Nat /\ n \in Nat
      BY <1>3, <2>1 DEF n
    <3> QED BY <3>2, <3>3
  <2> QED BY <2>5
<1>7. z \in L /\ to[z] = u
  BY DEF Got
<1> DEFINE load == Load(at, z)
<1>8. ASSUME NEW w PROVE IsFiniteSet(Before(at, z, w)) /\ Cardinality(Before(at, z, w)) \in Nat
  <2>1. Before(at, z, w) \subseteq L
    OBVIOUS
  <2> HIDE DEF Before
  <2> QED BY <1>3, <2>1, FS_Subset, FS_CardinalityType
<1>9. ASSUME NEW w PROVE IsFiniteSet(Got(to, L, w)) /\ Cardinality(Got(to, L, w)) \in Nat
  <2>1. Got(to, L, w) \subseteq L
    BY DEF Got
  <2> QED BY <1>3, <2>1, FS_Subset, FS_CardinalityType
<1>10. Cardinality(Before(at, z, u)) = Cardinality(K) - 1
  <2>1. Before(at, z, u) = K \ {z}
    <3>1. \A k \in L : at[k] \in Nat
      BY <1>1, <1>3
    <3>2. \A k \in K : k # z => at[k] < at[z]
      BY <1>1, <1>5, <1>6, <1>7, <3>1
    <3>3. ~(at[z] < at[z])
      BY <1>7, <3>1
    <3> QED BY <3>2, <3>3 DEF Got
  <2> HIDE DEF K, Before
  <2>2. IsFiniteSet(K)
    BY <1>9 DEF K
  <2> QED BY <2>1, <2>2, FS_RemoveElement
<1>11. Cardinality(Before(at, z, v)) <= Cardinality(Got(to, L, v))
  <2>1. Before(at, z, v) \subseteq Got(to, L, v)
    BY DEF Got
  <2> HIDE DEF Before
  <2> QED BY <1>9, <2>1, FS_Subset
<1>12. load \in [Staff[d] -> Nat]
  <2> HIDE DEF Before
  <2>1. \A w \in Staff[d] : Workload(w, L) + Cardinality(Before(at, z, w)) \in Nat
    BY <1>8, WorkloadIsNat
  <2> QED BY <2>1
<1>13. u = LeastLoaded(d, load)
  BY <1>1, <1>7
<1>14. /\ load[u] = Workload(u, L) + Cardinality(Before(at, z, u))
       /\ load[v] = Workload(v, L) + Cardinality(Before(at, z, v))
  OBVIOUS
<1> HIDE DEF load
<1>15. load[u] <= load[v]
  BY <1>12, <1>13, LeastLoadedIsLeast
<1>16. /\ Workload(u, L) \in Nat /\ Workload(v, L) \in Nat
       /\ Cardinality(K) \in Nat /\ Cardinality(Before(at, z, u)) \in Nat
       /\ Cardinality(Got(to, L, v)) \in Nat /\ Cardinality(Before(at, z, v)) \in Nat
  BY <1>8, <1>9, WorkloadIsNat
<1> HIDE DEF K, Before
<1>17. Workload(u, L) + Cardinality(K) <= Workload(v, L) + Cardinality(Got(to, L, v)) + 1
  BY <1>10, <1>11, <1>14, <1>15, <1>16
<1> QED BY <1>4, <1>17 DEF K

\* A request stays open until its own commit.
LEMMA OpenUntilCommitted ==
  ASSUME Typed, [LeadsNext]_leadsVars, NEW s \in Ops
  PROVE  s \in Ops' \/ CommitRequest(s)
<1>1. ASSUME open' = open PROVE s \in Ops'
  BY <1>1 DEF Ops
<1>2. ASSUME NEW op, NEW d, NEW L \in SUBSET Lead, open' = Overtaking(op, d, L) PROVE s \in Ops'
  <2>1. Ops' = Ops \ {}
    BY <1>2, MoveGoesOn DEF GoesOn
  <2> QED BY <2>1
<1>3. ASSUME NEW t \in Slot, NEW op, NEW d, NEW u, NEW L, NEW given, NEW to,
             BeginRequest(t, op, d, u, L, given, to)
      PROVE  s \in Ops'
  <2> DEFINE r == [op |-> op, dept |-> d, user |-> u, leads |-> L, given |-> given,
                   due |-> Schedules(L, given), to |-> to, overtaken |-> FALSE]
  <2>1. open' = [open EXCEPT ![t] = r] /\ t # s
    BY <1>3 DEF BeginRequest, Ops
  <2> HIDE DEF r
  <2>2. open'[s] = open[s]
    BY <2>1 DEF Typed, Ops
  <2> QED BY <2>2 DEF Ops
<1>4. ASSUME NEW t \in Slot, t # s, CommitRequest(t) PROVE s \in Ops'
  <2>1. t \in Ops
    BY <1>4 DEF CommitRequest, CommitUpdate, CommitConvert, CommitManual, CommitAuto, Ops
  <2>2. open[t].leads \in SUBSET Lead
    BY <2>1, SlotsAre DEF Request
  <2>3. ASSUME NEW L \in SUBSET Lead, open' = [Overtaking(open[t].op, open[t].dept, L) EXCEPT ![t] = NoRequest]
        PROVE  s \in Ops'
    <3>1. Ops' = Ops \ {t}
      BY <2>1, <2>3, WriteGoesOn DEF GoesOn
    <3> QED BY <1>4, <3>1
  <2>4. ASSUME NotFound(t) PROVE s \in Ops'
    <3>1. Ops' = Ops \ {t}
      BY <2>1, <2>4, StopGoesOn DEF GoesOn, NotFound
    <3> QED BY <1>4, <3>1
  <2>5. CASE CommitUpdate(t)
    BY <2>2, <2>3, <2>4, <2>5 DEF CommitUpdate, Write
  <2>6. CASE CommitConvert(t)
    BY <2>2, <2>3, <2>4, <2>6 DEF CommitConvert, Write
  <2>7. CASE CommitManual(t)
    <3> DEFINE L == {l \in open[t].leads : Live(l)}
    <3>1. L \in SUBSET Lead /\ open' = [Overtaking(open[t].op, open[t].dept, L) EXCEPT ![t] = NoRequest]
      BY <2>2, <2>7 DEF CommitManual, Write
    <3> HIDE DEF L
    <3> QED BY <2>3, <3>1
  <2>8. CASE CommitAuto(t)
    <3> DEFINE L == {l \in open[t].leads : lead[l].where # "gone"}
    <3>1. L \in SUBSET Lead /\ open' = [Overtaking(open[t].op, open[t].dept, L) EXCEPT ![t] = NoRequest]
      BY <2>2, <2>8 DEF CommitAuto, Write
    <3> HIDE DEF L
    <3> QED BY <2>3, <3>1
  <2> QED BY <1>4, <2>5, <2>6, <2>7, <2>8 DEF CommitRequest
<1>5. ASSUME NEW L \in SUBSET Lead, NEW where, Move(L, where) PROVE s \in Ops'
  BY <1>2, <1>5 DEF Move
<1>6. CASE UNCHANGED leadsVars
  BY <1>1, <1>6 DEF leadsVars
<1>7. ASSUME NEW u \in User, Request1(u) PROVE s \in Ops'
  <2> PICK l \in Lead :
          \/ deleteLead(u, l) \/ restoreLead(u, l) \/ permanentDeleteLead(u, l)
          \/ \E t \in Slot : BeginConvert(t, u, l) \/ \E given \in Updates : BeginUpdate(t, u, l, given)
    BY <1>7 DEF Request1
  <2> DEFINE L == {l}
  <2>1. L \in SUBSET Lead
    OBVIOUS
  <2>2. deleteLead(u, l) \/ restoreLead(u, l) \/ permanentDeleteLead(u, l) => \E where : Move(L, where)
    BY DEF deleteLead, restoreLead, permanentDeleteLead
  <2> HIDE DEF L
  <2>3. CASE \E t \in Slot : BeginConvert(t, u, l)
    BY <1>3, <2>3 DEF BeginConvert
  <2>4. CASE \E t \in Slot, given \in Updates : BeginUpdate(t, u, l, given)
    BY <1>3, <2>4 DEF BeginUpdate
  <2> QED BY <1>5, <2>1, <2>2, <2>3, <2>4
<1>8. ASSUME NEW u \in User, FollowUps(u) PROVE s \in Ops'
  BY <1>1, <1>8 DEF FollowUps, createActivity, markComplete, bulkComplete, Touch
<1>9. ASSUME NEW u \in User, RequestMany(u) PROVE s \in Ops'
  <2> PICK L \in SUBSET Lead :
          \/ bulkSoftDelete(u, L) \/ bulkRestore(u, L) \/ bulkPermanentDelete(u, L)
          \/ \E t \in Slot : (\E d \in Department : BeginAuto(t, u, d, L))
                             \/ \E target \in User : BeginManual(t, u, L, target)
    BY <1>9 DEF RequestMany
  <2> DEFINE live == {l \in L : Live(l) /\ InScope(u, l)}
             binned == {l \in L : Binned(l) /\ InScope(u, l)}
  <2>1. live \in SUBSET Lead /\ binned \in SUBSET Lead
    OBVIOUS
  <2>2. /\ bulkSoftDelete(u, L) => Move(live, "bin")
        /\ bulkRestore(u, L) => Move(binned, "live")
        /\ bulkPermanentDelete(u, L) => Move(binned, "gone")
    BY DEF bulkSoftDelete, bulkRestore, bulkPermanentDelete
  <2> HIDE DEF live, binned
  <2>3. CASE \E t \in Slot, d \in Department : BeginAuto(t, u, d, L)
    BY <1>3, <2>3 DEF BeginAuto
  <2>4. CASE \E t \in Slot, target \in User : BeginManual(t, u, L, target)
    BY <1>3, <2>4 DEF BeginManual
  <2> QED BY <1>5, <2>1, <2>2, <2>3, <2>4
<1>10. CASE PostLead \/ ImportRow
  <2>1. \E l \in Lead, op \in {"CREATE", "IMPORT"} : open' = Overtaking(op, NoDepartment, {l})
    BY <1>10 DEF PostLead, ImportRow, CreateLead, ImportCreate, ImportOverwrite
  <2>2. \A l \in Lead : {l} \in SUBSET Lead
    OBVIOUS
  <2> QED BY <1>2, <2>1, <2>2
<1>11. ASSUME NEW l \in Lead, Age(l) PROVE s \in Ops'
  <2>1. {l} \in SUBSET Lead /\ Move({l}, "expired")
    BY <1>11 DEF Age
  <2> QED BY <1>5, <2>1
<1>12. CASE Purge
  <2>1. Move(Expired, "gone") /\ Expired \in SUBSET Lead
    BY <1>12 DEF Purge, Expired
  <2> QED BY <1>5, <2>1
<1>13. CASE PostOpportunity
  BY <1>1, <1>13 DEF PostOpportunity, createOpportunity
<1> QED
  BY <1>4, <1>6, <1>7, <1>8, <1>9, <1>10, <1>11, <1>12, <1>13, ScopeAssumption DEF LeadsNext

\* Once the batch is written, somebody's share is what he had besides it and what he got of it.
LEMMA ShareIs ==
  ASSUME NEW L \in SUBSET Lead, NEW to, NEW u, \A l \in L : Live(l),
         \A l \in Lead \ L : lead'[l] = lead[l],
         \A l \in L : lead'[l].owner = to[l] /\ lead'[l].where = lead[l].where
  PROVE  Share(lead', u, L) = Workload(u, L) + Cardinality(Got(to, L, u))
<1> DEFINE S == {l \in Lead : /\ lead'[l].where = "live" /\ lead'[l].owner = u
                              /\ l \in L \/ lead'[l].status = "OPEN"}
           W == {l \in Lead \ L : Live(l) /\ lead[l].owner = u /\ lead[l].status = "OPEN"}
           G == Got(to, L, u)
<1>1. S = W \cup G
  BY DEF Live, Got
<1>2. W \cap G = {} /\ W \subseteq Lead /\ G \subseteq Lead
  BY DEF Got
<1>3. Share(lead', u, L) = Cardinality(S) /\ Workload(u, L) = Cardinality(W)
  BY DEF Share, Workload
<1> HIDE DEF S, W, G
<1>4. /\ IsFiniteSet(W) /\ Cardinality(W) \in Nat
      /\ IsFiniteSet(G) /\ Cardinality(G) \in Nat
  BY <1>2, LeadAssumption, FS_Subset, FS_CardinalityType
<1>5. Cardinality(S) = Cardinality(W) + Cardinality(G)
  <2>1. Cardinality(W \cup G) = Cardinality(W) + Cardinality(G) - Cardinality(W \cap G)
    BY <1>4, FS_Union
  <2>2. Cardinality(W \cap G) = 0
    BY <1>2, FS_EmptySet
  <2> QED BY <1>1, <1>4, <2>1, <2>2
<1> QED BY <1>3, <1>5 DEF G

LEMMA AutoAssignStepIsFair ==
  ASSUME LeadsInv, [LeadsNext]_leadsVars, NEW s \in Slot,
         open[s].op = "AUTO", open'[s] = NoRequest, ~open[s].overtaken,
         NEW l \in open[s].leads, NEW v \in Staff[open[s].dept]
  PROVE  Share(lead', open[s].to[l], open[s].leads) <= Share(lead', v, open[s].leads) + 1
<1> DEFINE L == open[s].leads
           to == open[s].to
           d == open[s].dept
<1>1. Typed /\ StaysFair /\ s \in Ops
  BY DEF LeadsInv, Ops
<1>2. CommitAuto(s)
  <2>1. s \notin Ops'
    BY DEF Ops, NoRequest
  <2>2. CommitRequest(s)
    BY <1>1, <2>1, OpenUntilCommitted
  <2> QED BY <2>2 DEF CommitRequest, CommitUpdate, CommitConvert, CommitManual
<1>3. L \in SUBSET Lead
  BY <1>1, SlotsAre DEF Request
<1>4. d \in Department /\ to \in Distribution(d, L) /\ \A k \in L : Live(k)
  BY <1>1 DEF StaysFair
<1>5. /\ \A k \in L : lead'[k].owner = to[k] /\ lead'[k].where = lead[k].where
      /\ \A k \in Lead \ L : lead'[k] = lead[k]
  <2> DEFINE K == {k \in L : lead[k].where # "gone"}
  <2>1. K = L
    BY <1>4 DEF Live
  <2>2. /\ Write(s, L, LAMBDA k : [lead[k] EXCEPT !.owner = open[s].to[k], !.manager = open[s].user])
        /\ opps' = opps /\ begun' = begun
    BY <1>2, <2>1 DEF CommitAuto
  <2>3. L \in SUBSET Lead /\ L \subseteq open[s].leads
    BY <1>3
  <2> QED BY <1>1, <2>2, <2>3, AssignKeeps
<1>6. to[l] \in Staff[d]
  <2>1. to \in [L -> Staff[d]]
    BY <1>4 DEF Distribution
  <2> QED BY <2>1
<1> HIDE DEF L, to, d
<1>7. l \in L /\ v \in Staff[d]
  BY DEF L, d
<1>8. Workload(to[l], L) + Cardinality(Got(to, L, to[l])) <= Workload(v, L) + Cardinality(Got(to, L, v)) + 1
  BY <1>3, <1>4, <1>7, DistributionIsFair
<1>9. \A u : Share(lead', u, L) = Workload(u, L) + Cardinality(Got(to, L, u))
  BY <1>3, <1>4, <1>5, ShareIs
<1>10. Share(lead', to[l], L) <= Share(lead', v, L) + 1
  BY <1>8, <1>9
<1> QED BY <1>10 DEF L, to

\* An automatic assignment that nothing overtook is fair whatever else runs: computeDistribution
\* gives each lead to the employee with the fewest, and the lock keeps the department's other assignments out.
THEOREM AssignmentsAreFair == LeadsSpec => AutoAssignIsFair
<1> DEFINE Fair == \A s \in Slot :
                     (open[s].op = "AUTO" /\ open'[s] = NoRequest /\ ~open[s].overtaken)
                        => \A l \in open[s].leads, v \in Staff[open[s].dept] :
                              Share(lead', open[s].to[l], open[s].leads) <= Share(lead', v, open[s].leads) + 1
<1>1. LeadsInv /\ [LeadsNext]_leadsVars => [Fair]_leadsVars
  BY AutoAssignStepIsFair
<1>2. AutoAssignIsFair <=> [][Fair]_leadsVars
  BY DEF AutoAssignIsFair
<1> HIDE DEF Fair
<1> QED BY <1>1, <1>2, LeadsInvariance, PTL DEF LeadsSpec
=============================================================================
