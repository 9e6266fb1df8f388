---------------------------- MODULE CaseTimeline ----------------------------
(***************************************************************************)
(* The timeline of one case (case-timeline.service) and the SLA sweep that *)
(* blocks its overdue stages (sla.worker).  Every stage operation is one   *)
(* READ COMMITTED transaction: it reads its stage without locking it,      *)
(* writes it by id, recomputes which untouched stages are ready, then the  *)
(* status of the timeline, and, unless it is an unlock, plans all stages   *)
(* anew, which writes every row.  The rows it has written stay locked      *)
(* until it ends.  The sweep decides on rows it read before its            *)
(* transaction began.  Dates are left out: which stages are past their     *)
(* planned finish, with no approved exception, is the sweep's free choice. *)
(***************************************************************************)
EXTENDS Naturals

CONSTANTS
    N,          \* stages of the timeline, in sequence
    Txn,        \* requests the server may be handling at the same time
    Sweeper,    \* firings of the timer that may be under way
    Dependent,  \* stages with dependsOnPrevious
    HardBlock   \* stages with hardBlock

Stage == 1..N

ASSUME StageAssumption == N \in Nat \ {0}
ASSUME KindAssumption == Dependent \subseteq Stage /\ HardBlock \subseteq Stage

VARIABLES
    timeline,  \* the CaseTimeline row's status, or none
    stage,     \* the CaseStage rows
    tx,        \* what each open request has read and written
    sweep,     \* what each running sweep has decided
    freed      \* history: stages that an unlock found still blocked

vars == <<timeline, stage, tx, sweep, freed>>

CaseStageStatus == {"PENDING", "READY", "IN_PROGRESS", "WAITING_EXTERNAL",
                    "BLOCKED", "COMPLETED", "SKIPPED"}
TERMINAL == {"COMPLETED", "SKIPPED"}
Untouched == {"PENDING", "READY"}

StageRow == [status : CaseStageStatus, started : BOOLEAN, unlocked : BOOLEAN]
NewStage == [status |-> "PENDING", started |-> FALSE, unlocked |-> FALSE]

\* What each operation asks of the stage it reads.
From == [start    |-> {"READY"},
         complete |-> {"IN_PROGRESS"},
         skip     |-> {"PENDING", "READY", "IN_PROGRESS", "WAITING_EXTERNAL"},
         reopen   |-> TERMINAL,
         pause    |-> {"IN_PROGRESS"},
         resume   |-> {"WAITING_EXTERNAL"},
         unlock   |-> {"BLOCKED"}]
Operation == DOMAIN From

\* The status it writes, from the row it read.
To(op, row) ==
    CASE op = "start"    -> "IN_PROGRESS"
      [] op = "complete" -> "COMPLETED"
      [] op = "skip"     -> "SKIPPED"
      [] op = "reopen"   -> IF row.status = "COMPLETED" THEN "IN_PROGRESS" ELSE "READY"
      [] op = "pause"    -> "WAITING_EXTERNAL"
      [] op = "resume"   -> "IN_PROGRESS"
      [] op = "unlock"   -> IF row.started THEN "IN_PROGRESS" ELSE "READY"

Idle == [pc |-> "idle"]
Keep == "keep"  \* the transaction leaves the stage's status alone
Writes == [Stage -> CaseStageStatus \cup {Keep}]
Work == [pc : {"update"}, op : Operation, s : Stage, to : CaseStageStatus]
        \cup [pc : {"flip"}, op : Operation, s : Stage, w : Writes, crossed : BOOLEAN]
        \cup [pc : {"sync"}, op : Operation, s : Stage, w : Writes, crossed : BOOLEAN,
              status : {"ACTIVE", "COMPLETED"}]

Init ==
    /\ timeline = "none"
    /\ stage = [i \in Stage |-> NewStage]
    /\ tx = [t \in Txn |-> Idle]
    /\ sweep = [k \in Sweeper |-> Idle]
    /\ freed = {}

-----------------------------------------------------------------------------
At(t, pc) == tx[t].pc = pc
Status(rows) == [i \in Stage |-> rows[i].status]

\* The statuses with the writes w over them.
With(status, w) == [i \in Stage |-> IF w[i] = Keep THEN status[i] ELSE w[i]]

\* What t's transaction sees: the committed rows and its own writes.
Seen(t, w) == With(Status(stage), w)

\* A stage is eligible if nothing has to come before it, or what does is finished.
Eligible(status, i) == i \notin Dependent \/ i = 1 \/ status[i - 1] \in TERMINAL

\* Mutant: a stage that became ready never goes back.
ReadinessForward(status) ==
    [i \in Stage |-> IF status[i] = "PENDING" /\ Eligible(status, i) THEN "READY" ELSE Keep]

\* What recomputeReadiness flips, given the statuses it reads.
Readiness(status) ==
    [i \in Stage |->
        LET desired == IF Eligible(status, i) THEN "READY" ELSE "PENDING"
        IN IF status[i] \in Untouched /\ status[i] # desired THEN desired ELSE Keep]

\* What syncTimelineStatus writes.
TimelineStatus(status) ==
    IF \A i \in Stage : status[i] \in TERMINAL THEN "COMPLETED" ELSE "ACTIVE"

\* The rows t's transaction holds: its own stage, then what it flipped as well.
Locked(t) ==
    CASE At(t, "flip") -> {tx[t].s}
      [] At(t, "sync") -> {i \in Stage : tx[t].w[i] # Keep}
      [] OTHER -> {}
Free(t, rows) == \A u \in Txn \ {t} : Locked(u) \cap rows = {}

\* The open transactions that have read stages, after a commit that takes no row of theirs.
Crossed(t) == [u \in Txn |->
    IF u = t THEN Idle
    ELSE IF tx[u].pc \in {"flip", "sync"} THEN [tx[u] EXCEPT !.crossed = TRUE] ELSE tx[u]]

-----------------------------------------------------------------------------
\* createTimeline: every template becomes a stage; the first readiness is computed.
CreateTimeline ==
    /\ timeline = "none"
    /\ timeline' = "ACTIVE"
    /\ LET new == Status(stage)
       IN stage' = [i \in Stage |-> [stage[i] EXCEPT !.status = With(new, Readiness(new))[i]]]
    /\ UNCHANGED <<tx, sweep, freed>>

\* loadStage and the guard.
Begin(t, op, s) ==
    /\ At(t, "idle")
    /\ timeline # "none"
    /\ stage[s].status \in From[op]
    /\ tx' = [tx EXCEPT ![t] = [pc |-> "update", op |-> op, s |-> s, to |-> To(op, stage[s])]]
    /\ UNCHANGED <<timeline, stage, sweep, freed>>

\* The stage is written by id, whatever it has become, and recomputeReadiness reads.
Update(t) ==
    /\ At(t, "update")
    /\ Free(t, {tx[t].s})
    /\ LET own == [i \in Stage |-> IF i = tx[t].s THEN tx[t].to ELSE Keep]
           flips == Readiness(Seen(t, own))
       IN tx' = [tx EXCEPT ![t] = [pc |-> "flip", op |-> tx[t].op, s |-> tx[t].s,
                                   w |-> With(own, flips), crossed |-> FALSE]]
    /\ UNCHANGED <<timeline, stage, sweep, freed>>

\* Its flips are written, and syncTimelineStatus reads.
Flip(t) ==
    /\ At(t, "flip")
    /\ Free(t, {i \in Stage : tx[t].w[i] # Keep})
    /\ tx' = [tx EXCEPT ![t] = [pc |-> "sync", op |-> tx[t].op, s |-> tx[t].s, w |-> tx[t].w,
                                crossed |-> tx[t].crossed,
                                status |-> TimelineStatus(Seen(t, tx[t].w))]]
    /\ UNCHANGED <<timeline, stage, sweep, freed>>

Transitions(t) == tx[t].op # "unlock"

\* The rows after t's transaction: statuses, and what start and unlock set besides.
After(t) == [i \in Stage |->
    [status |-> Seen(t, tx[t].w)[i],
     started |-> stage[i].started \/ (tx[t].op = "start" /\ i = tx[t].s),
     unlocked |-> stage[i].unlocked \/ (tx[t].op = "unlock" /\ i = tx[t].s)]]

\* Mutant: a transition leaves the other stages' rows alone.
CommitOwnRows(t) ==
    /\ At(t, "sync")
    /\ stage' = After(t)
    /\ timeline' = tx[t].status
    /\ freed' = IF ~Transitions(t) /\ stage[tx[t].s].status = "BLOCKED"
                THEN freed \cup {tx[t].s} ELSE freed
    /\ tx' = IF Transitions(t) THEN [tx EXCEPT ![t] = Idle] ELSE Crossed(t)
    /\ UNCHANGED sweep

\* The timeline's row is written; a transition then has recalcInTx write every stage's
\* dates, for which it needs all the rows.
Commit(t) ==
    /\ At(t, "sync")
    /\ Transitions(t) => Free(t, Stage)
    /\ stage' = After(t)
    /\ timeline' = tx[t].status
    /\ freed' = IF ~Transitions(t) /\ stage[tx[t].s].status = "BLOCKED"
                THEN freed \cup {tx[t].s} ELSE freed
    /\ tx' = IF Transitions(t) THEN [tx EXCEPT ![t] = Idle] ELSE Crossed(t)
    /\ UNCHANGED sweep

\* A crash, the transaction's timeout, or the database breaking a deadlock.
Abort(t) ==
    /\ ~At(t, "idle")
    /\ tx' = [tx EXCEPT ![t] = Idle]
    /\ UNCHANGED <<timeline, stage, sweep, freed>>

-----------------------------------------------------------------------------
IsRunning == \E k \in Sweeper : sweep[k] # Idle

\* Stages that shouldHardBlock blocks once they are overdue.  computeStageSlaState calls
\* an externally waiting stage WAITING_EXTERNAL, whatever the date.
Blockable == {i \in HardBlock :
    /\ ~stage[i].unlocked
    /\ stage[i].status \notin TERMINAL \cup {"WAITING_EXTERNAL", "BLOCKED"}}

\* Mutant: a sweep starts while another is under way.
BeginSweepAlways(k) ==
    /\ sweep[k] = Idle
    /\ timeline = "ACTIVE"
    /\ \E overdue \in SUBSET Blockable \ {{}} : sweep' = [sweep EXCEPT ![k] = [block |-> overdue]]
    /\ UNCHANGED <<timeline, stage, tx, freed>>

\* The sweep reads the active timelines and decides what to block, outside its transaction.
BeginSweep(k) ==
    /\ ~IsRunning
    /\ timeline = "ACTIVE"
    /\ \E overdue \in SUBSET Blockable \ {{}} : sweep' = [sweep EXCEPT ![k] = [block |-> overdue]]
    /\ UNCHANGED <<timeline, stage, tx, freed>>

\* One transaction blocks them by id, whatever they have become meanwhile.
CommitSweep(k) ==
    /\ sweep[k] # Idle
    /\ \A t \in Txn : Locked(t) \cap sweep[k].block = {}
    /\ stage' = [i \in Stage |->
          IF i \in sweep[k].block THEN [stage[i] EXCEPT !.status = "BLOCKED"] ELSE stage[i]]
    /\ sweep' = [sweep EXCEPT ![k] = Idle]
    /\ tx' = [t \in Txn |-> IF tx[t].pc \in {"flip", "sync"}
                            THEN [tx[t] EXCEPT !.crossed = TRUE] ELSE tx[t]]
    /\ UNCHANGED <<timeline, freed>>

\* The tenant's transaction fails; the next tick starts over.
FailSweep(k) ==
    /\ sweep[k] # Idle
    /\ sweep' = [sweep EXCEPT ![k] = Idle]
    /\ UNCHANGED <<timeline, stage, tx, freed>>

Next ==
    \/ CreateTimeline
    \/ \E t \in Txn : Update(t) \/ Flip(t) \/ Commit(t) \/ Abort(t)
    \/ \E t \in Txn, op \in Operation, s \in Stage : Begin(t, op, s)
    \/ \E k \in Sweeper : BeginSweep(k) \/ CommitSweep(k) \/ FailSweep(k)

Spec == Init /\ [][Next]_vars

-----------------------------------------------------------------------------
\* Every reachable value has its type.
TypeOK ==
    /\ timeline \in {"none", "ACTIVE", "COMPLETED"}
    /\ stage \in [Stage -> StageRow]
    /\ tx \in [Txn -> Work \cup {Idle}]
    /\ sweep \in [Sweeper -> [block : SUBSET HardBlock] \cup {Idle}]
    /\ freed \subseteq Stage

\* t commits a transition during which neither an unlock nor the sweep committed.
Undisturbed(t) == At(t, "sync") /\ Transitions(t) /\ ~tx[t].crossed

\* A transition leaves the timeline COMPLETED exactly when every stage is finished, even
\* when the last two stages are finished, or one is finished and one reopened, at the
\* same time: planning writes every row, so two transitions never both count the other's
\* stage as it was.
TransitionSettlesTimeline ==
    [][\A t \in Txn : Undisturbed(t) /\ Commit(t)
         => (timeline' = "COMPLETED" <=> \A i \in Stage : stage'[i].status \in TERMINAL)]_vars

\* A transition that no unlock and no sweep came into leaves the stages nobody has touched
\* READY exactly when what comes before them is finished.
TransitionSettlesReadiness ==
    [][\A t \in Txn : Undisturbed(t) /\ Commit(t)
         => \A i \in Stage : stage'[i].status \in Untouched
              => (stage'[i].status = "READY" <=> Eligible(Status(stage'), i))]_vars

\* A stage that was unlocked is never blocked again, however late it gets and whatever
\* a sweep had read before.
UnlockedStaysUnlocked == \A i \in freed : stage[i].status # "BLOCKED"
=============================================================================
