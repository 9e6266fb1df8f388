--------------------------- MODULE LeadLifecycle ---------------------------
(***************************************************************************)
(* The rows of the Lead table that move: who owns a lead and who handed it *)
(* over, its status, its stage and follow-up date, the opportunities made  *)
(* from it, and the recycle bin (lead.service, leads.router, the recycle   *)
(* bin's cleanup).  A request that reads the lead before its transaction   *)
(* is two steps: Begin, with its guards on what it read, and Commit, whose *)
(* WHERE decides again on the row as it is by then.  A request that is one *)
(* statement is one step.  Tags, addresses, scores and custom fields are   *)
(* columns nothing here depends on; phones and contacts are LeadContacts'. *)
(* Of a lead's activities the pending follow-ups are counted; the others   *)
(* only record what happened.  The leads differ in phone and e-mail, which *)
(* are unique among those that are live.                                   *)
(***************************************************************************)
EXTENDS Naturals, FiniteSets

CONSTANTS
    Lead,         \* the leads of one tenant
    User,         \* their possible owners
    Caller,       \* those of them who make requests
    Nobody,       \* the null owner
    Scope,        \* the scope of each user's role
    Members,      \* the team or department of each user, empty when it has none
    Department,   \* the departments that an auto-assign may name
    Staff,        \* the active employees of each
    Rank,         \* the order of user ids, for ties
    Slots,        \* how many requests may be open at the same time
    MaxRequests   \* bound: how many requests are made (finite model)

ASSUME LeadAssumption == IsFiniteSet(Lead)
ASSUME NobodyAssumption == Nobody \notin User
ASSUME ScopeAssumption ==
    /\ Scope \in [User -> {"OWN", "GROUP", "ORGANIZATION"}]
    /\ Members \in [User -> SUBSET User]
    /\ Caller \subseteq User
    /\ Staff \in [Department -> SUBSET User]
ASSUME RankAssumption == Rank \in [User -> Nat] /\ \A u, v \in User : Rank[u] = Rank[v] => u = v
ASSUME BoundAssumption == Slots \in Nat /\ MaxRequests \in Nat

VARIABLES
    lead,     \* the row of each lead
    opps,     \* how many opportunities its conversions made
    others,   \* how many were opened for it without a conversion
    open,     \* the open request of each slot
    begun     \* how many requests were made

leadsVars == <<lead, opps, others, open, begun>>

Slot == 1..Slots

\* INTERESTED, FOLLOW_UP, CALL_BACK_REQUESTED and CALL_NOT_RECEIVED are DATED.
FOLLOW_UP_REQUIRED_STAGES == {"DATED"}
LeadStage == {"PLAIN", "DATED"}
LeadStatus == {"OPEN", "CONVERTED"}
Owner == User \cup {Nobody}

\* where: absent, live, in the bin, in it longer than the retention, removed.
\* loose: an import, or an update that another write overtook, wrote the row.
\* again (history): the statuses set by hand and the conversions that another write
\* overtook.  pending: its follow-up activities that are PENDING;
\* asked (history): those people asked for since an update of the lead scheduled one.
Row == [where : {"absent", "live", "bin", "expired", "gone"}, owner : Owner, manager : Owner,
        status : LeadStatus, stage : LeadStage, date : BOOLEAN, loose : BOOLEAN, again : Nat,
        pending : 0..(MaxRequests + 1), asked : 0..MaxRequests]

\* An update: the fields the caller sends; "-" is a field left out.
Given == [stage : LeadStage \cup {"-"}, date : {"set", "clear", "-"},
          owner : Owner \cup {"-"}, status : LeadStatus \cup {"-"}]
Nothing == [stage |-> "-", date |-> "-", owner |-> "-", status |-> "-"]

NoDepartment == "-"   \* of a request that is no automatic assignment
NoRequest == [op |-> "idle"]
\* due: the update schedules a follow-up.  overtaken: a lead of the request was written
\* since the request read it.
Request ==
    [op : {"UPDATE", "CONVERT", "MANUAL", "AUTO"}, dept : Department \cup {NoDepartment},
     user : User, leads : SUBSET Lead, given : Given, due : BOOLEAN,
     to : UNION {[L -> Owner] : L \in SUBSET Lead}, overtaken : BOOLEAN]

Fresh(owner, stage) ==
    [where |-> "live", owner |-> owner, manager |-> Nobody, status |-> "OPEN",
     stage |-> stage, date |-> stage \in FOLLOW_UP_REQUIRED_STAGES, loose |-> FALSE, again |-> 0,
     pending |-> 0, asked |-> 0]
NoRow == [Fresh(Nobody, "PLAIN") EXCEPT !.where = "absent"]

LeadsInit ==
    /\ lead \in [Lead -> {NoRow} \cup {Fresh(o, "PLAIN") : o \in Owner}]
    /\ opps = [l \in Lead |-> 0]
    /\ others = [l \in Lead |-> 0]
    /\ open = [s \in Slot |-> NoRequest]
    /\ begun = 0

-----------------------------------------------------------------------------
Live(l) == lead[l].where = "live"
Binned(l) == lead[l].where \in {"bin", "expired"}

\* buildOwnerFilter: an OWN caller sees what it owns and what it handed over; one
\* of scope TEAM or DEPARTMENT (GROUP) what its members own, or just it without one.
InScope(u, l) ==
    \/ Scope[u] = "ORGANIZATION"
    \/ Scope[u] = "OWN" /\ u \in {lead[l].owner, lead[l].manager}
    \/ Scope[u] = "GROUP" /\ lead[l].owner \in (IF Members[u] = {} THEN {u} ELSE Members[u])

Make == begun < MaxRequests /\ begun' = begun + 1

\* Open requests that read a lead that is written are overtaken: an AUTO one read
\* them all, and its lock, not this flag, is to keep another AUTO one of its own
\* department out.
Reads(t) == IF open[t].op = "AUTO" THEN Lead ELSE open[t].leads
HoldsLock(t, dept) == open[t].op = "AUTO" /\ open[t].dept = dept
Overtaking(op, dept, L) ==
    [t \in Slot |-> IF open[t].op # "idle" /\ Reads(t) \cap L # {} /\ ~(op = "AUTO" /\ HoldsLock(t, dept))
                    THEN [open[t] EXCEPT !.overtaken = TRUE] ELSE open[t]]

\* The row of every lead in L becomes New(l), and the request of s ends.
Write(s, L, New(_)) ==
    /\ lead' = [l \in Lead |-> IF l \in L THEN New(l) ELSE lead[l]]
    /\ open' = [Overtaking(open[s].op, open[s].dept, L) EXCEPT ![s] = NoRequest]

EffectiveStage(l, given) == IF given.stage = "-" THEN lead[l].stage ELSE given.stage

\* A follow-up is scheduled when a stage or date is sent and the stage is a dated one: a
\* dated stage that is sent counts as another of them, a date always as a new one (it is
\* compared with the old one as text, in two formats).
Schedules(L, given) ==
    /\ given.stage # "-" \/ given.date # "-"
    /\ \A l \in L : EffectiveStage(l, given) \in FOLLOW_UP_REQUIRED_STAGES

BeginRequest(s, op, dept, u, L, given, to) ==
    /\ Make
    /\ open[s].op = "idle" /\ \A t \in 1..(s - 1) : open[t].op # "idle"
    /\ open' = [open EXCEPT ![s] = [op |-> op, dept |-> dept, user |-> u, leads |-> L,
                                    given |-> given, due |-> Schedules(L, given), to |-> to,
                                    overtaken |-> FALSE]]
    /\ UNCHANGED <<lead, opps, others>>

\* The write finds no row: 404, and the transaction rolls back.
NotFound(s) == open' = [open EXCEPT ![s] = NoRequest] /\ UNCHANGED <<lead, opps, others, begun>>

-----------------------------------------------------------------------------
\* validateFollowUpDate refuses a dated stage without a date; a plain one drops it.
CreateLead(l, owner, stage) ==
    /\ Make
    /\ lead[l].where = "absent"
    /\ lead' = [lead EXCEPT ![l] = Fresh(owner, stage)]
    /\ open' = Overtaking("CREATE", NoDepartment, {l})
    /\ UNCHANGED <<opps, others>>

\* Mutant: the date of a stage that takes none is not dropped.
NormalisedAsGiven(l, given) == given

\* A stage without follow-ups clears a date that is sent or already there.
Normalised(l, given) ==
    IF EffectiveStage(l, given) \notin FOLLOW_UP_REQUIRED_STAGES
       /\ (given.date # "-" \/ lead[l].date)
    THEN [given EXCEPT !.date = "clear"] ELSE given

\* Only an update of the stage or the date must leave a date behind.
DatedOK(l, given) ==
    (given.stage # "-" \/ given.date # "-") =>
        (EffectiveStage(l, given) \in FOLLOW_UP_REQUIRED_STAGES
            => IF given.date = "-" THEN lead[l].date ELSE given.date = "set")

BeginUpdate(s, u, l, given) ==
    /\ Live(l) /\ InScope(u, l)
    /\ DatedOK(l, Normalised(l, given))
    /\ BeginRequest(s, "UPDATE", NoDepartment, u, {l}, Normalised(l, given), [k \in {} |-> Nobody])

\* Mutant: the follow-ups that are pending are not cancelled.
WithFollowUpMore(row) == [row EXCEPT !.pending = @ + 1, !.asked = 0]

\* The follow-ups that are pending are cancelled and one is created.
WithFollowUp(row) == [row EXCEPT !.pending = 1, !.asked = 0]

\* An owner that is sent makes the caller the one who handed the lead over.
Updated(row, s) ==
    LET given == open[s].given
        timed == IF open[s].due THEN WithFollowUp(row) ELSE row
        moved == IF given.owner = "-" THEN timed
                 ELSE [timed EXCEPT !.owner = given.owner,
                                  !.manager = IF given.owner = Nobody THEN Nobody ELSE open[s].user]
    IN [moved EXCEPT !.status = IF given.status = "-" THEN @ ELSE given.status,
                     !.stage = IF given.stage = "-" THEN @ ELSE given.stage,
                     !.date = IF given.date = "-" THEN @ ELSE given.date = "set",
                     !.loose = @ \/ open[s].overtaken,
                     !.again = IF given.status = "-" THEN @ ELSE @ + 1]

CommitUpdate(s) ==
    /\ open[s].op = "UPDATE"
    /\ IF \A l \in open[s].leads : Live(l) /\ InScope(open[s].user, l)
       THEN /\ Write(s, open[s].leads, LAMBDA l : Updated(lead[l], s))
            /\ UNCHANGED <<opps, others, begun>>
       ELSE NotFound(s)

-----------------------------------------------------------------------------
\* Mutant: the conversion does not ask whether the lead is converted.
BeginConvertAgain(s, u, l) ==
    /\ Live(l) /\ InScope(u, l)
    /\ BeginRequest(s, "CONVERT", NoDepartment, u, {l}, Nothing, [k \in {} |-> Nobody])

\* convertLead asks for the status before its transaction, and not in it.
BeginConvert(s, u, l) ==
    /\ Live(l) /\ InScope(u, l)
    /\ lead[l].status # "CONVERTED"
    /\ BeginRequest(s, "CONVERT", NoDepartment, u, {l}, Nothing, [k \in {} |-> Nobody])

CommitConvert(s) ==
    /\ open[s].op = "CONVERT"
    /\ IF \A l \in open[s].leads : Live(l) /\ InScope(open[s].user, l)
       THEN /\ Write(s, open[s].leads,
                     LAMBDA l : [lead[l] EXCEPT !.status = "CONVERTED",
                                                !.again = IF open[s].overtaken THEN @ + 1 ELSE @])
            /\ opps' = [l \in Lead |-> IF l \in open[s].leads THEN opps[l] + 1 ELSE opps[l]]
            /\ UNCHANGED <<others, begun>>
       ELSE NotFound(s)

\* createOpportunity: one more for a lead, whatever its status, which it leaves alone.
\* It asks for the lead to be live; the foreign key, later, for it to be there.
createOpportunity(l) ==
    /\ Make
    /\ Live(l) \/ Binned(l)
    /\ others' = [others EXCEPT ![l] = @ + 1]
    /\ UNCHANGED <<lead, opps, open>>

-----------------------------------------------------------------------------
\* bulkAssign, MANUAL: the target and the leads are read, then written as a whole.
BeginManual(s, u, L, target) ==
    /\ {l \in L : Live(l)} # {}
    /\ BeginRequest(s, "MANUAL", NoDepartment, u, {l \in L : Live(l)}, Nothing, [l \in {k \in L : Live(k)} |-> target])

CommitManual(s) ==
    /\ open[s].op = "MANUAL"
    /\ Write(s, {l \in open[s].leads : Live(l)},
             LAMBDA l : [lead[l] EXCEPT !.owner = open[s].to[l], !.manager = open[s].user])
    /\ UNCHANGED <<opps, others, begun>>

\* computeDistribution: what each employee has without the leads of the batch.
Workload(u, L) ==
    Cardinality({l \in Lead \ L : Live(l) /\ lead[l].owner = u /\ lead[l].status = "OPEN"})

\* The employee with the fewest leads, the first id of several.
LeastLoaded(dept, load) ==
    CHOOSE u \in Staff[dept] : \A v \in Staff[dept] : load[u] < load[v] \/ (load[u] = load[v] /\ Rank[u] <= Rank[v])

\* Each lead in turn, in the order the database returns them.
Distribution(dept, L) ==
    {to \in [L -> Staff[dept]] : \E at \in [L -> 1..Cardinality(L)] :
        /\ \A k, l \in L : at[k] = at[l] => k = l
        /\ \A l \in L : to[l] = LeastLoaded(dept, [u \in Staff[dept] |->
              Workload(u, L) + Cardinality({k \in L : at[k] < at[l] /\ to[k] = u})])}

\* Mutant: no lock.
LockNever(dept) == TRUE

\* The advisory lock of the tenant and department, held until the commit.
LockFree(dept) == \A t \in Slot : ~HoldsLock(t, dept)

BeginAuto(s, u, dept, L) ==
    /\ LockFree(dept)
    /\ Staff[dept] # {} /\ {l \in L : Live(l)} # {}
    /\ \E to \in Distribution(dept, {l \in L : Live(l)}) :
          BeginRequest(s, "AUTO", dept, u, {l \in L : Live(l)}, Nothing, to)

\* The write does not ask again whether the leads are still there.
CommitAuto(s) ==
    /\ open[s].op = "AUTO"
    /\ Write(s, {l \in open[s].leads : lead[l].where # "gone"},
             LAMBDA l : [lead[l] EXCEPT !.owner = open[s].to[l], !.manager = open[s].user])
    /\ UNCHANGED <<opps, others, begun>>

-----------------------------------------------------------------------------
(* The recycle bin.  Each request is one statement whose WHERE asks for the *)
(* scope and for deletedAt; what was read before it only decides on a 404. *)
Move(L, where) ==
    /\ L # {}
    /\ lead' = [l \in Lead |-> IF l \in L THEN [lead[l] EXCEPT !.where = where] ELSE lead[l]]
    /\ open' = Overtaking("BIN", NoDepartment, L)
    /\ UNCHANGED <<opps, others>>

deleteLead(u, l) == Make /\ Live(l) /\ InScope(u, l) /\ Move({l}, "bin")
bulkSoftDelete(u, L) == Make /\ Move({l \in L : Live(l) /\ InScope(u, l)}, "bin")
restoreLead(u, l) == Make /\ Binned(l) /\ InScope(u, l) /\ Move({l}, "live")
bulkRestore(u, L) == Make /\ Move({l \in L : Binned(l) /\ InScope(u, l)}, "live")

\* Opportunity.leadId is ON DELETE RESTRICT: one such row refuses the statement.
Removable(L) == \A l \in L : opps[l] + others[l] = 0

permanentDeleteLead(u, l) ==
    Make /\ Binned(l) /\ InScope(u, l) /\ Removable({l}) /\ Move({l}, "gone")
bulkPermanentDelete(u, L) ==
    LET found == {l \in L : Binned(l) /\ InScope(u, l)}
    IN Make /\ Removable(found) /\ Move(found, "gone")

\* Fourteen days in the bin.
Age(l) ==
    /\ lead[l].where = "bin"
    /\ Move({l}, "expired")
    /\ UNCHANGED begun

Expired == {l \in Lead : lead[l].where = "expired"}

\* purgeExpired, at start and daily: one deleteMany for all, an error is logged.
Purge ==
    /\ Removable(Expired)
    /\ Move(Expired, "gone")
    /\ UNCHANGED begun

-----------------------------------------------------------------------------
(* Follow-ups.                                                             *)
Touch(L, New(_)) ==
    /\ Make
    /\ lead' = [l \in Lead |-> IF l \in L THEN New(lead[l]) ELSE lead[l]]
    /\ UNCHANGED <<opps, others, open>>

\* An activity with a date is PENDING.
createActivity(u, l) ==
    Live(l) /\ InScope(u, l) /\ Touch({l}, LAMBDA row : [row EXCEPT !.pending = @ + 1, !.asked = @ + 1])

\* Any activity of the lead, whatever its state (done: 0 when it was not pending), and
\* with it, on demand, the next follow-up.
markComplete(u, l, done, next) ==
    /\ Live(l) /\ InScope(u, l) /\ done + next > 0 /\ done <= lead[l].pending
    /\ Touch({l}, LAMBDA row : [row EXCEPT !.pending = @ - done + next, !.asked = @ + next])

bulkComplete(u, L) ==
    LET found == {l \in L : Live(l) /\ InScope(u, l) /\ lead[l].pending > 0}
    IN found # {} /\ Touch(found, LAMBDA row : [row EXCEPT !.pending = 0])

-----------------------------------------------------------------------------
(* The import: each row of the file is a transaction of its own.           *)

\* A row is refused for a dated stage without a date, or an owner who is no user here.
ValidRow(stage, dated, owner) == (stage \in FOLLOW_UP_REQUIRED_STAGES => dated) /\ owner \in Owner

\* A row that no live lead has the phone or e-mail of: its stage is NEW unless it has
\* one, and a date that the stage takes none of is dropped.
ImportCreate(l, stage, owner) ==
    /\ Make
    /\ lead[l].where = "absent"
    /\ lead' = [lead EXCEPT ![l] = Fresh(owner, IF stage = "-" THEN "PLAIN" ELSE stage)]
    /\ open' = Overtaking("IMPORT", NoDepartment, {l})
    /\ UNCHANGED <<opps, others>>

\* The import's overwrite of a lead found by phone or e-mail: the stage only when
\* the row of the file has one, the date always.
ImportOverwrite(l, stage, dated) ==
    /\ Make
    /\ Live(l)
    /\ lead' = [lead EXCEPT ![l].stage = IF stage = "-" THEN @ ELSE stage, ![l].date = dated,
                            ![l].loose = TRUE]
    /\ open' = Overtaking("IMPORT", NoDepartment, {l})
    /\ UNCHANGED <<opps, others>>

-----------------------------------------------------------------------------
\* The updates that differ here: a stage, a date or both, an owner, a status.
Updates ==
    {[Nothing EXCEPT !.stage = p[1], !.date = p[2]] :
        p \in {<<"PLAIN", "-">>, <<"DATED", "set">>, <<"DATED", "-">>, <<"-", "set">>, <<"-", "clear">>}}
        \cup {[Nothing EXCEPT !.owner = o] : o \in Owner}
        \cup {[Nothing EXCEPT !.status = "OPEN"]}

Request1(u) ==
    \E l \in Lead :
        \/ deleteLead(u, l) \/ restoreLead(u, l) \/ permanentDeleteLead(u, l)
        \/ \E s \in Slot : BeginConvert(s, u, l) \/ \E given \in Updates : BeginUpdate(s, u, l, given)

FollowUps(u) ==
    \/ \E l \in Lead : createActivity(u, l) \/ (\E done, next \in 0..1 : markComplete(u, l, done, next))
    \/ \E L \in SUBSET Lead : bulkComplete(u, L)

RequestMany(u) ==
    \E L \in SUBSET Lead \ {{}} :
        \/ bulkSoftDelete(u, L) \/ bulkRestore(u, L) \/ bulkPermanentDelete(u, L)
        \/ \E s \in Slot : (\E dept \in Department : BeginAuto(s, u, dept, L))
                           \/ \E target \in User : BeginManual(s, u, L, target)

PostOpportunity == \E l \in Lead : createOpportunity(l)

PostLead == \E l \in Lead, o \in Owner : CreateLead(l, o, "DATED")

ImportRow ==
    \E l \in Lead, g \in {"-", "DATED"}, d \in BOOLEAN, o \in Owner :
        ValidRow(g, d, o) /\ (ImportCreate(l, g, o) \/ ImportOverwrite(l, g, d))

CommitRequest(s) == CommitUpdate(s) \/ CommitConvert(s) \/ CommitManual(s) \/ CommitAuto(s)

LeadsNext ==
    \/ begun < MaxRequests /\ (\E u \in Caller : Request1(u) \/ FollowUps(u) \/ RequestMany(u))
    \/ PostLead \/ PostOpportunity \/ ImportRow
    \/ \E s \in Slot : CommitRequest(s)
    \/ \E l \in Lead : Age(l)
    \/ Purge

LeadsSpec == LeadsInit /\ [][LeadsNext]_leadsVars

-----------------------------------------------------------------------------
LeadsTypeOK ==
    /\ lead \in [Lead -> Row]
    /\ opps \in [Lead -> 0..MaxRequests]
    /\ others \in [Lead -> Nat]
    /\ open \in [Slot -> Request \cup {NoRequest}]
    /\ begun \in 0..MaxRequests

\* "Non-date stages must not carry a followUpDate", and the dated ones have one:
\* whatever requests were made of the lead, unless a file was imported over it or
\* a request wrote it that had read it before another write.
DateFollowsStage ==
    \A l \in Lead : ~lead[l].loose => (lead[l].date <=> lead[l].stage \in FOLLOW_UP_REQUIRED_STAGES)

\* An update that schedules a follow-up leaves one pending, however often it is done:
\* there are more only of those that people asked for since.
OneFollowUp == \A l \in Lead : lead[l].pending <= 1 + lead[l].asked

\* A lead is converted once: of the opportunities that conversions made of it, each
\* beyond the first has a status set by hand, or a conversion that began before the
\* lead was written by another request, of its own to account for it.
ConvertedOnce == \A l \in Lead : opps[l] <= 1 + lead[l].again

Share(rows, u, L) ==
    Cardinality({l \in Lead : /\ rows[l].where = "live" /\ rows[l].owner = u
                              /\ l \in L \/ rows[l].status = "OPEN"})

\* An automatic assignment that nothing overtook leaves nobody it gave a lead to
\* with two leads more than a colleague of the department has: an assignment of the
\* same department cannot overtake it, which the lock is for; one of another can.
AutoAssignIsFair ==
    [][\A s \in Slot :
          (open[s].op = "AUTO" /\ open'[s] = NoRequest /\ ~open[s].overtaken)
              => \A l \in open[s].leads, v \in Staff[open[s].dept] :
                    Share(lead', open[s].to[l], open[s].leads) <= Share(lead', v, open[s].leads) + 1]_leadsVars
=============================================================================
