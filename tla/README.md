# Verification of the HPX Eigen S1 backend

TLA+ models of the CRM and documentation backend in `src/`: an Express application over
PostgreSQL (Prisma interactive transactions at READ COMMITTED), Redis, an S3-type object
store, a virus scanner and an e-mail service. A server handles many requests at once, and
during a deployment two servers do; almost everything worth checking comes from that: a request
reads rows, decides, and writes them later.

Paths below are relative to `src/src/` unless they say otherwise.

1. [The system](#1-the-system)
2. [Modules and how they correspond to the code](#2-modules)
3. [What is checked](#3-what-is-checked)
4. [What is proved](#4-what-is-proved)
5. [What the code does not keep](#5-what-the-code-does-not-keep)
6. [Not modelled](#6-not-modelled)
7. [Plan](#7-plan)

## 1. The system

A tenant's sales staff work on **leads**. A lead that is won is handed to Documentation, which
opens a **case** (`DocCase`), collects the required documents from the client through a
**portal** and **mandate** links, and hands the complete case to Process. Every business
transaction appends to a hash-chained **audit log**.

| Part | State | Operations | Interacts with | Hard behaviour |
|---|---|---|---|---|
| Case handoff (`services/handoff.service.ts`, `process-handoff.service.ts`, `case-lifecycle.service.ts`) | `DocCase.status`, the two handoff states, return counters, review flag, closing stamp | confirm, accept, reject, return, resend, clear review; transfer, Process accept/return, override; close, reopen | leads (phone), checklist (readiness), portal (closing darkens it), mandates (closing supersedes them), audit | reads before unconditional writes; two dimensions of state that must agree |
| Requirements and files (`services/documentation.service.ts`, `document.service.ts`) | `DocCaseDocument`, `Document`, recorded progress of the case | upload, replace, patch, delete, review, recalculate | case status, storage, audit | row locks taken in two orders; counts read before a lock; partial unique index |
| Policy checklist (`documentation.service.ts`, `case-type.service.ts`) | presets, selections, source links, requirements | save policies, propagate a preset, edit the catalog, add by hand, leave a trace | requirements, portal visibility | presets of several components share a requirement; propagation acts on what it read before the lock; neither catalog edits nor traces take the lock a save holds |
| Mandates (`services/mandate.service.ts`, `workers/mandate-expiry.worker.ts`) | `MandateRequest`, `MandateUpload`, staged and final objects | send, regenerate, upload, confirm (client, staff), verify, reject, expire, sweep | storage, virus scan, case | steps across two stores, each of which may be the last; a presigned PUT that stays usable; exactly one confirmation may claim |
| Audit log (`services/audit.service.ts`) | `AuditLog` rows | append in a transaction, verify | every other part | one chain from many connections; clocks that tie and go backwards; rollback; what is hashed before it is stored |
| Portal (`services/portal.service.ts`) | `portalEnabled`, sessions, failed attempts, visibility, change requests | verify, publish, activate, revoke, request/approve/reject a change | case, leads | activation derived from counts; sessions that outlive what they were given for |
| Timeline and SLA (`services/case-timeline.service.ts`, `case-planning.service.ts`, `workers/sla.worker.ts`) | stages, timeline status, SLA state | start, complete, skip, reopen, pause, resume, unlock; sweep | calendar, notifications | readiness and completion derived from rows read without a lock; a worker that writes what it read earlier |
| Leads (`services/lead.service.ts`, `lead-activities.service.ts`, `recycle-bin-cleanup.service.ts`, `routes/leads.router.ts`) | owner and who handed over, stage and follow-up date, pending follow-ups, status, recycle bin | create, import, update, assign by hand and automatically, convert, open an opportunity by hand, complete follow-ups, delete, restore, purge | opportunities, contacts | a status and a date judged before the transaction; an advisory lock per department for the automatic assignment; one statement purges all |
| A lead's contacts and numbers (`phone.service.ts`, `contact.service.ts`, `routes/lead-contacts.router.ts`) | contacts, `LeadPhone` rows, `lead.phone` | add, edit, delete a contact; what update, conversion and import write | leads | three copies of one fact without a lock; a deletion without a transaction |
| Sales (`opportunity.service.ts`, `opportunity-types.service.ts`, `invoice.service.ts`, `payment.service.ts`) | opportunities, their stage history, types, invoices, payments | create, update, move, close, delete; pay, change and delete a payment | leads | a balance, a stage and a count judged before the transaction |
| Roles and users (`routes/roles.router.ts`, `routes/users.router.ts`, `user.service.ts`, `admin-lockout.service.ts`, `permission.service.ts`) | roles, grants, who holds them, user status, the manifest cache and its version in Redis | create, clone, delete, grant, revoke, assign, unassign, suspend, terminate; read a manifest | Redis, sessions | the last manager; a cache filled from several reads; an increment that is lost |
| Sign-in (`routes/auth.router.ts`, `auth.service.ts`, `invitation.service.ts`, `TokenService.ts`, `middleware/auth.middleware.ts`) | users, sessions, links by mail, invitations | sign up, log in and out, refresh, verify, reset, invite, accept, end sessions | roles, mail | reads and writes by id without a transaction |
| Case types and fields (`case-field.service.ts`, `case-field-value.service.ts`) | definitions, rules, values | create, edit, archive; save values | cases | a definition that changes under a value |
| Redis, process start and stop, notifications, reports, WhatsApp | | | | see [Not modelled](#6-not-modelled) |

What makes each part correct, in one line each:

- **Handoff**: the status never says more about Process than the preconditioned updates
  recorded; Process's ownership is taken, given back and counted exactly once per offer; a
  closed case is settled; what is taken back from Process is not offered a second time.
- **Files**: an approval is backed by an active file; a decision stands; a file's status moves
  along its table; the recorded progress is the real one; no transaction waits for ever.
- **Checklist**: one requirement per key; every link stands behind a requirement that is on the
  checklist; nothing that was added by hand, or was touched when a save looked, is retired; a save
  repairs whatever happened before it.
- **Mandates**: one upload per request; what is kept was gated, unless it was replaced after the
  gates; a closed case takes none.
- **Audit**: one chain, append-only, whose links always verify, whose contents do when storage
  gives back what was hashed, and that never blocks a tenant.
- **Portal**: a closed case is dark; a dark portal leaves no session; a client who proved an
  old phone does not see the case; publishing decides the activation.
- **Timeline**: whatever runs beside it, a transition leaves the timeline's status and the
  stages' readiness as the stages say; a stage that was unlocked stays unlocked.
- **Leads**: a follow-up date goes with its stage; a lead is converted once; automatic
  assignment is fair whatever its own department's assignments do beside it; follow-ups do not
  pile up.
- **Contacts**: one main contact, one primary number, and `lead.phone` is that number.
- **Sales**: the history of stages is the opportunity's; a type in use is live; totals are
  those of their figures; no more is paid than is owed.
- **Roles**: an organisation keeps a manager; the cache says what the database says, at the
  latest when it expires.
- **Sign-in**: an ended session stays ended; a link works once; an invitation is accepted once.

## 2. Modules

| Module | Models | Composed with |
|---|---|---|
| `CaseHandoff` | one `DocCase` row and the requests that move it | `ProcessOwnership` (abstract) by a refinement mapping |
| `ProcessOwnership` | what the Documentation → Process handover promises | |
| `RequirementFiles` | the checklist, files, case row and the row locks between them | |
| `PolicyDocuments` | how the checklist is generated and retired | |
| `MandateRequests` | mandate requests, uploads and stored objects of one case | |
| `AuditChain` | one tenant's `AuditLog`, advisory lock and uncommitted rows | `AuditTrail` (abstract) by a refinement mapping |
| `AuditTrail` | one growing sequence of entries | |
| `PortalAccess` | the portal of one case | |
| `CaseTimeline` | the stages of one case's timeline, their row locks, and the SLA sweep | |
| `LeadLifecycle` | the Lead rows of a tenant, assignment, follow-ups, recycle bin | |
| `LeadContacts` | the contacts and numbers of one lead | |
| `Sales` | opportunities, types, invoices, payments | |
| `RoleGrants` | roles, users and the permission cache of a tenant | |
| `SignIn` | sign-up, sessions, links, invitations | |
| `RequirementFiles_proofs`, `MandateRequests_proofs`, `Sales_proofs`, `SignIn_proofs` | theorems about the module they are named for | |
| `CaseAndChecklist_proofs` | theorems about `CaseHandoff` and `PolicyDocuments` | |
| `AuditAndRoles_proofs` | theorems about `AuditChain` and `RoleGrants` | |
| `PortalAndContacts_proofs` | theorems about `PortalAccess` and `LeadContacts` | |
| `TimelineAndLeads_proofs` | theorems about `CaseTimeline` and `LeadLifecycle` | |
| `MC...` | symmetry sets and constant functions for TLC | |

A module of proofs that is about two models extends both, which share no name: `PolicyDocuments`,
`RoleGrants`, `LeadContacts` and `LeadLifecycle` therefore call their specification
`ChecklistSpec`, `RolesSpec`, `ContactsSpec` and `LeadsSpec`, and likewise their `...Init`,
`...Next` and `...TypeOK`. The two halves have nothing to do with each other.

### Transactions

All modules read the code's concurrency the same way.

- A request that reads, decides and writes is `Begin...` (read, check the guard, remember what
  the write needs) and `Commit...` (write with what was remembered). READ COMMITTED lets other
  requests commit in between.
- `update` by id writes whatever the row has become. `updateMany` with a status in its WHERE is
  evaluated against the row at the moment it writes, and its count decides what follows.
- All writes of one transaction become visible together, so the write and the commit are one
  step. A rollback (failed audit append, timeout, lost connection) drops the request. Where a
  lock is held between a transaction's statements (`RequirementFiles`, `PolicyDocuments`,
  `AuditChain`, `CaseTimeline`) the lock is part of the state and the statements are separate
  steps.
- Outside a transaction every write is visible at once; `MandateRequests` therefore makes every
  storage call and every write a step, and any of them may be the last (`Fail`).
- One tenant, and one case: rows of other tenants and cases are kept apart by the WHERE clauses
  (`tenantId`, `caseId`), and no operation modelled here writes two cases in one transaction.
- A server that holds many open requests is a set of slots, each with the request it is
  executing; the number of slots is how many may overlap.

Some modules carry history variables. `returns` in `CaseHandoff` counts committed give-backs.
`overtaken` (`LeadLifecycle`, `LeadContacts`, `Sales`) marks a request during which another one
wrote what it had read; `missed` (`PortalAccess`) what happened to a proof without a session
being revoked for it; `edited` (`PolicyDocuments`) the presets edited after the open save read
them; `swapped` (`MandateRequests`) an object put after the gates; `past` (`LeadContacts`,
`Sales`, `RoleGrants`, `SignIn`) and the fields `loose` and `again` of a lead record that a named
race, or a call that the code does not guard against, has happened. They let a property say
exactly how far the code keeps it: always, or until two requests of that kind overlap. What the
code does after that is told in section 5.

### CaseHandoff

`row` is the `DocCase`, `tx[t]` the request in flight on connection `t`, `evidence` what a
reason-coded resend is checked against (phone or preset changed since the snapshot, approved
override). `CanAccept` … `CanResend` are `canTransition` of `domain/handoff.ts`;
`ResendProof` is `checkResendAllowed`. `CanTransfer` and `PendingProcess` are both
`canTransition` and `precondition` of `domain/process-handoff.ts`, which name the same states;
they stand in the Begin and again in the Commit, where they are the WHERE clause. The progress
that a recalculation computes is any BOOLEAN here; `RequirementFiles` models the computation.
`Owner` maps the status and `Record` the second dimension, `processHandoffState`, to the owner and
the record of `ProcessOwnership`. The two can disagree: an override, or a stale write by id, puts a
case that Process was offered or has taken back into Documentation's hands and leaves the record.
That is `TakeBack`, a step of the abstract protocol, which then allows no further offer.

### RequirementFiles

Rows are locked (`lock`) by the transaction that updates them or selects them FOR UPDATE. The
program counter of a transaction names the statement it is about to execute: `files` (a
rejection's updateMany), `recalc` (the checklist is read), `case` (the case row is written),
`enter`, `file`, `insert`, `req`, `commit`. Reviewers lock requirement → files → case, the
document service case → files → requirement, so they can deadlock; `DeadlockVictim` is
PostgreSQL's detector. `LockFile` reads the active files and the requirement in one step where
the code uses two statements: between them the requirement can only change under the case lock
that the deletion holds, or by a reviewer whose commit then makes the two reads those of the
later moment. Only mandatory requirements are modelled; optional ones do not count for progress.

### PolicyDocuments

A save (`assignPolicies`, and `reconcileCaseComponentDocuments`, which is a save of what is
selected) holds the case row from `BeginAssign` to `CommitAssign`. In between it reads the presets
of one selected component after the other (`ReadPresets`), and then, in the reconciliation, the
links and the traces on the requirements (`ReadTraces`); the catalog's edits and `LeaveTrace` do
not take that lock and may fall between any two of these steps. An edit waits in one case: a
preset whose link an open save has written (`Written`) cannot be deleted until the save is over,
because of the foreign key. `edited` (history) are the presets that were edited after the open
save had read their component. `SavedLinks` is phase A and the links of phase B of
`_syncPolicyDocuments`, `Targets`/`Materialized` are `_materializePresetForSelection`,
`Reconciled` is `_reconcilePolicyDocument`. `Targets` chooses rows for the keys that have none;
`Find` says which row a key has. A propagation reads the preset and the selections first
(`BeginPropagate`), then gets the case row (`LockPropagate`). `touched` stands for files, notes,
events, a decision or visibility to the client. Left out: the validation of which components are
active, documents made before the dedupe rule, ordering and the recalculation at the end
(`RequirementFiles`).

`src/prisma/schema.prisma:1601` says of `documentsMaterializedAt` that presets are not applied
retroactively once it is set; `_syncPolicyDocuments` says and does the opposite. The model
follows the code.

### MandateRequests

`request` are the rows in order of creation, `upload` per uploadId the staged object, the final
object and the recorded row. The presigned URL of an uploadId may be used any number of times
(`PutObject`; `puts` counts them, `MaxPuts` bounds them), also after a confirmation has read the
object, and `copyObject` takes what lies there by then: `swapped` records that an object was put
after the gates and before the copy. A confirmation walks `claim` → `copy` → `unstage` → `record`
(staff: `copy` → `unstage` → `record`, where the record is one transaction). The gates (size,
type, scan) are one reading of the staged object: the code reads its head and its bytes one after
the other, and an object put in between is either refused or one put after the gates. The scan is
modelled as enabled; with `VIRUS_SCAN_ENABLED=false` (as in `src/render.yaml`) every object counts
as clean and the gate is size and type alone.

### AuditChain

A row's hash is modelled as the previous hash followed by what is hashed of the row, the canonical
form of its payload (`canonicalJson`) and its time: equal hashes are equal contents after equal
contents, which is what SHA-256 is used for. `Stored` says what the JSON columns give back of a
payload. A payload with a Date is hashed as `{}` where the Date stands and stored as its text, so
the two forms differ (`Lossy`). `Clock` has no order between successive readings, so timestamps
tie and go back. `verifyChain` is the code's walk from the genesis row, and its recomputation of
each row's hash from what was stored (`expected`).

### PortalAccess

`docCase` is what the portal reads and writes of the case; `OPEN` stands for every status
between ACTIVE and the end of the Process review, which the portal does not tell apart.
`publish` and `unpublish` read the case and the counts in one step and update it conditionally
in another. `BeginConfirmHandoff` and `CommitConfirmHandoff`, `CloseCase`, `ReopenCase` and
`MoveCase` are the operations of `CaseHandoff` as far as they touch the portal; that closing also
needs `closedAt` to be unset is checked there. The confirmation looks for a case number and then
writes by id: two that overlap both write, and the second replaces the phone under whatever
session there is. A session keeps what its proof has `missed`; expired and revoked sessions are
one (`Ended`), since neither comes back.

### CaseTimeline

`stage` are the `CaseStage` rows in sequence, `timeline` the `CaseTimeline` row's status. An
operation is `Begin` (`loadStage` and the guard, without a lock), `Update` (the stage is written
by id; `recomputeReadiness` reads), `Flip` (its flips are written; `syncTimelineStatus` reads)
and `Commit`. A step waits while another transaction holds a row it writes (`Free`). The rows
come into a transaction's `w` as it writes them, and `Locked` derives the locks from it.
`Commit` of a transition needs every row, because `recalcInTx` writes the planned dates of all
stages; an unlock does not plan and needs none. That the code takes those rows one after the
other, and the timeline's row before them, only adds deadlocks: one of the transactions is then
aborted, which `Abort` does at any time. The value each statement read before it had to wait is
kept, so a write after a wait is as stale as in the code.

A sweep reads in `BeginSweep` and writes in `CommitSweep`. Which of the `Blockable` stages are
overdue is any subset: planned dates, the target, overrides and an approved exception move it at
any time, and modelling them would only remove behaviours. `isRunning` is a variable of the
process, so the model has one process that sweeps, which is what `render.yaml` runs in steady
state. While two services run side by side (its blue/green window) two sweeps can overlap, and
`UnlockedStaysUnlocked` need not hold then; its mutant is exactly that. The other properties do
not depend on it. Required-field enforcement only refuses, with an override it does not, so either
is possible and nothing of it is kept. `freed` is a history variable: the stages that an unlock
found still BLOCKED when it committed. `crossed` marks a transaction during which an unlock or a
sweep committed.

### LeadLifecycle

`lead` is the row of each lead: where it is (live, in the bin, past the retention, removed), its
owner and the one who handed it over, its status, whether its stage is one of
`FOLLOW_UP_REQUIRED_STAGES` (`DATED`), and whether it has a follow-up date. `BeginUpdate` is what
PUT decides on the lead it read (scope, `DatedOK`, `Normalised`), `CommitUpdate` the updateMany
whose WHERE asks for the scope again, with the follow-up it schedules (`WithFollowUp`).
`BeginConvert` and `CommitConvert` are convertLead, which asks for the status before its
transaction only. `BeginManual`, `BeginAuto` and their commits are bulkAssign; `LockFree` is its
advisory lock, one for each department: an assignment of another department can overtake it
(`Overtaking`), one of its own cannot. `Distribution` is computeDistribution over the department's
`Staff`, in any order in which the database may return the leads. The recycle bin's requests are
single statements; `Removable` is the foreign key of the opportunities. Those are counted apart:
`opps` are the ones that conversions made, `others` those that `createOpportunity` opened by hand.
`ImportCreate` and `ImportOverwrite` are the two ways a row of a file goes, after `ValidRow`.
`InScope` is `buildOwnerFilter` for the three scopes that differ. A lead's follow-ups are counted:
`pending`, and `asked` (history), those that people asked for since an update last scheduled one.

### LeadContacts

`contact`, `phone` and `mirror` are the Contact rows, the LeadPhone rows by number and
`lead.phone`. `Attached`, `Deactivated`, `WithPrimary` and `Synced` are PhoneService's methods on
those rows; each request applies them in the code's order. Numbers in `Short` have fewer than six
digits: normalizePhone gives null for them, a row keeps them as they are, and `Deactivated` and
`WithPrimary` return early. A statement of a transaction sees the rows of some moment since it
began (`BlindRows`, `BlindPhones` choose which new rows it does not see), unless it had to wait
for a row of the other transaction (`behind`). DELETE of a contact has no transaction:
`SoftDelete`, `DeactivatePhone`, `FindNext`, `PromoteNext`, `UnsetPrimary`, `SetNext` and
`SyncLeadPhone` are its statements, and `Fail` may end it after each. The contacts API
(`createContact`, `updateContact`, `deleteContact`) writes rows without PhoneService.

### Sales

A change of stage is a transaction in three steps, because its statements read what another one
writes: `ExitStage` closes the open Pipeline rows that it sees, and waits (`Waits`) for those who
have closed one of the same rows and are not done; `EnterStage` makes the new row with its
`enteredAt`; `advanceStage` writes the opportunity and commits. `history` is keyed by `enteredAt`,
as the code orders it, so a row may come before one that was committed earlier. `clock` gives each
new row a later `enteredAt` than the ones before: the servers' clocks are taken to agree to within
what lies between two statements. Types are told apart as Other and the rest; a deletion counts
uses first (`BeginDeleteType`). Invoices have four figures and the total computed of them; an
update sends some of the figures and takes the others from what it read. A payment is judged
against the sum and the total that were read (`BeginPay`), and written with the status computed
then. Money is in cents, the tolerance of 0.01 is one cent. The code compares sums of floats, so
that at equality (`paid >= total - 0.01` with 0.06 and 0.07) the rounding decides: `StatusAfter`
is the set of the statuses that are possible then.

### RoleGrants

What takes `role:manage` away is judged first, outside any transaction (`Judge`, `AtStake`), and
then runs guarded or plain. `Guard` is the read of `withAdminGuard`, `GuardedCommit` its
SERIALIZABLE commit, which fails when another transaction wrote what this one read (`beaten`).
Every change ends with `Invalidate`, an INCR that a missing key starts at 1 and that may be lost.
A manifest is read in the code's steps: version, cache, roles, grants, and then it is filed under
the version that was read (`FiledUnder`). `WriteVersion` is what a reader does that got no
version: it sets it to 1. `Expire` is the time to live; it may come at any moment, and no property
waits for it.

### SignIn

One row per e-mail (`status`, `verified`, `invitation`), `MaxSessions` session rows and
`MaxLinks` links. A request without a transaction is one step per write: revoking the old
links and creating the new one; logging in; promoting a session at its first use
(`BeginAuthenticate`, `CommitAuthenticate`); ending a user's sessions and then the user.
`acceptInvitation` holds the row of the invitation (`LockFree`). `over`, `issue` and `accepts`
are history: the session has been ended; which token an invitation has; how often it was
accepted.

## 3. What is checked

Every run is exhaustive; each takes at most three minutes with two workers.

| Run | Instance | Distinct states | Question |
|---|---|---|---|
| `handoff_process` | 2 requests, 2 reasons, phone and override as evidence, 1 return, 2 Process returns | 3,653,986 | Do status and second dimension agree under every interleaving, and does ownership move as the protocol says, the taking back included? |
| `files_races` | 2 transactions, 1 requirement, 2 files, fair | 322,248 | What survives the two lock orders? Does every transaction end? |
| `checklist` | 2 requests, 2 components, 2 presets with one key, 2 requirements | 1,022,739 | Do shared requirements survive saves, propagations, catalog edits and traces that come between a save's reads? |
| `mandates` | 2 requests in flight, 2 mandate requests, 2 uploads, 2 PUTs | 2,545,282 | Is what is kept gated and unique, whatever fails where and whatever is put after the gates? |
| `audit` | 3 connections, 2 payloads of which storage changes one, 3 clock values, 5 rows | 199,687 | Is the log one chain that implements the trail, and when does it verify? |
| `portal` | 2 requests, 2 items, 2 phones, 2 staff, 2 sessions, 1 change | 936,076 | Does the activation follow closing, and do sessions follow the activation and the phone? |
| `timeline` | 2 requests, 3 stages in sequence, the second one hard-blocking, 2 firings of the timer | 1,804,261 | Do transitions settle timeline and readiness under the locks they really take? Does an unlock last? |
| `leads` | 2 leads, 2 users of different scope in one department and a third in another, 3 requests, 2 at a time | 2,749,927 | Do date, stage, status, follow-ups and shares stay right under overlapping requests, imports and the purge? |
| `contacts` | 3 contact rows, 2 numbers and a short one, 3 requests, 2 at a time | 5,518,473 | Do the three copies of the primary number agree, and does the lead keep one main contact? |
| `sales` | 2 opportunities, 2 types, 1 invoice, 3 payments, 3 requests, 2 at a time | 5,640,690 | Are history, types, totals and balances right until the races the code leaves open? |
| `roles` | 2 users, 2 roles, 1 reader, 3 requests, 2 at a time | 266,421 | Does a manager remain? Is what the cache serves under the current version what the tables say? |
| `signin` | a founder and a guest, 2 sessions, 2 links, 4 requests, 2 at a time | 2,913,520 | Do ended sessions, used links and accepted invitations stay so? |

A run has the properties of `PROJECT.json`; each module's type invariant is checked while it is
developed, and proved for all twelve.

Why these bounds are enough for the cases that matter:

- **Two requests** are what every race here needs: one that has read, one that commits in
  between. `audit` has three connections so that two can wait while one appends. The theorems
  of section 4 remove the bound where they apply.
- **Two Process returns** let a request that read the first offer meet the second one. One
  Documentation return is enough, since no property counts them. The preset as evidence is
  left out of the run, where it would only be a third way of passing the same guard.
- **Two files** are a replacement; one requirement suffices for lock cycles (requirement,
  files, case).
- **Two presets of two components with one key** are the shared requirement; two requirement
  rows let a wrong second one be created; a manual requirement can be adopted.
- **Two mandate requests and two uploads**: a request that supersedes another, an upload for
  each, two confirmations of one upload. **Two PUTs** (`MaxPuts`): one that passes the gates and
  one that replaces it.
- **Three stages** give the middle one a predecessor and a successor; two of them can be under
  way at once after a reopening. One hard-blocking stage is enough for a block and an unlock
  beside transitions of both neighbours. The theorems hold for every number.
- **Five audit rows, three clock values**: a tie, an inversion, and a rollback between; of the two
  payloads one is read back in another form (`MCAuditChain`).
- **MAX_ATTEMPTS = 1** in `portal`: the value only matters as reached or not reached.
- **Three requests of which two overlap** (`leads`, `contacts`, `sales`, `roles`): two that
  race, and one that prepared the state they race for or comes upon what they left. `signin`
  has four, since its hazards begin with an account: signing up, asking for a link, and two
  that race to use it. **Two users with two scopes**: one that sees a lead because of its
  owner, and one because of its team; also the least for an unfair assignment. A third user makes
  up the other department, whose assignments hold another lock.
- **One short number** beside two ordinary ones: a contact may have it, get it, and be made main
  with it.
- **Two roles, one of them the system role**: the last manager may hold it through either.
- **Amounts 1, 2 and -1 against totals of 3 and 52**: a payment that fits, one that does not,
  one to the cent, a refund.
- The requests are counted (`begun < MaxRequests`) in the five modules above, which therefore
  stop: their runs have CHECK_DEADLOCK FALSE. The others do not use it: from every reachable
  state some operation is still possible.

Symmetry is declared over requests, uploads, sessions, users, phones, items, numbers and, in
`checklist`, over the two components exchanged together with their presets; never in a run
with a liveness property.

**Fairness.** `FairSpec` of `RequirementFiles` assumes that a transaction whose next statement
can run eventually runs it, strongly: a row lock's queue is served in order, so a waiting
transaction is not overtaken for ever, and the server does not stop. The deadlock detector is
weakly fair: a cycle that stays is found. `EveryTransactionEnds` follows; without the detector
it does not, since reviewers and uploads do lock in opposite orders. No other specification states
fairness, and nothing is assumed of users.

Each property has one mutant of the code (operators with a `Mutant:` comment in the modules): a
plausible mistake in a guard, a lock, a counter or a reset that the property detects.

## 4. What is proved

TLAPS proves for every number of requests, connections and rows and every bound:

| Model | Theorems, and the property of a run that each states |
|---|---|
| `CaseHandoff` | `Coherence` (`ProcessCoherence`), `Settled` (`ClosedIsSettled`), `Refinement` (`ImplementsOwnership`) |
| `PolicyDocuments` | `OneRowPerKey` (`OneRequirementPerKey`), `LinksAreLive` (`LinkedIsLive`), `SavesHeal` (`SaveHeals`), `NothingIsLost` (`RequirementsStay`) |
| `RequirementFiles` | `ApprovalsHaveFiles` (`ApprovedHasFile`), `DecisionsStand` (`VerdictStands`), `StatusFollowsTable` (`FileFollowsTable`) |
| `MandateRequests` | `NeverTwoUploads` (`OneUploadPerRequest`), `KeptIsGated` (`OnlyGatedIsKept`), `NoUploadAfterClosing` (`ClosedTakesNoClientUpload`) |
| `AuditChain` | `ChainNeverBranches`, `ChainHasNoOrphan`, `NeverRefused`, `LogAlwaysVerifies` (`AlwaysVerifies`), `Refinement` (`ImplementsTrail`) |
| `PortalAccess` | `ClosedCaseIsDark` (`ClosedIsDark`), `NoSessionInTheDark` (`DarkHasNoSession`), `ViewersHoldThePhone` (`SeesWithCurrentPhone`) |
| `CaseTimeline` | `UnlockIsFinal` (`UnlockedStaysUnlocked`), `TimelineSettles` (`TransitionSettlesTimeline`), `ReadinessIsSettled` (`TransitionSettlesReadiness`) |
| `LeadLifecycle` | `DatesFollowStages` (`DateFollowsStage`), `FollowUpsDoNotPileUp` (`OneFollowUp`), `ConvertedAtMostOnce` (`ConvertedOnce`), `AssignmentsAreFair` (`AutoAssignIsFair`) |
| `LeadContacts` | `MainIsUnique` (`OneMain`), `PrimaryIsUnique` (`OnePrimary`), `MainStays` (`MainSurvives`), `MainPhoneBecomesLeads` (`MainPhoneIsLeads`) |
| `Sales` | `HistoryStaysTrue` (`HistoryIsTrue`), `TypesInUseStay` (`TypeInUseIsLive`), `TotalsMatch` (`TotalMatches`), `PaymentsStayWithin` (`PaidWithinTotal`) |
| `RoleGrants` | `ManifestsAreTrue` (`CacheIsTrue`), `AManagerRemains` (`AdminRemains`) |
| `SignIn` | `EndedStaysOver` (`EndedIsOver`), `LinksAreUsedOnce` (`LinksWorkOnce`), `InvitationsAreAcceptedOnce` (`InvitedOnce`) |

Every invariant and every action property that a run checks has its theorem, and each model has
a theorem that says its type invariant holds (`TypeCorrect`; `ChecklistTypeCorrect`,
`RolesTypeCorrect`, `ContactsTypeCorrect`, `LeadsTypeCorrect`). Every proof has the same shape.
`IInv` (`ChecklistInv`, `RolesInv`, `ContactsInv`, `LeadsInv`) is the inductive invariant, which
TLC has checked on the instance of the module's run before it was proved; there is one lemma per
action (`...Keeps`, or `...Step`) that says what it leaves of it; `Invariance`
(`ChecklistInvariance`, ...) says that it always holds, and the theorems follow. None of the
properties is inductive as it stands, because a request writes what it decided from an earlier
reading; so in each module the strengthening says what an open request still knows when it
writes, and why.

**CaseHandoff.** The inductive invariant is `TypeOK /\ ProcessCoherence /\ ClosedIsSettled`.
The unconditional updates of `handoff.service` could break it only by writing one of the three
Process statuses or CLOSED_NO_DOCS, and none does; the preconditioned ones write both
dimensions; the recalculation writes two statuses neither conjunct speaks of. The proof has one
step per operation. Refinement: the abstract state is read off the status (`Owner`), the second
dimension (`Record`) and the count. Three commits offer, take and give back (`TransferOffers`,
`AcceptTakes`, `ReturnGivesBack`); they re-evaluate their precondition on both dimensions when they
write, which is what makes an offer start from no record or a returned one and the other two from
the offer. Every other commit leaves record and count alone, and writes, if it changes the
status, one of Documentation's (`OthersTakeBack`): that is a stutter, or the step `TakeBack`.
Assumptions: the reasons include the review reasons, the bounds are naturals, "no reason" is not a
reason.

**AuditChain.** `NoBranch` is not inductive: that the row `findLeaf` returns has no successor
says nothing of the uncommitted rows of others, and a gap would leave two leaves. The
strengthening says (`IInv`) that only the holder of the lock has uncommitted rows, and that
what each transaction sees is a `Chain`: one row per depth (`Linear`), every row but the first
after another (`Linked`), no depth missing (`Gapless`), and finite enough to have one leaf and a
newest row (`HasTip`, `HasNewest`). The key lemmas are `LeafIsDeepest` (in such a set a row
without a successor is the deepest one, wherever its timestamp puts it), `LeafIsFound` (so
`findLeaf` finds it) and `AppendKeepsChain`. The depth of a row is the length of its previous
hash, so no recursion is involved. Refinement needs a second invariant, `Continues`: the tip
each transaction sees extends the committed tip. Assumptions: `NoTxn` is not a connection, the
clocks are naturals, `canonicalJson` and `Stored` are functions on the payloads.

`LogAlwaysVerifies` says that `verifyChain` answers valid if and only if no committed row is
`Lossy`. Its second half, the recomputed hashes, differs from what was logged exactly at such
rows. The first half is about the walk, a recursive function: after n steps it has visited the
rows of depth up to n (`WalkStep`, `WalkVisitsAll`), and no row is deeper than there are rows
(`DepthIsBounded`, by an injection into the finite log). The provers have no induction theorem, so
the proof takes the least number of steps after which walk and chain disagree, which exists
because `<` is well-founded (`LeastNumber`), and finds that there is none. `ChainNeverBranches`,
`ChainHasNoOrphan` and `NeverRefused` have no run of their own: the theorems hold for every
instance, and `AlwaysVerifies` and `ImplementsTrail` fail where they would.

**CaseTimeline.** The invariant says what an open transaction is about to commit: while no
unlock and no sweep has crossed it, the statuses it sees, its own writes over the committed
ones, are settled, and the status it computed is theirs (`Prepared`). It is inductive because a
transition that has read holds its own stage's row (`Harmless` says it writes it), so
`HoldsItsRow` refuses every other transition's commit, which needs all rows; unlocks and sweeps,
which need fewer, mark it as crossed. `ReadinessSettles` is the lemma behind the one pass of
`recomputeReadiness`: flipping PENDING and READY finishes no stage and unfinishes none, so the
flips do not disturb each other. For the unlock, `OneSweep`, `Aimed` and `Freed` say that the
stages the running sweep is about to block are neither blocked nor freed. Assumptions: at least
one stage; the marked stages are stages.

**RequirementFiles.** `IInv` adds to `ApprovedHasFile` that a pending requirement has no file and
no requirement two active ones (`PendingHasNoFile`, `OneActiveFile`: the partial unique index),
and of every open transaction (`Consistent`): which operation it is and where it stands
(`Shape`), which rows it has locked there (`Holding`), and what that lets it know of the files
and the requirement it is about to write (`KnowsFiles`, `KnowsRequirement`). One lemma per
statement covers its own transaction. The others keep what they know because a statement that
is not a commit changes only its transaction and locks, and a commit changes only rows of its
requirement, for which the other would need a lock that the committing one holds. The argument
covers both lock orders, and an approval that counts the active files under the lock of its
requirement only: a deletion that would take the last file away must lock that requirement
too. `DecisionsStand` is about an open case: on a closed one a commit may happen without the
case row, and section 5 tells what a replacement then does. Assumptions: "no transaction" is
not a transaction, and rows of different tables are different.

**MandateRequests.** A mandate request leaves PENDING_UPLOAD once. `Claimed` says that a client's
confirmation past its claim is the only one for that request, which is not pending and has no
upload; `Recorded`, that a request with an upload is not pending and has no second one; `Gated`,
that a confirmation on its way to the copy has an object that passed, one that was swapped, or none
any more, and past the copy a final object; `Shut`, that while the case is
closed no confirmation that could still claim has a pending request, which is what closing
superseding them is for. `Known` says that what was read is there. No step of a storage call or
an expiry needs more. Assumptions: the marks for the firm and for no request are not requests.

**PortalAccess.** `ProofHolds` and `SessionHolds` say of a verification between its two steps, and of
the session it made, that the contact it proved is the case's and the portal on, but for what it
has `missed`: a change approved, or the portal taken away, between the proof and the session, or
at any time a second confirmation of the handoff. Everything else that changes these revokes the
session in the same step. `ChangeIsThere`: an approval's change request is there. `ClosedIsDark` is
inductive beside them: whatever switches the portal on has the open status in its WHERE.
Assumptions: "no phone" is not a phone; the lockout limit is positive.

**Sales.** `MoveKnows` says of a change of stage, that nothing has overtaken, that its opportunity
has not been closed; that, unless another one has committed since its first statement, the rows it
closes are the open ones; and that the row it has made is later than every row there is.
`HistoryParts` splits `HistoryIsTrue` into what a request that nothing overtook keeps and what
every request does. `DeleteKnows`: what a deletion counted is deleted still; `FigureKnows`: the
total it will write is that of the figures there are and the ones that were sent; `PayKnows`: the
amount fits the balance there is now, and the status it will write is one that the balance after
it allows. `PaidOf` is a sum over a set of payments with `MapThenSumSet`. The library has no
theorem about such sums, and the first section of the module proves what is needed without an
induction theorem: a counterexample in a set of smallest size (`SmallestSet`) would have one in a
smaller set. `SumStep`, `SumIsInt`, `SumFrame` and `SumAdds` say what a sum is, that it is a
number, what it depends on, and that one payment more adds its amount; `FewPayments` says that
they are always about finitely many. Assumptions: the marker of "no type" is not a type, the
system's type is one; the stages that close an opportunity are not among the open ones; amounts
and figures are integers; there is at least one invoice to start with and at least one amount to
pay.

**SignIn.** For sessions the key is `NeverCreated`: no code path makes a session CREATED, so the
unconditional activation in the middleware never has anything to bring back, and everything else
that changes a session ends it. For links (`LinkInv`, until `past.doubled`): one pending link of a
kind, none used twice, and a request that nothing has overtaken finds its link unused, or no
link where it revoked them (`LinksAsLeft`). For invitations: the accepting request holds the row
of a pending invitation alone (`Locked`), and each issue is accepted once. Assumptions: there is
a user, founders are users, the bounds are naturals.

**PolicyDocuments.** That a key has one row is true because of how the code finds the row of a
key, and because nobody makes one meanwhile. `HolderKnows` says the second: whoever holds the case
row finds the checklist as it found it when it took the lock, since every operation that changes
keys or rows takes that lock. `UniqueKeys` is the statement about the rows themselves from which
the bound on `Keyed` follows. `ReadIsCurrent` says that what a save has read of a component's
presets is still so, except of the `edited` ones, and `WasIsThere` that of the links its
reconciliation has read only those of deleted presets are gone. A save or a propagation writes to
the rows that `Targets` chooses, and the lemmas say of it what the writes need: a row of the right
name, and never the same new one for two keys (`FindFinds`, `TargetsAreRight`). `LinksStandBehind`
and `ChecklistIsRight` then say that a link the write leaves live stands behind a requirement that
the write leaves live; a retirement in between is excluded because `Reconciled` retires a row only
when no live link is left. `NothingIsLost` states `RequirementsStay`: no step takes a requirement
away, renames it or changes where it came from, or retires one that was added by hand or bore a
trace when the save looked; it needs no more of the invariant than the types. Assumptions: each
preset has a component and a key; a bound on the rows; the mark for no caller is not a caller.

**LeadContacts.** Neither a main contact nor a primary number is unique by itself; the code
demotes what it sees. `RememberAll` says that a request nothing overtook still sees what is there:
its contacts and its primary numbers are those of the tables when it commits, so it demotes all of
them; and a `DELETE` between two of its statements still finds its contact, and no primary number
before it sets one. `UniqueMain` adds that while a `DELETE` is going to promote a contact there is
no main contact, and `MainIsComing` that this is the only way to be without one: a lead without
main contact is left to the `DELETE` that took it. A statement that does not see another's new row
(`BlindRows`, `BlindPhones`) is covered by the same argument: what it misses was written by a
request that overtook it. `MainPhoneBecomesLeads` has two exceptions that need no overlap, both of
a PUT that leaves the number as it was; they are disjuncts of the property that say what happens
instead. Assumptions: there may be a contact, the bounds are naturals, short numbers are numbers,
the two marks for no number are different and are not numbers.

**RoleGrants.** `CacheIsTrue` is about a cache that is filled in five steps. `AllUpToDate` says
that, when every change of roles has been followed by its increment, what is filed under the
current version is what the tables say, and so is what each reader holds that is about to file
under it: the roles it has read, or the manifest it has built. An increment moves the current
version to one under which nothing has been filed (`NothingAhead`), and no version is used up:
`Counted` says that every increment belongs to a request that was begun. `NoDeadRows` (a role
that is gone is granted nothing and held by nobody) makes reading the grants after the roles
right. For `AdminRemains`, `GuardHolds` says that the managers a guard counted outlive every
write except those that beat the guard, which the SERIALIZABLE commit refuses. Assumptions: the
system's role is a role, a copy has a role to copy, readers are users; the bounds are naturals.

**LeadLifecycle.** `KnowsAll` says what a request that nothing overtook still finds in the rows:
the date that an update computed fits the stage the lead has, or is about to get; the lead of a
conversion is OPEN. `RowsOK` is what each row keeps: the date goes with the stage unless the
import broke it, pending follow-ups are those that were asked for and one more, and conversions
have made at most as many opportunities of it as there were statuses set by hand and overtaken
conversions (`again`), one more once it is converted. `OppsCounted` counts every such opportunity,
and every conversion that is open, against the requests that were begun. Fairness needs that the
distribution an automatic assignment has computed still is one when it commits: its department's
lock keeps its own kind out (`OneAuto`), and it is marked when anything else, another department's
assignment included, writes what it read (`StaysFair`). It needs further that a distribution is
fair: of two users of the department take the one who ends with more, and the last lead that he
got; it found him the least loaded (`LeastLoadedIsLeast`), so he had no more than the other at
that moment, and the other has not lost any since (`DistributionIsFair`). `ShareIs` says that what
is counted after the commit is what the distribution counted. Assumptions: a tenant has finitely
many leads; nobody is not a user; the staff of each department and the callers are users; every
user has a scope and a place of its own in the order that breaks ties.

Only model-checked is liveness (`EveryTransactionEnds`): it rests on fairness, and neither fairness
nor ENABLED is within reach of the provers installed.

## 5. What the code does not keep

The races and dead ends that modelling brought up. No run expects a violation: where a
property is about one of them, it says how far it holds, and a condition names the race.

- Override: `managerOverride` sets DOCUMENTATION_READY whatever the status is. A case that Process
  was offered or has accepted is Documentation's again, keeps `processHandoffState` PENDING_REVIEW
  or ACCEPTED, and can never be transferred again (`services/documentation.service.ts:1678`). The
  header of `domain/process-handoff.ts` calls an accepted case Process-owned, and the comment at
  `documentation.service.ts:154` "Process-owned and frozen for Documentation edits".
- Audit: the snapshots of whole rows (`lead.service.ts:337`, `:580`, `roles.router.ts:188`) hold
  Dates. canonicalJson hashes a Date as `{}`, the column stores its text, and `verifyChain`
  reports a content hash mismatch on an honest row (`audit.service.ts:205`).
- Progress: two reviewers approve the last two requirements at once; each counts the checklist
  without the other, and the case stays ACTIVE although everything is approved
  (`documentation.service.ts:1880`).
- `regenerateLink` supersedes by id a request that was uploaded and verified since it was read
  (`mandate.service.ts:737`), which the comment at `:362` says is retained.
- Handoff: a resend written over a reject that set the review lock (`handoff.service.ts:272`);
  two rejects that count once, so the second return is not locked (`:160`); a return written
  after the case reached Process (`:211`); a transfer of a case that a recalculation just made
  unready (`documentation.service.ts:1736`); confirm puts a createCase-made case that Process
  owns back in the inbox (`handoff.service.ts:61`); after the manager's review a compliance
  case can still not be resent (`domain/handoff.ts:180`); close and reopen under review leaves a
  review that nobody can clear (`case-lifecycle.service.ts:49`).
- Files: an upload commits after a decision it did not see (`document.service.ts:209`); a
  replacement's file stays active on a rejected requirement (`documentation.service.ts:1510`);
  on a closed case a replacement overwrites an approval (`:1802`); a deletion repeated while it
  runs succeeds twice (`document.service.ts:440`).
- Checklist: a propagation links a component that was deselected meanwhile; the next save heals
  it (`documentation.service.ts:1249`, property `SaveHeals`). A preset that is edited after a save
  read it (`:1086`) is not as the catalog asks once the save commits; a storage reference or a file
  added between `:1227` and `:1234` is on a requirement that the save retires (`RequirementsStay`).
- Mandates: the presigned PUT stays usable for 900 seconds (`storage.service.ts:54`): an object
  put after the scan (`mandate.service.ts:252`) and before the copy (`:278`) is kept unscanned,
  against "an unscanned file must never reach mandate-uploads/" (`:247`). After a failure behind
  the claim the request is UPLOADED without an upload, and verify accepts it
  (`mandate.service.ts:281`).
- Portal: two requests that publish and unpublish at the same time leave it on with nothing to
  see, or off with something (`portal.service.ts:281`).
- Portal: a session created after the portal went dark or the phone changed, and a rejection
  written over an approval (`portal.service.ts:112`, `:528`). The checked properties name exactly
  these, with `missed`. Publishing one more item on a case past ACTIVE turns its
  portal off (`:288`).
- Handoff: two confirmations of one lead that overlap both find no case number; the second mints
  another one, writes it and the portal's phone over the first, and revokes no session
  (`handoff.service.ts:56-88`), against "Idempotent by construction" (`:42`).
- Timeline: a guard that was overtaken starts a skipped stage or completes one twice
  (`case-timeline.service.ts:266`); an unlock beside a reopening leaves a stage READY before its
  predecessor is finished again; the sweep blocks a stage that was completed since it read it,
  under a timeline that stays COMPLETED (`sla.worker.ts:91`). The checked properties exclude
  exactly these, with `crossed` and `freed`.
- Leads: two conversions that overlap make two opportunities, since the status is not asked for in
  the transaction (`lead.service.ts:740`), and POST /opportunities opens further ones for any lead
  (`opportunity.service.ts:82`); automatic assignments of two departments overlap, and one counts
  leads that the other is giving away (`lead.service.ts:1157`); an import's overwrite writes a
  date without a stage or the other way round (`leads.router.ts:896`); one expired lead with an
  opportunity keeps every expired lead in the bin, each day again
  (`recycle-bin-cleanup.service.ts:41`; no property is about it); a move to a plain stage leaves
  the pending follow-up, and creating or importing a dated lead makes none; `markComplete`
  completes a cancelled activity and may ask for the next one with it
  (`lead-activities.service.ts:141`); the date that is sent is compared with the one there is as
  text in two formats, so each one that is sent counts as changed (`lead.service.ts:603`); the
  import's owners may be suspended users, against its comment (`leads.router.ts:684`).
- Contacts: attaching, not as primary, the number that is primary demotes it
  (`phone.service.ts:32`); making a contact main whose number is INACTIVE leaves `lead.phone`
  null (`:106`), and one whose number is too short to be normalised leaves the old `lead.phone`
  (`:99`), both against R4 (`lead-contacts.router.ts:173`); the contacts API moves a main
  contact to a lead that has one, and deletes one without promoting another
  (`contact.service.ts:98`); an import's overwrite leaves the old number ACTIVE.
- Sales: two changes of stage at once leave two open Pipeline rows, of which the last by
  `enteredAt` need not be the stage, or reopen a closed opportunity that keeps `closedAt`
  (`opportunity.service.ts:289`; "atomically" at `:267`); PUT /stage to CLOSED_LOST asks for no
  reason; an invoice that lacks exactly a cent is PAID or PARTIALLY_PAID as floats round
  (`payment.service.ts:73`); neither an update of an invoice nor a change of its payments looks at
  the balance or the status again (`payment.service.ts:151`); a payment that is PENDING, or later
  FAILED, counts as paid when it is created; amounts may be negative, and any invoice that is not
  deleted takes payments; OVERDUE is never written; of two updates of different figures the total
  is of neither (`invoice.service.ts:183`); a type may be deleted while an opportunity takes it.
- Roles: a request that was judged to need no guard is overtaken by a grant and takes the last
  manager away (`roles.router.ts:390`); an increment lost between the commit and Redis, or a
  version set back to 1 by a reader that could not read it (`permission.service.ts:63`), leaves
  old manifests until they expire, for up to an hour; accepting an invitation increments
  nothing; a plain suspension that was overtaken writes SUSPENDED over TERMINATED.
- Sign-in: nothing sets a founder's status from NEW to ACTIVE, so a founder cannot refresh
  and the last-manager guard does not count one; login and the middleware do not read the status
  at all; two requests for a link leave two that work, and a link that was found is used by id
  after it was revoked (`auth.router.ts:379`); an expired invitation whose mail was SENT can
  never be issued again, since EXPIRED is written in the transaction that the refusal rolls
  back (`invitation.service.ts:226`); changing the password ends no session, resetting it does.
  `checkLoginAttempts` says it fails closed (`RateLimitService.ts:54`) and lets everyone in
  without Redis (`:61`).

## 6. Not modelled

`PROJECT.json` lists every component with its reason. In short: case fields and their values
are planned (section 7); reports, dashboards and forecasts only read; notifications and e-mail
are sent after the commit and nothing depends on them but an invitation's mail status, which
`SignIn` has; storage and scanner appear as what they do to a mandate's objects; WhatsApp
channels, tags, notes, teams, departments and profiles are rows that are edited one at a time;
cryptography, token formats, rate limits, formatting, pagination, logging, the HTTP layer and
the wiring of the process are left out. Multi-tenancy is taken from the WHERE clauses.

## 7. Plan

Modelled: `CaseHandoff` with `ProcessOwnership`, `RequirementFiles`, `MandateRequests`,
`AuditChain` with `AuditTrail`, `PortalAccess`, `PolicyDocuments`, `CaseTimeline`,
`LeadLifecycle`, `LeadContacts`, `RoleGrants`, `SignIn`, `Sales`. Proved: every invariant and
action property of every run, both refinements and the type invariants. What is left for TLC is
liveness.

To model, each as far as it fits a run that is already there: the date arithmetic of the planner
as functions checked against reference definitions; approved exceptions and the sweep's
notifications (at least once, again after leaving the alert); the presets of documentation;
case fields, definitions against values and the cycles of their rules.
