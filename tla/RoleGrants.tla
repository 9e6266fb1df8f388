----------------------------- MODULE RoleGrants -----------------------------
(***************************************************************************)
(* The roles of one tenant, the users that hold them, and the permission   *)
(* manifests that Redis caches (the roles and users routers, user.service, *)
(* admin-lockout.service, permission.service).  What takes role:manage     *)
(* away is judged first, outside any transaction, and then runs either     *)
(* under the administrator guard, a SERIALIZABLE transaction, or without   *)
(* it.  Every change of roles ends with an increment of the tenant's cache *)
(* version.  A manifest is read in steps: the version, the cache, the      *)
(* roles held, their permissions, the cache again.  Any call to Redis may  *)
(* fail and then counts as a miss.  Names of roles stand for the roles;    *)
(* sessions are told apart by their user only (SignIn has them one by      *)
(* one); the manifest that a changing request itself reads is some         *)
(* manifest that could be served at that moment.                           *)
(***************************************************************************)
EXTENDS Naturals, FiniteSets

CONSTANTS
    User,
    Reader,       \* the users whose manifests are read again and again
    Role,
    Admin,        \* "Organization Admin", the system role
    CopyOf,       \* the name that a clone of a role gets
    MaxScope,     \* ScopeType in order, 1 is OWN; 0 means the role is not held
    Slots,        \* how many changing requests may be open at the same time
    MaxRequests   \* bound: how many requests and reads are made (finite model)

RoleManage == "role:manage"
UserManage == "user:manage"
Permission == {RoleManage, UserManage}

ASSUME RoleAssumption == Admin \in Role /\ CopyOf \in [Role -> Role] /\ Reader \subseteq User
ASSUME BoundAssumption == MaxScope \in Nat \ {0} /\ Slots \in Nat /\ MaxRequests \in Nat

VARIABLES
    status,    \* User.status
    signedIn,  \* the users with a live session
    live,      \* the Role rows
    grants,    \* the RolePermission rows of each role
    holds,     \* the UserRole rows: the scope in which a user holds a role
    version,   \* perm_version in Redis, 0 when there is no such key
    cache,     \* the manifest of a user under a version
    reading,   \* where the read of each reader is
    change,      \* the open changing request of each slot
    begun,     \* how many requests and reads were made
    past       \* misjudged: a request that was judged to need no guard had role:manage
               \* at stake when it wrote; lost: a change was not followed by an increment, its own or
               \* another's; reset: the version was set back, or its key was missing at an increment

tables == <<status, signedIn, live, grants, holds>>
redis == <<version, cache>>
rolesVars == <<tables, redis, reading, change, begun, past>>

Scope == 0..MaxScope
Version == 1..(MaxRequests + 1)
Slot == 1..Slots
Manifest == [Permission -> Scope]
Nothing == [p \in Permission |-> 0]   \* an empty manifest, which is never cached

Idle == [op |-> "idle"]
Direct == {"GRANT", "ASSIGN", "CREATE", "CLONE"}
OfRole == {"REVOKE", "UNASSIGN", "DELETE"}
OfUser == {"SUSPEND", "TERMINATE"}
Request ==
    [op : Direct \cup OfRole \cup OfUser, user : User, role : Role, perm : Permission,
     step : {"plain", "status", "guard", "commit", "invalidate"},
     beaten : BOOLEAN]  \* another transaction wrote what this one read

\* A user's permissions, from the roles held and their permissions.
Greatest(S) == CHOOSE m \in S : \A n \in S : n <= m
ManifestOf(held, given) ==
    [p \in Permission |-> Greatest({0} \cup {held[r] : r \in {q \in live : p \in given[q]}})]
buildManifestFromDB(u) == ManifestOf(holds[u], grants)

Holds(u, r) == holds[u][r] > 0
HasManage(u) == \E r \in live : Holds(u, r) /\ RoleManage \in grants[r]
Managers == {u \in User : status[u] = "ACTIVE" /\ HasManage(u)}

\* An organisation as its founder leaves it, or as the seed makes it, with a new role
\* that another user may hold.  A founder stays NEW, the version is first written when
\* someone's permissions are read.
RolesInit ==
    \E u \in User, first \in {"NEW", "ACTIVE"}, r \in Role, holders \in SUBSET User :
        /\ u \notin holders /\ r # Admin
        /\ status = [v \in User |-> IF v = u THEN first ELSE "ACTIVE"]
        /\ signedIn = User
        /\ live = {Admin, r}
        /\ grants = [q \in Role |-> IF q = Admin THEN Permission ELSE {}]
        /\ holds = [v \in User |-> [q \in Role |->
              IF v = u /\ q = Admin THEN MaxScope ELSE IF v \in holders /\ q = r THEN 1 ELSE 0]]
        /\ version = IF first = "NEW" THEN 0 ELSE 1
        /\ cache = [v \in User |-> [n \in Version |-> Nothing]]
        /\ reading = [v \in Reader |-> [step |-> "idle"]]
        /\ change = [s \in Slot |-> Idle]
        /\ begun = 0
        /\ past = [misjudged |-> FALSE, lost |-> FALSE, reset |-> FALSE]

-----------------------------------------------------------------------------
(* Reading a manifest: getPermissionManifest.                              *)

\* No version (or no answer) counts as version 1.
ReadVersion(u) ==
    /\ begun < MaxRequests /\ begun' = begun + 1
    /\ reading[u].step = "idle"
    /\ \E seen \in {0, version} :
          reading' = [reading EXCEPT ![u] =
             [step |-> "roles", seen |-> seen, version |-> IF seen = 0 THEN 1 ELSE seen]]
    /\ UNCHANGED <<tables, redis, change, past>>

\* A hit ends it, whatever was cached; a miss, or no answer, goes to the database.
ReadCache(u) ==
    /\ reading[u].step = "roles" /\ cache[u][reading[u].version] # Nothing
    /\ reading' = [reading EXCEPT ![u] = [step |-> "idle"]]
    /\ UNCHANGED <<tables, redis, change, begun, past>>

ReadRoles(u) ==
    /\ reading[u].step = "roles"
    /\ reading' = [reading EXCEPT ![u] =
          [step |-> "grants", seen |-> @.seen, version |-> @.version,
           held |-> [r \in Role |-> IF r \in live THEN holds[u][r] ELSE 0]]]
    /\ UNCHANGED <<tables, redis, change, begun, past>>

ReadGrants(u) ==
    /\ reading[u].step = "grants"
    /\ LET built == ManifestOf(reading[u].held, grants) IN
          reading' = [reading EXCEPT ![u] =
             IF built = Nothing THEN [step |-> "idle"]
             ELSE [step |-> "write", seen |-> @.seen, version |-> @.version, built |-> built]]
    /\ UNCHANGED <<tables, redis, change, begun, past>>

\* Mutant: the manifest is filed under the version that is current by now.
FiledUnderNow(r) == IF version = 0 THEN 1 ELSE version
\* It is filed under the version that was read before it was built.
FiledUnder(r) == r.version

WriteCache(u) ==
    /\ reading[u].step = "write"
    /\ \/ cache' = [cache EXCEPT ![u][FiledUnder(reading[u])] = reading[u].built]
       \/ UNCHANGED cache   \* Redis does not answer
    /\ reading' = [reading EXCEPT ![u] = [step |-> IF reading[u].seen = 0 THEN "version" ELSE "idle"]]
    /\ UNCHANGED <<tables, version, change, begun, past>>

\* The version key is written when none was seen, whatever is there by now.
WriteVersion(u) ==
    /\ reading[u].step = "version"
    /\ version' \in {1, version}
    /\ past' = [past EXCEPT !.reset = @ \/ version' < version]
    /\ reading' = [reading EXCEPT ![u] = [step |-> "idle"]]
    /\ UNCHANGED <<tables, cache, change, begun>>

\* PERM_CACHE_TTL after it was written a manifest is gone.
Expire(u, v) ==
    /\ cache[u][v] # Nothing
    /\ cache' = [cache EXCEPT ![u][v] = Nothing]
    /\ UNCHANGED <<tables, version, reading, change, begun, past>>

-----------------------------------------------------------------------------
(* Changing requests.  The caller has a live session and is served a       *)
(* manifest with the permission that the route asks for.                   *)
Ops == {s \in Slot : change[s].op # "idle"}

Served(u) == {buildManifestFromDB(u)} \cup ({cache[u][v] : v \in {1, version} \cap Version} \ {Nothing})
May(u, p) == u \in signedIn /\ \E m \in Served(u) : m[p] > 0

Opens(s, op, u, r, p, step) ==
    /\ begun < MaxRequests /\ begun' = begun + 1
    /\ s \notin Ops /\ \A t \in 1..(s - 1) : t \in Ops
    /\ change' = [change EXCEPT ![s] = [op |-> op, user |-> u, role |-> r, perm |-> p, step |-> step, beaten |-> FALSE]]
    /\ UNCHANGED <<redis, reading, past>>

\* What only adds rows is written at once; the primary keys and the unique name refuse
\* the rest.  A new role without permissions leaves the cache as it is.
addPermission(s, r, p) ==
    /\ r \in live \ {Admin}
    /\ grants' = [grants EXCEPT ![r] = @ \cup {p}]
    /\ Opens(s, "GRANT", CHOOSE u \in User : TRUE, r, p, "invalidate")
    /\ UNCHANGED <<status, signedIn, live, holds>>

\* Assigning a role again changes its scope.
assignRole(s, u, r, scope) ==
    /\ r \in live
    /\ holds' = [holds EXCEPT ![u][r] = scope]
    /\ Opens(s, "ASSIGN", u, r, RoleManage, "invalidate")
    /\ UNCHANGED <<status, signedIn, live, grants>>

createRole(r) ==
    /\ begun < MaxRequests /\ begun' = begun + 1
    /\ r \notin live
    /\ live' = live \cup {r}
    /\ UNCHANGED <<status, signedIn, grants, holds, redis, reading, change, past>>

cloneRole(s, r) ==
    /\ r \in live /\ CopyOf[r] \notin live
    /\ live' = live \cup {CopyOf[r]}
    /\ grants' = [grants EXCEPT ![CopyOf[r]] = grants[r]]
    /\ Opens(s, "CLONE", CHOOSE u \in User : TRUE, r, RoleManage, "invalidate")
    /\ UNCHANGED <<status, signedIn, holds>>

\* What takes something away: is role:manage at stake?
AtStake(op, u, r, p) ==
    \/ op = "REVOKE" /\ p = RoleManage
    \/ op \in {"UNASSIGN", "DELETE"} /\ RoleManage \in grants[r]
    \/ op \in OfUser /\ HasManage(u)

Judge(s, op, u, r, p) ==
    /\ op \in OfRole => r \in live
    /\ op \in {"REVOKE", "DELETE"} => r # Admin
    /\ Opens(s, op, u, r, p, IF AtStake(op, u, r, p) THEN "guard" ELSE "plain")
    /\ UNCHANGED tables

\* The managers that stay when the request is done: withAdminGuard.
Remaining(op, u, r) ==
    LET roles == {q \in live : RoleManage \in grants[q]} \ (IF op \in {"REVOKE", "DELETE"} THEN {r} ELSE {})
        stays(v, q) == Holds(v, q) /\ ~(op = "UNASSIGN" /\ v = u /\ q = r)
    IN {v \in User : status[v] = "ACTIVE" /\ \E q \in roles : stays(v, q)} \ (IF op \in OfUser THEN {u} ELSE {})

CanEnd(op, u) ==
    CASE op = "SUSPEND" -> status[u] = "ACTIVE" [] op = "TERMINATE" -> status[u] # "TERMINATED" [] OTHER -> TRUE

\* The transaction of the guard reads, on one snapshot, what it decides by.
Guard(s) ==
    LET r == change[s] IN
    /\ r.op # "idle" /\ r.step = "guard"
    /\ change' = [change EXCEPT ![s] =
          IF Remaining(r.op, r.user, r.role) # {} /\ CanEnd(r.op, r.user)
          THEN [r EXCEPT !.step = "commit"] ELSE Idle]
    /\ UNCHANGED <<tables, redis, reading, begun, past>>

Ended(op) == IF op = "SUSPEND" THEN "SUSPENDED" ELSE "TERMINATED"

\* What a request writes.
Effect(r) ==
    /\ status' = IF r.op \in OfUser THEN [status EXCEPT ![r.user] = Ended(r.op)] ELSE status
    /\ signedIn' = IF r.op \in OfUser THEN signedIn \ {r.user} ELSE signedIn
    /\ live' = IF r.op = "DELETE" THEN live \ {r.role} ELSE live
    /\ grants' = CASE r.op = "REVOKE" -> [grants EXCEPT ![r.role] = @ \ {r.perm}]
                   [] r.op = "DELETE" -> [grants EXCEPT ![r.role] = {}]
                   [] OTHER -> grants
    /\ holds' = CASE r.op = "UNASSIGN" -> [holds EXCEPT ![r.user][r.role] = 0]
                  [] r.op = "DELETE" -> [u \in User |-> [holds[u] EXCEPT ![r.role] = 0]]
                  [] OTHER -> holds

\* A change of roles goes on to the increment, one of a user ends here.
Next1(r) == IF r.op \in OfUser THEN Idle ELSE [r EXCEPT !.step = "invalidate"]

\* The other requests that read what s writes: guards all read one another's rows.
Beats(s, others(_)) ==
    [t \in Slot |->
        IF t # s /\ change[t].op # "idle" /\ change[t].step = "commit" /\ others(change[t])
        THEN [change[t] EXCEPT !.beaten = TRUE] ELSE change[t]]

\* Mutant: the default isolation level.
GuardedCommitAnyway(s) ==
    /\ change[s].op # "idle" /\ change[s].step = "commit"
    /\ Effect(change[s])
    /\ change' = [change EXCEPT ![s] = Next1(change[s])]
    /\ UNCHANGED <<redis, reading, begun, past>>

\* SERIALIZABLE: one whose snapshot another guard changed since is aborted (Fail).
GuardedCommit(s) ==
    /\ change[s].op # "idle" /\ change[s].step = "commit" /\ ~change[s].beaten
    /\ Effect(change[s])
    /\ change' = [Beats(s, LAMBDA r : TRUE) EXCEPT ![s] = Next1(change[s])]
    /\ UNCHANGED <<redis, reading, begun, past>>

PlainCommit(s) ==
    LET r == change[s] IN
    /\ r.op \in OfRole /\ r.step = "plain"
    /\ Effect(r)
    /\ change' = [change EXCEPT ![s] = Next1(r)]
    /\ past' = [past EXCEPT !.misjudged = @ \/ AtStake(r.op, r.user, r.role, r.perm)]
    /\ UNCHANGED <<redis, reading, begun>>

\* Without the guard suspendUser and terminateUser are three statements: they find the
\* user, invalidate the sessions, and write the status by id.
EndSessions(s) ==
    LET r == change[s] IN
    /\ r.op \in OfUser /\ r.step = "plain"
    /\ IF CanEnd(r.op, r.user)
       THEN signedIn' = signedIn \ {r.user} /\ change' = [change EXCEPT ![s].step = "status"]
       ELSE change' = [change EXCEPT ![s] = Idle] /\ UNCHANGED signedIn
    /\ UNCHANGED <<status, live, grants, holds, redis, reading, begun, past>>

WriteStatus(s) ==
    LET r == change[s] IN
    /\ r.op \in OfUser /\ r.step = "status"
    /\ status' = [status EXCEPT ![r.user] = Ended(r.op)]
    /\ change' = [Beats(s, LAMBDA q : q.op \in OfUser /\ q.user = r.user) EXCEPT ![s] = Idle]
    /\ past' = [past EXCEPT !.misjudged = @ \/ AtStake(r.op, r.user, r.role, r.perm)]
    /\ UNCHANGED <<signedIn, live, grants, holds, redis, reading, begun>>

\* invalidatePermissionCache: INCR makes a missing key 1, which readers took for the
\* version before.  It makes up for the increments that were lost before it.
Invalidate(s) ==
    /\ change[s].op # "idle" /\ change[s].step = "invalidate"
    /\ version' = version + 1
    /\ past' = [past EXCEPT !.lost = FALSE, !.reset = @ \/ version = 0]
    /\ change' = [change EXCEPT ![s] = Idle]
    /\ UNCHANGED <<tables, cache, reading, begun>>

\* A request ends early: the database aborts it, Redis does not answer, or a crash.
Fail(s) ==
    /\ s \in Ops
    /\ past' = [past EXCEPT !.lost = @ \/ change[s].step = "invalidate"]
    /\ change' = [change EXCEPT ![s] = Idle]
    /\ UNCHANGED <<tables, redis, reading, begun>>

\* Sign-in asks for the password, not for the status.
Login(u) ==
    /\ u \notin signedIn
    /\ signedIn' = signedIn \cup {u}
    /\ UNCHANGED <<status, live, grants, holds, redis, reading, change, begun, past>>

-----------------------------------------------------------------------------
Begins(s) ==
    \/ /\ \E a \in User : May(a, RoleManage)
       /\ \/ \E r \in Role, p \in Permission : addPermission(s, r, p) \/ Judge(s, "REVOKE", CHOOSE u \in User : TRUE, r, p)
          \/ \E u \in User, r \in Role, scope \in 1..MaxScope : assignRole(s, u, r, scope)
          \/ \E r \in Role : cloneRole(s, r) \/ Judge(s, "DELETE", CHOOSE u \in User : TRUE, r, RoleManage)
          \/ \E u \in User, r \in Role : Judge(s, "UNASSIGN", u, r, RoleManage)
    \/ \E u \in User, op \in OfUser :
          /\ \E a \in User \ {u} : May(a, UserManage)
          /\ Judge(s, op, u, Admin, RoleManage)

Works(s) ==
    \/ Guard(s) \/ GuardedCommit(s) \/ PlainCommit(s) \/ EndSessions(s) \/ WriteStatus(s) \/ Invalidate(s)

Reads(u) == ReadVersion(u) \/ ReadCache(u) \/ ReadRoles(u) \/ ReadGrants(u) \/ WriteCache(u) \/ WriteVersion(u)

RolesNext ==
    \/ begun < MaxRequests /\ \E s \in Slot : Begins(s)
    \/ \E r \in Role : (\E a \in User : May(a, RoleManage)) /\ createRole(r)
    \/ \E s \in Slot : Works(s) \/ Fail(s)
    \/ \E u \in User : Login(u)
    \/ \E u \in Reader : Reads(u)
    \/ \E u \in User, v \in Version : Expire(u, v)

RolesSpec == RolesInit /\ [][RolesNext]_rolesVars

-----------------------------------------------------------------------------
RolesTypeOK ==
    /\ status \in [User -> {"NEW", "ACTIVE", "SUSPENDED", "TERMINATED"}]
    /\ signedIn \subseteq User /\ live \subseteq Role
    /\ grants \in [Role -> SUBSET Permission]
    /\ holds \in [User -> [Role -> Scope]]
    /\ version \in 0..(MaxRequests + 1)
    /\ cache \in [User -> [Version -> Manifest]]
    /\ \A u \in Reader : reading[u].step \in {"idle", "roles", "grants", "write", "version"}
    /\ change \in [Slot -> Request \cup {Idle}]
    /\ begun \in 0..MaxRequests
    /\ past \in [misjudged : BOOLEAN, lost : BOOLEAN, reset : BOOLEAN]

\* AdminLockoutService: an organisation that has an active user with role:manage keeps
\* one, whatever overlaps, unless a request that was judged not to need the guard is
\* overtaken by a grant and takes a manager away.
AdminRemains == [][Managers # {} /\ ~past'.misjudged => Managers' # {}]_rolesVars

\* Once no change of roles waits for its increment, what is cached under the current
\* version is what the database says, whatever was read and filed meanwhile: an
\* increment also makes up for one that was lost before it, so that only the changes
\* since the last increment may be missing.  The exception is a version that was set
\* back, or whose key was missing.
CacheIsTrue ==
    /\ \A s \in Ops : change[s].step # "invalidate"
    /\ ~past.lost /\ ~past.reset /\ version # 0
    => \A u \in Reader : cache[u][version] \in {Nothing, buildManifestFromDB(u)}
=============================================================================
