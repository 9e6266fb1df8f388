------------------------------- MODULE SignIn -------------------------------
(***************************************************************************)
(* How people come into an organisation and sign in: sign-up, the links    *)
(* that verify an e-mail or reset a password, sessions, invitations, and   *)
(* what ends sessions (the auth, sessions and users routers, auth.service, *)
(* invitation.service, TokenService, authMiddleware).  Hardly any of it    *)
(* runs in one transaction: a request is what it reads (Begin) and, later, *)
(* what it writes, by id; where the code uses no transaction each write is *)
(* a step.  Passwords and secrets are left out: who presents one presents  *)
(* the right one.  An e-mail has one account: that an invitation may give  *)
(* it a second one, in another organisation, is left out.  The rate limits *)
(* only refuse, which a request that is not made stands for.               *)
(***************************************************************************)
EXTENDS Naturals, FiniteSets

CONSTANTS
    User,         \* e-mails
    Founder,      \* those that sign up
    MaxSessions,  \* bound: Session rows
    MaxLinks,     \* bound: VerificationToken and PasswordResetToken rows
    Slots,        \* how many requests may be open at the same time
    MaxRequests   \* bound: how many requests are made (finite model)

ASSUME FounderAssumption == User # {} /\ Founder \subseteq User
ASSUME BoundAssumption == {MaxSessions, MaxLinks, Slots, MaxRequests} \subseteq Nat

VARIABLES
    status,      \* User.status, "none" when there is no such row
    verified,    \* the users whose emailVerified is set
    session,     \* the Session rows
    link,        \* the VerificationToken and PasswordResetToken rows
    invitation,  \* the UserInvitation row of each e-mail
    open,        \* the open request of each slot
    begun,       \* how many requests were made
    past         \* crossed: an account came to be between what an invitation read and
                 \* wrote; doubled: two requests for a link, or two uses of one, overlapped

rows == <<status, verified, session, link, invitation>>
vars == <<rows, open, begun, past>>

Session == 1..MaxSessions
Link == 1..MaxLinks
Slot == 1..Slots

Alive == {"CREATED", "ACTIVE"}
\* access: the access token of the session has not expired.  over (history): the session
\* was there when its user's sessions were ended, or was itself.
SessionRow == [user : User, status : {"none", "REVOKED", "INVALIDATED"} \cup Alive, access : BOOLEAN, over : BOOLEAN]
LinkRow == [user : User, kind : {"verify", "reset"}, status : {"none", "PENDING", "USED", "REVOKED", "EXPIRED"}, uses : Nat]
\* issue, accepts (history): which token this is, and how often it was accepted.
InvitationRow ==
    [status : {"none", "PENDING", "ACCEPTED"}, expired : BOOLEAN, mail : {"PENDING", "SENT", "FAILED", "SKIPPED"},
     issue : Nat, accepts : Nat]

Idle == [op |-> "idle"]
Op == {"LOGIN", "AUTHENTICATE", "LOGOUT", "VERIFY", "RESEND", "FORGOT", "RESET", "SUSPEND", "TERMINATE", "INVITE", "ACCEPT"}
\* of: the session or link, or the issue of the invitation, that was read; saw: its
\* status, or the user's.
Request ==
    [op : Op, user : User, of : Nat, saw : {"none", "NEW", "SUSPENDED", "TERMINATED", "PENDING"} \cup Alive,
     step : {"write", "create", "status", "mail", "session"}, overtaken : BOOLEAN]

NoSession == [user |-> CHOOSE u \in User : TRUE, status |-> "none", access |-> FALSE, over |-> FALSE]
NoLink == [user |-> CHOOSE u \in User : TRUE, kind |-> "reset", status |-> "none", uses |-> 0]
NoInvitation == [status |-> "none", expired |-> FALSE, mail |-> "PENDING", issue |-> 0, accepts |-> 0]

Unused(r) == {x \in DOMAIN r : r[x].status = "none"}
First(X) == CHOOSE x \in X : \A y \in X : x <= y

\* Members are ACTIVE (the seed or an invitation made them), founders NEW; an
\* invitation may be there whose mail failed, or that was accepted.
Init ==
    \E members \in SUBSET User, invited \in {"none", "PENDING", "ACCEPTED"} :
        /\ status = [u \in User |-> IF u \notin members THEN "none" ELSE IF u \in Founder THEN "NEW" ELSE "ACTIVE"]
        /\ verified = members
        /\ session = [x \in Session |->
              IF x = 1 /\ members # {} THEN [NoSession EXCEPT !.user = CHOOSE u \in members : TRUE, !.status = "ACTIVE"] ELSE NoSession]
        /\ link = [x \in Link |-> NoLink]
        /\ invitation = [u \in User |->
              IF u \in Founder \/ (u \in members) # (invited = "ACCEPTED") THEN NoInvitation
              ELSE [NoInvitation EXCEPT !.status = invited, !.mail = IF invited = "PENDING" THEN "FAILED" ELSE "SENT"]]
        /\ open = [s \in Slot |-> Idle]
        /\ begun = 0
        /\ past = [crossed |-> FALSE, doubled |-> FALSE]

-----------------------------------------------------------------------------
Ops == {s \in Slot : open[s].op # "idle"}

Opens(s, op, u, of, saw, step) ==
    /\ begun' = begun + 1
    /\ s \notin Ops /\ \A t \in 1..(s - 1) : t \in Ops
    /\ open' = [open EXCEPT ![s] = [op |-> op, user |-> u, of |-> of, saw |-> saw, step |-> step, overtaken |-> FALSE]]

Begin(s, op, u, of, saw, step) == Opens(s, op, u, of, saw, step) /\ UNCHANGED <<rows, past>>

\* s writes; from then on its request is next.
Writes(s, next) ==
    /\ open' = [t \in Slot |-> IF t = s THEN next ELSE IF t \in Ops THEN [open[t] EXCEPT !.overtaken = TRUE] ELSE Idle]
    /\ UNCHANGED begun

Ends(s) == Writes(s, Idle)
To(s, step) == [open[s] EXCEPT !.step = step]
At(s, op, step) == open[s].op = op /\ open[s].step = step

\* A request ends early: a crash, a failing database, a caller gone.  What it wrote
\* before stays, unless it was in a transaction.
Fail(s) ==
    /\ s \in Ops
    /\ open' = [open EXCEPT ![s] = Idle]
    /\ UNCHANGED <<rows, begun, past>>

\* One write of a request that has only this one.
AtOnce == begun' = begun + 1 /\ open' = [t \in Slot |-> IF t \in Ops THEN [open[t] EXCEPT !.overtaken = TRUE] ELSE Idle]

-----------------------------------------------------------------------------
(* Sessions.                                                               *)

\* Mutant: the status is left to the default of the column.
CreatedByDefault(u) == [user |-> u, status |-> "CREATED", access |-> TRUE, over |-> FALSE]
Created(u) == [user |-> u, status |-> "ACTIVE", access |-> TRUE, over |-> FALSE]

createSession(s) ==
    /\ Unused(session) # {}
    /\ session' = [session EXCEPT ![First(Unused(session))] = Created(open[s].user)]
    /\ UNCHANGED <<status, verified, link, invitation, past>>
    /\ Ends(s)

\* POST /login reads the user, password and emailVerified, not the status.
BeginLogin(s, u) == status[u] # "none" /\ u \in verified /\ Begin(s, "LOGIN", u, 0, status[u], "create")
CommitLogin(s) == At(s, "LOGIN", "create") /\ createSession(s)

\* The sessions of u that are alive are over; those with one of the statuses are ended.
Ending(u, statuses, to) ==
    [x \in Session |->
        IF session[x].user = u /\ session[x].status \in Alive
        THEN [session[x] EXCEPT !.over = TRUE, !.status = IF @ \in statuses THEN to ELSE @]
        ELSE session[x]]

Usable(x) == session[x].status \in Alive /\ session[x].access

\* authMiddleware: a session that was CREATED when it was read becomes ACTIVE, by id.
BeginAuthenticate(s, x) ==
    /\ Usable(x)
    /\ Begin(s, "AUTHENTICATE", session[x].user, x, session[x].status, "write")

CommitAuthenticate(s) ==
    /\ At(s, "AUTHENTICATE", "write")
    /\ session' = IF open[s].saw = "CREATED" THEN [session EXCEPT ![open[s].of].status = "ACTIVE"] ELSE session
    /\ UNCHANGED <<status, verified, link, invitation, past>>
    /\ Ends(s)

\* POST /logout of the session the request came with.
BeginLogout(s, x) == Usable(x) /\ Begin(s, "LOGOUT", session[x].user, x, session[x].status, "write")

\* DELETE /sessions/:id of another session of the same user: in a terminal state there
\* is nothing to do.
BeginRevoke(s, x, y) ==
    /\ Usable(x) /\ y # x /\ session[y].user = session[x].user /\ session[y].status \in Alive
    /\ Begin(s, "LOGOUT", session[y].user, y, session[y].status, "write")

CommitLogout(s) ==
    /\ At(s, "LOGOUT", "write")
    /\ session' = [session EXCEPT ![open[s].of].status = "REVOKED", ![open[s].of].over = TRUE]
    /\ UNCHANGED <<status, verified, link, invitation, past>>
    /\ Ends(s)

\* POST /refresh leaves the session as it is.
refresh(x) ==
    /\ session[x].status \in Alive /\ ~session[x].access
    /\ status[session[x].user] = "ACTIVE"
    /\ session' = [session EXCEPT ![x].access = TRUE]
    /\ AtOnce
    /\ UNCHANGED <<status, verified, link, invitation, past>>

AccessExpires(x) ==
    /\ Usable(x)
    /\ session' = [session EXCEPT ![x].access = FALSE]
    /\ UNCHANGED <<status, verified, link, invitation, open, begun, past>>

\* suspendUser and terminateUser: the sessions, then the status, by id; under the
\* administrator guard (RoleGrants) all of it is one transaction.
CanEnd(op, u) ==
    IF op = "SUSPEND" THEN status[u] = "ACTIVE" ELSE status[u] \notin {"none", "TERMINATED"}
EndedStatus(op) == IF op = "SUSPEND" THEN "SUSPENDED" ELSE "TERMINATED"

BeginEnd(s, op, u) == CanEnd(op, u) /\ Begin(s, op, u, 0, status[u], "write")

EndSessions(s) ==
    /\ open[s].op \in {"SUSPEND", "TERMINATE"} /\ open[s].step = "write"
    /\ session' = Ending(open[s].user, Alive, "INVALIDATED")
    /\ UNCHANGED <<status, verified, link, invitation, past>>
    /\ Writes(s, To(s, "status"))

EndUser(s) ==
    /\ open[s].op \in {"SUSPEND", "TERMINATE"} /\ open[s].step = "status"
    /\ status' = [status EXCEPT ![open[s].user] = EndedStatus(open[s].op)]
    /\ UNCHANGED <<verified, session, link, invitation, past>>
    /\ Ends(s)

EndUnderGuard(op, u) ==
    /\ CanEnd(op, u)
    /\ session' = Ending(u, Alive, "INVALIDATED")
    /\ status' = [status EXCEPT ![u] = EndedStatus(op)]
    /\ AtOnce
    /\ UNCHANGED <<verified, link, invitation, past>>

-----------------------------------------------------------------------------
(* Links.                                                                  *)
NewLink(u, kind) == [link EXCEPT ![First(Unused(link))] = [user |-> u, kind |-> kind, status |-> "PENDING", uses |-> 0]]
LinksOf(u, kind, statuses) == {x \in Link : link[x].user = u /\ link[x].kind = kind /\ link[x].status \in statuses}
Revoking(X) == [x \in Link |-> IF x \in X THEN [link[x] EXCEPT !.status = "REVOKED"] ELSE link[x]]

\* POST /signup in one transaction, under a lock for the e-mail.  The status is left to
\* the default of the column.
signup(u) ==
    /\ u \in Founder /\ status[u] = "none" /\ Unused(link) # {}
    /\ status' = [status EXCEPT ![u] = "NEW"]
    /\ link' = NewLink(u, "verify")
    /\ AtOnce
    /\ UNCHANGED <<verified, session, invitation, past>>

BeginResend(s, u) ==
    status[u] # "none" /\ u \notin verified /\ Begin(s, "RESEND", u, 0, status[u], "write")

BeginForgot(s, u) == status[u] # "none" /\ Begin(s, "FORGOT", u, 0, status[u], "write")

Kind(op) == IF op \in {"RESEND", "VERIFY"} THEN "verify" ELSE "reset"

\* Mutant: the links that are pending stay so.
RevokeNone(s) ==
    /\ open[s].op \in {"RESEND", "FORGOT"} /\ open[s].step = "write"
    /\ UNCHANGED <<rows, past>>
    /\ Writes(s, To(s, "create"))

RevokeLinks(s) ==
    /\ open[s].op \in {"RESEND", "FORGOT"} /\ open[s].step = "write"
    /\ link' = Revoking(LinksOf(open[s].user, Kind(open[s].op), {"PENDING"}))
    /\ UNCHANGED <<status, verified, session, invitation, past>>
    /\ Writes(s, To(s, "create"))

CreateLink(s) ==
    /\ open[s].op \in {"RESEND", "FORGOT"} /\ open[s].step = "create" /\ Unused(link) # {}
    /\ link' = NewLink(open[s].user, Kind(open[s].op))
    /\ past' = [past EXCEPT !.doubled = @ \/ open[s].overtaken]
    /\ UNCHANGED <<status, verified, session, invitation>>
    /\ Ends(s)

LinkExpires(x) ==
    /\ link[x].status = "PENDING"
    /\ link' = [link EXCEPT ![x].status = "EXPIRED"]
    /\ UNCHANGED <<status, verified, session, invitation, open, begun, past>>

\* The link is found before the transaction, and marked in it by id.
BeginUse(s, op, x) ==
    /\ link[x].status = "PENDING" /\ link[x].kind = Kind(op)
    /\ Begin(s, op, link[x].user, x, "PENDING", "write")

Used(x, others) == [Revoking(others \ {x}) EXCEPT ![x].status = "USED", ![x].uses = @ + 1]
Doubled(s) == past' = [past EXCEPT !.doubled = @ \/ open[s].overtaken]

CommitVerify(s) ==
    LET u == open[s].user IN
    /\ At(s, "VERIFY", "write")
    /\ verified' = verified \cup {u}
    /\ link' = Used(open[s].of, LinksOf(u, "verify", {"PENDING", "REVOKED", "EXPIRED"}))
    /\ Doubled(s)
    /\ UNCHANGED <<status, session, invitation>>
    /\ Ends(s)

CommitReset(s) ==
    /\ At(s, "RESET", "write")
    /\ link' = Used(open[s].of, {})
    /\ session' = Ending(open[s].user, {"ACTIVE"}, "REVOKED")
    /\ Doubled(s)
    /\ UNCHANGED <<status, verified, invitation>>
    /\ Ends(s)

-----------------------------------------------------------------------------
(* Invitations.                                                            *)

\* An active, suspended or terminated user is refused, and so is an invitation that is
\* pending, even past its time, unless its mail failed or was skipped.
MayInvite(u) ==
    LET i == invitation[u] IN
    /\ status[u] \in {"none", "NEW"}
    /\ i.status = "PENDING" => i.mail \in {"FAILED", "SKIPPED"}

BeginInvite(s, u) ==
    /\ MayInvite(u) /\ (u \in Founder => status[u] # "none")
    /\ Opens(s, "INVITE", u, invitation[u].issue, status[u], IF invitation[u].status = "none" THEN "create" ELSE "write")
    /\ UNCHANGED <<rows, past>>

\* The lock of SELECT ... FOR UPDATE.
\* Mutant: the row is read without the lock.
LockIgnored(u) == TRUE
LockFree(u) == ~\E t \in Ops : open[t].op = "ACCEPT" /\ open[t].step = "write" /\ open[t].user = u

\* Created, or issued again by id; the unique (tenantId, email) refuses a second row.
WriteInvitation(s) ==
    LET u == open[s].user IN
    /\ open[s].op = "INVITE" /\ open[s].step \in {"create", "write"} /\ LockFree(u)
    /\ open[s].step = "create" => invitation[u].status = "none"
    /\ invitation' = [invitation EXCEPT ![u] =
          [status |-> "PENDING", expired |-> FALSE, mail |-> "PENDING", issue |-> @.issue + 1, accepts |-> 0]]
    /\ past' = [past EXCEPT !.crossed = @ \/ status[u] # open[s].saw]
    /\ UNCHANGED <<status, verified, session, link>>
    /\ Writes(s, To(s, "mail"))

\* What became of the mail is written by id, whichever issue is there by now.
AttemptEmail(s) ==
    /\ At(s, "INVITE", "mail") /\ LockFree(open[s].user)
    /\ \E m \in {"SENT", "FAILED", "SKIPPED"} : invitation' = [invitation EXCEPT ![open[s].user].mail = m]
    /\ UNCHANGED <<status, verified, session, link, past>>
    /\ Ends(s)

\* Its expiresAt passes; EXPIRED is never written: the update is rolled back by the
\* refusal that follows it.
InvitationExpires(u) ==
    /\ invitation[u].status = "PENDING" /\ ~invitation[u].expired
    /\ invitation' = [invitation EXCEPT ![u].expired = TRUE]
    /\ UNCHANGED <<status, verified, session, link, open, begun, past>>

BeginAccept(s, u) ==
    /\ LockFree(u)
    /\ invitation[u].status = "PENDING" /\ ~invitation[u].expired
    /\ status[u] \notin {"SUSPENDED", "TERMINATED"}
    /\ Begin(s, "ACCEPT", u, invitation[u].issue, status[u], "write")

\* A user who is there keeps the status; a new one is ACTIVE and verified, unless there
\* is one by now (unique: the transaction fails).
CommitAccept(s) ==
    LET u == open[s].user IN
    /\ At(s, "ACCEPT", "write")
    /\ open[s].saw = "none" => status[u] = "none"
    /\ status' = IF open[s].saw = "none" THEN [status EXCEPT ![u] = "ACTIVE"] ELSE status
    /\ verified' = IF open[s].saw = "none" THEN verified \cup {u} ELSE verified
    /\ invitation' = [invitation EXCEPT ![u].status = "ACCEPTED", ![u].accepts = @ + 1]
    /\ UNCHANGED <<session, link, past>>
    /\ Writes(s, To(s, "session"))

\* The session comes after the transaction.
SessionOfAccept(s) == At(s, "ACCEPT", "session") /\ createSession(s)

-----------------------------------------------------------------------------
Begins(s) ==
    \/ \E u \in User : BeginLogin(s, u) \/ BeginResend(s, u) \/ BeginForgot(s, u) \/ BeginInvite(s, u) \/ BeginAccept(s, u)
    \/ \E u \in User, op \in {"SUSPEND", "TERMINATE"} : BeginEnd(s, op, u)
    \/ \E x \in Session : BeginAuthenticate(s, x) \/ BeginLogout(s, x) \/ (\E y \in Session : BeginRevoke(s, x, y))
    \/ \E x \in Link, op \in {"VERIFY", "RESET"} : BeginUse(s, op, x)

AtOnces ==
    \/ \E u \in User : signup(u)
    \/ \E u \in User, op \in {"SUSPEND", "TERMINATE"} : EndUnderGuard(op, u)
    \/ \E x \in Session : refresh(x)

Commits(s) ==
    \/ CommitLogin(s) \/ CommitAuthenticate(s) \/ CommitLogout(s) \/ EndSessions(s) \/ EndUser(s)
    \/ RevokeLinks(s) \/ CreateLink(s) \/ CommitVerify(s) \/ CommitReset(s)
    \/ WriteInvitation(s) \/ AttemptEmail(s) \/ CommitAccept(s) \/ SessionOfAccept(s)

Next ==
    \/ begun < MaxRequests /\ (AtOnces \/ \E s \in Slot : Begins(s))
    \/ \E s \in Slot : Commits(s) \/ Fail(s)
    \/ \E x \in Session : AccessExpires(x)
    \/ \E x \in Link : LinkExpires(x)
    \/ \E u \in User : InvitationExpires(u)

Spec == Init /\ [][Next]_vars

-----------------------------------------------------------------------------
TypeOK ==
    /\ status \in [User -> {"none", "NEW", "ACTIVE", "SUSPENDED", "TERMINATED"}]
    /\ verified \subseteq User
    /\ session \in [Session -> SessionRow]
    /\ link \in [Link -> LinkRow]
    /\ invitation \in [User -> InvitationRow]
    /\ open \in [Slot -> Request \cup {Idle}]
    /\ begun \in 0..MaxRequests
    /\ past \in [crossed : BOOLEAN, doubled : BOOLEAN]

\* A session that was logged out or revoked, or that was there when its user was
\* suspended or terminated or reset the password, is not alive, whatever requests of
\* that session were under way.
EndedIsOver == \A x \in Session : session[x].over => session[x].status \notin Alive

\* A user has one usable link of a kind at most, and a link is used once at most,
\* until two requests for a link or two uses of one overlap.
LinksWorkOnce ==
    ~past.doubled =>
        /\ \A u \in User, k \in {"verify", "reset"} : Cardinality(LinksOf(u, k, {"PENDING"})) <= 1
        /\ \A x \in Link : link[x].uses <= 1

\* No issue of an invitation is accepted twice, and one that can be accepted is not for
\* an active user, until one is issued again while its user is accepting the last.
InvitedOnce ==
    /\ \A u \in User : invitation[u].accepts <= 1
    /\ ~past.crossed => \A u \in User : invitation[u].status = "PENDING" => status[u] # "ACTIVE"
=============================================================================
