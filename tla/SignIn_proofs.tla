---------------------------- MODULE SignIn_proofs ----------------------------
(***************************************************************************)
(* Theorems about SignIn for any number of e-mails, sessions, links and    *)
(* requests.  No row is ever CREATED, so nothing a request has read can    *)
(* bring an ended session back; a request that nothing has overtaken finds *)
(* the links as it left them; and the lock on the invitation keeps it as   *)
(* the accepting request has read it.                                      *)
(***************************************************************************)
EXTENDS SignIn, FiniteSetTheorems, WellFoundedInduction, TLAPS

\* What the open requests have read is there, and of the kind their checks let through.
Reads ==
    \A s \in Ops :
        /\ open[s].op \in {"AUTHENTICATE", "LOGOUT"} => open[s].of \in Session
        /\ open[s].op = "AUTHENTICATE" => open[s].saw # "CREATED"
        /\ open[s].op \in {"VERIFY", "RESET"} => open[s].of \in Link
        /\ open[s].op \in {"RESEND", "FORGOT"} => status[open[s].user] # "none"
        /\ open[s].op = "INVITE" /\ open[s].step \in {"create", "write"} => open[s].saw \in {"none", "NEW"}

\* authMiddleware's activation never has anything to activate.
NeverCreated == \A x \in Session : session[x].status # "CREATED"

IsPending(x) == link[x].status = "PENDING"

LinkHasUser == \A x \in Link : IsPending(x) => status[link[x].user] # "none"

\* No second pending link of a kind, and none that was used.
OnePending == \A x, y \in Link : IsPending(x) /\ IsPending(y) /\ link[x].user = link[y].user /\ link[x].kind = link[y].kind => x = y
UsedAtMostOnce == \A x \in Link : link[x].uses <= 1 /\ (IsPending(x) => link[x].uses = 0)

\* A request nothing has overtaken finds its link unused, or no link where it revoked them.
LinksAsLeft ==
    \A s \in Ops : ~open[s].overtaken =>
        /\ open[s].op \in {"VERIFY", "RESET"} => link[open[s].of].uses = 0
        /\ open[s].op \in {"RESEND", "FORGOT"} /\ open[s].step = "create" =>
             \A x \in Link : IsPending(x) => link[x].user # open[s].user \/ link[x].kind # Kind(open[s].op)

LinkInv == ~past.doubled => OnePending /\ UsedAtMostOnce /\ LinksAsLeft

\* The accepting request holds the lock of a pending invitation, alone.
Accepting(s) == At(s, "ACCEPT", "write")
Locked ==
    \A s \in Slot : Accepting(s) =>
        /\ invitation[open[s].user].status = "PENDING"
        /\ \A t \in Slot : Accepting(t) /\ open[t].user = open[s].user => t = s

AcceptedAtMostOnce == \A u \in User : invitation[u].accepts <= 1 /\ (invitation[u].status = "PENDING" => invitation[u].accepts = 0)
PendingIsNotActive == ~past.crossed => \A u \in User : invitation[u].status = "PENDING" => status[u] # "ACTIVE"

IInv == /\ TypeOK /\ Reads
        /\ NeverCreated /\ EndedIsOver
        /\ LinkHasUser /\ LinkInv
        /\ Locked /\ AcceptedAtMostOnce /\ PendingIsNotActive

-----------------------------------------------------------------------------
LEMMA FirstIsIn == ASSUME NEW X \in SUBSET Nat, X # {} PROVE First(X) \in X
<1>1. PICK x \in X : \A y \in X : ~ (<<y, x>> \in OpToRel(<, Nat))
  BY NatLessThanWellFounded, WFMin
<1>2. \A y \in X : x <= y
  <2>1. TAKE y \in X
  <2>2. ~ (y < x)
    BY <1>1 DEF OpToRel
  <2> QED BY <2>2
<1> QED BY <1>2 DEF First

LEMMA OpensType ==
  ASSUME TypeOK, NEW s \in Slot, NEW op \in Op, NEW u \in User, NEW of \in Nat, NEW saw \in {"none", "NEW", "SUSPENDED", "TERMINATED", "PENDING"} \cup Alive,
         NEW step \in {"write", "create", "status", "mail", "session"},
         begun < MaxRequests, Opens(s, op, u, of, saw, step)
  PROVE  open' \in [Slot -> Request \cup {Idle}] /\ begun' \in 0..MaxRequests
<1>1. MaxRequests \in Nat
  BY BoundAssumption
<1> QED BY <1>1 DEF TypeOK, Opens, Request

LEMMA AtOnceType ==
  ASSUME TypeOK, begun < MaxRequests, AtOnce
  PROVE  open' \in [Slot -> Request \cup {Idle}] /\ begun' \in 0..MaxRequests
<1>1. MaxRequests \in Nat
  BY BoundAssumption
<1>2. \A s \in Ops : open[s] \in Request
  BY DEF TypeOK, Ops, Idle
<1>3. \A r \in Request : [r EXCEPT !.overtaken = TRUE] \in Request
  BY DEF Request
<1> QED BY <1>1, <1>2, <1>3 DEF TypeOK, AtOnce

LEMMA WritesType ==
  ASSUME TypeOK, NEW s \in Slot, NEW next \in Request \cup {Idle}, Writes(s, next)
  PROVE  open' \in [Slot -> Request \cup {Idle}] /\ begun' \in 0..MaxRequests
<1>1. \A t \in Ops : open[t] \in Request
  BY DEF TypeOK, Ops, Idle
<1>2. \A r \in Request : [r EXCEPT !.overtaken = TRUE] \in Request
  BY DEF Request
<1> QED BY <1>1, <1>2 DEF TypeOK, Writes

LEMMA ToType == ASSUME TypeOK, NEW s \in Ops, NEW step \in {"write", "create", "status", "mail", "session"} PROVE To(s, step) \in Request
BY DEF TypeOK, Ops, Idle, To, Request

LEMMA EndingEnds ==
  ASSUME TypeOK, NeverCreated, EndedIsOver, NEW u \in User, NEW statuses, "ACTIVE" \in statuses,
         NEW to \in {"REVOKED", "INVALIDATED"}, session' = Ending(u, statuses, to)
  PROVE  session' \in [Session -> SessionRow] /\ NeverCreated' /\ EndedIsOver'
<1>1. ASSUME NEW x \in Session, session[x].user = u, session[x].status \in Alive
      PROVE  session'[x] = [session[x] EXCEPT !.over = TRUE, !.status = to]
  <2>1. session[x].status \in statuses
    BY <1>1 DEF NeverCreated, Alive
  <2>2. session'[x] = [session[x] EXCEPT !.over = TRUE, !.status = IF session[x].status \in statuses THEN to ELSE session[x].status]
    BY <1>1 DEF Ending
  <2> QED BY <2>1, <2>2
<1>2. ASSUME NEW x \in Session
      PROVE  /\ session'[x] \in SessionRow /\ session'[x].status # "CREATED"
             /\ session'[x].over => session'[x].status \notin Alive
  <2>1. session[x] \in SessionRow /\ session[x].status # "CREATED" /\ (session[x].over => session[x].status \notin Alive)
    BY DEF TypeOK, NeverCreated, EndedIsOver
  <2>2. CASE session[x].user = u /\ session[x].status \in Alive
    <3>1. session'[x] = [session[x] EXCEPT !.over = TRUE, !.status = to]
      BY <1>1, <2>2
    <3>2. [session[x] EXCEPT !.over = TRUE, !.status = to] \in SessionRow
      BY <2>1 DEF SessionRow
    <3>3. session'[x].status = to
      BY <2>1, <3>1 DEF SessionRow
    <3> QED BY <3>1, <3>2, <3>3 DEF Alive
  <2>3. CASE ~(session[x].user = u /\ session[x].status \in Alive)
    <3>1. session'[x] = session[x]
      BY <2>3 DEF Ending
    <3> QED BY <2>1, <3>1
  <2> QED BY <2>2, <2>3
<1>3. DOMAIN session' = Session /\ session' = [x \in Session |-> session'[x]]
  BY DEF Ending
<1> QED BY <1>2, <1>3 DEF NeverCreated, EndedIsOver

LEMMA UsedLinks ==
  ASSUME TypeOK, NEW x \in Link, NEW others \in SUBSET Link
  PROVE  /\ Used(x, others) \in [Link -> LinkRow]
         /\ \A y \in Link :
              /\ Used(x, others)[y].user = link[y].user /\ Used(x, others)[y].kind = link[y].kind
              /\ Used(x, others)[y].uses = link[y].uses + (IF y = x THEN 1 ELSE 0)
              /\ Used(x, others)[y].status = "PENDING" => link[y].status = "PENDING" /\ y # x
<1> DEFINE rest == Revoking(others \ {x})
<1>1. rest \in [Link -> LinkRow]
  BY DEF TypeOK, Revoking, LinkRow
<1>2. \A y \in Link :
        /\ rest[y].user = link[y].user /\ rest[y].kind = link[y].kind /\ rest[y].uses = link[y].uses
        /\ rest[y].status = "PENDING" => link[y].status = "PENDING"
  BY DEF Revoking
<1>3. rest[x] = link[x]
  BY DEF Revoking
<1> HIDE DEF rest
<1>4. Used(x, others) = [rest EXCEPT ![x].status = "USED", ![x].uses = @ + 1]
  BY DEF Used, rest
<1>5. Used(x, others) = [rest EXCEPT ![x] = [rest[x] EXCEPT !.status = "USED", !.uses = rest[x].uses + 1]]
  BY <1>1, <1>4
<1>6. ASSUME NEW r \in LinkRow, NEW n \in Nat
      PROVE  LET used == [r EXCEPT !.status = "USED", !.uses = n]
             IN used \in LinkRow /\ used.user = r.user /\ used.kind = r.kind /\ used.status = "USED" /\ used.uses = n
  BY DEF LinkRow
<1> DEFINE used == [rest[x] EXCEPT !.status = "USED", !.uses = rest[x].uses + 1]
<1>7. used \in LinkRow /\ used.user = rest[x].user /\ used.kind = rest[x].kind /\ used.status = "USED" /\ used.uses = rest[x].uses + 1
  <2>1. rest[x] \in LinkRow /\ rest[x].uses + 1 \in Nat
    BY <1>1 DEF LinkRow
  <2> QED BY <1>6, <2>1
<1>8. Used(x, others) = [rest EXCEPT ![x] = used]
  BY <1>5
<1> HIDE DEF used
<1>9. Used(x, others) \in [Link -> LinkRow]
  BY <1>1, <1>8, <1>7
<1>10. \A y \in Link : y # x => Used(x, others)[y] = rest[y] /\ link[y].uses \in Nat
  BY <1>1, <1>8 DEF TypeOK, LinkRow
<1>11. Used(x, others)[x] = used
  BY <1>1, <1>8
<1>12. /\ Used(x, others)[x].user = link[x].user /\ Used(x, others)[x].kind = link[x].kind
       /\ Used(x, others)[x].uses = link[x].uses + 1
       /\ Used(x, others)[x].status = "USED"
  BY <1>3, <1>7, <1>11
<1>13. \A y \in Link : y # x =>
         /\ Used(x, others)[y].user = link[y].user /\ Used(x, others)[y].kind = link[y].kind
         /\ Used(x, others)[y].uses = link[y].uses + 0
         /\ Used(x, others)[y].status = "PENDING" => link[y].status = "PENDING"
  BY <1>2, <1>10
<1> QED BY <1>9, <1>12, <1>13

LEMMA InitIInv == Init => IInv
<1> SUFFICES ASSUME Init PROVE IInv
  OBVIOUS
<1>0. PICK members \in SUBSET User, invited \in {"none", "PENDING", "ACCEPTED"} :
        /\ status = [u \in User |-> IF u \notin members THEN "none" ELSE IF u \in Founder THEN "NEW" ELSE "ACTIVE"]
        /\ verified = members
        /\ session = [x \in Session |->
              IF x = 1 /\ members # {} THEN [NoSession EXCEPT !.user = CHOOSE u \in members : TRUE, !.status = "ACTIVE"] ELSE NoSession]
        /\ invitation = [u \in User |->
              IF u \in Founder \/ (u \in members) # (invited = "ACCEPTED") THEN NoInvitation
              ELSE [NoInvitation EXCEPT !.status = invited, !.mail = IF invited = "PENDING" THEN "FAILED" ELSE "SENT"]]
        /\ link = [x \in Link |-> NoLink]
        /\ open = [t \in Slot |-> Idle] /\ begun = 0
        /\ past = [crossed |-> FALSE, doubled |-> FALSE]
  BY DEF Init
<1>1. TypeOK
  <2>1. session \in [Session -> SessionRow]
    BY <1>0, FounderAssumption DEF SessionRow, NoSession, Alive
  <2>2. link \in [Link -> LinkRow]
    BY <1>0, FounderAssumption DEF LinkRow, NoLink
  <2>3. invitation \in [User -> InvitationRow]
    <3>1. NoInvitation \in InvitationRow
      BY DEF InvitationRow, NoInvitation
    <3>2. [NoInvitation EXCEPT !.status = invited, !.mail = IF invited = "PENDING" THEN "FAILED" ELSE "SENT"] \in InvitationRow
      BY DEF InvitationRow, NoInvitation
    <3> QED BY <1>0, <3>1, <3>2
  <2>4. begun \in 0..MaxRequests
    <3>1. MaxRequests \in Nat /\ begun = 0
      BY <1>0, BoundAssumption
    <3> QED BY <3>1
  <2> QED BY <1>0, <2>1, <2>2, <2>3, <2>4 DEF TypeOK
<1>2. Ops = {}
  BY <1>0 DEF Ops, Idle
<1>3. Reads /\ LinkHasUser /\ LinkInv
  <2>1. \A x \in Link : link[x].status = "none" /\ link[x].uses = 0
    BY <1>0 DEF NoLink
  <2> QED BY <1>2, <2>1 DEF Reads, LinkHasUser, LinkInv, OnePending, UsedAtMostOnce, LinksAsLeft, IsPending
<1>4. NeverCreated /\ EndedIsOver
  BY <1>0, FounderAssumption DEF NeverCreated, EndedIsOver, NoSession
<1>5. Locked
  BY <1>0 DEF Locked, Accepting, At, Idle
<1>6. AcceptedAtMostOnce /\ PendingIsNotActive
  <2>1. ASSUME NEW u \in User
        PROVE  invitation[u].accepts = 0 /\ (invitation[u].status = "PENDING" => status[u] # "ACTIVE")
    <3>1. CASE u \in Founder \/ (u \in members) # (invited = "ACCEPTED")
      BY <1>0, <3>1 DEF NoInvitation
    <3>2. CASE ~(u \in Founder \/ (u \in members) # (invited = "ACCEPTED"))
      <4>1. /\ invitation[u] = [NoInvitation EXCEPT !.status = invited, !.mail = IF invited = "PENDING" THEN "FAILED" ELSE "SENT"]
            /\ u \in members <=> invited = "ACCEPTED"
            /\ status[u] = IF u \notin members THEN "none" ELSE IF u \in Founder THEN "NEW" ELSE "ACTIVE"
        BY <1>0, <3>2
      <4> QED BY <4>1 DEF NoInvitation
    <3> QED BY <3>1, <3>2
  <2> QED BY <2>1 DEF AcceptedAtMostOnce, PendingIsNotActive
<1> QED BY <1>1, <1>3, <1>4, <1>5, <1>6 DEF IInv

LEMMA BeginLoginKeeps == ASSUME IInv, NEW s \in Slot, begun < MaxRequests, NEW u \in User, BeginLogin(s, u) PROVE IInv'
<1>1. TypeOK'
  <2>1. open' \in [Slot -> Request \cup {Idle}] /\ begun' \in 0..MaxRequests
    BY OpensType DEF IInv, TypeOK, BeginLogin, Begin, Op, Session, Link, Alive
  <2> QED BY <2>1 DEF IInv, TypeOK, BeginLogin, rows, Begin
<1>2. Reads'
  BY DEF IInv, BeginLogin, rows, Begin, Opens, Reads, NeverCreated, Ops
<1>3. NeverCreated' /\ EndedIsOver'
  BY DEF IInv, BeginLogin, rows, Begin, Opens, NeverCreated, EndedIsOver
<1>4. LinkHasUser' /\ LinkInv'
  BY DEF IInv, BeginLogin, rows, Begin, Opens, LinkHasUser, LinkInv, OnePending, UsedAtMostOnce, LinksAsLeft, IsPending,
     Ops
<1>5. Locked'
  BY DEF IInv, BeginLogin, rows, Begin, Opens, Locked, Accepting, At
<1>6. AcceptedAtMostOnce' /\ PendingIsNotActive'
  BY DEF IInv, BeginLogin, rows, Begin, Opens, AcceptedAtMostOnce, PendingIsNotActive, Accepting
<1> QED BY <1>1, <1>2, <1>3, <1>4, <1>5, <1>6 DEF IInv

LEMMA BeginAuthenticateKeeps == ASSUME IInv, NEW s \in Slot, begun < MaxRequests, NEW x \in Session, BeginAuthenticate(s, x) PROVE IInv'
<1>1. TypeOK'
  <2>1. open' \in [Slot -> Request \cup {Idle}] /\ begun' \in 0..MaxRequests
    <3>1. session[x].user \in User /\ session[x].status \in Alive /\ x \in Nat /\ "AUTHENTICATE" \in Op
      BY DEF IInv, TypeOK, SessionRow, BeginAuthenticate, Usable, Session, Op
    <3> QED BY <3>1, OpensType DEF IInv, BeginAuthenticate, Begin
  <2> QED BY <2>1 DEF IInv, TypeOK, BeginAuthenticate, rows, Begin, Usable
<1>2. Reads'
  BY DEF IInv, BeginAuthenticate, rows, Begin, Opens, Usable, Reads, NeverCreated, Ops
<1>3. NeverCreated' /\ EndedIsOver'
  BY DEF IInv, BeginAuthenticate, rows, Begin, Opens, Usable, NeverCreated, EndedIsOver
<1>4. LinkHasUser' /\ LinkInv'
  BY DEF IInv, BeginAuthenticate, rows, Begin, Opens, Usable, LinkHasUser, LinkInv, OnePending, UsedAtMostOnce,
     LinksAsLeft, IsPending, Ops
<1>5. Locked'
  BY DEF IInv, BeginAuthenticate, rows, Begin, Opens, Usable, Locked, Accepting, At
<1>6. AcceptedAtMostOnce' /\ PendingIsNotActive'
  BY DEF IInv, BeginAuthenticate, rows, Begin, Opens, Usable, AcceptedAtMostOnce, PendingIsNotActive, Accepting
<1> QED BY <1>1, <1>2, <1>3, <1>4, <1>5, <1>6 DEF IInv

LEMMA BeginLogoutKeeps == ASSUME IInv, NEW s \in Slot, begun < MaxRequests, NEW x \in Session, BeginLogout(s, x) PROVE IInv'
<1>1. TypeOK'
  <2>1. open' \in [Slot -> Request \cup {Idle}] /\ begun' \in 0..MaxRequests
    <3>1. session[x].user \in User /\ session[x].status \in Alive /\ x \in Nat /\ "LOGOUT" \in Op
      BY DEF IInv, TypeOK, SessionRow, BeginLogout, Usable, Session, Op
    <3> QED BY <3>1, OpensType DEF IInv, BeginLogout, Begin
  <2> QED BY <2>1 DEF IInv, TypeOK, BeginLogout, rows, Begin, Usable
<1>2. Reads'
  BY DEF IInv, BeginLogout, rows, Begin, Opens, Usable, Reads, NeverCreated, Ops
<1>3. NeverCreated' /\ EndedIsOver'
  BY DEF IInv, BeginLogout, rows, Begin, Opens, Usable, NeverCreated, EndedIsOver
<1>4. LinkHasUser' /\ LinkInv'
  BY DEF IInv, BeginLogout, rows, Begin, Opens, Usable, LinkHasUser, LinkInv, OnePending, UsedAtMostOnce, LinksAsLeft,
     IsPending, Ops
<1>5. Locked'
  BY DEF IInv, BeginLogout, rows, Begin, Opens, Usable, Locked, Accepting, At
<1>6. AcceptedAtMostOnce' /\ PendingIsNotActive'
  BY DEF IInv, BeginLogout, rows, Begin, Opens, Usable, AcceptedAtMostOnce, PendingIsNotActive, Accepting
<1> QED BY <1>1, <1>2, <1>3, <1>4, <1>5, <1>6 DEF IInv

LEMMA BeginRevokeKeeps == ASSUME IInv, NEW s \in Slot, begun < MaxRequests, NEW x \in Session, NEW y \in Session, BeginRevoke(s, x, y) PROVE IInv'
<1>1. TypeOK'
  <2>1. open' \in [Slot -> Request \cup {Idle}] /\ begun' \in 0..MaxRequests
    BY OpensType DEF IInv, TypeOK, BeginRevoke, Begin, Op, Session, Link, SessionRow, LinkRow, InvitationRow, Alive
  <2> QED BY <2>1 DEF IInv, TypeOK, BeginRevoke, rows, Begin, Usable
<1>2. Reads'
  BY DEF IInv, BeginRevoke, rows, Begin, Opens, Usable, Reads, NeverCreated, Ops
<1>3. NeverCreated' /\ EndedIsOver'
  BY DEF IInv, BeginRevoke, rows, Begin, Opens, Usable, NeverCreated, EndedIsOver
<1>4. LinkHasUser' /\ LinkInv'
  BY DEF IInv, BeginRevoke, rows, Begin, Opens, Usable, LinkHasUser, LinkInv, OnePending, UsedAtMostOnce, LinksAsLeft,
     IsPending, Ops
<1>5. Locked'
  BY DEF IInv, BeginRevoke, rows, Begin, Opens, Usable, Locked, Accepting, At
<1>6. AcceptedAtMostOnce' /\ PendingIsNotActive'
  BY DEF IInv, BeginRevoke, rows, Begin, Opens, Usable, AcceptedAtMostOnce, PendingIsNotActive, Accepting
<1> QED BY <1>1, <1>2, <1>3, <1>4, <1>5, <1>6 DEF IInv

LEMMA BeginEndKeeps == ASSUME IInv, NEW s \in Slot, begun < MaxRequests, NEW op \in {"SUSPEND", "TERMINATE"}, NEW u \in User, BeginEnd(s, op, u) PROVE IInv'
<1>1. TypeOK'
  <2>1. open' \in [Slot -> Request \cup {Idle}] /\ begun' \in 0..MaxRequests
    <3>1. op \in Op /\ status[u] \in {"none", "NEW", "SUSPENDED", "TERMINATED"} \cup Alive
      BY DEF IInv, TypeOK, Op, Alive
    <3> QED BY <3>1, OpensType DEF IInv, BeginEnd, Begin
  <2> QED BY <2>1 DEF IInv, TypeOK, BeginEnd, rows, Begin
<1>2. Reads'
  BY DEF IInv, BeginEnd, rows, Begin, Opens, Reads, NeverCreated, Ops
<1>3. NeverCreated' /\ EndedIsOver'
  BY DEF IInv, BeginEnd, rows, Begin, Opens, NeverCreated, EndedIsOver
<1>4. LinkHasUser' /\ LinkInv'
  BY DEF IInv, BeginEnd, rows, Begin, Opens, LinkHasUser, LinkInv, OnePending, UsedAtMostOnce, LinksAsLeft, IsPending,
     Ops
<1>5. Locked'
  BY DEF IInv, BeginEnd, rows, Begin, Opens, Locked, Accepting, At
<1>6. AcceptedAtMostOnce' /\ PendingIsNotActive'
  BY DEF IInv, BeginEnd, rows, Begin, Opens, AcceptedAtMostOnce, PendingIsNotActive, Accepting
<1> QED BY <1>1, <1>2, <1>3, <1>4, <1>5, <1>6 DEF IInv

LEMMA BeginResendKeeps == ASSUME IInv, NEW s \in Slot, begun < MaxRequests, NEW u \in User, BeginResend(s, u) PROVE IInv'
<1>1. TypeOK'
  <2>1. open' \in [Slot -> Request \cup {Idle}] /\ begun' \in 0..MaxRequests
    BY OpensType DEF IInv, TypeOK, BeginResend, Begin, Op, Session, Link, Alive
  <2> QED BY <2>1 DEF IInv, TypeOK, BeginResend, rows, Begin
<1>2. Reads'
  BY DEF IInv, BeginResend, rows, Begin, Opens, Reads, NeverCreated, Ops
<1>3. NeverCreated' /\ EndedIsOver'
  BY DEF IInv, BeginResend, rows, Begin, Opens, NeverCreated, EndedIsOver
<1>4. LinkHasUser' /\ LinkInv'
  BY DEF IInv, BeginResend, rows, Begin, Opens, LinkHasUser, LinkInv, OnePending, UsedAtMostOnce, LinksAsLeft,
     IsPending, Ops
<1>5. Locked'
  BY DEF IInv, BeginResend, rows, Begin, Opens, Locked, Accepting, At
<1>6. AcceptedAtMostOnce' /\ PendingIsNotActive'
  BY DEF IInv, BeginResend, rows, Begin, Opens, AcceptedAtMostOnce, PendingIsNotActive, Accepting
<1> QED BY <1>1, <1>2, <1>3, <1>4, <1>5, <1>6 DEF IInv

LEMMA BeginForgotKeeps == ASSUME IInv, NEW s \in Slot, begun < MaxRequests, NEW u \in User, BeginForgot(s, u) PROVE IInv'
<1>1. TypeOK'
  <2>1. open' \in [Slot -> Request \cup {Idle}] /\ begun' \in 0..MaxRequests
    BY OpensType DEF IInv, TypeOK, BeginForgot, Begin, Op, Session, Link, Alive
  <2> QED BY <2>1 DEF IInv, TypeOK, BeginForgot, rows, Begin
<1>2. Reads'
  BY DEF IInv, BeginForgot, rows, Begin, Opens, Reads, NeverCreated, Ops
<1>3. NeverCreated' /\ EndedIsOver'
  BY DEF IInv, BeginForgot, rows, Begin, Opens, NeverCreated, EndedIsOver
<1>4. LinkHasUser' /\ LinkInv'
  BY DEF IInv, BeginForgot, rows, Begin, Opens, LinkHasUser, LinkInv, OnePending, UsedAtMostOnce, LinksAsLeft,
     IsPending, Ops
<1>5. Locked'
  BY DEF IInv, BeginForgot, rows, Begin, Opens, Locked, Accepting, At
<1>6. AcceptedAtMostOnce' /\ PendingIsNotActive'
  BY DEF IInv, BeginForgot, rows, Begin, Opens, AcceptedAtMostOnce, PendingIsNotActive, Accepting
<1> QED BY <1>1, <1>2, <1>3, <1>4, <1>5, <1>6 DEF IInv

LEMMA BeginUseKeeps == ASSUME IInv, NEW s \in Slot, begun < MaxRequests, NEW op \in {"VERIFY", "RESET"}, NEW x \in Link, BeginUse(s, op, x) PROVE IInv'
<1>1. TypeOK'
  <2>1. open' \in [Slot -> Request \cup {Idle}] /\ begun' \in 0..MaxRequests
    <3>1. op \in Op /\ link[x].user \in User /\ x \in Nat
      BY DEF IInv, TypeOK, LinkRow, Link, Op
    <3> QED BY <3>1, OpensType DEF IInv, BeginUse, Begin
  <2> QED BY <2>1 DEF IInv, TypeOK, BeginUse, rows, Begin
<1>2. Reads'
  BY DEF IInv, BeginUse, rows, Begin, Opens, Reads, NeverCreated, Ops
<1>3. NeverCreated' /\ EndedIsOver'
  BY DEF IInv, BeginUse, rows, Begin, Opens, NeverCreated, EndedIsOver
<1>4. LinkHasUser' /\ LinkInv'
  BY DEF IInv, BeginUse, rows, Begin, Opens, LinkHasUser, LinkInv, OnePending, UsedAtMostOnce, LinksAsLeft, IsPending,
     Ops
<1>5. Locked'
  BY DEF IInv, BeginUse, rows, Begin, Opens, Locked, Accepting, At
<1>6. AcceptedAtMostOnce' /\ PendingIsNotActive'
  BY DEF IInv, BeginUse, rows, Begin, Opens, AcceptedAtMostOnce, PendingIsNotActive, Accepting
<1> QED BY <1>1, <1>2, <1>3, <1>4, <1>5, <1>6 DEF IInv

LEMMA BeginInviteKeeps == ASSUME IInv, NEW s \in Slot, begun < MaxRequests, NEW u \in User, BeginInvite(s, u) PROVE IInv'
<1>1. TypeOK'
  <2>1. open' \in [Slot -> Request \cup {Idle}] /\ begun' \in 0..MaxRequests
    BY OpensType DEF IInv, TypeOK, BeginInvite, Op, Session, Link, InvitationRow, Alive
  <2> QED BY <2>1 DEF IInv, TypeOK, BeginInvite, rows, MayInvite
<1>2. Reads'
  BY DEF IInv, BeginInvite, rows, Opens, MayInvite, Reads, NeverCreated, Ops
<1>3. NeverCreated' /\ EndedIsOver'
  BY DEF IInv, BeginInvite, rows, Opens, MayInvite, NeverCreated, EndedIsOver
<1>4. LinkHasUser' /\ LinkInv'
  BY DEF IInv, BeginInvite, rows, Opens, MayInvite, LinkHasUser, LinkInv, OnePending, UsedAtMostOnce, LinksAsLeft,
     IsPending, Ops
<1>5. Locked'
  BY DEF IInv, BeginInvite, rows, Opens, MayInvite, Locked, Accepting, At
<1>6. AcceptedAtMostOnce' /\ PendingIsNotActive'
  BY DEF IInv, BeginInvite, rows, Opens, MayInvite, AcceptedAtMostOnce, PendingIsNotActive, Accepting
<1> QED BY <1>1, <1>2, <1>3, <1>4, <1>5, <1>6 DEF IInv

LEMMA BeginAcceptKeeps == ASSUME IInv, NEW s \in Slot, begun < MaxRequests, NEW u \in User, BeginAccept(s, u) PROVE IInv'
<1>1. TypeOK'
  <2>1. open' \in [Slot -> Request \cup {Idle}] /\ begun' \in 0..MaxRequests
    BY OpensType DEF IInv, TypeOK, BeginAccept, Begin, Op, Session, Link, InvitationRow, Alive
  <2> QED BY <2>1 DEF IInv, TypeOK, BeginAccept, rows, Begin, LockFree
<1>2. Reads'
  BY DEF IInv, BeginAccept, rows, Begin, Opens, LockFree, Reads, NeverCreated, Ops
<1>3. NeverCreated' /\ EndedIsOver'
  BY DEF IInv, BeginAccept, rows, Begin, Opens, LockFree, NeverCreated, EndedIsOver
<1>4. LinkHasUser' /\ LinkInv'
  BY DEF IInv, BeginAccept, rows, Begin, Opens, LockFree, LinkHasUser, LinkInv, OnePending, UsedAtMostOnce, LinksAsLeft,
     IsPending, Ops
<1>5. Locked'
  BY DEF IInv, BeginAccept, rows, Begin, Opens, LockFree, Locked, Accepting, Ops, At
<1>6. AcceptedAtMostOnce' /\ PendingIsNotActive'
  BY DEF IInv, BeginAccept, rows, Begin, Opens, LockFree, AcceptedAtMostOnce, PendingIsNotActive, Accepting
<1> QED BY <1>1, <1>2, <1>3, <1>4, <1>5, <1>6 DEF IInv

LEMMA signupKeeps == ASSUME IInv, NEW u \in User, begun < MaxRequests, signup(u) PROVE IInv'
<1>0. First(Unused(link)) \in Link /\ link[First(Unused(link))].status = "none"
  <2>1. Unused(link) # {} /\ Unused(link) = {y \in Link : link[y].status = "none"}
    BY DEF IInv, TypeOK, signup, Unused
  <2>2. Unused(link) \in SUBSET Nat
    BY <2>1 DEF Link
  <2> QED BY <2>1, <2>2, FirstIsIn
<1>1. TypeOK'
  <2>1. open' \in [Slot -> Request \cup {Idle}] /\ begun' \in 0..MaxRequests
    BY AtOnceType DEF IInv, signup, Op, Session, Link
  <2> QED BY <2>1, <1>0 DEF IInv, TypeOK, signup, NewLink, LinkRow
<1>2. Reads'
  BY <1>0 DEF IInv, signup, AtOnce, NewLink, Idle, Reads, NeverCreated, Ops
<1>3. NeverCreated' /\ EndedIsOver'
  BY <1>0 DEF IInv, signup, AtOnce, NewLink, NeverCreated, EndedIsOver
<1>4. LinkHasUser' /\ LinkInv'
  BY <1>0 DEF IInv, signup, AtOnce, NewLink, TypeOK, Idle, LinkHasUser, LinkInv, OnePending, UsedAtMostOnce,
     LinksAsLeft, IsPending, Ops
<1>5. Locked'
  BY <1>0 DEF IInv, signup, AtOnce, NewLink, Idle, Locked, Accepting, At
<1>6. AcceptedAtMostOnce' /\ PendingIsNotActive'
  BY <1>0 DEF IInv, signup, AtOnce, NewLink, AcceptedAtMostOnce, PendingIsNotActive, Accepting
<1> QED BY <1>1, <1>2, <1>3, <1>4, <1>5, <1>6 DEF IInv

LEMMA EndUnderGuardKeeps == ASSUME IInv, NEW op \in {"SUSPEND", "TERMINATE"}, NEW u \in User, begun < MaxRequests, EndUnderGuard(op, u) PROVE IInv'
<1>0. session' \in [Session -> SessionRow] /\ NeverCreated' /\ EndedIsOver'
  BY EndingEnds DEF IInv, EndUnderGuard, Alive
<1>1. TypeOK'
  <2>1. open' \in [Slot -> Request \cup {Idle}] /\ begun' \in 0..MaxRequests
    BY AtOnceType DEF IInv, EndUnderGuard, Op, Session, Link
  <2> QED BY <2>1, <1>0 DEF IInv, TypeOK, EndUnderGuard, CanEnd, EndedStatus
<1>2. Reads'
  BY DEF IInv, EndUnderGuard, AtOnce, CanEnd, EndedStatus, Idle, Reads, NeverCreated, Ops
<1>3. NeverCreated' /\ EndedIsOver'
  BY <1>0
<1>4. LinkHasUser' /\ LinkInv'
  BY DEF IInv, EndUnderGuard, AtOnce, CanEnd, EndedStatus, Idle, LinkHasUser, LinkInv, OnePending, UsedAtMostOnce,
     LinksAsLeft, IsPending, Ops
<1>5. Locked'
  BY DEF IInv, EndUnderGuard, AtOnce, CanEnd, EndedStatus, Idle, Locked, Accepting, At
<1>6. AcceptedAtMostOnce' /\ PendingIsNotActive'
  BY DEF IInv, EndUnderGuard, AtOnce, CanEnd, EndedStatus, AcceptedAtMostOnce, PendingIsNotActive, Accepting
<1> QED BY <1>1, <1>2, <1>3, <1>4, <1>5, <1>6 DEF IInv

LEMMA refreshKeeps == ASSUME IInv, NEW x \in Session, begun < MaxRequests, refresh(x) PROVE IInv'
<1>1. TypeOK'
  <2>1. open' \in [Slot -> Request \cup {Idle}] /\ begun' \in 0..MaxRequests
    BY AtOnceType DEF IInv, refresh, Op, Session, Link
  <2>2. [session[x] EXCEPT !.access = TRUE] \in SessionRow
    <3>1. session[x] \in SessionRow
      BY DEF IInv, TypeOK
    <3> QED BY <3>1 DEF SessionRow
  <2>3. session' \in [Session -> SessionRow]
    BY <2>2 DEF IInv, TypeOK, refresh
  <2> QED BY <2>1, <2>3 DEF IInv, TypeOK, refresh
<1>2. Reads'
  BY DEF IInv, refresh, AtOnce, Idle, Reads, NeverCreated, Ops
<1>3. NeverCreated' /\ EndedIsOver'
  BY DEF IInv, refresh, AtOnce, NeverCreated, EndedIsOver
<1>4. LinkHasUser' /\ LinkInv'
  BY DEF IInv, refresh, AtOnce, Idle, LinkHasUser, LinkInv, OnePending, UsedAtMostOnce, LinksAsLeft, IsPending, Ops
<1>5. Locked'
  BY DEF IInv, refresh, AtOnce, Idle, Locked, Accepting, At
<1>6. AcceptedAtMostOnce' /\ PendingIsNotActive'
  BY DEF IInv, refresh, AtOnce, AcceptedAtMostOnce, PendingIsNotActive, Accepting
<1> QED BY <1>1, <1>2, <1>3, <1>4, <1>5, <1>6 DEF IInv

LEMMA CommitLoginKeeps == ASSUME IInv, NEW s \in Slot, CommitLogin(s) PROVE IInv'
<1>0. First(Unused(session)) \in Session /\ session[First(Unused(session))].status = "none"
  <2>1. Unused(session) # {} /\ Unused(session) = {y \in Session : session[y].status = "none"}
    BY DEF IInv, TypeOK, CommitLogin, createSession, Unused
  <2>2. Unused(session) \in SUBSET Nat
    BY <2>1 DEF Session
  <2> QED BY <2>1, <2>2, FirstIsIn
<1>1. TypeOK'
  <2>1. open' \in [Slot -> Request \cup {Idle}] /\ begun' \in 0..MaxRequests
    BY WritesType, ToType DEF IInv, CommitLogin, Ends, createSession, Op, Session, Link
  <2> QED BY <2>1, <1>0 DEF IInv, TypeOK, CommitLogin, Created, createSession, SessionRow, Request, Idle, At, Alive
<1>2. Reads'
  BY <1>0 DEF IInv, CommitLogin, createSession, Created, Writes, Ends, Idle, Reads, NeverCreated, Ops
<1>3. NeverCreated' /\ EndedIsOver'
  BY <1>0 DEF IInv, CommitLogin, createSession, Created, Writes, NeverCreated, EndedIsOver
<1>4. LinkHasUser' /\ LinkInv'
  BY <1>0 DEF IInv, CommitLogin, createSession, Created, Writes, Ends, Idle, LinkHasUser, LinkInv, OnePending,
     UsedAtMostOnce, LinksAsLeft, IsPending, Ops
<1>5. Locked'
  BY <1>0 DEF IInv, CommitLogin, createSession, Created, Writes, Ends, Idle, Locked, Accepting, At
<1>6. AcceptedAtMostOnce' /\ PendingIsNotActive'
  BY <1>0 DEF IInv, CommitLogin, createSession, Created, Writes, AcceptedAtMostOnce, PendingIsNotActive, Accepting
<1> QED BY <1>1, <1>2, <1>3, <1>4, <1>5, <1>6 DEF IInv

LEMMA CommitAuthenticateKeeps == ASSUME IInv, NEW s \in Slot, CommitAuthenticate(s) PROVE IInv'
<1>1. TypeOK'
  <2>1. open' \in [Slot -> Request \cup {Idle}] /\ begun' \in 0..MaxRequests
    BY WritesType, ToType DEF IInv, CommitAuthenticate, Ends, Op, Session, Link
  <2> QED BY <2>1 DEF IInv, TypeOK, CommitAuthenticate, Reads, Ops, At
<1>2. Reads'
  BY DEF IInv, CommitAuthenticate, Writes, Ends, Idle, Reads, NeverCreated, Ops
<1>3. NeverCreated' /\ EndedIsOver'
  BY DEF IInv, CommitAuthenticate, Writes, Reads, NeverCreated, EndedIsOver, Ops, At
<1>4. LinkHasUser' /\ LinkInv'
  BY DEF IInv, CommitAuthenticate, Writes, Ends, Idle, LinkHasUser, LinkInv, OnePending, UsedAtMostOnce, LinksAsLeft,
     IsPending, Ops
<1>5. Locked'
  BY DEF IInv, CommitAuthenticate, Writes, Ends, Idle, Locked, Accepting, At
<1>6. AcceptedAtMostOnce' /\ PendingIsNotActive'
  BY DEF IInv, CommitAuthenticate, Writes, AcceptedAtMostOnce, PendingIsNotActive, Accepting
<1> QED BY <1>1, <1>2, <1>3, <1>4, <1>5, <1>6 DEF IInv

LEMMA CommitLogoutKeeps == ASSUME IInv, NEW s \in Slot, CommitLogout(s) PROVE IInv'
<1>1. TypeOK'
  <2>1. open' \in [Slot -> Request \cup {Idle}] /\ begun' \in 0..MaxRequests
    BY WritesType, ToType DEF IInv, CommitLogout, Ends, Op, Session, Link
  <2> QED BY <2>1 DEF IInv, TypeOK, CommitLogout, Reads, SessionRow, Ops, At
<1>2. Reads'
  BY DEF IInv, CommitLogout, Writes, Ends, Idle, Reads, NeverCreated, Ops
<1>3. NeverCreated' /\ EndedIsOver'
  BY DEF IInv, CommitLogout, Writes, TypeOK, NeverCreated, EndedIsOver, Alive
<1>4. LinkHasUser' /\ LinkInv'
  BY DEF IInv, CommitLogout, Writes, Ends, Idle, LinkHasUser, LinkInv, OnePending, UsedAtMostOnce, LinksAsLeft,
     IsPending, Ops
<1>5. Locked'
  BY DEF IInv, CommitLogout, Writes, Ends, Idle, Locked, Accepting, At
<1>6. AcceptedAtMostOnce' /\ PendingIsNotActive'
  BY DEF IInv, CommitLogout, Writes, AcceptedAtMostOnce, PendingIsNotActive, Accepting
<1> QED BY <1>1, <1>2, <1>3, <1>4, <1>5, <1>6 DEF IInv

LEMMA EndSessionsKeeps == ASSUME IInv, NEW s \in Slot, EndSessions(s) PROVE IInv'
<1>0. session' \in [Session -> SessionRow] /\ NeverCreated' /\ EndedIsOver'
  BY EndingEnds DEF IInv, TypeOK, EndSessions, Alive, Request, Idle
<1>1. TypeOK'
  <2>1. open' \in [Slot -> Request \cup {Idle}] /\ begun' \in 0..MaxRequests
    BY WritesType, ToType DEF IInv, EndSessions, Op, Session, Link, Ops
  <2> QED BY <2>1, <1>0 DEF IInv, TypeOK, EndSessions
<1>2. Reads'
  BY DEF IInv, EndSessions, Writes, To, Idle, Reads, NeverCreated, Ops
<1>3. NeverCreated' /\ EndedIsOver'
  BY <1>0
<1>4. LinkHasUser' /\ LinkInv'
  BY DEF IInv, EndSessions, Writes, To, Idle, LinkHasUser, LinkInv, OnePending, UsedAtMostOnce, LinksAsLeft, IsPending,
     Ops
<1>5. Locked'
  BY DEF IInv, EndSessions, Writes, To, Idle, Locked, Accepting, At
<1>6. AcceptedAtMostOnce' /\ PendingIsNotActive'
  BY DEF IInv, EndSessions, Writes, AcceptedAtMostOnce, PendingIsNotActive, Accepting
<1> QED BY <1>1, <1>2, <1>3, <1>4, <1>5, <1>6 DEF IInv

LEMMA EndUserKeeps == ASSUME IInv, NEW s \in Slot, EndUser(s) PROVE IInv'
<1>1. TypeOK'
  <2>1. open' \in [Slot -> Request \cup {Idle}] /\ begun' \in 0..MaxRequests
    BY WritesType, ToType DEF IInv, EndUser, Ends, Op, Session, Link
  <2> QED BY <2>1 DEF IInv, TypeOK, EndUser, EndedStatus
<1>2. Reads'
  BY DEF IInv, EndUser, EndedStatus, Writes, Ends, Idle, Reads, NeverCreated, Ops
<1>3. NeverCreated' /\ EndedIsOver'
  BY DEF IInv, EndUser, EndedStatus, Writes, NeverCreated, EndedIsOver
<1>4. LinkHasUser' /\ LinkInv'
  BY DEF IInv, EndUser, EndedStatus, Writes, Ends, Idle, LinkHasUser, LinkInv, OnePending, UsedAtMostOnce, LinksAsLeft,
     IsPending, Ops
<1>5. Locked'
  BY DEF IInv, EndUser, EndedStatus, Writes, Ends, Idle, Locked, Accepting, At
<1>6. AcceptedAtMostOnce' /\ PendingIsNotActive'
  BY DEF IInv, EndUser, EndedStatus, Writes, AcceptedAtMostOnce, PendingIsNotActive, Accepting
<1> QED BY <1>1, <1>2, <1>3, <1>4, <1>5, <1>6 DEF IInv

LEMMA RevokeLinksKeeps == ASSUME IInv, NEW s \in Slot, RevokeLinks(s) PROVE IInv'
<1>1. TypeOK'
  <2>1. open' \in [Slot -> Request \cup {Idle}] /\ begun' \in 0..MaxRequests
    BY WritesType, ToType DEF IInv, RevokeLinks, Op, Session, Link, Ops
  <2> QED BY <2>1 DEF IInv, TypeOK, RevokeLinks, Revoking, LinksOf, Reads, SessionRow, LinkRow
<1>2. Reads'
  BY DEF IInv, RevokeLinks, Revoking, LinksOf, Writes, To, Idle, Reads, NeverCreated, Ops
<1>3. NeverCreated' /\ EndedIsOver'
  BY DEF IInv, RevokeLinks, Revoking, LinksOf, Writes, NeverCreated, EndedIsOver
<1>4. LinkHasUser' /\ LinkInv'
  BY DEF IInv, RevokeLinks, Revoking, LinksOf, Writes, To, Idle, LinkHasUser, LinkInv, OnePending, UsedAtMostOnce,
     LinksAsLeft, IsPending, Ops
<1>5. Locked'
  BY DEF IInv, RevokeLinks, Revoking, LinksOf, Writes, To, Idle, Locked, Accepting, At
<1>6. AcceptedAtMostOnce' /\ PendingIsNotActive'
  BY DEF IInv, RevokeLinks, Revoking, LinksOf, Writes, AcceptedAtMostOnce, PendingIsNotActive, Accepting
<1> QED BY <1>1, <1>2, <1>3, <1>4, <1>5, <1>6 DEF IInv

LEMMA CreateLinkKeeps == ASSUME IInv, NEW s \in Slot, CreateLink(s) PROVE IInv'
<1>0. First(Unused(link)) \in Link /\ link[First(Unused(link))].status = "none"
  <2>1. Unused(link) # {} /\ Unused(link) = {y \in Link : link[y].status = "none"}
    BY DEF IInv, TypeOK, CreateLink, Unused
  <2>2. Unused(link) \in SUBSET Nat
    BY <2>1 DEF Link
  <2> QED BY <2>1, <2>2, FirstIsIn
<1>1. TypeOK'
  <2>1. open' \in [Slot -> Request \cup {Idle}] /\ begun' \in 0..MaxRequests
    BY WritesType, ToType DEF IInv, CreateLink, Ends, Op, Session, Link
  <2> QED BY <2>1, <1>0 DEF IInv, TypeOK, CreateLink, NewLink, LinkRow, Request, Idle, Kind
<1>2. Reads'
  BY <1>0 DEF IInv, CreateLink, NewLink, Writes, Ends, Idle, Reads, NeverCreated, Ops
<1>3. NeverCreated' /\ EndedIsOver'
  BY <1>0 DEF IInv, CreateLink, NewLink, Writes, NeverCreated, EndedIsOver
<1>4. LinkHasUser' /\ LinkInv'
  BY <1>0 DEF IInv, CreateLink, NewLink, Writes, Ends, TypeOK, Request, Idle, Reads, LinkHasUser, LinkInv, OnePending,
     UsedAtMostOnce, LinksAsLeft, IsPending, Ops
<1>5. Locked'
  BY <1>0 DEF IInv, CreateLink, NewLink, Writes, Ends, Idle, Locked, Accepting, At
<1>6. AcceptedAtMostOnce' /\ PendingIsNotActive'
  BY <1>0 DEF IInv, CreateLink, NewLink, Writes, AcceptedAtMostOnce, PendingIsNotActive, Accepting
<1> QED BY <1>1, <1>2, <1>3, <1>4, <1>5, <1>6 DEF IInv

LEMMA CommitVerifyKeeps == ASSUME IInv, NEW s \in Slot, CommitVerify(s) PROVE IInv'
<1>used. /\ link' \in [Link -> LinkRow]
         /\ open[s].of \in Link
         /\ \A y \in Link :
              /\ link'[y].user = link[y].user /\ link'[y].kind = link[y].kind
              /\ link'[y].uses = link[y].uses + (IF y = open[s].of THEN 1 ELSE 0)
              /\ link'[y].status = "PENDING" => link[y].status = "PENDING" /\ y # open[s].of
  <2>1. open[s].of \in Link
    BY DEF IInv, Reads, Ops, CommitVerify, At
  <2>2. LinksOf(open[s].user, "verify", {"PENDING", "REVOKED", "EXPIRED"}) \in SUBSET Link
    BY DEF LinksOf
  <2> QED BY <2>1, <2>2, UsedLinks DEF IInv, CommitVerify
<1>1. TypeOK'
  <2>1. open' \in [Slot -> Request \cup {Idle}] /\ begun' \in 0..MaxRequests
    BY WritesType, ToType DEF IInv, CommitVerify, Ends, Op, Session, Link
  <2>2. link' \in [Link -> LinkRow]
    BY <1>used
  <2> QED BY <2>1, <2>2 DEF IInv, TypeOK, CommitVerify, Doubled, Request, Idle, At
<1>2. Reads'
  BY DEF IInv, CommitVerify, Used, Doubled, Revoking, LinksOf, Writes, Ends, Idle, Reads, NeverCreated, Ops
<1>3. NeverCreated' /\ EndedIsOver'
  BY DEF IInv, CommitVerify, Used, Doubled, Revoking, LinksOf, Writes, NeverCreated, EndedIsOver
<1>4. LinkHasUser' /\ LinkInv'
  <2>1. LinkHasUser'
    BY <1>used DEF IInv, LinkHasUser, IsPending, CommitVerify
  <2>2. ASSUME ~past'.doubled PROVE ~past.doubled /\ ~open[s].overtaken /\ link[open[s].of].uses = 0
    <3>1. ~past.doubled /\ ~open[s].overtaken
      BY <2>2 DEF IInv, TypeOK, CommitVerify, Doubled
    <3>2. s \in Ops /\ open[s].op = "VERIFY"
      BY DEF CommitVerify, At, Ops
    <3> QED BY <3>1, <3>2 DEF IInv, LinkInv, LinksAsLeft
  <2>3. ASSUME ~past'.doubled PROVE OnePending' /\ UsedAtMostOnce'
    BY <1>used, <2>2, <2>3 DEF IInv, TypeOK, LinkRow, LinkInv, OnePending, UsedAtMostOnce, IsPending
  <2>4. LinksAsLeft'
    BY DEF IInv, LinksAsLeft, CommitVerify, Ends, Writes, Ops, Idle
  <2> QED BY <2>1, <2>3, <2>4 DEF LinkInv
<1>5. Locked'
  BY DEF IInv, CommitVerify, Used, Doubled, Revoking, LinksOf, Writes, Ends, Idle, Locked, Accepting, At
<1>6. AcceptedAtMostOnce' /\ PendingIsNotActive'
  BY DEF IInv, CommitVerify, Used, Doubled, Revoking, LinksOf, Writes, AcceptedAtMostOnce, PendingIsNotActive, Accepting
<1> QED BY <1>1, <1>2, <1>3, <1>4, <1>5, <1>6 DEF IInv

LEMMA CommitResetKeeps == ASSUME IInv, NEW s \in Slot, CommitReset(s) PROVE IInv'
<1>used. /\ link' \in [Link -> LinkRow]
         /\ open[s].of \in Link
         /\ \A y \in Link :
              /\ link'[y].user = link[y].user /\ link'[y].kind = link[y].kind
              /\ link'[y].uses = link[y].uses + (IF y = open[s].of THEN 1 ELSE 0)
              /\ link'[y].status = "PENDING" => link[y].status = "PENDING" /\ y # open[s].of
  <2>1. open[s].of \in Link
    BY DEF IInv, Reads, Ops, CommitReset, At
  <2>2. {} \in SUBSET Link
    BY DEF LinksOf
  <2> QED BY <2>1, <2>2, UsedLinks DEF IInv, CommitReset
<1>0. session' \in [Session -> SessionRow] /\ NeverCreated' /\ EndedIsOver'
  BY EndingEnds DEF IInv, TypeOK, CommitReset, Request, Idle, At
<1>1. TypeOK'
  <2>1. open' \in [Slot -> Request \cup {Idle}] /\ begun' \in 0..MaxRequests
    BY WritesType, ToType DEF IInv, CommitReset, Ends, Op, Session, Link
  <2>2. link' \in [Link -> LinkRow]
    BY <1>used
  <2> QED BY <2>1, <2>2, <1>0 DEF IInv, TypeOK, CommitReset, Doubled
<1>2. Reads'
  BY DEF IInv, CommitReset, Used, Doubled, Revoking, Writes, Ends, Idle, Reads, NeverCreated, Ops
<1>3. NeverCreated' /\ EndedIsOver'
  BY <1>0
<1>4. LinkHasUser' /\ LinkInv'
  <2>1. LinkHasUser'
    BY <1>used DEF IInv, LinkHasUser, IsPending, CommitReset
  <2>2. ASSUME ~past'.doubled PROVE ~past.doubled /\ ~open[s].overtaken /\ link[open[s].of].uses = 0
    <3>1. ~past.doubled /\ ~open[s].overtaken
      BY <2>2 DEF IInv, TypeOK, CommitReset, Doubled
    <3>2. s \in Ops /\ open[s].op = "RESET"
      BY DEF CommitReset, At, Ops
    <3> QED BY <3>1, <3>2 DEF IInv, LinkInv, LinksAsLeft
  <2>3. ASSUME ~past'.doubled PROVE OnePending' /\ UsedAtMostOnce'
    BY <1>used, <2>2, <2>3 DEF IInv, TypeOK, LinkRow, LinkInv, OnePending, UsedAtMostOnce, IsPending
  <2>4. LinksAsLeft'
    BY DEF IInv, LinksAsLeft, CommitReset, Ends, Writes, Ops, Idle
  <2> QED BY <2>1, <2>3, <2>4 DEF LinkInv
<1>5. Locked'
  BY DEF IInv, CommitReset, Used, Doubled, Revoking, Writes, Ends, Idle, Locked, Accepting, At
<1>6. AcceptedAtMostOnce' /\ PendingIsNotActive'
  BY DEF IInv, CommitReset, Used, Doubled, Revoking, Writes, AcceptedAtMostOnce, PendingIsNotActive, Accepting
<1> QED BY <1>1, <1>2, <1>3, <1>4, <1>5, <1>6 DEF IInv

LEMMA WriteInvitationKeeps == ASSUME IInv, NEW s \in Slot, WriteInvitation(s) PROVE IInv'
<1>1. TypeOK'
  <2>1. open' \in [Slot -> Request \cup {Idle}] /\ begun' \in 0..MaxRequests
    BY WritesType, ToType DEF IInv, WriteInvitation, Op, Session, Link, Ops
  <2>2. open[s] \in Request /\ open[s].user \in User
    BY DEF IInv, TypeOK, WriteInvitation, Request, Idle
  <2>3. invitation' \in [User -> InvitationRow]
    <3>1. [status |-> "PENDING", expired |-> FALSE, mail |-> "PENDING", issue |-> invitation[open[s].user].issue + 1, accepts |-> 0] \in InvitationRow
      BY <2>2 DEF IInv, TypeOK, InvitationRow
    <3> QED BY <2>2, <3>1 DEF IInv, TypeOK, WriteInvitation
  <2>4. past' \in [crossed : BOOLEAN, doubled : BOOLEAN]
    BY DEF IInv, TypeOK, WriteInvitation
  <2> QED BY <2>1, <2>3, <2>4 DEF IInv, TypeOK, WriteInvitation
<1>2. Reads'
  BY DEF IInv, WriteInvitation, LockFree, Writes, To, Idle, Reads, NeverCreated, Ops
<1>3. NeverCreated' /\ EndedIsOver'
  BY DEF IInv, WriteInvitation, LockFree, Writes, NeverCreated, EndedIsOver
<1>4. LinkHasUser' /\ LinkInv'
  BY DEF IInv, WriteInvitation, LockFree, Writes, To, Idle, LinkHasUser, LinkInv, OnePending, UsedAtMostOnce,
     LinksAsLeft, IsPending, Ops
<1>5. Locked'
  BY DEF IInv, WriteInvitation, LockFree, Writes, To, Idle, Locked, Accepting, At
<1>6. AcceptedAtMostOnce' /\ PendingIsNotActive'
  <2>1. open[s].user \in User
    BY DEF IInv, TypeOK, WriteInvitation, Request, Idle
  <2>2. invitation' = [invitation EXCEPT ![open[s].user] =
          [status |-> "PENDING", expired |-> FALSE, mail |-> "PENDING", issue |-> invitation[open[s].user].issue + 1, accepts |-> 0]]
    BY <2>1 DEF IInv, WriteInvitation
  <2>3. AcceptedAtMostOnce'
    BY <2>1, <2>2 DEF IInv, AcceptedAtMostOnce
  <2>4. open[s].saw \in {"none", "NEW"}
    BY DEF IInv, Reads, Ops, WriteInvitation
  <2>5. status' = status /\ (~past'.crossed => ~past.crossed /\ status[open[s].user] = open[s].saw)
    BY DEF IInv, TypeOK, WriteInvitation
  <2>6. PendingIsNotActive'
    BY <2>1, <2>2, <2>4, <2>5 DEF IInv, PendingIsNotActive
  <2> QED BY <2>3, <2>6
<1> QED BY <1>1, <1>2, <1>3, <1>4, <1>5, <1>6 DEF IInv

LEMMA AttemptEmailKeeps == ASSUME IInv, NEW s \in Slot, AttemptEmail(s) PROVE IInv'
<1>1. TypeOK'
  <2>1. open' \in [Slot -> Request \cup {Idle}] /\ begun' \in 0..MaxRequests
    BY WritesType, ToType DEF IInv, AttemptEmail, Ends, Op, Session, Link
  <2>2. PICK m \in {"SENT", "FAILED", "SKIPPED"} : invitation' = [invitation EXCEPT ![open[s].user].mail = m]
    BY DEF AttemptEmail
  <2>3. \A i \in InvitationRow : [i EXCEPT !.mail = m] \in InvitationRow
    BY DEF InvitationRow
  <2>4. invitation' \in [User -> InvitationRow]
    BY <2>2, <2>3 DEF IInv, TypeOK
  <2> QED BY <2>1, <2>4 DEF IInv, TypeOK, AttemptEmail
<1>2. Reads'
  BY DEF IInv, AttemptEmail, LockFree, Writes, Ends, Idle, Reads, NeverCreated, Ops
<1>3. NeverCreated' /\ EndedIsOver'
  BY DEF IInv, AttemptEmail, LockFree, Writes, NeverCreated, EndedIsOver
<1>4. LinkHasUser' /\ LinkInv'
  BY DEF IInv, AttemptEmail, LockFree, Writes, Ends, Idle, LinkHasUser, LinkInv, OnePending, UsedAtMostOnce,
     LinksAsLeft, IsPending, Ops
<1>5. Locked'
  BY DEF IInv, AttemptEmail, LockFree, Writes, Ends, Idle, Locked, Accepting, At
<1>6. AcceptedAtMostOnce' /\ PendingIsNotActive'
  BY DEF IInv, AttemptEmail, LockFree, Writes, AcceptedAtMostOnce, PendingIsNotActive, Accepting
<1> QED BY <1>1, <1>2, <1>3, <1>4, <1>5, <1>6 DEF IInv

LEMMA CommitAcceptKeeps == ASSUME IInv, NEW s \in Slot, CommitAccept(s) PROVE IInv'
<1>1. TypeOK'
  <2>1. open' \in [Slot -> Request \cup {Idle}] /\ begun' \in 0..MaxRequests
    BY WritesType, ToType DEF IInv, CommitAccept, Op, Session, Link, Ops, At
  <2> QED BY <2>1 DEF IInv, TypeOK, CommitAccept, InvitationRow, Request, Idle, At
<1>2. Reads'
  BY DEF IInv, CommitAccept, Writes, To, Idle, Reads, NeverCreated, Ops
<1>3. NeverCreated' /\ EndedIsOver'
  BY DEF IInv, CommitAccept, Writes, NeverCreated, EndedIsOver
<1>4. LinkHasUser' /\ LinkInv'
  BY DEF IInv, CommitAccept, Writes, To, Idle, LinkHasUser, LinkInv, OnePending, UsedAtMostOnce, LinksAsLeft, IsPending,
     Ops
<1>5. Locked'
  BY DEF IInv, CommitAccept, Writes, To, TypeOK, Request, Idle, Locked, Accepting, At
<1>6. AcceptedAtMostOnce' /\ PendingIsNotActive'
  BY DEF IInv, CommitAccept, Writes, TypeOK, AcceptedAtMostOnce, PendingIsNotActive, Locked, Accepting
<1> QED BY <1>1, <1>2, <1>3, <1>4, <1>5, <1>6 DEF IInv

LEMMA SessionOfAcceptKeeps == ASSUME IInv, NEW s \in Slot, SessionOfAccept(s) PROVE IInv'
<1>0. First(Unused(session)) \in Session /\ session[First(Unused(session))].status = "none"
  <2>1. Unused(session) # {} /\ Unused(session) = {y \in Session : session[y].status = "none"}
    BY DEF IInv, TypeOK, SessionOfAccept, createSession, Unused
  <2>2. Unused(session) \in SUBSET Nat
    BY <2>1 DEF Session
  <2> QED BY <2>1, <2>2, FirstIsIn
<1>1. TypeOK'
  <2>1. open' \in [Slot -> Request \cup {Idle}] /\ begun' \in 0..MaxRequests
    BY WritesType, ToType DEF IInv, SessionOfAccept, Ends, createSession, Op, Session, Link
  <2> QED BY <2>1, <1>0 DEF IInv, TypeOK, SessionOfAccept, Created, createSession, SessionRow, Request, Idle, At, Alive
<1>2. Reads'
  BY <1>0 DEF IInv, SessionOfAccept, createSession, Created, Writes, Ends, Idle, Reads, NeverCreated, Ops
<1>3. NeverCreated' /\ EndedIsOver'
  BY <1>0 DEF IInv, SessionOfAccept, createSession, Created, Writes, NeverCreated, EndedIsOver
<1>4. LinkHasUser' /\ LinkInv'
  BY <1>0 DEF IInv, SessionOfAccept, createSession, Created, Writes, Ends, Idle, LinkHasUser, LinkInv, OnePending,
     UsedAtMostOnce, LinksAsLeft, IsPending, Ops
<1>5. Locked'
  BY <1>0 DEF IInv, SessionOfAccept, createSession, Created, Writes, Ends, Idle, Locked, Accepting, At
<1>6. AcceptedAtMostOnce' /\ PendingIsNotActive'
  BY <1>0 DEF IInv, SessionOfAccept, createSession, Created, Writes, AcceptedAtMostOnce, PendingIsNotActive, Accepting
<1> QED BY <1>1, <1>2, <1>3, <1>4, <1>5, <1>6 DEF IInv

LEMMA FailKeeps == ASSUME IInv, NEW s \in Slot, Fail(s) PROVE IInv'
<1>1. TypeOK'
  BY DEF IInv, Fail, rows, TypeOK
<1>2. Reads'
  BY DEF IInv, Fail, rows, Idle, Reads, NeverCreated, Ops
<1>3. NeverCreated' /\ EndedIsOver'
  BY DEF IInv, Fail, rows, NeverCreated, EndedIsOver
<1>4. LinkHasUser' /\ LinkInv'
  BY DEF IInv, Fail, rows, Idle, LinkHasUser, LinkInv, OnePending, UsedAtMostOnce, LinksAsLeft, IsPending, Ops
<1>5. Locked'
  BY DEF IInv, Fail, rows, Idle, Locked, Accepting, At
<1>6. AcceptedAtMostOnce' /\ PendingIsNotActive'
  BY DEF IInv, Fail, rows, AcceptedAtMostOnce, PendingIsNotActive, Accepting
<1> QED BY <1>1, <1>2, <1>3, <1>4, <1>5, <1>6 DEF IInv

LEMMA AccessExpiresKeeps == ASSUME IInv, NEW x \in Session, AccessExpires(x) PROVE IInv'
<1>1. TypeOK'
  <2>1. session' \in [Session -> SessionRow]
    <3>1. session[x] \in SessionRow
      BY DEF IInv, TypeOK
    <3>2. [session[x] EXCEPT !.access = FALSE] \in SessionRow
      BY <3>1 DEF SessionRow
    <3> QED BY <3>2 DEF IInv, TypeOK, AccessExpires
  <2> QED BY <2>1 DEF IInv, TypeOK, AccessExpires
<1>2. Reads'
  BY DEF IInv, AccessExpires, Usable, Reads, NeverCreated, Ops
<1>3. NeverCreated' /\ EndedIsOver'
  BY DEF IInv, AccessExpires, Usable, NeverCreated, EndedIsOver
<1>4. LinkHasUser' /\ LinkInv'
  BY DEF IInv, AccessExpires, Usable, LinkHasUser, LinkInv, OnePending, UsedAtMostOnce, LinksAsLeft, IsPending, Ops
<1>5. Locked'
  BY DEF IInv, AccessExpires, Usable, Locked, Accepting, At
<1>6. AcceptedAtMostOnce' /\ PendingIsNotActive'
  BY DEF IInv, AccessExpires, Usable, AcceptedAtMostOnce, PendingIsNotActive, Accepting
<1> QED BY <1>1, <1>2, <1>3, <1>4, <1>5, <1>6 DEF IInv

LEMMA LinkExpiresKeeps == ASSUME IInv, NEW x \in Link, LinkExpires(x) PROVE IInv'
<1>1. TypeOK'
  <2>1. link' \in [Link -> LinkRow]
    BY DEF IInv, TypeOK, LinkExpires, LinkRow
  <2> QED BY <2>1 DEF IInv, TypeOK, LinkExpires
<1>2. Reads'
  BY DEF IInv, LinkExpires, Reads, NeverCreated, Ops
<1>3. NeverCreated' /\ EndedIsOver'
  BY DEF IInv, LinkExpires, NeverCreated, EndedIsOver
<1>4. LinkHasUser' /\ LinkInv'
  BY DEF IInv, LinkExpires, LinkHasUser, LinkInv, OnePending, UsedAtMostOnce, LinksAsLeft, IsPending, Ops
<1>5. Locked'
  BY DEF IInv, LinkExpires, Locked, Accepting, At
<1>6. AcceptedAtMostOnce' /\ PendingIsNotActive'
  BY DEF IInv, LinkExpires, AcceptedAtMostOnce, PendingIsNotActive, Accepting
<1> QED BY <1>1, <1>2, <1>3, <1>4, <1>5, <1>6 DEF IInv

LEMMA InvitationExpiresKeeps == ASSUME IInv, NEW u \in User, InvitationExpires(u) PROVE IInv'
<1>1. TypeOK'
  <2>1. invitation' \in [User -> InvitationRow]
    <3>1. invitation[u] \in InvitationRow
      BY DEF IInv, TypeOK
    <3>2. [invitation[u] EXCEPT !.expired = TRUE] \in InvitationRow
      BY <3>1 DEF InvitationRow
    <3> QED BY <3>2 DEF IInv, TypeOK, InvitationExpires
  <2> QED BY <2>1 DEF IInv, TypeOK, InvitationExpires
<1>2. Reads'
  BY DEF IInv, InvitationExpires, Reads, NeverCreated, Ops
<1>3. NeverCreated' /\ EndedIsOver'
  BY DEF IInv, InvitationExpires, NeverCreated, EndedIsOver
<1>4. LinkHasUser' /\ LinkInv'
  BY DEF IInv, InvitationExpires, LinkHasUser, LinkInv, OnePending, UsedAtMostOnce, LinksAsLeft, IsPending, Ops
<1>5. Locked'
  BY DEF IInv, InvitationExpires, Locked, Accepting, At
<1>6. AcceptedAtMostOnce' /\ PendingIsNotActive'
  BY DEF IInv, InvitationExpires, AcceptedAtMostOnce, PendingIsNotActive, Accepting
<1> QED BY <1>1, <1>2, <1>3, <1>4, <1>5, <1>6 DEF IInv

-----------------------------------------------------------------------------
LEMMA NextKeeps == IInv /\ [Next]_vars => IInv'
<1> SUFFICES ASSUME IInv, [Next]_vars PROVE IInv'
  OBVIOUS
<1>1. ASSUME NEW s \in Slot, begun < MaxRequests, Begins(s) PROVE IInv'
  BY <1>1, BeginLoginKeeps, BeginResendKeeps, BeginForgotKeeps, BeginInviteKeeps, BeginAcceptKeeps, BeginEndKeeps,
     BeginAuthenticateKeeps, BeginLogoutKeeps, BeginRevokeKeeps, BeginUseKeeps DEF Begins
<1>2. ASSUME begun < MaxRequests, AtOnces PROVE IInv'
  BY <1>2, signupKeeps, EndUnderGuardKeeps, refreshKeeps DEF AtOnces
<1>3. ASSUME NEW s \in Slot, Commits(s) PROVE IInv'
  BY <1>3, CommitLoginKeeps, CommitAuthenticateKeeps, CommitLogoutKeeps, EndSessionsKeeps, EndUserKeeps,
     RevokeLinksKeeps, CreateLinkKeeps, CommitVerifyKeeps, CommitResetKeeps, WriteInvitationKeeps, AttemptEmailKeeps,
     CommitAcceptKeeps, SessionOfAcceptKeeps DEF Commits
<1>4. CASE UNCHANGED vars
  <2>1. TypeOK' /\ Reads' /\ NeverCreated' /\ EndedIsOver'
    BY <1>4 DEF vars, rows, IInv, TypeOK, Reads, NeverCreated, EndedIsOver, Ops
  <2>2. LinkHasUser' /\ LinkInv'
    BY <1>4 DEF vars, rows, IInv, LinkHasUser, LinkInv, OnePending, UsedAtMostOnce, LinksAsLeft, IsPending, Ops
  <2>3. Locked' /\ AcceptedAtMostOnce' /\ PendingIsNotActive'
    BY <1>4 DEF vars, rows, IInv, Locked, Accepting, At, AcceptedAtMostOnce, PendingIsNotActive
  <2> QED BY <2>1, <2>2, <2>3 DEF IInv
<1> QED BY <1>1, <1>2, <1>3, <1>4, FailKeeps, AccessExpiresKeeps, LinkExpiresKeeps, InvitationExpiresKeeps DEF Next

\* IInv holds at every moment.
THEOREM Invariance == Spec => []IInv
BY InitIInv, NextKeeps, PTL DEF Spec

\* Every reachable state has its type: the rows of users, sessions, links and invitations,
\* and what each open request has read.
THEOREM TypeCorrect == Spec => []TypeOK
<1>1. IInv => TypeOK
  BY DEF IInv
<1> QED BY <1>1, Invariance, PTL

\* No request that was under way brings back a session that was logged out or revoked, or
\* ended with its user or by a password reset; authMiddleware's late activation is the one
\* that could, and it never finds a CREATED session.
THEOREM EndedStaysOver == Spec => []EndedIsOver
<1>1. IInv => EndedIsOver
  BY DEF IInv
<1> QED BY <1>1, Invariance, PTL

\* Until two requests for a link or two uses of one overlap, a user has one usable link of
\* a kind at most and no link is used twice, although revoking the old links, creating the
\* new one, finding a link and marking it are separate steps.
THEOREM LinksAreUsedOnce == Spec => []LinksWorkOnce
<1>1. ASSUME IInv, ~past.doubled, NEW u \in User, NEW k \in {"verify", "reset"}
      PROVE  Cardinality(LinksOf(u, k, {"PENDING"})) <= 1
  <2>1. CASE LinksOf(u, k, {"PENDING"}) = {}
    BY <2>1, FS_EmptySet
  <2>2. CASE LinksOf(u, k, {"PENDING"}) # {}
    <3>1. PICK x \in LinksOf(u, k, {"PENDING"}) : TRUE
      BY <2>2
    <3>2. LinksOf(u, k, {"PENDING"}) = {x}
      BY <1>1, <3>1 DEF IInv, LinkInv, OnePending, IsPending, LinksOf
    <3> QED BY <3>2, FS_Singleton
  <2> QED BY <2>1, <2>2
<1>2. ASSUME IInv, ~past.doubled PROVE \A x \in Link : link[x].uses <= 1
  BY <1>2 DEF IInv, LinkInv, UsedAtMostOnce
<1>3. IInv => LinksWorkOnce
  BY <1>1, <1>2 DEF LinksWorkOnce
<1> QED BY <1>3, Invariance, PTL

\* No issue of an invitation is accepted twice, and a pending one is not for an active user
\* unless the invitation crossed an acceptance: the row lock and the states it protects are
\* enough for any number of requests.
THEOREM InvitationsAreAcceptedOnce == Spec => []InvitedOnce
<1>1. IInv => InvitedOnce
  BY DEF IInv, AcceptedAtMostOnce, PendingIsNotActive, InvitedOnce
<1> QED BY <1>1, Invariance, PTL
=============================================================================
