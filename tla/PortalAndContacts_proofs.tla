---------------------- MODULE PortalAndContacts_proofs ----------------------
(***************************************************************************)
(* Proofs about the two components that deal with people outside the firm: *)
(* PortalAccess, the clients in the portal, first; LeadContacts, the       *)
(* contacts of a lead and their telephone numbers, second.                 *)
(*                                                                         *)
(* Theorems about PortalAccess for any number of requests, items, phones,  *)
(* staff, sessions and changes.  What makes them inductive is what an open *)
(* verification knows: the portal it found is still there and the phone it *)
(* matched still the case's, but for what it has missed, and so it is for  *)
(* the session it makes, until something ends that session.                *)
(***************************************************************************)
EXTENDS PortalAccess, LeadContacts, FiniteSetTheorems, WellFoundedInduction, TLAPS

\* The change request an open approval or rejection has read is there.
ChangeIsThere == \A t \in Txn : tx[t].pc \in {"approve", "reject"} => change[tx[t].c] # Unused

\* What a verification has found still holds, but for what it has missed.
ProofHolds ==
    \A t \in Txn : At(t, "verify") =>
        /\ "portal" \notin tx[t].missed => docCase.enabled
        /\ tx[t].missed \cap {"contact", "confirmation"} = {} => tx[t].phone = docCase.phone

\* So does what a live session rests on.
SessionHolds ==
    \A s \in Session : Live(s) =>
        /\ "portal" \notin session[s].missed => docCase.enabled
        /\ session[s].missed \cap {"contact", "confirmation"} = {} => session[s].phone = docCase.phone

IInv == TypeOK /\ ChangeIsThere /\ ProofHolds /\ SessionHolds /\ ClosedIsDark

-----------------------------------------------------------------------------
LEMMA InitIInv == Init => IInv
<1> SUFFICES ASSUME Init PROVE IInv
  OBVIOUS
<1>1. TypeOK
  BY AttemptAssumption DEF Init, TypeOK, DocCase, Status
<1>2. ChangeIsThere /\ ProofHolds /\ SessionHolds /\ ClosedIsDark
  BY DEF Init, ChangeIsThere, ProofHolds, SessionHolds, ClosedIsDark, At, Live, Idle, Unused
<1> QED BY <1>1, <1>2 DEF IInv

LEMMA MissesType ==
  ASSUME TypeOK, NEW t \in Txn, NEW what \in SUBSET Missable
  PROVE  Misses(t, what) \in Work \cup {Idle}
<1>1. tx[t] \in Work \cup {Idle}
  BY DEF TypeOK
<1>2. CASE At(t, "verify")
  <2>1. tx[t] \in [pc : {"verify"}, phone : Phone, missed : SUBSET Missable]
    BY <1>1, <1>2 DEF Work, Idle, At
  <2>2. [tx[t] EXCEPT !.missed = @ \cup what] \in [pc : {"verify"}, phone : Phone, missed : SUBSET Missable]
    BY <2>1
  <2> QED BY <1>2, <2>2 DEF Misses, Work
<1> QED BY <1>1, <1>2 DEF Misses

LEMMA PassesType ==
  ASSUME TypeOK, NEW what \in SUBSET Missable, Passes(what)
  PROVE  tx' \in [Txn -> Work \cup {Idle}]
BY MissesType DEF Passes

LEMMA FinishesType ==
  ASSUME TypeOK, NEW t \in Txn, NEW what \in SUBSET Missable, Finishes(t, what)
  PROVE  tx' \in [Txn -> Work \cup {Idle}]
BY MissesType DEF Finishes

\* A request goes on as it was, but that a verification misses more.
GoesOn(u, what) ==
    /\ tx'[u].pc \in {"approve", "reject"} => tx'[u] = tx[u]
    /\ tx'[u].pc = "verify" => /\ At(u, "verify")
                              /\ tx'[u].phone = tx[u].phone
                              /\ tx'[u].missed = tx[u].missed \cup what

LEMMA MissesGoesOn ==
  ASSUME TypeOK, NEW u \in Txn, NEW what, tx'[u] = Misses(u, what) \/ tx'[u] = Idle
  PROVE  GoesOn(u, what)
<1>1. tx[u] \in Work \cup {Idle}
  BY DEF TypeOK
<1>2. CASE tx'[u] = Idle
  BY <1>2 DEF GoesOn, Idle
<1>3. CASE tx'[u] = Misses(u, what) /\ At(u, "verify")
  <2>1. tx[u] \in [pc : {"verify"}, phone : Phone, missed : SUBSET Missable]
    BY <1>1, <1>3 DEF Work, Idle, At
  <2> QED BY <1>3, <2>1 DEF Misses, GoesOn, At
<1>4. CASE tx'[u] = Misses(u, what) /\ ~At(u, "verify")
  BY <1>4 DEF Misses, GoesOn, At
<1> QED BY <1>2, <1>3, <1>4

LEMMA PassesGoesOn ==
  ASSUME TypeOK, NEW what, Passes(what)
  PROVE  \A u \in Txn : GoesOn(u, what)
BY MissesGoesOn DEF Passes

LEMMA FinishesGoesOn ==
  ASSUME TypeOK, NEW t \in Txn, NEW what, Finishes(t, what)
  PROVE  \A u \in Txn : GoesOn(u, what)
BY MissesGoesOn DEF Finishes

LEMMA BeginSetVisibilityKeeps ==
  ASSUME IInv, NEW t \in Txn, NEW i \in Item, NEW pc \in {"publish", "unpublish"}, BeginSetVisibility(t, i, pc)
  PROVE  IInv'
<1>1. TypeOK'
  BY DEF IInv, BeginSetVisibility, Do, TypeOK, DocCase, Status, Work, Idle, Live
<1>2. ChangeIsThere'
  BY DEF IInv, BeginSetVisibility, Do, ChangeIsThere
<1>3. ProofHolds'
  BY DEF IInv, BeginSetVisibility, Do, At, ProofHolds
<1>4. SessionHolds'
  BY DEF IInv, BeginSetVisibility, Do, SessionHolds, Live
<1>5. ClosedIsDark'
  BY DEF IInv, BeginSetVisibility, Do, ClosedIsDark
<1> QED BY <1>1, <1>2, <1>3, <1>4, <1>5 DEF IInv

LEMMA CommitSetVisibilityKeeps ==
  ASSUME IInv, NEW t \in Txn, CommitSetVisibility(t)
  PROVE  IInv'
<1>0. \A u \in Txn : GoesOn(u, Darkens)
  BY FinishesGoesOn DEF IInv, CommitSetVisibility
<1>1. TypeOK'
  <2>1. tx' \in [Txn -> Work \cup {Idle}]
    BY FinishesType DEF IInv, Missable, Darkens, CommitSetVisibility
  <2>2. tx[t].item \in Item
    BY DEF IInv, TypeOK, CommitSetVisibility, Work, Idle
  <2>3. Revoked \in [Session -> PortalSession \cup {Unused}]
    BY DEF IInv, TypeOK, Revoked, Ended, Live, PortalSession, Unused
  <2>4. docCase' \in DocCase /\ session' \in [Session -> PortalSession \cup {Unused}]
    BY <2>3 DEF IInv, TypeOK, CommitSetVisibility, ReconcilePortalActivation, EnablePortal, DisablePortal, LeavePortal,
       DocCase
  <2> QED BY <2>1, <2>2, <2>4 DEF IInv, TypeOK, CommitSetVisibility
<1>2. ChangeIsThere'
  BY <1>0 DEF IInv, CommitSetVisibility, ReconcilePortalActivation, EnablePortal, Enables, DisablePortal, LeavePortal,
     Revoked, Ended, GoesOn, ChangeIsThere
<1>3. ProofHolds'
  BY <1>0 DEF IInv, CommitSetVisibility, ReconcilePortalActivation, EnablePortal, Enables, DisablePortal, LeavePortal,
     Revoked, Ended, GoesOn, TypeOK, DocCase, Status, Darkens, At, ProofHolds
<1>4. SessionHolds'
  BY DEF IInv, CommitSetVisibility, ReconcilePortalActivation, EnablePortal, Enables, DisablePortal, LeavePortal,
     Revoked, Ended, TypeOK, DocCase, Status, PortalSession, Unused, SessionHolds, Live
<1>5. ClosedIsDark'
  BY DEF IInv, CommitSetVisibility, ReconcilePortalActivation, EnablePortal, Enables, DisablePortal, LeavePortal,
     Revoked, Ended, TypeOK, DocCase, Status, ClosedIsDark
<1> QED BY <1>1, <1>2, <1>3, <1>4, <1>5 DEF IInv

LEMMA ActivatePortalKeeps ==
  ASSUME IInv, ActivatePortal
  PROVE  IInv'
<1>1. TypeOK'
  BY DEF IInv, ActivatePortal, Enables, EnablePortal, TypeOK, DocCase, Status, Live
<1>2. ChangeIsThere'
  BY DEF IInv, ActivatePortal, Enables, EnablePortal, ChangeIsThere
<1>3. ProofHolds'
  BY DEF IInv, ActivatePortal, Enables, EnablePortal, At, ProofHolds
<1>4. SessionHolds'
  BY DEF IInv, ActivatePortal, Enables, EnablePortal, SessionHolds, Live
<1>5. ClosedIsDark'
  BY DEF IInv, ActivatePortal, Enables, EnablePortal, ClosedIsDark
<1> QED BY <1>1, <1>2, <1>3, <1>4, <1>5 DEF IInv

LEMMA BeginVerifyKeeps ==
  ASSUME IInv, NEW t \in Txn, NEW p \in Phone, BeginVerify(t, p)
  PROVE  IInv'
<1>1. TypeOK'
  BY DEF IInv, BeginVerify, Do, Refused, isPortalAccessible, TypeOK, Work, Idle, Live
<1>2. ChangeIsThere'
  BY DEF IInv, BeginVerify, Do, Refused, isPortalAccessible, ChangeIsThere
<1>3. ProofHolds'
  BY DEF IInv, BeginVerify, Do, Refused, isPortalAccessible, At, ProofHolds
<1>4. SessionHolds'
  BY DEF IInv, BeginVerify, Do, Refused, isPortalAccessible, SessionHolds, Live
<1>5. ClosedIsDark'
  BY DEF IInv, BeginVerify, Do, Refused, isPortalAccessible, ClosedIsDark
<1> QED BY <1>1, <1>2, <1>3, <1>4, <1>5 DEF IInv

LEMMA FailVerifyKeeps ==
  ASSUME IInv, NEW p \in Phone, FailVerify(p)
  PROVE  IInv'
<1>1. TypeOK'
  BY PhoneAssumption, AttemptAssumption DEF IInv, FailVerify, TypeOK, Live
<1>2. ChangeIsThere'
  BY DEF IInv, FailVerify, ChangeIsThere
<1>3. ProofHolds'
  BY DEF IInv, FailVerify, At, ProofHolds
<1>4. SessionHolds'
  BY DEF IInv, FailVerify, SessionHolds, Live
<1>5. ClosedIsDark'
  BY DEF IInv, FailVerify, ClosedIsDark
<1> QED BY <1>1, <1>2, <1>3, <1>4, <1>5 DEF IInv

LEMMA CreateSessionKeeps ==
  ASSUME IInv, NEW t \in Txn, CreateSession(t)
  PROVE  IInv'
<1>1. TypeOK'
  BY DEF IInv, CreateSession, Do, TypeOK, PortalSession, Work, Idle, At, Live
<1>2. ChangeIsThere'
  BY DEF IInv, CreateSession, Do, Idle, ChangeIsThere
<1>3. ProofHolds'
  BY DEF IInv, CreateSession, Do, Idle, At, ProofHolds
<1>4. SessionHolds'
  BY DEF IInv, CreateSession, Do, ProofHolds, SessionHolds, Live
<1>5. ClosedIsDark'
  BY DEF IInv, CreateSession, Do, ClosedIsDark
<1> QED BY <1>1, <1>2, <1>3, <1>4, <1>5 DEF IInv

LEMMA EndSessionKeeps ==
  ASSUME IInv, NEW s \in Session, EndSession(s)
  PROVE  IInv'
<1>1. TypeOK'
  BY DEF IInv, EndSession, TypeOK, PortalSession, Unused, Ended, Live
<1>2. ChangeIsThere'
  BY DEF IInv, EndSession, ChangeIsThere
<1>3. ProofHolds'
  BY DEF IInv, EndSession, At, ProofHolds
<1>4. SessionHolds'
  BY DEF IInv, EndSession, SessionHolds, Live, Ended
<1>5. ClosedIsDark'
  BY DEF IInv, EndSession, ClosedIsDark
<1> QED BY <1>1, <1>2, <1>3, <1>4, <1>5 DEF IInv

LEMMA WindowPassesKeeps ==
  ASSUME IInv, WindowPasses
  PROVE  IInv'
<1>1. TypeOK'
  BY PhoneAssumption, AttemptAssumption DEF IInv, WindowPasses, TypeOK, Live
<1>2. ChangeIsThere'
  BY DEF IInv, WindowPasses, ChangeIsThere
<1>3. ProofHolds'
  BY DEF IInv, WindowPasses, At, ProofHolds
<1>4. SessionHolds'
  BY DEF IInv, WindowPasses, SessionHolds, Live
<1>5. ClosedIsDark'
  BY DEF IInv, WindowPasses, ClosedIsDark
<1> QED BY <1>1, <1>2, <1>3, <1>4, <1>5 DEF IInv

LEMMA RevokeSessionsKeeps ==
  ASSUME IInv, RevokeSessions
  PROVE  IInv'
<1>1. TypeOK'
  BY DEF IInv, RevokeSessions, Revoked, Ended, TypeOK, PortalSession, Unused, Live
<1>2. ChangeIsThere'
  BY DEF IInv, RevokeSessions, Revoked, Ended, ChangeIsThere
<1>3. ProofHolds'
  BY DEF IInv, RevokeSessions, Revoked, Ended, At, ProofHolds
<1>4. SessionHolds'
  BY DEF IInv, RevokeSessions, Revoked, Ended, SessionHolds, Live
<1>5. ClosedIsDark'
  BY DEF IInv, RevokeSessions, Revoked, Ended, ClosedIsDark
<1> QED BY <1>1, <1>2, <1>3, <1>4, <1>5 DEF IInv

LEMMA BeginRequestChangeKeeps ==
  ASSUME IInv, NEW t \in Txn, NEW by \in User, NEW newPhone \in Phone, BeginRequestChange(t, by, newPhone)
  PROVE  IInv'
<1>1. TypeOK'
  BY DEF IInv, BeginRequestChange, Do, TypeOK, Work, Idle, Live
<1>2. ChangeIsThere'
  BY DEF IInv, BeginRequestChange, Do, ChangeIsThere
<1>3. ProofHolds'
  BY DEF IInv, BeginRequestChange, Do, At, ProofHolds
<1>4. SessionHolds'
  BY DEF IInv, BeginRequestChange, Do, SessionHolds, Live
<1>5. ClosedIsDark'
  BY DEF IInv, BeginRequestChange, Do, ClosedIsDark
<1> QED BY <1>1, <1>2, <1>3, <1>4, <1>5 DEF IInv

LEMMA CommitRequestChangeKeeps ==
  ASSUME IInv, NEW t \in Txn, CommitRequestChange(t)
  PROVE  IInv'
<1>1. TypeOK'
  <2>1. tx' \in [Txn -> Work \cup {Idle}]
    BY DEF IInv, TypeOK, Do, CommitRequestChange
  <2>2. tx[t].newPhone \in Phone /\ tx[t].by \in User
    BY DEF IInv, TypeOK, CommitRequestChange, Work, Idle, At
  <2> QED BY <2>1, <2>2 DEF IInv, TypeOK, CommitRequestChange, PortalContactChangeRequest
<1>2. ChangeIsThere'
  BY DEF IInv, CommitRequestChange, Do, Idle, ChangeIsThere
<1>3. ProofHolds'
  BY DEF IInv, CommitRequestChange, Do, Idle, At, ProofHolds
<1>4. SessionHolds'
  BY DEF IInv, CommitRequestChange, Do, SessionHolds, Live
<1>5. ClosedIsDark'
  BY DEF IInv, CommitRequestChange, Do, ClosedIsDark
<1> QED BY <1>1, <1>2, <1>3, <1>4, <1>5 DEF IInv

LEMMA BeginApproveContactChangeKeeps ==
  ASSUME IInv, NEW t \in Txn, NEW c \in Change, NEW by \in User, BeginApproveContactChange(t, c, by)
  PROVE  IInv'
<1>1. TypeOK'
  BY DEF IInv, BeginApproveContactChange, Do, TypeOK, Work, Idle, Live
<1>2. ChangeIsThere'
  BY DEF IInv, BeginApproveContactChange, Do, Unused, ChangeIsThere
<1>3. ProofHolds'
  BY DEF IInv, BeginApproveContactChange, Do, At, ProofHolds
<1>4. SessionHolds'
  BY DEF IInv, BeginApproveContactChange, Do, SessionHolds, Live
<1>5. ClosedIsDark'
  BY DEF IInv, BeginApproveContactChange, Do, ClosedIsDark
<1> QED BY <1>1, <1>2, <1>3, <1>4, <1>5 DEF IInv

LEMMA CommitApproveContactChangeKeeps ==
  ASSUME IInv, NEW t \in Txn, CommitApproveContactChange(t)
  PROVE  IInv'
<1>0. \A u \in Txn : GoesOn(u, {"contact"})
  BY FinishesGoesOn DEF IInv, CommitApproveContactChange
<1>1. TypeOK'
  <2>1. tx' \in [Txn -> Work \cup {Idle}]
    BY FinishesType DEF IInv, Missable, Darkens, CommitApproveContactChange
  <2>2. tx[t].c \in Change /\ change[tx[t].c] \in PortalContactChangeRequest
    BY DEF IInv, TypeOK, ChangeIsThere, CommitApproveContactChange, Work, Idle, At
  <2> QED BY <2>1, <2>2 DEF IInv, TypeOK, CommitApproveContactChange, PortalContactChangeRequest, Revoked, Ended, Live,
     PortalSession, DocCase, Unused
<1>2. ChangeIsThere'
  BY <1>0 DEF IInv, CommitApproveContactChange, Revoked, Ended, Unused, GoesOn, ChangeIsThere
<1>3. ProofHolds'
  BY <1>0 DEF IInv, CommitApproveContactChange, Revoked, Ended, GoesOn, At, Darkens, ProofHolds
<1>4. SessionHolds'
  BY DEF IInv, CommitApproveContactChange, Revoked, Ended, SessionHolds, Live
<1>5. ClosedIsDark'
  BY DEF IInv, CommitApproveContactChange, Revoked, Ended, ClosedIsDark
<1> QED BY <1>1, <1>2, <1>3, <1>4, <1>5 DEF IInv

LEMMA BeginRejectContactChangeKeeps ==
  ASSUME IInv, NEW t \in Txn, NEW c \in Change, BeginRejectContactChange(t, c)
  PROVE  IInv'
<1>1. TypeOK'
  BY DEF IInv, BeginRejectContactChange, Do, TypeOK, Work, Idle, Live
<1>2. ChangeIsThere'
  BY DEF IInv, BeginRejectContactChange, Do, Unused, ChangeIsThere
<1>3. ProofHolds'
  BY DEF IInv, BeginRejectContactChange, Do, At, ProofHolds
<1>4. SessionHolds'
  BY DEF IInv, BeginRejectContactChange, Do, SessionHolds, Live
<1>5. ClosedIsDark'
  BY DEF IInv, BeginRejectContactChange, Do, ClosedIsDark
<1> QED BY <1>1, <1>2, <1>3, <1>4, <1>5 DEF IInv

LEMMA CommitRejectContactChangeKeeps ==
  ASSUME IInv, NEW t \in Txn, CommitRejectContactChange(t)
  PROVE  IInv'
<1>1. TypeOK'
  <2>1. tx' \in [Txn -> Work \cup {Idle}]
    BY DEF IInv, TypeOK, Do, CommitRejectContactChange
  <2>2. tx[t].c \in Change /\ change[tx[t].c] \in PortalContactChangeRequest
    BY DEF IInv, TypeOK, ChangeIsThere, CommitRejectContactChange, Work, Idle, At
  <2> QED BY <2>1, <2>2 DEF IInv, TypeOK, CommitRejectContactChange, PortalContactChangeRequest
<1>2. ChangeIsThere'
  BY DEF IInv, CommitRejectContactChange, Do, Unused, Idle, ChangeIsThere
<1>3. ProofHolds'
  BY DEF IInv, CommitRejectContactChange, Do, Idle, At, ProofHolds
<1>4. SessionHolds'
  BY DEF IInv, CommitRejectContactChange, Do, SessionHolds, Live
<1>5. ClosedIsDark'
  BY DEF IInv, CommitRejectContactChange, Do, ClosedIsDark
<1> QED BY <1>1, <1>2, <1>3, <1>4, <1>5 DEF IInv

LEMMA BeginConfirmHandoffKeeps ==
  ASSUME IInv, NEW t \in Txn, NEW p \in Phone \cup {NoPhone}, BeginConfirmHandoff(t, p)
  PROVE  IInv'
<1>1. TypeOK'
  BY DEF IInv, BeginConfirmHandoff, Do, TypeOK, Work, Idle
<1>2. ChangeIsThere'
  BY DEF IInv, BeginConfirmHandoff, Do, ChangeIsThere
<1>3. ProofHolds'
  BY DEF IInv, BeginConfirmHandoff, Do, At, ProofHolds
<1>4. SessionHolds'
  BY DEF IInv, BeginConfirmHandoff, Do, SessionHolds, Live
<1>5. ClosedIsDark'
  BY DEF IInv, BeginConfirmHandoff, Do, ClosedIsDark
<1> QED BY <1>1, <1>2, <1>3, <1>4, <1>5 DEF IInv

LEMMA CommitConfirmHandoffKeeps ==
  ASSUME IInv, NEW t \in Txn, CommitConfirmHandoff(t)
  PROVE  IInv'
<1>0. \A u \in Txn : GoesOn(u, {"confirmation"})
  BY FinishesGoesOn DEF IInv, CommitConfirmHandoff
<1>1. TypeOK'
  <2>1. tx' \in [Txn -> Work \cup {Idle}]
    BY FinishesType DEF IInv, CommitConfirmHandoff, Missable
  <2>2. tx[t].phone \in Phone \cup {NoPhone}
    BY DEF IInv, TypeOK, CommitConfirmHandoff, Work, Idle, At
  <2>3. docCase' \in DocCase
    BY <2>2 DEF IInv, TypeOK, CommitConfirmHandoff, DocCase, Status
  <2>4. session' \in [Session -> PortalSession \cup {Unused}]
    BY DEF IInv, TypeOK, CommitConfirmHandoff, Live, PortalSession, Unused, Ended, Missable
  <2> QED BY <2>1, <2>3, <2>4 DEF IInv, TypeOK, CommitConfirmHandoff
<1>2. ChangeIsThere'
  BY <1>0 DEF IInv, CommitConfirmHandoff, GoesOn, ChangeIsThere
<1>3. ProofHolds'
  <2>1. docCase'.enabled = docCase.enabled
    BY DEF IInv, TypeOK, CommitConfirmHandoff, DocCase
  <2>2. ASSUME NEW u \in Txn, At(u, "verify")' PROVE "confirmation" \in tx'[u].missed
    BY <1>0, <2>2 DEF GoesOn, At
  <2>3. ASSUME NEW u \in Txn, At(u, "verify")', "portal" \notin tx'[u].missed PROVE docCase'.enabled
    BY <1>0, <2>1, <2>3 DEF IInv, ProofHolds, GoesOn, At
  <2> QED BY <2>2, <2>3 DEF ProofHolds, At
<1>4. SessionHolds'
  BY DEF IInv, CommitConfirmHandoff, SessionHolds, Live, TypeOK, DocCase, PortalSession, Unused, Ended
<1>5. ClosedIsDark'
  BY DEF IInv, CommitConfirmHandoff, ClosedIsDark, TypeOK, DocCase
<1> QED BY <1>1, <1>2, <1>3, <1>4, <1>5 DEF IInv

LEMMA CloseCaseKeeps ==
  ASSUME IInv, CloseCase
  PROVE  IInv'
<1>0. \A u \in Txn : GoesOn(u, Darkens)
  BY PassesGoesOn DEF IInv, CloseCase
<1>1. TypeOK'
  <2>1. tx' \in [Txn -> Work \cup {Idle}]
    BY PassesType DEF IInv, Missable, Darkens, CloseCase
  <2>2. Revoked \in [Session -> PortalSession \cup {Unused}]
    BY DEF IInv, TypeOK, Revoked, Ended, Live, PortalSession, Unused
  <2> QED BY <2>1, <2>2 DEF IInv, TypeOK, CloseCase, DisablePortal, DocCase, Status
<1>2. ChangeIsThere'
  BY <1>0 DEF IInv, CloseCase, DisablePortal, Revoked, Ended, GoesOn, ChangeIsThere
<1>3. ProofHolds'
  BY <1>0 DEF IInv, CloseCase, DisablePortal, Revoked, Ended, GoesOn, At, Darkens, ProofHolds
<1>4. SessionHolds'
  BY DEF IInv, CloseCase, DisablePortal, Revoked, Ended, SessionHolds, Live
<1>5. ClosedIsDark'
  BY DEF IInv, CloseCase, DisablePortal, Revoked, Ended, ClosedIsDark
<1> QED BY <1>1, <1>2, <1>3, <1>4, <1>5 DEF IInv

LEMMA ReopenCaseKeeps ==
  ASSUME IInv, ReopenCase
  PROVE  IInv'
<1>1. TypeOK'
  BY DEF IInv, ReopenCase, TypeOK, DocCase, Status, Live
<1>2. ChangeIsThere'
  BY DEF IInv, ReopenCase, ChangeIsThere
<1>3. ProofHolds'
  BY DEF IInv, ReopenCase, At, ProofHolds
<1>4. SessionHolds'
  BY DEF IInv, ReopenCase, SessionHolds, Live
<1>5. ClosedIsDark'
  BY DEF IInv, ReopenCase, ClosedIsDark
<1> QED BY <1>1, <1>2, <1>3, <1>4, <1>5 DEF IInv

LEMMA MoveCaseKeeps ==
  ASSUME IInv, NEW status \in {"ACTIVE", "OPEN"}, MoveCase(status)
  PROVE  IInv'
<1>1. TypeOK'
  BY DEF IInv, MoveCase, TypeOK, DocCase, Status, Live
<1>2. ChangeIsThere'
  BY DEF IInv, MoveCase, ChangeIsThere
<1>3. ProofHolds'
  BY DEF IInv, MoveCase, At, ProofHolds
<1>4. SessionHolds'
  BY DEF IInv, MoveCase, SessionHolds, Live
<1>5. ClosedIsDark'
  BY DEF IInv, MoveCase, ClosedIsDark
<1> QED BY <1>1, <1>2, <1>3, <1>4, <1>5 DEF IInv

-----------------------------------------------------------------------------
LEMMA NextKeeps == IInv /\ [Next]_vars => IInv'
<1> SUFFICES ASSUME IInv, [Next]_vars PROVE IInv'
  OBVIOUS
<1>1. CASE Publishing
  BY <1>1, BeginSetVisibilityKeeps, CommitSetVisibilityKeeps, ActivatePortalKeeps DEF Publishing
<1>2. CASE Client
  BY <1>2, BeginVerifyKeeps, CreateSessionKeeps, FailVerifyKeeps, EndSessionKeeps, WindowPassesKeeps DEF
     Client
<1>3. CASE Contact
  BY <1>3, BeginRequestChangeKeeps, BeginApproveContactChangeKeeps, BeginRejectContactChangeKeeps,
     CommitRequestChangeKeeps, CommitApproveContactChangeKeeps, CommitRejectContactChangeKeeps, RevokeSessionsKeeps
     DEF Contact
<1>4. CASE Case
  BY <1>4, BeginConfirmHandoffKeeps, CommitConfirmHandoffKeeps, CloseCaseKeeps, ReopenCaseKeeps, MoveCaseKeeps DEF Case
<1>5. CASE UNCHANGED vars
  BY <1>5 DEF vars, IInv, TypeOK, ChangeIsThere, ProofHolds, SessionHolds, ClosedIsDark, At, Live
<1> QED BY <1>1, <1>2, <1>3, <1>4, <1>5 DEF Next

\* IInv holds at every moment.
THEOREM Invariance == Spec => []IInv
BY InitIInv, NextKeeps, PTL DEF Spec

\* Every reachable state has its type, and the failed attempts never exceed the lockout's limit.
THEOREM TypeCorrect == Spec => []TypeOK
<1>1. IInv => TypeOK
  BY DEF IInv
<1> QED BY <1>1, Invariance, PTL

\* A case closed without documents has no portal at any moment, whatever publish, activation
\* or move of portal.service and doc-case.service was under way when it closed.
THEOREM ClosedCaseIsDark == Spec => []ClosedIsDark
<1>1. IInv => ClosedIsDark
  BY DEF IInv
<1> QED BY <1>1, Invariance, PTL

\* Whatever takes the portal away revokes the sessions: only one whose client had proved
\* the phone before that moment and was given it after can be live while the portal is off.
THEOREM NoSessionInTheDark == Spec => []DarkHasNoSession
<1>1. IInv => DarkHasNoSession
  BY DEF IInv, SessionHolds, DarkHasNoSession
<1> QED BY <1>1, Invariance, PTL

\* Who is shown the case has proved the contact it has now, unless a change of it was
\* approved between the proof and the session, or a confirmation of the handoff that had
\* read the case before it was numbered wrote the lead's phone over it.
THEOREM ViewersHoldThePhone == Spec => []SeesWithCurrentPhone
<1>1. IInv => SeesWithCurrentPhone
  BY DEF IInv, SessionHolds, SeesWithCurrentPhone, CanView
<1> QED BY <1>1, Invariance, PTL
-----------------------------------------------------------------------------
(* LeadContacts.  Neither a main contact nor a primary number is unique by  *)
(* itself: it is because a request nobody overtook still sees the rows that *)
(* it read, so it demotes them all, and a DELETE between two statements has *)
(* left no main contact and no primary number but those it is about to make.*)

AtMostOne(S) == \A x, y \in S : x = y

\* What a request's fields hold, by its operation and by its step.
Carries(r) ==
    /\ r.op \in {"PUT", "DELETE"} => r.id \in ContactId
    /\ r.op \in {"POST", "UPDATE", "CONVERT", "OVERWRITE"} => r.number \in PhoneOrNone
    /\ r.op = "DELETE" <=> r.step # "commit"
    /\ r.step = "promote" => r.number \in PhoneOrNone
    /\ r.step \in {"unset", "set"} => r.number \in Number
CarriesAll == \A s \in Ops : Carries(open[s])

\* What a request that nobody overtook knows of the contacts cs and the telephone rows ps:
\* a transaction, the contacts and the primary numbers; DELETE, the contact it is at.
Remembers(r, cs, ps) ==
    /\ r.step = "commit" => r.rows = LiveOf(cs) /\ r.primaries = Primaries(ps) /\ ~r.behind
    /\ r.step = "delete" => cs[r.id].at = "here" /\ r.wasMain = cs[r.id].main
    /\ r.step = "promote" => cs[r.id].at = "here"
    /\ r.step = "set" => Primaries(ps) = {}
RememberAll == \A s \in Ops : ~open[s].overtaken => Remembers(open[s], contact, phone)

\* A DELETE that is to make another contact the main one.
Promoting(r) == r.op = "DELETE" /\ (r.step \in {"next", "promote"} \/ (r.step = "phone" /\ r.wasMain))

UniqueMain ==
    ~past.raced /\ ~past.moved =>
        /\ AtMostOne(Mains)
        /\ \A s \in Ops : Promoting(open[s]) /\ ~open[s].overtaken => Mains = {}

UniquePrimary == ~past.raced => AtMostOne(Primaries(phone))
AllActive(p) == \A n \in Primaries(p) : p[n].status = "ACTIVE"

\* A lead without its main contact is left to the DELETE that took it.
MainIsComing ==
    ~past.raced /\ ~past.failed /\ ~past.cleared =>
        \/ Here = {} \/ Mains # {}
        \/ \E s \in Ops : Promoting(open[s])

\* The inductive invariant.
ContactsInv ==
    /\ ContactsTypeOK /\ CarriesAll /\ RememberAll
    /\ UniqueMain /\ UniquePrimary /\ AllActive(phone) /\ MainIsComing

-----------------------------------------------------------------------------
(* What PhoneService leaves of the rows p.                                  *)

PhoneRows == [Number -> PhoneRow]

LEMMA DemotedIs ==
  ASSUME NEW p \in PhoneRows, NEW seen \in SUBSET Number
  PROVE  /\ Demoted(p, seen) \in PhoneRows
         /\ \A n \in Number : Demoted(p, seen)[n].status = p[n].status
         /\ Primaries(Demoted(p, seen)) = Primaries(p) \ seen
<1> DEFINE d == Demoted(p, seen)
<1>1. \A n \in Number : p[n] \in PhoneRow
  BY DEF PhoneRows
<1>2. \A n \in Number : [p[n] EXCEPT !.primary = FALSE] \in PhoneRow
  BY <1>1 DEF PhoneRow
<1>3. d = [n \in Number |-> IF n \in seen THEN [p[n] EXCEPT !.primary = FALSE] ELSE p[n]]
  BY DEF Demoted
<1> HIDE DEF d
<1>4. d \in PhoneRows
  BY <1>1, <1>2, <1>3 DEF PhoneRows
<1>5. \A n \in Number : d[n].status = p[n].status /\ (d[n].primary <=> n \notin seen /\ p[n].primary)
  BY <1>1, <1>3 DEF PhoneRow
<1>6. Primaries(d) = Primaries(p) \ seen
  BY <1>5 DEF Primaries
<1> QED BY <1>4, <1>5, <1>6 DEF d

LEMMA AttachedIs ==
  ASSUME NEW p \in PhoneRows, NEW n \in Number, NEW wanted \in BOOLEAN, NEW blind
  PROVE  LET seen == Primaries(p) \ blind
             q == Attached(p, n, wanted, blind)
         IN /\ q \in PhoneRows
            /\ q[n].status = "ACTIVE"
            /\ \A m \in Number \ {n} : q[m].status = p[m].status
            /\ wanted \/ seen = {} => Primaries(q) = (Primaries(p) \ seen) \cup {n}
            /\ ~(wanted \/ seen = {}) =>
                  Primaries(q) = IF n \in Short THEN Primaries(p) ELSE Primaries(p) \ {n}
<1> DEFINE seen == Primaries(p) \ blind
           primary == wanted \/ seen = {}
           gone == IF primary THEN seen ELSE {}
           d == Demoted(p, gone)
           kept == primary \/ (n \in Short /\ p[n].primary)
           r == [status |-> "ACTIVE", primary |-> kept]
           q == Attached(p, n, wanted, blind)
<1>1. q = [d EXCEPT ![n] = r]
  BY DEF Attached
<1>2. seen \in SUBSET Number /\ primary \in BOOLEAN /\ gone \in SUBSET Number
  BY DEF Primaries
<1>3. /\ d \in PhoneRows
      /\ \A m \in Number : d[m].status = p[m].status
      /\ Primaries(d) = IF primary THEN Primaries(p) \ seen ELSE Primaries(p)
  <2>1. Primaries(p) \ gone = IF primary THEN Primaries(p) \ seen ELSE Primaries(p)
    OBVIOUS
  <2> HIDE DEF gone
  <2> QED BY <1>2, <2>1, DemotedIs
<1>4. r \in PhoneRow /\ r.status = "ACTIVE" /\ r.primary = kept /\ kept \in BOOLEAN
  <2>1. p[n].primary \in BOOLEAN
    BY DEF PhoneRows, PhoneRow
  <2>2. kept \in BOOLEAN
    <3> HIDE DEF primary
    <3> QED BY <1>2, <2>1
  <2> HIDE DEF kept
  <2> QED BY <2>2 DEF PhoneRow
<1>0. /\ primary => kept
      /\ ~primary => (kept <=> n \in Short /\ n \in Primaries(p))
  <2> HIDE DEF primary
  <2> QED BY DEF Primaries
<1> HIDE DEF seen, primary, kept, gone, d, r, q
<1>5. /\ q \in PhoneRows /\ q[n] = r
      /\ \A m \in Number \ {n} : q[m] = d[m]
  BY <1>1, <1>3, <1>4 DEF PhoneRows
<1>6. Primaries(q) = (Primaries(d) \ {n}) \cup (IF kept THEN {n} ELSE {})
  BY <1>4, <1>5 DEF Primaries
<1>7. primary => Primaries(q) = (Primaries(p) \ seen) \cup {n}
  BY <1>0, <1>3, <1>6
<1>8. ~primary => Primaries(q) = IF n \in Short THEN Primaries(p) ELSE Primaries(p) \ {n}
  <2> SUFFICES ASSUME ~primary
               PROVE  Primaries(q) = IF n \in Short THEN Primaries(p) ELSE Primaries(p) \ {n}
    OBVIOUS
  <2>1. Primaries(q) = (Primaries(p) \ {n}) \cup (IF kept THEN {n} ELSE {})
    BY <1>3, <1>6
  <2>2. kept <=> n \in Short /\ n \in Primaries(p)
    BY <1>0
  <2> QED BY <2>1, <2>2
<1>9. \A m \in Number \ {n} : q[m].status = p[m].status
  BY <1>3, <1>5
<1> QED BY <1>4, <1>5, <1>7, <1>8, <1>9 DEF seen, primary, q

LEMMA DeactivatedIs ==
  ASSUME NEW p \in PhoneRows, NEW n \in PhoneOrNone
  PROVE  /\ Deactivated(p, n) \in PhoneRows
         /\ AllActive(p) => AllActive(Deactivated(p, n))
         /\ Primaries(Deactivated(p, n)) \subseteq Primaries(p)
         /\ n \in Short => Deactivated(p, n) = p
<1> DEFINE r == [status |-> "INACTIVE", primary |-> FALSE]
<1>1. r \in PhoneRow /\ r.primary = FALSE
  BY DEF PhoneRow
<1>2. CASE n \notin Short \cup {None} /\ p[n].status = "ACTIVE"
  <2>1. n \in Number
    BY <1>2 DEF PhoneOrNone
  <2> DEFINE q == Deactivated(p, n)
  <2>2. q = [p EXCEPT ![n] = r]
    BY <1>2 DEF Deactivated
  <2> HIDE DEF r, q
  <2>3. q \in PhoneRows /\ \A m \in Number : q[m] = IF m = n THEN r ELSE p[m]
    BY <1>1, <2>1, <2>2 DEF PhoneRows
  <2>4. Primaries(q) = Primaries(p) \ {n}
    BY <1>1, <2>1, <2>3 DEF Primaries
  <2>5. AllActive(p) => AllActive(q)
    BY <2>3, <2>4 DEF AllActive, Primaries
  <2> QED BY <1>2, <2>3, <2>4, <2>5 DEF q
<1>3. CASE ~(n \notin Short \cup {None} /\ p[n].status = "ACTIVE")
  BY <1>3 DEF Deactivated
<1> QED BY <1>2, <1>3

LEMMA PromotedIs ==
  ASSUME NEW p \in PhoneRows, NEW n \in Number
  PROVE  /\ Promoted(p, n) \in PhoneRows
         /\ \A m \in Number : Promoted(p, n)[m].status = p[m].status
         /\ Primaries(Promoted(p, n)) = Primaries(p) \cup {m \in {n} : p[m].status = "ACTIVE"}
<1>1. CASE p[n].status = "ACTIVE"
  <2> DEFINE q == Promoted(p, n)
             r == [p[n] EXCEPT !.primary = TRUE]
  <2>1. q = [p EXCEPT ![n] = r]
    BY <1>1 DEF Promoted
  <2>2. r \in PhoneRow /\ r.primary = TRUE /\ r.status = p[n].status
    BY DEF PhoneRows, PhoneRow
  <2> HIDE DEF q, r
  <2>3. q \in PhoneRows /\ \A m \in Number : q[m] = IF m = n THEN r ELSE p[m]
    BY <2>1, <2>2 DEF PhoneRows
  <2>4. Primaries(q) = Primaries(p) \cup {n}
    BY <2>2, <2>3 DEF Primaries
  <2> QED BY <1>1, <2>2, <2>3, <2>4 DEF q
<1>2. CASE p[n].status # "ACTIVE"
  BY <1>2 DEF Promoted
<1> QED BY <1>1, <1>2

LEMMA WithPrimaryIs ==
  ASSUME NEW p \in PhoneRows, NEW n \in Number \ Short, NEW blind
  PROVE  /\ WithPrimary(p, n, blind) \in PhoneRows
         /\ \A m \in Number : WithPrimary(p, n, blind)[m].status = p[m].status
         /\ Primaries(WithPrimary(p, n, blind))
              = (Primaries(p) \cap blind) \cup {m \in {n} : p[m].status = "ACTIVE"}
<1> DEFINE seen == Primaries(p) \ blind
           d == Demoted(p, seen)
<1>1. seen \in SUBSET Number
  BY DEF Primaries
<1>2. /\ d \in PhoneRows /\ Primaries(d) = Primaries(p) \ seen
      /\ \A m \in Number : d[m].status = p[m].status
  <2> HIDE DEF seen
  <2> QED BY <1>1, DemotedIs
<1>3. WithPrimary(p, n, blind) = Promoted(d, n)
  BY DEF WithPrimary
<1>4. Primaries(d) = Primaries(p) \cap blind
  BY <1>2
<1> HIDE DEF d
<1>5. /\ Promoted(d, n) \in PhoneRows
      /\ \A m \in Number : Promoted(d, n)[m].status = d[m].status
      /\ Primaries(Promoted(d, n)) = Primaries(d) \cup {m \in {n} : d[m].status = "ACTIVE"}
  BY <1>2, PromotedIs
<1> QED BY <1>2, <1>3, <1>4, <1>5

LEMMA SyncedIs ==
  ASSUME NEW p
  PROVE  /\ Synced(p) \subseteq PhoneOrNone
         /\ \A n : Primaries(p) = {n} => Synced(p) = {n}
BY DEF Synced, PhoneOrNone, Primaries

-----------------------------------------------------------------------------
(* What a step leaves of the requests.                                      *)

LEMMA SlotsAre ==
  ASSUME ContactsTypeOK
  PROVE  /\ contact \in [ContactId -> ContactRow] /\ phone \in PhoneRows /\ mirror \in PhoneOrNone
         /\ \A s \in Ops : s \in Slot /\ open[s] \in Request /\ open[s].op # "idle"
         /\ \A s \in Slot \ Ops : open[s] = NoRequest
         /\ NoRequest \notin Request /\ NoRequest.op = "idle"
BY DEF ContactsTypeOK, Ops, Request, Op, NoRequest, PhoneRows

\* The others notice it and keep what they have.
LEMMA OvertakenIs ==
  ASSUME ContactsTypeOK, NEW s \in Ops, NEW r \in Request
  PROVE  /\ \A t \in Slot \ Ops : Overtaken(r, s)[t] = open[t]
         /\ \A t \in Ops \ {s} :
               /\ Overtaken(r, s)[t] \in Request /\ Overtaken(r, s)[t].overtaken
               /\ Overtaken(r, s)[t].op = open[t].op /\ Overtaken(r, s)[t].id = open[t].id
               /\ Overtaken(r, s)[t].number = open[t].number /\ Overtaken(r, s)[t].step = open[t].step
               /\ Overtaken(r, s)[t].wasMain = open[t].wasMain
         /\ Overtaken(r, s)[s] = open[s] /\ DOMAIN Overtaken(r, s) = Slot
<1> DEFINE behind(t) == \/ open[t].behind
                        \/ Written(open[t]) \cap Written(r) # {}
                        \/ LeadFirst(open[t].op) /\ LeadFirst(r.op)
           next(t) == [open[t] EXCEPT !.overtaken = TRUE, !.behind = behind(t)]
<1>1. Overtaken(r, s) = [t \in Slot |-> IF t \notin Ops \/ t = s THEN open[t] ELSE next(t)]
  BY DEF Overtaken
<1>2. ASSUME NEW t \in Ops
      PROVE  /\ next(t) \in Request /\ next(t).overtaken
             /\ next(t).op = open[t].op /\ next(t).id = open[t].id /\ next(t).number = open[t].number
             /\ next(t).step = open[t].step /\ next(t).wasMain = open[t].wasMain
  <2>1. open[t] \in Request
    BY SlotsAre
  <2>2. behind(t) \in BOOLEAN
    BY <2>1 DEF Request
  <2> HIDE DEF behind
  <2> QED BY <2>1, <2>2 DEF Request
<1> HIDE DEF next
<1> QED BY <1>1, <1>2, SlotsAre

LEMMA WriteLeaves ==
  ASSUME ContactsTypeOK, NEW s \in Ops, NEW next \in Request \cup {NoRequest}, Writes(s, next)
  PROVE  /\ open' \in [Slot -> Request \cup {NoRequest}] /\ open'[s] = next
         /\ Ops' = (Ops \ {s}) \cup (IF next = NoRequest THEN {} ELSE {s})
         /\ \A t \in Ops \ {s} :
               /\ open'[t].overtaken
               /\ open'[t].op = open[t].op /\ open'[t].id = open[t].id /\ open'[t].number = open[t].number
               /\ open'[t].step = open[t].step /\ open'[t].wasMain = open[t].wasMain
<1> DEFINE o == Overtaken(open[s], s)
<1>1. open' = [o EXCEPT ![s] = next]
  BY DEF Writes
<1>2. open[s] \in Request /\ s \in Slot
  BY SlotsAre
<1>3. /\ \A t \in Slot \ Ops : o[t] = NoRequest
      /\ \A t \in Ops \ {s} :
            /\ o[t] \in Request /\ o[t].overtaken
            /\ o[t].op = open[t].op /\ o[t].id = open[t].id /\ o[t].number = open[t].number
            /\ o[t].step = open[t].step /\ o[t].wasMain = open[t].wasMain
      /\ o[s] = open[s] /\ DOMAIN o = Slot
  BY <1>2, OvertakenIs, SlotsAre
<1>4. o = [t \in Slot |-> o[t]]
  BY DEF Overtaken
<1> HIDE DEF o
<1>5. \A t \in Slot : open'[t] = IF t = s THEN next ELSE o[t]
  BY <1>1, <1>3
<1>6. open' = [t \in Slot |-> IF t = s THEN next ELSE o[t]]
  BY <1>1, <1>4
<1>7. \A t \in Slot : o[t] \in Request \cup {NoRequest}
  BY <1>2, <1>3
<1>8. open' \in [Slot -> Request \cup {NoRequest}]
  BY <1>6, <1>7
<1>9. \A t \in Slot : open'[t].op # "idle" <=> IF t = s THEN next # NoRequest ELSE t \in Ops
  <2>1. next.op # "idle" <=> next # NoRequest
    BY DEF Request, Op, NoRequest
  <2>2. \A t \in Ops : open[t].op # "idle"
    BY DEF Ops
  <2> QED BY <1>3, <1>5, <2>1, <2>2, SlotsAre
<1>10. Ops' = (Ops \ {s}) \cup (IF next = NoRequest THEN {} ELSE {s})
  BY <1>2, <1>9 DEF Ops
<1> QED BY <1>2, <1>3, <1>5, <1>8, <1>10, SlotsAre

LEMMA PastAfterWrite ==
  ASSUME ContactsTypeOK, NEW s \in Ops, NEW next, Writes(s, next)
  PROVE  /\ past' \in [raced : BOOLEAN, failed : BOOLEAN, moved : BOOLEAN, cleared : BOOLEAN]
         /\ ~past'.raced <=> ~past.raced /\ ~open[s].overtaken
         /\ past'.failed = past.failed /\ past'.moved = past.moved
         /\ ~past'.cleared => ~past.cleared /\ (open[s].op = "DELETE" \/ ~LosesMain(contact'))
         /\ begun' = begun
<1> DEFINE a == past.raced \/ open[s].overtaken
           b == past.cleared \/ (open[s].op # "DELETE" /\ LosesMain(contact'))
<1>1. past' = [past EXCEPT !.raced = a, !.cleared = b] /\ begun' = begun
  BY DEF Writes
<1>2. past \in [raced : BOOLEAN, failed : BOOLEAN, moved : BOOLEAN, cleared : BOOLEAN]
  BY DEF ContactsTypeOK
<1>3. a \in BOOLEAN /\ b \in BOOLEAN
  BY <1>2, SlotsAre DEF Request, LosesMain
<1>4. ~a <=> ~past.raced /\ ~open[s].overtaken
  OBVIOUS
<1>5. ~b => ~past.cleared /\ (open[s].op = "DELETE" \/ ~LosesMain(contact'))
  OBVIOUS
<1> HIDE DEF a, b
<1>6. /\ past' \in [raced : BOOLEAN, failed : BOOLEAN, moved : BOOLEAN, cleared : BOOLEAN]
      /\ past'.raced = a /\ past'.cleared = b /\ past'.failed = past.failed /\ past'.moved = past.moved
  BY <1>1, <1>2, <1>3
<1> QED BY <1>1, <1>4, <1>5, <1>6

\* A write keeps the invariant if its own request does: if nobody overtook it, it leaves
\* one main contact and one primary number, and it knows what it left to itself.
LEMMA WriteKeeps ==
  ASSUME ContactsInv, NEW s \in Ops, NEW next \in Request \cup {NoRequest}, Writes(s, next),
         contact' \in [ContactId -> ContactRow], phone' \in PhoneRows, mirror' \in PhoneOrNone,
         AllActive(phone'),
         next # NoRequest => Carries(next) /\ next.overtaken = open[s].overtaken,
         next # NoRequest /\ ~open[s].overtaken => Remembers(next, contact', phone'),
         ~open[s].overtaken /\ AtMostOne(Primaries(phone)) => AtMostOne(Primaries(phone')),
         ~past.raced /\ ~past.moved /\ ~open[s].overtaken =>
             /\ AtMostOne(MainsOf(contact'))
             /\ next # NoRequest /\ Promoting(next) => MainsOf(contact') = {},
         ~open[s].overtaken /\ open[s].op = "DELETE" /\ LosesMain(contact') =>
             \/ LosesMain(contact) /\ ~Promoting(open[s])
             \/ next # NoRequest /\ Promoting(next)
  PROVE  ContactsInv'
<1>0. ContactsTypeOK /\ CarriesAll /\ RememberAll /\ UniqueMain /\ UniquePrimary /\ MainIsComing
  BY DEF ContactsInv
<1>1. /\ open' \in [Slot -> Request \cup {NoRequest}] /\ open'[s] = next
      /\ Ops' = (Ops \ {s}) \cup (IF next = NoRequest THEN {} ELSE {s})
      /\ \A t \in Ops \ {s} :
            /\ open'[t].overtaken
            /\ open'[t].op = open[t].op /\ open'[t].id = open[t].id /\ open'[t].number = open[t].number
            /\ open'[t].step = open[t].step /\ open'[t].wasMain = open[t].wasMain
  BY <1>0, WriteLeaves
<1>2. /\ past' \in [raced : BOOLEAN, failed : BOOLEAN, moved : BOOLEAN, cleared : BOOLEAN]
      /\ ~past'.raced <=> ~past.raced /\ ~open[s].overtaken
      /\ past'.failed = past.failed /\ past'.moved = past.moved
      /\ ~past'.cleared => ~past.cleared /\ (open[s].op = "DELETE" \/ ~LosesMain(contact'))
      /\ begun' = begun
  BY <1>0, PastAfterWrite
<1>3. ContactsTypeOK'
  BY <1>0, <1>1, <1>2 DEF ContactsTypeOK, PhoneRows
<1>4. CarriesAll'
  <2>1. \A t \in Ops \ {s} : Carries(open'[t])
    BY <1>0, <1>1 DEF CarriesAll, Carries
  <2> QED BY <1>1, <2>1 DEF CarriesAll
<1>5. RememberAll'
  BY <1>1 DEF RememberAll
<1>6. UniqueMain'
  BY <1>1, <1>2 DEF UniqueMain, Mains
<1>7. UniquePrimary'
  BY <1>0, <1>2 DEF UniquePrimary
<1>8. MainIsComing'
  <2> SUFFICES ASSUME ~past'.raced, ~past'.failed, ~past'.cleared, LosesMain(contact')
               PROVE  \E t \in Ops' : Promoting(open'[t])
    BY DEF MainIsComing, LosesMain, Here, Mains
  <2>1. open[s].op = "DELETE" /\ ~open[s].overtaken
    BY <1>2
  <2>2. \A t \in Ops \ {s} : t \in Ops' /\ (Promoting(open[t]) => Promoting(open'[t]))
    BY <1>1 DEF Promoting
  <2>3. CASE next # NoRequest /\ Promoting(next)
    BY <1>1, <2>3
  <2>4. CASE LosesMain(contact) /\ ~Promoting(open[s])
    <3>1. \E t \in Ops : Promoting(open[t])
      BY <1>0, <1>2, <2>4 DEF MainIsComing, LosesMain, Here, Mains
    <3> QED BY <2>2, <2>4, <3>1
  <2> QED BY <2>1, <2>3, <2>4
<1> QED BY <1>3, <1>4, <1>5, <1>6, <1>7, <1>8 DEF ContactsInv

-----------------------------------------------------------------------------
(* What the requests write of the contacts.                                 *)

LEMMA AttachedKeeps ==
  ASSUME NEW p \in PhoneRows, NEW n \in Number, NEW wanted \in BOOLEAN, NEW blind
  PROVE  LET q == Attached(p, n, wanted, blind)
         IN /\ q \in PhoneRows /\ q[n].status = "ACTIVE"
            /\ AllActive(p) => AllActive(q)
            /\ blind = {} /\ AtMostOne(Primaries(p)) => AtMostOne(Primaries(q))
            /\ blind = {} /\ wanted => Primaries(q) = {n}
<1> DEFINE seen == Primaries(p) \ blind
           q == Attached(p, n, wanted, blind)
<1>1. /\ q \in PhoneRows
      /\ q[n].status = "ACTIVE"
      /\ \A m \in Number \ {n} : q[m].status = p[m].status
      /\ wanted \/ seen = {} => Primaries(q) = (Primaries(p) \ seen) \cup {n}
      /\ ~(wanted \/ seen = {}) =>
            Primaries(q) = IF n \in Short THEN Primaries(p) ELSE Primaries(p) \ {n}
  BY AttachedIs
<1> HIDE DEF q
<1>2. Primaries(q) \subseteq Primaries(p) \cup {n} /\ Primaries(p) \subseteq Number
  BY <1>1 DEF Primaries
<1>3. AllActive(p) => AllActive(q)
  BY <1>1, <1>2 DEF AllActive
<1>4. blind = {} => seen = Primaries(p)
  OBVIOUS
<1>5. blind = {} /\ wanted => Primaries(q) = {n}
  BY <1>1, <1>4
<1>6. blind = {} /\ AtMostOne(Primaries(p)) => AtMostOne(Primaries(q))
  BY <1>1, <1>4 DEF AtMostOne
<1> QED BY <1>1, <1>3, <1>5, <1>6 DEF q

\* A set of contacts has an oldest one.
LEMMA OldestIsThere ==
  ASSUME NEW S \in SUBSET ContactId, S # {}
  PROVE  First(S) \in S
<1>1. S \subseteq Nat
  BY BoundAssumption DEF ContactId
<1>2. PICK d \in S : \A e \in S : ~ (<<e, d>> \in OpToRel(<, Nat))
  BY <1>1, NatLessThanWellFounded, WFMin
<1>3. \A e \in S : ~(e < d) /\ e \in Nat /\ d \in Nat
  BY <1>1, <1>2 DEF OpToRel
<1>4. \A e \in S : d <= e
  BY <1>3
<1> QED BY <1>4 DEF First

LEMMA FreshIsFresh ==
  ASSUME FreshRows # {}
  PROVE  First(FreshRows) \in ContactId /\ contact[First(FreshRows)].at = "none"
<1>1. FreshRows \in SUBSET ContactId
  BY DEF FreshRows
<1>2. First(FreshRows) \in FreshRows
  BY <1>1, OldestIsThere
<1> QED BY <1>2 DEF FreshRows

LEMMA DemotingIs ==
  ASSUME ContactsTypeOK, NEW C
  PROVE  /\ Demoting(C) \in [ContactId -> ContactRow]
         /\ \A c \in ContactId : Demoting(C)[c].at = contact[c].at
         /\ MainsOf(Demoting(C)) = Mains \ C
<1> DEFINE r(c) == [contact[c] EXCEPT !.main = FALSE]
<1>1. Demoting(C) = [c \in ContactId |-> IF c \in C THEN r(c) ELSE contact[c]]
  BY DEF Demoting
<1>2. \A c \in ContactId : contact[c] \in ContactRow
  BY SlotsAre
<1>3. \A c \in ContactId : r(c) \in ContactRow /\ r(c).at = contact[c].at /\ r(c).main = FALSE
  BY <1>2 DEF ContactRow
<1> HIDE DEF r
<1>4. Demoting(C) \in [ContactId -> ContactRow]
  BY <1>1, <1>2, <1>3
<1>5. \A c \in ContactId : /\ Demoting(C)[c].at = contact[c].at
                           /\ Demoting(C)[c].main <=> c \notin C /\ contact[c].main
  BY <1>1, <1>3
<1>6. MainsOf(Demoting(C)) = Mains \ C
  BY <1>5 DEF Mains, MainsOf, LiveOf
<1> QED BY <1>4, <1>5, <1>6

\* One row is written.
LEMMA RowWritten ==
  ASSUME NEW rows \in [ContactId -> ContactRow], NEW c \in ContactId, NEW r \in ContactRow
  PROVE  /\ [rows EXCEPT ![c] = r] \in [ContactId -> ContactRow]
         /\ LiveOf([rows EXCEPT ![c] = r]) = (LiveOf(rows) \ {c}) \cup (IF r.at = "here" THEN {c} ELSE {})
         /\ MainsOf([rows EXCEPT ![c] = r])
              = (MainsOf(rows) \ {c}) \cup (IF r.at = "here" /\ r.main THEN {c} ELSE {})
<1> DEFINE q == [rows EXCEPT ![c] = r]
<1>1. q \in [ContactId -> ContactRow] /\ \A d \in ContactId : q[d] = IF d = c THEN r ELSE rows[d]
  OBVIOUS
<1> HIDE DEF q
<1>2. LiveOf(q) = (LiveOf(rows) \ {c}) \cup (IF r.at = "here" THEN {c} ELSE {})
  BY <1>1 DEF LiveOf
<1>3. MainsOf(q) = (MainsOf(rows) \ {c}) \cup (IF r.at = "here" /\ r.main THEN {c} ELSE {})
  BY <1>1, <1>2 DEF MainsOf, LiveOf
<1> QED BY <1>1, <1>2, <1>3 DEF q

LEMMA RowBecomes ==
  ASSUME ContactsTypeOK, NEW c \in ContactId, NEW r \in ContactRow, contact' = [contact EXCEPT ![c] = r]
  PROVE  /\ contact' \in [ContactId -> ContactRow]
         /\ LiveOf(contact') = (Here \ {c}) \cup (IF r.at = "here" THEN {c} ELSE {})
         /\ MainsOf(contact') = (Mains \ {c}) \cup (IF r.at = "here" /\ r.main THEN {c} ELSE {})
<1> DEFINE q == [contact EXCEPT ![c] = r]
<1>1. contact \in [ContactId -> ContactRow]
  BY SlotsAre
<1>2. /\ q \in [ContactId -> ContactRow]
      /\ LiveOf(q) = (LiveOf(contact) \ {c}) \cup (IF r.at = "here" THEN {c} ELSE {})
      /\ MainsOf(q) = (MainsOf(contact) \ {c}) \cup (IF r.at = "here" /\ r.main THEN {c} ELSE {})
  BY <1>1, RowWritten
<1>3. contact' = q
  OBVIOUS
<1> HIDE DEF q
<1> QED BY <1>2, <1>3 DEF Here, Mains

\* The contacts C are demoted, and one row is written.
LEMMA DemotedAndWritten ==
  ASSUME ContactsTypeOK, NEW C, NEW c \in ContactId, NEW r \in ContactRow
  PROVE  /\ [Demoting(C) EXCEPT ![c] = r] \in [ContactId -> ContactRow]
         /\ MainsOf([Demoting(C) EXCEPT ![c] = r])
              = ((Mains \ C) \ {c}) \cup (IF r.at = "here" /\ r.main THEN {c} ELSE {})
<1> DEFINE d == Demoting(C)
<1>1. d \in [ContactId -> ContactRow] /\ MainsOf(d) = Mains \ C
  BY DemotingIs
<1> HIDE DEF d
<1>2. /\ [d EXCEPT ![c] = r] \in [ContactId -> ContactRow]
      /\ MainsOf([d EXCEPT ![c] = r]) = (MainsOf(d) \ {c}) \cup (IF r.at = "here" /\ r.main THEN {c} ELSE {})
  BY <1>1, RowWritten
<1> QED BY <1>1, <1>2 DEF d

-----------------------------------------------------------------------------
(* Transactions.                                                            *)

\* A transaction that nobody overtook sees every row.
LEMMA SeesAll ==
  ASSUME ContactsInv, NEW s \in Ops, open[s].op # "DELETE", ~open[s].overtaken
  PROVE  BlindRows(s) = {{}} /\ BlindPhones(s) = {{}}
<1>1. open[s].step = "commit"
  BY DEF ContactsInv, CarriesAll, Carries
<1>2. open[s].rows = Here /\ open[s].primaries = Primaries(phone) /\ ~open[s].behind
  BY <1>1 DEF ContactsInv, RememberAll, Remembers, Here
<1> QED BY <1>2 DEF BlindRows, BlindPhones

LEMMA EndKeeps ==
  ASSUME ContactsInv, NEW s \in Ops, Ends(s),
         contact' \in [ContactId -> ContactRow], phone' \in PhoneRows, mirror' \in PhoneOrNone,
         AllActive(phone'),
         ~open[s].overtaken /\ AtMostOne(Primaries(phone)) => AtMostOne(Primaries(phone')),
         ~past.raced /\ ~past.moved /\ ~open[s].overtaken /\ AtMostOne(Mains) => AtMostOne(MainsOf(contact')),
         ~open[s].overtaken /\ open[s].op = "DELETE" /\ LosesMain(contact') =>
             LosesMain(contact) /\ ~Promoting(open[s])
  PROVE  ContactsInv'
<1>1. Writes(s, NoRequest)
  BY DEF Ends
<1>2. ~past.raced /\ ~past.moved => AtMostOne(Mains)
  BY DEF ContactsInv, UniqueMain
<1> QED BY <1>1, <1>2, WriteKeeps

LEMMA PostKeeps ==
  ASSUME ContactsInv, NEW s \in Slot, CommitPost(s)
  PROVE  ContactsInv'
<1> DEFINE r == open[s]
           c == First(FreshRows)
           row == [at |-> "here", main |-> r.main = "yes", phone |-> r.number]
<1>1. s \in Ops /\ r.op = "POST" /\ ContactsTypeOK /\ AllActive(phone)
  BY DEF CommitPost, Ops, ContactsInv
<1>2. r.number \in PhoneOrNone
  BY <1>1 DEF ContactsInv, CarriesAll, Carries
<1>3. c \in ContactId /\ contact[c].at = "none"
  BY FreshIsFresh DEF CommitPost
<1>4. row \in ContactRow /\ row.at = "here" /\ (row.main <=> r.main = "yes")
  BY <1>2 DEF ContactRow
<1>5. PICK blind \in BlindRows(s) :
         contact' = [Demoting(IF r.main = "yes" THEN Here \ blind ELSE {}) EXCEPT ![c] = row]
  BY DEF CommitPost
<1> DEFINE C == IF r.main = "yes" THEN Here \ blind ELSE {}
<1>6. contact' = [Demoting(C) EXCEPT ![c] = row]
  BY <1>5
<1> HIDE DEF r, c, row, C
<1>7. /\ contact' \in [ContactId -> ContactRow]
      /\ MainsOf(contact') = ((Mains \ C) \ {c}) \cup (IF row.at = "here" /\ row.main THEN {c} ELSE {})
  BY <1>1, <1>3, <1>4, <1>6, DemotedAndWritten
<1>8. ~r.overtaken /\ AtMostOne(Mains) => AtMostOne(MainsOf(contact'))
  <2>1. Mains \subseteq Here
    BY DEF Mains, MainsOf, Here
  <2>2. ~r.overtaken => blind = {}
    BY <1>1, <1>5, SeesAll DEF r
  <2> QED BY <1>4, <1>7, <2>1, <2>2 DEF AtMostOne, C
<1>9. /\ phone' \in PhoneRows /\ mirror' \in PhoneOrNone /\ AllActive(phone')
      /\ ~r.overtaken /\ AtMostOne(Primaries(phone)) => AtMostOne(Primaries(phone'))
  <2>1. CASE r.number = None
    <3>1. phone' = phone /\ mirror' = mirror
      BY <2>1 DEF CommitPost, r
    <3> QED BY <1>1, <3>1, SlotsAre
  <2>2. CASE r.number # None
    <3>1. PICK hidden \in BlindPhones(s) : phone' = Attached(phone, r.number, r.main = "yes", hidden)
      BY <2>2 DEF CommitPost, r
    <3>2. mirror' = mirror \/ mirror' \in Synced(phone')
      BY <2>2 DEF CommitPost, r
    <3>3. r.number \in Number /\ (r.main = "yes") \in BOOLEAN
      BY <1>2, <2>2 DEF PhoneOrNone
    <3>4. ~r.overtaken => hidden = {}
      BY <1>1, SeesAll DEF r
    <3>5. mirror' \in PhoneOrNone
      BY <1>1, <3>2, SlotsAre, SyncedIs
    <3> QED BY <1>1, <3>1, <3>3, <3>4, <3>5, SlotsAre, AttachedKeeps
  <2> QED BY <2>1, <2>2
<1>10. Ends(s) /\ r.op # "DELETE"
  BY <1>1 DEF CommitPost
<1> QED BY <1>1, <1>7, <1>8, <1>9, <1>10, EndKeeps DEF r

\* A PUT that sees every primary number leaves the new one the only one.
LEMMA AfterPutKeeps ==
  ASSUME ContactsTypeOK, AllActive(phone), NEW r \in Request, NEW blind
  PROVE  LET q == AfterPut(r, blind)
             n == IF r.number = "-" THEN r.old ELSE r.number
         IN /\ q \in PhoneRows /\ AllActive(q)
            /\ blind = {} /\ AtMostOne(Primaries(phone)) => AtMostOne(Primaries(q))
            /\ blind = {} /\ r.main = "yes" /\ n # None =>
                 \/ Primaries(q) = {n}
                 \/ n = r.old /\ n \notin Short /\ phone[n].status # "ACTIVE" /\ Primaries(q) = {}
                 \/ n = r.old /\ n \in Short /\ q = phone
<1> DEFINE n == IF r.number = "-" THEN r.old ELSE r.number
           changed == r.number \notin {"-", r.old}
           left == IF changed THEN Deactivated(phone, r.old) ELSE phone
           wanted == r.main = "yes"
           attached == IF changed /\ r.number # None THEN Attached(left, r.number, wanted, blind) ELSE left
           q == AfterPut(r, blind)
<1>0. q = IF wanted /\ n # None THEN WithPrimary(attached, n, blind) ELSE attached
  BY DEF AfterPut
<1>1. r.number \in Given /\ r.old \in PhoneOrNone
  BY DEF Request
<1>2. n \in PhoneOrNone /\ (n # None => n \in Number) /\ wanted \in BOOLEAN
  BY <1>1 DEF Given, PhoneOrNone
<1>3. /\ changed /\ r.number # None => r.number \in Number /\ n = r.number
      /\ ~changed => n = r.old
  BY <1>1 DEF Given, PhoneOrNone
<1>4. /\ left \in PhoneRows /\ AllActive(left) /\ Primaries(left) \subseteq Primaries(phone)
      /\ ~changed => left = phone
  BY <1>1, DeactivatedIs, SlotsAre
<1> HIDE DEF left, q, changed, wanted, n
<1>5. CASE changed /\ r.number # None
  <2>1. attached = Attached(left, r.number, wanted, blind)
    BY <1>5
  <2>2. AtMostOne(Primaries(phone)) => AtMostOne(Primaries(left))
    BY <1>4 DEF AtMostOne
  <2>3. /\ attached \in PhoneRows /\ attached[n].status = "ACTIVE" /\ AllActive(attached) /\ n \in Number
        /\ blind = {} /\ AtMostOne(Primaries(phone)) => AtMostOne(Primaries(attached))
    BY <1>2, <1>3, <1>4, <1>5, <2>1, <2>2, AttachedKeeps
  <2> HIDE DEF attached
  <2>6. CASE wanted /\ n \in Short
    <3>1. q = WithPrimary(attached, n, blind)
      BY <1>0, <1>3, <1>5, <2>6
    <3>2. q = attached
      BY <2>6, <3>1 DEF WithPrimary
    <3>3. blind = {} => Primaries(attached) = {n}
      <4>1. n = r.number
        BY <1>3, <1>5
      <4>2. wanted = TRUE
        BY <1>2, <2>6
      <4>3. attached = Attached(left, n, TRUE, blind)
        BY <2>1, <4>1, <4>2
      <4> QED BY <1>4, <2>3, <4>3, AttachedKeeps
    <3> QED BY <2>3, <3>2, <3>3 DEF AtMostOne, q, n
  <2>4. CASE wanted /\ n \notin Short
    <3>1. q = WithPrimary(attached, n, blind)
      BY <1>0, <1>3, <1>5, <2>4
    <3>2. /\ q \in PhoneRows
          /\ \A m \in Number : q[m].status = attached[m].status
          /\ Primaries(q) = (Primaries(attached) \cap blind) \cup {m \in {n} : attached[m].status = "ACTIVE"}
      BY <2>3, <2>4, <3>1, WithPrimaryIs
    <3>3. blind = {} => Primaries(q) = {n}
      BY <2>3, <3>2
    <3>4. Primaries(q) \subseteq Number
      BY DEF Primaries
    <3>5. AllActive(q)
      BY <2>3, <3>2, <3>4 DEF AllActive
    <3> QED BY <3>2, <3>3, <3>5 DEF AtMostOne, q, n
  <2>5. CASE ~wanted
    BY <1>0, <2>3, <2>5 DEF q, wanted
  <2> QED BY <2>4, <2>5, <2>6
<1>6. CASE ~(changed /\ r.number # None)
  <2>1. attached = left
    BY <1>6
  <2>2. AtMostOne(Primaries(phone)) => AtMostOne(Primaries(left))
    BY <1>4 DEF AtMostOne
  <2> HIDE DEF attached
  <2>3. CASE wanted /\ n # None
    <3>1. q = WithPrimary(left, n, blind) /\ n \in Number
      BY <1>0, <1>2, <2>1, <2>3
    <3>2. ~changed
      BY <1>6, <2>3 DEF n, changed
    <3>3. left = phone /\ n = r.old
      BY <1>3, <1>4, <3>2
    <3>4. CASE n \in Short
      <4>1. q = phone
        BY <3>1, <3>3, <3>4 DEF WithPrimary
      <4> QED BY <1>4, <3>3, <3>4, <4>1, SlotsAre DEF q, n
    <3>5. CASE n \notin Short
      <4>1. /\ q \in PhoneRows
            /\ \A m \in Number : q[m].status = left[m].status
            /\ Primaries(q) = (Primaries(left) \cap blind) \cup {m \in {n} : left[m].status = "ACTIVE"}
        BY <1>4, <3>1, <3>5, WithPrimaryIs
      <4>2. blind = {} => Primaries(q) = {n} \/ (phone[n].status # "ACTIVE" /\ Primaries(q) = {})
        BY <3>3, <4>1
      <4>3. Primaries(q) \subseteq Number
        BY DEF Primaries
      <4>4. AllActive(q)
        BY <1>4, <4>1, <4>3 DEF AllActive
      <4>5. blind = {} => AtMostOne(Primaries(q))
        BY <4>1 DEF AtMostOne
      <4> QED BY <3>3, <3>5, <4>1, <4>2, <4>4, <4>5 DEF q, n
    <3> QED BY <3>4, <3>5
  <2>4. CASE ~(wanted /\ n # None)
    BY <1>0, <1>4, <2>1, <2>2, <2>4 DEF q, wanted, n
  <2> QED BY <2>3, <2>4
<1> QED BY <1>5, <1>6

LEMMA PutKeeps ==
  ASSUME ContactsInv, NEW s \in Slot, CommitPut(s)
  PROVE  ContactsInv'
<1> DEFINE r == open[s]
           row == Edited(contact[r.id], r)
<1>1. s \in Ops /\ r.op = "PUT" /\ ContactsTypeOK /\ AllActive(phone) /\ r \in Request
  BY SlotsAre DEF CommitPut, Ops, ContactsInv
<1>2. r.id \in ContactId
  BY <1>1 DEF ContactsInv, CarriesAll, Carries
<1>3. r.number \in Given /\ r.old \in PhoneOrNone /\ r.main \in {"yes", "no", "-"}
  BY <1>1 DEF Request
<1>4. PICK blind \in BlindRows(s) :
         contact' = [Demoting(IF r.main = "yes" THEN Here \ (blind \cup {r.id}) ELSE {}) EXCEPT
                       ![r.id] = Edited(@, r)]
  BY DEF CommitPut
<1> DEFINE C == IF r.main = "yes" THEN Here \ (blind \cup {r.id}) ELSE {}
<1>5. Demoting(C)[r.id] = contact[r.id]
  BY <1>2 DEF Demoting
<1>6. contact' = [Demoting(C) EXCEPT ![r.id] = row]
  <2>1. contact' = [Demoting(C) EXCEPT ![r.id] = Edited(Demoting(C)[r.id], r)]
    BY <1>4
  <2> HIDE DEF C, r
  <2> QED BY <1>5, <2>1
<1>7. /\ row \in ContactRow /\ row.at = "here"
      /\ r.main = "yes" => row.main = TRUE
      /\ r.main # "yes" => (row.main => contact[r.id].main)
  <2>1. contact[r.id] \in ContactRow /\ contact[r.id].at = "here"
    BY <1>1, <1>2, SlotsAre DEF CommitPut, Here, LiveOf
  <2> DEFINE m == IF r.main = "-" THEN contact[r.id].main ELSE r.main = "yes"
             n == IF r.number = "-" THEN contact[r.id].phone ELSE r.number
  <2>2. m \in BOOLEAN /\ n \in PhoneOrNone
    BY <1>3, <2>1 DEF Given, ContactRow
  <2>3. r.main = "yes" => m = TRUE
    OBVIOUS
  <2>4. r.main # "yes" => (m => contact[r.id].main)
    OBVIOUS
  <2>5. row = [contact[r.id] EXCEPT !.main = m, !.phone = n]
    BY DEF Edited
  <2> HIDE DEF m, n, row, r
  <2> QED BY <2>1, <2>2, <2>3, <2>4, <2>5 DEF ContactRow
<1> HIDE DEF r, row, C
<1>8. /\ contact' \in [ContactId -> ContactRow]
      /\ MainsOf(contact') = ((Mains \ C) \ {r.id}) \cup (IF row.at = "here" /\ row.main THEN {r.id} ELSE {})
  BY <1>1, <1>2, <1>6, <1>7, DemotedAndWritten
<1>9. ~r.overtaken /\ AtMostOne(Mains) => AtMostOne(MainsOf(contact'))
  <2>1. Mains \subseteq Here /\ (contact[r.id].main => r.id \in Mains)
    BY <1>1, <1>2 DEF Mains, MainsOf, Here, CommitPut, r
  <2>2. ~r.overtaken => blind = {}
    BY <1>1, <1>4, SeesAll DEF r
  <2> QED BY <1>7, <1>8, <2>1, <2>2 DEF AtMostOne, C
<1>10. PICK hidden \in BlindPhones(s) : phone' = AfterPut(r, hidden)
  BY DEF CommitPut, r
<1>11. /\ AfterPut(r, hidden) \in PhoneRows /\ AllActive(AfterPut(r, hidden))
       /\ hidden = {} /\ AtMostOne(Primaries(phone)) => AtMostOne(Primaries(AfterPut(r, hidden)))
  BY <1>1, <1>3, AfterPutKeeps
<1>12. ~r.overtaken => hidden = {}
  BY <1>1, <1>10, SeesAll DEF r
<1>13. mirror' \in PhoneOrNone
  <2>1. mirror' = mirror \/ mirror' \in Synced(phone')
    BY DEF CommitPut
  <2> QED BY <1>1, <2>1, SlotsAre, SyncedIs
<1>14. Ends(s) /\ r.op # "DELETE"
  BY <1>1 DEF CommitPut
<1> QED BY <1>1, <1>8, <1>9, <1>10, <1>11, <1>12, <1>13, <1>14, EndKeeps DEF r

\* updateLead and the import give the main contact the number.
LEMMA MainIsRenumbered ==
  ASSUME ContactsTypeOK, NEW n \in PhoneOrNone,
         Mains = {} => contact' = contact,
         Mains # {} => \E c \in Mains : contact' = [contact EXCEPT ![c].phone = n]
  PROVE  contact' \in [ContactId -> ContactRow] /\ MainsOf(contact') = Mains
<1>1. CASE Mains = {}
  BY <1>1, SlotsAre DEF Mains
<1>2. CASE Mains # {}
  <2>1. PICK c \in Mains : contact' = [contact EXCEPT ![c].phone = n]
    BY <1>2
  <2> DEFINE row == [contact[c] EXCEPT !.phone = n]
  <2>2. c \in ContactId /\ contact[c].at = "here" /\ contact[c].main /\ contact \in [ContactId -> ContactRow]
    BY SlotsAre DEF Mains, MainsOf, LiveOf
  <2>3. row \in ContactRow /\ row.at = "here" /\ row.main
    BY <2>2 DEF ContactRow
  <2>4. contact' = [contact EXCEPT ![c] = row]
    BY <2>1
  <2> HIDE DEF row
  <2>5. /\ contact' \in [ContactId -> ContactRow]
        /\ MainsOf(contact') = (Mains \ {c}) \cup (IF row.at = "here" /\ row.main THEN {c} ELSE {})
    BY <2>2, <2>3, <2>4, RowBecomes
  <2>6. (Mains \ {c}) \cup {c} = Mains
    OBVIOUS
  <2> QED BY <2>3, <2>5, <2>6
<1> QED BY <1>1, <1>2

LEMMA UpdateKeeps ==
  ASSUME ContactsInv, NEW s \in Slot, CommitUpdate(s)
  PROVE  ContactsInv'
<1> DEFINE r == open[s]
           left == IF r.number = r.old THEN phone ELSE Deactivated(phone, r.old)
<1>1. s \in Ops /\ r.op = "UPDATE" /\ ContactsTypeOK /\ AllActive(phone) /\ r \in Request
  BY SlotsAre DEF CommitUpdate, Ops, ContactsInv
<1>2. r.number \in PhoneOrNone /\ r.old \in PhoneOrNone
  BY <1>1 DEF ContactsInv, CarriesAll, Carries, Request
<1>3. PICK hidden \in BlindPhones(s) :
         phone' = IF r.number = None THEN left ELSE Attached(left, r.number, TRUE, hidden)
  BY DEF CommitUpdate
<1>4. left \in PhoneRows /\ AllActive(left) /\ Primaries(left) \subseteq Primaries(phone)
  BY <1>1, <1>2, DeactivatedIs, SlotsAre
<1>5. ~r.overtaken => hidden = {}
  BY <1>1, SeesAll
<1>6. contact' \in [ContactId -> ContactRow] /\ MainsOf(contact') = Mains
  BY <1>1, <1>2, MainIsRenumbered DEF CommitUpdate
<1>7. mirror' \in PhoneOrNone
  BY SyncedIs DEF CommitUpdate
<1>8. Ends(s)
  BY DEF CommitUpdate
<1> HIDE DEF r, left
<1>9. /\ phone' \in PhoneRows /\ AllActive(phone')
      /\ ~r.overtaken /\ AtMostOne(Primaries(phone)) => AtMostOne(Primaries(phone'))
  <2>1. AtMostOne(Primaries(phone)) => AtMostOne(Primaries(left))
    BY <1>4 DEF AtMostOne
  <2>2. CASE r.number = None
    BY <1>3, <1>4, <2>1, <2>2
  <2>3. CASE r.number # None
    <3>1. r.number \in Number /\ phone' = Attached(left, r.number, TRUE, hidden)
      BY <1>2, <1>3, <2>3 DEF PhoneOrNone
    <3> QED BY <1>4, <1>5, <2>1, <3>1, AttachedKeeps
  <2> QED BY <2>2, <2>3
<1> QED BY <1>1, <1>6, <1>7, <1>8, <1>9, EndKeeps DEF r

LEMMA ConvertKeeps ==
  ASSUME ContactsInv, NEW s \in Slot, CommitConvert(s)
  PROVE  ContactsInv'
<1> DEFINE r == open[s]
           c == First(FreshRows)
           row == [at |-> "here", main |-> FALSE, phone |-> r.number]
<1>1. s \in Ops /\ r.op = "CONVERT" /\ ContactsTypeOK /\ AllActive(phone)
  BY DEF CommitConvert, Ops, ContactsInv
<1>2. r.number \in PhoneOrNone
  BY <1>1 DEF ContactsInv, CarriesAll, Carries
<1>3. c \in ContactId /\ contact[c].at = "none"
  BY FreshIsFresh DEF CommitConvert
<1>4. row \in ContactRow /\ row.main = FALSE
  BY <1>2 DEF ContactRow
<1>5. contact' = [contact EXCEPT ![c] = row] /\ mirror' = mirror /\ Ends(s)
  BY DEF CommitConvert
<1>6. CASE r.number = None
  <2>1. phone' = phone
    BY <1>6 DEF CommitConvert
  <2> HIDE DEF r, c, row
  <2>2. /\ contact' \in [ContactId -> ContactRow]
        /\ MainsOf(contact') = (Mains \ {c}) \cup (IF row.at = "here" /\ row.main THEN {c} ELSE {})
    BY <1>1, <1>3, <1>4, <1>5, RowBecomes
  <2>3. AtMostOne(Mains) => AtMostOne(MainsOf(contact'))
    BY <1>4, <2>2 DEF AtMostOne
  <2> QED BY <1>1, <1>5, <2>1, <2>2, <2>3, EndKeeps, SlotsAre DEF r
<1>7. CASE r.number # None
  <2>1. PICK hidden \in BlindPhones(s) : phone' = Attached(phone, r.number, FALSE, hidden)
    BY <1>7 DEF CommitConvert
  <2>2. ~r.overtaken => hidden = {}
    BY <1>1, SeesAll
  <2>3. r.number \in Number
    BY <1>2, <1>7 DEF PhoneOrNone
  <2> HIDE DEF r, c, row
  <2>4. /\ phone' \in PhoneRows /\ AllActive(phone')
        /\ ~r.overtaken /\ AtMostOne(Primaries(phone)) => AtMostOne(Primaries(phone'))
    BY <1>1, <2>1, <2>2, <2>3, AttachedKeeps, SlotsAre
  <2>5. /\ contact' \in [ContactId -> ContactRow]
        /\ MainsOf(contact') = (Mains \ {c}) \cup (IF row.at = "here" /\ row.main THEN {c} ELSE {})
    BY <1>1, <1>3, <1>4, <1>5, RowBecomes
  <2>6. AtMostOne(Mains) => AtMostOne(MainsOf(contact'))
    BY <1>4, <2>5 DEF AtMostOne
  <2>7. mirror' \in PhoneOrNone
    BY <1>1, <1>5, SlotsAre
  <2> QED BY <1>1, <1>5, <2>4, <2>5, <2>6, <2>7, EndKeeps DEF r
<1> QED BY <1>6, <1>7

LEMMA OverwriteKeeps ==
  ASSUME ContactsInv, NEW s \in Slot, CommitOverwrite(s)
  PROVE  ContactsInv'
<1> DEFINE r == open[s]
<1>1. s \in Ops /\ r.op = "OVERWRITE" /\ ContactsTypeOK /\ AllActive(phone)
  BY DEF CommitOverwrite, Ops, ContactsInv
<1>2. r.number \in PhoneOrNone
  BY <1>1 DEF ContactsInv, CarriesAll, Carries
<1>3. contact' \in [ContactId -> ContactRow] /\ MainsOf(contact') = Mains
  BY <1>1, <1>2, MainIsRenumbered DEF CommitOverwrite
<1>4. mirror' \in PhoneOrNone /\ Ends(s)
  BY <1>2 DEF CommitOverwrite
<1>5. CASE r.number = None
  <2>1. phone' = phone
    BY <1>5 DEF CommitOverwrite
  <2> QED BY <1>1, <1>3, <1>4, <2>1, EndKeeps, SlotsAre
<1>6. CASE r.number # None
  <2>1. PICK hidden \in BlindPhones(s) : phone' = Attached(phone, r.number, TRUE, hidden)
    BY <1>6 DEF CommitOverwrite
  <2>2. ~r.overtaken => hidden = {}
    BY <1>1, SeesAll
  <2>3. r.number \in Number
    BY <1>2, <1>6 DEF PhoneOrNone
  <2> HIDE DEF r
  <2>4. /\ phone' \in PhoneRows /\ AllActive(phone')
        /\ ~r.overtaken /\ AtMostOne(Primaries(phone)) => AtMostOne(Primaries(phone'))
    BY <1>1, <2>1, <2>2, <2>3, AttachedKeeps, SlotsAre
  <2> QED BY <1>1, <1>3, <1>4, <2>4, EndKeeps DEF r
<1> QED BY <1>5, <1>6

-----------------------------------------------------------------------------
(* DELETE, statement by statement.                                          *)

LEMMA ToIs ==
  ASSUME ContactsInv, NEW s \in Ops, NEW step \in Step \ {"commit"}, open[s].op = "DELETE"
  PROVE  /\ To(s, step) \in Request /\ To(s, step) # NoRequest
         /\ To(s, step).op = "DELETE" /\ To(s, step).step = step /\ To(s, step).id = open[s].id
         /\ To(s, step).number = open[s].number /\ To(s, step).wasMain = open[s].wasMain
         /\ To(s, step).overtaken = open[s].overtaken
         /\ open[s] \in Request /\ open[s].id \in ContactId
<1>1. open[s] \in Request
  BY SlotsAre DEF ContactsInv
<1>2. open[s].id \in ContactId
  BY DEF ContactsInv, CarriesAll, Carries
<1> QED BY <1>1, <1>2, SlotsAre DEF To, Request, ContactsInv

LEMMA AtIs ==
  ASSUME ContactsInv, NEW s \in Slot, NEW step, DeleteAt(s, step)
  PROVE  s \in Ops /\ open[s].op = "DELETE" /\ open[s].step = step /\ ContactsTypeOK /\ AllActive(phone)
BY DEF ContactsInv, DeleteAt, Ops

LEMMA SoftDeleteKeeps ==
  ASSUME ContactsInv, NEW s \in Slot, SoftDelete(s)
  PROVE  ContactsInv'
<1> DEFINE id == open[s].id
           row == [contact[id] EXCEPT !.at = "gone"]
<1>1. s \in Ops /\ open[s].op = "DELETE" /\ open[s].step = "delete" /\ ContactsTypeOK /\ AllActive(phone)
  BY AtIs DEF SoftDelete
<1>2. PICK next : next = To(s, "phone")
  OBVIOUS
<1>3. /\ next \in Request /\ next # NoRequest /\ next.op = "DELETE" /\ next.step = "phone" /\ next.id = id
      /\ next.wasMain = open[s].wasMain /\ next.overtaken = open[s].overtaken /\ id \in ContactId
  BY <1>1, <1>2, ToIs DEF Step
<1>4. Writes(s, next) /\ UNCHANGED <<phone, mirror>> /\ id \in Here
  BY <1>2 DEF SoftDelete
<1>5. contact' = [contact EXCEPT ![id] = row]
  BY DEF SoftDelete
<1>6. contact[id] \in ContactRow /\ row \in ContactRow /\ row.at = "gone"
  BY <1>1, <1>3, SlotsAre DEF ContactRow
<1> HIDE DEF row
<1>7. /\ contact' \in [ContactId -> ContactRow]
      /\ LiveOf(contact') = Here \ {id} /\ MainsOf(contact') = Mains \ {id}
  <2>1. /\ contact' \in [ContactId -> ContactRow]
        /\ LiveOf(contact') = (Here \ {id}) \cup (IF row.at = "here" THEN {id} ELSE {})
        /\ MainsOf(contact') = (Mains \ {id}) \cup (IF row.at = "here" /\ row.main THEN {id} ELSE {})
    BY <1>1, <1>3, <1>5, <1>6, RowBecomes
  <2>2. row.at # "here"
    BY <1>6
  <2> QED BY <2>1, <2>2
<1>8. ~open[s].overtaken => open[s].wasMain = contact[id].main
  BY <1>1 DEF ContactsInv, RememberAll, Remembers
<1>9. id \in Mains <=> contact[id].main
  BY <1>4 DEF Mains, MainsOf, Here
<1> HIDE DEF id
<1>10. Carries(next) /\ Remembers(next, contact', phone')
  BY <1>3 DEF Carries, Remembers
<1>11. Promoting(next) <=> open[s].wasMain
  BY <1>3 DEF Promoting
<1>12. ~past.raced /\ ~past.moved => AtMostOne(Mains)
  BY DEF ContactsInv, UniqueMain
<1>13. AtMostOne(Mains) => AtMostOne(MainsOf(contact')) /\ (id \in Mains => MainsOf(contact') = {})
  BY <1>7 DEF AtMostOne
<1>14. ~open[s].overtaken /\ LosesMain(contact') => LosesMain(contact) \/ Promoting(next)
  BY <1>4, <1>7, <1>8, <1>9, <1>11 DEF LosesMain, Here, Mains
<1>15. ~Promoting(open[s])
  BY <1>1 DEF Promoting
<1>16. phone' \in PhoneRows /\ mirror' \in PhoneOrNone /\ AllActive(phone')
       /\ (AtMostOne(Primaries(phone)) => AtMostOne(Primaries(phone')))
  BY <1>1, <1>4, SlotsAre
<1> QED BY <1>1, <1>3, <1>4, <1>7, <1>8, <1>9, <1>10, <1>11, <1>12, <1>13, <1>14, <1>15, <1>16, WriteKeeps

\* A statement that leaves the contacts alone.
LEMMA SameContacts ==
  ASSUME ContactsInv, NEW s \in Ops, contact' = contact
  PROVE  /\ contact' \in [ContactId -> ContactRow] /\ MainsOf(contact') = Mains
         /\ ~past.raced /\ ~past.moved => AtMostOne(MainsOf(contact'))
         /\ ~past.raced /\ ~past.moved /\ ~open[s].overtaken /\ Promoting(open[s]) => MainsOf(contact') = {}
         /\ LosesMain(contact') <=> LosesMain(contact)
BY SlotsAre DEF ContactsInv, UniqueMain, Mains

LEMMA DeactivatePhoneKeeps ==
  ASSUME ContactsInv, NEW s \in Slot, DeactivatePhone(s)
  PROVE  ContactsInv'
<1>1. s \in Ops /\ open[s].op = "DELETE" /\ open[s].step = "phone" /\ ContactsTypeOK /\ AllActive(phone)
  BY AtIs DEF DeactivatePhone
<1>2. PICK next : next = To(s, "next")
  OBVIOUS
<1>3. /\ next \in Request /\ next # NoRequest /\ next.op = "DELETE" /\ next.step = "next" /\ next.id \in ContactId
      /\ next.overtaken = open[s].overtaken
  BY <1>1, <1>2, ToIs DEF Step
<1>4. contact' = contact /\ mirror' = mirror /\ phone' = Deactivated(phone, open[s].old)
  BY DEF DeactivatePhone
<1>5. open[s].old \in PhoneOrNone /\ mirror' \in PhoneOrNone
  BY <1>1, <1>4, SlotsAre DEF Request
<1>6. /\ phone' \in PhoneRows /\ AllActive(phone')
      /\ AtMostOne(Primaries(phone)) => AtMostOne(Primaries(phone'))
  <2>1. phone' \in PhoneRows /\ AllActive(phone') /\ Primaries(phone') \subseteq Primaries(phone)
    BY <1>1, <1>4, <1>5, DeactivatedIs, SlotsAre
  <2> QED BY <2>1 DEF AtMostOne
<1>7. CASE open[s].wasMain
  <2>1. Writes(s, next)
    BY <1>2, <1>7 DEF DeactivatePhone
  <2>2. Carries(next) /\ Remembers(next, contact', phone') /\ Promoting(next)
    BY <1>3 DEF Carries, Remembers, Promoting
  <2>3. Promoting(open[s])
    BY <1>1, <1>7 DEF Promoting
  <2> QED BY <1>1, <1>3, <1>4, <1>5, <1>6, <2>1, <2>2, <2>3, SameContacts, WriteKeeps
<1>8. CASE ~open[s].wasMain
  <2>1. Ends(s) /\ ~Promoting(open[s])
    BY <1>1, <1>8 DEF DeactivatePhone, Promoting
  <2> QED BY <1>1, <1>4, <1>5, <1>6, <2>1, SameContacts, EndKeeps
<1> QED BY <1>7, <1>8

LEMMA FindNextKeeps ==
  ASSUME ContactsInv, NEW s \in Slot, FindNext(s)
  PROVE  ContactsInv'
<1>1. s \in Ops /\ open[s].op = "DELETE" /\ open[s].step = "next" /\ ContactsTypeOK /\ AllActive(phone)
  BY AtIs DEF FindNext
<1>2. contact' = contact /\ mirror' = mirror /\ phone' = phone
  BY DEF FindNext
<1>3. phone' \in PhoneRows /\ mirror' \in PhoneOrNone /\ AllActive(phone')
  BY <1>1, <1>2, SlotsAre
<1>4. CASE Here = {}
  <2>1. Ends(s) /\ ~LosesMain(contact')
    BY <1>2, <1>4 DEF FindNext, LosesMain, Here
  <2> QED BY <1>1, <1>2, <1>3, <2>1, SameContacts, EndKeeps
<1>5. CASE Here # {}
  <2> DEFINE c == First(Here)
  <2>1. c \in Here /\ c \in ContactId
    BY <1>5, OldestIsThere DEF Here, LiveOf
  <2>2. contact[c] \in ContactRow /\ contact[c].at = "here"
    BY <1>1, <2>1, SlotsAre DEF Here, LiveOf
  <2>3. PICK next : next = [To(s, "promote") EXCEPT !.id = c, !.number = contact[c].phone]
    OBVIOUS
  <2>4. Writes(s, next)
    BY <1>5, <2>3 DEF FindNext
  <2>5. /\ To(s, "promote") \in Request /\ To(s, "promote").op = "DELETE" /\ To(s, "promote").step = "promote"
        /\ To(s, "promote").overtaken = open[s].overtaken
    BY <1>1, ToIs DEF Step
  <2> HIDE DEF c
  <2>6. /\ next \in Request /\ next.op = "DELETE" /\ next.step = "promote" /\ next.id = c
        /\ next.number \in PhoneOrNone /\ next.overtaken = open[s].overtaken
    BY <2>1, <2>2, <2>3, <2>5 DEF Request, ContactRow, Given
  <2>7. next # NoRequest
    BY <2>6 DEF NoRequest
  <2>8. Carries(next) /\ Remembers(next, contact', phone') /\ Promoting(next) /\ Promoting(open[s])
    BY <1>1, <1>2, <2>1, <2>2, <2>6 DEF Carries, Remembers, Promoting
  <2> QED BY <1>1, <1>2, <1>3, <2>4, <2>6, <2>7, <2>8, SameContacts, WriteKeeps
<1> QED BY <1>4, <1>5

LEMMA PromoteNextKeeps ==
  ASSUME ContactsInv, NEW s \in Slot, PromoteNext(s)
  PROVE  ContactsInv'
<1> DEFINE id == open[s].id
           row == [contact[id] EXCEPT !.main = TRUE]
<1>1. s \in Ops /\ open[s].op = "DELETE" /\ open[s].step = "promote" /\ ContactsTypeOK /\ AllActive(phone)
  BY AtIs DEF PromoteNext
<1> DEFINE step == IF open[s].number \in Short THEN "sync" ELSE "unset"
<1>2. PICK next : next = To(s, step)
  OBVIOUS
<1>3. /\ next \in Request /\ next # NoRequest /\ next.op = "DELETE" /\ next.step \in {"sync", "unset"} /\ next.id = id
      /\ next.number = open[s].number /\ next.overtaken = open[s].overtaken /\ id \in ContactId
  BY <1>1, <1>2, ToIs DEF Step
<1>4. phone' = phone /\ mirror' = mirror /\ contact' = [contact EXCEPT ![id] = row]
  BY DEF PromoteNext
<1>5. row \in ContactRow /\ row.at = contact[id].at /\ row.main
  BY <1>1, <1>3, SlotsAre DEF ContactRow
<1>6. ~open[s].overtaken => contact[id].at = "here"
  BY <1>1 DEF ContactsInv, RememberAll, Remembers
<1>7. open[s].number \in PhoneOrNone
  BY <1>1 DEF ContactsInv, CarriesAll, Carries
<1> HIDE DEF row, id
<1>8. /\ contact' \in [ContactId -> ContactRow]
      /\ LiveOf(contact') = (Here \ {id}) \cup (IF row.at = "here" THEN {id} ELSE {})
      /\ MainsOf(contact') = (Mains \ {id}) \cup (IF row.at = "here" /\ row.main THEN {id} ELSE {})
  BY <1>1, <1>3, <1>4, <1>5, RowBecomes
<1>9. ~past.raced /\ ~past.moved /\ ~open[s].overtaken => AtMostOne(MainsOf(contact'))
  <2>1. ~past.raced /\ ~past.moved /\ ~open[s].overtaken => Mains = {}
    BY <1>1 DEF ContactsInv, UniqueMain, Promoting
  <2> QED BY <1>8, <2>1 DEF AtMostOne
<1>10. ~open[s].overtaken => ~LosesMain(contact')
  BY <1>5, <1>6, <1>8 DEF LosesMain
<1>11. phone' \in PhoneRows /\ mirror' \in PhoneOrNone /\ AllActive(phone')
       /\ (AtMostOne(Primaries(phone)) => AtMostOne(Primaries(phone')))
  BY <1>1, <1>4, SlotsAre
<1>12. CASE open[s].number = None
  <2>1. Ends(s)
    BY <1>12 DEF PromoteNext
  <2> QED BY <1>1, <1>8, <1>9, <1>10, <1>11, <2>1, EndKeeps
<1>13. CASE open[s].number # None
  <2>1. Writes(s, next)
    BY <1>2, <1>13 DEF PromoteNext
  <2>2. Carries(next) /\ Remembers(next, contact', phone') /\ ~Promoting(next)
    BY <1>3, <1>7, <1>13 DEF Carries, Remembers, Promoting, PhoneOrNone
  <2> QED BY <1>1, <1>3, <1>8, <1>9, <1>10, <1>11, <2>1, <2>2, WriteKeeps
<1> QED BY <1>12, <1>13

LEMMA UnsetPrimaryKeeps ==
  ASSUME ContactsInv, NEW s \in Slot, UnsetPrimary(s)
  PROVE  ContactsInv'
<1>1. s \in Ops /\ open[s].op = "DELETE" /\ open[s].step = "unset" /\ ContactsTypeOK /\ AllActive(phone)
  BY AtIs DEF UnsetPrimary
<1>2. PICK next : next = To(s, "set")
  OBVIOUS
<1>3. /\ next \in Request /\ next # NoRequest /\ next.op = "DELETE" /\ next.step = "set" /\ next.id \in ContactId
      /\ next.number = open[s].number /\ next.overtaken = open[s].overtaken
  BY <1>1, <1>2, ToIs DEF Step
<1>4. contact' = contact /\ mirror' = mirror /\ phone' = Demoted(phone, Primaries(phone)) /\ Writes(s, next)
  BY <1>2 DEF UnsetPrimary
<1>5. open[s].number \in Number
  BY <1>1 DEF ContactsInv, CarriesAll, Carries
<1>6. phone' \in PhoneRows /\ mirror' \in PhoneOrNone /\ Primaries(phone') = {}
  <2>1. Primaries(phone) \in SUBSET Number
    BY DEF Primaries
  <2>2. phone' \in PhoneRows /\ Primaries(phone') = Primaries(phone) \ Primaries(phone)
    BY <1>1, <1>4, <2>1, DemotedIs, SlotsAre
  <2> QED BY <1>1, <1>4, <2>2, SlotsAre
<1>7. AllActive(phone') /\ AtMostOne(Primaries(phone'))
  BY <1>6 DEF AllActive, AtMostOne
<1>8. Carries(next) /\ Remembers(next, contact', phone') /\ ~Promoting(next) /\ ~Promoting(open[s])
  BY <1>1, <1>3, <1>5, <1>6 DEF Carries, Remembers, Promoting
<1> QED BY <1>1, <1>3, <1>4, <1>6, <1>7, <1>8, SameContacts, WriteKeeps

LEMMA SetNextKeeps ==
  ASSUME ContactsInv, NEW s \in Slot, SetNext(s)
  PROVE  ContactsInv'
<1> DEFINE n == open[s].number
<1>1. s \in Ops /\ open[s].op = "DELETE" /\ open[s].step = "set" /\ ContactsTypeOK /\ AllActive(phone)
  BY AtIs DEF SetNext
<1>2. PICK next : next = To(s, "sync")
  OBVIOUS
<1>3. /\ next \in Request /\ next # NoRequest /\ next.op = "DELETE" /\ next.step = "sync" /\ next.id \in ContactId
      /\ next.overtaken = open[s].overtaken
  BY <1>1, <1>2, ToIs DEF Step
<1>4. contact' = contact /\ mirror' = mirror /\ phone' = Promoted(phone, n) /\ Writes(s, next)
  BY <1>2 DEF SetNext
<1>5. n \in Number /\ (~open[s].overtaken => Primaries(phone) = {})
  BY <1>1 DEF ContactsInv, CarriesAll, Carries, RememberAll, Remembers
<1> HIDE DEF n
<1>6. /\ phone' \in PhoneRows /\ mirror' \in PhoneOrNone
      /\ \A m \in Number : phone'[m].status = phone[m].status
      /\ Primaries(phone') = Primaries(phone) \cup {m \in {n} : phone[m].status = "ACTIVE"}
  BY <1>1, <1>4, <1>5, PromotedIs, SlotsAre
<1>7. AllActive(phone')
  <2>1. Primaries(phone') \subseteq Number
    BY DEF Primaries
  <2> QED BY <1>1, <1>6, <2>1 DEF AllActive
<1>8. ~open[s].overtaken => AtMostOne(Primaries(phone'))
  BY <1>5, <1>6 DEF AtMostOne
<1>9. Carries(next) /\ Remembers(next, contact', phone') /\ ~Promoting(next) /\ ~Promoting(open[s])
  BY <1>1, <1>3 DEF Carries, Remembers, Promoting
<1> QED BY <1>1, <1>3, <1>4, <1>6, <1>7, <1>8, <1>9, SameContacts, WriteKeeps

LEMMA SyncKeeps ==
  ASSUME ContactsInv, NEW s \in Slot, SyncLeadPhone(s)
  PROVE  ContactsInv'
<1>1. s \in Ops /\ open[s].op = "DELETE" /\ open[s].step = "sync" /\ ContactsTypeOK /\ AllActive(phone)
  BY AtIs DEF SyncLeadPhone
<1>2. contact' = contact /\ phone' = phone /\ mirror' \in PhoneOrNone /\ Ends(s)
  BY SyncedIs DEF SyncLeadPhone
<1>3. ~Promoting(open[s]) /\ phone' \in PhoneRows /\ AllActive(phone')
  BY <1>1, <1>2, SlotsAre DEF Promoting
<1> QED BY <1>1, <1>2, <1>3, SameContacts, EndKeeps

-----------------------------------------------------------------------------
(* The other steps.                                                         *)

LEMMA BeginKeeps ==
  ASSUME ContactsInv, NEW s \in Slot, NEW op \in Op, NEW id \in ContactId \cup {0}, NEW number \in Given,
         NEW main \in {"yes", "no", "-"}, Begin(s, op, id, number, main),
         op \in {"PUT", "DELETE"} => id \in Here,
         op \in {"POST", "UPDATE", "CONVERT", "OVERWRITE"} => number \in PhoneOrNone
  PROVE  ContactsInv'
<1> DEFINE old == IF id = 0 THEN mirror ELSE contact[id].phone
           was == id # 0 /\ contact[id].main
           step == IF op = "DELETE" THEN "delete" ELSE "commit"
           r == [op |-> op, id |-> id, number |-> number, main |-> main, old |-> old, wasMain |-> was,
                 rows |-> Here, primaries |-> Primaries(phone), step |-> step,
                 behind |-> FALSE, overtaken |-> FALSE]
<1>1. /\ begun < MaxRequests /\ begun' = begun + 1 /\ s \notin Ops
      /\ open' = [open EXCEPT ![s] = r] /\ UNCHANGED <<contact, phone, mirror, past>>
  BY DEF Begin
<1>2. ContactsTypeOK
  BY DEF ContactsInv
<1>3. /\ old \in PhoneOrNone /\ was \in BOOLEAN /\ step \in Step
      /\ Here \in SUBSET ContactId /\ Primaries(phone) \in SUBSET Number
  BY <1>2, SlotsAre DEF ContactRow, Step, Here, LiveOf, Primaries
<1>4. id \in Here => id \in ContactId /\ contact[id].at = "here" /\ was = contact[id].main
  BY <1>2, BoundAssumption, SlotsAre DEF Here, LiveOf, ContactId, ContactRow
<1> HIDE DEF old, was
<1>5. /\ r \in Request /\ r # NoRequest
      /\ r.op = op /\ r.id = id /\ r.number = number /\ r.step = step /\ r.wasMain = was
      /\ r.rows = Here /\ r.primaries = Primaries(phone) /\ r.behind = FALSE /\ r.overtaken = FALSE
  BY <1>3 DEF Request, NoRequest
<1>6. Carries(r) /\ Remembers(r, contact, phone) /\ ~Promoting(r)
  <2> HIDE DEF r
  <2> QED BY <1>4, <1>5 DEF Carries, Remembers, Promoting, Op, Here
<1> HIDE DEF r
<1>7. /\ open' \in [Slot -> Request \cup {NoRequest}]
      /\ \A t \in Slot : open'[t] = IF t = s THEN r ELSE open[t]
  BY <1>1, <1>2, <1>5 DEF ContactsTypeOK
<1>8. Ops' = Ops \cup {s}
  BY <1>5, <1>7, SlotsAre DEF Ops, Op
<1>9. begun' \in 0..MaxRequests
  BY <1>1, <1>2, BoundAssumption DEF ContactsTypeOK
<1>10. ContactsTypeOK'
  BY <1>1, <1>2, <1>7, <1>9 DEF ContactsTypeOK
<1>11. CarriesAll' /\ RememberAll'
  <2>1. CarriesAll /\ RememberAll /\ Ops \subseteq Slot
    BY DEF ContactsInv, Ops
  <2> QED BY <1>1, <1>6, <1>7, <1>8, <2>1 DEF CarriesAll, RememberAll
<1>12. UniqueMain'
  <2>1. UniqueMain /\ Ops \subseteq Slot
    BY DEF ContactsInv, Ops
  <2> QED BY <1>1, <1>6, <1>7, <1>8, <2>1 DEF UniqueMain, Mains
<1>13. MainIsComing'
  <2>1. MainIsComing /\ Ops \subseteq Slot
    BY DEF ContactsInv, Ops
  <2> QED BY <1>1, <1>7, <1>8, <2>1 DEF MainIsComing, Mains, Here
<1>14. UniquePrimary' /\ AllActive(phone)'
  BY <1>1 DEF UniquePrimary, AllActive, ContactsInv
<1> QED BY <1>10, <1>11, <1>12, <1>13, <1>14 DEF ContactsInv

LEMMA RequestsKeep ==
  ASSUME ContactsInv, NEW s \in Slot, Requests(s)
  PROVE  ContactsInv'
<1>1. Here \subseteq ContactId /\ PhoneOrNone \subseteq Given /\ "-" \in Given
  BY DEF Here, LiveOf, Given
<1>2. ASSUME NEW n \in PhoneOrNone, NEW m \in {"yes", "no"}, Begin(s, "POST", 0, n, m)
      PROVE  ContactsInv'
  BY <1>1, <1>2, BeginKeeps DEF Op
<1>3. ASSUME NEW c \in Here, NEW n \in Given, NEW m \in {"yes", "no", "-"}, Begin(s, "PUT", c, n, m)
      PROVE  ContactsInv'
  BY <1>1, <1>3, BeginKeeps DEF Op
<1>4. ASSUME NEW c \in Here, Begin(s, "DELETE", c, "-", "-")
      PROVE  ContactsInv'
  BY <1>1, <1>4, BeginKeeps DEF Op
<1>5. ASSUME NEW n \in PhoneOrNone, NEW op \in {"UPDATE", "CONVERT", "OVERWRITE"}, Begin(s, op, 0, n, "-")
      PROVE  ContactsInv'
  BY <1>1, <1>5, BeginKeeps DEF Op
<1> QED BY <1>2, <1>3, <1>4, <1>5 DEF Requests

LEMMA FailKeeps ==
  ASSUME ContactsInv, NEW s \in Slot, Fail(s)
  PROVE  ContactsInv'
<1>1. /\ s \in Ops /\ open' = [open EXCEPT ![s] = NoRequest]
      /\ past' = [past EXCEPT !.failed = TRUE] /\ UNCHANGED <<contact, phone, mirror, begun>>
  BY DEF Fail
<1>2. ContactsTypeOK
  BY DEF ContactsInv
<1>3. /\ open' \in [Slot -> Request \cup {NoRequest}]
      /\ \A t \in Slot : open'[t] = IF t = s THEN NoRequest ELSE open[t]
  BY <1>1, <1>2 DEF ContactsTypeOK
<1>4. Ops' = Ops \ {s}
  BY <1>2, <1>3, SlotsAre DEF Ops
<1>5. /\ past' \in [raced : BOOLEAN, failed : BOOLEAN, moved : BOOLEAN, cleared : BOOLEAN]
      /\ past'.raced = past.raced /\ past'.moved = past.moved /\ past'.failed
  BY <1>1, <1>2 DEF ContactsTypeOK
<1>6. \A t \in Ops' : t \in Ops /\ open'[t] = open[t]
  BY <1>3, <1>4 DEF Ops
<1>7. ContactsTypeOK'
  BY <1>1, <1>2, <1>3, <1>5 DEF ContactsTypeOK
<1>8. CarriesAll' /\ RememberAll'
  BY <1>1, <1>6 DEF ContactsInv, CarriesAll, RememberAll
<1>9. UniqueMain' /\ UniquePrimary' /\ AllActive(phone)'
  BY <1>1, <1>5, <1>6 DEF ContactsInv, UniqueMain, UniquePrimary, AllActive, Mains
<1>10. MainIsComing'
  BY <1>5 DEF MainIsComing
<1> QED BY <1>7, <1>8, <1>9, <1>10 DEF ContactsInv

\* The contacts API overtakes whoever is in the middle of something.
LEMMA ApiKeeps ==
  ASSUME ContactsInv, begun < MaxRequests, begun' = begun + 1,
         contact' \in [ContactId -> ContactRow],
         open' = [t \in Slot |-> IF t \in Ops THEN [open[t] EXCEPT !.overtaken = TRUE] ELSE open[t]],
         phone' = phone, mirror' = mirror,
         past' \in [raced : BOOLEAN, failed : BOOLEAN, moved : BOOLEAN, cleared : BOOLEAN],
         past'.raced = past.raced, ~past'.cleared => ~LosesMain(contact'),
         ~past'.moved => ~past.moved /\ MainsOf(contact') \subseteq Mains
  PROVE  ContactsInv'
<1>1. ContactsTypeOK /\ Ops \subseteq Slot
  BY DEF ContactsInv, Ops
<1> DEFINE next(t) == [open[t] EXCEPT !.overtaken = TRUE]
<1>2. ASSUME NEW t \in Ops
      PROVE  /\ next(t) \in Request /\ next(t).overtaken
             /\ next(t).op = open[t].op /\ next(t).id = open[t].id
             /\ next(t).number = open[t].number /\ next(t).step = open[t].step
  <2>1. open[t] \in Request
    BY <1>1, SlotsAre
  <2> QED BY <2>1 DEF Request
<1>3. \A t \in Slot : open'[t] = IF t \in Ops THEN next(t) ELSE open[t]
  OBVIOUS
<1>4. open' = [t \in Slot |-> IF t \in Ops THEN next(t) ELSE open[t]]
  OBVIOUS
<1> HIDE DEF next
<1>5. open' \in [Slot -> Request \cup {NoRequest}]
  BY <1>1, <1>2, <1>4, SlotsAre
<1>6. Ops' = Ops
  BY <1>2, <1>3 DEF Ops
<1>7. begun' \in 0..MaxRequests
  BY <1>1, BoundAssumption DEF ContactsTypeOK
<1>8. ContactsTypeOK'
  BY <1>1, <1>5, <1>7 DEF ContactsTypeOK
<1>9. CarriesAll'
  BY <1>1, <1>2, <1>3, <1>6 DEF ContactsInv, CarriesAll, Carries
<1>10. RememberAll'
  BY <1>1, <1>2, <1>3, <1>6 DEF RememberAll
<1>11. UniqueMain'
  BY <1>1, <1>2, <1>3, <1>6 DEF ContactsInv, UniqueMain, AtMostOne, Mains
<1>12. UniquePrimary' /\ AllActive(phone)'
  BY DEF ContactsInv, UniquePrimary, AllActive
<1>13. MainIsComing'
  BY DEF MainIsComing, LosesMain, Here, Mains
<1> QED BY <1>8, <1>9, <1>10, <1>11, <1>12, <1>13 DEF ContactsInv

LEMMA CreateKeeps ==
  ASSUME ContactsInv, NEW n \in PhoneOrNone, createContact(n), begun < MaxRequests
  PROVE  ContactsInv'
<1> DEFINE c == First(FreshRows)
           row == [at |-> "here", main |-> FALSE, phone |-> n]
           cleared == past.cleared \/ LosesMain(contact')
<1>1. /\ begun' = begun + 1 /\ phone' = phone /\ mirror' = mirror
      /\ open' = [t \in Slot |-> IF t \in Ops THEN [open[t] EXCEPT !.overtaken = TRUE] ELSE open[t]]
  BY DEF createContact, ContactsApi
<1>2. contact' = [contact EXCEPT ![c] = row] /\ past' = [past EXCEPT !.cleared = cleared] /\ FreshRows # {}
  BY DEF createContact, ContactsApi
<1>3. c \in ContactId /\ row \in ContactRow /\ ~row.main /\ ContactsTypeOK
  BY <1>2, FreshIsFresh DEF ContactRow, ContactsInv
<1>4. cleared \in BOOLEAN /\ (~cleared => ~LosesMain(contact'))
  BY <1>3 DEF LosesMain, ContactsTypeOK
<1> HIDE DEF c, row, cleared
<1>5. contact' \in [ContactId -> ContactRow] /\ MainsOf(contact') \subseteq Mains
  BY <1>2, <1>3, RowBecomes
<1>6. /\ past' \in [raced : BOOLEAN, failed : BOOLEAN, moved : BOOLEAN, cleared : BOOLEAN]
      /\ past'.raced = past.raced /\ past'.cleared = cleared /\ past'.moved = past.moved
  BY <1>2, <1>3, <1>4 DEF ContactsTypeOK
<1> QED BY <1>1, <1>4, <1>5, <1>6, ApiKeeps

LEMMA UpdateContactKeeps ==
  ASSUME ContactsInv, NEW c \in ContactId, NEW n \in PhoneOrNone, NEW at \in {"here", "away"},
         updateContact(c, n, at), begun < MaxRequests
  PROVE  ContactsInv'
<1> DEFINE row == [contact[c] EXCEPT !.phone = n, !.at = at]
           cleared == past.cleared \/ LosesMain(contact')
           moved == past.moved \/ (contact[c].at = "away" /\ at = "here" /\ contact[c].main)
<1>1. /\ begun' = begun + 1 /\ phone' = phone /\ mirror' = mirror
      /\ open' = [t \in Slot |-> IF t \in Ops THEN [open[t] EXCEPT !.overtaken = TRUE] ELSE open[t]]
  BY DEF updateContact, ContactsApi
<1>2. /\ ContactsTypeOK /\ contact[c] \in ContactRow /\ contact[c].at \in {"here", "away"}
      /\ contact \in [ContactId -> ContactRow]
  BY SlotsAre DEF ContactsInv, updateContact
<1>3. past' = [past EXCEPT !.moved = moved, !.cleared = cleared]
  BY DEF updateContact
<1>4. contact' = [contact EXCEPT ![c] = row]
  <2>1. contact' = [contact EXCEPT ![c].phone = n, ![c].at = at]
    BY DEF updateContact, ContactsApi
  <2> QED BY <1>2, <2>1
<1>5. row \in ContactRow /\ row.at = at /\ row.main = contact[c].main
  BY <1>2 DEF ContactRow
<1>6. cleared \in BOOLEAN /\ (~cleared => ~LosesMain(contact'))
  BY <1>2 DEF LosesMain, ContactsTypeOK
<1>7. /\ moved \in BOOLEAN
      /\ ~moved => ~past.moved /\ (at = "here" /\ contact[c].main => contact[c].at = "here")
  BY <1>2 DEF ContactsTypeOK
<1> HIDE DEF row, cleared, moved
<1>8. /\ contact' \in [ContactId -> ContactRow]
      /\ MainsOf(contact') = (Mains \ {c}) \cup (IF row.at = "here" /\ row.main THEN {c} ELSE {})
  BY <1>2, <1>4, <1>5, RowBecomes
<1>9. ~moved => ~past.moved /\ MainsOf(contact') \subseteq Mains
  <2>1. contact[c].at = "here" /\ contact[c].main => c \in Mains
    BY DEF Mains, MainsOf, LiveOf
  <2> QED BY <1>5, <1>7, <1>8, <2>1
<1>10. /\ past' \in [raced : BOOLEAN, failed : BOOLEAN, moved : BOOLEAN, cleared : BOOLEAN]
       /\ past'.raced = past.raced /\ past'.cleared = cleared /\ past'.moved = moved
  BY <1>2, <1>3, <1>6, <1>7 DEF ContactsTypeOK
<1> QED BY <1>1, <1>6, <1>8, <1>9, <1>10, ApiKeeps

LEMMA DeleteContactKeeps ==
  ASSUME ContactsInv, NEW c \in ContactId, deleteContact(c), begun < MaxRequests
  PROVE  ContactsInv'
<1> DEFINE row == [contact[c] EXCEPT !.at = "gone"]
           cleared == past.cleared \/ LosesMain(contact')
<1>1. /\ begun' = begun + 1 /\ phone' = phone /\ mirror' = mirror
      /\ open' = [t \in Slot |-> IF t \in Ops THEN [open[t] EXCEPT !.overtaken = TRUE] ELSE open[t]]
  BY DEF deleteContact, ContactsApi
<1>2. contact' = [contact EXCEPT ![c] = row] /\ past' = [past EXCEPT !.cleared = cleared]
  BY DEF deleteContact, ContactsApi
<1>3. row \in ContactRow /\ row.at # "here" /\ ContactsTypeOK
  BY SlotsAre DEF ContactRow, ContactsInv
<1>4. cleared \in BOOLEAN /\ (~cleared => ~LosesMain(contact'))
  BY <1>3 DEF LosesMain, ContactsTypeOK
<1> HIDE DEF row, cleared
<1>5. contact' \in [ContactId -> ContactRow] /\ MainsOf(contact') \subseteq Mains
  BY <1>2, <1>3, RowBecomes
<1>6. /\ past' \in [raced : BOOLEAN, failed : BOOLEAN, moved : BOOLEAN, cleared : BOOLEAN]
      /\ past'.raced = past.raced /\ past'.cleared = cleared /\ past'.moved = past.moved
  BY <1>2, <1>3, <1>4 DEF ContactsTypeOK
<1> QED BY <1>1, <1>4, <1>5, <1>6, ApiKeeps

-----------------------------------------------------------------------------
LEMMA ContactsInitHolds == ContactsInit => ContactsInv
<1> SUFFICES ASSUME ContactsInit PROVE ContactsInv
  OBVIOUS
<1>1. PICK n \in PhoneOrNone, m \in PhoneOrNone, other \in BOOLEAN :
        /\ contact = [c \in ContactId |->
              IF c = 1 THEN [at |-> "here", main |-> TRUE, phone |-> n]
              ELSE IF c = 2 /\ other THEN [at |-> "away", main |-> TRUE, phone |-> m]
              ELSE [at |-> "none", main |-> FALSE, phone |-> None]]
        /\ ~other => m = None
        /\ phone = [k \in Number |->
              IF k = n THEN [status |-> "ACTIVE", primary |-> TRUE] ELSE [status |-> "none", primary |-> FALSE]]
        /\ mirror = n
        /\ open = [s \in Slot |-> NoRequest]
        /\ begun = 0
        /\ past = [raced |-> FALSE, failed |-> FALSE, moved |-> FALSE, cleared |-> FALSE]
  BY DEF ContactsInit
<1>2. contact \in [ContactId -> ContactRow]
  BY <1>1 DEF ContactRow, PhoneOrNone
<1>3. phone \in [Number -> PhoneRow] /\ Primaries(phone) = {k \in Number : k = n} /\ AllActive(phone)
  BY <1>1 DEF PhoneRow, Primaries, AllActive
<1>4. Ops = {}
  BY <1>1 DEF Ops, NoRequest
<1>5. ContactsTypeOK
  <2>1. open \in [Slot -> Request \cup {NoRequest}] /\ mirror \in PhoneOrNone
    BY <1>1
  <2>2. begun \in 0..MaxRequests
    BY <1>1, BoundAssumption
  <2>3. past \in [raced : BOOLEAN, failed : BOOLEAN, moved : BOOLEAN, cleared : BOOLEAN]
    BY <1>1
  <2> QED BY <1>2, <1>3, <2>1, <2>2, <2>3 DEF ContactsTypeOK
<1>6. 1 \in ContactId /\ Mains = {1}
  <2>1. 1 \in ContactId
    BY BoundAssumption DEF ContactId
  <2>2. \A c \in ContactId : (contact[c].at = "here" <=> c = 1) /\ (c = 1 => contact[c].main)
    BY <1>1
  <2>3. \A c \in ContactId : c \in LiveOf(contact) <=> c = 1
    BY <2>2 DEF LiveOf
  <2>4. LiveOf(contact) \subseteq ContactId
    BY DEF LiveOf
  <2> QED BY <2>1, <2>2, <2>3, <2>4 DEF Mains, MainsOf
<1>7. UniqueMain /\ UniquePrimary
  BY <1>3, <1>4, <1>6 DEF UniqueMain, UniquePrimary, AtMostOne
<1> QED BY <1>3, <1>4, <1>5, <1>6, <1>7 DEF ContactsInv, CarriesAll, RememberAll, MainIsComing

LEMMA ContactsStep == ContactsInv /\ [ContactsNext]_contactsVars => ContactsInv'
<1> SUFFICES ASSUME ContactsInv, [ContactsNext]_contactsVars PROVE ContactsInv'
  OBVIOUS
<1>1. CASE UNCHANGED contactsVars
  <2>1. UNCHANGED <<contact, phone, mirror, open, begun, past>>
    BY <1>1 DEF contactsVars
  <2>2. ContactsTypeOK' /\ CarriesAll' /\ RememberAll'
    BY <2>1 DEF ContactsInv, ContactsTypeOK, CarriesAll, RememberAll, Ops
  <2>3. UniqueMain' /\ UniquePrimary' /\ AllActive(phone)' /\ MainIsComing'
    BY <2>1 DEF ContactsInv, UniqueMain, UniquePrimary, AllActive, MainIsComing, Ops, Here, Mains
  <2> QED BY <2>2, <2>3 DEF ContactsInv
<1>2. ASSUME NEW s \in Slot, Commit(s) PROVE ContactsInv'
  BY <1>2, PostKeeps, PutKeeps, SoftDeleteKeeps, DeactivatePhoneKeeps, FindNextKeeps, PromoteNextKeeps,
     UnsetPrimaryKeeps, SetNextKeeps, SyncKeeps, UpdateKeeps, ConvertKeeps, OverwriteKeeps DEF Commit
<1>3. ASSUME NEW n \in PhoneOrNone, createContact(n) PROVE ContactsInv'
  BY <1>3, CreateKeeps DEF createContact, ContactsApi
<1>4. ASSUME NEW c \in ContactId, NEW n \in PhoneOrNone, NEW at \in {"here", "away"}, updateContact(c, n, at)
      PROVE  ContactsInv'
  BY <1>4, UpdateContactKeeps DEF updateContact, ContactsApi
<1>5. ASSUME NEW c \in ContactId, deleteContact(c) PROVE ContactsInv'
  BY <1>5, DeleteContactKeeps DEF deleteContact, ContactsApi
<1> QED BY <1>1, <1>2, <1>3, <1>4, <1>5, RequestsKeep, FailKeeps DEF ContactsNext

LEMMA ContactsInvariance == ContactsSpec => []ContactsInv
BY ContactsInitHolds, ContactsStep, PTL DEF ContactsSpec

\* Contacts, telephone rows, the lead's number and every open request stay well typed,
\* whichever statements of requests interleave.
THEOREM ContactsTypeCorrect == ContactsSpec => []ContactsTypeOK
<1>1. ContactsInv => ContactsTypeOK
  BY DEF ContactsInv
<1> QED BY <1>1, ContactsInvariance, PTL

LEMMA AtMostOneCounted ==
  ASSUME NEW S, AtMostOne(S)
  PROVE  Cardinality(S) <= 1
<1>1. CASE S = {}
  BY <1>1, FS_EmptySet
<1>2. CASE S # {}
  <2>1. PICK x : S = {x}
    BY <1>2 DEF AtMostOne
  <2>2. Cardinality({x}) = 1
    BY FS_Singleton
  <2> QED BY <2>1, <2>2
<1> QED BY <1>1, <1>2

\* Until two requests overlap or a main contact comes from another lead, a lead has one
\* main contact at most: POST and PUT demote whatever was there, and a DELETE promotes
\* only after it took the main one.
THEOREM MainIsUnique == ContactsSpec => []OneMain
<1>1. ContactsInv => OneMain
  BY AtMostOneCounted DEF ContactsInv, UniqueMain, OneMain
<1> QED BY <1>1, ContactsInvariance, PTL

\* Until two requests overlap a lead has one primary number at most, and at all times its
\* primary numbers are ACTIVE.
THEOREM PrimaryIsUnique == ContactsSpec => []OnePrimary
<1>1. ContactsInv => OnePrimary
  BY AtMostOneCounted DEF ContactsInv, UniquePrimary, AllActive, OnePrimary
<1> QED BY <1>1, ContactsInvariance, PTL

\* A lead that has contacts has a main one once its requests are done, if none overlapped
\* another, failed, or cleared it: the DELETE that takes it promotes the oldest that is left.
THEOREM MainStays == ContactsSpec => []MainSurvives
<1>1. ContactsInv => MainSurvives
  BY DEF ContactsInv, MainIsComing, MainSurvives
<1> QED BY <1>1, ContactsInvariance, PTL

LEMMA PostMakesItTheLeads ==
  ASSUME ContactsInv, NEW s \in Slot, CommitPost(s), open[s].main = "yes", ~open[s].overtaken,
         open[s].number # None
  PROVE  mirror' = open[s].number /\ Primaries(phone') = {open[s].number}
<1> DEFINE n == open[s].number
<1>1. s \in Ops /\ open[s].op = "POST" /\ ContactsTypeOK
  BY DEF CommitPost, Ops, ContactsInv
<1>2. n \in Number
  BY <1>1 DEF ContactsInv, CarriesAll, Carries, PhoneOrNone
<1>3. PICK hidden \in BlindPhones(s) : phone' = Attached(phone, n, open[s].main = "yes", hidden)
  BY DEF CommitPost
<1>4. mirror' \in Synced(phone')
  BY DEF CommitPost
<1>5. hidden = {} /\ (open[s].main = "yes") = TRUE
  BY <1>1, <1>3, SeesAll
<1> HIDE DEF n
<1>6. Primaries(phone') = {n}
  <2>1. phone' = Attached(phone, n, TRUE, {})
    BY <1>3, <1>5
  <2> QED BY <1>1, <1>2, <2>1, AttachedKeeps, SlotsAre
<1>7. Synced(phone') = {n}
  BY <1>6, SyncedIs
<1>8. mirror' = n
  BY <1>4, <1>7
<1> QED BY <1>6, <1>8 DEF n

LEMMA PutMakesItTheLeads ==
  ASSUME ContactsInv, NEW s \in Slot, CommitPut(s), open[s].main = "yes", ~open[s].overtaken,
         NEW n, n = IF open[s].number = "-" THEN open[s].old ELSE open[s].number, n # None
  PROVE  \/ mirror' = n /\ Primaries(phone') = {n}
         \/ /\ n = open[s].old /\ n \notin Short /\ phone[n].status # "ACTIVE"
            /\ mirror' = None /\ Primaries(phone') = {}
         \/ n = open[s].old /\ n \in Short /\ phone' = phone /\ mirror' \in Synced(phone)
<1>1. s \in Ops /\ open[s].op = "PUT" /\ ContactsTypeOK /\ AllActive(phone)
  BY DEF CommitPut, Ops, ContactsInv
<1>2. open[s] \in Request
  BY <1>1, SlotsAre
<1>3. PICK hidden \in BlindPhones(s) : phone' = AfterPut(open[s], hidden)
  BY DEF CommitPut
<1>4. mirror' \in Synced(phone')
  BY DEF CommitPut
<1>5. hidden = {}
  BY <1>1, <1>3, SeesAll
<1>6. \/ Primaries(phone') = {n}
      \/ n = open[s].old /\ n \notin Short /\ phone[n].status # "ACTIVE" /\ Primaries(phone') = {}
      \/ n = open[s].old /\ n \in Short /\ phone' = phone
  <2>1. phone' = AfterPut(open[s], {})
    BY <1>3, <1>5
  <2> QED BY <1>1, <1>2, <2>1, AfterPutKeeps
<1>7. /\ Primaries(phone') = {n} => Synced(phone') = {n}
      /\ Primaries(phone') = {} => Synced(phone') = {None}
  BY SyncedIs DEF Synced
<1> QED BY <1>4, <1>6, <1>7

\* The number of a contact that is made the main one becomes lead.phone and the only primary
\* number, when no request came in between.  A PUT that leaves the number as it was leaves the
\* lead without one if it is not ACTIVE, and the lead's numbers as they are if it is short.
THEOREM MainPhoneBecomesLeads == ContactsSpec => MainPhoneIsLeads
<1> DEFINE Becomes(s, n) ==
              \/ mirror' = n /\ Primaries(phone') = {n}
              \/ /\ open[s].op = "PUT" /\ n = open[s].old /\ n \notin Short /\ phone[n].status # "ACTIVE"
                 /\ mirror' = None /\ Primaries(phone') = {}
              \/ open[s].op = "PUT" /\ n = open[s].old /\ n \in Short /\ phone' = phone /\ mirror' \in Synced(phone)
<1>1. ContactsInv => \A s \in Slot :
          LET r == open[s]
              n == IF r.number = "-" THEN r.old ELSE r.number
              left == r.op = "PUT" /\ n = r.old
          IN (CommitPost(s) \/ CommitPut(s)) /\ r.main = "yes" /\ ~r.overtaken /\ n # None
                => \/ mirror' = n /\ Primaries(phone') = {n}
                   \/ /\ left /\ n \notin Short /\ phone[n].status # "ACTIVE"
                      /\ mirror' = None /\ Primaries(phone') = {}
                   \/ left /\ n \in Short /\ phone' = phone /\ mirror' \in Synced(phone)
  <2> SUFFICES ASSUME ContactsInv, NEW s \in Slot, NEW n,
                      n = IF open[s].number = "-" THEN open[s].old ELSE open[s].number,
                      CommitPost(s) \/ CommitPut(s), open[s].main = "yes", ~open[s].overtaken, n # None
               PROVE  Becomes(s, n)
    OBVIOUS
  <2>1. CASE CommitPost(s)
    <3>1. s \in Ops /\ open[s].op = "POST"
      BY <2>1 DEF CommitPost, Ops
    <3>2. open[s].number \in PhoneOrNone
      BY <3>1 DEF ContactsInv, CarriesAll, Carries
    <3>3. n = open[s].number
      BY <3>2, NoneAssumption DEF PhoneOrNone
    <3> QED BY <2>1, <3>3, PostMakesItTheLeads
  <2>2. CASE CommitPut(s)
    <3>1. open[s].op = "PUT"
      BY <2>2 DEF CommitPut
    <3> QED BY <2>2, <3>1, PutMakesItTheLeads
  <2> QED BY <2>1, <2>2
<1> QED BY <1>1, ContactsInvariance, PTL DEF MainPhoneIsLeads
=============================================================================
