---------------------------- MODULE LeadContacts ----------------------------
(***************************************************************************)
(* One lead, its contacts and its telephone numbers (phone.service, the    *)
(* lead-contacts and contacts routers, and what lead.service and the       *)
(* import write of them).  A contact has one number, one contact of a lead *)
(* is its main one, one number of a lead its primary one, and lead.phone   *)
(* mirrors that.  No request locks the lead first, so each is what it read *)
(* before its transaction (Begin) and the transaction (Commit); a          *)
(* statement of that sees the rows of some moment since Begin (READ        *)
(* COMMITTED), its writes go to the rows as they are.  DELETE of a contact *)
(* has no transaction, each of its statements is a step.  Names, companies *)
(* and e-mails are left out: they decide nothing but the refusal, for an   *)
(* e-mail another lead has, that Fail stands for.                          *)
(***************************************************************************)
EXTENDS Naturals, FiniteSets

CONSTANTS
    MaxContacts,  \* bound: contact rows, numbered in the order of createdAt
    Number,       \* telephone numbers: normalised, or as they are if that is null
    Short,        \* those with fewer than six digits, which normalizePhone makes null
    None,         \* null
    Slots,        \* how many requests may be open at the same time
    MaxRequests   \* bound: how many requests are made (finite model)

ASSUME BoundAssumption == MaxContacts \in Nat \ {0} /\ Slots \in Nat /\ MaxRequests \in Nat
ASSUME ShortAssumption == Short \subseteq Number
ASSUME NoneAssumption == None \notin Number /\ "-" \notin Number /\ None # "-"

VARIABLES
    contact,  \* the contact rows
    phone,    \* the LeadPhone row of each number
    mirror,   \* lead.phone
    open,     \* the open request of each slot
    begun,    \* how many requests were made
    past      \* raced: a request wrote after another it overlapped; failed: one ended
              \* without its write; moved: a main contact of another lead was given to
              \* this one; cleared: a request that deletes no contact left no main one

contactsVars == <<contact, phone, mirror, open, begun, past>>

ContactId == 1..MaxContacts
Slot == 1..Slots
PhoneOrNone == Number \cup {None}
Given == PhoneOrNone \cup {"-"}   \* "-" is a field left out

ContactRow == [at : {"none", "here", "away", "gone"}, main : BOOLEAN, phone : PhoneOrNone]
PhoneRow == [status : {"none", "ACTIVE", "INACTIVE"}, primary : BOOLEAN]

NoRequest == [op |-> "idle"]
Op == {"POST", "PUT", "DELETE", "UPDATE", "CONVERT", "OVERWRITE"}
Step == {"commit", "delete", "phone", "next", "promote", "unset", "set", "sync"}
\* old, wasMain: what was read before the transaction.  rows, primaries: the contacts
\* and primary numbers there were then.  behind: the transaction waits for a row that
\* another one wrote, so its later statements see what that one committed.
Request ==
    [op : Op, id : ContactId \cup {0}, number : Given, main : {"yes", "no", "-"},
     old : PhoneOrNone, wasMain : BOOLEAN, rows : SUBSET ContactId, primaries : SUBSET Number,
     step : Step, behind : BOOLEAN, overtaken : BOOLEAN]

LiveOf(rows) == {c \in ContactId : rows[c].at = "here"}
MainsOf(rows) == {c \in LiveOf(rows) : rows[c].main}
Here == LiveOf(contact)
Mains == MainsOf(contact)
LosesMain(rows) == LiveOf(rows) # {} /\ MainsOf(rows) = {}
Primaries(p) == {n \in Number : p[n].primary}
First(C) == CHOOSE c \in C : \A d \in C : c <= d

\* createLead has made the main contact and its number; another lead has one too.
ContactsInit ==
    \E n \in PhoneOrNone, m \in PhoneOrNone, other \in BOOLEAN :
        /\ contact = [c \in ContactId |->
              IF c = 1 THEN [at |-> "here", main |-> TRUE, phone |-> n]
              ELSE IF c = 2 /\ other THEN [at |-> "away", main |-> TRUE, phone |-> m]
              ELSE [at |-> "none", main |-> FALSE, phone |-> None]]
        /\ ~other => m = None
        /\ phone = [k \in Number |->
              IF k = n THEN [status |-> "ACTIVE", primary |-> TRUE] ELSE [status |-> "none", primary |-> FALSE]]
        /\ mirror = n
        /\ open = [s \in Slot |-> NoRequest]
        /\ begun = 0
        /\ past = [raced |-> FALSE, failed |-> FALSE, moved |-> FALSE, cleared |-> FALSE]

-----------------------------------------------------------------------------
(* PhoneService, on the rows p; blind: primary numbers that its statements *)
(* do not see yet.  A short number is found by no statement: each attach   *)
(* makes a new row of it, which stay ACTIVE and are here one, primary if   *)
(* one of them is; deactivate and setPrimary return at once.               *)
Demoted(p, seen) == [n \in Number |-> IF n \in seen THEN [p[n] EXCEPT !.primary = FALSE] ELSE p[n]]

\* Mutant: the number that was primary stays so.
AttachedToo(p, n, wanted, blind) ==
    [p EXCEPT ![n] = [status |-> "ACTIVE", primary |-> wanted \/ Primaries(p) \ blind = {}]]

\* R9: primary when asked for, or when there is no primary; otherwise not, the
\* number that is attached once more included, unless that makes another row.
Attached(p, n, wanted, blind) ==
    LET seen == Primaries(p) \ blind
        primary == wanted \/ seen = {}
    IN [Demoted(p, IF primary THEN seen ELSE {}) EXCEPT
           ![n] = [status |-> "ACTIVE", primary |-> primary \/ (n \in Short /\ p[n].primary)]]

Deactivated(p, n) ==
    IF n \notin Short \cup {None} /\ p[n].status = "ACTIVE"
    THEN [p EXCEPT ![n] = [status |-> "INACTIVE", primary |-> FALSE]] ELSE p

\* The old primary goes whether or not the new one is ACTIVE.
Promoted(p, n) == IF p[n].status = "ACTIVE" THEN [p EXCEPT ![n].primary = TRUE] ELSE p
WithPrimary(p, n, blind) ==
    IF n \in Short THEN p ELSE Promoted(Demoted(p, Primaries(p) \ blind), n)

Synced(p) == IF Primaries(p) = {} THEN {None} ELSE Primaries(p)

-----------------------------------------------------------------------------
Ops == {s \in Slot : open[s].op # "idle"}

\* UPDATE, CONVERT and OVERWRITE write the lead's row first; a request that makes a
\* contact the main one writes the others first, PUT and DELETE their own.
LeadFirst(op) == op \in {"UPDATE", "CONVERT", "OVERWRITE"}
Written(r) == (IF r.main = "yes" THEN r.rows ELSE {}) \cup (IF r.op \in {"PUT", "DELETE"} THEN {r.id} ELSE {})

Overtaken(r, s) ==
    [t \in Slot |->
        IF t \notin Ops \/ t = s THEN open[t]
        ELSE [open[t] EXCEPT !.overtaken = TRUE,
                             !.behind = \/ @
                                        \/ Written(open[t]) \cap Written(r) # {}
                                        \/ LeadFirst(open[t].op) /\ LeadFirst(r.op)]]

Begin(s, op, id, number, main) ==
    /\ begun < MaxRequests /\ begun' = begun + 1
    /\ s \notin Ops /\ \A t \in 1..(s - 1) : t \in Ops
    /\ open' = [open EXCEPT ![s] =
          [op |-> op, id |-> id, number |-> number, main |-> main,
           old |-> IF id = 0 THEN mirror ELSE contact[id].phone,
           wasMain |-> id # 0 /\ contact[id].main,
           rows |-> Here, primaries |-> Primaries(phone),
           step |-> IF op = "DELETE" THEN "delete" ELSE "commit",
           behind |-> FALSE, overtaken |-> FALSE]]
    /\ UNCHANGED <<contact, phone, mirror, past>>

\* The transaction of s commits; next is the request of s from then on.
Writes(s, next) ==
    /\ open' = [Overtaken(open[s], s) EXCEPT ![s] = next]
    /\ past' = [past EXCEPT !.raced = @ \/ open[s].overtaken,
                            !.cleared = @ \/ (open[s].op # "DELETE" /\ LosesMain(contact'))]
    /\ UNCHANGED begun

Ends(s) == Writes(s, NoRequest)

\* The request ends without a write: 404, a refused value, a failing database or a
\* crash; a transaction is rolled back, what DELETE wrote before stays.
Fail(s) ==
    /\ s \in Ops
    /\ open' = [open EXCEPT ![s] = NoRequest]
    /\ past' = [past EXCEPT !.failed = TRUE]
    /\ UNCHANGED <<contact, phone, mirror, begun>>

\* The live contacts and the primary numbers that a statement of s may not see.
BlindRows(s) == {{}, Here \ open[s].rows}
BlindPhones(s) == IF open[s].behind THEN {{}} ELSE {{}, Primaries(phone) \ open[s].primaries}

Demoting(C) == [c \in ContactId |-> IF c \in C THEN [contact[c] EXCEPT !.main = FALSE] ELSE contact[c]]
FreshRows == {c \in ContactId : contact[c].at = "none"}

\* Mutant: the other contacts stay main.
CommitPostToo(s) ==
    /\ open[s].op = "POST" /\ FreshRows # {}
    /\ contact' = [contact EXCEPT ![First(FreshRows)] =
          [at |-> "here", main |-> open[s].main = "yes", phone |-> open[s].number]]
    /\ UNCHANGED <<phone, mirror>>
    /\ Ends(s)

\* POST /leads/:leadId/contacts
CommitPost(s) ==
    LET r == open[s] IN
    /\ r.op = "POST" /\ FreshRows # {}
    /\ \E blind \in BlindRows(s) :
          contact' = [Demoting(IF r.main = "yes" THEN Here \ blind ELSE {}) EXCEPT ![First(FreshRows)] =
                        [at |-> "here", main |-> r.main = "yes", phone |-> r.number]]
    /\ IF r.number = None THEN UNCHANGED <<phone, mirror>>
       ELSE /\ \E blind \in BlindPhones(s) : phone' = Attached(phone, r.number, r.main = "yes", blind)
            /\ IF r.main = "yes" THEN mirror' \in Synced(phone') ELSE UNCHANGED mirror
    /\ Ends(s)

\* The phone rows after a PUT: a number that differs from the one read before the
\* transaction replaces it, and R4: the main contact's number is the primary one.
\* Mutant: R4 is left out.
AfterPutPlain(r, blind) ==
    IF r.number \notin {"-", r.old} /\ r.number # None
    THEN Attached(Deactivated(phone, r.old), r.number, r.main = "yes", blind) ELSE phone

AfterPut(r, blind) ==
    LET changed == r.number \notin {"-", r.old}
        left == IF changed THEN Deactivated(phone, r.old) ELSE phone
        attached == IF changed /\ r.number # None THEN Attached(left, r.number, r.main = "yes", blind) ELSE left
        effective == IF r.number = "-" THEN r.old ELSE r.number
    IN IF r.main = "yes" /\ effective # None THEN WithPrimary(attached, effective, blind) ELSE attached

Edited(row, r) ==
    [row EXCEPT !.main = IF r.main = "-" THEN @ ELSE r.main = "yes",
                !.phone = IF r.number = "-" THEN @ ELSE r.number]

\* PUT /leads/:leadId/contacts/:contactId
CommitPut(s) ==
    LET r == open[s] IN
    /\ r.op = "PUT" /\ r.id \in Here
    /\ \E blind \in BlindRows(s) :
          contact' = [Demoting(IF r.main = "yes" THEN Here \ (blind \cup {r.id}) ELSE {}) EXCEPT
                        ![r.id] = Edited(@, r)]
    /\ \E blind \in BlindPhones(s) : phone' = AfterPut(r, blind)
    /\ IF r.main = "yes" /\ (IF r.number = "-" THEN r.old ELSE r.number) # None
       THEN mirror' \in Synced(phone') ELSE UNCHANGED mirror
    /\ Ends(s)

-----------------------------------------------------------------------------
\* DELETE /leads/:leadId/contacts/:contactId, statement by statement.
To(s, step) == [open[s] EXCEPT !.step = step]
DeleteAt(s, step) == open[s].op = "DELETE" /\ open[s].step = step

SoftDelete(s) ==
    /\ DeleteAt(s, "delete") /\ open[s].id \in Here
    /\ contact' = [contact EXCEPT ![open[s].id].at = "gone"]
    /\ UNCHANGED <<phone, mirror>>
    /\ Writes(s, To(s, "phone"))

DeactivatePhone(s) ==
    /\ DeleteAt(s, "phone")
    /\ phone' = Deactivated(phone, open[s].old)
    /\ UNCHANGED <<contact, mirror>>
    /\ IF open[s].wasMain THEN Writes(s, To(s, "next")) ELSE Ends(s)

\* Mutant: no other contact takes the place of the main one.
FindNobody(s) == DeleteAt(s, "next") /\ UNCHANGED <<contact, phone, mirror>> /\ Ends(s)

\* The oldest live contact is to be the main one.
FindNext(s) ==
    /\ DeleteAt(s, "next")
    /\ UNCHANGED <<contact, phone, mirror>>
    /\ IF Here = {} THEN Ends(s)
       ELSE Writes(s, [To(s, "promote") EXCEPT !.id = First(Here), !.number = contact[First(Here)].phone])

\* By id, wherever it is by now unless it is deleted.
PromoteNext(s) ==
    /\ DeleteAt(s, "promote") /\ contact[open[s].id].at # "gone"
    /\ contact' = [contact EXCEPT ![open[s].id].main = TRUE]
    /\ UNCHANGED <<phone, mirror>>
    /\ IF open[s].number = None THEN Ends(s)
       ELSE Writes(s, To(s, IF open[s].number \in Short THEN "sync" ELSE "unset"))

UnsetPrimary(s) ==
    /\ DeleteAt(s, "unset")
    /\ phone' = Demoted(phone, Primaries(phone))
    /\ UNCHANGED <<contact, mirror>>
    /\ Writes(s, To(s, "set"))

SetNext(s) ==
    /\ DeleteAt(s, "set")
    /\ phone' = Promoted(phone, open[s].number)
    /\ UNCHANGED <<contact, mirror>>
    /\ Writes(s, To(s, "sync"))

SyncLeadPhone(s) ==
    /\ DeleteAt(s, "sync")
    /\ mirror' \in Synced(phone)
    /\ UNCHANGED <<contact, phone>>
    /\ Ends(s)

-----------------------------------------------------------------------------
\* updateLead with a phone: the old number is what lead.phone was before.
CommitUpdate(s) ==
    LET r == open[s]
        left == IF r.number = r.old THEN phone ELSE Deactivated(phone, r.old)
    IN /\ r.op = "UPDATE"
       /\ \E blind \in BlindPhones(s) :
             phone' = IF r.number = None THEN left ELSE Attached(left, r.number, TRUE, blind)
       /\ mirror' \in Synced(phone')
       /\ IF Mains = {} THEN UNCHANGED contact
          ELSE \E c \in Mains : contact' = [contact EXCEPT ![c].phone = r.number]
       /\ Ends(s)

\* convertLead makes a contact and attaches its number.
CommitConvert(s) ==
    LET r == open[s] IN
    /\ r.op = "CONVERT" /\ FreshRows # {}
    /\ contact' = [contact EXCEPT ![First(FreshRows)] = [at |-> "here", main |-> FALSE, phone |-> r.number]]
    /\ IF r.number = None THEN UNCHANGED phone
       ELSE \E blind \in BlindPhones(s) : phone' = Attached(phone, r.number, FALSE, blind)
    /\ UNCHANGED mirror
    /\ Ends(s)

\* The import's overwrite sets the mirror itself and leaves the old number ACTIVE.
CommitOverwrite(s) ==
    LET r == open[s] IN
    /\ r.op = "OVERWRITE"
    /\ mirror' = r.number
    /\ IF r.number = None THEN UNCHANGED phone
       ELSE \E blind \in BlindPhones(s) : phone' = Attached(phone, r.number, TRUE, blind)
    /\ IF Mains = {} THEN UNCHANGED contact
       ELSE \E c \in Mains : contact' = [contact EXCEPT ![c].phone = r.number]
    /\ Ends(s)

-----------------------------------------------------------------------------
\* The contacts API writes one row in one statement, and no telephone number.
ContactsApi(New) ==
    /\ begun < MaxRequests /\ begun' = begun + 1
    /\ contact' = New
    /\ open' = [t \in Slot |-> IF t \in Ops THEN [open[t] EXCEPT !.overtaken = TRUE] ELSE open[t]]
    /\ UNCHANGED <<phone, mirror>>

createContact(n) ==
    /\ FreshRows # {}
    /\ ContactsApi([contact EXCEPT ![First(FreshRows)] = [at |-> "here", main |-> FALSE, phone |-> n]])
    /\ past' = [past EXCEPT !.cleared = @ \/ LosesMain(contact')]

\* A contact goes to another lead, or comes from there, with its isMain.
updateContact(c, n, at) ==
    /\ contact[c].at \in {"here", "away"}
    /\ ContactsApi([contact EXCEPT ![c].phone = n, ![c].at = at])
    /\ past' = [past EXCEPT !.moved = @ \/ (contact[c].at = "away" /\ at = "here" /\ contact[c].main),
                            !.cleared = @ \/ LosesMain(contact')]

deleteContact(c) ==
    /\ contact[c].at \in {"here", "away"}
    /\ ContactsApi([contact EXCEPT ![c].at = "gone"])
    /\ past' = [past EXCEPT !.cleared = @ \/ LosesMain(contact')]

-----------------------------------------------------------------------------
Requests(s) ==
    \/ \E n \in PhoneOrNone, m \in {"yes", "no"} : Begin(s, "POST", 0, n, m)
    \/ \E c \in Here, n \in Given, m \in {"yes", "no", "-"} : Begin(s, "PUT", c, n, m)
    \/ \E c \in Here : Begin(s, "DELETE", c, "-", "-")
    \/ \E n \in PhoneOrNone, op \in {"UPDATE", "CONVERT", "OVERWRITE"} : Begin(s, op, 0, n, "-")

Commit(s) ==
    \/ CommitPost(s) \/ CommitPut(s)
    \/ SoftDelete(s) \/ DeactivatePhone(s) \/ FindNext(s) \/ PromoteNext(s)
    \/ UnsetPrimary(s) \/ SetNext(s) \/ SyncLeadPhone(s)
    \/ CommitUpdate(s) \/ CommitConvert(s) \/ CommitOverwrite(s)

ContactsNext ==
    \/ begun < MaxRequests /\ \E s \in Slot : Requests(s)
    \/ \E s \in Slot : Commit(s) \/ Fail(s)
    \/ \E n \in PhoneOrNone : createContact(n)
    \/ \E c \in ContactId, n \in PhoneOrNone, at \in {"here", "away"} : updateContact(c, n, at)
    \/ \E c \in ContactId : deleteContact(c)

ContactsSpec == ContactsInit /\ [][ContactsNext]_contactsVars

-----------------------------------------------------------------------------
ContactsTypeOK ==
    /\ contact \in [ContactId -> ContactRow]
    /\ phone \in [Number -> PhoneRow]
    /\ mirror \in PhoneOrNone
    /\ open \in [Slot -> Request \cup {NoRequest}]
    /\ begun \in 0..MaxRequests
    /\ past \in [raced : BOOLEAN, failed : BOOLEAN, moved : BOOLEAN, cleared : BOOLEAN]

\* A lead has one main contact at most, until two requests overlap or the contacts
\* API gives it the main contact of another lead.
OneMain == ~past.raced /\ ~past.moved => Cardinality(Mains) <= 1

\* A lead has one primary number at most, and it is ACTIVE, until two requests
\* overlap.
OnePrimary ==
    /\ ~past.raced => Cardinality(Primaries(phone)) <= 1
    /\ \A n \in Primaries(phone) : phone[n].status = "ACTIVE"

\* A lead that has contacts has a main one, unless a request overlapped another or
\* failed, or one that does not delete a main contact left the lead without it.
MainSurvives ==
    Ops = {} /\ ~past.raced /\ ~past.failed /\ ~past.cleared => (Here # {} => Mains # {})

\* R4: the number of a contact that is made the main one becomes lead.phone and the
\* lead's only primary number, if no other request came in between.  There are two cases
\* where it does not, both of a PUT that leaves the number as it was: a number that is not
\* ACTIVE leaves the lead without one, a short one changes no number.
MainPhoneIsLeads ==
    [][\A s \in Slot :
          LET r == open[s]
              n == IF r.number = "-" THEN r.old ELSE r.number
              left == r.op = "PUT" /\ n = r.old
          IN (CommitPost(s) \/ CommitPut(s)) /\ r.main = "yes" /\ ~r.overtaken /\ n # None
                => \/ mirror' = n /\ Primaries(phone') = {n}
                   \/ /\ left /\ n \notin Short /\ phone[n].status # "ACTIVE"
                      /\ mirror' = None /\ Primaries(phone') = {}
                   \/ left /\ n \in Short /\ phone' = phone /\ mirror' \in Synced(phone)]_contactsVars
=============================================================================
