------------------------------- MODULE Sales -------------------------------
(***************************************************************************)
(* Opportunities with the history of their stages, the types they refer    *)
(* to, invoices and payments (the services and routers of opportunities,   *)
(* opportunity types, invoices and payments, and what convertLead makes).  *)
(* A request that decides by what it read before is Begin, with its guards *)
(* on what it read, and Commit, by id; one that reads only to refuse is    *)
(* one step.  A change of stage is a transaction whose statements others   *)
(* come between.  Money is in cents; the code compares sums of floats, so  *)
(* that a comparison at equality may come out either way.  Titles, dates,  *)
(* numbers, currencies, and the order and names of the types are left out; *)
(* the lead, contact and owner that an opportunity refers to are taken to  *)
(* be there; an activity is a row that nothing here reads.                 *)
(***************************************************************************)
EXTENDS Integers, FiniteSetsExt

CONSTANTS
    Opp, Type, Invoice, Payment,   \* the ids there may be, all of one tenant
    Other,        \* the default type
    NoType,       \* the null type
    Owner,        \* users that own opportunities
    OpenStage,    \* the stages before the closed ones
    PROSPECTING,  \* the first of them
    Figure,       \* the figures of a new invoice
    Change,       \* the figures that an update sends
    Paid,         \* the amounts of payments, which may be negative
    Slots,        \* how many requests may be open at the same time
    MaxRequests   \* bound: how many requests are made (finite model)

Fields == {"amount", "tax", "discount", "other"}

Closed == {"CLOSED_WON", "CLOSED_LOST"}

ASSUME OppAssumption ==
    /\ Other \in Type /\ NoType \notin Type
    /\ PROSPECTING \in OpenStage /\ OpenStage \cap Closed = {}
ASSUME MoneyAssumption ==
    /\ Invoice # {} /\ Paid # {}
    /\ Figure \subseteq [Fields -> Int] /\ Paid \subseteq Int
    /\ \A c \in Change : DOMAIN c \subseteq Fields /\ \A f \in DOMAIN c : c[f] \in Int
ASSUME BoundAssumption == Slots \in Nat /\ MaxRequests \in Nat

VARIABLES
    opp,       \* the Opportunity rows
    history,   \* the Pipeline rows of each, by their enteredAt
    type,      \* where the OpportunityType rows are
    invoice,   \* the Invoice rows
    payment,   \* the Payment rows
    open,      \* the open request of each slot
    clock,     \* the enteredAt of the latest row that a change of stage made
    begun,     \* how many requests were made
    past       \* crossed: opportunities whose last change of stage overlapped another's
               \* writes; stale: those changed by one that another overtook; mistyped:
               \* those whose type was read or counted while it was being deleted or
               \* taken; loose: invoices that something else than a payment changed, or
               \* a payment that was overtaken; mixed: those whose last update another
               \* one overtook

rows == <<opp, history, type, invoice, payment>>
vars == <<rows, clock, open, begun, past>>

Slot == 1..Slots
Stage == OpenStage \cup Closed
Where == {"absent", "live", "deleted"}

\* DRAFT stands for every status that no payment writes, PENDING for every one but
\* CANCELLED.
InvoiceStatus == {"DRAFT", "PARTIALLY_PAID", "PAID"}
PaymentStatus == {"PENDING", "CANCELLED"}
OppRow == [where : Where, stage : Stage, owner : Owner, type : Type \cup {NoType}, closedAt : BOOLEAN]
HistoryRow == [stage : Stage, exited : BOOLEAN]
Pipeline(h) == DOMAIN h \subseteq 0..clock /\ h \in [DOMAIN h -> HistoryRow]
InvoiceRow == [where : Where, figures : [Fields -> Int], total : Int, status : InvoiceStatus]
PaymentRow == [where : Where, invoice : Invoice, amount : Paid, status : PaymentStatus]

Idle == [op |-> "idle"]
Least(S) == CHOOSE x \in S : TRUE

\* calculateFinancials: nothing is taxed below zero; the tax is rounded to a cent.
TotalOf(f) ==
    LET base == f["amount"] - f["discount"]
        tax == IF base > 0 THEN (base * f["tax"] + 50) \div 100 ELSE 0
    IN base + tax + f["other"]

LiveOpp(o) == opp[o].where = "live"
LiveInvoice(i) == invoice[i].where = "live"
Counted(i) == {p \in Payment : payment[p].where = "live" /\ payment[p].invoice = i /\ payment[p].status # "CANCELLED"}
PaidOf(i) == MapThenSumSet(LAMBDA p : payment[p].amount, Counted(i))

Fresh(t, u) == [where |-> "live", stage |-> PROSPECTING, owner |-> u, type |-> t, closedAt |-> FALSE]
Entered(stage) == [stage |-> stage, exited |-> FALSE]
NoHistory == [at \in {} |-> Entered(PROSPECTING)]
FirstRow == [at \in {0} |-> Entered(PROSPECTING)]
Issued(f, status) == [where |-> "live", figures |-> f, total |-> TotalOf(f), status |-> status]
NoOpp == [Fresh(NoType, Least(Owner)) EXCEPT !.where = "absent"]
NoInvoice == [where |-> "absent", figures |-> [f \in Fields |-> 0], total |-> 0, status |-> "DRAFT"]
NoPayment == [where |-> "absent", invoice |-> Least(Invoice), amount |-> Least(Paid), status |-> "PENDING"]

\* An opportunity is there, with its first stage, and an invoice.
Init ==
    \E f \in Figure, t \in Type \cup {NoType}, u \in Owner :
        /\ opp = [o \in Opp |-> IF o = Least(Opp) THEN Fresh(t, u) ELSE NoOpp]
        /\ history = [o \in Opp |-> IF o = Least(Opp) THEN FirstRow ELSE NoHistory]
        /\ type = [q \in Type |-> IF q \in {t, Other} THEN "live" ELSE "absent"]
        /\ invoice = [i \in Invoice |-> IF i = Least(Invoice) THEN Issued(f, "DRAFT") ELSE NoInvoice]
        /\ payment = [p \in Payment |-> NoPayment]
        /\ open = [s \in Slot |-> Idle]
        /\ clock = 0
        /\ begun = 0
        /\ past = [crossed |-> {}, stale |-> {}, mistyped |-> {}, loose |-> {}, mixed |-> {}]

-----------------------------------------------------------------------------
(* Requests.                                                               *)
Ops == {s \in Slot : open[s].op # "idle"}

Begin(s, request) ==
    /\ begun' = begun + 1
    /\ s \notin Ops /\ \A t \in 1..(s - 1) : t \in Ops
    /\ open' = [open EXCEPT ![s] = request]
    /\ UNCHANGED <<rows, clock, past>>

\* w wrote what r read: r is overtaken from then on.
Overtakes(w, r) ==
    \/ w.op = "MOVE" /\ r.op = "MOVE" /\ w.opp = r.opp
    \/ w.op \in {"PAY", "FIGURE"} /\ r.op = "PAY" /\ w.invoice = r.invoice
    \/ w.op = "FIGURE" /\ r.op = "FIGURE" /\ w.invoice = r.invoice

After(w, t) ==
    IF t \notin Ops THEN Idle
    ELSE IF Overtakes(w, open[t])
         THEN [open[t] EXCEPT !.overtaken = TRUE, !.late = @ \/ open[t].step # "exit"] ELSE open[t]

\* Request r no longer waits for s, and passes over the rows that s has exited.
Goes(s, r, exited) == IF r.op = "MOVE" THEN [r EXCEPT !.behind = @ \ {s}, !.exits = @ \ exited] ELSE r
Exited(w, r) == IF w.op = "MOVE" /\ Overtakes(w, r) THEN w.exits ELSE {}

\* The request of s is done, or did not do anything.
Done(s) ==
    /\ open' = [t \in Slot |-> IF t = s THEN Idle ELSE Goes(s, After(open[s], t), Exited(open[s], open[t]))]
    /\ UNCHANGED <<clock, begun>>
Fail(s) ==
    /\ s \in Ops
    /\ open' = [t \in Slot |-> IF t = s THEN Idle ELSE Goes(s, open[t], {})]
    /\ UNCHANGED <<rows, clock, begun, past>>

AtOnce(w) == begun' = begun + 1 /\ open' = [t \in Slot |-> After(w, t)] /\ UNCHANGED clock
At(s, op, step) == open[s].op = op /\ open[s].step = step

-----------------------------------------------------------------------------
(* Opportunities.                                                          *)
TypeRead(t) == t # NoType => type[t] = "live"

\* The type is read before the transaction that creates the opportunity and the row of
\* its first stage; a conversion has none.
BeginCreate(s, t, u) ==
    TypeRead(t) /\ Begin(s, [op |-> "CREATE", type |-> t, owner |-> u, step |-> "write"])

\* An opportunity takes a type that may be deleted by now.
Takes(o, t) == [past EXCEPT !.mistyped = IF TypeRead(t) THEN @ \ {o} ELSE @ \cup {o}]

createOpportunity(s) ==
    \E o \in Opp :
        /\ At(s, "CREATE", "write") /\ opp[o].where = "absent"
        /\ opp' = [opp EXCEPT ![o] = Fresh(open[s].type, open[s].owner)]
        /\ history' = [history EXCEPT ![o] = FirstRow]
        /\ past' = Takes(o, open[s].type)
        /\ UNCHANGED <<type, invoice, payment>>
        /\ Done(s)

\* sees: the owners in the caller's scope, asked for again in the WHERE of the write.
InScope(o, sees) == LiveOpp(o) /\ opp[o].owner \in sees

\* "-" is a field that is not sent.
BeginUpdate(s, o, t, u, sees) ==
    /\ InScope(o, sees) /\ (t # "-" => TypeRead(t))
    /\ Begin(s, [op |-> "UPDATE", opp |-> o, type |-> t, owner |-> u, sees |-> sees, step |-> "write"])

updateOpportunity(s) ==
    LET r == open[s]
        o == r.opp
    IN /\ At(s, "UPDATE", "write") /\ InScope(o, r.sees)
       /\ opp' = [opp EXCEPT ![o].type = IF r.type = "-" THEN @ ELSE r.type, ![o].owner = r.owner]
       /\ past' = IF r.type = "-" THEN past ELSE Takes(o, r.type)
       /\ UNCHANGED <<history, type, invoice, payment>>
       /\ Done(s)

deleteOpportunity(o) ==
    /\ LiveOpp(o)
    /\ opp' = [opp EXCEPT ![o].where = "deleted"]
    /\ AtOnce([op |-> "DELETE"])
    /\ UNCHANGED <<history, type, invoice, payment, past>>

\* Mutant: a closed deal can be advanced.
MayAdvanceAny(o) == TRUE
MayAdvance(o) == opp[o].stage \notin Closed

BeginMove(s, o, g, sees) ==
    /\ InScope(o, sees) /\ MayAdvance(o)
    /\ Begin(s, [op |-> "MOVE", opp |-> o, stage |-> g, sees |-> sees, step |-> "exit", exits |-> {},
                 behind |-> {}, at |-> 0, overtaken |-> FALSE, late |-> FALSE])

\* The other way to a closed stage, by its outcome.
OutcomeStage(outcome) == IF outcome = "WON" THEN "CLOSED_WON" ELSE "CLOSED_LOST"
closeOpportunity(s, o, outcome, sees) == BeginMove(s, o, OutcomeStage(outcome), sees)

\* The first statement of advanceStage: the rows that are open, as committed when it
\* begins, get an exit.  It waits for those who have exited one of them and not committed.
ExitStage(s) ==
    LET o == open[s].opp
        seen == {k \in DOMAIN history[o] : ~history[o][k].exited}
        ahead == {t \in Ops \ {s} : open[t].op = "MOVE" /\ open[t].opp = o /\ open[t].exits \cap seen # {}}
    IN /\ At(s, "MOVE", "exit")
       /\ open' = [open EXCEPT ![s].step = "enter", ![s].exits = seen, ![s].behind = ahead]
       /\ UNCHANGED <<rows, clock, begun, past>>

Waits(s) == \E t \in open[s].behind : open[t].exits \cap open[s].exits # {}

\* The second: the row of the new stage, which nobody else sees yet, has its enteredAt.
EnterStage(s) ==
    /\ At(s, "MOVE", "enter") /\ ~Waits(s)
    /\ clock' = clock + 1
    /\ open' = [open EXCEPT ![s].step = "write", ![s].at = clock + 1]
    /\ UNCHANGED <<rows, begun, past>>

\* The rows after change r: those that it exited, and its own.
Longer(h, r) ==
    [k \in DOMAIN h \cup {r.at} |->
        IF k = r.at THEN Entered(r.stage) ELSE [h[k] EXCEPT !.exited = @ \/ k \in r.exits]]

\* The rest of it.  When the WHERE finds no row everything is rolled back (Fail).
advanceStage(s) ==
    LET r == open[s]
        o == r.opp
    IN /\ At(s, "MOVE", "write") /\ InScope(o, r.sees)
       /\ history' = [history EXCEPT ![o] = Longer(@, r)]
       /\ opp' = [opp EXCEPT ![o].stage = r.stage, ![o].closedAt = @ \/ r.stage \in Closed]
       /\ past' = [past EXCEPT !.crossed = IF r.late THEN @ \cup {o} ELSE @ \ {o},
                               !.stale = IF r.overtaken THEN @ \cup {o} ELSE @]
       /\ UNCHANGED <<type, invoice, payment>>
       /\ Done(s)

-----------------------------------------------------------------------------
(* The types.                                                              *)
createType(t) ==
    /\ type[t] = "absent"
    /\ type' = [type EXCEPT ![t] = "live"]
    /\ AtOnce([op |-> "TYPE"])
    /\ UNCHANGED <<opp, history, invoice, payment, past>>

\* Mutant: it is not counted who uses the type.
NotInUseAny(t) == TRUE
NotInUse(t) == ~\E o \in Opp : LiveOpp(o) /\ opp[o].type = t

BeginDeleteType(s, t) ==
    /\ t # Other /\ type[t] = "live" /\ NotInUse(t)
    /\ Begin(s, [op |-> "DELETETYPE", type |-> t, count |-> {o \in Opp : opp[o].type = t}, step |-> "write"])

deleteType(s) ==
    LET t == open[s].type IN
    /\ At(s, "DELETETYPE", "write")
    /\ type' = [type EXCEPT ![t] = "deleted"]
    /\ past' = [past EXCEPT !.mistyped = @ \cup ({o \in Opp : opp[o].type = t} \ open[s].count)]
    /\ UNCHANGED <<opp, history, invoice, payment>>
    /\ Done(s)

-----------------------------------------------------------------------------
(* Invoices.                                                               *)
createInvoice(o, i, f, status) ==
    /\ LiveOpp(o) /\ invoice[i].where = "absent"
    /\ invoice' = [invoice EXCEPT ![i] = Issued(f, status)]
    /\ AtOnce([op |-> "ISSUE"])
    /\ UNCHANGED <<opp, history, type, payment, past>>

\* Mutant: a figure that is not sent counts as nothing.
MergedAlone(figures, change) == [f \in Fields |-> IF f \in DOMAIN change THEN change[f] ELSE 0]
\* The figures that are sent with those that are not, as they were read.
Merged(figures, change) == [f \in Fields |-> IF f \in DOMAIN change THEN change[f] ELSE figures[f]]

\* The total is made of what is sent and what is read.
BeginFigure(s, i, change, status) ==
    /\ LiveInvoice(i)
    /\ Begin(s, [op |-> "FIGURE", invoice |-> i, change |-> change, total |-> TotalOf(Merged(invoice[i].figures, change)),
                 status |-> status, step |-> "write", overtaken |-> FALSE, late |-> FALSE])

updateInvoice(s) ==
    LET r == open[s]
        i == r.invoice
    IN /\ At(s, "FIGURE", "write")
       /\ invoice' = [invoice EXCEPT ![i].figures = [f \in Fields |-> IF f \in DOMAIN r.change THEN r.change[f] ELSE @[f]],
                                     ![i].total = r.total, ![i].status = IF r.status = "-" THEN @ ELSE r.status]
       /\ past' = [past EXCEPT !.loose = @ \cup {i}, !.mixed = IF r.overtaken THEN @ \cup {i} ELSE @ \ {i}]
       /\ UNCHANGED <<opp, history, type, payment>>
       /\ Done(s)

deleteInvoice(i) ==
    /\ LiveInvoice(i)
    /\ invoice' = [invoice EXCEPT ![i].where = "deleted"]
    /\ AtOnce([op |-> "REMOVE"])
    /\ UNCHANGED <<opp, history, type, payment, past>>

-----------------------------------------------------------------------------
(* Payments.                                                               *)

\* Mutant: a payment is compared with the total, not with what is left of it.
FitsTotal(i, a) == a <= invoice[i].total + 1
\* What is paid must not exceed the balance, but for a cent.
Fits(i, a) == a <= invoice[i].total - PaidOf(i) + 1

\* What an invoice may become when sum is paid: the comparisons with the total less a cent,
\* and with nothing, come out either way when they are equal.
StatusAfter(i, sum) ==
    LET short == sum <= invoice[i].total - 1
    IN {status \in InvoiceStatus :
          \/ status = "PAID" /\ sum >= invoice[i].total - 1
          \/ status = "PARTIALLY_PAID" /\ short /\ sum >= 0
          \/ status = invoice[i].status /\ short /\ sum <= 0}

\* The payment's own status is not asked: a CANCELLED one counts here, and never again.
BeginPay(s, i, a, status) ==
    /\ LiveInvoice(i) /\ Fits(i, a)
    /\ \E becomes \in StatusAfter(i, PaidOf(i) + a) :
          Begin(s, [op |-> "PAY", invoice |-> i, amount |-> a, status |-> status, saw |-> invoice[i].status,
                    becomes |-> becomes, step |-> "write", overtaken |-> FALSE, late |-> FALSE])

createPayment(s) ==
    LET r == open[s]
        i == r.invoice
    IN \E p \in Payment :
       /\ At(s, "PAY", "write") /\ payment[p].where = "absent"
       /\ payment' = [payment EXCEPT ![p] = [where |-> "live", invoice |-> i, amount |-> r.amount, status |-> r.status]]
       /\ invoice' = IF r.becomes = r.saw THEN invoice ELSE [invoice EXCEPT ![i].status = r.becomes]
       /\ past' = [past EXCEPT !.loose = IF r.overtaken \/ r.status = "CANCELLED" THEN @ \cup {i} ELSE @ \ {i}]
       /\ UNCHANGED <<opp, history, type>>
       /\ Done(s)

\* Neither of these looks at the invoice.
updatePayment(p, a, status) ==
    /\ payment[p].where = "live"
    /\ payment' = [payment EXCEPT ![p].amount = a, ![p].status = status]
    /\ past' = [past EXCEPT !.loose = @ \cup {payment[p].invoice}]
    /\ AtOnce([op |-> "PAY", invoice |-> payment[p].invoice])
    /\ UNCHANGED <<opp, history, type, invoice>>

deletePayment(p) ==
    /\ payment[p].where = "live"
    /\ payment' = [payment EXCEPT ![p].where = "deleted"]
    /\ past' = [past EXCEPT !.loose = @ \cup {payment[p].invoice}]
    /\ AtOnce([op |-> "PAY", invoice |-> payment[p].invoice])
    /\ UNCHANGED <<opp, history, type, invoice>>

-----------------------------------------------------------------------------
Sees == {Owner} \cup {{u} : u \in Owner}

\* The requests that each router takes; one that is a single step uses no slot.
OpportunityRequests(s) ==
    \/ \E t \in Type \cup {NoType}, u \in Owner : BeginCreate(s, t, u)
    \/ \E o \in Opp, sees \in Sees :
          \/ \E t \in Type \cup {NoType, "-"}, u \in Owner : BeginUpdate(s, o, t, u, sees)
          \/ \E g \in Stage : BeginMove(s, o, g, sees)
          \/ \E outcome \in {"WON", "LOST"} : closeOpportunity(s, o, outcome, sees)
    \/ \E o \in Opp : deleteOpportunity(o)

TypeRequests(s) == \E t \in Type : createType(t) \/ BeginDeleteType(s, t)

InvoiceRequests(s) ==
    \E i \in Invoice :
       \/ \E o \in Opp, f \in Figure, status \in InvoiceStatus : createInvoice(o, i, f, status)
       \/ \E change \in Change, status \in InvoiceStatus \cup {"-"} : BeginFigure(s, i, change, status)
       \/ deleteInvoice(i)

PaymentRequests(s) ==
    \/ \E i \in Invoice, a \in Paid, status \in PaymentStatus : BeginPay(s, i, a, status)
    \/ \E p \in Payment : deletePayment(p) \/ (\E a \in Paid, status \in PaymentStatus : updatePayment(p, a, status))

Commits(s) ==
    \/ createOpportunity(s) \/ updateOpportunity(s) \/ ExitStage(s) \/ EnterStage(s) \/ advanceStage(s) \/ deleteType(s)
    \/ updateInvoice(s) \/ createPayment(s)

Next ==
    \E s \in Slot :
       \/ begun < MaxRequests /\ (OpportunityRequests(s) \/ TypeRequests(s) \/ InvoiceRequests(s) \/ PaymentRequests(s))
       \/ Commits(s) \/ Fail(s)

Spec == Init /\ [][Next]_vars

-----------------------------------------------------------------------------
TypeOK ==
    /\ opp \in [Opp -> OppRow]
    /\ DOMAIN history = Opp /\ \A o \in Opp : Pipeline(history[o])
    /\ clock \in Nat
    /\ type \in [Type -> Where]
    /\ invoice \in [Invoice -> InvoiceRow]
    /\ payment \in [Payment -> PaymentRow]
    /\ \A s \in Slot : open[s].op \in {"idle", "CREATE", "UPDATE", "MOVE", "DELETETYPE", "FIGURE", "PAY"}
    /\ begun \in 0..MaxRequests

\* The Pipeline rows of an opportunity are its history: its stage is always that of a row
\* without an exit.  That row is the last entered and the only one without, unless another
\* change of stage committed while the last one was at its statements; and what has an exit
\* was not closed, unless another committed since a change had read the stage.
HistoryIsTrue ==
    \A o \in Opp :
        LET h == history[o]
        IN opp[o].where # "absent" =>
              /\ \E k \in DOMAIN h : ~h[k].exited /\ h[k].stage = opp[o].stage
              /\ o \notin past.crossed => \A k \in DOMAIN h : h[k].exited = (\E j \in DOMAIN h : j > k)
              /\ o \notin past.stale =>
                    (\A k \in DOMAIN h : h[k].exited => h[k].stage \notin Closed) /\ opp[o].closedAt = (opp[o].stage \in Closed)

\* The type of an opportunity is not deleted, unless the opportunity took it while its
\* deletion was under way.
TypeInUseIsLive == \A o \in Opp \ past.mistyped : LiveOpp(o) => TypeRead(opp[o].type)

\* The total of an invoice is that of its figures, unless two updates overlapped.
TotalMatches == \A i \in Invoice \ past.mixed : LiveInvoice(i) => invoice[i].total = TotalOf(invoice[i].figures)

\* What is paid does not exceed the total by more than a cent; an invoice that is paid in
\* full is PAID, and one that is PAID from payments lacks at most a cent: from a payment
\* that nothing overtook until something else than a payment changes the invoice.
PaidWithinTotal ==
    \A i \in Invoice \ past.loose :
        LiveInvoice(i) /\ Counted(i) # {} =>
            /\ PaidOf(i) <= invoice[i].total + 1
            /\ PaidOf(i) >= invoice[i].total => invoice[i].status = "PAID"
            /\ invoice[i].status = "PAID" /\ PaidOf(i) > 0 => PaidOf(i) >= invoice[i].total - 1
=============================================================================
