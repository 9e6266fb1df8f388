---------------------------- MODULE Sales_proofs ----------------------------
(***************************************************************************)
(* Theorems about Sales for any number of opportunities, types, invoices,  *)
(* payments and open requests.  What makes them inductive is what an open  *)
(* request still knows when it writes: unless another one overtook it, the *)
(* stage it moves from, the rows it will close, the figures it totals and  *)
(* the balance it pays from are those it read.  A balance is a sum over a  *)
(* finite set of payments, so what such sums are comes first.              *)
(***************************************************************************)
EXTENDS Sales, FiniteSetTheorems, WellFoundedInduction, TLAPS

-----------------------------------------------------------------------------
(* What a finite set of payments amounts to.                                *)

Sum(pay, S) == MapThenSumSet(LAMBDA p : pay[p].amount, S)

\* One step of the sum, from the sums of smaller sets.
Adding(g, pay, s) == IF s = {} THEN 0 ELSE pay[Least(s)].amount + g[s \ {Least(s)}]

Sums(g, pay, S) == g = [s \in SUBSET S |-> Adding(g, pay, s)]

LEMMA LeastNumber ==
  ASSUME NEW T \in SUBSET Nat, T # {}
  PROVE  \E n \in T : \A m \in T : n <= m
<1>1. PICK x \in T : \A y \in T : ~ (<<y, x>> \in OpToRel(<, Nat))
  BY NatLessThanWellFounded, WFMin
<1>2. \A y \in T : ~(y < x)
  BY <1>1 DEF OpToRel
<1> QED BY <1>2

\* Among finite sets there is a smallest one: induction over finite sets rests on it.
LEMMA SmallestSet ==
  ASSUME NEW C, C # {}, \A s \in C : IsFiniteSet(s)
  PROVE  \E s \in C : \A x \in s : s \ {x} \notin C
<1> DEFINE T == {Cardinality(s) : s \in C}
<1>1. T \in SUBSET Nat /\ T # {}
  BY FS_CardinalityType
<1>2. PICK n \in T : \A m \in T : n <= m
  BY <1>1, LeastNumber
<1>3. PICK s \in C : Cardinality(s) = n
  BY <1>2
<1>4. ASSUME NEW x \in s, s \ {x} \in C PROVE FALSE
  <2>1. Cardinality(s \ {x}) = Cardinality(s) - 1 /\ Cardinality(s) \in Nat
    BY <1>4, FS_RemoveElement, FS_CardinalityType
  <2> QED BY <1>2, <1>3, <1>4, <2>1
<1> QED BY <1>4

LEMMA Smaller ==
  ASSUME NEW s, IsFiniteSet(s), s # {}
  PROVE  /\ Least(s) \in s /\ s \ {Least(s)} \subseteq s /\ IsFiniteSet(s \ {Least(s)})
         /\ Cardinality(s) \in Nat /\ Cardinality(s \ {Least(s)}) = Cardinality(s) - 1
         /\ Cardinality(s) # 0
<1>1. Least(s) \in s
  BY DEF Least
<1> QED BY <1>1, FS_RemoveElement, FS_CardinalityType, FS_EmptySet

\* The recursion of the sum has a solution.
LEMMA AdderExists ==
  ASSUME NEW pay, NEW S, IsFiniteSet(S)
  PROVE  \E g : g = [s \in SUBSET S |-> Adding(g, pay, s)]
<1> DEFINE Adds(g, n) == \A s \in SUBSET S : Cardinality(s) <= n => g[s] = Adding(g, pay, s)
           Bad == {n \in Nat : ~\E g : Adds(g, n)}
<1>0. \A s \in SUBSET S : IsFiniteSet(s) /\ Cardinality(s) \in Nat
  BY FS_Subset, FS_CardinalityType
<1>1. Bad = {}
  <2> SUFFICES ASSUME Bad # {} PROVE FALSE
    OBVIOUS
  <2>1. PICK n \in Bad : \A m \in Bad : n <= m
    BY LeastNumber
  <2>2. n # 0
    <3>1. SUFFICES ASSUME n = 0 PROVE Adds([s \in SUBSET S |-> 0], 0)
      BY <2>1
    <3>2. \A s \in SUBSET S : Cardinality(s) <= 0 => s = {}
      BY <1>0, FS_EmptySet
    <3> QED BY <3>2 DEF Adding
  <2>3. n - 1 \in Nat /\ n - 1 \notin Bad
    BY <2>1, <2>2
  <2>4. PICK h : Adds(h, n - 1)
    BY <2>3
  <2> DEFINE g == [s \in SUBSET S |-> IF Cardinality(s) <= n - 1 THEN h[s] ELSE Adding(h, pay, s)]
  <2>5. Adds(g, n)
    <3> SUFFICES ASSUME NEW s \in SUBSET S, Cardinality(s) <= n PROVE g[s] = Adding(g, pay, s)
      OBVIOUS
    <3>1. g[s] = Adding(h, pay, s)
      BY <1>0, <2>4
    <3>2. s # {} => s \ {Least(s)} \in SUBSET S /\ Cardinality(s \ {Least(s)}) <= n - 1
      BY <1>0, <2>1, Smaller
    <3> QED BY <3>1, <3>2 DEF Adding
  <2> QED BY <2>1, <2>5
<1>2. PICK g : Adds(g, Cardinality(S))
  BY <1>0, <1>1
<1> DEFINE f == [s \in SUBSET S |-> g[s]]
<1>3. \A s \in SUBSET S : Cardinality(s) <= Cardinality(S)
  BY FS_Subset
<1>4. ASSUME NEW s \in SUBSET S PROVE Adding(g, pay, s) = Adding(f, pay, s)
  BY DEF Adding
<1>5. f = [s \in SUBSET S |-> Adding(f, pay, s)]
  BY <1>2, <1>3, <1>4
<1> QED BY <1>5

\* Whatever solves it gives each set the same sum.
LEMMA SameSum ==
  ASSUME NEW a, NEW b, NEW S, NEW T, NEW U \in SUBSET (S \cap T), IsFiniteSet(U),
         \A p \in U : a[p].amount = b[p].amount,
         NEW g, Sums(g, a, S), NEW h, Sums(h, b, T)
  PROVE  g[U] = h[U]
<1> DEFINE Bad == {s \in SUBSET U : g[s] # h[s]}
<1> SUFFICES ASSUME Bad # {} PROVE FALSE
  OBVIOUS
<1>1. \A s \in SUBSET U : IsFiniteSet(s)
  BY FS_Subset
<1>2. PICK s \in Bad : \A y \in s : s \ {y} \notin Bad
  BY <1>1, SmallestSet
<1>3. g[s] = Adding(g, a, s) /\ h[s] = Adding(h, b, s)
  BY <1>2 DEF Sums
<1>4. s # {}
  BY <1>2, <1>3 DEF Adding
<1>5. s \ {Least(s)} \notin Bad
  BY <1>1, <1>2, <1>4, Smaller
<1>6. Least(s) \in U /\ s \ {Least(s)} \in SUBSET U
  BY <1>1, <1>2, <1>4, Smaller
<1> QED BY <1>2, <1>3, <1>4, <1>5, <1>6 DEF Adding

LEMMA SumUnfolds ==
  ASSUME NEW pay, NEW S, IsFiniteSet(S)
  PROVE  \E g : Sums(g, pay, S) /\ Sum(pay, S) = g[S]
<1> DEFINE adder == CHOOSE g : Sums(g, pay, S)
<1>1. Sum(pay, S) = adder[S]
  BY DEF Sum, Sums, MapThenSumSet, MapThenFoldSet, Adding, Least
<1>2. Sums(adder, pay, S)
  BY AdderExists DEF Sums
<1> QED BY <1>1, <1>2

\* A sum depends on the amounts of its payments only.
LEMMA SumFrame ==
  ASSUME NEW a, NEW b, NEW S, IsFiniteSet(S), \A p \in S : a[p].amount = b[p].amount
  PROVE  Sum(a, S) = Sum(b, S)
<1>1. PICK g : Sums(g, a, S) /\ Sum(a, S) = g[S]
  BY SumUnfolds
<1>2. PICK h : Sums(h, b, S) /\ Sum(b, S) = h[S]
  BY SumUnfolds
<1>3. S \in SUBSET (S \cap S)
  OBVIOUS
<1> QED BY <1>1, <1>2, <1>3, SameSum

LEMMA SumStep ==
  ASSUME NEW pay, NEW S, IsFiniteSet(S)
  PROVE  Sum(pay, S) = IF S = {} THEN 0 ELSE pay[Least(S)].amount + Sum(pay, S \ {Least(S)})
<1>1. PICK g : Sums(g, pay, S) /\ Sum(pay, S) = g[S]
  BY SumUnfolds
<1>2. Sum(pay, S) = Adding(g, pay, S)
  BY <1>1 DEF Sums
<1>3. ASSUME S # {} PROVE g[S \ {Least(S)}] = Sum(pay, S \ {Least(S)})
  <2> DEFINE V == S \ {Least(S)}
  <2>1. IsFiniteSet(V) /\ V \in SUBSET (S \cap V)
    BY <1>3, Smaller
  <2>2. PICK h : Sums(h, pay, V) /\ Sum(pay, V) = h[V]
    BY <2>1, SumUnfolds
  <2> HIDE DEF V
  <2>3. g[V] = h[V]
    BY <1>1, <2>1, <2>2, SameSum
  <2> QED BY <2>2, <2>3 DEF V
<1> QED BY <1>2, <1>3 DEF Adding

\* Whole amounts make a whole sum.
LEMMA SumIsInt ==
  ASSUME NEW pay, NEW S, IsFiniteSet(S), \A p \in S : pay[p].amount \in Int
  PROVE  Sum(pay, S) \in Int
<1> DEFINE Ints == {s \in SUBSET S : Sum(pay, s) \notin Int}
<1>0. \A s \in SUBSET S : IsFiniteSet(s)
  BY FS_Subset
<1>1. Ints = {}
  <2> SUFFICES ASSUME Ints # {} PROVE FALSE
    OBVIOUS
  <2>1. PICK s \in Ints : \A y \in s : s \ {y} \notin Ints
    BY <1>0, SmallestSet
  <2>2. s # {} /\ Sum(pay, s) = pay[Least(s)].amount + Sum(pay, s \ {Least(s)})
    <3>1. Sum(pay, s) = IF s = {} THEN 0 ELSE pay[Least(s)].amount + Sum(pay, s \ {Least(s)})
      BY <1>0, <2>1, SumStep
    <3> QED BY <2>1, <3>1
  <2>3. s \ {Least(s)} \notin Ints
    BY <1>0, <2>1, <2>2, Smaller
  <2>4. Least(s) \in S /\ s \ {Least(s)} \in SUBSET S
    BY <1>0, <2>1, <2>2, Smaller
  <2>5. pay[Least(s)].amount \in Int /\ Sum(pay, s \ {Least(s)}) \in Int /\ Sum(pay, s) \notin Int
    BY <2>1, <2>3, <2>4
  <2> QED BY <2>2, <2>5
<1> QED BY <1>1

\* One more payment adds its amount.
LEMMA SumAdds ==
  ASSUME NEW pay, NEW S, IsFiniteSet(S), NEW x, x \notin S, \A p \in S \cup {x} : pay[p].amount \in Int
  PROVE  Sum(pay, S) \in Int /\ Sum(pay, S \cup {x}) = Sum(pay, S) + pay[x].amount
<1>0. \A s \in SUBSET (S \cup {x}) : IsFiniteSet(s)
  BY FS_AddElement, FS_Subset
<1>1. \A s \in SUBSET (S \cup {x}) : Sum(pay, s) \in Int
  BY <1>0, SumIsInt
<1> DEFINE Adds(s) == \A p \in S \cup {x} : p \notin s => Sum(pay, s \cup {p}) = Sum(pay, s) + pay[p].amount
           Bad == {s \in SUBSET (S \cup {x}) : ~Adds(s)}
<1>2. Bad = {}
  <2> SUFFICES ASSUME Bad # {} PROVE FALSE
    OBVIOUS
  <2>1. PICK s \in Bad : \A y \in s : s \ {y} \notin Bad
    BY <1>0, SmallestSet
  <2>2. PICK p \in S \cup {x} : p \notin s /\ Sum(pay, s \cup {p}) # Sum(pay, s) + pay[p].amount
    BY <2>1
  <2> DEFINE q == Least(s \cup {p})
             v == s \ {q}
  <2>3. q \in s \cup {p} /\ s \cup {p} \in SUBSET (S \cup {x}) /\ s \in SUBSET (S \cup {x})
    BY <2>1, <2>2 DEF Least
  <2>4. Sum(pay, s \cup {p}) = pay[q].amount + Sum(pay, (s \cup {p}) \ {q})
    <3>1. IsFiniteSet(s \cup {p}) /\ s \cup {p} # {}
      BY <1>0, <2>3
    <3> QED BY <3>1, SumStep
  <2> HIDE DEF q
  <2>5. CASE q = p
    <3>1. (s \cup {p}) \ {q} = s
      BY <2>2, <2>5
    <3>2. Sum(pay, s) \in Int /\ pay[p].amount \in Int
      BY <1>1, <2>3
    <3>3. Sum(pay, s \cup {p}) = pay[p].amount + Sum(pay, s)
      BY <2>4, <2>5, <3>1, Zenon
    <3> QED BY <2>2, <3>2, <3>3
  <2>6. CASE q # p
    <3>1. q \in s /\ q \notin v /\ p \notin v /\ v \in SUBSET (S \cup {x})
      BY <2>2, <2>3, <2>6
    <3>2. (s \cup {p}) \ {q} = v \cup {p} /\ s = v \cup {q}
      BY <2>6, <3>1
    <3>3. v \notin Bad
      BY <2>1, <3>1
    <3>4. Sum(pay, v \cup {p}) = Sum(pay, v) + pay[p].amount /\ Sum(pay, v \cup {q}) = Sum(pay, v) + pay[q].amount
      BY <2>3, <3>1, <3>3
    <3>5. Sum(pay, v) \in Int
      BY <1>1, <3>1
    <3>6. pay[p].amount \in Int /\ pay[q].amount \in Int
      BY <2>3
    <3> HIDE DEF v, Bad
    <3>7. /\ Sum(pay, s \cup {p}) = pay[q].amount + (Sum(pay, v) + pay[p].amount)
          /\ Sum(pay, s) = Sum(pay, v) + pay[q].amount
      BY <2>4, <3>2, <3>4, Zenon
    <3> QED BY <2>2, <3>5, <3>6, <3>7
  <2> QED BY <2>3, <2>5, <2>6
<1>3. S \in SUBSET (S \cup {x}) /\ S \notin Bad
  BY <1>2
<1> QED BY <1>1, <1>3

-----------------------------------------------------------------------------
(* The invariant.                                                           *)

MoveRequest == [op : {"MOVE"}, opp : Opp, stage : Stage, sees : SUBSET Owner, step : {"exit", "enter", "write"},
                exits : SUBSET Nat, behind : SUBSET Slot, at : Nat, overtaken : BOOLEAN, late : BOOLEAN]
DeleteRequest == [op : {"DELETETYPE"}, type : Type, count : SUBSET Opp, step : {"write"}]
FigureRequest == [op : {"FIGURE"}, invoice : Invoice, change : Change, total : Int,
                  status : InvoiceStatus \cup {"-"}, step : {"write"}, overtaken : BOOLEAN, late : BOOLEAN]
PayRequest == [op : {"PAY"}, invoice : Invoice, amount : Paid, status : PaymentStatus, saw : InvoiceStatus,
               becomes : InvoiceStatus, step : {"write"}, overtaken : BOOLEAN, late : BOOLEAN]
OtherRequest ==
    [op : {"CREATE"}, type : Type \cup {NoType}, owner : Owner, step : {"write"}]
    \cup [op : {"UPDATE"}, opp : Opp, type : Type \cup {NoType, "-"}, owner : Owner, sees : SUBSET Owner,
          step : {"write"}]
Request == {Idle} \cup MoveRequest \cup DeleteRequest \cup FigureRequest \cup PayRequest \cup OtherRequest

HistoryOK == DOMAIN history = Opp /\ (\A o \in Opp : Pipeline(history[o])) /\ clock \in Nat
OpenOK == open \in [Slot -> Request]
PastOK == past \in [crossed : SUBSET Opp, stale : SUBSET Opp, mistyped : SUBSET Opp,
                    loose : SUBSET Invoice, mixed : SUBSET Invoice]

NoTypeYet == \A o \in Opp : opp[o].where = "absent" => opp[o].type = NoType
HasInvoice == \A p \in Payment : payment[p].where = "live" => invoice[payment[p].invoice].where # "absent"
FewPayments == IsFiniteSet({p \in Payment : payment[p].where # "absent"})

\* What a request knows when nothing overtook it.
MoveKnows(r) ==
    r.op = "MOVE" =>
       /\ opp[r.opp].where # "absent"
       /\ ~r.overtaken => opp[r.opp].stage \notin Closed
       /\ r.late => r.overtaken
       /\ r.step # "exit" /\ ~r.late =>
            \A k \in DOMAIN history[r.opp] : k \in r.exits <=> ~history[r.opp][k].exited
       /\ r.step = "write" =>
            /\ r.at \in 0..clock
            /\ ~r.late => \A k \in DOMAIN history[r.opp] : k < r.at

DeleteKnows(r) == r.op = "DELETETYPE" => \A o \in r.count : opp[o].where = "deleted"

FigureKnows(r) ==
    r.op = "FIGURE" =>
       /\ invoice[r.invoice].where # "absent"
       /\ ~r.overtaken => r.total = TotalOf(Merged(invoice[r.invoice].figures, r.change))

PayKnows(r) ==
    \A i \in Invoice : r.op = "PAY" /\ r.invoice = i =>
       /\ invoice[i].where # "absent"
       /\ ~r.overtaken => /\ r.amount <= invoice[i].total - PaidOf(i) + 1
                          /\ r.saw = invoice[i].status
                          /\ r.becomes \in StatusAfter(i, PaidOf(i) + r.amount)

Knows(r) == MoveKnows(r) /\ DeleteKnows(r) /\ FigureKnows(r) /\ PayKnows(r)

\* The parts of HistoryIsTrue: what the rows h and an opportunity's row tell of each other.
Tells(h, row) == \E k \in DOMAIN h : ~h[k].exited /\ h[k].stage = row.stage
Ordered(h) == \A k \in DOMAIN h : h[k].exited = (\E j \in DOMAIN h : j > k)
Clean(h, row) == (\A k \in DOMAIN h : h[k].exited => h[k].stage \notin Closed) /\ row.closedAt = (row.stage \in Closed)

LEMMA HistoryParts ==
  /\ HistoryIsTrue <=> \A o \in Opp : opp[o].where # "absent" =>
        /\ Tells(history[o], opp[o])
        /\ o \notin past.crossed => Ordered(history[o])
        /\ o \notin past.stale => Clean(history[o], opp[o])
  /\ HistoryIsTrue' <=> \A o \in Opp : opp'[o].where # "absent" =>
        /\ Tells(history'[o], opp'[o])
        /\ o \notin past'.crossed => Ordered(history'[o])
        /\ o \notin past'.stale => Clean(history'[o], opp'[o])
BY Zenon DEF HistoryIsTrue, Tells, Ordered, Clean

CrossedIsStale == past.crossed \subseteq past.stale

OppInv == NoTypeYet /\ CrossedIsStale /\ HistoryIsTrue
PayInv == HasInvoice /\ FewPayments /\ PaidWithinTotal

IInv ==
    /\ TypeOK /\ OpenOK /\ PastOK
    /\ OppInv /\ TypeInUseIsLive /\ TotalMatches /\ PayInv
    /\ \A s \in Slot : Knows(open[s])

-----------------------------------------------------------------------------
(* Totals and balances.                                                     *)

LEMMA TotalIsInt == ASSUME NEW f \in [Fields -> Int] PROVE TotalOf(f) \in Int
<1> DEFINE a == f["amount"]
           d == f["discount"]
           x == f["tax"]
           y == f["other"]
<1>1. a \in Int /\ d \in Int /\ x \in Int /\ y \in Int
  BY DEF Fields
<1> HIDE DEF a, d, x, y
<1>2. (a - d) \in Int /\ (a - d) * x \in Int
  BY <1>1
<1> DEFINE z == (a - d) * x
<1>3. (z + 50) \div 100 \in Int
  <2> HIDE DEF z
  <2> QED BY <1>2 DEF z
<1> DEFINE tax == IF a - d > 0 THEN (z + 50) \div 100 ELSE 0
<1>4. tax \in Int
  BY <1>3
<1>5. TotalOf(f) = (a - d) + tax + y
  BY DEF TotalOf, a, d, x, y
<1> HIDE DEF tax
<1> QED BY <1>1, <1>2, <1>4, <1>5

LEMMA MergedType == ASSUME NEW f \in [Fields -> Int], NEW c \in Change PROVE Merged(f, c) \in [Fields -> Int]
BY MoneyAssumption DEF Merged

LEMMA BalanceIsInt ==
  ASSUME TypeOK, FewPayments, NEW i \in Invoice
  PROVE  IsFiniteSet(Counted(i)) /\ PaidOf(i) \in Int
<1>1. IsFiniteSet(Counted(i))
  <2>1. Counted(i) \subseteq {p \in Payment : payment[p].where # "absent"}
    BY DEF Counted
  <2> QED BY <2>1, FS_Subset DEF FewPayments
<1>2. \A p \in Counted(i) : payment[p].amount \in Int
  BY MoneyAssumption DEF TypeOK, Counted, PaymentRow
<1>3. PaidOf(i) = Sum(payment, Counted(i))
  BY DEF PaidOf, Sum
<1> QED BY <1>1, <1>2, <1>3, SumIsInt

\* A balance changes only with the payments that it counts.
LEMMA CountedFrame ==
  ASSUME TypeOK, FewPayments, NEW i \in Invoice,
         \A p \in Counted(i) : payment'[p].amount = payment[p].amount
  PROVE  Sum(payment, Counted(i)) = Sum(payment', Counted(i))
BY BalanceIsInt, SumFrame

LEMMA BalanceFrame ==
  ASSUME TypeOK, FewPayments, NEW i \in Invoice, Counted(i)' = Counted(i),
         \A p \in Counted(i) : payment'[p].amount = payment[p].amount
  PROVE  PaidOf(i)' = PaidOf(i)
<1>1. PaidOf(i)' = Sum(payment', Counted(i)')
  BY DEF PaidOf, Sum, MapThenSumSet, MapThenFoldSet
<1>2. PaidOf(i) = Sum(payment, Counted(i))
  BY DEF PaidOf, Sum
<1> QED BY <1>1, <1>2, BalanceIsInt, SumFrame

LEMMA SameBalances ==
  ASSUME TypeOK, FewPayments, UNCHANGED payment
  PROVE  \A i \in Invoice : Counted(i)' = Counted(i) /\ PaidOf(i)' = PaidOf(i)
<1> SUFFICES ASSUME NEW i \in Invoice PROVE Counted(i)' = Counted(i) /\ PaidOf(i)' = PaidOf(i)
  OBVIOUS
<1>1. Counted(i)' = Counted(i)
  BY DEF Counted
<1> QED BY <1>1, BalanceFrame

-----------------------------------------------------------------------------
(* The requests that are open while another one writes.                     *)

\* What open request t becomes when w writes: it ends, or it stays with its overtaken
\* and late as w makes them.
Same(q, r) ==
    /\ q \in Request /\ q.op = r.op
    /\ r.op = "MOVE" => /\ q.opp = r.opp /\ q.step = r.step /\ q.at = r.at
                        /\ q.late \/ q.step = "exit" \/ q.exits = r.exits
                        /\ (r.overtaken => q.overtaken) /\ (r.late => q.late) /\ (q.late => r.late \/ q.overtaken)
    /\ r.op = "DELETETYPE" => q.count = r.count
    /\ r.op = "FIGURE" => /\ q.invoice = r.invoice /\ q.change = r.change /\ q.total = r.total
                          /\ (r.overtaken => q.overtaken)
    /\ r.op = "PAY" => /\ q.invoice = r.invoice /\ q.amount = r.amount /\ q.saw = r.saw /\ q.becomes = r.becomes
                       /\ (r.overtaken => q.overtaken)

Becomes(q, r, w) ==
    \/ q = Idle
    \/ Same(q, r) /\ (Overtakes(w, r) => q.overtaken /\ (r.step # "exit" => q.late))

LEMMA Kinds ==
  ASSUME NEW r \in Request
  PROVE  /\ r.op = "idle" => r = Idle
         /\ r.op = "MOVE" => r \in MoveRequest
         /\ r.op = "DELETETYPE" => r \in DeleteRequest
         /\ r.op = "FIGURE" => r \in FigureRequest
         /\ r.op = "PAY" => r \in PayRequest
         /\ r.op \in {"CREATE", "UPDATE"} => r \in OtherRequest
         /\ r.op \in {"idle", "MOVE", "DELETETYPE", "FIGURE", "PAY", "CREATE", "UPDATE"}
BY DEF Request, Idle, MoveRequest, DeleteRequest, FigureRequest, PayRequest, OtherRequest

LEMMA Overtaken ==
  ASSUME NEW r \in MoveRequest \cup FigureRequest \cup PayRequest,
         NEW q, q = [r EXCEPT !.overtaken = TRUE, !.late = @ \/ r.step # "exit"]
  PROVE  Same(q, r) /\ q.overtaken /\ (r.step # "exit" => q.late)
<1>1. CASE r \in MoveRequest
  <2>1. q \in MoveRequest
    BY <1>1 DEF MoveRequest
  <2> QED BY <1>1, <2>1 DEF Same, Request, MoveRequest
<1>2. CASE r \in FigureRequest
  <2>1. q \in FigureRequest
    BY <1>2 DEF FigureRequest
  <2> QED BY <1>2, <2>1 DEF Same, Request, FigureRequest
<1>3. CASE r \in PayRequest
  <2>1. q \in PayRequest
    BY <1>3 DEF PayRequest
  <2> QED BY <1>3, <2>1 DEF Same, Request, PayRequest
<1> QED BY <1>1, <1>2, <1>3

LEMMA Unblocked ==
  ASSUME NEW r \in MoveRequest, NEW s, NEW X
  PROVE  LET q == Goes(s, r, X)
         IN /\ q \in MoveRequest /\ q.opp = r.opp /\ q.step = r.step /\ q.at = r.at /\ q.exits = r.exits \ X
            /\ q.overtaken = r.overtaken /\ q.late = r.late
<1> DEFINE q == [r EXCEPT !.behind = @ \ {s}, !.exits = @ \ X]
<1>1. Goes(s, r, X) = q
  BY DEF Goes, MoveRequest
<1>2. q \in MoveRequest
  BY DEF MoveRequest
<1> QED BY <1>1, <1>2 DEF MoveRequest

LEMMA SameIsSame == ASSUME NEW r \in Request PROVE Same(r, r)
BY DEF Same

LEMMA Afterwards ==
  ASSUME OpenOK, NEW w, NEW t \in Slot
  PROVE  Becomes(After(w, t), open[t], w)
<1>1. open[t] \in Request
  BY DEF OpenOK
<1>2. CASE t \notin Ops
  BY <1>2 DEF After, Becomes
<1>3. CASE t \in Ops /\ Overtakes(w, open[t])
  <2>1. open[t] \in MoveRequest \cup FigureRequest \cup PayRequest
    BY <1>1, <1>3, Kinds DEF Overtakes
  <2>2. After(w, t) = [open[t] EXCEPT !.overtaken = TRUE, !.late = @ \/ open[t].step # "exit"]
    BY <1>3 DEF After
  <2>3. Same(After(w, t), open[t]) /\ After(w, t).overtaken /\ (open[t].step # "exit" => After(w, t).late)
    <3> HIDE DEF After
    <3> QED BY <2>1, <2>2, Overtaken
  <2> QED BY <2>3 DEF Becomes
<1>4. CASE t \in Ops /\ ~Overtakes(w, open[t])
  BY <1>1, <1>4, SameIsSame DEF After, Becomes
<1> QED BY <1>2, <1>3, <1>4

LEMMA GoesOn ==
  ASSUME NEW r, NEW w, NEW s, NEW q, Becomes(q, r, w), NEW X, X = {} \/ Overtakes(w, r)
  PROVE  Becomes(Goes(s, q, X), r, w)
<1>1. CASE q.op # "MOVE"
  BY <1>1 DEF Goes
<1>2. CASE q.op = "MOVE"
  <2>1. Same(q, r) /\ (Overtakes(w, r) => q.overtaken /\ (r.step # "exit" => q.late))
    BY <1>2 DEF Becomes, Idle
  <2>2. q \in MoveRequest /\ r.op = "MOVE"
    BY <1>2, <2>1, Kinds DEF Same
  <2> DEFINE g == Goes(s, q, X)
  <2>3. /\ g \in MoveRequest /\ g.opp = q.opp /\ g.step = q.step /\ g.at = q.at /\ g.exits = q.exits \ X
        /\ g.overtaken = q.overtaken /\ g.late = q.late
    BY <2>2, Unblocked
  <2> HIDE DEF g
  <2>4. g \in Request /\ g.op = "MOVE"
    BY <2>3 DEF Request, MoveRequest
  <2>5. g.late \/ g.step = "exit" \/ g.exits = r.exits
    BY <2>1, <2>2, <2>3 DEF Same
  <2>6. Same(g, r)
    BY <2>1, <2>2, <2>3, <2>4, <2>5 DEF Same
  <2> QED BY <2>1, <2>3, <2>6 DEF Becomes, g
<1> QED BY <1>1, <1>2

LEMMA AfterDone ==
  ASSUME OpenOK, NEW s \in Slot, Done(s)
  PROVE  OpenOK' /\ UNCHANGED clock /\ \A t \in Slot : Becomes(open'[t], open[t], open[s]) /\ open'[s] = Idle
<1>1. \A t \in Slot : open'[t] = IF t = s THEN Idle ELSE Goes(s, After(open[s], t), Exited(open[s], open[t]))
  BY DEF Done
<1>2. ASSUME NEW t \in Slot PROVE Exited(open[s], open[t]) = {} \/ Overtakes(open[s], open[t])
  BY DEF Exited
<1>3. \A t \in Slot : Becomes(open'[t], open[t], open[s])
  BY <1>1, <1>2, Afterwards, GoesOn DEF Becomes
<1>4. OpenOK'
  BY <1>3 DEF OpenOK, Done, Becomes, Same, Request
<1> QED BY <1>1, <1>3, <1>4 DEF Done

LEMMA AfterAtOnce ==
  ASSUME OpenOK, NEW w, AtOnce(w)
  PROVE  OpenOK' /\ UNCHANGED clock /\ \A t \in Slot : Becomes(open'[t], open[t], w)
<1>1. \A t \in Slot : Becomes(open'[t], open[t], w)
  BY Afterwards DEF AtOnce
<1>2. OpenOK'
  BY <1>1 DEF OpenOK, AtOnce, Becomes, Same, Request
<1> QED BY <1>1, <1>2 DEF AtOnce

LEMMA AfterFail ==
  ASSUME OpenOK, NEW s \in Slot, Fail(s)
  PROVE  OpenOK' /\ \A t \in Slot : Becomes(open'[t], open[t], Idle)
<1>1. ASSUME NEW t \in Slot PROVE Becomes(open[t], open[t], Idle)
  BY SameIsSame DEF OpenOK, Becomes, Overtakes, Idle
<1>2. \A t \in Slot : Becomes(open'[t], open[t], Idle)
  BY <1>1, GoesOn DEF Fail, Becomes
<1>3. OpenOK'
  BY <1>2 DEF OpenOK, Fail, Becomes, Same, Request
<1> QED BY <1>2, <1>3

\* What w, and no other request, may change of the rows that open requests have read.
OppStep(w) ==
    \A o \in Opp :
       /\ opp[o].where # "absent" => opp'[o].where # "absent"
       /\ opp[o].where = "deleted" => opp'[o].where = "deleted"
       /\ opp[o].where # "absent" /\ ~(w.op = "MOVE" /\ w.opp = o) =>
            opp'[o].stage = opp[o].stage /\ history'[o] = history[o]

InvoiceStep(w) ==
    \A i \in Invoice : invoice[i].where # "absent" =>
       /\ invoice'[i].where # "absent"
       /\ ~(w.op = "FIGURE" /\ w.invoice = i) => invoice'[i].figures = invoice[i].figures
       /\ ~(w.op \in {"PAY", "FIGURE"} /\ w.invoice = i) =>
            /\ invoice'[i].total = invoice[i].total /\ invoice'[i].status = invoice[i].status
            /\ PaidOf(i)' = PaidOf(i)

\* Then what they know stays true.
LEMMA StillKnows ==
  ASSUME OpenOK, NEW w, UNCHANGED clock, OppStep(w), InvoiceStep(w), NEW t \in Slot, Knows(open[t]), Becomes(open'[t], open[t], w)
  PROVE  Knows(open[t])'
<1> DEFINE r == open[t]
           q == open'[t]
<1>1. CASE q = Idle
  BY <1>1 DEF Knows, MoveKnows, DeleteKnows, FigureKnows, PayKnows, Idle
<1>2. CASE Same(q, r) /\ (Overtakes(w, r) => q.overtaken /\ (r.step # "exit" => q.late))
  <2>0. r \in Request /\ q.op = r.op
    BY <1>2 DEF OpenOK, Same
  <2>1. CASE r.op = "MOVE"
    <3>1. r \in MoveRequest
      BY <2>0, <2>1, Kinds
    <3> QED BY <1>2, <2>1, <3>1
            DEF Knows, MoveKnows, DeleteKnows, FigureKnows, PayKnows, Same, MoveRequest, OppStep, Overtakes
  <2>2. CASE r.op = "DELETETYPE"
    <3>1. r \in DeleteRequest
      BY <2>0, <2>2, Kinds
    <3> QED BY <1>2, <2>2, <3>1
            DEF Knows, MoveKnows, DeleteKnows, FigureKnows, PayKnows, Same, DeleteRequest, OppStep
  <2>3. CASE r.op = "FIGURE"
    <3>1. r \in FigureRequest
      BY <2>0, <2>3, Kinds
    <3> QED BY <1>2, <2>3, <3>1
            DEF Knows, MoveKnows, DeleteKnows, FigureKnows, PayKnows, Same, FigureRequest, InvoiceStep, Overtakes
  <2>4. CASE r.op = "PAY"
    <3>1. r \in PayRequest
      BY <2>0, <2>4, Kinds
    <3>2. PayKnows(r)'
      BY <1>2, <2>4, <3>1 DEF Knows, PayKnows, Same, PayRequest, InvoiceStep, Overtakes, StatusAfter
    <3> QED BY <2>0, <2>4, <3>2 DEF Knows, MoveKnows, DeleteKnows, FigureKnows
  <2>5. CASE r.op \in {"idle", "CREATE", "UPDATE"}
    BY <2>0, <2>5 DEF Knows, MoveKnows, DeleteKnows, FigureKnows, PayKnows
  <2> QED BY <2>0, <2>1, <2>2, <2>3, <2>4, <2>5, Kinds
<1> QED BY <1>1, <1>2 DEF Becomes

LEMMA AllKnow ==
  ASSUME IInv, NEW w, UNCHANGED clock, OppStep(w), InvoiceStep(w), \A t \in Slot : Becomes(open'[t], open[t], w)
  PROVE  \A t \in Slot : Knows(open[t])'
<1> SUFFICES ASSUME NEW t \in Slot PROVE Knows(open[t])'
  OBVIOUS
<1> QED BY StillKnows DEF IInv

-----------------------------------------------------------------------------
(* What a step leaves alone stays as it is promised.                        *)

LEMMA OppQuiet ==
  ASSUME UNCHANGED <<opp, history>>
  PROVE  /\ \A w : OppStep(w)
         /\ OppInv /\ past'.crossed = past.crossed /\ past'.stale = past.stale => OppInv'
<1>1. \A w : OppStep(w)
  BY DEF OppStep
<1>2. ASSUME OppInv, past'.crossed = past.crossed, past'.stale = past.stale PROVE OppInv'
  BY <1>2 DEF OppInv, NoTypeYet, CrossedIsStale, HistoryIsTrue
<1> QED BY <1>1, <1>2

LEMMA TypesQuiet ==
  ASSUME TypeInUseIsLive, UNCHANGED <<opp, type>>, past'.mistyped = past.mistyped
  PROVE  TypeInUseIsLive'
BY DEF TypeInUseIsLive, LiveOpp, TypeRead

LEMMA InvoiceQuiet ==
  ASSUME TotalMatches, UNCHANGED invoice, past'.mixed = past.mixed
  PROVE  TotalMatches'
BY DEF TotalMatches, LiveInvoice

LEMMA PaymentQuiet ==
  ASSUME TypeOK, PayInv, UNCHANGED <<invoice, payment>>
  PROVE  /\ \A w : InvoiceStep(w)
         /\ past'.loose = past.loose => PayInv'
<1>1. \A i \in Invoice : Counted(i)' = Counted(i) /\ PaidOf(i)' = PaidOf(i)
  BY SameBalances DEF PayInv
<1>2. \A w : InvoiceStep(w)
  BY <1>1 DEF InvoiceStep
<1>3. ASSUME past'.loose = past.loose PROVE PayInv'
  BY <1>1, <1>3 DEF PayInv, HasInvoice, FewPayments, PaidWithinTotal, LiveInvoice
<1> QED BY <1>2, <1>3

LEMMA OpenTypes == ASSUME OpenOK' PROVE \A s \in Slot : open'[s].op \in {"idle", "CREATE", "UPDATE", "MOVE", "DELETETYPE", "FIGURE", "PAY"}
BY Kinds DEF OpenOK

-----------------------------------------------------------------------------
LEMMA FreshRow ==
  ASSUME NEW t \in Type \cup {NoType}, NEW u \in Owner
  PROVE  /\ Fresh(t, u) \in OppRow /\ Fresh(t, u).where = "live" /\ Fresh(t, u).type = t
         /\ Fresh(t, u).stage = PROSPECTING /\ ~Fresh(t, u).closedAt
         /\ PROSPECTING \notin Closed
BY OppAssumption DEF Fresh, OppRow, Where, Stage

LEMMA NewHistory ==
  /\ DOMAIN FirstRow = {0} /\ FirstRow[0].stage = PROSPECTING /\ FirstRow[0].exited = FALSE
  /\ clock \in Nat => Pipeline(FirstRow) /\ Pipeline(NoHistory)
<1>1. DOMAIN FirstRow = {0} /\ FirstRow[0].stage = PROSPECTING /\ FirstRow[0].exited = FALSE
  BY DEF FirstRow, Entered
<1>2. Entered(PROSPECTING) \in HistoryRow
  BY OppAssumption DEF Entered, HistoryRow, Stage
<1>3. FirstRow \in [{0} -> HistoryRow] /\ NoHistory \in [{} -> HistoryRow] /\ DOMAIN NoHistory = {}
  BY <1>2 DEF FirstRow, NoHistory
<1> QED BY <1>1, <1>3 DEF Pipeline

\* The history of an opportunity that is new.
LEMMA NewIsTrue ==
  ASSUME NEW h, h = FirstRow, NEW row, row.stage = PROSPECTING, row.closedAt = FALSE
  PROVE  Tells(h, row) /\ Ordered(h) /\ Clean(h, row)
<1>1. DOMAIN h = {0} /\ h[0].stage = PROSPECTING /\ h[0].exited = FALSE
  BY NewHistory
<1>2. Ordered(h)
  <2>1. (\E j \in {0} : j > 0) = FALSE
    OBVIOUS
  <2>2. \A k \in DOMAIN h : k = 0
    BY <1>1
  <2> QED BY <1>1, <2>1, <2>2 DEF Ordered
<1>3. Clean(h, row)
  <2>1. (PROSPECTING \in Closed) = FALSE
    BY OppAssumption
  <2>2. row.closedAt = (row.stage \in Closed)
    BY <2>1
  <2> QED BY <1>1, <2>2 DEF Clean
<1>4. Tells(h, row)
  BY <1>1 DEF Tells
<1> QED BY <1>2, <1>3, <1>4

LEMMA IssuedRow ==
  ASSUME NEW f \in [Fields -> Int], NEW status \in InvoiceStatus
  PROVE  /\ Issued(f, status) \in InvoiceRow /\ Issued(f, status).where = "live"
         /\ Issued(f, status).figures = f /\ Issued(f, status).total = TotalOf(f)
BY TotalIsInt DEF Issued, InvoiceRow, Where

LEMMA NoRows ==
  ASSUME NEW u \in Owner
  PROVE  /\ NoOpp \in OppRow /\ NoOpp.where = "absent" /\ NoOpp.type = NoType
         /\ NoInvoice \in InvoiceRow /\ NoInvoice.where = "absent"
         /\ NoPayment \in PaymentRow /\ NoPayment.where = "absent"
<1>1. Least(Owner) \in Owner /\ Least(Invoice) \in Invoice /\ Least(Paid) \in Paid
  BY MoneyAssumption DEF Least
<1>2. NoOpp \in OppRow /\ NoOpp.where = "absent" /\ NoOpp.type = NoType
  BY <1>1, OppAssumption DEF NoOpp, Fresh, OppRow, Where, Stage
<1>3. NoInvoice \in InvoiceRow /\ NoInvoice.where = "absent"
  BY DEF NoInvoice, InvoiceRow, Where, InvoiceStatus
<1>4. NoPayment \in PaymentRow /\ NoPayment.where = "absent"
  BY <1>1 DEF NoPayment, PaymentRow, Where, PaymentStatus
<1> QED BY <1>2, <1>3, <1>4

LEMMA InitIInv == Init => IInv
<1> SUFFICES ASSUME Init PROVE IInv
  OBVIOUS
<1>1. PICK f \in Figure, t \in Type \cup {NoType}, u \in Owner :
        /\ opp = [o \in Opp |-> IF o = Least(Opp) THEN Fresh(t, u) ELSE NoOpp]
        /\ history = [o \in Opp |-> IF o = Least(Opp) THEN FirstRow ELSE NoHistory]
        /\ type = [q \in Type |-> IF q \in {t, Other} THEN "live" ELSE "absent"]
        /\ invoice = [i \in Invoice |-> IF i = Least(Invoice) THEN Issued(f, "DRAFT") ELSE NoInvoice]
        /\ payment = [p \in Payment |-> NoPayment]
        /\ open = [s \in Slot |-> Idle]
        /\ clock = 0
        /\ begun = 0
        /\ past = [crossed |-> {}, stale |-> {}, mistyped |-> {}, loose |-> {}, mixed |-> {}]
  BY DEF Init
<1>2. f \in [Fields -> Int]
  BY MoneyAssumption
<1>3. OpenOK /\ PastOK /\ \A s \in Slot : Knows(open[s])
  BY <1>1 DEF OpenOK, PastOK, Request, Knows, MoveKnows, DeleteKnows, FigureKnows, PayKnows, Idle
<1>4. opp \in [Opp -> OppRow] /\ HistoryOK
  <2>1. opp \in [Opp -> OppRow]
    BY <1>1, FreshRow, NoRows
  <2>2. HistoryOK
    <3>1. clock \in Nat
      BY <1>1
    <3>2. \A o \in Opp : history[o] = FirstRow \/ history[o] = NoHistory
      BY <1>1
    <3> QED BY <1>1, <3>1, <3>2, NewHistory DEF HistoryOK
  <2> QED BY <2>1, <2>2
<1>5. invoice \in [Invoice -> InvoiceRow] /\ payment \in [Payment -> PaymentRow]
  BY <1>1, <1>2, IssuedRow, NoRows DEF InvoiceStatus
<1>6. TypeOK
  BY <1>1, <1>4, <1>5, BoundAssumption DEF TypeOK, HistoryOK, Where, Idle
<1>7. OppInv
  <2>1. \A o \in Opp : IF o = Least(Opp) THEN opp[o] = Fresh(t, u) /\ history[o] = FirstRow
                       ELSE opp[o] = NoOpp
    BY <1>1
  <2>2. ASSUME NEW o \in Opp PROVE opp[o].where = "absent" => opp[o].type = NoType
    BY <2>1, FreshRow, NoRows
  <2>3. ASSUME NEW o \in Opp, opp[o].where # "absent"
        PROVE  opp[o].stage = PROSPECTING /\ opp[o].closedAt = FALSE /\ history[o] = FirstRow
    <3>1. opp[o] = Fresh(t, u) /\ history[o] = FirstRow
      BY <2>1, <2>3, NoRows
    <3> QED BY <3>1 DEF Fresh
  <2>4. HistoryIsTrue
    <3>1. ASSUME NEW o \in Opp, opp[o].where # "absent"
          PROVE  Tells(history[o], opp[o]) /\ Ordered(history[o]) /\ Clean(history[o], opp[o])
      <4>1. opp[o].stage = PROSPECTING /\ opp[o].closedAt = FALSE /\ history[o] = FirstRow
        BY <2>3, <3>1
      <4> QED BY <4>1, NewIsTrue
    <3> QED BY <3>1, HistoryParts
  <2>5. CrossedIsStale
    BY <1>1 DEF CrossedIsStale
  <2> QED BY <2>2, <2>4, <2>5 DEF OppInv, NoTypeYet
<1>8. TypeInUseIsLive
  <2>1. \A o \in Opp : LiveOpp(o) => opp[o].type = t
    BY <1>1, FreshRow, NoRows DEF LiveOpp
  <2> QED BY <1>1, <2>1 DEF TypeInUseIsLive, TypeRead
<1>9. TotalMatches
  BY <1>1, <1>2, IssuedRow, NoRows DEF TotalMatches, LiveInvoice, InvoiceStatus
<1>10. PayInv
  <2>1. \A p \in Payment : payment[p].where = "absent"
    BY <1>1, NoRows
  <2>2. {p \in Payment : payment[p].where # "absent"} = {} /\ \A i \in Invoice : Counted(i) = {}
    BY <2>1 DEF Counted
  <2> QED BY <2>1, <2>2, FS_EmptySet DEF PayInv, HasInvoice, FewPayments, PaidWithinTotal
<1> QED BY <1>3, <1>6, <1>7, <1>8, <1>9, <1>10 DEF IInv

-----------------------------------------------------------------------------
(* Requests begin, and fail.                                                *)

LEMMA BeginKeeps ==
  ASSUME IInv, begun < MaxRequests, NEW s \in Slot, NEW r \in Request, Begin(s, r), Knows(r)
  PROVE  IInv'
<1>1. UNCHANGED <<opp, history, type, invoice, payment, past, clock>> /\ begun' = begun + 1
  BY DEF Begin, rows
<1>2. open' = [open EXCEPT ![s] = r] /\ open \in [Slot -> Request] /\ OpenOK'
  BY DEF Begin, IInv, OpenOK
<1>3. TypeOK'
  BY <1>1, <1>2, OpenTypes, BoundAssumption DEF IInv, TypeOK, Pipeline
<1>4. PastOK' /\ OppInv' /\ TypeInUseIsLive' /\ TotalMatches' /\ PayInv'
  BY <1>1, OppQuiet, TypesQuiet, InvoiceQuiet, PaymentQuiet DEF IInv, PastOK
<1>5. ASSUME NEW t \in Slot PROVE Knows(open[t])'
  <2>1. \A i \in Invoice : PaidOf(i)' = PaidOf(i)
    BY <1>1, SameBalances DEF IInv, PayInv
  <2>2. PICK q : q = open'[t] /\ Knows(q)
    BY <1>2 DEF IInv
  <2> QED BY <1>1, <2>1, <2>2 DEF Knows, MoveKnows, DeleteKnows, FigureKnows, PayKnows, StatusAfter
<1> QED BY <1>2, <1>3, <1>4, <1>5 DEF IInv

LEMMA BeginCreateKeeps ==
  ASSUME IInv, begun < MaxRequests, NEW s \in Slot, NEW t \in Type \cup {NoType}, NEW u \in Owner, BeginCreate(s, t, u)
  PROVE  IInv'
<1> DEFINE r == [op |-> "CREATE", type |-> t, owner |-> u, step |-> "write"]
<1>1. r \in Request
  BY DEF Request, OtherRequest
<1>2. Knows(r)
  BY DEF Knows, MoveKnows, DeleteKnows, FigureKnows, PayKnows
<1>3. Begin(s, r)
  BY DEF BeginCreate
<1> HIDE DEF r
<1> QED BY <1>1, <1>2, <1>3, BeginKeeps

LEMMA BeginUpdateKeeps ==
  ASSUME IInv, begun < MaxRequests, NEW s \in Slot, NEW o \in Opp, NEW t \in Type \cup {NoType, "-"}, NEW u \in Owner,
         NEW sees \in SUBSET Owner, BeginUpdate(s, o, t, u, sees)
  PROVE  IInv'
<1> DEFINE r == [op |-> "UPDATE", opp |-> o, type |-> t, owner |-> u, sees |-> sees, step |-> "write"]
<1>1. r \in Request
  BY DEF Request, OtherRequest
<1>2. Knows(r)
  BY DEF Knows, MoveKnows, DeleteKnows, FigureKnows, PayKnows
<1>3. Begin(s, r)
  BY DEF BeginUpdate
<1> HIDE DEF r
<1> QED BY <1>1, <1>2, <1>3, BeginKeeps

LEMMA BeginMoveKeeps ==
  ASSUME IInv, begun < MaxRequests, NEW s \in Slot, NEW o \in Opp, NEW g \in Stage, NEW sees \in SUBSET Owner,
         BeginMove(s, o, g, sees)
  PROVE  IInv'
<1> DEFINE r == [op |-> "MOVE", opp |-> o, stage |-> g, sees |-> sees, step |-> "exit", exits |-> {},
                 behind |-> {}, at |-> 0, overtaken |-> FALSE, late |-> FALSE]
<1>1. r \in Request
  BY DEF Request, MoveRequest
<1>2. Knows(r)
  BY DEF BeginMove, InScope, LiveOpp, MayAdvance, Knows, MoveKnows, DeleteKnows, FigureKnows, PayKnows
<1>3. Begin(s, r)
  BY DEF BeginMove
<1> HIDE DEF r
<1> QED BY <1>1, <1>2, <1>3, BeginKeeps

LEMMA BeginDeleteTypeKeeps ==
  ASSUME IInv, begun < MaxRequests, NEW s \in Slot, NEW t \in Type, BeginDeleteType(s, t)
  PROVE  IInv'
<1> DEFINE r == [op |-> "DELETETYPE", type |-> t, count |-> {o \in Opp : opp[o].type = t}, step |-> "write"]
<1>1. r \in Request
  BY DEF Request, DeleteRequest
<1>2. Knows(r)
  <2>1. ASSUME NEW o \in Opp, opp[o].type = t PROVE opp[o].where = "deleted"
    <3>1. opp[o].where # "live"
      BY <2>1 DEF BeginDeleteType, NotInUse, LiveOpp
    <3>2. opp[o].where # "absent"
      BY <2>1, OppAssumption DEF IInv, OppInv, NoTypeYet
    <3>3. opp[o].where \in Where
      BY DEF IInv, TypeOK, OppRow
    <3> QED BY <3>1, <3>2, <3>3 DEF Where
  <2> QED BY <2>1 DEF Knows, MoveKnows, DeleteKnows, FigureKnows, PayKnows
<1>3. Begin(s, r)
  BY DEF BeginDeleteType
<1> HIDE DEF r
<1> QED BY <1>1, <1>2, <1>3, BeginKeeps

LEMMA BeginFigureKeeps ==
  ASSUME IInv, begun < MaxRequests, NEW s \in Slot, NEW i \in Invoice, NEW change \in Change,
         NEW status \in InvoiceStatus \cup {"-"}, BeginFigure(s, i, change, status)
  PROVE  IInv'
<1> DEFINE total == TotalOf(Merged(invoice[i].figures, change))
           r == [op |-> "FIGURE", invoice |-> i, change |-> change, total |-> total,
                 status |-> status, step |-> "write", overtaken |-> FALSE, late |-> FALSE]
<1>0. total \in Int
  <2>1. invoice[i].figures \in [Fields -> Int]
    BY DEF IInv, TypeOK, InvoiceRow
  <2> QED BY <2>1, MergedType, TotalIsInt
<1>1. r \in Request
  <2> HIDE DEF total
  <2> QED BY <1>0 DEF Request, FigureRequest
<1>2. Knows(r)
  BY DEF BeginFigure, LiveInvoice, Knows, MoveKnows, DeleteKnows, FigureKnows, PayKnows
<1>3. Begin(s, r)
  BY DEF BeginFigure
<1> HIDE DEF r
<1> QED BY <1>1, <1>2, <1>3, BeginKeeps

LEMMA BeginPayKeeps ==
  ASSUME IInv, begun < MaxRequests, NEW s \in Slot, NEW i \in Invoice, NEW a \in Paid, NEW status \in PaymentStatus,
         BeginPay(s, i, a, status)
  PROVE  IInv'
<1>0. PICK becomes \in StatusAfter(i, PaidOf(i) + a) :
        Begin(s, [op |-> "PAY", invoice |-> i, amount |-> a, status |-> status, saw |-> invoice[i].status,
                  becomes |-> becomes, step |-> "write", overtaken |-> FALSE, late |-> FALSE])
  BY DEF BeginPay
<1> DEFINE r == [op |-> "PAY", invoice |-> i, amount |-> a, status |-> status, saw |-> invoice[i].status,
                 becomes |-> becomes, step |-> "write", overtaken |-> FALSE, late |-> FALSE]
<1>1. r \in Request
  <2>1. invoice[i].status \in InvoiceStatus /\ becomes \in InvoiceStatus
    BY DEF IInv, TypeOK, InvoiceRow, StatusAfter
  <2> QED BY <2>1 DEF Request, PayRequest
<1>2. Knows(r)
  <2>1. PayKnows(r)
    <3>1. LiveInvoice(i) /\ Fits(i, a)
      BY DEF BeginPay
    <3> QED BY <1>0, <3>1 DEF LiveInvoice, Fits, PayKnows
  <2> QED BY <2>1 DEF Knows, MoveKnows, DeleteKnows, FigureKnows
<1>3. Begin(s, r)
  BY <1>0
<1> HIDE DEF r
<1> QED BY <1>1, <1>2, <1>3, BeginKeeps

LEMMA FailKeeps == ASSUME IInv, NEW s \in Slot, Fail(s) PROVE IInv'
<1>1. UNCHANGED <<opp, history, type, invoice, payment, past, clock, begun>>
  BY DEF Fail, rows
<1>2. OpenOK' /\ \A t \in Slot : Becomes(open'[t], open[t], Idle)
  BY AfterFail DEF IInv
<1>3. TypeOK'
  BY <1>1, <1>2, OpenTypes DEF IInv, TypeOK, Pipeline
<1>4. PastOK' /\ OppInv' /\ TypeInUseIsLive' /\ TotalMatches' /\ PayInv'
  BY <1>1, OppQuiet, TypesQuiet, InvoiceQuiet, PaymentQuiet DEF IInv, PastOK
<1>5. OppStep(Idle) /\ InvoiceStep(Idle)
  BY <1>1, OppQuiet, PaymentQuiet DEF IInv
<1> QED BY <1>1, <1>2, <1>3, <1>4, <1>5, AllKnow DEF IInv

-----------------------------------------------------------------------------
(* Opportunities.                                                           *)

LEMMA SameHistory == ASSUME TypeOK, UNCHANGED <<history, clock>> PROVE HistoryOK'
BY DEF TypeOK, HistoryOK, Pipeline

\* Steps that touch neither invoices nor payments.
LEMMA OppActionKeeps ==
  ASSUME IInv, NEW w, \A t \in Slot : Becomes(open'[t], open[t], w), OpenOK', PastOK', begun' \in 0..MaxRequests,
         UNCHANGED <<clock, invoice, payment>>, past'.loose = past.loose, past'.mixed = past.mixed,
         opp' \in [Opp -> OppRow], HistoryOK', type' \in [Type -> Where],
         OppInv', TypeInUseIsLive', OppStep(w)
  PROVE  IInv'
<1>1. TypeOK'
  BY OpenTypes DEF IInv, TypeOK, HistoryOK
<1>2. TotalMatches' /\ PayInv' /\ InvoiceStep(w)
  BY InvoiceQuiet, PaymentQuiet DEF IInv
<1> QED BY <1>1, <1>2, AllKnow DEF IInv

LEMMA createOpportunityKeeps == ASSUME IInv, NEW s \in Slot, createOpportunity(s) PROVE IInv'
<1>1. PICK o \in Opp : /\ At(s, "CREATE", "write") /\ opp[o].where = "absent"
                       /\ opp' = [opp EXCEPT ![o] = Fresh(open[s].type, open[s].owner)]
                       /\ history' = [history EXCEPT ![o] = FirstRow]
                       /\ past' = Takes(o, open[s].type)
                       /\ UNCHANGED <<type, invoice, payment>> /\ Done(s)
  BY DEF createOpportunity
<1>2. open[s].type \in Type \cup {NoType} /\ open[s].owner \in Owner /\ open[s].op = "CREATE"
  <2>1. open[s] \in Request /\ open[s].op = "CREATE"
    BY <1>1 DEF IInv, OpenOK, At
  <2>2. open[s] \in OtherRequest
    BY <2>1, Kinds
  <2> QED BY <2>1, <2>2 DEF OtherRequest
<1> DEFINE row == Fresh(open[s].type, open[s].owner)
<1>3. row \in OppRow /\ row.where = "live" /\ row.type = open[s].type /\ row.stage = PROSPECTING /\ row.closedAt = FALSE
  BY <1>2, FreshRow DEF Fresh
<1> HIDE DEF row
<1>4. /\ opp' = [opp EXCEPT ![o] = row] /\ opp' \in [Opp -> OppRow]
      /\ opp'[o] = row /\ history'[o] = FirstRow /\ UNCHANGED clock
      /\ \A x \in Opp \ {o} : opp'[x] = opp[x] /\ history'[x] = history[x]
  BY <1>1, <1>3 DEF IInv, TypeOK, Done, row
<1>41. HistoryOK'
  <2>1. DOMAIN history' = Opp
    BY <1>1 DEF IInv, TypeOK
  <2>2. \A h : Pipeline(h) => Pipeline(h)'
    BY <1>4 DEF Pipeline
  <2>3. clock \in Nat /\ \A x \in Opp : Pipeline(history[x])
    BY DEF IInv, TypeOK
  <2>4. \A x \in Opp : \E h : history'[x] = h /\ Pipeline(h)
    BY <1>4, <2>3, NewHistory
  <2> QED BY <1>4, <2>1, <2>3, <2>4 DEF HistoryOK, Pipeline
<1>5. /\ PastOK' /\ past'.loose = past.loose /\ past'.mixed = past.mixed
      /\ past'.crossed = past.crossed /\ past'.stale = past.stale
      /\ past'.mistyped = IF TypeRead(open[s].type) THEN past.mistyped \ {o} ELSE past.mistyped \cup {o}
  BY <1>1 DEF IInv, PastOK, Takes
<1>6. OppInv'
  <2>1. opp'[o].stage = PROSPECTING /\ opp'[o].closedAt = FALSE /\ history'[o] = FirstRow
    BY <1>3, <1>4
  <2>2. \A x \in Opp \ {o} : opp'[x] = opp[x] /\ history'[x] = history[x]
    BY <1>4
  <2>3. NoTypeYet'
    BY <1>3, <1>4, <2>2 DEF IInv, OppInv, NoTypeYet
  <2>4. HistoryIsTrue'
    <3>1. ASSUME NEW x \in Opp, x # o, opp'[x].where # "absent"
          PROVE  /\ Tells(history'[x], opp'[x])
                 /\ x \notin past'.crossed => Ordered(history'[x])
                 /\ x \notin past'.stale => Clean(history'[x], opp'[x])
      BY <1>5, <2>2, <3>1, HistoryParts DEF IInv, OppInv
    <3>2. Tells(history'[o], opp'[o]) /\ Ordered(history'[o]) /\ Clean(history'[o], opp'[o])
      BY <2>1, NewIsTrue
    <3> QED BY <3>1, <3>2, HistoryParts
  <2>5. CrossedIsStale'
    BY <1>5 DEF IInv, OppInv, CrossedIsStale
  <2> QED BY <2>3, <2>4, <2>5 DEF OppInv
<1>7. TypeInUseIsLive'
  BY <1>1, <1>3, <1>4, <1>5 DEF IInv, TypeInUseIsLive, LiveOpp, TypeRead
<1>8. OppStep(open[s])
  BY <1>1, <1>3, <1>4 DEF OppStep
<1>9. OpenOK' /\ (\A t \in Slot : Becomes(open'[t], open[t], open[s])) /\ begun' \in 0..MaxRequests /\ type' \in [Type -> Where]
  BY <1>1, AfterDone DEF IInv, TypeOK, Done
<1> QED BY <1>1, <1>4, <1>41, <1>5, <1>6, <1>7, <1>8, <1>9, OppActionKeeps

LEMMA updateOpportunityKeeps == ASSUME IInv, NEW s \in Slot, updateOpportunity(s) PROVE IInv'
<1> DEFINE r == open[s]
           o == r.opp
<1>1. /\ At(s, "UPDATE", "write") /\ LiveOpp(o)
      /\ opp' = [opp EXCEPT ![o].type = IF r.type = "-" THEN @ ELSE r.type, ![o].owner = r.owner]
      /\ past' = IF r.type = "-" THEN past ELSE Takes(o, r.type)
      /\ UNCHANGED <<history, type, invoice, payment>> /\ Done(s)
  BY DEF updateOpportunity, InScope
<1>2. o \in Opp /\ r.type \in Type \cup {NoType, "-"} /\ r.owner \in Owner
  <2>1. r \in Request /\ r.op = "UPDATE"
    BY <1>1 DEF IInv, OpenOK, At
  <2>2. r \in OtherRequest
    BY <2>1, Kinds
  <2> QED BY <2>1, <2>2 DEF OtherRequest
<1> DEFINE t == IF r.type = "-" THEN opp[o].type ELSE r.type
           row == [opp[o] EXCEPT !.type = t, !.owner = r.owner]
<1>3. opp[o] \in OppRow /\ t \in Type \cup {NoType}
  BY <1>2 DEF IInv, TypeOK, OppRow
<1>4. row \in OppRow /\ row.where = opp[o].where /\ row.stage = opp[o].stage /\ row.closedAt = opp[o].closedAt /\ row.type = t
  <2> HIDE DEF t
  <2> QED BY <1>2, <1>3 DEF OppRow
<1>5. opp' = [opp EXCEPT ![o] = row]
  BY <1>1, <1>2 DEF IInv, TypeOK
<1> HIDE DEF row
<1>6. /\ opp' \in [Opp -> OppRow] /\ opp'[o] = row /\ \A x \in Opp \ {o} : opp'[x] = opp[x]
  BY <1>2, <1>4, <1>5 DEF IInv, TypeOK
<1>7. /\ PastOK' /\ past'.loose = past.loose /\ past'.mixed = past.mixed
      /\ past'.crossed = past.crossed /\ past'.stale = past.stale
      /\ past'.mistyped = IF r.type = "-" THEN past.mistyped
                          ELSE IF TypeRead(r.type) THEN past.mistyped \ {o} ELSE past.mistyped \cup {o}
  BY <1>1, <1>2 DEF IInv, PastOK, Takes
<1>8. OppInv'
  <2>1. /\ past'.crossed = past.crossed /\ past'.stale = past.stale /\ history' = history
        /\ \A x \in Opp : /\ opp'[x].where = opp[x].where
                          /\ opp'[x].stage = opp[x].stage /\ opp'[x].closedAt = opp[x].closedAt
    BY <1>1, <1>4, <1>6, <1>7
  <2>2. NoTypeYet'
    <3>1. opp[o].where = "live"
      BY <1>1 DEF LiveOpp
    <3>2. \A x \in Opp : opp[x].where = "absent" => opp'[x] = opp[x]
      BY <1>6, <3>1
    <3> QED BY <2>1, <3>2 DEF IInv, OppInv, NoTypeYet
  <2>3. CrossedIsStale'
    BY <2>1 DEF IInv, OppInv, CrossedIsStale
  <2>4. HistoryIsTrue'
    BY <2>1 DEF IInv, OppInv, HistoryIsTrue
  <2> QED BY <2>2, <2>3, <2>4 DEF OppInv
<1>9. TypeInUseIsLive'
  <2>1. ASSUME NEW x \in Opp, x # o, x \notin past'.mistyped
        PROVE  x \notin past.mistyped /\ opp'[x] = opp[x]
    BY <1>6, <1>7, <2>1
  <2>2. ASSUME o \notin past'.mistyped
        PROVE  IF r.type = "-" THEN o \notin past.mistyped /\ t = opp[o].type ELSE TypeRead(r.type) /\ t = r.type
    BY <1>7, <2>2
  <2>3. opp'[o].where = opp[o].where /\ opp'[o].type = t
    BY <1>4, <1>6
  <2>4. type' = type /\ opp[o].where = "live" /\ \A x \in Opp \ past.mistyped : LiveOpp(x) => TypeRead(opp[x].type)
    BY <1>1 DEF IInv, TypeInUseIsLive, LiveOpp
  <2>5. \A x \in Opp \ {o} : x \notin past'.mistyped /\ LiveOpp(x)' => TypeRead(opp[x].type) /\ opp'[x].type = opp[x].type
    BY <2>1, <2>4 DEF LiveOpp
  <2>6. o \notin past'.mistyped => TypeRead(t)
    <3> HIDE DEF o, t
    <3> QED BY <1>2, <2>2, <2>4 DEF LiveOpp
  <2> HIDE DEF o, t
  <2>7. ASSUME NEW x \in Opp, x \notin past'.mistyped, LiveOpp(x)'
        PROVE  \E y : TypeRead(y) /\ opp'[x].type = y
    BY <2>3, <2>5, <2>6, <2>7
  <2> QED BY <2>4, <2>7 DEF TypeInUseIsLive, TypeRead
<1>10. OppStep(open[s])
  BY <1>1, <1>2, <1>4, <1>6 DEF OppStep
<1>11. OpenOK' /\ (\A x \in Slot : Becomes(open'[x], open[x], open[s])) /\ begun' \in 0..MaxRequests
       /\ HistoryOK' /\ type' \in [Type -> Where] /\ UNCHANGED clock
  BY <1>1, AfterDone DEF IInv, TypeOK, HistoryOK, Pipeline, Done
<1> QED BY <1>1, <1>6, <1>7, <1>8, <1>9, <1>10, <1>11, OppActionKeeps

LEMMA NextCount == ASSUME IInv, begun < MaxRequests, begun' = begun + 1 PROVE begun' \in 0..MaxRequests
BY BoundAssumption DEF IInv, TypeOK

LEMMA deleteOpportunityKeeps == ASSUME IInv, begun < MaxRequests, NEW o \in Opp, deleteOpportunity(o) PROVE IInv'
<1> DEFINE row == [opp[o] EXCEPT !.where = "deleted"]
           w == [op |-> "DELETE"]
<1>1. LiveOpp(o) /\ opp' = [opp EXCEPT ![o] = row] /\ AtOnce(w) /\ UNCHANGED <<clock, history, type, invoice, payment, past>>
  BY DEF deleteOpportunity, AtOnce
<1>2. row \in OppRow /\ row.where = "deleted" /\ row.stage = opp[o].stage /\ row.closedAt = opp[o].closedAt
  BY DEF IInv, TypeOK, OppRow, Where
<1> HIDE DEF row
<1>3. /\ opp' \in [Opp -> OppRow] /\ opp'[o] = row /\ \A x \in Opp \ {o} : opp'[x] = opp[x]
  BY <1>1, <1>2 DEF IInv, TypeOK
<1>4. OppInv'
  <2>1. NoTypeYet' /\ CrossedIsStale'
    BY <1>1, <1>2, <1>3 DEF IInv, OppInv, NoTypeYet, CrossedIsStale
  <2>2. \A h : /\ Tells(h, opp[o]) => Tells(h, row)
               /\ Clean(h, opp[o]) => Clean(h, row)
    BY <1>2 DEF Tells, Clean
  <2>3. opp[o].where # "absent" /\ UNCHANGED <<history, past>>
    BY <1>1 DEF LiveOpp
  <2>4. ASSUME NEW x \in Opp, opp'[x].where # "absent"
        PROVE  /\ Tells(history'[x], opp'[x])
               /\ x \notin past'.crossed => Ordered(history'[x])
               /\ x \notin past'.stale => Clean(history'[x], opp'[x])
    <3>1. CASE x = o
      BY <1>3, <2>2, <2>3, <3>1, HistoryParts DEF IInv, OppInv
    <3>2. CASE x # o
      BY <1>3, <2>3, <2>4, <3>2, HistoryParts DEF IInv, OppInv
    <3> QED BY <3>1, <3>2
  <2> QED BY <2>1, <2>4, HistoryParts DEF OppInv
<1>5. TypeInUseIsLive'
  BY <1>1, <1>2, <1>3 DEF IInv, TypeInUseIsLive, LiveOpp, TypeRead
<1>6. OppStep(w)
  BY <1>1, <1>2, <1>3 DEF OppStep, LiveOpp
<1>7. OpenOK' /\ (\A x \in Slot : Becomes(open'[x], open[x], w)) /\ begun' \in 0..MaxRequests
  <2> HIDE DEF w
  <2>1. begun' = begun + 1
    BY <1>1 DEF AtOnce
  <2> QED BY <1>1, <2>1, AfterAtOnce, NextCount DEF IInv
<1>8. PastOK' /\ HistoryOK' /\ type' \in [Type -> Where]
  BY <1>1, SameHistory DEF IInv, TypeOK, PastOK
<1> HIDE DEF w
<1> QED BY <1>1, <1>3, <1>4, <1>5, <1>6, <1>7, <1>8, OppActionKeeps

\* A step of a request that changes the request alone, and the clock forwards.
LEMMA OwnStepKeeps ==
  ASSUME IInv, NEW s \in Slot, NEW q \in MoveRequest, open' = [open EXCEPT ![s] = q],
         UNCHANGED <<opp, history, type, invoice, payment, past, begun>>, clock' \in Nat, clock <= clock', Knows(q)'
  PROVE  IInv'
<1>1. OpenOK' /\ open'[s] = q /\ \A t \in Slot \ {s} : open'[t] = open[t]
  BY DEF IInv, OpenOK, Request
<1>2. TypeOK'
  <2>1. clock \in Nat /\ 0..clock \subseteq 0..clock'
    BY DEF IInv, TypeOK
  <2>2. \A o \in Opp : Pipeline(history[o])'
    BY <2>1 DEF IInv, TypeOK, Pipeline
  <2> QED BY <1>1, <2>2, OpenTypes DEF IInv, TypeOK
<1>3. PastOK' /\ OppInv' /\ TypeInUseIsLive' /\ TotalMatches' /\ PayInv'
  BY OppQuiet, TypesQuiet, InvoiceQuiet, PaymentQuiet DEF IInv, PastOK
<1>4. ASSUME NEW t \in Slot PROVE Knows(open[t])'
  <2>1. \A i \in Invoice : PaidOf(i)' = PaidOf(i)
    BY SameBalances DEF IInv, PayInv
  <2>2. CASE t = s
    BY <1>1, <2>2 DEF Knows, MoveKnows, DeleteKnows, FigureKnows, PayKnows
  <2>3. CASE t # s
    <3>1. Knows(open[t]) /\ open'[t] = open[t] /\ clock \in Nat
      BY <1>1, <2>3 DEF IInv, TypeOK
    <3>2. MoveKnows(open[t])'
      BY <3>1 DEF Knows, MoveKnows
    <3>3. PayKnows(open[t])'
      BY <2>1, <3>1 DEF Knows, PayKnows, StatusAfter
    <3> QED BY <3>1, <3>2, <3>3 DEF Knows, DeleteKnows, FigureKnows
  <2> QED BY <2>2, <2>3
<1> QED BY <1>1, <1>2, <1>3, <1>4 DEF IInv

LEMMA MoveRequestIs ==
  ASSUME IInv, NEW s \in Slot, open[s].op = "MOVE"
  PROVE  open[s] \in MoveRequest /\ open[s].opp \in Opp /\ open[s].stage \in Stage /\ MoveKnows(open[s])
<1>1. open[s] \in Request
  BY DEF IInv, OpenOK
<1>2. open[s] \in MoveRequest
  BY <1>1, Kinds
<1> QED BY <1>2 DEF MoveRequest, IInv, Knows

\* The first statement closes the rows that are open when it begins.
LEMMA ExitStageKeeps == ASSUME IInv, NEW s \in Slot, ExitStage(s) PROVE IInv'
<1> DEFINE r == open[s]
           o == r.opp
           seen == {k \in DOMAIN history[o] : ~history[o][k].exited}
           ahead == {t \in Ops \ {s} : open[t].op = "MOVE" /\ open[t].opp = o /\ open[t].exits \cap seen # {}}
<1>1. r.op = "MOVE" /\ UNCHANGED <<opp, history, type, invoice, payment, past, clock, begun>>
  BY DEF ExitStage, At, rows
<1>3. r \in MoveRequest /\ o \in Opp /\ MoveKnows(r)
  BY <1>1, MoveRequestIs
<1>4. seen \in SUBSET Nat
  BY <1>3 DEF IInv, TypeOK, Pipeline
<1>5. ahead \in SUBSET Slot
  BY DEF Ops
<1>2. PICK q : q = [r EXCEPT !.step = "enter", !.exits = seen, !.behind = ahead]
  OBVIOUS
<1>6. open' = [open EXCEPT ![s] = q]
  BY <1>2 DEF ExitStage, IInv, OpenOK
<1>7. /\ q \in MoveRequest /\ q.op = "MOVE" /\ q.opp = o /\ q.exits = seen /\ q.overtaken = r.overtaken
      /\ q.late = r.late /\ q.step = "enter"
  <2> HIDE DEF seen, ahead
  <2> QED BY <1>2, <1>3, <1>4, <1>5 DEF MoveRequest
<1>8. Knows(q)'
  <2>1. MoveKnows(q)'
    BY <1>1, <1>3, <1>7 DEF MoveKnows
  <2> QED BY <1>7, <2>1 DEF Knows, DeleteKnows, FigureKnows, PayKnows
<1>9. clock' \in Nat /\ clock <= clock'
  BY <1>1 DEF IInv, TypeOK
<1> HIDE DEF r, o, seen, ahead
<1> QED BY <1>1, <1>6, <1>7, <1>8, <1>9, OwnStepKeeps

\* The second makes the row of the new stage, later than every row that is there.
LEMMA EnterStageKeeps == ASSUME IInv, NEW s \in Slot, EnterStage(s) PROVE IInv'
<1> DEFINE r == open[s]
           o == r.opp
<1>1. /\ r.op = "MOVE" /\ r.step = "enter" /\ clock' = clock + 1
      /\ UNCHANGED <<opp, history, type, invoice, payment, past, begun>>
  BY DEF EnterStage, At, rows
<1>2. PICK q : q = [r EXCEPT !.step = "write", !.at = clock + 1]
  OBVIOUS
<1>3. open' = [open EXCEPT ![s] = q]
  BY <1>2 DEF EnterStage, IInv, OpenOK
<1>4. r \in MoveRequest /\ o \in Opp /\ MoveKnows(r)
  BY <1>1, MoveRequestIs
<1>5. clock \in Nat /\ \A k \in DOMAIN history[o] : k \in 0..clock
  BY <1>4 DEF IInv, TypeOK, Pipeline
<1>6. /\ q \in MoveRequest /\ q.op = "MOVE" /\ q.opp = o /\ q.exits = r.exits /\ q.overtaken = r.overtaken
      /\ q.late = r.late /\ q.at = clock + 1 /\ q.step = "write"
  <2>1. clock + 1 \in Nat
    BY <1>5
  <2> QED BY <1>2, <1>4, <2>1 DEF MoveRequest
<1>7. MoveKnows(q)'
  <2>1. \A k \in DOMAIN history[o] : k < clock + 1
    BY <1>5
  <2>2. q.at \in 0..clock'
    BY <1>1, <1>5, <1>6
  <2> QED BY <1>1, <1>4, <1>6, <2>1, <2>2 DEF MoveKnows
<1>8. Knows(q)'
  BY <1>6, <1>7 DEF Knows, DeleteKnows, FigureKnows, PayKnows
<1>9. clock' \in Nat /\ clock <= clock'
  BY <1>1, <1>5
<1> HIDE DEF r, o
<1> QED BY <1>1, <1>3, <1>6, <1>8, <1>9, OwnStepKeeps

\* The history of an opportunity that enters another stage.
LEMMA advanceStageKeeps == ASSUME IInv, NEW s \in Slot, advanceStage(s) PROVE IInv'
<1> DEFINE r == open[s]
           o == r.opp
           h == history[o]
           longer == Longer(h, r)
           row == [opp[o] EXCEPT !.stage = r.stage, !.closedAt = @ \/ r.stage \in Closed]
<1>0. r \in MoveRequest /\ r.op = "MOVE" /\ r.step = "write" /\ o \in Opp /\ r.stage \in Stage /\ LiveOpp(o)
      /\ MoveKnows(r) /\ r.late \in BOOLEAN /\ r.overtaken \in BOOLEAN
  <2>1. r.op = "MOVE" /\ r.step = "write" /\ LiveOpp(o)
    BY DEF advanceStage, At, InScope
  <2>2. r \in MoveRequest
    BY <2>1, MoveRequestIs
  <2> QED BY <2>1, <2>2, MoveRequestIs DEF MoveRequest
<1>1. /\ history' = [history EXCEPT ![o] = longer] /\ opp' = [opp EXCEPT ![o] = row]
      /\ past' = [past EXCEPT !.crossed = IF r.late THEN @ \cup {o} ELSE @ \ {o},
                              !.stale = IF r.overtaken THEN @ \cup {o} ELSE @]
      /\ UNCHANGED <<type, invoice, payment>> /\ Done(s) /\ UNCHANGED clock
  <2>1. /\ history' = [history EXCEPT ![o] = Longer(@, r)]
        /\ opp' = [opp EXCEPT ![o].stage = r.stage, ![o].closedAt = @ \/ r.stage \in Closed]
        /\ past' = [past EXCEPT !.crossed = IF r.late THEN @ \cup {o} ELSE @ \ {o},
                                !.stale = IF r.overtaken THEN @ \cup {o} ELSE @]
        /\ UNCHANGED <<type, invoice, payment>> /\ Done(s)
    BY DEF advanceStage
  <2>2. opp' = [opp EXCEPT ![o] = row]
    BY <1>0, <2>1 DEF IInv, TypeOK
  <2>3. history' = [history EXCEPT ![o] = longer]
    BY <1>0, <2>1 DEF IInv, TypeOK
  <2> QED BY <2>1, <2>2, <2>3 DEF Done
<1>2. /\ Pipeline(h) /\ clock \in Nat /\ r.at \in 0..clock
      /\ \E k \in DOMAIN h : ~h[k].exited /\ h[k].stage = opp[o].stage
      /\ o \notin past.crossed => \A k \in DOMAIN h : h[k].exited = (\E j \in DOMAIN h : j > k)
      /\ o \notin past.stale => /\ \A k \in DOMAIN h : h[k].exited => h[k].stage \notin Closed
                                /\ opp[o].closedAt = (opp[o].stage \in Closed)
      /\ ~r.overtaken => opp[o].stage \notin Closed
      /\ r.late => r.overtaken
      /\ ~r.late => \A k \in DOMAIN h : (k \in r.exits <=> ~h[k].exited) /\ k < r.at
  <2>1. opp[o].where # "absent"
    BY <1>0 DEF LiveOpp
  <2>2. Pipeline(h) /\ clock \in Nat
    BY <1>0 DEF IInv, TypeOK
  <2>3. /\ \E k \in DOMAIN h : ~h[k].exited /\ h[k].stage = opp[o].stage
        /\ o \notin past.crossed => \A k \in DOMAIN h : h[k].exited = (\E j \in DOMAIN h : j > k)
        /\ o \notin past.stale => /\ \A k \in DOMAIN h : h[k].exited => h[k].stage \notin Closed
                                  /\ opp[o].closedAt = (opp[o].stage \in Closed)
    BY <1>0, <2>1 DEF IInv, OppInv, HistoryIsTrue
  <2>4. /\ r.at \in 0..clock /\ (~r.overtaken => opp[o].stage \notin Closed) /\ (r.late => r.overtaken)
        /\ ~r.late => \A k \in DOMAIN h : (k \in r.exits <=> ~h[k].exited) /\ k < r.at
    BY <1>0 DEF MoveKnows
  <2> QED BY <2>2, <2>3, <2>4
<1>3. Entered(r.stage) \in HistoryRow /\ Entered(r.stage).stage = r.stage /\ Entered(r.stage).exited = FALSE
  BY <1>0 DEF Entered, HistoryRow
<1>4. /\ DOMAIN longer = DOMAIN h \cup {r.at} /\ Pipeline(longer)
      /\ longer[r.at].stage = r.stage /\ longer[r.at].exited = FALSE
      /\ \A k \in DOMAIN h \ {r.at} : longer[k].stage = h[k].stage /\ longer[k].exited = (h[k].exited \/ k \in r.exits)
  <2>1. longer[r.at] = Entered(r.stage)
    BY DEF Longer
  <2>2. ASSUME NEW k \in DOMAIN h \ {r.at}
        PROVE  /\ longer[k] \in HistoryRow /\ longer[k].stage = h[k].stage
               /\ longer[k].exited = (h[k].exited \/ k \in r.exits)
    <3> DEFINE e == h[k].exited \/ k \in r.exits
    <3>1. longer[k] = [h[k] EXCEPT !.exited = e]
      BY <2>2 DEF Longer
    <3>2. h[k] \in HistoryRow
      BY <1>2 DEF Pipeline
    <3>3. e \in BOOLEAN
      OBVIOUS
    <3>4. longer[k] \in HistoryRow /\ longer[k].stage = h[k].stage /\ longer[k].exited = e
      <4> HIDE DEF longer, h, e
      <4> QED BY <3>1, <3>2, <3>3 DEF HistoryRow
    <3> HIDE DEF longer
    <3> QED BY <3>4, Zenon
  <2>3. DOMAIN longer = DOMAIN h \cup {r.at}
    BY DEF Longer
  <2>4. \A k \in DOMAIN longer : longer[k] \in HistoryRow
    <3> HIDE DEF longer
    <3> QED BY <1>3, <2>1, <2>2, <2>3
  <2>5. longer \in [DOMAIN longer -> HistoryRow]
    <3>1. longer = [k \in DOMAIN longer |-> longer[k]]
      BY DEF Longer
    <3> HIDE DEF longer
    <3> QED BY <2>4, <3>1
  <2>6. DOMAIN longer \subseteq 0..clock
    BY <1>2, <2>3 DEF Pipeline
  <2> HIDE DEF longer
  <2> QED BY <1>3, <2>1, <2>2, <2>3, <2>5, <2>6 DEF Pipeline
<1> HIDE DEF longer
<1>6. /\ row \in OppRow /\ row.where = "live" /\ row.type = opp[o].type /\ row.stage = r.stage
      /\ row.closedAt = (opp[o].closedAt \/ r.stage \in Closed)
  <2>1. opp[o] \in OppRow /\ opp[o].where = "live"
    BY <1>0 DEF IInv, TypeOK, LiveOpp
  <2> QED BY <1>0, <2>1 DEF OppRow
<1> HIDE DEF row
<1>7. /\ opp' \in [Opp -> OppRow] /\ opp'[o] = row /\ \A x \in Opp \ {o} : opp'[x] = opp[x]
      /\ history'[o] = longer /\ \A x \in Opp \ {o} : history'[x] = history[x]
  BY <1>0, <1>1, <1>6 DEF IInv, TypeOK
<1>71. HistoryOK'
  <2>1. DOMAIN history' = Opp
    BY <1>1 DEF IInv, TypeOK
  <2>2. \A f : Pipeline(f) => Pipeline(f)'
    BY <1>1 DEF Pipeline
  <2>3. \A x \in Opp : \E f : history'[x] = f /\ Pipeline(f)
    BY <1>4, <1>7 DEF IInv, TypeOK
  <2> QED BY <1>1, <1>2, <2>1, <2>3 DEF HistoryOK, Pipeline
<1>8. /\ PastOK' /\ past'.loose = past.loose /\ past'.mixed = past.mixed /\ past'.mistyped = past.mistyped
      /\ past'.crossed = IF r.late THEN past.crossed \cup {o} ELSE past.crossed \ {o}
      /\ past'.stale = IF r.overtaken THEN past.stale \cup {o} ELSE past.stale
  BY <1>0, <1>1 DEF IInv, PastOK
<1>9. OppInv'
  <2>1. ASSUME NEW x \in Opp \ {o}
        PROVE  /\ opp'[x] = opp[x] /\ history'[x] = history[x]
               /\ (x \in past'.crossed <=> x \in past.crossed) /\ (x \in past'.stale <=> x \in past.stale)
    BY <1>7, <1>8
  <2>2. NoTypeYet'
    <3>1. opp'[o].where # "absent"
      BY <1>6, <1>7
    <3> QED BY <2>1, <3>1 DEF IInv, OppInv, NoTypeYet
  <2>3. CrossedIsStale'
    <3>1. past.crossed \subseteq past.stale
      BY DEF IInv, OppInv, CrossedIsStale
    <3>2. past'.crossed \subseteq past'.stale
      BY <1>2, <1>8, <3>1
    <3> QED BY <3>2 DEF CrossedIsStale
  <2>4. \E k \in DOMAIN longer : ~longer[k].exited /\ longer[k].stage = row.stage
    BY <1>4, <1>6
  <2>5. ASSUME ~r.late, NEW k \in DOMAIN longer
        PROVE  longer[k].exited = (\E j \in DOMAIN longer : j > k)
    <3>1. \A j \in DOMAIN h : j < r.at /\ j \in Int
      BY <1>2, <2>5 DEF Pipeline
    <3>2. r.at \in Int
      BY <1>2
    <3>3. CASE k = r.at
      <4>1. (\E j \in DOMAIN longer : j > k) = FALSE
        BY <1>4, <3>1, <3>2, <3>3
      <4> QED BY <1>4, <3>3, <4>1
    <3>4. CASE k # r.at
      <4>1. k \in DOMAIN h \ {r.at}
        BY <1>4, <2>5, <3>4
      <4>2. (\E j \in DOMAIN longer : j > k) = TRUE
        <5>1. r.at \in DOMAIN longer /\ r.at > k
          BY <1>4, <3>1, <3>2, <4>1
        <5> QED BY <5>1
      <4>3. longer[k].exited = (h[k].exited \/ ~h[k].exited)
        BY <1>2, <1>4, <2>5, <4>1
      <4> QED BY <4>2, <4>3
    <3> QED BY <3>3, <3>4
  <2>6. ASSUME ~r.overtaken, o \notin past.stale
        PROVE  /\ \A k \in DOMAIN longer : longer[k].exited => longer[k].stage \notin Closed
               /\ row.closedAt = (row.stage \in Closed)
    <3>1. o \notin past.crossed
      BY <2>6 DEF IInv, OppInv, CrossedIsStale
    <3>2. PICK k1 \in DOMAIN h : ~h[k1].exited /\ h[k1].stage = opp[o].stage
      BY <1>2
    <3>3. ASSUME NEW k \in DOMAIN h, ~h[k].exited PROVE k = k1
      <4>1. k \in Int /\ k1 \in Int
        BY <1>2, <3>2, <3>3 DEF Pipeline
      <4>2. ~(\E j \in DOMAIN h : j > k) /\ ~(\E j \in DOMAIN h : j > k1)
        BY <1>2, <3>1, <3>2, <3>3
      <4> QED BY <3>2, <3>3, <4>1, <4>2
    <3>4. \A k \in DOMAIN h : h[k].stage \notin Closed
      BY <1>2, <2>6, <3>2, <3>3
    <3>5. \A k \in DOMAIN longer : longer[k].exited => longer[k].stage \notin Closed
      BY <1>4, <3>4
    <3>6. (opp[o].stage \in Closed) = FALSE
      BY <1>2, <2>6
    <3>7. opp[o].closedAt = FALSE
      BY <1>2, <2>6, <3>6, Zenon
    <3>8. row.closedAt = (FALSE \/ r.stage \in Closed)
      BY <1>6, <3>7
    <3> QED BY <1>6, <3>5, <3>8
  <2>7. ASSUME NEW x \in Opp, opp'[x].where # "absent"
        PROVE  /\ Tells(history'[x], opp'[x])
               /\ x \notin past'.crossed => Ordered(history'[x])
               /\ x \notin past'.stale => Clean(history'[x], opp'[x])
    <3>1. CASE x = o
      <4>1. (x \notin past'.crossed => ~r.late) /\ (x \notin past'.stale => ~r.overtaken /\ o \notin past.stale)
        BY <1>8, <3>1
      <4>2. history'[x] = longer /\ opp'[x] = row
        BY <1>7, <3>1
      <4> HIDE DEF o, r, h
      <4> QED BY <2>4, <2>5, <2>6, <4>1, <4>2 DEF Tells, Ordered, Clean
    <3>2. CASE x # o
      BY <2>1, <2>7, <3>2, HistoryParts DEF IInv, OppInv
    <3> QED BY <3>1, <3>2
  <2> QED BY <2>2, <2>3, <2>7, HistoryParts DEF OppInv
<1>10. TypeInUseIsLive'
  BY <1>0, <1>1, <1>6, <1>7, <1>8 DEF IInv, TypeInUseIsLive, LiveOpp, TypeRead
<1>11. OppStep(open[s])
  BY <1>0, <1>6, <1>7 DEF OppStep, LiveOpp
<1>12. OpenOK' /\ (\A x \in Slot : Becomes(open'[x], open[x], open[s])) /\ begun' \in 0..MaxRequests /\ type' \in [Type -> Where]
  BY <1>1, AfterDone DEF IInv, TypeOK, Done
<1> QED BY <1>1, <1>7, <1>71, <1>8, <1>9, <1>10, <1>11, <1>12, OppActionKeeps

-----------------------------------------------------------------------------
(* The types.                                                               *)

LEMMA createTypeKeeps == ASSUME IInv, begun < MaxRequests, NEW t \in Type, createType(t) PROVE IInv'
<1> DEFINE w == [op |-> "TYPE"]
<1>1. type' = [type EXCEPT ![t] = "live"] /\ AtOnce(w) /\ UNCHANGED <<clock, opp, history, invoice, payment, past>>
  BY DEF createType, AtOnce
<1>2. OpenOK' /\ (\A x \in Slot : Becomes(open'[x], open[x], w)) /\ begun' \in 0..MaxRequests
  <2> HIDE DEF w
  <2>1. begun' = begun + 1
    BY <1>1 DEF AtOnce
  <2> QED BY <1>1, <2>1, AfterAtOnce, NextCount DEF IInv
<1>3. opp' \in [Opp -> OppRow] /\ HistoryOK' /\ type' \in [Type -> Where] /\ PastOK'
  BY <1>1, SameHistory DEF IInv, TypeOK, PastOK, Where
<1>4. OppInv' /\ OppStep(w)
  <2> HIDE DEF w
  <2> QED BY <1>1, OppQuiet DEF IInv
<1>5. TypeInUseIsLive'
  BY <1>1 DEF IInv, TypeOK, TypeInUseIsLive, LiveOpp, TypeRead, OppRow
<1> HIDE DEF w
<1> QED BY <1>1, <1>2, <1>3, <1>4, <1>5, OppActionKeeps

LEMMA deleteTypeKeeps == ASSUME IInv, NEW s \in Slot, deleteType(s) PROVE IInv'
<1> DEFINE t == open[s].type
           uses == {o \in Opp : opp[o].type = t} \ open[s].count
<1>1. /\ open[s].op = "DELETETYPE" /\ type' = [type EXCEPT ![t] = "deleted"]
      /\ past' = [past EXCEPT !.mistyped = @ \cup uses]
      /\ UNCHANGED <<clock, opp, history, invoice, payment>> /\ Done(s)
  BY DEF deleteType, At, Done
<1>2. /\ PastOK' /\ past'.loose = past.loose /\ past'.mixed = past.mixed /\ past'.mistyped = past.mistyped \cup uses
      /\ past'.crossed = past.crossed /\ past'.stale = past.stale
  BY <1>1 DEF IInv, PastOK
<1>3. OpenOK' /\ (\A x \in Slot : Becomes(open'[x], open[x], open[s])) /\ begun' \in 0..MaxRequests
  BY <1>1, AfterDone DEF IInv, TypeOK, Done
<1>4. opp' \in [Opp -> OppRow] /\ HistoryOK' /\ type' \in [Type -> Where]
  BY <1>1, SameHistory DEF IInv, TypeOK, Where
<1>5. OppInv' /\ OppStep(open[s])
  BY <1>1, <1>2, OppQuiet DEF IInv
<1>6. TypeInUseIsLive'
  <2>1. \A o \in open[s].count : opp[o].where = "deleted"
    BY <1>1 DEF IInv, Knows, DeleteKnows
  <2>2. ASSUME NEW o \in Opp, o \notin past'.mistyped, opp[o].where = "live" PROVE opp[o].type # NoType => type'[opp[o].type] = "live"
    <3>1. opp[o].type # t
      BY <1>2, <2>1, <2>2
    <3>2. opp[o].type # NoType => opp[o].type \in Type /\ type[opp[o].type] = "live"
      BY <1>2, <2>2 DEF IInv, TypeOK, OppRow, TypeInUseIsLive, LiveOpp, TypeRead
    <3> QED BY <1>1, <3>1, <3>2 DEF IInv, TypeOK
  <2> QED BY <1>1, <2>2 DEF TypeInUseIsLive, LiveOpp, TypeRead
<1> QED BY <1>1, <1>2, <1>3, <1>4, <1>5, <1>6, OppActionKeeps

-----------------------------------------------------------------------------
(* Invoices.                                                                *)

\* Steps that touch neither opportunities nor types.
LEMMA InvoiceActionKeeps ==
  ASSUME IInv, NEW w, \A t \in Slot : Becomes(open'[t], open[t], w), OpenOK', PastOK', begun' \in 0..MaxRequests,
         UNCHANGED <<clock, opp, history, type>>, past'.crossed = past.crossed, past'.stale = past.stale,
         past'.mistyped = past.mistyped,
         invoice' \in [Invoice -> InvoiceRow], payment' \in [Payment -> PaymentRow],
         TotalMatches', PayInv', InvoiceStep(w)
  PROVE  IInv'
<1>1. TypeOK'
  BY OpenTypes DEF IInv, TypeOK, Pipeline
<1>2. OppInv' /\ TypeInUseIsLive' /\ OppStep(w)
  BY OppQuiet, TypesQuiet DEF IInv
<1> QED BY <1>1, <1>2, AllKnow DEF IInv

LEMMA createInvoiceKeeps ==
  ASSUME IInv, begun < MaxRequests, NEW o \in Opp, NEW i \in Invoice, NEW f \in Figure, NEW status \in InvoiceStatus,
         createInvoice(o, i, f, status)
  PROVE  IInv'
<1> DEFINE row == Issued(f, status)
           w == [op |-> "ISSUE"]
<1>1. /\ invoice[i].where = "absent" /\ invoice' = [invoice EXCEPT ![i] = row] /\ AtOnce(w)
      /\ UNCHANGED <<clock, opp, history, type, payment, past>>
  BY DEF createInvoice, AtOnce
<1>2. row \in InvoiceRow /\ row.where = "live" /\ row.figures = f /\ row.total = TotalOf(f)
  BY IssuedRow, MoneyAssumption
<1> HIDE DEF row
<1>3. invoice' \in [Invoice -> InvoiceRow] /\ invoice'[i] = row /\ \A x \in Invoice \ {i} : invoice'[x] = invoice[x]
  BY <1>1, <1>2 DEF IInv, TypeOK
<1>4. OpenOK' /\ (\A x \in Slot : Becomes(open'[x], open[x], w)) /\ begun' \in 0..MaxRequests
  <2> HIDE DEF w
  <2>1. begun' = begun + 1
    BY <1>1 DEF AtOnce
  <2> QED BY <1>1, <2>1, AfterAtOnce, NextCount DEF IInv
<1>5. TotalMatches'
  BY <1>1, <1>2, <1>3 DEF IInv, TotalMatches, LiveInvoice
<1>6. \A x \in Invoice : Counted(x)' = Counted(x) /\ PaidOf(x)' = PaidOf(x)
  BY <1>1, SameBalances DEF IInv, PayInv
<1>7. PayInv'
  <2>1. Counted(i) = {}
    BY <1>1 DEF IInv, PayInv, HasInvoice, Counted
  <2>2. HasInvoice' /\ FewPayments'
    <3>1. \A x \in Invoice : invoice[x].where # "absent" => invoice'[x].where # "absent"
      BY <1>1, <1>3
    <3> QED BY <1>1, <3>1 DEF IInv, TypeOK, PaymentRow, PayInv, HasInvoice, FewPayments
  <2>3. PaidWithinTotal'
    BY <1>1, <1>3, <1>6, <2>1 DEF IInv, PayInv, PaidWithinTotal, LiveInvoice
  <2> QED BY <2>2, <2>3 DEF PayInv
<1>8. InvoiceStep(w)
  BY <1>1, <1>3, <1>6 DEF InvoiceStep
<1>9. PastOK' /\ payment' \in [Payment -> PaymentRow]
  BY <1>1 DEF IInv, TypeOK, PastOK
<1> HIDE DEF w
<1> QED BY <1>1, <1>3, <1>4, <1>5, <1>7, <1>8, <1>9, InvoiceActionKeeps

LEMMA updateInvoiceKeeps == ASSUME IInv, NEW s \in Slot, updateInvoice(s) PROVE IInv'
<1> DEFINE r == open[s]
           i == r.invoice
           figures == Merged(invoice[i].figures, r.change)
           status == IF r.status = "-" THEN invoice[i].status ELSE r.status
           row == [invoice[i] EXCEPT !.figures = figures, !.total = r.total, !.status = status]
<1>0. r \in FigureRequest /\ r.op = "FIGURE" /\ i \in Invoice /\ r.change \in Change /\ r.total \in Int
      /\ r.status \in InvoiceStatus \cup {"-"}
  <2>1. r \in Request /\ r.op = "FIGURE"
    BY DEF updateInvoice, At, IInv, OpenOK
  <2>2. r \in FigureRequest
    BY <2>1, Kinds
  <2> QED BY <2>1, <2>2 DEF FigureRequest
<1>1. /\ invoice' = [invoice EXCEPT ![i] = row]
      /\ past' = [past EXCEPT !.loose = @ \cup {i}, !.mixed = IF r.overtaken THEN @ \cup {i} ELSE @ \ {i}]
      /\ UNCHANGED <<clock, opp, history, type, payment>> /\ Done(s)
  BY <1>0 DEF updateInvoice, Merged, IInv, TypeOK, Done
<1>2. row \in InvoiceRow /\ row.where = invoice[i].where /\ row.figures = figures /\ row.total = r.total
  <2>1. invoice[i] \in InvoiceRow /\ invoice[i].figures \in [Fields -> Int]
    BY <1>0 DEF IInv, TypeOK, InvoiceRow
  <2>2. figures \in [Fields -> Int]
    BY <1>0, <2>1, MergedType
  <2>3. status \in InvoiceStatus
    BY <1>0, <2>1 DEF InvoiceRow
  <2> HIDE DEF figures, status
  <2> QED BY <1>0, <2>1, <2>2, <2>3 DEF InvoiceRow
<1> HIDE DEF row
<1>3. invoice' \in [Invoice -> InvoiceRow] /\ invoice'[i] = row /\ \A x \in Invoice \ {i} : invoice'[x] = invoice[x]
  BY <1>0, <1>1, <1>2 DEF IInv, TypeOK
<1>4. OpenOK' /\ (\A x \in Slot : Becomes(open'[x], open[x], open[s])) /\ begun' \in 0..MaxRequests
  BY <1>1, AfterDone DEF IInv, TypeOK, Done
<1>5. /\ PastOK' /\ past'.crossed = past.crossed /\ past'.stale = past.stale /\ past'.mistyped = past.mistyped
      /\ past'.loose = past.loose \cup {i} /\ past'.mixed = IF r.overtaken THEN past.mixed \cup {i} ELSE past.mixed \ {i}
  BY <1>0, <1>1 DEF IInv, PastOK
<1>6. TotalMatches'
  <2>1. ~r.overtaken => r.total = TotalOf(figures)
    BY <1>0 DEF IInv, Knows, FigureKnows
  <2> QED BY <1>2, <1>3, <1>5, <2>1 DEF IInv, TotalMatches, LiveInvoice
<1>7. \A x \in Invoice : Counted(x)' = Counted(x) /\ PaidOf(x)' = PaidOf(x)
  BY <1>1, SameBalances DEF IInv, PayInv
<1>8. PayInv'
  <2>1. HasInvoice' /\ FewPayments'
    <3>1. \A x \in Invoice : invoice'[x].where = invoice[x].where
      BY <1>2, <1>3
    <3> QED BY <1>1, <3>1 DEF IInv, TypeOK, PaymentRow, PayInv, HasInvoice, FewPayments
  <2>2. PaidWithinTotal'
    BY <1>3, <1>5, <1>7 DEF IInv, PayInv, PaidWithinTotal, LiveInvoice
  <2> QED BY <2>1, <2>2 DEF PayInv
<1>9. InvoiceStep(r)
  BY <1>0, <1>2, <1>3, <1>7 DEF InvoiceStep
<1>10. payment' \in [Payment -> PaymentRow]
  BY <1>1 DEF IInv, TypeOK
<1> QED BY <1>1, <1>3, <1>4, <1>5, <1>6, <1>8, <1>9, <1>10, InvoiceActionKeeps

LEMMA deleteInvoiceKeeps == ASSUME IInv, begun < MaxRequests, NEW i \in Invoice, deleteInvoice(i) PROVE IInv'
<1> DEFINE row == [invoice[i] EXCEPT !.where = "deleted"]
           w == [op |-> "REMOVE"]
<1>1. invoice' = [invoice EXCEPT ![i] = row] /\ AtOnce(w) /\ UNCHANGED <<clock, opp, history, type, payment, past>>
  BY DEF deleteInvoice, AtOnce
<1>2. /\ row \in InvoiceRow /\ row.where = "deleted" /\ row.figures = invoice[i].figures /\ row.total = invoice[i].total
      /\ row.status = invoice[i].status
  BY DEF IInv, TypeOK, InvoiceRow, Where
<1> HIDE DEF row
<1>3. invoice' \in [Invoice -> InvoiceRow] /\ invoice'[i] = row /\ \A x \in Invoice \ {i} : invoice'[x] = invoice[x]
  BY <1>1, <1>2 DEF IInv, TypeOK
<1>4. OpenOK' /\ (\A x \in Slot : Becomes(open'[x], open[x], w)) /\ begun' \in 0..MaxRequests
  <2> HIDE DEF w
  <2>1. begun' = begun + 1
    BY <1>1 DEF AtOnce
  <2> QED BY <1>1, <2>1, AfterAtOnce, NextCount DEF IInv
<1>5. TotalMatches'
  BY <1>1, <1>2, <1>3 DEF IInv, TotalMatches, LiveInvoice
<1>6. \A x \in Invoice : Counted(x)' = Counted(x) /\ PaidOf(x)' = PaidOf(x)
  BY <1>1, SameBalances DEF IInv, PayInv
<1>7. PayInv'
  <2>1. HasInvoice' /\ FewPayments'
    <3>1. \A x \in Invoice : invoice[x].where # "absent" => invoice'[x].where # "absent"
      BY <1>2, <1>3
    <3> QED BY <1>1, <3>1 DEF IInv, TypeOK, PaymentRow, PayInv, HasInvoice, FewPayments
  <2>2. PaidWithinTotal'
    BY <1>1, <1>2, <1>3, <1>6 DEF IInv, PayInv, PaidWithinTotal, LiveInvoice
  <2> QED BY <2>1, <2>2 DEF PayInv
<1>8. InvoiceStep(w)
  BY <1>2, <1>3, <1>6 DEF InvoiceStep
<1>9. PastOK' /\ payment' \in [Payment -> PaymentRow]
  BY <1>1 DEF IInv, TypeOK, PastOK
<1> HIDE DEF w
<1> QED BY <1>1, <1>3, <1>4, <1>5, <1>7, <1>8, <1>9, InvoiceActionKeeps

-----------------------------------------------------------------------------
(* Payments.                                                                *)

\* The balance after one more payment.
LEMMA OneMore ==
  ASSUME IInv, NEW p \in Payment, payment[p].where = "absent", NEW row \in PaymentRow, row.where = "live",
         payment' = [payment EXCEPT ![p] = row]
  PROVE  /\ payment' \in [Payment -> PaymentRow] /\ FewPayments'
         /\ \A i \in Invoice \ {row.invoice} : Counted(i)' = Counted(i) /\ PaidOf(i)' = PaidOf(i)
         /\ \A i \in Invoice : i = row.invoice /\ row.status # "CANCELLED" => PaidOf(i)' = PaidOf(i) + row.amount
<1>0. TypeOK /\ FewPayments
  BY DEF IInv, PayInv
<1>1. payment' \in [Payment -> PaymentRow] /\ payment'[p] = row /\ \A x \in Payment \ {p} : payment'[x] = payment[x]
  BY DEF IInv, TypeOK
<1>2. FewPayments'
  <2>1. {x \in Payment : payment'[x].where # "absent"} = {x \in Payment : payment[x].where # "absent"} \cup {p}
    BY <1>1
  <2>2. IsFiniteSet({x \in Payment : payment[x].where # "absent"} \cup {p})
    BY <1>0, FS_AddElement DEF FewPayments
  <2> QED BY <2>1, <2>2 DEF FewPayments
<1>3. \A i \in Invoice : p \notin Counted(i)
  BY DEF Counted
<1>4. \A i \in Invoice : Counted(i)' = IF i = row.invoice /\ row.status # "CANCELLED" THEN Counted(i) \cup {p} ELSE Counted(i)
  BY <1>1 DEF Counted
<1>5. \A i \in Invoice : \A x \in Counted(i) : x \in Payment /\ payment'[x] = payment[x]
  BY <1>1, <1>3 DEF Counted
<1>6. ASSUME NEW i \in Invoice, i # row.invoice PROVE Counted(i)' = Counted(i) /\ PaidOf(i)' = PaidOf(i)
  <2>1. Counted(i)' = Counted(i)
    BY <1>4, <1>6
  <2> QED BY <1>0, <1>5, <2>1, BalanceFrame
<1>7. ASSUME NEW i \in Invoice, i = row.invoice, row.status # "CANCELLED" PROVE PaidOf(i)' = PaidOf(i) + row.amount
  <2> DEFINE C == Counted(i)
  <2>1. IsFiniteSet(C) /\ p \notin C /\ Counted(i)' = C \cup {p}
    BY <1>0, <1>3, <1>4, <1>7, BalanceIsInt
  <2>2. \A x \in C \cup {p} : payment'[x].amount \in Int
    <3>1. \A x \in C \cup {p} : x \in Payment
      BY DEF Counted
    <3> QED BY <1>1, <3>1, MoneyAssumption DEF PaymentRow
  <2>3. PaidOf(i)' = Sum(payment', Counted(i)')
    BY DEF PaidOf, Sum, MapThenSumSet, MapThenFoldSet
  <2>4. PaidOf(i) = Sum(payment, C)
    BY DEF PaidOf, Sum
  <2>5. Sum(payment, C) = Sum(payment', C)
    BY <1>0, <1>5, CountedFrame
  <2>6. Sum(payment', C \cup {p}) = Sum(payment', C) + payment'[p].amount
    <3> HIDE DEF C
    <3> QED BY <2>1, <2>2, SumAdds
  <2> QED BY <1>1, <2>1, <2>3, <2>4, <2>5, <2>6
<1> QED BY <1>1, <1>2, <1>6, <1>7

LEMMA createPaymentKeeps == ASSUME IInv, NEW s \in Slot, createPayment(s) PROVE IInv'
<1> DEFINE r == open[s]
           i == r.invoice
           row == [where |-> "live", invoice |-> i, amount |-> r.amount, status |-> r.status]
           paid == [invoice[i] EXCEPT !.status = r.becomes]
<1>0. /\ r \in PayRequest /\ r.op = "PAY" /\ i \in Invoice /\ r.amount \in Paid /\ r.status \in PaymentStatus
      /\ r.saw \in InvoiceStatus /\ r.becomes \in InvoiceStatus
  <2>1. r \in Request /\ r.op = "PAY"
    BY DEF createPayment, At, IInv, OpenOK
  <2>2. r \in PayRequest
    BY <2>1, Kinds
  <2> QED BY <2>1, <2>2 DEF PayRequest
<1>1. PICK p \in Payment :
        /\ payment[p].where = "absent" /\ payment' = [payment EXCEPT ![p] = row]
        /\ invoice' = IF r.becomes = r.saw THEN invoice ELSE [invoice EXCEPT ![i].status = r.becomes]
        /\ past' = [past EXCEPT !.loose = IF r.overtaken \/ r.status = "CANCELLED" THEN @ \cup {i} ELSE @ \ {i}]
        /\ UNCHANGED <<clock, opp, history, type>> /\ Done(s)
  BY DEF createPayment, Done
<1>2. row \in PaymentRow /\ row.where = "live" /\ row.invoice = i /\ row.status = r.status /\ row.amount = r.amount
  BY <1>0 DEF PaymentRow, Where
<1> HIDE DEF row
<1>3. /\ payment' \in [Payment -> PaymentRow] /\ FewPayments'
      /\ \A x \in Invoice \ {i} : Counted(x)' = Counted(x) /\ PaidOf(x)' = PaidOf(x)
      /\ r.status # "CANCELLED" => \A x \in Invoice : x = i => PaidOf(x)' = PaidOf(x) + r.amount
  BY <1>1, <1>2, OneMore
<1>4. /\ paid \in InvoiceRow /\ paid.where = invoice[i].where /\ paid.figures = invoice[i].figures
      /\ paid.total = invoice[i].total /\ paid.status = r.becomes /\ invoice[i] \in InvoiceRow
  BY <1>0 DEF IInv, TypeOK, InvoiceRow
<1>5. invoice' = IF r.becomes = r.saw THEN invoice ELSE [invoice EXCEPT ![i] = paid]
  BY <1>0, <1>1 DEF IInv, TypeOK
<1> HIDE DEF paid
<1>6. /\ invoice' \in [Invoice -> InvoiceRow] /\ \A x \in Invoice \ {i} : invoice'[x] = invoice[x]
      /\ invoice'[i].where = invoice[i].where /\ invoice'[i].figures = invoice[i].figures
      /\ invoice'[i].total = invoice[i].total
      /\ invoice'[i].status = IF r.becomes = r.saw THEN invoice[i].status ELSE r.becomes
  BY <1>0, <1>4, <1>5 DEF IInv, TypeOK
<1>7. OpenOK' /\ (\A x \in Slot : Becomes(open'[x], open[x], open[s])) /\ begun' \in 0..MaxRequests
  BY <1>1, AfterDone DEF IInv, TypeOK, Done
<1>8. /\ PastOK' /\ past'.crossed = past.crossed /\ past'.stale = past.stale /\ past'.mistyped = past.mistyped
      /\ past'.mixed = past.mixed
      /\ past'.loose = IF r.overtaken \/ r.status = "CANCELLED" THEN past.loose \cup {i} ELSE past.loose \ {i}
  BY <1>0, <1>1 DEF IInv, PastOK
<1>9. TotalMatches'
  BY <1>6, <1>8 DEF IInv, TotalMatches, LiveInvoice
<1>10. PayKnows(r)
  BY DEF IInv, Knows
<1>11. HasInvoice'
  <2>1. invoice[i].where # "absent"
    BY <1>0, <1>10 DEF PayKnows
  <2>2. ASSUME NEW x \in Payment, payment'[x].where = "live" PROVE invoice'[payment'[x].invoice].where # "absent"
    <3>1. CASE x = p
      BY <1>1, <1>2, <1>6, <2>1, <3>1 DEF IInv, TypeOK
    <3>2. CASE x # p
      <4>1. payment'[x] = payment[x] /\ payment[x].invoice \in Invoice
        BY <1>1, <3>2 DEF IInv, TypeOK, PaymentRow
      <4> QED BY <1>6, <2>2, <4>1 DEF IInv, PayInv, HasInvoice
    <3> QED BY <3>1, <3>2
  <2> QED BY <2>2 DEF HasInvoice
<1>12. ASSUME NEW x \in Invoice, x \notin past'.loose, invoice'[x].where = "live", Counted(x)' # {}
       PROVE  /\ PaidOf(x)' <= invoice'[x].total + 1
              /\ PaidOf(x)' >= invoice'[x].total => invoice'[x].status = "PAID"
              /\ invoice'[x].status = "PAID" /\ PaidOf(x)' > 0 => PaidOf(x)' >= invoice'[x].total - 1
  <2>1. CASE x # i
    BY <1>3, <1>6, <1>8, <1>12, <2>1 DEF IInv, PayInv, PaidWithinTotal, LiveInvoice
  <2>2. CASE x = i
    <3>1. ~r.overtaken /\ r.status # "CANCELLED"
      BY <1>8, <1>12, <2>2
    <3>2. /\ r.amount <= invoice[x].total - PaidOf(x) + 1 /\ r.saw = invoice[x].status
          /\ r.becomes \in StatusAfter(x, PaidOf(x) + r.amount)
      BY <1>0, <1>10, <2>2, <3>1 DEF PayKnows
    <3>3. PaidOf(x)' = PaidOf(x) + r.amount
      BY <1>3, <2>2, <3>1
    <3>4. invoice'[x].total = invoice[x].total /\ invoice'[x].status = r.becomes
      BY <1>6, <2>2, <3>2
    <3>5. PaidOf(x) \in Int /\ r.amount \in Int /\ invoice[x].total \in Int
      BY <1>0, BalanceIsInt, MoneyAssumption DEF IInv, PayInv, TypeOK, InvoiceRow
    <3> DEFINE b == PaidOf(x)
    <3>6. \/ r.becomes = "PAID" /\ b + r.amount >= invoice[x].total - 1
          \/ r.becomes = "PARTIALLY_PAID" /\ b + r.amount <= invoice[x].total - 1
          \/ b + r.amount <= invoice[x].total - 1 /\ b + r.amount <= 0
      BY <3>2 DEF StatusAfter
    <3> HIDE DEF b
    <3>7. PaidOf(x)' = b + r.amount /\ r.amount <= invoice[x].total - b + 1 /\ b \in Int
      BY <3>2, <3>3, <3>5 DEF b
    <3> QED BY <3>4, <3>5, <3>6, <3>7
  <2> QED BY <2>1, <2>2
<1>13. PayInv'
  BY <1>3, <1>11, <1>12 DEF PayInv, PaidWithinTotal, LiveInvoice
<1>14. InvoiceStep(r)
  BY <1>0, <1>3, <1>6 DEF InvoiceStep
<1> QED BY <1>1, <1>3, <1>6, <1>7, <1>8, <1>9, <1>13, <1>14, InvoiceActionKeeps

\* A payment that is changed or deleted loosens its invoice and touches no other.
LEMMA PaymentChangeKeeps ==
  ASSUME IInv, begun < MaxRequests, NEW p \in Payment, payment[p].where = "live",
         NEW row \in PaymentRow, row.where # "absent", row.invoice = payment[p].invoice,
         payment' = [payment EXCEPT ![p] = row],
         past' = [past EXCEPT !.loose = @ \cup {payment[p].invoice}],
         NEW w, w.invoice = payment[p].invoice, w.op = "PAY", AtOnce(w),
         UNCHANGED <<opp, history, type, invoice>>
  PROVE  IInv'
<1> DEFINE i == payment[p].invoice
<1>0. TypeOK /\ FewPayments /\ i \in Invoice
  BY DEF IInv, PayInv, TypeOK, PaymentRow
<1>1. payment' \in [Payment -> PaymentRow] /\ payment'[p] = row /\ \A x \in Payment \ {p} : payment'[x] = payment[x]
  BY DEF IInv, TypeOK
<1>2. /\ PastOK' /\ past'.crossed = past.crossed /\ past'.stale = past.stale /\ past'.mistyped = past.mistyped
      /\ past'.mixed = past.mixed /\ past'.loose = past.loose \cup {i}
  BY <1>0 DEF IInv, PastOK
<1>3. ASSUME NEW x \in Invoice, x # i PROVE Counted(x)' = Counted(x) /\ PaidOf(x)' = PaidOf(x)
  <2>1. p \notin Counted(x) /\ p \notin Counted(x)'
    BY <1>1, <1>3 DEF Counted
  <2>2. \A y \in Payment \ {p} : y \in Counted(x)' <=> y \in Counted(x)
    BY <1>1 DEF Counted
  <2>3. Counted(x) \subseteq Payment /\ Counted(x)' \subseteq Payment
    BY DEF Counted
  <2>4. Counted(x)' = Counted(x)
    <3> HIDE DEF Counted
    <3> QED BY <2>1, <2>2, <2>3
  <2>5. \A y \in Counted(x) : payment'[y].amount = payment[y].amount
    BY <1>1, <2>1, <2>3
  <2> QED BY <1>0, <2>4, <2>5, BalanceFrame
<1>4. PayInv'
  <2>1. {x \in Payment : payment'[x].where # "absent"} = {x \in Payment : payment[x].where # "absent"}
    BY <1>1
  <2>2. HasInvoice'
    BY <1>1 DEF IInv, PayInv, HasInvoice
  <2>3. PaidWithinTotal'
    BY <1>2, <1>3 DEF IInv, PayInv, PaidWithinTotal, LiveInvoice
  <2> QED BY <1>0, <2>1, <2>2, <2>3 DEF PayInv, FewPayments
<1>5. TotalMatches'
  BY <1>2, InvoiceQuiet DEF IInv
<1>6. InvoiceStep(w)
  BY <1>3 DEF InvoiceStep
<1>7. OpenOK' /\ (\A x \in Slot : Becomes(open'[x], open[x], w)) /\ begun' \in 0..MaxRequests
  <2>1. begun' = begun + 1
    BY DEF AtOnce
  <2> QED BY <2>1, AfterAtOnce, NextCount DEF IInv
<1>8. invoice' \in [Invoice -> InvoiceRow] /\ UNCHANGED clock
  BY <1>0 DEF TypeOK, AtOnce
<1> QED BY <1>1, <1>2, <1>4, <1>5, <1>6, <1>7, <1>8, InvoiceActionKeeps

LEMMA updatePaymentKeeps ==
  ASSUME IInv, begun < MaxRequests, NEW p \in Payment, NEW a \in Paid, NEW status \in PaymentStatus,
         updatePayment(p, a, status)
  PROVE  IInv'
<1> DEFINE row == [payment[p] EXCEPT !.amount = a, !.status = status]
           w == [op |-> "PAY", invoice |-> payment[p].invoice]
<1>1. row \in PaymentRow /\ row.where = "live" /\ row.invoice = payment[p].invoice
  BY DEF IInv, TypeOK, PaymentRow, updatePayment
<1>2. payment' = [payment EXCEPT ![p] = row]
  BY DEF IInv, TypeOK, updatePayment
<1>3. /\ payment[p].where = "live" /\ past' = [past EXCEPT !.loose = @ \cup {payment[p].invoice}] /\ AtOnce(w)
      /\ UNCHANGED <<opp, history, type, invoice>>
  BY DEF updatePayment
<1>4. w.invoice = payment[p].invoice /\ w.op = "PAY"
  OBVIOUS
<1> HIDE DEF row, w
<1> QED BY <1>1, <1>2, <1>3, <1>4, PaymentChangeKeeps

LEMMA deletePaymentKeeps == ASSUME IInv, begun < MaxRequests, NEW p \in Payment, deletePayment(p) PROVE IInv'
<1> DEFINE row == [payment[p] EXCEPT !.where = "deleted"]
           w == [op |-> "PAY", invoice |-> payment[p].invoice]
<1>1. row \in PaymentRow /\ row.where = "deleted" /\ row.invoice = payment[p].invoice
  BY DEF IInv, TypeOK, PaymentRow, Where
<1>2. payment' = [payment EXCEPT ![p] = row]
  BY DEF deletePayment
<1>3. /\ payment[p].where = "live" /\ past' = [past EXCEPT !.loose = @ \cup {payment[p].invoice}] /\ AtOnce(w)
      /\ UNCHANGED <<opp, history, type, invoice>>
  BY DEF deletePayment
<1>4. w.invoice = payment[p].invoice /\ w.op = "PAY"
  OBVIOUS
<1> HIDE DEF row, w
<1> QED BY <1>1, <1>2, <1>3, <1>4, PaymentChangeKeeps

-----------------------------------------------------------------------------
(* The specification.                                                       *)

LEMMA SeesOwners == \A sees \in Sees : sees \in SUBSET Owner
BY DEF Sees

LEMMA NextKeeps == ASSUME IInv, [Next]_vars PROVE IInv'
<1>1. ASSUME NEW s \in Slot, begun < MaxRequests, OpportunityRequests(s) PROVE IInv'
  <2>1. ASSUME NEW o \in Opp, NEW sees \in Sees, NEW outcome \in {"WON", "LOST"}, closeOpportunity(s, o, outcome, sees)
        PROVE  IInv'
    <3>1. OutcomeStage(outcome) \in Stage
      BY DEF OutcomeStage, Stage, Closed
    <3> QED BY <1>1, <2>1, <3>1, SeesOwners, BeginMoveKeeps DEF closeOpportunity
  <2> QED BY <1>1, <2>1, SeesOwners, BeginCreateKeeps, BeginUpdateKeeps, BeginMoveKeeps, deleteOpportunityKeeps
          DEF OpportunityRequests
<1>2. ASSUME NEW s \in Slot, begun < MaxRequests, TypeRequests(s) PROVE IInv'
  BY <1>2, createTypeKeeps, BeginDeleteTypeKeeps DEF TypeRequests
<1>3. ASSUME NEW s \in Slot, begun < MaxRequests, InvoiceRequests(s) PROVE IInv'
  BY <1>3, createInvoiceKeeps, BeginFigureKeeps, deleteInvoiceKeeps DEF InvoiceRequests
<1>4. ASSUME NEW s \in Slot, begun < MaxRequests, PaymentRequests(s) PROVE IInv'
  BY <1>4, BeginPayKeeps, updatePaymentKeeps, deletePaymentKeeps DEF PaymentRequests
<1>5. ASSUME NEW s \in Slot, Commits(s) PROVE IInv'
  BY <1>5, createOpportunityKeeps, updateOpportunityKeeps, ExitStageKeeps, EnterStageKeeps, advanceStageKeeps, deleteTypeKeeps,
     updateInvoiceKeeps, createPaymentKeeps DEF Commits
<1>6. CASE UNCHANGED vars
  <2>1. UNCHANGED <<opp, history, type, invoice, payment, clock, open, begun, past>>
    BY <1>6 DEF vars, rows
  <2>2. TypeOK' /\ OpenOK' /\ PastOK' /\ OppInv' /\ TypeInUseIsLive' /\ TotalMatches' /\ PayInv'
    BY <2>1, OppQuiet, TypesQuiet, InvoiceQuiet, PaymentQuiet DEF IInv, TypeOK, Pipeline, OpenOK, PastOK
  <2>3. \A i \in Invoice : PaidOf(i)' = PaidOf(i)
    BY <2>1, SameBalances DEF IInv, PayInv
  <2>4. ASSUME NEW t \in Slot PROVE Knows(open[t])'
    BY <2>1, <2>3 DEF IInv, Knows, MoveKnows, DeleteKnows, FigureKnows, PayKnows, StatusAfter
  <2> QED BY <2>2, <2>4 DEF IInv
<1> QED BY <1>1, <1>2, <1>3, <1>4, <1>5, <1>6, FailKeeps DEF Next

\* IInv holds at every moment, however the requests that are open interleave.
THEOREM Invariance == Spec => []IInv
<1>1. Init => IInv
  BY InitIInv
<1>2. IInv /\ [Next]_vars => IInv'
  BY NextKeeps
<1> QED BY <1>1, <1>2, PTL DEF Spec

-----------------------------------------------------------------------------
(* What the sales side promises.                                            *)

\* Every reachable value has its type: no request writes a row of another shape.
THEOREM TypeCorrect == Spec => []TypeOK
BY Invariance, PTL DEF IInv

\* The Pipeline rows that advanceStage writes are the history of the opportunity: its
\* stage is always that of a row without an exit, which is the last entered and the only
\* one unless another change of stage committed while the last one was at its statements;
\* no row with an exit is of a closed stage, unless a change was overtaken by another.
THEOREM HistoryStaysTrue == Spec => []HistoryIsTrue
BY Invariance, PTL DEF IInv, OppInv

\* A live opportunity has no deleted type, unless it took it while deleteType was under
\* way: the count that deleteType makes covers every other one.
THEOREM TypesInUseStay == Spec => []TypeInUseIsLive
BY Invariance, PTL DEF IInv

\* The total that updateInvoice makes of what it read and what is sent is the total of the
\* figures it leaves, unless another update came between.
THEOREM TotalsMatch == Spec => []TotalMatches
BY Invariance, PTL DEF IInv

\* createPayment never takes an invoice more than a cent over its total, marks it PAID with
\* the payment that covers it, and never one that lacks more than a cent: whichever way the
\* comparisons at the boundary come out, for any number of payments and any amounts, until
\* something else than a payment touches the invoice.
THEOREM PaymentsStayWithin == Spec => []PaidWithinTotal
BY Invariance, PTL DEF IInv, PayInv
=============================================================================
