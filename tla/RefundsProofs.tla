----------------------------- MODULE RefundsProofs -----------------------------
(***************************************************************************)
(* What holds of Refunds.tla for every set of refunds, workers and asks.    *)
(*                                                                          *)
(* 1. Sums: what happens to a sum when one refund's share changes.          *)
(* 2. Whatever the deliveries do (KnownInv): a handler only touches a       *)
(*    refund that is recorded, an answer or an event tells of what the      *)
(*    gateway has sent, and what an admin computed under the order's lock   *)
(*    still fits when it is committed.                                      *)
(* 3. When no two deliveries about one refund run at once (OnceInv): the    *)
(*    refund a handler read is still open when it gets the order, so each   *)
(*    reservation is settled once, and the books agree with the rows.       *)
(***************************************************************************)
EXTENDS Refunds, FiniteSetTheorems, TLAPS

LEMMA TotalNat == Total \in Nat /\ Qty \in Nat /\ Qty <= Total /\ Total >= 1
  BY RefundsAssumption DEF RefundsAssumption, Total

-----------------------------------------------------------------------------
(* Sums. *)

(* A column of n cells has n. *)
LEMMA ColumnSize ==
  ASSUME NEW x, NEW n \in Nat
  PROVE  IsFiniteSet({x} \X (1..n)) /\ Cardinality({x} \X (1..n)) = n
<1>1. PICK A : A = {x}
  OBVIOUS
<1>2. PICK B : B = 1..n
  OBVIOUS
<1>3. IsFiniteSet(A) /\ Cardinality(A) = 1
  BY <1>1, FS_Singleton
<1>4. IsFiniteSet(B) /\ Cardinality(B) = n
  BY <1>2, FS_Interval
<1>5. IsFiniteSet(A \X B) /\ Cardinality(A \X B) = Cardinality(A) * Cardinality(B)
  BY <1>3, <1>4, FS_Product, Zenon
<1>6. PICK k : k = Cardinality(A \X B)
  OBVIOUS
<1>7. k = 1 * n
  BY <1>3, <1>4, <1>5, <1>6
<1>8. k = n
  BY <1>7
<1>9. QED
  BY <1>1, <1>2, <1>5, <1>6, <1>8

Cells(has) == {u \in Refunds \X (1..Total) : u[2] <= has[u[1]]}

LEMMA CellsFinite == ASSUME NEW has PROVE IsFiniteSet(Cells(has))
<1>1. IsFiniteSet(Refunds)
  BY RefundsAssumption DEF RefundsAssumption
<1>2. IsFiniteSet(1..Total)
  BY TotalNat, FS_Interval
<1>3. IsFiniteSet(Refunds \X (1..Total))
  BY <1>1, <1>2, FS_Product
<1>4. Cells(has) \in SUBSET (Refunds \X (1..Total))
  BY DEF Cells
<1>5. QED
  BY <1>3, <1>4, FS_Subset

LEMMA SumNat == ASSUME NEW has PROVE Sum(has) \in Nat
<1>1. IsFiniteSet(Cells(has))
  BY CellsFinite
<1>2. Cardinality(Cells(has)) \in Nat
  BY <1>1, FS_CardinalityType
<1>3. QED
  BY <1>2 DEF Sum, Cells

(* No refund has less, so the sum is no less. *)
LEMMA SumMonotone ==
  ASSUME NEW f \in [Refunds -> 0..Total], NEW g \in [Refunds -> 0..Total],
         \A r \in Refunds : f[r] <= g[r]
  PROVE  Sum(f) <= Sum(g)
<1>1. Cells(f) \subseteq Cells(g)
  <2>1. SUFFICES ASSUME NEW u \in Refunds \X (1..Total), u[2] <= f[u[1]]
                 PROVE  u[2] <= g[u[1]]
    BY DEF Cells
  <2>2. u[1] \in Refunds /\ u[2] \in Int
    BY TotalNat
  <2>3. f[u[1]] \in Int /\ g[u[1]] \in Int /\ f[u[1]] <= g[u[1]]
    BY <2>2, TotalNat
  <2>4. QED
    BY <2>1, <2>2, <2>3
<1>2. IsFiniteSet(Cells(g))
  BY CellsFinite
<1>3. Cardinality(Cells(f)) <= Cardinality(Cells(g))
  BY <1>1, <1>2, FS_Subset
<1>4. QED
  BY <1>3 DEF Sum, Cells

(* When one refund's share changes, so does the sum, by as much. *)
LEMMA SumChanges ==
  ASSUME NEW f \in [Refunds -> 0..Total], NEW g \in [Refunds -> 0..Total], NEW x \in Refunds,
         \A r \in Refunds : r # x => g[r] = f[r]
  PROVE  Sum(g) = Sum(f) - f[x] + g[x]
<1> DEFINE Rest == {u \in Cells(f) : u[1] # x}
           Own(n) == {x} \X (1..n)
<1>1. IsFiniteSet(Rest)
  <2>1. IsFiniteSet(Cells(f))
    BY CellsFinite
  <2>2. QED
    BY <2>1, FS_Subset
<1>2. \A n \in 0..Total : IsFiniteSet(Own(n)) /\ Cardinality(Own(n)) = n /\ Rest \cap Own(n) = {}
  <2>1. TAKE n \in 0..Total
  <2>2. n \in Nat
    BY TotalNat
  <2>3. IsFiniteSet(Own(n)) /\ Cardinality(Own(n)) = n
    BY <2>2, ColumnSize
  <2>4. Rest \cap Own(n) = {}
    OBVIOUS
  <2>5. QED
    BY <2>3, <2>4
<1>3. f[x] \in 0..Total /\ g[x] \in 0..Total
  OBVIOUS
<1>4. Cells(f) = Rest \cup Own(f[x])
  <2>1. Own(f[x]) \subseteq Cells(f)
    <3>1. \A n \in 1..f[x] : n \in 1..Total
      BY <1>3, TotalNat
    <3>2. QED
      BY <3>1, <1>3, TotalNat DEF Cells
  <2>2. \A u \in Cells(f) : u \in Rest \/ u \in Own(f[x])
    <3>1. TAKE u \in Cells(f)
    <3>2. u \in Refunds \X (1..Total) /\ u[2] <= f[u[1]]
      BY DEF Cells
    <3>3. CASE u[1] = x
      <4>1. u[2] \in 1..f[x]
        BY <3>2, <3>3, <1>3, TotalNat
      <4>2. QED
        BY <3>2, <3>3, <4>1
    <3>4. QED
      BY <3>3
  <2>3. QED
    BY <2>1, <2>2
<1>5. Cells(g) = Rest \cup Own(g[x])
  <2>1. Own(g[x]) \subseteq Cells(g)
    <3>1. \A n \in 1..g[x] : n \in 1..Total
      BY <1>3, TotalNat
    <3>2. QED
      BY <3>1, <1>3, TotalNat DEF Cells
  <2>2. Rest \subseteq Cells(g)
    BY DEF Cells
  <2>3. \A u \in Cells(g) : u \in Rest \/ u \in Own(g[x])
    <3>1. TAKE u \in Cells(g)
    <3>2. u \in Refunds \X (1..Total) /\ u[2] <= g[u[1]]
      BY DEF Cells
    <3>3. CASE u[1] = x
      <4>1. u[2] \in 1..g[x]
        BY <3>2, <3>3, <1>3, TotalNat
      <4>2. QED
        BY <3>2, <3>3, <4>1
    <3>4. CASE u[1] # x
      <4>1. g[u[1]] = f[u[1]]
        BY <3>2, <3>4
      <4>2. QED
        BY <3>2, <3>4, <4>1 DEF Cells
    <3>5. QED
      BY <3>3, <3>4
  <2>4. QED
    BY <2>1, <2>2, <2>3
<1>6. Cardinality(Rest) \in Nat /\ Cardinality({}) = 0
  BY <1>1, FS_CardinalityType, FS_EmptySet
<1> HIDE DEF Rest, Own
<1>7. Cardinality(Cells(f)) = Cardinality(Rest) + f[x]
  <2>1. IsFiniteSet(Own(f[x])) /\ Cardinality(Own(f[x])) = f[x] /\ Rest \cap Own(f[x]) = {}
    BY <1>2, <1>3
  <2>2. Cardinality(Cells(f)) = Cardinality(Rest) + Cardinality(Own(f[x])) - Cardinality(Rest \cap Own(f[x]))
    BY <1>1, <1>4, <2>1, FS_Union
  <2>3. f[x] \in Int
    BY <1>3, TotalNat
  <2>4. Cardinality(Own(f[x])) = f[x] /\ Cardinality(Rest \cap Own(f[x])) = 0
    BY <1>6, <2>1
  <2>5. QED
    BY <1>6, <2>2, <2>3, <2>4
<1>8. Cardinality(Cells(g)) = Cardinality(Rest) + g[x]
  <2>1. IsFiniteSet(Own(g[x])) /\ Cardinality(Own(g[x])) = g[x] /\ Rest \cap Own(g[x]) = {}
    BY <1>2, <1>3
  <2>2. Cardinality(Cells(g)) = Cardinality(Rest) + Cardinality(Own(g[x])) - Cardinality(Rest \cap Own(g[x]))
    BY <1>1, <1>5, <2>1, FS_Union
  <2>3. g[x] \in Int
    BY <1>3, TotalNat
  <2>4. Cardinality(Own(g[x])) = g[x] /\ Cardinality(Rest \cap Own(g[x])) = 0
    BY <1>6, <2>1
  <2>5. QED
    BY <1>6, <2>2, <2>3, <2>4
<1>9. Sum(f) = Cardinality(Cells(f)) /\ Sum(g) = Cardinality(Cells(g))
  BY DEF Sum, Cells
<1>10. f[x] \in Int /\ g[x] \in Int
  BY <1>3, TotalNat
<1>11. QED
  BY <1>6, <1>7, <1>8, <1>9, <1>10

(* Nothing anywhere sums to nothing, and no share exceeds the sum. *)
LEMMA SumOfNothing == Sum([r \in Refunds |-> 0]) = 0
<1>1. Cells([r \in Refunds |-> 0]) = {}
  BY TotalNat DEF Cells
<1>2. QED
  BY <1>1, FS_EmptySet DEF Sum, Cells

LEMMA ShareWithinSum ==
  ASSUME NEW f \in [Refunds -> 0..Total], NEW x \in Refunds
  PROVE  f[x] <= Sum(f)
<1>1. PICK g : g = [f EXCEPT ![x] = 0]
  OBVIOUS
<1>2. g \in [Refunds -> 0..Total] /\ g[x] = 0 /\ \A r \in Refunds : r # x => g[r] = f[r]
  BY <1>1, TotalNat
<1>3. Sum(g) = Sum(f) - f[x] + g[x]
  BY <1>2, SumChanges
<1>4. Sum(f) \in Nat /\ Sum(g) \in Nat /\ f[x] \in Int
  BY SumNat, TotalNat
<1>5. QED
  BY <1>2, <1>3, <1>4

-----------------------------------------------------------------------------
(* What holds whatever the deliveries do. *)

(* The recorded refunds, and the units each of them refunds. *)
RefundRow == [st: Outcome, plan: Plan, deferred: BOOLEAN, target: {"partially_refunded", "refunded"}, drive: BOOLEAN]
Units     == [r \in Refunds |-> IF r \in Recorded THEN row[r].plan.units ELSE 0]

(* A handler's event was sent by the gateway, and what it is going to       *)
(* settle or restate is recorded.                                           *)
JobsKnow ==
  \A w \in Workers : jobs[w] # Idle =>
    /\ jobs[w].ev \in sent
    /\ jobs[w].at \in {"confirmed", "rejected", "confirming", "rejecting", "restate"} => jobs[w].ev.r \in Recorded
    /\ jobs[w].at \in {"confirmed", "confirming"} => jobs[w].ev.st = "succeeded"

(* What the gateway answers it has also sent, and a note needs its word. *)
AnswersTrue ==
  \A r \in Refunds :
    /\ gw[r].st # "none" => Ev(r, gw[r].reply) \in sent
    /\ desk[r].at = "called" => Ev(r, desk[r].reply) \in sent /\ desk[r].reply # "failed"
    /\ notes[r] > 0 => Ev(r, "succeeded") \in sent

(* What computeRefund returns: the units put back are refunded with it, or  *)
(* it takes all the money that remains and the units nobody has refunded.   *)
Computed(p) == p.back <= p.units \/ (p.amount = Total - refunded /\ p.back <= Qty - RefundedUnits)

(* What an admin's request has computed fits until its lock is released. *)
Held ==
  \A r \in Refunds : desk[r].at \in {"locked", "called"} => lock = r /\ Fits(desk[r].plan) /\ Computed(desk[r].plan)

Bounded == refunded <= Total /\ RefundedUnits <= Qty

KnownInv == TypeOK /\ JobsKnow /\ AnswersTrue /\ Held /\ Bounded

-----------------------------------------------------------------------------
LEMMA RowFacts ==
  ASSUME TypeOK, NEW r \in Refunds
  PROVE  /\ r \in Recorded => row[r] \in RefundRow /\ row[r].st # "none"
         /\ r \notin Recorded => row[r] = NoRow /\ row[r].st = "none"
<1>1. row[r] \in Row
  BY DEF TypeOK
<1>2. row[r] = NoRow \/ row[r] \in RefundRow
  BY <1>1 DEF Row, RefundRow
<1>3. NoRow.st = "none"
  BY DEF NoRow
<1>4. \A e \in RefundRow : e.st \in Outcome
  BY DEF RefundRow
<1>5. row[r] \in RefundRow => row[r].st # "none"
  BY <1>4 DEF Outcome
<1>6. row[r] \in RefundRow => row[r] # NoRow
  BY <1>3, <1>5
<1>7. QED
  BY <1>2, <1>3, <1>5, <1>6 DEF Recorded

LEMMA PlanFacts ==
  ASSUME NEW p \in Plan
  PROVE  p.amount \in Nat /\ p.amount \in 1..Total /\ p.units \in Nat /\ p.units \in 0..Qty /\ p.back \in Nat /\ p.back \in 0..Qty
  BY TotalNat DEF Plan

LEMMA RecordedPlan ==
  ASSUME TypeOK, NEW r \in Recorded
  PROVE  r \in Refunds /\ row[r].plan \in Plan
<1>1. r \in Refunds
  BY DEF Recorded
<1>2. QED
  BY <1>1, RowFacts DEF RefundRow

LEMMA UnitsType == ASSUME TypeOK PROVE Units \in [Refunds -> 0..Total]
<1>1. ASSUME NEW r \in Recorded PROVE row[r].plan.units \in 0..Total
  <2>1. row[r].plan \in Plan
    BY RecordedPlan
  <2>2. QED
    BY <2>1, PlanFacts, TotalNat
<1>2. QED
  BY <1>1, TotalNat DEF Units

LEMMA RefundedUnitsNat == RefundedUnits = Sum(Units) /\ RefundedUnits \in Nat
  BY SumNat DEF RefundedUnits, Units

(* computeRefund returns a plan, of one of the two kinds. *)
LEMMA PlanOfFacts ==
  ASSUME TypeOK, NEW ask \in Asks, Fits(PlanOf(ask))
  PROVE  PlanOf(ask) \in Plan /\ Computed(PlanOf(ask))
<1>1. ask \in Ask
  BY RefundsAssumption DEF RefundsAssumption
<1>2. refunded \in Nat /\ RefundedUnits \in Nat
  BY RefundedUnitsNat DEF TypeOK
<1>3. CASE ask \in [lines: 1..Qty, restock: BOOLEAN]
  <2>1. PlanOf(ask) = [amount |-> ask.lines, units |-> ask.lines, back |-> IF ask.restock THEN ask.lines ELSE 0]
    BY <1>3 DEF PlanOf
  <2>2. ask.lines \in 1..Qty /\ ask.restock \in BOOLEAN
    BY <1>3
  <2>3. PICK p : p = PlanOf(ask)
    OBVIOUS
  <2>4. p.amount = ask.lines /\ p.units = ask.lines /\ p.back \in {ask.lines, 0}
    BY <2>1, <2>3
  <2>5. p \in Plan
    BY <2>1, <2>2, <2>3, TotalNat DEF Plan
  <2>6. p.back <= p.units
    BY <2>2, <2>4, TotalNat
  <2>7. QED
    BY <2>3, <2>5, <2>6 DEF Computed
<1>4. CASE ask \in [amount: 1..(Qty + Shipping)]
  <2>1. PlanOf(ask) = [amount |-> ask.amount, units |-> 0, back |-> 0]
    BY <1>4 DEF PlanOf
  <2>2. ask.amount \in 1..Total
    BY <1>4 DEF Total
  <2>3. PlanOf(ask) \in Plan
    BY <2>1, <2>2, TotalNat DEF Plan
  <2>4. QED
    BY <2>1, <2>3 DEF Computed
<1>5. CASE ask \in [full: {TRUE}, restock: BOOLEAN]
  <2>1. PlanOf(ask) = [amount |-> Total - refunded, units |-> 0, back |-> IF ask.restock THEN Qty - RefundedUnits ELSE 0]
    BY <1>5 DEF PlanOf
  <2>2. PICK p : p = PlanOf(ask)
    OBVIOUS
  <2>3. p.amount = Total - refunded /\ p.units = 0 /\ p.back \in {Qty - RefundedUnits, 0}
    BY <2>1, <2>2
  <2>4. p.amount \in 1..(Total - refunded) /\ RefundedUnits + p.units <= Qty
    BY <2>2 DEF Fits
  <2>5. p.amount \in 1..Total /\ RefundedUnits <= Qty
    BY <1>2, <2>3, <2>4, TotalNat
  <2>6. p.back \in 0..Qty /\ p.back <= Qty - RefundedUnits
    BY <1>2, <2>3, <2>5, TotalNat
  <2>7. p \in Plan
    BY <2>1, <2>2, <2>3, <2>5, <2>6, TotalNat DEF Plan
  <2>8. QED
    BY <2>2, <2>3, <2>6, <2>7 DEF Computed
<1>6. QED
  BY <1>1, <1>3, <1>4, <1>5 DEF Ask

-----------------------------------------------------------------------------
(* The handlers' parts. *)

BooksOK ==
  /\ status \in {"paid", "partially_refunded", "refunded", "closed"}
  /\ refunded \in Nat /\ row \in [Refunds -> Row] /\ notes \in [Refunds -> Nat] /\ shelf \in Nat

RestOK ==
  /\ lock \in Refunds \cup {Nobody} /\ desk \in [Refunds -> Desk] /\ jobs \in [Workers -> Job]
  /\ processed \subseteq sent /\ sent \subseteq Event
  /\ gw \in [Refunds -> [st: Outcome \cup {"none"}, amount: Nat, reply: Outcome]]
  /\ crashes \in Nat

LEMMA TypeParts == TypeOK <=> BooksOK /\ RestOK
  BY DEF TypeOK, BooksOK, RestOK

LEMMA EffectsFacts ==
  ASSUME BooksOK, NEW r \in Refunds, NEW p \in Plan, NEW target \in {"partially_refunded", "refunded"},
         NEW drive \in BOOLEAN, Effects(r, p, target, drive)
  PROVE  /\ shelf' = shelf + p.back /\ shelf' \in Nat
         /\ notes' \in [Refunds -> Nat] /\ notes'[r] = notes[r] + 1
         /\ \A q \in Refunds : q # r => notes'[q] = notes[q]
         /\ status' \in {"paid", "partially_refunded", "refunded", "closed"}
<1>1. p.back \in Nat
  BY PlanFacts
<1>2. shelf' = shelf + p.back /\ shelf' \in Nat
  BY <1>1 DEF Effects, BooksOK
<1>3. notes' = [notes EXCEPT ![r] = notes[r] + 1] /\ notes[r] \in Nat /\ notes \in [Refunds -> Nat]
  BY DEF Effects, BooksOK
<1>4. status' \in {"paid", "partially_refunded", "refunded", "closed"}
  BY DEF Effects, BooksOK
<1>5. QED
  BY <1>2, <1>3, <1>4

(* A row that keeps its plan counts as before. *)
LEMMA RowKeepsPlan ==
  ASSUME TypeOK, NEW r \in Recorded, NEW e \in RefundRow, e.plan = row[r].plan,
         row' = [row EXCEPT ![r] = e]
  PROVE  /\ row' \in [Refunds -> Row] /\ Recorded' = Recorded
         /\ RefundedUnits' = RefundedUnits
<1>1. r \in Refunds /\ row \in [Refunds -> Row] /\ e \in Row
  BY DEF Recorded, TypeOK, Row, RefundRow
<1>2. row' \in [Refunds -> Row] /\ row'[r] = e /\ \A q \in Refunds : q # r => row'[q] = row[q]
  BY <1>1
<1>3. NoRow.st = "none" /\ e.st # "none"
  BY DEF NoRow, RefundRow, Outcome
<1>4. Recorded' = Recorded
  BY <1>1, <1>2, <1>3 DEF Recorded
<1>5. Units' = Units
  BY <1>1, <1>2, <1>4 DEF Units
<1>6. QED
  BY <1>2, <1>4, <1>5 DEF RefundedUnits, Units

LEMMA SettledFacts ==
  ASSUME TypeOK, NEW r \in Recorded, NEW s \in Outcome
  PROVE  \E e \in RefundRow : /\ Settled(r, s) = [row EXCEPT ![r] = e]
                              /\ e.plan = row[r].plan /\ e.st = s /\ e.deferred = FALSE
<1>1. r \in Refunds /\ row \in [Refunds -> Row]
  BY DEF Recorded, TypeOK
<1>2. row[r] \in RefundRow
  BY <1>1, RowFacts
<1>3. PICK e1 : e1 = [row[r] EXCEPT !.st = s]
  OBVIOUS
<1>4. e1 \in RefundRow /\ e1.plan = row[r].plan /\ e1.st = s
  BY <1>2, <1>3 DEF RefundRow
<1>5. PICK e : e = [e1 EXCEPT !.deferred = FALSE]
  OBVIOUS
<1>6. e \in RefundRow /\ e.plan = e1.plan /\ e.st = e1.st /\ e.deferred = FALSE
  BY <1>4, <1>5 DEF RefundRow
<1>7. Settled(r, s) = [[row EXCEPT ![r] = e1] EXCEPT ![r] = e]
  BY <1>1, <1>3, <1>5 DEF Settled
<1>8. Settled(r, s) = [row EXCEPT ![r] = e]
  BY <1>1, <1>7
<1>9. QED
  BY <1>4, <1>6, <1>8

LEMMA RestatedFacts ==
  ASSUME TypeOK, NEW r \in Recorded, NEW s \in Outcome
  PROVE  \E e \in RefundRow : /\ [row EXCEPT ![r].st = s] = [row EXCEPT ![r] = e]
                              /\ e.plan = row[r].plan /\ e.st = s /\ e.deferred = row[r].deferred
<1>1. r \in Refunds /\ row \in [Refunds -> Row]
  BY DEF Recorded, TypeOK
<1>2. row[r] \in RefundRow
  BY <1>1, RowFacts
<1>3. PICK e : e = [row[r] EXCEPT !.st = s]
  OBVIOUS
<1>4. e \in RefundRow /\ e.plan = row[r].plan /\ e.st = s /\ e.deferred = row[r].deferred
  BY <1>2, <1>3 DEF RefundRow
<1>5. [row EXCEPT ![r].st = s] = [row EXCEPT ![r] = e]
  BY <1>1, <1>3
<1>6. QED
  BY <1>4, <1>5

(* A refund that fits is recorded within the order. *)
LEMMA RecordedFacts ==
  ASSUME TypeOK, Bounded, NEW r \in Refunds, r \notin Recorded, NEW p \in Plan, Fits(p),
         NEW s \in {"pending", "succeeded"}, RecordRefund(r, p, s)
  PROVE  /\ BooksOK' /\ Bounded'
         /\ refunded' = refunded + p.amount
         /\ RefundedUnits' = RefundedUnits + p.units
         /\ Recorded' = Recorded \cup {r}
         /\ row'[r].plan = p /\ row'[r].st = s /\ row'[r].deferred = (s = "pending")
         /\ \A q \in Refunds : q # r => row'[q] = row[q] /\ notes'[q] = notes[q]
         /\ IF s = "pending" THEN notes' = notes /\ shelf' = shelf
                             ELSE notes'[r] = notes[r] + 1 /\ shelf' = shelf + p.back
<1>1. BooksOK
  BY TypeParts
<1>2. row \in [Refunds -> Row] /\ refunded \in Nat
  BY <1>1 DEF BooksOK
<1>3. PICK e : e = [st |-> s, plan |-> p, deferred |-> Deferred(s), target |-> TargetOf(p), drive |-> Refundable]
  OBVIOUS
<1>4. Deferred(s) = (s = "pending") /\ Deferred(s) \in BOOLEAN /\ Refundable \in BOOLEAN
  BY DEF Deferred, Refundable
<1>5. TargetOf(p) \in {"partially_refunded", "refunded"}
  BY DEF TargetOf
<1>6. e \in RefundRow /\ e.plan = p /\ e.st = s /\ e.deferred = (s = "pending")
  BY <1>3, <1>4, <1>5 DEF RefundRow, Outcome
<1>7. row' = [row EXCEPT ![r] = e]
  BY <1>3 DEF RecordRefund
<1>8. row' \in [Refunds -> Row] /\ row'[r] = e /\ \A q \in Refunds : q # r => row'[q] = row[q]
  BY <1>2, <1>6, <1>7 DEF Row, RefundRow
<1>9. NoRow.st = "none" /\ e.st # "none"
  BY <1>6 DEF NoRow
<1>10. Recorded' = Recorded \cup {r}
  BY <1>8, <1>9 DEF Recorded
<1>11. refunded' = refunded + p.amount /\ p.amount \in Nat /\ p.units \in Nat /\ p.back \in Nat
  BY PlanFacts DEF RecordRefund
<1>12. refunded' \in Nat /\ refunded' <= Total
  BY <1>2, <1>11, TotalNat DEF Fits
<1>13. RefundedUnits' = RefundedUnits + p.units
  <2>1. PICK f : f = Units
    OBVIOUS
  <2>2. PICK g : g = [f EXCEPT ![r] = p.units]
    OBVIOUS
  <2>3. f \in [Refunds -> 0..Total] /\ f[r] = 0
    BY <2>1, UnitsType DEF Units
  <2>4. p.units \in 0..Total
    BY PlanFacts, TotalNat
  <2>5. g \in [Refunds -> 0..Total] /\ g[r] = p.units /\ \A q \in Refunds : q # r => g[q] = f[q]
    BY <2>2, <2>3, <2>4
  <2>6. Sum(g) = Sum(f) - f[r] + g[r]
    BY <2>3, <2>5, SumChanges
  <2>7. Units' = g
    <3>1. Units' = [q \in Refunds |-> IF q \in Recorded' THEN row'[q].plan.units ELSE 0]
      BY DEF Units
    <3>2. ASSUME NEW q \in Refunds PROVE Units'[q] = g[q]
      <4>1. CASE q = r
        BY <3>1, <4>1, <1>6, <1>8, <1>10, <2>5
      <4>2. CASE q # r
        <5>1. f[q] = IF q \in Recorded THEN row[q].plan.units ELSE 0
          BY <2>1 DEF Units
        <5>2. QED
          BY <3>1, <4>2, <5>1, <1>8, <1>10, <2>5
      <4>3. QED
        BY <4>1, <4>2
    <3>3. QED
      BY <3>1, <3>2, <2>5
  <2>8. RefundedUnits' = Sum(g) /\ RefundedUnits = Sum(f)
    BY <2>1, <2>7 DEF RefundedUnits, Units
  <2>9. Sum(f) \in Nat /\ p.units \in Nat
    BY SumNat, <1>11
  <2>10. QED
    BY <2>3, <2>5, <2>6, <2>8, <2>9
<1>14. RefundedUnits' <= Qty
  BY <1>13 DEF Fits
<1>15. CASE s = "pending"
  <2>1. shelf' = shelf /\ notes' = notes /\ status' = status
    BY <1>15 DEF RecordRefund, Deferred
  <2>2. BooksOK'
    BY <1>1, <1>8, <1>12, <2>1 DEF BooksOK
  <2>3. QED
    BY <1>6, <1>8, <1>10, <1>11, <1>12, <1>13, <1>14, <1>15, <2>1, <2>2 DEF Bounded
<1>16. CASE s = "succeeded"
  <2>1. Effects(r, p, TargetOf(p), Refundable)
    BY <1>16 DEF RecordRefund, Deferred
  <2>2. /\ shelf' = shelf + p.back /\ shelf' \in Nat
        /\ notes' \in [Refunds -> Nat] /\ notes'[r] = notes[r] + 1
        /\ \A q \in Refunds : q # r => notes'[q] = notes[q]
        /\ status' \in {"paid", "partially_refunded", "refunded", "closed"}
    <3>1. PICK target \in {"partially_refunded", "refunded"} : target = TargetOf(p)
      BY <1>5
    <3>2. PICK drive \in BOOLEAN : drive = Refundable
      BY <1>4
    <3>3. Effects(r, p, target, drive)
      BY <2>1, <3>1, <3>2
    <3>4. QED
      BY <3>3, <1>1, EffectsFacts
  <2>3. BooksOK'
    BY <1>8, <1>12, <2>2 DEF BooksOK
  <2>4. QED
    BY <1>6, <1>8, <1>10, <1>11, <1>12, <1>13, <1>14, <1>16, <2>2, <2>3 DEF Bounded
<1>17. QED
  BY <1>15, <1>16

-----------------------------------------------------------------------------
(* KnownInv is inductive: one lemma per action. *)

(* A step of the desk or the gateway or a delivery leaves the books. *)
LEMMA BooksKept ==
  ASSUME UNCHANGED <<refunded, row>>
  PROVE  /\ Recorded' = Recorded /\ RefundedUnits' = RefundedUnits
         /\ Bounded' = Bounded
         /\ \A p : Fits(p)' = Fits(p) /\ Computed(p)' = Computed(p)
<1>1. Recorded' = Recorded
  BY DEF Recorded
<1>2. Units' = Units
  BY <1>1 DEF Units
<1>3. RefundedUnits' = RefundedUnits
  BY <1>2 DEF RefundedUnits, Units
<1>4. \A p : Fits(p)' = Fits(p) /\ Computed(p)' = Computed(p)
  BY <1>3 DEF Fits, Computed
<1>5. QED
  BY <1>1, <1>3, <1>4 DEF Bounded

LEMMA HeldKept ==
  ASSUME Held, UNCHANGED <<desk, lock>>, refunded' = refunded, RefundedUnits' = RefundedUnits
  PROVE  Held'
  BY DEF Held, Fits, Computed

(* Nobody computes while nobody has the lock. *)
LEMMA HeldFree ==
  ASSUME Held, TypeOK, lock = Nobody, UNCHANGED desk
  PROVE  Held'
  BY RefundsAssumption DEF Held, RefundsAssumption

LEMMA LockForRefundStep ==
  ASSUME KnownInv, NEW r \in Refunds, NEW ask \in Asks, LockForRefund(r, ask)
  PROVE  KnownInv'
<1>1. TypeOK /\ JobsKnow /\ AnswersTrue /\ Held /\ Bounded
  BY DEF KnownInv
<1>2. PICK p : p = PlanOf(ask)
  OBVIOUS
<1>3. p \in Plan /\ Fits(p) /\ Computed(p)
  BY <1>1, <1>2, PlanOfFacts DEF LockForRefund
<1>4. UNCHANGED <<refunded, row>>
  BY DEF LockForRefund, books
<1>5. PICK e : e = [at |-> "locked", ask |-> ask, plan |-> p, reply |-> "pending"]
  OBVIOUS
<1>6. desk' = [desk EXCEPT ![r] = e] /\ e \in Desk /\ e.at = "locked" /\ e.plan = p
  BY <1>2, <1>3, <1>5 DEF LockForRefund, Desk, Outcome
<1>7. TypeOK'
  <2>1. desk' \in [Refunds -> Desk]
    BY <1>1, <1>6 DEF TypeOK
  <2>2. lock' \in Refunds \cup {Nobody}
    BY DEF LockForRefund
  <2>3. QED
    BY <1>1, <2>1, <2>2 DEF TypeOK, LockForRefund, books, gateway
<1>8. JobsKnow'
  BY <1>1, <1>4, BooksKept DEF JobsKnow, LockForRefund, gateway
<1>9. AnswersTrue'
  <2>1. desk \in [Refunds -> Desk]
    BY <1>1 DEF TypeOK
  <2>2. \A q \in Refunds : desk'[q].at = "called" => desk'[q] = desk[q]
    BY <1>6, <2>1
  <2>3. UNCHANGED <<gw, sent, notes>>
    BY DEF LockForRefund, gateway, books
  <2>4. QED
    BY <1>1, <2>2, <2>3 DEF AnswersTrue
<1>10. Held'
  <2>1. SUFFICES ASSUME NEW q \in Refunds, (desk[q].at \in {"locked", "called"})'
                 PROVE  (lock = q /\ Fits(desk[q].plan) /\ Computed(desk[q].plan))'
    BY DEF Held
  <2>2. desk \in [Refunds -> Desk]
    BY <1>1 DEF TypeOK
  <2>3. q = r
    <3>1. CASE q # r
      <4>1. desk'[q] = desk[q]
        BY <3>1, <1>6, <2>2
      <4>2. lock = q
        BY <1>1, <2>1, <4>1 DEF Held
      <4>3. QED
        BY <4>2, RefundsAssumption DEF RefundsAssumption, LockForRefund
    <3>2. QED
      BY <3>1
  <2>4. desk'[q].plan = p /\ lock' = q
    BY <1>6, <2>2, <2>3 DEF LockForRefund
  <2>5. Fits(p)' /\ Computed(p)'
    BY <1>3, <1>4, BooksKept
  <2>6. QED
    BY <2>4, <2>5 DEF Fits, Computed
<1>11. Bounded'
  BY <1>1, <1>4, BooksKept
<1>12. QED
  BY <1>7, <1>8, <1>9, <1>10, <1>11 DEF KnownInv

(* A request moves on with the plan it has, or ends. *)
LEMMA HeldMoves ==
  ASSUME TypeOK, Held, NEW r \in Refunds, NEW e, desk' = [desk EXCEPT ![r] = e],
         refunded' = refunded, RefundedUnits' = RefundedUnits,
         \A q \in Refunds : q # r /\ lock = q => lock' = q,
         e.at \in {"locked", "called"} =>
           desk[r].at \in {"locked", "called"} /\ e.plan = desk[r].plan /\ lock' = lock
  PROVE  Held'
<1>1. SUFFICES ASSUME NEW q \in Refunds, (desk[q].at \in {"locked", "called"})'
               PROVE  (lock = q /\ Fits(desk[q].plan) /\ Computed(desk[q].plan))'
  BY DEF Held
<1>2. desk \in [Refunds -> Desk]
  BY DEF TypeOK
<1>3. desk[q].at \in {"locked", "called"} /\ desk'[q].plan = desk[q].plan
  <2>1. CASE q = r
    BY <1>1, <1>2, <2>1
  <2>2. CASE q # r
    BY <1>1, <1>2, <2>2
  <2>3. QED
    BY <2>1, <2>2
<1>4. lock = q /\ Fits(desk[q].plan) /\ Computed(desk[q].plan)
  BY <1>3 DEF Held
<1>5. lock' = q
  <2>1. CASE q = r
    BY <1>1, <1>2, <1>4, <2>1
  <2>2. CASE q # r
    BY <1>4, <2>2
  <2>3. QED
    BY <2>1, <2>2
<1>6. QED
  BY <1>3, <1>4, <1>5 DEF Fits, Computed

(* The only request at work ends. *)
LEMMA HeldEnds ==
  ASSUME TypeOK, Held, NEW r \in Refunds, NEW e, desk' = [desk EXCEPT ![r] = e],
         lock = r, e.at \notin {"locked", "called"}
  PROVE  Held'
<1>1. desk \in [Refunds -> Desk]
  BY DEF TypeOK
<1>2. \A q \in Refunds : desk'[q].at \notin {"locked", "called"}
  BY <1>1 DEF Held
<1>3. QED
  BY <1>2 DEF Held

LEMMA CallGatewayStep ==
  ASSUME KnownInv, NEW r \in Refunds, CallGateway(r)
  PROVE  KnownInv'
<1>1. TypeOK /\ JobsKnow /\ AnswersTrue /\ Held /\ Bounded
  BY DEF KnownInv
<1>2. PICK s \in Outcome :
        /\ \/ NewAtGateway(r, desk[r].plan.amount, s)
           \/ gw[r].st # "none" /\ ((desk[r].plan.amount = gw[r].amount /\ s = gw[r].reply) \/ s = "failed") /\ UNCHANGED gateway
           \/ gw[r].st = "none" /\ s = "failed" /\ UNCHANGED gateway
        /\ desk' = [desk EXCEPT ![r].at = IF s = "failed" THEN "refused" ELSE "called", ![r].reply = s]
        /\ lock' = IF s = "failed" THEN Nobody ELSE lock
  BY DEF CallGateway
<1>3. desk \in [Refunds -> Desk] /\ gw \in [Refunds -> [st: Outcome \cup {"none"}, amount: Nat, reply: Outcome]]
  BY <1>1 DEF TypeOK
<1>4. desk[r] \in [at: {"locked", "called", "answered", "refused", "again"}, ask: Asks, plan: Plan, reply: Outcome]
      /\ desk[r].at = "locked"
  BY <1>3 DEF CallGateway, Desk, Idle
<1>5. PICK e1 : e1 = [desk[r] EXCEPT !.at = IF s = "failed" THEN "refused" ELSE "called"]
  OBVIOUS
<1>6. PICK e : e = [e1 EXCEPT !.reply = s]
  OBVIOUS
<1>7. e1 \in [at: {"locked", "called", "answered", "refused", "again"}, ask: Asks, plan: Plan, reply: Outcome]
      /\ e1.at = (IF s = "failed" THEN "refused" ELSE "called") /\ e1.plan = desk[r].plan
  BY <1>4, <1>5
<1>8. e \in Desk /\ e.at = (IF s = "failed" THEN "refused" ELSE "called") /\ e.plan = desk[r].plan /\ e.reply = s
  BY <1>6, <1>7 DEF Desk
<1>9. desk' = [desk EXCEPT ![r] = e]
  BY <1>2, <1>3, <1>5, <1>6
<1>10. UNCHANGED <<refunded, row, status, notes, shelf, processed, jobs, crashes>>
  BY DEF CallGateway, books
<1>11. gw' \in [Refunds -> [st: Outcome \cup {"none"}, amount: Nat, reply: Outcome]] /\ sent' \subseteq Event /\ sent \subseteq sent'
  <2>1. sent \subseteq Event
    BY <1>1 DEF TypeOK
  <2>2. CASE NewAtGateway(r, desk[r].plan.amount, s)
    <3>1. desk[r].plan.amount \in Nat
      BY <1>4, PlanFacts
    <3>2. Ev(r, s) \in Event
      BY DEF Ev, Event
    <3>3. [st |-> s, amount |-> desk[r].plan.amount, reply |-> s] \in [st: Outcome \cup {"none"}, amount: Nat, reply: Outcome]
      BY <3>1
    <3>4. QED
      BY <1>3, <2>1, <2>2, <3>2, <3>3 DEF NewAtGateway
  <2>3. CASE UNCHANGED gateway
    BY <1>3, <2>1, <2>3 DEF gateway
  <2>4. QED
    BY <1>2, <2>2, <2>3
<1>12. TypeOK'
  <2>1. desk' \in [Refunds -> Desk]
    BY <1>3, <1>8, <1>9
  <2>2. lock' \in Refunds \cup {Nobody}
    BY <1>1, <1>2 DEF TypeOK
  <2>3. QED
    BY <1>1, <1>10, <1>11, <2>1, <2>2 DEF TypeOK
<1>13. JobsKnow'
  BY <1>1, <1>10, <1>11, BooksKept DEF JobsKnow
<1>14. AnswersTrue'
  <2>1. \A q \in Refunds : gw'[q].st # "none" => Ev(q, gw'[q].reply) \in sent'
    <3>1. CASE NewAtGateway(r, desk[r].plan.amount, s)
      BY <1>1, <1>3, <1>11, <3>1 DEF NewAtGateway, AnswersTrue
    <3>2. CASE UNCHANGED gateway
      BY <1>1, <3>2 DEF gateway, AnswersTrue
    <3>3. QED
      BY <1>2, <3>1, <3>2
  <2>2. s # "failed" => Ev(r, s) \in sent'
    <3>1. CASE NewAtGateway(r, desk[r].plan.amount, s)
      BY <3>1 DEF NewAtGateway
    <3>2. CASE gw[r].st # "none" /\ s = gw[r].reply
      BY <1>1, <1>11, <3>2 DEF AnswersTrue
    <3>3. QED
      BY <1>2, <3>1, <3>2
  <2>3. \A q \in Refunds : desk'[q].at = "called" => Ev(q, desk'[q].reply) \in sent' /\ desk'[q].reply # "failed"
    <3>1. TAKE q \in Refunds
    <3>2. CASE q = r
      BY <1>3, <1>8, <1>9, <2>2, <3>2
    <3>3. CASE q # r
      <4>1. desk'[q] = desk[q]
        BY <1>3, <1>9, <3>3
      <4>2. QED
        BY <1>1, <1>11, <4>1 DEF AnswersTrue
    <3>4. QED
      BY <3>2, <3>3
  <2>4. \A q \in Refunds : notes'[q] > 0 => Ev(q, "succeeded") \in sent'
    BY <1>1, <1>10, <1>11 DEF AnswersTrue
  <2>5. QED
    BY <2>1, <2>3, <2>4 DEF AnswersTrue, Ev
<1>15. Held'
  <2>1. lock = r
    BY <1>1, <1>4 DEF Held
  <2>2. RefundedUnits' = RefundedUnits
    BY <1>10, BooksKept
  <2>3. CASE s = "failed"
    BY <1>1, <1>8, <1>9, <2>1, <2>3, HeldEnds
  <2>4. CASE s # "failed"
    <3>1. lock' = lock
      BY <1>2, <2>4
    <3>2. QED
      BY <1>1, <1>4, <1>8, <1>9, <1>10, <2>2, <3>1, HeldMoves
  <2>5. QED
    BY <2>3, <2>4
<1>16. Bounded'
  BY <1>1, <1>10, BooksKept
<1>17. QED
  BY <1>12, <1>13, <1>14, <1>15, <1>16 DEF KnownInv

-----------------------------------------------------------------------------
LEMMA CommitStep ==
  ASSUME KnownInv, NEW r \in Refunds, Commit(r)
  PROVE  KnownInv'
<1>1. TypeOK /\ JobsKnow /\ AnswersTrue /\ Held /\ Bounded
  BY DEF KnownInv
<1>2. desk \in [Refunds -> Desk]
  BY <1>1 DEF TypeOK
<1>3. desk[r] \in [at: {"locked", "called", "answered", "refused", "again"}, ask: Asks, plan: Plan, reply: Outcome]
      /\ desk[r].at = "called"
  BY <1>2 DEF Commit, Desk, Idle
<1>4. PICK e : e = [desk[r] EXCEPT !.at = "answered"]
  OBVIOUS
<1>5. desk' = [desk EXCEPT ![r] = e] /\ e \in Desk /\ e.at = "answered"
  BY <1>2, <1>3, <1>4 DEF Commit, Desk
<1>6. lock = r /\ Fits(desk[r].plan) /\ Ev(r, desk[r].reply) \in sent /\ desk[r].reply # "failed"
  BY <1>1, <1>3 DEF Held, AnswersTrue
<1>7. PICK p \in Plan : p = desk[r].plan
  BY <1>3
<1>8. PICK s \in {"pending", "succeeded"} : s = desk[r].reply
  BY <1>3, <1>6 DEF Outcome
<1>9. Fits(p) /\ Ev(r, s) \in sent
  BY <1>6, <1>7, <1>8
<1>10. /\ BooksOK' /\ Bounded' /\ Recorded \subseteq Recorded'
       /\ \A q \in Refunds : notes'[q] > 0 => notes[q] > 0 \/ (q = r /\ s = "succeeded")
  <2>1. CASE r \in Recorded
    <3>1. UNCHANGED books
      BY <2>1 DEF Commit
    <3>2. UNCHANGED <<status, refunded, row, notes, shelf>>
      BY <3>1 DEF books
    <3>3. BooksOK'
      BY <1>1, <3>2 DEF TypeOK, BooksOK
    <3>4. QED
      BY <1>1, <3>2, <3>3, BooksKept
  <2>2. CASE r \notin Recorded
    <3>1. RecordRefund(r, p, s)
      BY <2>2, <1>7, <1>8 DEF Commit
    <3>2. /\ BooksOK' /\ Bounded' /\ Recorded' = Recorded \cup {r}
          /\ \A q \in Refunds : q # r => notes'[q] = notes[q]
          /\ s = "pending" => notes' = notes
      BY <1>1, <1>9, <2>2, <3>1, RecordedFacts
    <3>3. QED
      BY <3>2
  <2>3. QED
    BY <2>1, <2>2
<1>11. UNCHANGED <<processed, jobs, gw, sent, crashes>> /\ lock' = Nobody
  BY DEF Commit, gateway
<1>12. TypeOK'
  <2>1. RestOK'
    BY <1>1, <1>2, <1>5, <1>11 DEF TypeOK, RestOK
  <2>2. QED
    BY <1>10, <2>1 DEF TypeOK, BooksOK, RestOK
<1>13. JobsKnow'
  BY <1>1, <1>10, <1>11 DEF JobsKnow
<1>14. AnswersTrue'
  <2>1. \A q \in Refunds : desk'[q].at = "called" => desk'[q] = desk[q]
    BY <1>2, <1>5
  <2>2. \A q \in Refunds : notes'[q] > 0 => Ev(q, "succeeded") \in sent
    BY <1>1, <1>9, <1>10 DEF AnswersTrue
  <2>3. QED
    BY <1>1, <1>11, <2>1, <2>2 DEF AnswersTrue, Ev
<1>15. Held'
  BY <1>1, <1>5, <1>6, HeldEnds
<1>16. QED
  BY <1>10, <1>12, <1>13, <1>14, <1>15 DEF KnownInv

LEMMA RequestDiesStep ==
  ASSUME KnownInv, NEW r \in Refunds, RequestDies(r)
  PROVE  KnownInv'
<1>1. TypeOK /\ JobsKnow /\ AnswersTrue /\ Held /\ Bounded
  BY DEF KnownInv
<1>2. desk \in [Refunds -> Desk]
  BY <1>1 DEF TypeOK
<1>3. desk[r] \in [at: {"locked", "called", "answered", "refused", "again"}, ask: Asks, plan: Plan, reply: Outcome]
  BY <1>2 DEF RequestDies, Desk, Idle
<1>4. PICK e : e = [desk[r] EXCEPT !.at = "again"]
  OBVIOUS
<1>5. desk' = [desk EXCEPT ![r] = e] /\ e \in Desk /\ e.at = "again"
  BY <1>2, <1>3, <1>4 DEF RequestDies, Desk
<1>6. UNCHANGED <<refunded, row, status, notes, shelf, processed, jobs, gw, sent>>
  BY DEF RequestDies, books, gateway
<1>7. TypeOK'
  <2>1. desk' \in [Refunds -> Desk]
    BY <1>2, <1>5
  <2>2. lock' \in Refunds \cup {Nobody}
    BY <1>1 DEF TypeOK, RequestDies
  <2>3. crashes' \in Nat
    BY <1>1 DEF TypeOK, RequestDies
  <2>4. QED
    BY <1>1, <1>6, <2>1, <2>2, <2>3 DEF TypeOK
<1>8. JobsKnow'
  BY <1>1, <1>6, BooksKept DEF JobsKnow
<1>9. AnswersTrue'
  <2>1. \A q \in Refunds : desk'[q].at = "called" => desk'[q] = desk[q]
    BY <1>2, <1>5
  <2>2. QED
    BY <1>1, <1>6, <2>1 DEF AnswersTrue, Ev
<1>10. Held'
  <2>1. RefundedUnits' = RefundedUnits /\ refunded' = refunded
    BY <1>6, BooksKept
  <2>2. \A q \in Refunds : q # r /\ lock = q => lock' = q
    BY DEF RequestDies
  <2>3. QED
    BY <1>1, <1>5, <2>1, <2>2, HeldMoves
<1>11. Bounded'
  BY <1>1, <1>6, BooksKept
<1>12. QED
  BY <1>7, <1>8, <1>9, <1>10, <1>11 DEF KnownInv

(* What happens outside the order's rows and the handlers. *)
LEMMA OutsideStep ==
  ASSUME KnownInv, UNCHANGED <<refunded, row, notes, shelf, lock, desk, processed, jobs, crashes>>,
         status' \in {"paid", "partially_refunded", "refunded", "closed"},
         gw' \in [Refunds -> [st: Outcome \cup {"none"}, amount: Nat, reply: Outcome]],
         sent \subseteq sent', sent' \subseteq Event,
         \A r \in Refunds : gw'[r].st # "none" => Ev(r, gw'[r].reply) \in sent'
  PROVE  KnownInv'
<1>1. TypeOK /\ JobsKnow /\ AnswersTrue /\ Held /\ Bounded
  BY DEF KnownInv
<1>2. Recorded' = Recorded /\ RefundedUnits' = RefundedUnits /\ Bounded' = Bounded
  BY BooksKept
<1>3. TypeOK'
  BY <1>1 DEF TypeOK
<1>4. JobsKnow'
  BY <1>1, <1>2 DEF JobsKnow
<1>5. AnswersTrue'
  BY <1>1 DEF AnswersTrue, Ev
<1>6. Held'
  BY <1>1, <1>2, HeldKept
<1>7. QED
  BY <1>1, <1>2, <1>3, <1>4, <1>5, <1>6 DEF KnownInv

LEMMA CloseOrderStep == ASSUME KnownInv, CloseOrder PROVE KnownInv'
<1>1. UNCHANGED <<refunded, row, notes, shelf, lock, desk, processed, jobs, crashes, gw, sent>> /\ status' = "closed"
  BY DEF CloseOrder, gateway
<1>2. gw' \in [Refunds -> [st: Outcome \cup {"none"}, amount: Nat, reply: Outcome]] /\ sent' \subseteq Event
  BY <1>1 DEF KnownInv, TypeOK
<1>3. \A r \in Refunds : gw'[r].st # "none" => Ev(r, gw'[r].reply) \in sent'
  BY <1>1 DEF KnownInv, AnswersTrue
<1>4. QED
  BY <1>1, <1>2, <1>3, OutsideStep

LEMMA DashboardStep == ASSUME KnownInv, NEW r \in Refunds, Dashboard(r) PROVE KnownInv'
<1>1. PICK amount \in 1..Total, s \in {"pending", "succeeded"} : NewAtGateway(r, amount, s)
  BY DEF Dashboard
<1>2. UNCHANGED <<refunded, row, notes, shelf, status, lock, desk, processed, jobs, crashes>>
  BY DEF Dashboard, books
<1>3. gw \in [Refunds -> [st: Outcome \cup {"none"}, amount: Nat, reply: Outcome]] /\ sent \subseteq Event
  BY DEF KnownInv, TypeOK
<1>4. PICK e : e = [st |-> s, amount |-> amount, reply |-> s]
  OBVIOUS
<1>5. e \in [st: Outcome \cup {"none"}, amount: Nat, reply: Outcome] /\ e.reply = s
  BY <1>4, TotalNat DEF Outcome
<1>6. gw' = [gw EXCEPT ![r] = e] /\ sent' = sent \cup {Ev(r, s)}
  BY <1>1, <1>4 DEF NewAtGateway
<1>7. Ev(r, s) \in Event
  BY DEF Ev, Event, Outcome
<1>8. gw' \in [Refunds -> [st: Outcome \cup {"none"}, amount: Nat, reply: Outcome]] /\ sent' \subseteq Event /\ sent \subseteq sent'
  BY <1>3, <1>5, <1>6, <1>7
<1>9. \A q \in Refunds : gw'[q].st # "none" => Ev(q, gw'[q].reply) \in sent'
  <2>1. TAKE q \in Refunds
  <2>2. CASE q = r
    BY <1>3, <1>5, <1>6, <2>2
  <2>3. CASE q # r
    <3>1. gw'[q] = gw[q]
      BY <1>3, <1>6, <2>3
    <3>2. QED
      BY <1>8, <3>1 DEF KnownInv, AnswersTrue
  <2>4. QED
    BY <2>2, <2>3
<1>10. status' \in {"paid", "partially_refunded", "refunded", "closed"}
  BY <1>2 DEF KnownInv, TypeOK
<1>11. QED
  BY <1>2, <1>8, <1>9, <1>10, OutsideStep

LEMMA DecideStep == ASSUME KnownInv, NEW r \in Refunds, Decide(r) PROVE KnownInv'
<1>1. PICK s \in {"succeeded", "failed"} :
        /\ gw[r].st = "pending" \/ (gw[r].st = "succeeded" /\ s = "failed")
        /\ gw' = [gw EXCEPT ![r].st = s]
        /\ sent' = sent \cup {Ev(r, s)}
  BY DEF Decide
<1>2. UNCHANGED <<refunded, row, notes, shelf, status, lock, desk, processed, jobs, crashes>>
  BY DEF Decide, books
<1>3. gw \in [Refunds -> [st: Outcome \cup {"none"}, amount: Nat, reply: Outcome]] /\ sent \subseteq Event
  BY DEF KnownInv, TypeOK
<1>4. PICK e : e = [gw[r] EXCEPT !.st = s]
  OBVIOUS
<1>5. e \in [st: Outcome \cup {"none"}, amount: Nat, reply: Outcome] /\ e.reply = gw[r].reply
  BY <1>3, <1>4 DEF Outcome
<1>6. gw' = [gw EXCEPT ![r] = e]
  BY <1>1, <1>3, <1>4
<1>7. Ev(r, s) \in Event
  BY DEF Ev, Event, Outcome
<1>8. gw' \in [Refunds -> [st: Outcome \cup {"none"}, amount: Nat, reply: Outcome]] /\ sent' \subseteq Event /\ sent \subseteq sent'
  BY <1>1, <1>3, <1>5, <1>6, <1>7
<1>9. gw[r].st # "none"
  BY <1>1
<1>10. \A q \in Refunds : gw[q].st # "none" => Ev(q, gw[q].reply) \in sent
  BY DEF KnownInv, AnswersTrue
<1>11. \A q \in Refunds : gw'[q].st # "none" => Ev(q, gw'[q].reply) \in sent'
  <2>1. TAKE q \in Refunds
  <2>2. CASE q = r
    BY <1>3, <1>5, <1>6, <1>8, <1>9, <1>10, <2>2
  <2>3. CASE q # r
    <3>1. gw'[q] = gw[q]
      BY <1>3, <1>6, <2>3
    <3>2. QED
      BY <1>8, <1>10, <3>1
  <2>4. QED
    BY <2>2, <2>3
<1>12. status' \in {"paid", "partially_refunded", "refunded", "closed"}
  BY <1>2 DEF KnownInv, TypeOK
<1>13. QED
  BY <1>2, <1>8, <1>11, <1>12, OutsideStep

-----------------------------------------------------------------------------
Stages == {"claimed", "new", "confirmed", "rejected", "confirming", "rejecting", "restate", "finished"}

(* A delivery that goes on tells of the same event. *)
LEMMA GotoFacts ==
  ASSUME TypeOK, NEW w \in Workers, jobs[w].at # "idle", NEW at \in Stages, Goto(w, at)
  PROVE  \E j \in Job : /\ jobs' = [jobs EXCEPT ![w] = j]
                        /\ j # Idle /\ j.at = at /\ j.ev = jobs[w].ev
<1>1. jobs \in [Workers -> Job]
  BY DEF TypeOK
<1>2. jobs[w] \in [at: Stages, ev: Event]
  BY <1>1 DEF Job, Idle, Stages
<1>3. PICK j : j = [jobs[w] EXCEPT !.at = at]
  OBVIOUS
<1>4. j \in [at: Stages, ev: Event] /\ j.at = at /\ j.ev = jobs[w].ev
  BY <1>2, <1>3
<1>5. j \in Job /\ j # Idle
  BY <1>4 DEF Job, Idle, Stages
<1>6. jobs' = [jobs EXCEPT ![w] = j]
  BY <1>1, <1>3 DEF Goto
<1>7. QED
  BY <1>4, <1>5, <1>6

(* A delivery goes on while rows and events only grow. *)
LEMMA JobMoves ==
  ASSUME TypeOK, JobsKnow, NEW w \in Workers, NEW j \in Job, jobs' = [jobs EXCEPT ![w] = j],
         Recorded \subseteq Recorded', sent' = sent,
         j # Idle => /\ j.ev \in sent
                     /\ j.at \in {"confirmed", "rejected", "confirming", "rejecting", "restate"} => j.ev.r \in Recorded'
                     /\ j.at \in {"confirmed", "confirming"} => j.ev.st = "succeeded"
  PROVE  jobs' \in [Workers -> Job] /\ JobsKnow'
<1>1. jobs \in [Workers -> Job]
  BY DEF TypeOK
<1>2. jobs' \in [Workers -> Job] /\ jobs'[w] = j /\ \A v \in Workers : v # w => jobs'[v] = jobs[v]
  BY <1>1
<1>3. JobsKnow'
  BY <1>2 DEF JobsKnow
<1>4. QED
  BY <1>2, <1>3

(* A step of a delivery that leaves the books alone. *)
LEMMA DeliveryStep ==
  ASSUME KnownInv, UNCHANGED <<books, lock, desk, gateway>>,
         jobs' \in [Workers -> Job], JobsKnow', processed' \subseteq sent, crashes' \in Nat
  PROVE  KnownInv'
<1>1. TypeOK /\ JobsKnow /\ AnswersTrue /\ Held /\ Bounded
  BY DEF KnownInv
<1>2. UNCHANGED <<status, refunded, row, notes, shelf, lock, desk, gw, sent>>
  BY DEF books, gateway
<1>3. RefundedUnits' = RefundedUnits /\ Bounded' = Bounded
  BY <1>2, BooksKept
<1>4. TypeOK'
  BY <1>1, <1>2 DEF TypeOK
<1>5. AnswersTrue'
  BY <1>1, <1>2 DEF AnswersTrue, Ev
<1>6. Held'
  BY <1>1, <1>2, <1>3, HeldKept
<1>7. QED
  BY <1>1, <1>3, <1>4, <1>5, <1>6 DEF KnownInv

LEMMA ClaimStep == ASSUME KnownInv, NEW w \in Workers, NEW e \in Event, Claim(w, e) PROVE KnownInv'
<1>1. TypeOK /\ JobsKnow
  BY DEF KnownInv
<1>2. PICK j : j = [at |-> "claimed", ev |-> e]
  OBVIOUS
<1>3. j \in Job /\ j.at = "claimed" /\ j.ev = e
  BY <1>2 DEF Job
<1>4. jobs' = [jobs EXCEPT ![w] = j] /\ e \in sent /\ sent' = sent /\ Recorded' = Recorded
  BY <1>2 DEF Claim, gateway, books, Recorded
<1>5. jobs' \in [Workers -> Job] /\ JobsKnow'
  BY <1>1, <1>3, <1>4, JobMoves
<1>6. processed' \subseteq sent /\ crashes' \in Nat
  BY <1>1 DEF TypeOK, Claim
<1>7. UNCHANGED <<books, lock, desk, gateway>>
  BY DEF Claim
<1>8. QED
  BY <1>5, <1>6, <1>7, DeliveryStep

LEMMA FindRefundStep == ASSUME KnownInv, NEW w \in Workers, FindRefund(w) PROVE KnownInv'
<1>1. TypeOK /\ JobsKnow
  BY DEF KnownInv
<1>2. PICK r : r = jobs[w].ev.r
  OBVIOUS
<1>3. PICK says : says = jobs[w].ev.st
  OBVIOUS
<1>4. jobs[w] # Idle /\ jobs[w].ev \in sent /\ r \in Refunds /\ jobs[w].at # "idle"
  <2>1. jobs[w] # Idle /\ jobs[w].at # "idle"
    <3>1. jobs[w].at = "claimed"
      BY DEF FindRefund
    <3>2. QED
      BY <3>1 DEF Idle
  <2>2. jobs[w].ev \in sent /\ sent \subseteq Event
    BY <1>1, <2>1 DEF JobsKnow, TypeOK
  <2>3. QED
    BY <1>2, <2>1, <2>2 DEF Event
<1>5. PICK known : known = row[r].st
  OBVIOUS
<1>6. PICK at : at = CASE known = "none" -> "new"
                  [] <<known, says>> = <<"pending", "succeeded">> -> "confirmed"
                  [] known \in {"pending", "succeeded"} /\ says = "failed" -> "rejected"
                  [] <<known, says>> \in {<<"succeeded", "pending">>, <<"failed", "pending">>, <<"failed", "succeeded">>} -> "restate"
                  [] OTHER -> "finished"
  OBVIOUS
<1>7. Goto(w, at)
  BY <1>2, <1>3, <1>5, <1>6 DEF FindRefund
<1>8. /\ at \in {"new", "confirmed", "rejected", "restate", "finished"}
      /\ at \in {"confirmed", "rejected", "restate"} => known # "none"
      /\ at = "confirmed" => says = "succeeded"
  <2>1. CASE known = "none"
    BY <1>6, <2>1
  <2>2. CASE known # "none"
    BY <1>6, <2>2
  <2>3. QED
    BY <2>1, <2>2
<1>9. known # "none" => r \in Recorded
  BY <1>1, <1>4, <1>5, RowFacts
<1>10. at \in Stages
  BY <1>8 DEF Stages
<1>11. PICK j \in Job : jobs' = [jobs EXCEPT ![w] = j] /\ j # Idle /\ j.at = at /\ j.ev = jobs[w].ev
  BY <1>1, <1>4, <1>7, <1>10, GotoFacts
<1>12. sent' = sent /\ Recorded' = Recorded
  BY DEF FindRefund, gateway, books, Recorded
<1>13. /\ j.ev \in sent
       /\ j.at \in {"confirmed", "rejected", "confirming", "rejecting", "restate"} => j.ev.r \in Recorded'
       /\ j.at \in {"confirmed", "confirming"} => j.ev.st = "succeeded"
  BY <1>2, <1>3, <1>4, <1>8, <1>9, <1>11, <1>12
<1>14. jobs' \in [Workers -> Job] /\ JobsKnow'
  BY <1>1, <1>11, <1>12, <1>13, JobMoves
<1>15. processed' \subseteq sent /\ crashes' \in Nat
  BY <1>1 DEF TypeOK, FindRefund
<1>16. UNCHANGED <<books, lock, desk, gateway>>
  BY DEF FindRefund
<1>17. QED
  BY <1>14, <1>15, <1>16, DeliveryStep

LEMMA ReadRefundStep == ASSUME KnownInv, NEW w \in Workers, ReadRefund(w) PROVE KnownInv'
<1>1. TypeOK /\ JobsKnow
  BY DEF KnownInv
<1>2. jobs[w].at \in {"confirmed", "rejected"} /\ jobs[w] # Idle /\ jobs[w].at # "idle"
  BY DEF ReadRefund, Idle
<1>3. PICK at \in {"confirming", "rejecting", "finished"} :
        Goto(w, at) /\ (at = "confirming" => jobs[w].at = "confirmed")
  <2>1. CASE jobs[w].at = "confirmed"
    BY <2>1 DEF ReadRefund
  <2>2. CASE jobs[w].at = "rejected"
    BY <2>2 DEF ReadRefund
  <2>3. QED
    BY <1>2, <2>1, <2>2
<1>4. at \in Stages
  BY DEF Stages
<1>5. PICK j \in Job : jobs' = [jobs EXCEPT ![w] = j] /\ j # Idle /\ j.at = at /\ j.ev = jobs[w].ev
  BY <1>1, <1>2, <1>3, <1>4, GotoFacts
<1>6. sent' = sent /\ Recorded' = Recorded
  BY DEF ReadRefund, gateway, books, Recorded
<1>7. /\ j.ev \in sent
      /\ j.at \in {"confirmed", "rejected", "confirming", "rejecting", "restate"} => j.ev.r \in Recorded'
      /\ j.at \in {"confirmed", "confirming"} => j.ev.st = "succeeded"
  BY <1>1, <1>2, <1>3, <1>5, <1>6 DEF JobsKnow
<1>8. jobs' \in [Workers -> Job] /\ JobsKnow'
  BY <1>1, <1>5, <1>6, <1>7, JobMoves
<1>9. processed' \subseteq sent /\ crashes' \in Nat
  BY <1>1 DEF TypeOK, ReadRefund
<1>10. UNCHANGED <<books, lock, desk, gateway>>
  BY DEF ReadRefund
<1>11. QED
  BY <1>8, <1>9, <1>10, DeliveryStep

LEMMA MarkProcessedStep == ASSUME KnownInv, NEW w \in Workers, MarkProcessed(w) PROVE KnownInv'
<1>1. TypeOK /\ JobsKnow
  BY DEF KnownInv
<1>2. jobs[w] # Idle
  BY DEF MarkProcessed, Idle
<1>3. PICK j \in Job : j = Idle
  BY DEF Job
<1>4. jobs' = [jobs EXCEPT ![w] = j] /\ sent' = sent /\ Recorded' = Recorded
  BY <1>3 DEF MarkProcessed, gateway, books, Recorded
<1>5. jobs' \in [Workers -> Job] /\ JobsKnow'
  BY <1>1, <1>3, <1>4, JobMoves
<1>6. processed' \subseteq sent /\ crashes' \in Nat
  BY <1>1, <1>2 DEF TypeOK, MarkProcessed, JobsKnow
<1>7. UNCHANGED <<books, lock, desk, gateway>>
  BY DEF MarkProcessed
<1>8. QED
  BY <1>5, <1>6, <1>7, DeliveryStep

LEMMA DeliveryDiesStep == ASSUME KnownInv, NEW w \in Workers, DeliveryDies(w) PROVE KnownInv'
<1>1. TypeOK /\ JobsKnow
  BY DEF KnownInv
<1>2. PICK j \in Job : j = Idle
  BY DEF Job
<1>3. jobs' = [jobs EXCEPT ![w] = j] /\ sent' = sent /\ Recorded' = Recorded
  BY <1>2 DEF DeliveryDies, gateway, books, Recorded
<1>4. jobs' \in [Workers -> Job] /\ JobsKnow'
  BY <1>1, <1>2, <1>3, JobMoves
<1>5. processed' \subseteq sent /\ crashes' \in Nat
  BY <1>1 DEF TypeOK, DeliveryDies
<1>6. UNCHANGED <<books, lock, desk, gateway>>
  BY DEF DeliveryDies
<1>7. QED
  BY <1>4, <1>5, <1>6, DeliveryStep

-----------------------------------------------------------------------------
(* A delivery that settles or records a refund finishes. *)
LEMMA FinishFacts ==
  ASSUME TypeOK, JobsKnow, NEW w \in Workers, jobs[w].at # "idle", Goto(w, "finished"),
         Recorded \subseteq Recorded', sent' = sent
  PROVE  jobs' \in [Workers -> Job] /\ JobsKnow'
<1>1. "finished" \in Stages /\ jobs[w] # Idle
  BY DEF Stages, Idle
<1>2. PICK j \in Job : jobs' = [jobs EXCEPT ![w] = j] /\ j # Idle /\ j.at = "finished" /\ j.ev = jobs[w].ev
  BY <1>1, GotoFacts
<1>3. j.ev \in sent
  BY <1>1, <1>2 DEF JobsKnow
<1>4. QED
  BY <1>2, <1>3, JobMoves

(* The books change while a delivery has the order, or keep their sums. *)
LEMMA BooksStep ==
  ASSUME KnownInv, BooksOK', Bounded', Held', jobs' \in [Workers -> Job], JobsKnow',
         UNCHANGED <<lock, desk, processed, gateway, crashes>>,
         \A r \in Refunds : notes'[r] > 0 => notes[r] > 0 \/ Ev(r, "succeeded") \in sent
  PROVE  KnownInv'
<1>1. TypeOK /\ AnswersTrue /\ UNCHANGED <<gw, sent>>
  BY DEF KnownInv, gateway
<1>2. TypeOK'
  BY <1>1 DEF TypeOK, BooksOK
<1>3. AnswersTrue'
  BY <1>1 DEF AnswersTrue, Ev
<1>4. QED
  BY <1>2, <1>3 DEF KnownInv

LEMMA ApplyDeferredStep == ASSUME KnownInv, NEW w \in Workers, ApplyDeferred(w) PROVE KnownInv'
<1>1. TypeOK /\ JobsKnow /\ Held /\ Bounded
  BY DEF KnownInv
<1>2. PICK r : r = jobs[w].ev.r
  OBVIOUS
<1>3. jobs[w].at = "confirming" /\ jobs[w] # Idle /\ lock = Nobody
  BY DEF ApplyDeferred, Idle
<1>4. r \in Recorded /\ jobs[w].ev \in sent /\ jobs[w].ev.st = "succeeded"
  BY <1>1, <1>2, <1>3 DEF JobsKnow
<1>5. Ev(r, "succeeded") \in sent
  BY <1>1, <1>2, <1>4 DEF TypeOK, Ev, Event
<1>6. r \in Refunds /\ row[r] \in RefundRow
  BY <1>1, <1>4, RowFacts DEF Recorded
<1>7. "succeeded" \in Outcome
  BY DEF Outcome
<1>8. PICK e \in RefundRow : /\ Settled(r, "succeeded") = [row EXCEPT ![r] = e]
                             /\ e.plan = row[r].plan /\ e.st = "succeeded" /\ e.deferred = FALSE
  BY <1>1, <1>4, <1>7, SettledFacts
<1>9. row' = [row EXCEPT ![r] = e]
  BY <1>2, <1>8 DEF ApplyDeferred
<1>10. row' \in [Refunds -> Row] /\ Recorded' = Recorded /\ RefundedUnits' = RefundedUnits
  BY <1>1, <1>4, <1>8, <1>9, RowKeepsPlan
<1>11. PICK p \in Plan, target \in {"partially_refunded", "refunded"}, drive \in BOOLEAN :
         p = row[r].plan /\ target = row[r].target /\ drive = row[r].drive
  BY <1>6 DEF RefundRow
<1>12. Effects(r, p, target, drive)
  BY <1>2, <1>11 DEF ApplyDeferred
<1>13. BooksOK /\ refunded' = refunded
  BY <1>1, TypeParts DEF ApplyDeferred
<1>14. /\ shelf' \in Nat /\ notes' \in [Refunds -> Nat]
       /\ \A q \in Refunds : q # r => notes'[q] = notes[q]
       /\ status' \in {"paid", "partially_refunded", "refunded", "closed"}
  BY <1>6, <1>12, <1>13, EffectsFacts
<1>15. BooksOK'
  BY <1>10, <1>13, <1>14 DEF BooksOK
<1>16. Bounded'
  BY <1>1, <1>10, <1>13 DEF Bounded
<1>17. UNCHANGED <<lock, desk, processed, gateway, crashes>> /\ Goto(w, "finished")
  BY DEF ApplyDeferred
<1>18. Held'
  BY <1>1, <1>3, <1>17, HeldFree
<1>19. jobs' \in [Workers -> Job] /\ JobsKnow'
  BY <1>1, <1>3, <1>10, <1>17, FinishFacts DEF gateway
<1>20. \A q \in Refunds : notes'[q] > 0 => notes[q] > 0 \/ Ev(q, "succeeded") \in sent
  BY <1>5, <1>14
<1>21. QED
  BY <1>15, <1>16, <1>17, <1>18, <1>19, <1>20, BooksStep

LEMMA BackOutStep == ASSUME KnownInv, NEW w \in Workers, BackOut(w) PROVE KnownInv'
<1>1. TypeOK /\ JobsKnow /\ Held /\ Bounded
  BY DEF KnownInv
<1>2. PICK r : r = jobs[w].ev.r
  OBVIOUS
<1>3. jobs[w].at = "rejecting" /\ jobs[w] # Idle /\ lock = Nobody
  BY DEF BackOut, Idle
<1>4. r \in Recorded
  BY <1>1, <1>2, <1>3 DEF JobsKnow
<1>5. PICK p \in Plan : p = row[r].plan
  BY <1>1, <1>4, RecordedPlan
<1>6. "failed" \in Outcome
  BY DEF Outcome
<1>7. PICK e \in RefundRow : /\ Settled(r, "failed") = [row EXCEPT ![r] = e]
                             /\ e.plan = row[r].plan /\ e.st = "failed" /\ e.deferred = FALSE
  BY <1>1, <1>4, <1>6, SettledFacts
<1>8. row' = [row EXCEPT ![r] = e]
  BY <1>2, <1>7 DEF BackOut
<1>9. row' \in [Refunds -> Row] /\ Recorded' = Recorded /\ RefundedUnits' = RefundedUnits
  BY <1>1, <1>4, <1>7, <1>8, RowKeepsPlan
<1>10. refunded' = (IF refunded < p.amount THEN 0 ELSE refunded - p.amount)
  BY <1>2, <1>5 DEF BackOut
<1>11. refunded' \in Nat /\ refunded' <= refunded /\ refunded \in Nat
  <2>1. refunded \in Nat /\ p.amount \in Nat
    BY <1>1, PlanFacts DEF TypeOK
  <2>2. QED
    BY <1>10, <2>1
<1>12. UNCHANGED <<status, notes, shelf, lock, desk, processed, gateway, crashes>> /\ Goto(w, "finished")
  BY DEF BackOut
<1>13. BooksOK'
  <2>1. status' = status /\ notes' = notes /\ shelf' = shelf
    BY <1>12
  <2>2. BooksOK
    BY <1>1, TypeParts
  <2>3. QED
    BY <1>9, <1>11, <2>1, <2>2 DEF BooksOK
<1>14. Bounded'
  BY <1>1, <1>9, <1>11, TotalNat DEF Bounded
<1>15. Held'
  BY <1>1, <1>3, <1>12, HeldFree
<1>16. jobs' \in [Workers -> Job] /\ JobsKnow'
  BY <1>1, <1>3, <1>9, <1>12, FinishFacts DEF gateway
<1>17. QED
  BY <1>12, <1>13, <1>14, <1>15, <1>16, BooksStep

LEMMA RestateStep == ASSUME KnownInv, NEW w \in Workers, Restate(w) PROVE KnownInv'
<1>1. TypeOK /\ JobsKnow /\ Held /\ Bounded
  BY DEF KnownInv
<1>2. PICK r : r = jobs[w].ev.r
  OBVIOUS
<1>3. jobs[w].at = "restate" /\ jobs[w] # Idle
  BY DEF Restate, Idle
<1>4. r \in Recorded /\ jobs[w].ev \in Event
  BY <1>1, <1>2, <1>3 DEF JobsKnow, TypeOK
<1>5. PICK s \in Outcome : s = jobs[w].ev.st
  BY <1>4 DEF Event
<1>6. PICK e \in RefundRow : /\ [row EXCEPT ![r].st = s] = [row EXCEPT ![r] = e]
                             /\ e.plan = row[r].plan /\ e.st = s /\ e.deferred = row[r].deferred
  BY <1>1, <1>4, RestatedFacts
<1>7. row' = [row EXCEPT ![r] = e]
  BY <1>2, <1>5, <1>6 DEF Restate
<1>8. row' \in [Refunds -> Row] /\ Recorded' = Recorded /\ RefundedUnits' = RefundedUnits
  BY <1>1, <1>4, <1>6, <1>7, RowKeepsPlan
<1>9. UNCHANGED <<status, refunded, notes, shelf, lock, desk, processed, gateway, crashes>> /\ Goto(w, "finished")
  BY DEF Restate
<1>10. BooksOK'
  <2>1. status' = status /\ refunded' = refunded /\ notes' = notes /\ shelf' = shelf
    BY <1>9
  <2>2. BooksOK
    BY <1>1, TypeParts
  <2>3. QED
    BY <1>8, <2>1, <2>2 DEF BooksOK
<1>11. Bounded'
  BY <1>1, <1>8, <1>9 DEF Bounded
<1>12. Held'
  BY <1>1, <1>8, <1>9, HeldKept
<1>13. jobs' \in [Workers -> Job] /\ JobsKnow'
  BY <1>1, <1>3, <1>8, <1>9, FinishFacts DEF gateway
<1>14. QED
  BY <1>9, <1>10, <1>11, <1>12, <1>13, BooksStep

(* What a delivery records of a refund made at the gateway. *)
LEMMA ExternalFacts ==
  ASSUME TypeOK, JobsKnow, NEW w \in Workers, jobs[w].at = "new", NEW r, r = jobs[w].ev.r,
         jobs[w].ev.st # "failed", Fits([amount |-> gw[r].amount, units |-> 0, back |-> 0])
  PROVE  /\ r \in Refunds
         /\ jobs[w].ev.st \in {"pending", "succeeded"} /\ Ev(r, jobs[w].ev.st) \in sent
         /\ [amount |-> gw[r].amount, units |-> 0, back |-> 0] \in Plan
<1>1. jobs[w] # Idle
  BY DEF Idle
<1>2. jobs[w].ev \in sent /\ jobs[w].ev \in Event
  BY <1>1 DEF JobsKnow, TypeOK
<1>3. r \in Refunds /\ jobs[w].ev.st \in Outcome /\ Ev(r, jobs[w].ev.st) = jobs[w].ev
  BY <1>2 DEF Event, Ev
<1>4. jobs[w].ev.st \in {"pending", "succeeded"}
  BY <1>3 DEF Outcome
<1>5. PICK p : p = [amount |-> gw[r].amount, units |-> 0, back |-> 0]
  OBVIOUS
<1>6. p.amount \in 1..(Total - refunded) /\ refunded \in Nat
  BY <1>5 DEF Fits, TypeOK
<1>7. gw[r].amount \in 1..Total
  BY <1>5, <1>6, TotalNat
<1>8. p \in Plan
  BY <1>5, <1>7, TotalNat DEF Plan
<1>9. QED
  BY <1>2, <1>3, <1>4, <1>5, <1>8

LEMMA CreateExternalStep == ASSUME KnownInv, NEW w \in Workers, CreateExternal(w) PROVE KnownInv'
<1>1. TypeOK /\ JobsKnow /\ Held /\ Bounded
  BY DEF KnownInv
<1>2. PICK r : r = jobs[w].ev.r
  OBVIOUS
<1>3. jobs[w].at = "new" /\ jobs[w] # Idle /\ lock = Nobody
  BY DEF CreateExternal, Idle
<1>4. UNCHANGED <<lock, desk, processed, gateway, crashes>>
  BY DEF CreateExternal
<1>5. Held'
  BY <1>1, <1>3, <1>4, HeldFree
<1>6. PICK q : q = [amount |-> gw[r].amount, units |-> 0, back |-> 0]
  OBVIOUS
<1>7. CASE /\ jobs[w].ev.st # "failed" /\ r \notin Recorded /\ Fits(q)
           /\ RecordRefund(r, q, jobs[w].ev.st)
           /\ Goto(w, "finished")
  <2>1. /\ r \in Refunds /\ q \in Plan
        /\ jobs[w].ev.st \in {"pending", "succeeded"} /\ Ev(r, jobs[w].ev.st) \in sent
    BY <1>1, <1>2, <1>3, <1>6, <1>7, ExternalFacts
  <2>2. PICK p \in Plan, s \in {"pending", "succeeded"} : p = q /\ s = jobs[w].ev.st
    BY <2>1
  <2>3. r \notin Recorded /\ Fits(p) /\ RecordRefund(r, p, s) /\ Ev(r, s) \in sent
    BY <1>7, <2>1, <2>2
  <2>4. /\ BooksOK' /\ Bounded' /\ Recorded' = Recorded \cup {r}
        /\ \A x \in Refunds : x # r => notes'[x] = notes[x]
        /\ s = "pending" => notes' = notes
    BY <1>1, <2>1, <2>3, RecordedFacts
  <2>5. jobs' \in [Workers -> Job] /\ JobsKnow'
    BY <1>1, <1>3, <1>4, <1>7, <2>4, FinishFacts DEF gateway
  <2>6. \A x \in Refunds : notes'[x] > 0 => notes[x] > 0 \/ Ev(x, "succeeded") \in sent
    BY <2>3, <2>4
  <2>7. QED
    BY <1>4, <1>5, <2>4, <2>5, <2>6, BooksStep
<1>8. CASE jobs' = [jobs EXCEPT ![w] = Swallowed(w)] /\ UNCHANGED books
  <2>1. Goto(w, "finished")
    BY <1>8 DEF Goto, Swallowed
  <2>2. sent' = sent /\ Recorded' = Recorded
    BY <1>4, <1>8 DEF gateway, books, Recorded
  <2>3. jobs' \in [Workers -> Job] /\ JobsKnow'
    BY <1>1, <1>3, <2>1, <2>2, FinishFacts
  <2>4. processed' \subseteq sent /\ crashes' \in Nat
    BY <1>1, <1>4 DEF TypeOK
  <2>5. QED
    BY <1>4, <1>8, <2>3, <2>4, DeliveryStep
<1>9. QED
  BY <1>2, <1>6, <1>7, <1>8 DEF CreateExternal

-----------------------------------------------------------------------------
LEMMA KnownInit == Init => KnownInv
<1> SUFFICES ASSUME Init PROVE KnownInv
  OBVIOUS
<1>1. \A r \in Refunds : row[r] = NoRow /\ notes[r] = 0 /\ desk[r] = Idle /\ gw[r].st = "none"
  BY DEF Init
<1>2. TypeOK
  <2>1. [st |-> "none", amount |-> 0, reply |-> "failed"] \in [st: Outcome \cup {"none"}, amount: Nat, reply: Outcome]
    BY DEF Outcome
  <2>2. NoRow \in Row /\ Idle \in Desk /\ Idle \in Job
    BY DEF Row, Desk, Job
  <2>3. QED
    BY <2>1, <2>2 DEF Init, TypeOK
<1>3. JobsKnow
  BY DEF Init, JobsKnow
<1>4. AnswersTrue
  BY <1>1 DEF AnswersTrue, Idle
<1>5. Held
  BY <1>1 DEF Held, Idle
<1>6. Bounded
  <2>1. Recorded = {}
    BY <1>1 DEF Recorded
  <2>2. Units = [r \in Refunds |-> 0]
    BY <2>1 DEF Units
  <2>3. RefundedUnits = 0
    BY <2>2, SumOfNothing DEF RefundedUnits, Units
  <2>4. QED
    BY <2>3, TotalNat DEF Bounded, Init
<1>7. QED
  BY <1>2, <1>3, <1>4, <1>5, <1>6 DEF KnownInv

LEMMA KnownStutter == ASSUME KnownInv, UNCHANGED vars PROVE KnownInv'
<1>1. UNCHANGED <<books, lock, desk, gateway, processed, jobs, crashes>>
  BY DEF vars
<1>2. UNCHANGED <<row, sent>>
  BY <1>1 DEF books, gateway
<1>3. jobs' \in [Workers -> Job] /\ processed' \subseteq sent /\ crashes' \in Nat
  BY <1>1 DEF KnownInv, TypeOK
<1>4. JobsKnow'
  BY <1>1, <1>2 DEF KnownInv, JobsKnow, Recorded
<1>5. QED
  BY <1>1, <1>3, <1>4, DeliveryStep

LEMMA KnownStep == KnownInv /\ [Next]_vars => KnownInv'
<1> SUFFICES ASSUME KnownInv, [Next]_vars PROVE KnownInv'
  OBVIOUS
<1>1. ASSUME NEW r \in Refunds, NEW ask \in Asks, LockForRefund(r, ask) PROVE KnownInv'
  BY <1>1, LockForRefundStep
<1>2. ASSUME NEW r \in Refunds, Request(r) PROVE KnownInv'
  BY <1>2, CallGatewayStep, CommitStep DEF Request
<1>3. ASSUME NEW r \in Refunds, RequestDies(r) \/ Dashboard(r) \/ Decide(r) PROVE KnownInv'
  BY <1>3, RequestDiesStep, DashboardStep, DecideStep
<1>4. CASE CloseOrder
  BY <1>4, CloseOrderStep
<1>5. ASSUME NEW w \in Workers, Handle(w) PROVE KnownInv'
  BY <1>5, FindRefundStep, ReadRefundStep, ApplyDeferredStep, BackOutStep, RestateStep,
     CreateExternalStep, MarkProcessedStep DEF Handle
<1>6. ASSUME NEW w \in Workers, DeliveryDies(w) PROVE KnownInv'
  BY <1>6, DeliveryDiesStep
<1>7. ASSUME NEW w \in Workers, NEW e \in Event, Claim(w, e) PROVE KnownInv'
  BY <1>7, ClaimStep
<1>8. CASE UNCHANGED vars
  BY <1>8, KnownStutter
<1>9. QED
  BY <1>1, <1>2, <1>3, <1>4, <1>5, <1>6, <1>7, <1>8 DEF Next

(* Whatever the deliveries, deaths and dashboard refunds do, a handler's    *)
(* refund is recorded, an answer is the gateway's, a computed refund fits,  *)
(* and no more money or units are refunded than the order has.              *)
THEOREM KnownAlways == Spec => []KnownInv
<1>1. Init => KnownInv
  BY KnownInit
<1>2. KnownInv /\ [Next]_vars => KnownInv'
  BY KnownStep
<1>3. QED
  BY <1>1, <1>2, PTL DEF Spec

(* Every variable of the refunds keeps its type. *)
THEOREM RefundsTyped == Spec => []TypeOK
<1>1. KnownInv => TypeOK
  BY DEF KnownInv
<1>2. QED
  BY <1>1, KnownAlways, PTL

(* A credit note is issued only for money the gateway has reported as       *)
(* refunded, even when two deliveries about the refund run at once.         *)
THEOREM NotesAlwaysConfirmed == Spec => []CreditNoteIsConfirmed
<1>1. KnownInv => CreditNoteIsConfirmed
  BY DEF KnownInv, AnswersTrue, CreditNoteIsConfirmed
<1>2. QED
  BY <1>1, KnownAlways, PTL

-----------------------------------------------------------------------------
(* What holds when no two deliveries about one refund run at once. *)

Alone ==
  \A w, v \in Workers : w # v /\ jobs[w] # Idle /\ jobs[v] # Idle => jobs[w].ev.r # jobs[v].ev.r

(* A refund has one note at most, and none before it is recorded or while   *)
(* it is deferred.                                                          *)
RowsSound ==
  \A r \in Refunds :
    /\ notes[r] <= 1
    /\ r \notin Recorded => notes[r] = 0
    /\ r \in Recorded /\ row[r].deferred => row[r].st = "pending" /\ notes[r] = 0

(* What a handler read of its refund is still so. *)
JobRows ==
  \A w \in Workers :
    /\ jobs[w].at \in {"confirming", "rejecting"} => row[jobs[w].ev.r].deferred
    /\ jobs[w].at = "restate" => ~row[jobs[w].ev.r].deferred

Noted     == {r \in Recorded : notes[r] > 0}
Money     == [r \in Refunds |-> IF r \in Standing THEN row[r].plan.amount ELSE 0]
BackOf(S) == [r \in Refunds |-> IF r \in S THEN row[r].plan.back ELSE 0]

(* The books are the sums of the rows, and as long as nothing is rejected   *)
(* the units to put back are refunded one by one, or the money is used up.  *)
Ledger ==
  /\ refunded = Sum(Money)
  /\ shelf = Sum(BackOf(Noted))
  /\ Recorded = Standing =>
       \/ Sum(BackOf(Recorded)) <= RefundedUnits
       \/ refunded = Total /\ Sum(BackOf(Recorded)) <= Qty

OnceInv == Alone /\ RowsSound /\ JobRows /\ Ledger

-----------------------------------------------------------------------------
LEMMA MoneyType == ASSUME TypeOK PROVE Money \in [Refunds -> 0..Total]
<1>1. ASSUME NEW r \in Standing PROVE row[r].plan.amount \in 0..Total
  <2>1. r \in Recorded
    BY DEF Standing
  <2>2. row[r].plan \in Plan
    BY <2>1, RecordedPlan
  <2>3. QED
    BY <2>2, PlanFacts, TotalNat
<1>2. QED
  BY <1>1, TotalNat DEF Money

LEMMA BackType == ASSUME TypeOK, NEW S \in SUBSET Recorded PROVE BackOf(S) \in [Refunds -> 0..Total]
<1>1. ASSUME NEW r \in S PROVE row[r].plan.back \in 0..Total
  <2>1. row[r].plan \in Plan
    BY RecordedPlan
  <2>2. QED
    BY <2>1, PlanFacts, TotalNat
<1>2. QED
  BY <1>1, TotalNat DEF BackOf

(* One refund's share appears or disappears. *)
LEMMA SumAppears ==
  ASSUME NEW f \in [Refunds -> 0..Total], NEW g \in [Refunds -> 0..Total], NEW x \in Refunds, f[x] = 0,
         \A r \in Refunds : r # x => g[r] = f[r]
  PROVE  Sum(g) = Sum(f) + g[x] /\ Sum(f) = Sum(g) - g[x]
<1>1. Sum(g) = Sum(f) - f[x] + g[x]
  BY SumChanges
<1>2. Sum(f) \in Nat /\ Sum(g) \in Nat /\ g[x] \in Int
  BY SumNat, TotalNat
<1>3. QED
  BY <1>1, <1>2

(* What RecordRefund does to the sums. *)
LEMMA RecordedSums ==
  ASSUME TypeOK, Bounded, RowsSound, NEW r \in Refunds, r \notin Recorded, NEW p \in Plan, Fits(p),
         NEW s \in {"pending", "succeeded"}, RecordRefund(r, p, s)
  PROVE  /\ RowsSound'
         /\ Standing' = Standing \cup {r}
         /\ Sum(Money)' = Sum(Money) + p.amount
         /\ Sum(BackOf(Recorded))' = Sum(BackOf(Recorded)) + p.back
         /\ Sum(BackOf(Noted))' = Sum(BackOf(Noted)) + (IF s = "pending" THEN 0 ELSE p.back)
<1>1. /\ Recorded' = Recorded \cup {r}
      /\ row'[r].plan = p /\ row'[r].st = s /\ row'[r].deferred = (s = "pending")
      /\ \A q \in Refunds : q # r => row'[q] = row[q] /\ notes'[q] = notes[q]
      /\ IF s = "pending" THEN notes' = notes /\ shelf' = shelf
                          ELSE notes'[r] = notes[r] + 1 /\ shelf' = shelf + p.back
  BY RecordedFacts
<1>2. notes[r] = 0
  BY DEF RowsSound
<1>3. IF s = "pending" THEN row'[r].deferred = TRUE /\ notes'[r] = 0 ELSE row'[r].deferred = FALSE /\ notes'[r] = 1
  <2>1. CASE s = "pending"
    BY <1>1, <1>2, <2>1
  <2>2. CASE s = "succeeded"
    <3>1. s # "pending"
      BY <2>2
    <3>2. notes'[r] = 0 + 1
      BY <1>1, <1>2, <3>1
    <3>3. (s = "pending") = FALSE
      BY <3>1
    <3>4. row'[r].deferred = FALSE
      BY <1>1, <3>3
    <3>5. QED
      BY <3>1, <3>2, <3>4
  <2>3. QED
    BY <2>1, <2>2
<1>4. RowsSound'
  <2>1. SUFFICES ASSUME NEW q \in Refunds
                 PROVE  (/\ notes[q] <= 1
                         /\ q \notin Recorded => notes[q] = 0
                         /\ q \in Recorded /\ row[q].deferred => row[q].st = "pending" /\ notes[q] = 0)'
    BY DEF RowsSound
  <2>2. CASE q = r
    BY <1>1, <1>3, <2>2
  <2>3. CASE q # r
    BY <1>1, <2>3 DEF RowsSound
  <2>4. QED
    BY <2>2, <2>3
<1>5. Standing' = Standing \cup {r}
  <2>1. r \in Standing'
    <3>1. r \in Recorded' /\ (row'[r].deferred \/ notes'[r] > 0)
      BY <1>1, <1>3
    <3>2. QED
      BY <3>1 DEF Standing
  <2>2. \A q \in Recorded : q # r /\ (q \in Standing' <=> q \in Standing)
    BY <1>1 DEF Standing, Recorded
  <2>3. QED
    BY <1>1, <2>1, <2>2 DEF Standing
<1>6. Noted' = IF s = "pending" THEN Noted ELSE Noted \cup {r}
  <2>1. r \in Noted' <=> s # "pending"
    BY <1>1, <1>3 DEF Noted
  <2>2. \A q \in Recorded : q # r /\ (q \in Noted' <=> q \in Noted)
    BY <1>1 DEF Noted, Recorded
  <2>3. QED
    BY <1>1, <2>1, <2>2 DEF Noted
<1>7. p.amount \in Nat /\ p.back \in Nat
  BY PlanFacts
<1>8. Sum(Money)' = Sum(Money) + p.amount
  <2>1. PICK f : f = Money
    OBVIOUS
  <2>2. PICK g : g = Money'
    OBVIOUS
  <2>3. f[r] = 0 /\ g[r] = p.amount
    BY <1>1, <1>5, <2>1, <2>2 DEF Money, Standing
  <2>4. \A q \in Refunds : q # r => g[q] = f[q]
    BY <1>1, <1>5, <2>1, <2>2 DEF Money
  <2>5. f \in [Refunds -> 0..Total] /\ g \in [Refunds -> 0..Total]
    <3>1. f \in [Refunds -> 0..Total]
      BY <2>1, MoneyType
    <3>2. g = [q \in Refunds |-> g[q]]
      BY <2>2 DEF Money
    <3>3. p.amount \in 0..Total
      BY PlanFacts, TotalNat
    <3>4. \A q \in Refunds : g[q] \in 0..Total
      BY <2>3, <2>4, <3>1, <3>3
    <3>5. QED
      BY <3>1, <3>2, <3>4
  <2>6. Sum(g) = Sum(f) + g[r]
    BY <2>3, <2>4, <2>5, SumAppears
  <2>7. QED
    BY <2>1, <2>2, <2>3, <2>6
<1>9. Sum(BackOf(Recorded))' = Sum(BackOf(Recorded)) + p.back
  <2>1. PICK f : f = BackOf(Recorded)
    OBVIOUS
  <2>2. PICK g : g = BackOf(Recorded)'
    OBVIOUS
  <2>3. f[r] = 0 /\ g[r] = p.back
    BY <1>1, <2>1, <2>2 DEF BackOf
  <2>4. \A q \in Refunds : q # r => g[q] = f[q]
    BY <1>1, <2>1, <2>2 DEF BackOf
  <2>5. f \in [Refunds -> 0..Total] /\ g \in [Refunds -> 0..Total]
    <3>1. f \in [Refunds -> 0..Total]
      BY <2>1, BackType
    <3>2. g = [q \in Refunds |-> g[q]]
      BY <2>2 DEF BackOf
    <3>3. p.back \in 0..Total
      BY PlanFacts, TotalNat
    <3>4. \A q \in Refunds : g[q] \in 0..Total
      BY <2>3, <2>4, <3>1, <3>3
    <3>5. QED
      BY <3>1, <3>2, <3>4
  <2>6. Sum(g) = Sum(f) + g[r]
    BY <2>3, <2>4, <2>5, SumAppears
  <2>7. QED
    BY <2>1, <2>2, <2>3, <2>6
<1>10. Sum(BackOf(Noted))' = Sum(BackOf(Noted)) + (IF s = "pending" THEN 0 ELSE p.back)
  <2>1. PICK f : f = BackOf(Noted)
    OBVIOUS
  <2>2. PICK g : g = BackOf(Noted)'
    OBVIOUS
  <2>3. Noted \subseteq Recorded /\ (Noted \subseteq Recorded)'
    BY DEF Noted
  <2>4. f[r] = 0 /\ g[r] = (IF s = "pending" THEN 0 ELSE p.back)
    BY <1>1, <1>6, <2>1, <2>2, <2>3 DEF BackOf
  <2>5. \A q \in Refunds : q # r => g[q] = f[q]
    BY <1>1, <1>6, <2>1, <2>2 DEF BackOf
  <2>6. f \in [Refunds -> 0..Total] /\ g \in [Refunds -> 0..Total]
    <3>1. f \in [Refunds -> 0..Total]
      BY <2>1, <2>3, BackType
    <3>2. g = [q \in Refunds |-> g[q]]
      BY <2>2 DEF BackOf
    <3>3. p.back \in 0..Total /\ 0 \in 0..Total
      BY PlanFacts, TotalNat
    <3>4. \A q \in Refunds : g[q] \in 0..Total
      BY <2>4, <2>5, <3>1, <3>3
    <3>5. QED
      BY <3>1, <3>2, <3>4
  <2>7. Sum(g) = Sum(f) + g[r]
    BY <2>4, <2>5, <2>6, SumAppears
  <2>8. QED
    BY <2>1, <2>2, <2>4, <2>7
<1>11. QED
  BY <1>4, <1>5, <1>8, <1>9, <1>10

LEMMA RecordedLedger ==
  ASSUME TypeOK, Bounded, RowsSound, Ledger, NEW r \in Refunds, r \notin Recorded,
         NEW p \in Plan, Fits(p), Computed(p),
         NEW s \in {"pending", "succeeded"}, RecordRefund(r, p, s)
  PROVE  Ledger'
<1>1. /\ refunded' = refunded + p.amount /\ RefundedUnits' = RefundedUnits + p.units
      /\ Recorded' = Recorded \cup {r}
      /\ IF s = "pending" THEN notes' = notes /\ shelf' = shelf
                          ELSE notes'[r] = notes[r] + 1 /\ shelf' = shelf + p.back
  BY RecordedFacts
<1>2. /\ Standing' = Standing \cup {r}
      /\ Sum(Money)' = Sum(Money) + p.amount
      /\ Sum(BackOf(Recorded))' = Sum(BackOf(Recorded)) + p.back
      /\ Sum(BackOf(Noted))' = Sum(BackOf(Noted)) + (IF s = "pending" THEN 0 ELSE p.back)
  BY RecordedSums
<1>3. PICK old : old = Sum(BackOf(Recorded))
  OBVIOUS
<1>4. old \in Nat /\ refunded \in Nat /\ RefundedUnits \in Nat /\ p.amount \in Nat /\ p.amount >= 1 /\ p.units \in Nat /\ p.back \in Nat
  BY <1>3, SumNat, RefundedUnitsNat, PlanFacts, TotalNat DEF TypeOK
<1>5. shelf \in Nat
  BY DEF TypeOK
<1>6. (shelf = Sum(BackOf(Noted)))'
  BY <1>1, <1>2, <1>5 DEF Ledger
<1>7. ASSUME (Recorded = Standing)'
      PROVE  \/ old + p.back <= RefundedUnits + p.units
             \/ refunded + p.amount = Total /\ old + p.back <= Qty
  <2>1. r \notin Standing
    BY DEF Standing
  <2>2. Recorded = Standing
    BY <1>1, <1>2, <1>7, <2>1
  <2>3. old <= RefundedUnits \/ refunded = Total
    BY <1>3, <2>2 DEF Ledger
  <2>4. refunded # Total
    BY <1>4, TotalNat DEF Fits
  <2>5. old <= RefundedUnits
    BY <2>3, <2>4
  <2>6. CASE p.back <= p.units
    BY <1>4, <2>5, <2>6
  <2>7. CASE p.amount = Total - refunded /\ p.back <= Qty - RefundedUnits
    BY <1>4, <2>5, <2>7, TotalNat
  <2>8. QED
    BY <2>6, <2>7 DEF Computed
<1>8. (refunded = Sum(Money))'
  BY <1>1, <1>2 DEF Ledger
<1>9. QED
  BY <1>1, <1>2, <1>3, <1>6, <1>7, <1>8 DEF Ledger

-----------------------------------------------------------------------------
(* A confirmed refund is credited once. *)
LEMMA ApplyLedger ==
  ASSUME TypeOK, RowsSound, Ledger, NEW r \in Recorded, row[r].deferred,
         NEW e \in RefundRow, e.plan = row[r].plan, e.deferred = FALSE, row' = [row EXCEPT ![r] = e],
         notes'[r] = notes[r] + 1, \A q \in Refunds : q # r => notes'[q] = notes[q],
         shelf' = shelf + row[r].plan.back, refunded' = refunded
  PROVE  RowsSound' /\ Ledger'
<1>1. r \in Refunds /\ row \in [Refunds -> Row]
  BY DEF Recorded, TypeOK
<1>2. row'[r] = e /\ \A q \in Refunds : q # r => row'[q] = row[q]
  BY <1>1
<1>3. Recorded' = Recorded /\ RefundedUnits' = RefundedUnits
  BY RowKeepsPlan
<1>4. notes[r] = 0 /\ notes'[r] = 1
  BY <1>1 DEF RowsSound
<1>5. RowsSound'
  <2>1. SUFFICES ASSUME NEW q \in Refunds
                 PROVE  (/\ notes[q] <= 1
                         /\ q \notin Recorded => notes[q] = 0
                         /\ q \in Recorded /\ row[q].deferred => row[q].st = "pending" /\ notes[q] = 0)'
    BY DEF RowsSound
  <2>2. CASE q = r
    BY <1>2, <1>3, <1>4, <2>2
  <2>3. CASE q # r
    BY <1>2, <1>3, <2>3 DEF RowsSound
  <2>4. QED
    BY <2>2, <2>3
<1>6. Standing' = Standing
  <2>1. r \in Standing /\ r \in Standing'
    BY <1>3, <1>4 DEF Standing
  <2>2. \A q \in Recorded : q # r => (q \in Standing' <=> q \in Standing)
    BY <1>2, <1>3 DEF Standing, Recorded
  <2>3. Standing \subseteq Recorded /\ Standing' \subseteq Recorded
    BY <1>3 DEF Standing
  <2>4. QED
    BY <2>1, <2>2, <2>3
<1>7. Noted' = Noted \cup {r} /\ r \notin Noted
  <2>1. r \notin Noted /\ r \in Noted'
    BY <1>3, <1>4 DEF Noted
  <2>2. \A q \in Recorded : q # r => (q \in Noted' <=> q \in Noted)
    BY <1>2, <1>3 DEF Noted, Recorded
  <2>3. Noted \subseteq Recorded /\ Noted' \subseteq Recorded
    BY <1>3 DEF Noted
  <2>4. QED
    BY <2>1, <2>2, <2>3
<1>8. Money' = Money
  BY <1>2, <1>6 DEF Money
<1>9. BackOf(Recorded)' = BackOf(Recorded)
  BY <1>2, <1>3 DEF BackOf
<1>10. Sum(BackOf(Noted))' = Sum(BackOf(Noted)) + row[r].plan.back
  <2>1. PICK f : f = BackOf(Noted)
    OBVIOUS
  <2>2. PICK g : g = BackOf(Noted)'
    OBVIOUS
  <2>3. f[r] = 0 /\ g[r] = row[r].plan.back
    BY <1>1, <1>2, <1>7, <2>1, <2>2 DEF BackOf
  <2>4. \A q \in Refunds : q # r => g[q] = f[q]
    BY <1>2, <1>7, <2>1, <2>2 DEF BackOf
  <2>5. f \in [Refunds -> 0..Total] /\ g \in [Refunds -> 0..Total]
    <3>1. f \in [Refunds -> 0..Total]
      BY <2>1, BackType DEF Noted
    <3>2. g = [q \in Refunds |-> g[q]]
      BY <2>2 DEF BackOf
    <3>3. row[r].plan \in Plan
      BY RecordedPlan
    <3>4. row[r].plan.back \in 0..Total
      BY <3>3, PlanFacts, TotalNat
    <3>5. \A q \in Refunds : g[q] \in 0..Total
      BY <2>3, <2>4, <3>1, <3>4
    <3>6. QED
      BY <3>1, <3>2, <3>5
  <2>6. Sum(g) = Sum(f) + g[r]
    BY <1>1, <2>3, <2>4, <2>5, SumAppears
  <2>7. QED
    BY <2>1, <2>2, <2>3, <2>6
<1>11. Ledger'
  <2>1. (refunded = Sum(Money))' /\ (shelf = Sum(BackOf(Noted)))'
    BY <1>8, <1>10 DEF Ledger
  <2>2. Sum(BackOf(Recorded))' = Sum(BackOf(Recorded))
    BY <1>9
  <2>3. QED
    BY <1>3, <1>6, <2>1, <2>2 DEF Ledger
<1>12. QED
  BY <1>5, <1>11

(* A rejected refund gives back what it had reserved. *)
LEMMA BackOutLedger ==
  ASSUME TypeOK, RowsSound, Ledger, NEW r \in Recorded, row[r].deferred,
         NEW e \in RefundRow, e.plan = row[r].plan, e.deferred = FALSE, row' = [row EXCEPT ![r] = e],
         UNCHANGED <<notes, shelf>>,
         refunded' = IF refunded < row[r].plan.amount THEN 0 ELSE refunded - row[r].plan.amount
  PROVE  RowsSound' /\ Ledger'
<1>1. r \in Refunds /\ row \in [Refunds -> Row]
  BY DEF Recorded, TypeOK
<1>2. row'[r] = e /\ \A q \in Refunds : q # r => row'[q] = row[q]
  BY <1>1
<1>3. Recorded' = Recorded
  BY RowKeepsPlan
<1>4. notes[r] = 0
  BY <1>1 DEF RowsSound
<1>5. RowsSound'
  <2>1. SUFFICES ASSUME NEW q \in Refunds
                 PROVE  (/\ notes[q] <= 1
                         /\ q \notin Recorded => notes[q] = 0
                         /\ q \in Recorded /\ row[q].deferred => row[q].st = "pending" /\ notes[q] = 0)'
    BY DEF RowsSound
  <2>2. CASE q = r
    BY <1>2, <1>3, <1>4, <2>2
  <2>3. CASE q # r
    BY <1>2, <1>3, <2>3 DEF RowsSound
  <2>4. QED
    BY <2>2, <2>3
<1>6. Standing' = Standing \ {r} /\ r \in Standing
  <2>1. r \in Standing
    BY DEF Standing
  <2>2. r \notin Standing'
    BY <1>2, <1>4 DEF Standing
  <2>3. \A q \in Recorded : q # r => (q \in Standing' <=> q \in Standing)
    BY <1>2, <1>3 DEF Standing, Recorded
  <2>4. Standing \subseteq Recorded /\ Standing' \subseteq Recorded
    BY <1>3 DEF Standing
  <2>5. QED
    BY <2>1, <2>2, <2>3, <2>4
<1>7. BackOf(Noted)' = BackOf(Noted)
  <2>1. Noted' = Noted
    BY <1>3 DEF Noted
  <2>2. QED
    BY <1>2, <2>1 DEF BackOf
<1>8. row[r].plan \in Plan
  BY RecordedPlan
<1>9. row[r].plan.amount \in Nat /\ row[r].plan.amount \in 0..Total
  BY <1>8, PlanFacts, TotalNat
<1>10. Sum(Money)' = Sum(Money) - row[r].plan.amount /\ Sum(Money) = Sum(Money)' + row[r].plan.amount
  <2>1. PICK f : f = Money'
    OBVIOUS
  <2>2. PICK g : g = Money
    OBVIOUS
  <2>3. f[r] = 0 /\ g[r] = row[r].plan.amount
    BY <1>1, <1>6, <2>1, <2>2 DEF Money
  <2>4. \A q \in Refunds : q # r => g[q] = f[q]
    BY <1>2, <1>6, <2>1, <2>2 DEF Money
  <2>5. f \in [Refunds -> 0..Total] /\ g \in [Refunds -> 0..Total]
    <3>1. g \in [Refunds -> 0..Total]
      BY <2>2, MoneyType
    <3>2. f = [q \in Refunds |-> f[q]]
      BY <2>1 DEF Money
    <3>3. \A q \in Refunds : f[q] \in 0..Total
      BY <2>3, <2>4, <3>1, TotalNat
    <3>4. QED
      BY <3>1, <3>2, <3>3
  <2>6. Sum(g) = Sum(f) + g[r] /\ Sum(f) = Sum(g) - g[r]
    BY <1>1, <2>3, <2>4, <2>5, SumAppears
  <2>7. QED
    BY <2>1, <2>2, <2>3, <2>6
<1>11. (refunded = Sum(Money))'
  <2>1. PICK n \in Nat : n = Sum(Money)'
    BY SumNat
  <2>2. refunded = n + row[r].plan.amount
    BY <1>10, <2>1 DEF Ledger
  <2>3. refunded' = n
    BY <1>9, <2>1, <2>2
  <2>4. QED
    BY <2>1, <2>3
<1>12. (shelf = Sum(BackOf(Noted)))'
  BY <1>7 DEF Ledger
<1>13. Recorded' # Standing'
  BY <1>3, <1>6
<1>14. Ledger'
  BY <1>11, <1>12, <1>13 DEF Ledger
<1>15. QED
  BY <1>5, <1>14

(* A row whose effects are applied or backed out only changes its status. *)
LEMMA RestateLedger ==
  ASSUME TypeOK, RowsSound, Ledger, NEW r \in Recorded, ~row[r].deferred,
         NEW e \in RefundRow, e.plan = row[r].plan, e.deferred = row[r].deferred, row' = [row EXCEPT ![r] = e],
         UNCHANGED <<refunded, notes, shelf>>
  PROVE  RowsSound' /\ Ledger'
<1>1. r \in Refunds /\ row \in [Refunds -> Row]
  BY DEF Recorded, TypeOK
<1>2. row'[r] = e /\ \A q \in Refunds : q # r => row'[q] = row[q]
  BY <1>1
<1>3. Recorded' = Recorded /\ RefundedUnits' = RefundedUnits
  BY RowKeepsPlan
<1>4. \A q \in Recorded : row'[q].plan = row[q].plan /\ row'[q].deferred = row[q].deferred
  BY <1>2 DEF Recorded
<1>5. RowsSound'
  <2>1. SUFFICES ASSUME NEW q \in Refunds
                 PROVE  (/\ notes[q] <= 1
                         /\ q \notin Recorded => notes[q] = 0
                         /\ q \in Recorded /\ row[q].deferred => row[q].st = "pending" /\ notes[q] = 0)'
    BY DEF RowsSound
  <2>2. CASE q = r
    BY <1>2, <1>3, <1>4, <2>2 DEF RowsSound
  <2>3. CASE q # r
    BY <1>2, <1>3, <2>3 DEF RowsSound
  <2>4. QED
    BY <2>2, <2>3
<1>6. Standing' = Standing /\ Noted' = Noted
  BY <1>3, <1>4 DEF Standing, Noted
<1>7. Money' = Money
  BY <1>4, <1>6 DEF Money, Standing
<1>8. BackOf(Recorded)' = BackOf(Recorded) /\ BackOf(Noted)' = BackOf(Noted)
  BY <1>3, <1>4, <1>6 DEF BackOf, Noted
<1>9. Ledger'
  BY <1>3, <1>6, <1>7, <1>8 DEF Ledger
<1>10. QED
  BY <1>5, <1>9

-----------------------------------------------------------------------------
(* Deliveries. *)

LEMMA AloneMoves ==
  ASSUME TypeOK, Alone, NEW w \in Workers, NEW j, jobs' = [jobs EXCEPT ![w] = j],
         j = Idle \/ (jobs[w] # Idle /\ j.ev = jobs[w].ev)
  PROVE  Alone'
<1>1. jobs \in [Workers -> Job]
  BY DEF TypeOK
<1>2. jobs'[w] = j /\ \A v \in Workers : v # w => jobs'[v] = jobs[v]
  BY <1>1
<1>3. \A v \in Workers : jobs'[v] # Idle => jobs[v] # Idle /\ jobs'[v].ev = jobs[v].ev
  BY <1>2
<1>4. QED
  BY <1>3 DEF Alone

(* A delivery goes on; the books stay. *)
LEMMA OnceGoes ==
  ASSUME KnownInv, OnceInv, NEW w \in Workers, NEW j \in Job, jobs' = [jobs EXCEPT ![w] = j],
         j = Idle \/ (jobs[w] # Idle /\ j.ev = jobs[w].ev), UNCHANGED books,
         j.at \in {"confirming", "rejecting"} => row[j.ev.r].deferred,
         j.at = "restate" => ~row[j.ev.r].deferred
  PROVE  OnceInv'
<1>1. UNCHANGED <<status, refunded, row, notes, shelf>>
  BY DEF books
<1>2. TypeOK /\ jobs \in [Workers -> Job]
  BY DEF KnownInv, TypeOK
<1>3. Alone'
  BY <1>2, AloneMoves DEF OnceInv
<1>4. jobs'[w] = j /\ \A v \in Workers : v # w => jobs'[v] = jobs[v]
  BY <1>2
<1>5. JobRows'
  BY <1>1, <1>4 DEF OnceInv, JobRows
<1>6. RowsSound' /\ Ledger'
  <2>1. Recorded' = Recorded /\ RefundedUnits' = RefundedUnits
    BY <1>1, BooksKept
  <2>2. Standing' = Standing /\ Noted' = Noted
    BY <1>1, <2>1 DEF Standing, Noted
  <2>3. Money' = Money /\ BackOf(Recorded)' = BackOf(Recorded) /\ BackOf(Noted)' = BackOf(Noted)
    BY <1>1, <2>1, <2>2 DEF Money, BackOf
  <2>4. QED
    BY <1>1, <2>1, <2>2, <2>3 DEF OnceInv, RowsSound, Ledger
<1>7. QED
  BY <1>3, <1>5, <1>6 DEF OnceInv

(* A delivery finishes, and has changed at most its own refund's row. *)
LEMMA OnceFinishes ==
  ASSUME KnownInv, OnceInv, NEW w \in Workers, jobs[w] # Idle, jobs[w].at # "idle", Goto(w, "finished"),
         \A q \in Refunds : q # jobs[w].ev.r => row'[q] = row[q],
         RowsSound', Ledger'
  PROVE  OnceInv'
<1>1. TypeOK /\ JobsKnow /\ jobs \in [Workers -> Job] /\ Alone /\ JobRows
  BY DEF KnownInv, TypeOK, OnceInv
<1>2. "finished" \in Stages
  BY DEF Stages
<1>3. PICK j \in Job : jobs' = [jobs EXCEPT ![w] = j] /\ j # Idle /\ j.at = "finished" /\ j.ev = jobs[w].ev
  BY <1>1, <1>2, GotoFacts
<1>4. Alone'
  BY <1>1, <1>3, AloneMoves
<1>5. jobs'[w] = j /\ \A v \in Workers : v # w => jobs'[v] = jobs[v]
  BY <1>1, <1>3
<1>6. ASSUME NEW v \in Workers, jobs'[v].at \in {"confirming", "rejecting", "restate"}
      PROVE  v # w /\ jobs'[v] = jobs[v] /\ row'[jobs[v].ev.r] = row[jobs[v].ev.r]
  <2>1. v # w
    BY <1>3, <1>5, <1>6
  <2>2. jobs'[v] = jobs[v]
    BY <1>5, <2>1
  <2>3. jobs[v] # Idle
    BY <1>6, <2>2 DEF Idle
  <2>4. jobs[v].ev.r # jobs[w].ev.r
    BY <1>1, <2>1, <2>3 DEF Alone
  <2>5. jobs[v].ev \in Event
    BY <1>1, <2>3 DEF JobsKnow, TypeOK
  <2>6. jobs[v].ev.r \in Refunds
    BY <2>5 DEF Event
  <2>7. QED
    BY <2>1, <2>2, <2>4, <2>6
<1>7. JobRows'
  BY <1>1, <1>6 DEF JobRows
<1>8. QED
  BY <1>4, <1>7 DEF OnceInv

-----------------------------------------------------------------------------
(* OnceInv is inductive: one lemma per action. *)

(* Neither the books nor a delivery move. *)
LEMMA OnceKept ==
  ASSUME KnownInv, OnceInv, UNCHANGED <<refunded, row, notes, shelf, jobs>>
  PROVE  OnceInv'
<1>1. Recorded' = Recorded /\ RefundedUnits' = RefundedUnits
  BY BooksKept
<1>2. Standing' = Standing /\ Noted' = Noted
  BY <1>1 DEF Standing, Noted
<1>3. Money' = Money /\ BackOf(Recorded)' = BackOf(Recorded) /\ BackOf(Noted)' = BackOf(Noted)
  BY <1>1, <1>2 DEF Money, BackOf
<1>4. RowsSound' /\ Ledger'
  BY <1>1, <1>2, <1>3 DEF OnceInv, RowsSound, Ledger
<1>5. Alone' /\ JobRows'
  BY DEF OnceInv, Alone, JobRows
<1>6. QED
  BY <1>4, <1>5 DEF OnceInv

LEMMA CommitOnce ==
  ASSUME KnownInv, OnceInv, NEW r \in Refunds, Commit(r)
  PROVE  OnceInv'
<1>1. TypeOK /\ JobsKnow /\ AnswersTrue /\ Held /\ Bounded /\ Alone /\ RowsSound /\ JobRows /\ Ledger
  BY DEF KnownInv, OnceInv
<1>2. desk \in [Refunds -> Desk] /\ jobs' = jobs
  BY <1>1 DEF TypeOK, Commit
<1>3. desk[r] \in [at: {"locked", "called", "answered", "refused", "again"}, ask: Asks, plan: Plan, reply: Outcome]
      /\ desk[r].at = "called"
  BY <1>2 DEF Commit, Desk, Idle
<1>4. Fits(desk[r].plan) /\ Computed(desk[r].plan) /\ desk[r].reply # "failed"
  BY <1>1, <1>3 DEF Held, AnswersTrue
<1>5. PICK p \in Plan : p = desk[r].plan
  BY <1>3
<1>6. PICK s \in {"pending", "succeeded"} : s = desk[r].reply
  BY <1>3, <1>4 DEF Outcome
<1>7. Fits(p) /\ Computed(p)
  BY <1>4, <1>5
<1>8. CASE r \in Recorded
  <2>1. UNCHANGED <<refunded, row, notes, shelf, jobs>>
    BY <1>8 DEF Commit, books
  <2>2. QED
    BY <2>1, OnceKept
<1>9. CASE r \notin Recorded
  <2>1. RecordRefund(r, p, s)
    BY <1>5, <1>6, <1>9 DEF Commit
  <2>2. RowsSound'
    BY <1>1, <1>7, <1>9, <2>1, RecordedSums
  <2>3. Ledger'
    BY <1>1, <1>7, <1>9, <2>1, RecordedLedger
  <2>4. \A q \in Refunds : q # r => row'[q] = row[q]
    BY <1>1, <1>7, <1>9, <2>1, RecordedFacts
  <2>5. JobRows'
    <3>1. ASSUME NEW v \in Workers, jobs[v].at \in {"confirming", "rejecting", "restate"}
          PROVE  row'[jobs[v].ev.r] = row[jobs[v].ev.r]
      <4>1. jobs[v] # Idle
        BY <3>1 DEF Idle
      <4>2. jobs[v].ev.r \in Recorded
        BY <1>1, <3>1, <4>1 DEF JobsKnow
      <4>3. QED
        BY <1>9, <2>4, <4>2 DEF Recorded
    <3>2. QED
      BY <1>1, <1>2, <3>1 DEF JobRows
  <2>6. Alone'
    BY <1>1, <1>2 DEF Alone
  <2>7. QED
    BY <2>2, <2>3, <2>5, <2>6 DEF OnceInv
<1>10. QED
  BY <1>8, <1>9

LEMMA ClaimOnce ==
  ASSUME KnownInv, OnceInv, Overlap = FALSE, NEW w \in Workers, NEW e \in Event, Claim(w, e)
  PROVE  OnceInv'
<1>1. jobs \in [Workers -> Job] /\ Alone /\ JobRows
  BY DEF KnownInv, TypeOK, OnceInv
<1>2. ~Busy(e.r)
  BY DEF Claim
<1>3. PICK j : j = [at |-> "claimed", ev |-> e]
  OBVIOUS
<1>4. jobs' = [jobs EXCEPT ![w] = j] /\ j.at = "claimed" /\ j.ev = e
  BY <1>3 DEF Claim
<1>5. jobs'[w] = j /\ \A v \in Workers : v # w => jobs'[v] = jobs[v]
  BY <1>1, <1>4
<1>6. UNCHANGED <<refunded, row, notes, shelf>>
  BY DEF Claim, books
<1>7. \A v \in Workers : jobs[v] # Idle => jobs[v].ev.r # e.r
  BY <1>2 DEF Busy
<1>8. Alone'
  BY <1>1, <1>4, <1>5, <1>7 DEF Alone
<1>9. JobRows'
  BY <1>1, <1>4, <1>5, <1>6 DEF JobRows
<1>10. Recorded' = Recorded /\ RefundedUnits' = RefundedUnits
  BY <1>6, BooksKept
<1>11. Standing' = Standing /\ Noted' = Noted
  BY <1>6, <1>10 DEF Standing, Noted
<1>12. Money' = Money /\ BackOf(Recorded)' = BackOf(Recorded) /\ BackOf(Noted)' = BackOf(Noted)
  BY <1>6, <1>10, <1>11 DEF Money, BackOf
<1>13. RowsSound' /\ Ledger'
  BY <1>6, <1>10, <1>11, <1>12 DEF OnceInv, RowsSound, Ledger
<1>14. QED
  BY <1>8, <1>9, <1>13 DEF OnceInv

LEMMA FindRefundOnce ==
  ASSUME KnownInv, OnceInv, NEW w \in Workers, FindRefund(w)
  PROVE  OnceInv'
<1>1. TypeOK /\ JobsKnow /\ RowsSound
  BY DEF KnownInv, OnceInv
<1>2. PICK r : r = jobs[w].ev.r
  OBVIOUS
<1>3. PICK says : says = jobs[w].ev.st
  OBVIOUS
<1>4. jobs[w] # Idle /\ r \in Refunds /\ jobs[w].at # "idle"
  <2>1. jobs[w] # Idle /\ jobs[w].at # "idle"
    <3>1. jobs[w].at = "claimed"
      BY DEF FindRefund
    <3>2. QED
      BY <3>1 DEF Idle
  <2>2. jobs[w].ev \in sent /\ sent \subseteq Event
    BY <1>1, <2>1 DEF JobsKnow, TypeOK
  <2>3. QED
    BY <1>2, <2>1, <2>2 DEF Event
<1>5. PICK known : known = row[r].st
  OBVIOUS
<1>6. PICK at : at = CASE known = "none" -> "new"
                  [] <<known, says>> = <<"pending", "succeeded">> -> "confirmed"
                  [] known \in {"pending", "succeeded"} /\ says = "failed" -> "rejected"
                  [] <<known, says>> \in {<<"succeeded", "pending">>, <<"failed", "pending">>, <<"failed", "succeeded">>} -> "restate"
                  [] OTHER -> "finished"
  OBVIOUS
<1>7. Goto(w, at)
  BY <1>2, <1>3, <1>5, <1>6 DEF FindRefund
<1>8. /\ at \in {"new", "confirmed", "rejected", "restate", "finished"}
      /\ at = "restate" => known \in {"succeeded", "failed"}
  <2>1. CASE known = "none"
    BY <1>6, <2>1
  <2>2. CASE known # "none"
    BY <1>6, <2>2
  <2>3. QED
    BY <2>1, <2>2
<1>9. at = "restate" => ~row[r].deferred
  <2>1. SUFFICES ASSUME at = "restate", row[r].deferred PROVE FALSE
    OBVIOUS
  <2>2. row[r].st \in {"succeeded", "failed"}
    BY <1>5, <1>8, <2>1
  <2>3. r \in Recorded
    BY <1>1, <1>4, <2>2, RowFacts
  <2>4. QED
    BY <1>1, <1>4, <2>1, <2>2, <2>3 DEF RowsSound
<1>10. at \in Stages
  BY <1>8 DEF Stages
<1>11. PICK j \in Job : jobs' = [jobs EXCEPT ![w] = j] /\ j # Idle /\ j.at = at /\ j.ev = jobs[w].ev
  BY <1>1, <1>4, <1>7, <1>10, GotoFacts
<1>12. j.at \in {"confirming", "rejecting"} => row[j.ev.r].deferred
  BY <1>8, <1>11
<1>13. j.at = "restate" => ~row[j.ev.r].deferred
  BY <1>2, <1>9, <1>11
<1>14. UNCHANGED books
  BY DEF FindRefund
<1>15. QED
  BY <1>4, <1>11, <1>12, <1>13, <1>14, OnceGoes

LEMMA ReadRefundOnce ==
  ASSUME KnownInv, OnceInv, NEW w \in Workers, ReadRefund(w)
  PROVE  OnceInv'
<1>1. TypeOK
  BY DEF KnownInv
<1>2. jobs[w].at \in {"confirmed", "rejected"} /\ jobs[w] # Idle /\ jobs[w].at # "idle"
  BY DEF ReadRefund, Idle
<1>3. PICK at \in {"confirming", "rejecting", "finished"} :
        Goto(w, at) /\ (at # "finished" => row[jobs[w].ev.r].deferred)
  <2>1. CASE jobs[w].at = "confirmed"
    BY <2>1 DEF ReadRefund
  <2>2. CASE jobs[w].at = "rejected"
    BY <2>2 DEF ReadRefund
  <2>3. QED
    BY <1>2, <2>1, <2>2
<1>4. at \in Stages
  BY DEF Stages
<1>5. PICK j \in Job : jobs' = [jobs EXCEPT ![w] = j] /\ j # Idle /\ j.at = at /\ j.ev = jobs[w].ev
  BY <1>1, <1>2, <1>3, <1>4, GotoFacts
<1>6. j.at \in {"confirming", "rejecting"} => row[j.ev.r].deferred
  BY <1>3, <1>5
<1>7. j.at = "restate" => ~row[j.ev.r].deferred
  BY <1>3, <1>5
<1>8. UNCHANGED books
  BY DEF ReadRefund
<1>9. QED
  BY <1>2, <1>5, <1>6, <1>7, <1>8, OnceGoes

LEMMA EndOnce ==
  ASSUME KnownInv, OnceInv, NEW w \in Workers, MarkProcessed(w) \/ DeliveryDies(w)
  PROVE  OnceInv'
<1>1. PICK j \in Job : j = Idle
  BY DEF Job
<1>2. jobs' = [jobs EXCEPT ![w] = j] /\ UNCHANGED books
  BY <1>1 DEF MarkProcessed, DeliveryDies
<1>3. j.at \notin {"confirming", "rejecting", "restate"}
  BY <1>1 DEF Idle
<1>4. QED
  BY <1>1, <1>2, <1>3, OnceGoes

LEMMA ApplyDeferredOnce ==
  ASSUME KnownInv, OnceInv, NEW w \in Workers, ApplyDeferred(w)
  PROVE  OnceInv'
<1>1. TypeOK /\ JobsKnow /\ RowsSound /\ JobRows /\ Ledger
  BY DEF KnownInv, OnceInv
<1>2. PICK r : r = jobs[w].ev.r
  OBVIOUS
<1>3. jobs[w].at = "confirming" /\ jobs[w] # Idle /\ jobs[w].at # "idle"
  BY DEF ApplyDeferred, Idle
<1>4. r \in Recorded /\ row[r].deferred
  BY <1>1, <1>2, <1>3 DEF JobsKnow, JobRows
<1>5. r \in Refunds /\ row[r] \in RefundRow /\ row \in [Refunds -> Row]
  BY <1>1, <1>4, RowFacts DEF Recorded, TypeOK
<1>6. "succeeded" \in Outcome
  BY DEF Outcome
<1>7. PICK e \in RefundRow : /\ Settled(r, "succeeded") = [row EXCEPT ![r] = e]
                             /\ e.plan = row[r].plan /\ e.st = "succeeded" /\ e.deferred = FALSE
  BY <1>1, <1>4, <1>6, SettledFacts
<1>8. row' = [row EXCEPT ![r] = e] /\ refunded' = refunded /\ Goto(w, "finished")
  BY <1>2, <1>7 DEF ApplyDeferred
<1>9. PICK p \in Plan, target \in {"partially_refunded", "refunded"}, drive \in BOOLEAN :
        p = row[r].plan /\ target = row[r].target /\ drive = row[r].drive
  BY <1>5 DEF RefundRow
<1>10. Effects(r, p, target, drive)
  BY <1>2, <1>9 DEF ApplyDeferred
<1>11. BooksOK
  BY <1>1, TypeParts
<1>12. shelf' = shelf + p.back /\ notes'[r] = notes[r] + 1 /\ \A q \in Refunds : q # r => notes'[q] = notes[q]
  BY <1>5, <1>10, <1>11, EffectsFacts
<1>13. RowsSound' /\ Ledger'
  <2>1. shelf' = shelf + row[r].plan.back
    BY <1>9, <1>12
  <2>2. QED
    BY <1>1, <1>4, <1>7, <1>8, <1>12, <2>1, ApplyLedger
<1>14. \A q \in Refunds : q # jobs[w].ev.r => row'[q] = row[q]
  BY <1>2, <1>5, <1>8
<1>15. QED
  BY <1>3, <1>8, <1>13, <1>14, OnceFinishes

LEMMA BackOutOnce ==
  ASSUME KnownInv, OnceInv, NEW w \in Workers, BackOut(w)
  PROVE  OnceInv'
<1>1. TypeOK /\ JobsKnow /\ RowsSound /\ JobRows /\ Ledger
  BY DEF KnownInv, OnceInv
<1>2. PICK r : r = jobs[w].ev.r
  OBVIOUS
<1>3. jobs[w].at = "rejecting" /\ jobs[w] # Idle /\ jobs[w].at # "idle"
  BY DEF BackOut, Idle
<1>4. r \in Recorded /\ row[r].deferred
  BY <1>1, <1>2, <1>3 DEF JobsKnow, JobRows
<1>5. row \in [Refunds -> Row]
  BY <1>1 DEF TypeOK
<1>6. "failed" \in Outcome
  BY DEF Outcome
<1>7. PICK e \in RefundRow : /\ Settled(r, "failed") = [row EXCEPT ![r] = e]
                             /\ e.plan = row[r].plan /\ e.st = "failed" /\ e.deferred = FALSE
  BY <1>1, <1>4, <1>6, SettledFacts
<1>8. row' = [row EXCEPT ![r] = e] /\ Goto(w, "finished")
  BY <1>2, <1>7 DEF BackOut
<1>9. refunded' = IF refunded < row[r].plan.amount THEN 0 ELSE refunded - row[r].plan.amount
  BY <1>2 DEF BackOut
<1>10. UNCHANGED <<notes, shelf>>
  BY DEF BackOut
<1>11. RowsSound' /\ Ledger'
  BY <1>1, <1>4, <1>7, <1>8, <1>9, <1>10, BackOutLedger
<1>12. \A q \in Refunds : q # jobs[w].ev.r => row'[q] = row[q]
  BY <1>2, <1>5, <1>8
<1>13. QED
  BY <1>3, <1>8, <1>11, <1>12, OnceFinishes

LEMMA RestateOnce ==
  ASSUME KnownInv, OnceInv, NEW w \in Workers, Restate(w)
  PROVE  OnceInv'
<1>1. TypeOK /\ JobsKnow /\ RowsSound /\ JobRows /\ Ledger
  BY DEF KnownInv, OnceInv
<1>2. PICK r : r = jobs[w].ev.r
  OBVIOUS
<1>3. jobs[w].at = "restate" /\ jobs[w] # Idle /\ jobs[w].at # "idle"
  BY DEF Restate, Idle
<1>4. r \in Recorded /\ ~row[r].deferred /\ jobs[w].ev \in Event
  BY <1>1, <1>2, <1>3 DEF JobsKnow, JobRows, TypeOK
<1>5. row \in [Refunds -> Row]
  BY <1>1 DEF TypeOK
<1>6. PICK s \in Outcome : s = jobs[w].ev.st
  BY <1>4 DEF Event
<1>7. PICK e \in RefundRow : /\ [row EXCEPT ![r].st = s] = [row EXCEPT ![r] = e]
                             /\ e.plan = row[r].plan /\ e.st = s /\ e.deferred = row[r].deferred
  BY <1>1, <1>4, RestatedFacts
<1>8. row' = [row EXCEPT ![r] = e] /\ Goto(w, "finished")
  BY <1>2, <1>6, <1>7 DEF Restate
<1>9. UNCHANGED <<refunded, notes, shelf>>
  BY DEF Restate
<1>10. RowsSound' /\ Ledger'
  BY <1>1, <1>4, <1>7, <1>8, <1>9, RestateLedger
<1>11. \A q \in Refunds : q # jobs[w].ev.r => row'[q] = row[q]
  BY <1>2, <1>5, <1>8
<1>12. QED
  BY <1>3, <1>8, <1>10, <1>11, OnceFinishes

LEMMA CreateExternalOnce ==
  ASSUME KnownInv, OnceInv, NEW w \in Workers, CreateExternal(w)
  PROVE  OnceInv'
<1>1. TypeOK /\ JobsKnow /\ Bounded /\ RowsSound /\ Ledger
  BY DEF KnownInv, OnceInv
<1>2. PICK r : r = jobs[w].ev.r
  OBVIOUS
<1>3. jobs[w].at = "new" /\ jobs[w] # Idle /\ jobs[w].at # "idle"
  BY DEF CreateExternal, Idle
<1>4. PICK q : q = [amount |-> gw[r].amount, units |-> 0, back |-> 0]
  OBVIOUS
<1>5. CASE /\ jobs[w].ev.st # "failed" /\ r \notin Recorded /\ Fits(q)
           /\ RecordRefund(r, q, jobs[w].ev.st)
           /\ Goto(w, "finished")
  <2>1. r \in Refunds /\ q \in Plan /\ jobs[w].ev.st \in {"pending", "succeeded"}
    BY <1>1, <1>2, <1>3, <1>4, <1>5, ExternalFacts
  <2>2. PICK p \in Plan, s \in {"pending", "succeeded"} : p = q /\ s = jobs[w].ev.st
    BY <2>1
  <2>3. r \notin Recorded /\ Fits(p) /\ RecordRefund(r, p, s)
    BY <1>5, <2>2
  <2>4. Computed(p)
    BY <1>4, <2>2 DEF Computed
  <2>5. RowsSound'
    BY <1>1, <2>1, <2>3, RecordedSums
  <2>6. Ledger'
    BY <1>1, <2>1, <2>3, <2>4, RecordedLedger
  <2>7. \A x \in Refunds : x # jobs[w].ev.r => row'[x] = row[x]
    BY <1>1, <1>2, <2>1, <2>3, RecordedFacts
  <2>8. QED
    BY <1>3, <1>5, <2>5, <2>6, <2>7, OnceFinishes
<1>6. CASE jobs' = [jobs EXCEPT ![w] = Swallowed(w)] /\ UNCHANGED books
  <2>1. Goto(w, "finished")
    BY <1>6 DEF Goto, Swallowed
  <2>2. "finished" \in Stages
    BY DEF Stages
  <2>3. PICK j \in Job : jobs' = [jobs EXCEPT ![w] = j] /\ j # Idle /\ j.at = "finished" /\ j.ev = jobs[w].ev
    BY <1>1, <1>3, <2>1, <2>2, GotoFacts
  <2>4. QED
    BY <1>3, <1>6, <2>3, OnceGoes
<1>7. QED
  BY <1>2, <1>4, <1>5, <1>6 DEF CreateExternal

-----------------------------------------------------------------------------
LEMMA OnceInit == Init => OnceInv
<1> SUFFICES ASSUME Init PROVE OnceInv
  OBVIOUS
<1>1. Recorded = {}
  BY DEF Init, Recorded
<1>2. Standing = {} /\ Noted = {}
  BY <1>1 DEF Standing, Noted
<1>3. Money = [r \in Refunds |-> 0] /\ BackOf(Noted) = [r \in Refunds |-> 0] /\ BackOf(Recorded) = [r \in Refunds |-> 0]
  BY <1>1, <1>2 DEF Money, BackOf
<1>4. Ledger
  <2>1. Sum(Money) = 0 /\ Sum(BackOf(Noted)) = 0 /\ Sum(BackOf(Recorded)) = 0
    BY <1>3, SumOfNothing
  <2>2. RefundedUnits \in Nat /\ refunded = 0 /\ shelf = 0
    BY RefundedUnitsNat DEF Init
  <2>3. QED
    BY <2>1, <2>2 DEF Ledger
<1>5. RowsSound
  BY <1>1 DEF Init, RowsSound
<1>6. Alone
  BY DEF Init, Alone
<1>7. JobRows
  BY DEF Init, JobRows, Idle
<1>8. QED
  BY <1>4, <1>5, <1>6, <1>7 DEF OnceInv

LEMMA OnceStep == Overlap = FALSE /\ KnownInv /\ OnceInv /\ [Next]_vars => OnceInv'
<1> SUFFICES ASSUME Overlap = FALSE, KnownInv, OnceInv, [Next]_vars PROVE OnceInv'
  OBVIOUS
<1>1. ASSUME NEW r \in Refunds, NEW ask \in Asks, LockForRefund(r, ask) PROVE OnceInv'
  BY <1>1, OnceKept DEF LockForRefund, books
<1>2. ASSUME NEW r \in Refunds, CallGateway(r) PROVE OnceInv'
  BY <1>2, OnceKept DEF CallGateway, books
<1>3. ASSUME NEW r \in Refunds, Commit(r) PROVE OnceInv'
  BY <1>3, CommitOnce
<1>4. ASSUME NEW r \in Refunds, RequestDies(r) \/ Dashboard(r) \/ Decide(r) PROVE OnceInv'
  <2>1. UNCHANGED <<refunded, row, notes, shelf, jobs>>
    BY <1>4 DEF RequestDies, Dashboard, Decide, books
  <2>2. QED
    BY <2>1, OnceKept
<1>5. CASE CloseOrder
  BY <1>5, OnceKept DEF CloseOrder
<1>6. ASSUME NEW w \in Workers, Handle(w) PROVE OnceInv'
  BY <1>6, FindRefundOnce, ReadRefundOnce, ApplyDeferredOnce, BackOutOnce, RestateOnce,
     CreateExternalOnce, EndOnce DEF Handle
<1>7. ASSUME NEW w \in Workers, DeliveryDies(w) PROVE OnceInv'
  BY <1>7, EndOnce
<1>8. ASSUME NEW w \in Workers, NEW e \in Event, Claim(w, e) PROVE OnceInv'
  BY <1>8, ClaimOnce
<1>9. CASE UNCHANGED vars
  BY <1>9, OnceKept DEF vars, books
<1>10. QED
  BY <1>1, <1>2, <1>3, <1>4, <1>5, <1>6, <1>7, <1>8, <1>9 DEF Next, Request

(* When no two deliveries about one refund run at once, a handler still     *)
(* finds the refund as it read it, each refund has one note at most, and    *)
(* the order's refunded amount and returned units are the sums of its rows. *)
THEOREM OnceAlways == ASSUME Overlap = FALSE PROVE Spec => [](KnownInv /\ OnceInv)
<1>1. Init => KnownInv /\ OnceInv
  BY KnownInit, OnceInit
<1>2. KnownInv /\ OnceInv /\ [Next]_vars => (KnownInv /\ OnceInv)'
  BY KnownStep, OnceStep
<1>3. QED
  BY <1>1, <1>2, PTL DEF Spec

(* Then no reservation is lost, kept after a rejection or taken twice, and  *)
(* never more is refunded than was paid.                                    *)
THEOREM BalanceKept == ASSUME Overlap = FALSE PROVE Spec => []ReservationsBalance
<1>1. KnownInv /\ OnceInv => ReservationsBalance
  <2>1. Sum(Money) = Sum([r \in Refunds |-> IF r \in Standing THEN row[r].plan.amount ELSE 0])
    BY DEF Money
  <2>2. QED
    BY <2>1 DEF KnownInv, Bounded, OnceInv, Ledger, ReservationsBalance
<1>2. QED
  BY <1>1, OnceAlways, PTL

(* Then a refund is credited once, as applyDeferredRefund's comment says;   *)
(* with two deliveries at once it is not, which TLC shows.                  *)
THEOREM CreditedOnce == ASSUME Overlap = FALSE PROVE Spec => []CreditNoteOnce
<1>1. OnceInv => CreditNoteOnce
  BY DEF OnceInv, RowsSound, CreditNoteOnce
<1>2. QED
  BY <1>1, OnceAlways, PTL

(* Then, as long as the bank rejects nothing, no more units come back than  *)
(* the order took; after a rejection they may, which TLC shows.             *)
THEOREM UnitsReturnedWithin == ASSUME Overlap = FALSE PROVE Spec => []ReturnedWithinOrder
<1>1. KnownInv /\ OnceInv => ReturnedWithinOrder
  <2>1. SUFFICES ASSUME KnownInv, OnceInv, Recorded = Standing PROVE shelf <= Qty
    BY DEF ReturnedWithinOrder
  <2>2. TypeOK /\ RefundedUnits <= Qty /\ Ledger
    <3>1. TypeOK /\ Bounded
      BY <2>1, Zenon DEF KnownInv
    <3>2. Ledger
      BY <2>1, Zenon DEF OnceInv
    <3>3. RefundedUnits <= Qty
      BY <3>1, Zenon DEF Bounded
    <3>4. QED
      BY <3>1, <3>2, <3>3
  <2>3. PICK f : f = BackOf(Noted)
    OBVIOUS
  <2>4. PICK g : g = BackOf(Recorded)
    OBVIOUS
  <2>5. Noted \subseteq Recorded
    BY DEF Noted
  <2>6. f \in [Refunds -> 0..Total] /\ g \in [Refunds -> 0..Total]
    BY <2>2, <2>3, <2>4, <2>5, BackType
  <2>7. \A r \in Refunds : f[r] <= g[r]
    <3>1. TAKE r \in Refunds
    <3>2. f[r] \in 0..Total /\ g[r] \in 0..Total
      BY <2>6
    <3>3. CASE r \in Noted
      <4>1. f[r] = g[r]
        BY <2>3, <2>4, <2>5, <3>3 DEF BackOf
      <4>2. QED
        BY <3>2, <4>1, TotalNat
    <3>4. CASE r \notin Noted
      <4>1. f[r] = 0
        BY <2>3, <3>4 DEF BackOf
      <4>2. QED
        BY <3>2, <4>1, TotalNat
    <3>5. QED
      BY <3>3, <3>4
  <2>8. Sum(f) <= Sum(g)
    BY <2>6, <2>7, SumMonotone
  <2>9. Sum(g) <= RefundedUnits \/ Sum(g) <= Qty
    BY <2>1, <2>2, <2>4 DEF Ledger
  <2>10. shelf = Sum(f)
    BY <2>2, <2>3 DEF Ledger
  <2>11. Sum(f) \in Nat /\ Sum(g) \in Nat /\ RefundedUnits \in Nat
    BY SumNat, RefundedUnitsNat
  <2>12. QED
    BY <2>2, <2>8, <2>9, <2>10, <2>11, TotalNat
<1>2. QED
  BY <1>1, OnceAlways, PTL

-----------------------------------------------------------------------------
(* The refunds implement the ledger. *)

LedgerMoves == Account!Next \/ UNCHANGED <<Entries, refunded, shelf>>

(* Only r's entry moves. *)
LEMMA EntryMoves ==
  ASSUME NEW r \in Refunds, NEW e, EntryOf(r)' = e,
         \A q \in Refunds : q # r => row'[q] = row[q] /\ notes'[q] = notes[q]
  PROVE  Entries' = [Entries EXCEPT ![r] = e]
<1>1. \A q \in Refunds : q # r => EntryOf(q)' = EntryOf(q)
  BY DEF EntryOf, Recorded
<1>2. QED
  BY <1>1 DEF Entries

LEMMA EntriesKept == ASSUME UNCHANGED <<row, notes>> PROVE Entries' = Entries
<1>1. \A q \in Refunds : EntryOf(q)' = EntryOf(q)
  BY DEF EntryOf, Recorded
<1>2. QED
  BY <1>1 DEF Entries

(* The bank's answer ends a reservation. *)
LEMMA EntryEnds ==
  ASSUME NEW r \in Refunds, NEW st, NEW n, NEW b,
         Entries[r] = [st |-> "reserved", amount |-> n, back |-> b],
         Entries' = [Entries EXCEPT ![r] = [st |-> st, amount |-> n, back |-> b]]
  PROVE  Account!Ends(r, st)
<1>1. PICK f : f = Entries
  OBVIOUS
<1>2. [f EXCEPT ![r].st = st] = [f EXCEPT ![r] = [st |-> st, amount |-> n, back |-> b]]
  <2>1. [f[r] EXCEPT !.st = st] = [st |-> st, amount |-> n, back |-> b]
    BY <1>1
  <2>2. QED
    BY <2>1
<1>3. Entries[r].st = "reserved"
  OBVIOUS
<1>4. QED
  BY <1>1, <1>2, <1>3 DEF Account!Ends

(* A deferred refund is reserved in the ledger, and its amount is taken. *)
LEMMA ReservedEntry ==
  ASSUME TypeOK, Ledger, NEW r \in Recorded, row[r].deferred
  PROVE  /\ r \in Refunds /\ Entries[r] = EntryOf(r)
         /\ EntryOf(r) = [st |-> "reserved", amount |-> row[r].plan.amount, back |-> row[r].plan.back]
         /\ row[r].plan.amount <= refunded
<1>1. r \in Refunds /\ r \in Standing
  BY DEF Recorded, Standing
<1>2. Money[r] = row[r].plan.amount
  BY <1>1 DEF Money
<1>3. PICK f : f = Money
  OBVIOUS
<1>4. f \in [Refunds -> 0..Total]
  BY <1>3, MoneyType
<1>5. f[r] <= Sum(f)
  BY <1>1, <1>4, ShareWithinSum
<1>6. row[r].plan.amount <= refunded
  BY <1>2, <1>3, <1>5 DEF Ledger
<1>7. EntryOf(r) = [st |-> "reserved", amount |-> row[r].plan.amount, back |-> row[r].plan.back]
  BY DEF EntryOf
<1>8. QED
  BY <1>1, <1>6, <1>7 DEF Entries

(* A recorded refund is reserved, or credited at once. *)
LEMMA RecordedInLedger ==
  ASSUME TypeOK, Bounded, RowsSound, NEW r \in Refunds, r \notin Recorded, NEW p \in Plan, Fits(p),
         NEW s \in {"pending", "succeeded"}, RecordRefund(r, p, s)
  PROVE  Account!Next
<1>1. /\ refunded' = refunded + p.amount
      /\ Recorded' = Recorded \cup {r}
      /\ row'[r].plan = p /\ row'[r].deferred = (s = "pending")
      /\ \A q \in Refunds : q # r => row'[q] = row[q] /\ notes'[q] = notes[q]
      /\ IF s = "pending" THEN notes' = notes /\ shelf' = shelf
                          ELSE notes'[r] = notes[r] + 1 /\ shelf' = shelf + p.back
  BY RecordedFacts
<1>2. notes[r] = 0
  BY DEF RowsSound
<1>3. refunded \in Nat /\ p.amount \in 1..Total /\ p.back \in 0..Qty /\ refunded + p.amount <= Total
  BY PlanFacts, TotalNat DEF TypeOK, Fits
<1>4. Entries[r] = Account!Blank
  BY DEF Entries, EntryOf, Account!Blank
<1>5. CASE s = "pending"
  <2>1. EntryOf(r)' = [st |-> "reserved", amount |-> p.amount, back |-> p.back]
    BY <1>1, <1>5 DEF EntryOf
  <2>2. Entries' = [Entries EXCEPT ![r] = [st |-> "reserved", amount |-> p.amount, back |-> p.back]]
    BY <1>1, <2>1, EntryMoves
  <2>3. shelf' = shelf
    BY <1>1, <1>5
  <2>4. Account!Reserve(r, p.amount, p.back)
    BY <1>1, <1>3, <1>4, <2>2, <2>3 DEF Account!Reserve, Account!Opens
  <2>5. QED
    BY <1>3, <2>4 DEF Account!Next
<1>6. CASE s = "succeeded"
  <2>1. notes'[r] = 1 /\ row'[r].deferred = FALSE
    <3>1. s # "pending"
      BY <1>6
    <3>2. notes'[r] = notes[r] + 1
      BY <1>1, <3>1
    <3>3. row'[r].deferred = FALSE
      BY <1>1, <3>1
    <3>4. QED
      BY <1>2, <3>2, <3>3
  <2>2. EntryOf(r)' = [st |-> "credited", amount |-> p.amount, back |-> p.back]
    BY <1>1, <2>1 DEF EntryOf
  <2>3. Entries' = [Entries EXCEPT ![r] = [st |-> "credited", amount |-> p.amount, back |-> p.back]]
    BY <1>1, <2>2, EntryMoves
  <2>4. shelf' = shelf + p.back
    BY <1>1, <1>6
  <2>5. Account!Credit(r, p.amount, p.back)
    BY <1>1, <1>3, <1>4, <2>3, <2>4 DEF Account!Credit, Account!Opens
  <2>6. QED
    BY <1>3, <2>5 DEF Account!Next
<1>7. QED
  BY <1>5, <1>6

LEMMA CommitInLedger ==
  ASSUME KnownInv, OnceInv, NEW r \in Refunds, Commit(r)
  PROVE  LedgerMoves
<1>1. TypeOK /\ AnswersTrue /\ Held /\ Bounded /\ RowsSound
  BY Zenon DEF KnownInv, OnceInv
<1>2. desk[r] \in Desk
  BY <1>1 DEF TypeOK
<1>3. desk[r] \in [at: {"locked", "called", "answered", "refused", "again"}, ask: Asks, plan: Plan, reply: Outcome]
      /\ desk[r].at = "called"
  BY <1>2 DEF Commit, Desk, Idle
<1>4. Fits(desk[r].plan) /\ desk[r].reply # "failed"
  BY <1>1, <1>3 DEF Held, AnswersTrue
<1>5. PICK p \in Plan : p = desk[r].plan
  BY <1>3
<1>6. PICK s \in {"pending", "succeeded"} : s = desk[r].reply
  BY <1>3, <1>4 DEF Outcome
<1>7. Fits(p)
  BY <1>4, <1>5
<1>8. CASE r \in Recorded
  <2>1. UNCHANGED <<refunded, row, notes, shelf>>
    BY <1>8 DEF Commit, books
  <2>2. QED
    BY <2>1, EntriesKept DEF LedgerMoves
<1>9. CASE r \notin Recorded
  <2>1. RecordRefund(r, p, s)
    BY <1>5, <1>6, <1>9 DEF Commit
  <2>2. QED
    BY <1>1, <1>7, <1>9, <2>1, RecordedInLedger DEF LedgerMoves
<1>10. QED
  BY <1>8, <1>9

LEMMA CreateExternalInLedger ==
  ASSUME KnownInv, OnceInv, NEW w \in Workers, CreateExternal(w)
  PROVE  LedgerMoves
<1>1. TypeOK /\ JobsKnow /\ Bounded /\ RowsSound
  BY Zenon DEF KnownInv, OnceInv
<1>2. PICK r : r = jobs[w].ev.r
  OBVIOUS
<1>3. jobs[w].at = "new"
  BY DEF CreateExternal
<1>4. PICK q : q = [amount |-> gw[r].amount, units |-> 0, back |-> 0]
  OBVIOUS
<1>5. CASE jobs[w].ev.st # "failed" /\ r \notin Recorded /\ Fits(q) /\ RecordRefund(r, q, jobs[w].ev.st)
  <2>1. r \in Refunds /\ q \in Plan /\ jobs[w].ev.st \in {"pending", "succeeded"}
    BY <1>1, <1>2, <1>3, <1>4, <1>5, ExternalFacts
  <2>2. PICK p \in Plan, s \in {"pending", "succeeded"} : p = q /\ s = jobs[w].ev.st
    BY <2>1
  <2>3. r \notin Recorded /\ Fits(p) /\ RecordRefund(r, p, s)
    BY <1>5, <2>2
  <2>4. QED
    BY <1>1, <2>1, <2>3, RecordedInLedger DEF LedgerMoves
<1>6. CASE UNCHANGED books
  <2>1. UNCHANGED <<refunded, row, notes, shelf>>
    BY <1>6 DEF books
  <2>2. QED
    BY <2>1, EntriesKept DEF LedgerMoves
<1>7. QED
  BY <1>2, <1>4, <1>5, <1>6 DEF CreateExternal

(* The confirming event credits what is reserved. *)
LEMMA ApplyDeferredInLedger ==
  ASSUME KnownInv, OnceInv, NEW w \in Workers, ApplyDeferred(w)
  PROVE  Account!Next
<1>1. TypeOK /\ JobsKnow /\ RowsSound /\ JobRows /\ Ledger
  BY Zenon DEF KnownInv, OnceInv
<1>2. PICK r : r = jobs[w].ev.r
  OBVIOUS
<1>3. jobs[w].at = "confirming" /\ jobs[w] # Idle
  BY DEF ApplyDeferred, Idle
<1>4. r \in Recorded /\ row[r].deferred
  BY <1>1, <1>2, <1>3 DEF JobsKnow, JobRows
<1>5. r \in Refunds /\ row[r] \in RefundRow /\ row \in [Refunds -> Row]
  BY <1>1, <1>4, RowFacts DEF Recorded, TypeOK
<1>6. "succeeded" \in Outcome
  BY DEF Outcome
<1>7. PICK e \in RefundRow : /\ Settled(r, "succeeded") = [row EXCEPT ![r] = e]
                             /\ e.plan = row[r].plan /\ e.st = "succeeded" /\ e.deferred = FALSE
  BY <1>1, <1>4, <1>6, SettledFacts
<1>8. row' = [row EXCEPT ![r] = e] /\ refunded' = refunded
  BY <1>2, <1>7 DEF ApplyDeferred
<1>9. PICK p \in Plan, target \in {"partially_refunded", "refunded"}, drive \in BOOLEAN :
        p = row[r].plan /\ target = row[r].target /\ drive = row[r].drive
  BY <1>5 DEF RefundRow
<1>10. Effects(r, p, target, drive)
  BY <1>2, <1>9 DEF ApplyDeferred
<1>11. BooksOK
  BY <1>1, TypeParts
<1>12. shelf' = shelf + p.back /\ notes'[r] = notes[r] + 1 /\ \A q \in Refunds : q # r => notes'[q] = notes[q]
  BY <1>5, <1>10, <1>11, EffectsFacts
<1>13. Recorded' = Recorded
  BY <1>1, <1>4, <1>7, <1>8, RowKeepsPlan
<1>14. notes'[r] = 1
  BY <1>1, <1>4, <1>5, <1>12 DEF RowsSound
<1>15. row'[r] = e /\ \A q \in Refunds : q # r => row'[q] = row[q]
  BY <1>5, <1>8
<1>16. /\ EntryOf(r) = [st |-> "reserved", amount |-> p.amount, back |-> p.back]
       /\ Entries[r] = EntryOf(r)
  BY <1>1, <1>4, <1>9, ReservedEntry
<1>17. EntryOf(r)' = [st |-> "credited", amount |-> p.amount, back |-> p.back]
  BY <1>4, <1>7, <1>9, <1>13, <1>14, <1>15 DEF EntryOf
<1>18. Entries' = [Entries EXCEPT ![r] = [st |-> "credited", amount |-> p.amount, back |-> p.back]]
  BY <1>5, <1>12, <1>15, <1>17, EntryMoves
<1>19. Account!Ends(r, "credited")
  BY <1>5, <1>16, <1>18, EntryEnds
<1>20. Account!Confirm(r)
  <2>1. Entries[r].back = p.back
    BY <1>16
  <2>2. QED
    BY <1>8, <1>12, <1>19, <2>1 DEF Account!Confirm
<1>21. QED
  BY <1>5, <1>20 DEF Account!Next

(* The rejecting one releases it. *)
LEMMA BackOutInLedger ==
  ASSUME KnownInv, OnceInv, NEW w \in Workers, BackOut(w)
  PROVE  Account!Next
<1>1. TypeOK /\ JobsKnow /\ RowsSound /\ JobRows /\ Ledger
  BY Zenon DEF KnownInv, OnceInv
<1>2. PICK r : r = jobs[w].ev.r
  OBVIOUS
<1>3. jobs[w].at = "rejecting" /\ jobs[w] # Idle
  BY DEF BackOut, Idle
<1>4. r \in Recorded /\ row[r].deferred
  BY <1>1, <1>2, <1>3 DEF JobsKnow, JobRows
<1>5. r \in Refunds /\ row \in [Refunds -> Row] /\ refunded \in Nat
  BY <1>1, <1>4 DEF Recorded, TypeOK
<1>6. "failed" \in Outcome
  BY DEF Outcome
<1>7. PICK e \in RefundRow : /\ Settled(r, "failed") = [row EXCEPT ![r] = e]
                             /\ e.plan = row[r].plan /\ e.st = "failed" /\ e.deferred = FALSE
  BY <1>1, <1>4, <1>6, SettledFacts
<1>8. row' = [row EXCEPT ![r] = e] /\ notes' = notes /\ shelf' = shelf
  BY <1>2, <1>7 DEF BackOut
<1>9. PICK p \in Plan : p = row[r].plan
  BY <1>1, <1>4, RecordedPlan
<1>10. refunded' = IF refunded < p.amount THEN 0 ELSE refunded - p.amount
  BY <1>2, <1>9 DEF BackOut
<1>11. Recorded' = Recorded
  BY <1>1, <1>4, <1>7, <1>8, RowKeepsPlan
<1>12. notes[r] = 0
  BY <1>1, <1>4, <1>5 DEF RowsSound
<1>13. row'[r] = e /\ \A q \in Refunds : q # r => row'[q] = row[q]
  BY <1>5, <1>8
<1>14. /\ EntryOf(r) = [st |-> "reserved", amount |-> p.amount, back |-> p.back]
       /\ Entries[r] = EntryOf(r) /\ p.amount <= refunded
  BY <1>1, <1>4, <1>9, ReservedEntry
<1>15. refunded' = refunded - p.amount
  BY <1>5, <1>10, <1>14, PlanFacts
<1>16. EntryOf(r)' = [st |-> "released", amount |-> p.amount, back |-> p.back]
  BY <1>4, <1>7, <1>8, <1>9, <1>11, <1>12, <1>13 DEF EntryOf
<1>17. Entries' = [Entries EXCEPT ![r] = [st |-> "released", amount |-> p.amount, back |-> p.back]]
  BY <1>5, <1>8, <1>13, <1>16, EntryMoves
<1>18. Account!Ends(r, "released")
  BY <1>5, <1>14, <1>17, EntryEnds
<1>19. Account!Reject(r)
  <2>1. Entries[r].amount = p.amount
    BY <1>14
  <2>2. QED
    BY <1>8, <1>15, <1>18, <2>1 DEF Account!Reject
<1>20. QED
  BY <1>5, <1>19 DEF Account!Next

(* A status restated moves no entry. *)
LEMMA RestateInLedger ==
  ASSUME KnownInv, OnceInv, NEW w \in Workers, Restate(w)
  PROVE  UNCHANGED <<Entries, refunded, shelf>>
<1>1. TypeOK /\ JobsKnow
  BY Zenon DEF KnownInv
<1>2. PICK r : r = jobs[w].ev.r
  OBVIOUS
<1>3. jobs[w].at = "restate" /\ jobs[w] # Idle
  BY DEF Restate, Idle
<1>4. r \in Recorded /\ jobs[w].ev \in Event
  BY <1>1, <1>2, <1>3 DEF JobsKnow, TypeOK
<1>5. r \in Refunds /\ row \in [Refunds -> Row]
  BY <1>1, <1>4 DEF Recorded, TypeOK
<1>6. PICK s \in Outcome : s = jobs[w].ev.st
  BY <1>4 DEF Event
<1>7. PICK e \in RefundRow : /\ [row EXCEPT ![r].st = s] = [row EXCEPT ![r] = e]
                             /\ e.plan = row[r].plan /\ e.st = s /\ e.deferred = row[r].deferred
  BY <1>1, <1>4, RestatedFacts
<1>8. row' = [row EXCEPT ![r] = e] /\ UNCHANGED <<refunded, notes, shelf>>
  BY <1>2, <1>6, <1>7 DEF Restate
<1>9. Recorded' = Recorded
  BY <1>1, <1>4, <1>7, <1>8, RowKeepsPlan
<1>10. row'[r] = e /\ \A q \in Refunds : q # r => row'[q] = row[q]
  BY <1>5, <1>8
<1>11. \A q \in Refunds : EntryOf(q)' = EntryOf(q)
  BY <1>7, <1>8, <1>9, <1>10 DEF EntryOf
<1>12. Entries' = Entries
  BY <1>11 DEF Entries
<1>13. QED
  BY <1>8, <1>12

LEMMA LedgerStep ==
  KnownInv /\ OnceInv /\ [Next]_vars => [Account!Next]_<<Entries, refunded, shelf>>
<1> SUFFICES ASSUME KnownInv, OnceInv, [Next]_vars
             PROVE  LedgerMoves
  BY DEF LedgerMoves
<1>1. UNCHANGED <<refunded, row, notes, shelf>> => LedgerMoves
  BY EntriesKept DEF LedgerMoves
<1>2. ASSUME NEW r \in Refunds, NEW ask \in Asks, LockForRefund(r, ask) PROVE LedgerMoves
  BY <1>1, <1>2 DEF LockForRefund, books
<1>3. ASSUME NEW r \in Refunds, Request(r) PROVE LedgerMoves
  <2>1. CASE CallGateway(r)
    BY <1>1, <2>1 DEF CallGateway, books
  <2>2. CASE Commit(r)
    BY <2>2, CommitInLedger DEF LedgerMoves
  <2>3. QED
    BY <1>3, <2>1, <2>2 DEF Request
<1>4. ASSUME NEW r \in Refunds, RequestDies(r) \/ Dashboard(r) \/ Decide(r) PROVE LedgerMoves
  <2>1. UNCHANGED <<refunded, row, notes, shelf>>
    BY <1>4 DEF RequestDies, Dashboard, Decide, books
  <2>2. QED
    BY <1>1, <2>1
<1>5. CASE CloseOrder
  <2>1. UNCHANGED <<refunded, row, notes, shelf>>
    BY <1>5 DEF CloseOrder
  <2>2. QED
    BY <1>1, <2>1
<1>6. ASSUME NEW w \in Workers, Handle(w) PROVE LedgerMoves
  <2>1. CASE FindRefund(w) \/ ReadRefund(w) \/ MarkProcessed(w)
    <3>1. UNCHANGED <<refunded, row, notes, shelf>>
      BY <2>1 DEF FindRefund, ReadRefund, MarkProcessed, books
    <3>2. QED
      BY <1>1, <3>1
  <2>2. CASE ApplyDeferred(w)
    BY <2>2, ApplyDeferredInLedger DEF LedgerMoves
  <2>3. CASE BackOut(w)
    BY <2>3, BackOutInLedger DEF LedgerMoves
  <2>4. CASE Restate(w)
    BY <2>4, RestateInLedger DEF LedgerMoves
  <2>5. CASE CreateExternal(w)
    BY <2>5, CreateExternalInLedger DEF LedgerMoves
  <2>6. QED
    BY <1>6, <2>1, <2>2, <2>3, <2>4, <2>5 DEF Handle
<1>7. ASSUME NEW w \in Workers, DeliveryDies(w) PROVE LedgerMoves
  BY <1>1, <1>7 DEF DeliveryDies, books
<1>8. ASSUME NEW w \in Workers, NEW e \in Event, Claim(w, e) PROVE LedgerMoves
  BY <1>1, <1>8 DEF Claim, books
<1>9. CASE UNCHANGED vars
  <2>1. UNCHANGED <<refunded, row, notes, shelf>>
    BY <1>9 DEF vars, books
  <2>2. QED
    BY <1>1, <2>1
<1>10. QED
  BY <1>2, <1>3, <1>4, <1>5, <1>6, <1>7, <1>8, <1>9 DEF Next

LEMMA LedgerInit == Init => Account!Init
<1>1. ASSUME Init PROVE Entries = [r \in Refunds |-> Account!Blank]
  <2>1. Recorded = {}
    BY <1>1 DEF Init, Recorded
  <2>2. QED
    BY <2>1 DEF Entries, EntryOf, Account!Blank
<1>2. QED
  BY <1>1 DEF Init, Account!Init

(* Then the requests retried under their key, the dashboard's refunds and   *)
(* the events, repeated, late or out of order, come to one ledger: each     *)
(* refund takes its money once and is once credited or once released.       *)
THEOREM ImplementsTheLedger == ASSUME Overlap = FALSE PROVE Spec => ImplementsLedger
<1>1. Init => Account!Init
  BY LedgerInit
<1>2. KnownInv /\ OnceInv /\ [Next]_vars => [Account!Next]_<<Entries, refunded, shelf>>
  BY LedgerStep
<1>3. QED
  BY <1>1, <1>2, OnceAlways, PTL DEF Spec, ImplementsLedger, Account!Spec
=============================================================================
