---------------------------- MODULE CheckoutProofs ----------------------------
(***************************************************************************)
(* What holds of Checkout.tla for every set of carts, requests and variants. *)
(*                                                                          *)
(* 1. It never oversells.  The stock alone is not inductive: a commit       *)
(*    subtracts what the transaction took since it read the row.  What      *)
(*    makes it safe is the lock: LockInv says that a transaction has taken  *)
(*    units only of variants it has locked, that no two transactions lock   *)
(*    the same one, and that a checkout has taken no more than the          *)
(*    committed stock still has.                                            *)
(* 2. Orders, redemptions and answers are counted right (StoryInv).         *)
(* 3. Plain lines never deadlock: work is done in order (WorkInv).          *)
(* 4. A hold is granted only beside all others (HoldsCovered).              *)
(* 5. It implements OrderBook.tla (BookInv, and one lemma per action).      *)
(***************************************************************************)
EXTENDS Checkout, FiniteSetTheorems, TLAPS

LockExclusive ==
  \A r, s \in Requests : r # s => locked[r] \cap locked[s] = {}

TakenIsLocked ==
  \A r \in Requests, v \in Variants : v \notin locked[r] => taken[r][v] = 0

TakenIsCovered ==
  \A r \in Requests, v \in Variants \ Backorder :
    pc[r] = "consuming" => taken[r][v] <= stock[v]

OnlyWorkLocks ==
  \A r \in Requests : pc[r] \notin {"consuming", "restocking"} => locked[r] = {}

LockInv == LockExclusive /\ TakenIsLocked /\ OnlyWorkLocks /\ TakenIsCovered

-----------------------------------------------------------------------------
(* A column of n cells has n. *)
LEMMA ColumnSize ==
  ASSUME NEW x, NEW n \in Nat
  PROVE  IsFiniteSet({x} \X (1..n)) /\ Cardinality({x} \X (1..n)) = n
<1>1. PICK A : A = {x}
  OBVIOUS
<1>2. PICK B : B = 1..n
  OBVIOUS
<1>3. IsFiniteSet(A) /\ Cardinality(A) = 1
  BY <1>1, FS_Singleton
<1>4. IsFiniteSet(B) /\ Cardinality(B) = n
  BY <1>2, FS_Interval
<1>5. IsFiniteSet(A \X B) /\ Cardinality(A \X B) = Cardinality(A) * Cardinality(B)
  BY <1>3, <1>4, FS_Product, Zenon
<1>6. PICK k : k = Cardinality(A \X B)
  OBVIOUS
<1>7. k = 1 * n
  BY <1>3, <1>4, <1>5, <1>6
<1>8. k = n
  BY <1>7
<1>9. QED
  BY <1>1, <1>2, <1>5, <1>6, <1>8

(* The units a set of carts holds are a natural number: the set counted is  *)
(* a subset of the finite Carts \X 1..MaxQty.                               *)
LEMMA HeldByNat == ASSUME NEW C \in SUBSET Carts, NEW v PROVE HeldBy(C, v) \in Nat
<1>1. IsFiniteSet(Carts) /\ MaxQty \in Nat
  BY CheckoutAssumption DEF CheckoutAssumption
<1>2. IsFiniteSet(1..MaxQty)
  BY <1>1, FS_Interval
<1>3. IsFiniteSet(Carts \X (1..MaxQty))
  BY <1>1, <1>2, FS_Product
<1>4. {u \in C \X (1..MaxQty) : hold[u[1]][v].is = "live" /\ u[2] <= hold[u[1]][v].qty}
        \in SUBSET (Carts \X (1..MaxQty))
  OBVIOUS
<1>5. QED
  BY <1>3, <1>4, FS_Subset, FS_CardinalityType DEF HeldBy

(* A step of the work takes a natural number of units. *)
LEMMA UnitsNat ==
  ASSUME TypeOK, NEW r \in Requests, NEW p \in todo[r]
  PROVE  p[1] \in Variants /\ p[2] \in Variants /\ Units(r, p) \in Nat
<1>1. p[1] \in Variants /\ p[2] \in Variants
  <2>1. todo[r] \subseteq Variants \X Variants
    BY DEF TypeOK, TablesOK, WorkOK, RequestOK, Stages
  <2>2. QED
    BY <2>1
<1>2. lines[r][p[1]] \in Nat
  <2>1. lines[r] \in [Variants -> 0..MaxQty]
    BY DEF TypeOK, TablesOK, WorkOK, RequestOK, Stages
  <2>2. MaxQty \in Nat
    BY CheckoutAssumption DEF CheckoutAssumption
  <2>3. QED
    BY <1>1, <2>1, <2>2
<1>3. Parts[p[1]][p[2]] \in Nat
  <2>1. Parts \in [Variants -> [Variants -> Nat]]
    BY CheckoutAssumption DEF CheckoutAssumption
  <2>2. Parts[p[1]] \in [Variants -> Nat]
    BY <1>1, <2>1
  <2>3. QED
    BY <1>1, <2>2
<1>4. Parts[p[1]][p[2]] * lines[r][p[1]] \in Nat
  BY <1>2, <1>3
<1>5. QED
  BY <1>1, <1>2, <1>4 DEF Units

(* reserve() grants between nothing and what it was asked for. *)
LEMMA GrantedQty ==
  ASSUME TypeOK, NEW c \in Carts, NEW v \in Variants, NEW q \in HoldQty[v]
  PROVE  Granted(c, v, q) \in 0..MaxQty
<1>1. q \in 1..MaxQty /\ MaxQty \in Nat
  BY CheckoutAssumption DEF CheckoutAssumption
<1>2. LeftFor(c, v) \in Int
  <2>1. HeldBy(Carts \ {c}, v) \in Nat
    BY HeldByNat
  <2>2. stock[v] \in Int
    BY DEF TypeOK, TablesOK, WorkOK, RequestOK, Stages
  <2>3. QED
    BY <2>1, <2>2 DEF LeftFor
<1>3. QED
  BY <1>1, <1>2 DEF Granted, TooMuch

-----------------------------------------------------------------------------
(* A transaction that ends leaves a well-typed nothing behind. *)
LEMMA DropWorkOK ==
  ASSUME TypeOK, NEW r \in Requests, DropWork(r)
  PROVE  WorkOK'
<1>1. NoLines \in [Variants -> Nat]
  BY DEF NoLines
<1>2. QED
  BY <1>1 DEF TypeOK, WorkOK, DropWork

(* A request that ends stays well typed, whatever it answered. *)
LEMMA EndOK ==
  ASSUME TypeOK, NEW r \in Requests, End(r), answer' = answer
  PROVE  WorkOK' /\ RequestOK'
<1>1. WorkOK'
  BY DropWorkOK DEF End
<1>2. NoLines \in [Variants -> 0..MaxQty]
  BY CheckoutAssumption DEF CheckoutAssumption, NoLines
<1>3. RequestOK'
  BY <1>2 DEF TypeOK, RequestOK, Stages, End
<1>4. QED
  BY <1>1, <1>3

(* So does one that ran into a 409. *)
LEMMA ConflictOK ==
  ASSUME TypeOK, NEW r \in Requests, Conflict(r), answer' = answer
  PROVE  WorkOK' /\ RequestOK'
<1>1. CASE kind[r] = "checkout"
  BY <1>1, EndOK DEF Conflict
<1>2. CASE kind[r] # "checkout"
  <2>1. WorkOK'
    BY <1>2, DropWorkOK DEF Conflict
  <2>2. RequestOK'
    BY <1>2 DEF TypeOK, RequestOK, Stages, Conflict
  <2>3. QED
    BY <2>1, <2>2
<1>3. QED
  BY <1>1, <1>2

(* Locking a variant and taking its units keeps the work well typed. *)
LEMMA TakeOK ==
  ASSUME TypeOK, NEW r \in Requests, NEW p \in todo[r], Take(r, p), answer' = answer
  PROVE  WorkOK' /\ RequestOK'
<1>1. p[2] \in Variants /\ Units(r, p) \in Nat
  BY UnitsNat
<1>2. taken' \in [Requests -> [Variants -> Nat]]
  <2>1. taken \in [Requests -> [Variants -> Nat]]
    BY DEF TypeOK, WorkOK
  <2>2. taken[r][p[2]] + Units(r, p) \in Nat
    BY <1>1, <2>1
  <2>3. [taken[r] EXCEPT ![p[2]] = @ + Units(r, p)] \in [Variants -> Nat]
    BY <1>1, <2>1, <2>2
  <2>4. taken' = [taken EXCEPT ![r] = [taken[r] EXCEPT ![p[2]] = @ + Units(r, p)]]
    BY <2>1 DEF Take
  <2>5. QED
    BY <2>1, <2>3, <2>4
<1>3. locked' \in [Requests -> SUBSET Variants] /\ todo' \in [Requests -> SUBSET (Variants \X Variants)]
  BY <1>1 DEF TypeOK, WorkOK, Take
<1>4. QED
  BY <1>2, <1>3 DEF TypeOK, WorkOK, RequestOK, Take

-----------------------------------------------------------------------------
(* The first state, before any request, is well typed. *)
LEMMA InitTypeOK == Init => TypeOK
<1> SUFFICES ASSUME Init PROVE TypeOK
  OBVIOUS
<1>1. /\ NoLines \in [Variants -> 0..MaxQty] /\ NoLines \in [Variants -> Nat]
      /\ InitialStock \in [Variants -> Int] /\ InitialBundles \subseteq Variants
      /\ Unflushed \subseteq Carts
  BY CheckoutAssumption DEF CheckoutAssumption, NoLines
<1>2. NoHold \in Hold
  BY CheckoutAssumption DEF CheckoutAssumption, NoHold, Hold
<1>3. NoOrder \in Order
  BY <1>1 DEF NoOrder, Order
<1>4. TablesOK
  BY <1>1, <1>2, <1>3 DEF Init, TablesOK
<1>5. CartingOK /\ AdminOK
  BY <1>1 DEF Init, CartingOK, AdminOK
<1>6. WorkOK /\ RequestOK
  BY <1>1 DEF Init, WorkOK, RequestOK, Stages
<1>7. QED
  BY <1>4, <1>5, <1>6 DEF TypeOK

(* What a group of variables that does not change keeps. *)
LEMMA UnchangedOK ==
  /\ TablesOK /\ UNCHANGED tables => TablesOK'
  /\ CartingOK /\ UNCHANGED carting => CartingOK'
  /\ WorkOK /\ UNCHANGED work => WorkOK'
  /\ AdminOK /\ UNCHANGED admin => AdminOK'
  /\ RequestOK /\ UNCHANGED request => RequestOK'
<1>1. TablesOK /\ UNCHANGED tables => TablesOK'
  BY DEF TablesOK, tables
<1>2. CartingOK /\ UNCHANGED carting => CartingOK'
  BY DEF CartingOK, carting
<1>3. WorkOK /\ UNCHANGED work => WorkOK'
  BY DEF WorkOK, work
<1>4. AdminOK /\ UNCHANGED admin => AdminOK'
  BY DEF AdminOK, admin
<1>5. RequestOK /\ UNCHANGED request => RequestOK'
  BY DEF RequestOK, request
<1>6. QED
  BY <1>1, <1>2, <1>3, <1>4, <1>5

(* The hold that a commit leaves behind is a hold. *)
LEMMA SettledHoldOK ==
  ASSUME TypeOK, NEW r \in Requests, NEW v \in Variants, cartOf[r] \in Carts
  PROVE  SettledHold(r, v) \in Hold
<1>1. hold[cartOf[r]][v] \in Hold
  BY DEF TypeOK, TablesOK
<1>2. NoHold \in Hold
  BY CheckoutAssumption DEF CheckoutAssumption, NoHold, Hold
<1>3. [hold[cartOf[r]][v] EXCEPT !.is = "confirmed"] \in Hold
  BY <1>1 DEF Hold
<1>4. QED
  BY <1>1, <1>2, <1>3 DEF SettledHold

-----------------------------------------------------------------------------
(* Type correctness, one lemma per kind of step. *)

(* The steps of a checkout before its commit. *)
LEMMA TypeOfCheckoutStep ==
  ASSUME TypeOK, NEW r \in Requests,
         LoadExisting(r) \/ LoadCart(r) \/ LockCart(r) \/ ConsumeStep(r)
  PROVE  TypeOK'
<1> USE DEF tables, carting, work, request, admin
<1>1. CASE LoadExisting(r)
  <2>1. RequestOK'
    BY <1>1 DEF LoadExisting, TypeOK, RequestOK, Stages
  <2>2. QED
    BY <1>1, <2>1, UnchangedOK DEF LoadExisting, TypeOK
<1>2. CASE LoadCart(r)
  <2>1. PICK c \in Carts, k \in {"checkout", "intent"}, ls \in Contents \cup {NoLines} :
          /\ cartOf' = [cartOf EXCEPT ![r] = c]
          /\ kind' = [kind EXCEPT ![r] = k]
          /\ lines' = [lines EXCEPT ![r] = ls]
    BY <1>2 DEF LoadCart
  <2>2. ls \in [Variants -> 0..MaxQty]
    BY CheckoutAssumption DEF CheckoutAssumption, NoLines
  <2>3. RequestOK'
    BY <1>2, <2>1, <2>2 DEF LoadCart, TypeOK, RequestOK, Stages
  <2>4. QED
    BY <1>2, <2>3, UnchangedOK DEF LoadCart, TypeOK
<1>3. CASE LockCart(r)
  <2>1. answer' = answer /\ UNCHANGED <<tables, carting, admin>>
    BY <1>3 DEF LockCart
  <2>2. CASE Conflict(r) \/ End(r)
    BY <2>1, <2>2, ConflictOK, EndOK, UnchangedOK DEF TypeOK
  <2>3. CASE ~(Conflict(r) \/ End(r))
    <3>1. /\ pc' = [pc EXCEPT ![r] = "consuming"]
          /\ asBundle' = [asBundle EXCEPT ![r] = bundles]
          /\ todo' = [todo EXCEPT ![r] = Steps(lines[r], bundles)]
          /\ \E code \in BOOLEAN : redeem' = [redeem EXCEPT ![r] = code]
          /\ UNCHANGED <<locked, taken, kind, cartOf, lines>>
      BY <1>3, <2>3 DEF LockCart
    <3>2. Steps(lines[r], bundles) \subseteq Variants \X Variants
      BY DEF Steps
    <3>3. WorkOK'
      BY <3>1, <3>2 DEF TypeOK, TablesOK, WorkOK
    <3>4. RequestOK'
      BY <2>1, <3>1 DEF TypeOK, RequestOK, Stages
    <3>5. QED
      BY <2>1, <3>3, <3>4, UnchangedOK DEF TypeOK
  <2>4. QED
    BY <2>2, <2>3
<1>4. CASE ConsumeStep(r)
  <2>1. answer' = answer /\ UNCHANGED <<tables, carting, admin>>
    BY <1>4 DEF ConsumeStep
  <2>2. PICK p \in todo[r] : Conflict(r) \/ Take(r, p)
    BY <1>4 DEF ConsumeStep
  <2>3. WorkOK' /\ RequestOK'
    BY <2>1, <2>2, ConflictOK, TakeOK
  <2>4. QED
    BY <2>1, <2>3, UnchangedOK DEF TypeOK
<1>5. QED
  BY <1>1, <1>2, <1>3, <1>4

(* The commit: stock, holds, order, counters and the cart row at once. *)
LEMMA TypeOfCommit ==
  ASSUME TypeOK, NEW r \in Requests, Commit(r)
  PROVE  TypeOK'
<1>1. /\ stock' \in [Variants -> Int] /\ lastNo' \in Nat /\ used' \in Nat
      /\ bundles' = bundles /\ toRestock' = toRestock
  BY DEF Commit, Left, TypeOK, TablesOK, WorkOK
<1>2. hold' \in [Carts -> [Variants -> Hold]]
  <2>1. hold \in [Carts -> [Variants -> Hold]]
    BY DEF TypeOK, TablesOK
  <2>2. hold' = [hold EXCEPT ![cartOf[r]] = [v \in Variants |-> SettledHold(r, v)]]
    BY DEF Commit
  <2>3. CASE cartOf[r] \in Carts
    <3>1. [v \in Variants |-> SettledHold(r, v)] \in [Variants -> Hold]
      BY <2>3, SettledHoldOK
    <3>2. QED
      BY <2>1, <2>2, <3>1
  <2>4. CASE cartOf[r] \notin Carts
    BY <2>1, <2>2, <2>4
  <2>5. QED
    BY <2>3, <2>4
<1>3. order' \in [Requests -> Order]
  <2>1. /\ order \in [Requests -> Order] /\ taken[r] \in [Variants -> Nat]
        /\ cartOf[r] \in Carts \cup {NoAnswer} /\ redeem[r] \in BOOLEAN /\ lastNo \in Nat
    BY DEF TypeOK, TablesOK, WorkOK, RequestOK, Stages
  <2>2. NewOrder(r) \in Order
    BY <2>1 DEF NewOrder, Order
  <2>3. QED
    BY <2>1, <2>2 DEF Commit
<1>4. CartingOK'
  BY DEF Commit, MarkCartConverted, TypeOK, CartingOK
<1>5. WorkOK'
  BY DropWorkOK DEF Commit
<1>6. RequestOK' /\ AdminOK'
  BY DEF Commit, TypeOK, RequestOK, AdminOK, admin, Stages
<1>7. QED
  BY <1>1, <1>2, <1>3, <1>4, <1>5, <1>6 DEF TypeOK, TablesOK

(* The ends without a commit: 409s, deadlock victims, crashes. *)
LEMMA TypeOfEnd ==
  ASSUME TypeOK, NEW r \in Requests,
         DiscountGone(r) \/ Resolve(r) \/ DeadlockVictim(r) \/ Crash(r)
  PROVE  TypeOK'
<1>1. UNCHANGED <<tables, carting, admin>>
  BY DEF DiscountGone, Resolve, DeadlockVictim, Crash
<1>2. WorkOK' /\ RequestOK'
  <2>1. CASE answer' = answer /\ (Conflict(r) \/ End(r))
    BY <2>1, ConflictOK, EndOK
  <2>2. CASE ~(answer' = answer /\ (Conflict(r) \/ End(r)))
    <3>1. /\ \E s \in Requests : answer' = [answer EXCEPT ![r] = s]
          /\ pc' = [pc EXCEPT ![r] = "done"]
          /\ lines' = [lines EXCEPT ![r] = NoLines]
          /\ UNCHANGED <<work, kind, cartOf>>
      BY <2>2 DEF DiscountGone, Resolve, DeadlockVictim, Crash
    <3>2. NoLines \in [Variants -> 0..MaxQty]
      BY CheckoutAssumption DEF CheckoutAssumption, NoLines
    <3>3. RequestOK'
      BY <3>1, <3>2 DEF TypeOK, RequestOK, Stages
    <3>4. QED
      BY <3>1, <3>3, UnchangedOK DEF TypeOK
  <2>3. QED
    BY <2>1, <2>2
<1>3. QED
  BY <1>1, <1>2, UnchangedOK DEF TypeOK

(* Payment, cancellation and the restock listener. *)
LEMMA TypeOfOrderStep ==
  ASSUME TypeOK, NEW r \in Requests,
         Pay(r) \/ Cancel(r) \/ RestockBegin(r) \/ RestockStep(r) \/ RestockCommit(r)
  PROVE  TypeOK'
<1> USE DEF carting, work, request, admin
<1>1. CASE Pay(r)
  <2>1. order' \in [Requests -> Order]
    <3>1. order[r] \in Order /\ order \in [Requests -> Order]
      BY DEF TypeOK, TablesOK
    <3>2. [order[r] EXCEPT !.status = "paid"] \in Order
      BY <3>1 DEF Order
    <3>3. order' = [order EXCEPT ![r] = [order[r] EXCEPT !.status = "paid"]]
      BY <1>1, <3>1 DEF Pay
    <3>4. QED
      BY <3>1, <3>2, <3>3
  <2>2. QED
    BY <1>1, <2>1, UnchangedOK DEF Pay, TypeOK, TablesOK
<1>2. CASE Cancel(r)
  <2>1. order' \in [Requests -> Order]
    <3>1. order[r] \in Order /\ order \in [Requests -> Order]
      BY DEF TypeOK, TablesOK
    <3>2. DueOnCancel(r) \in BOOLEAN
      BY DEF DueOnCancel
    <3>3. [order[r] EXCEPT !.status = "cancelled", !.due = DueOnCancel(r)] \in Order
      BY <3>1, <3>2 DEF Order
    <3>4. order' = [order EXCEPT ![r] = [order[r] EXCEPT !.status = "cancelled",
                                                        !.due = DueOnCancel(r)]]
      BY <1>2, <3>1 DEF Cancel
    <3>5. QED
      BY <3>1, <3>3, <3>4
  <2>2. toRestock' \subseteq Requests
    BY <1>2 DEF Cancel, TypeOK, TablesOK
  <2>3. QED
    BY <1>2, <2>1, <2>2, UnchangedOK DEF Cancel, TypeOK, TablesOK
<1>3. CASE RestockBegin(r)
  <2>1. Steps(lines[r], bundles) \subseteq Variants \X Variants
    BY DEF Steps
  <2>2. TablesOK' /\ WorkOK' /\ RequestOK'
    BY <1>3, <2>1 DEF RestockBegin, TypeOK, TablesOK, WorkOK, RequestOK, Stages
  <2>3. QED
    BY <1>3, <2>2, UnchangedOK DEF RestockBegin, TypeOK
<1>4. CASE RestockStep(r)
  <2>1. PICK p \in todo[r] : Take(r, p)
    BY <1>4 DEF RestockStep
  <2>2. WorkOK' /\ RequestOK'
    BY <1>4, <2>1, TakeOK DEF RestockStep
  <2>3. QED
    BY <1>4, <2>2, UnchangedOK DEF RestockStep, TypeOK
<1>5. CASE RestockCommit(r)
  <2>1. WorkOK' /\ RequestOK'
    BY <1>5, EndOK DEF RestockCommit
  <2>2. stock' \in [Variants -> Int]
    BY <1>5 DEF RestockCommit, TypeOK, TablesOK, WorkOK
  <2>3. order' \in [Requests -> Order]
    <3>1. order[r] \in Order /\ order \in [Requests -> Order]
      BY DEF TypeOK, TablesOK
    <3>2. [order[r] EXCEPT !.credited = TRUE] \in Order
      BY <3>1 DEF Order
    <3>3. order' = [order EXCEPT ![r] = [order[r] EXCEPT !.credited = TRUE]]
      BY <1>5, <3>1 DEF RestockCommit
    <3>4. QED
      BY <3>1, <3>2, <3>3
  <2>4. QED
    BY <1>5, <2>1, <2>2, <2>3, UnchangedOK DEF RestockCommit, TypeOK, TablesOK
<1>6. QED
  BY <1>1, <1>2, <1>3, <1>4, <1>5

(* reserve, release, expiry and the sweeper. *)
LEMMA TypeOfHoldStep ==
  ASSUME TypeOK, NEW c \in Carts, NEW v \in Variants,
         \/ \E q \in HoldQty[v], clamp \in BOOLEAN : Reserve(c, v, q, clamp)
         \/ Release(c, v) \/ Expire(c, v) \/ Sweep
  PROVE  TypeOK'
<1> USE DEF carting, work, request, admin
<1>1. UNCHANGED <<stock, bundles, order, lastNo, used, toRestock, carting, work, request, admin>>
  BY DEF Reserve, Release, Expire, Sweep
<1>2. hold \in [Carts -> [Variants -> Hold]]
  BY DEF TypeOK, TablesOK
<1>3. NoHold \in Hold
  BY CheckoutAssumption DEF CheckoutAssumption, NoHold, Hold
<1>4. hold' \in [Carts -> [Variants -> Hold]]
  <2>1. ASSUME NEW q \in HoldQty[v], NEW clamp \in BOOLEAN, Reserve(c, v, q, clamp)
        PROVE  hold' \in [Carts -> [Variants -> Hold]]
    <3>1. Granted(c, v, q) \in 0..MaxQty
      BY GrantedQty
    <3>2. [qty |-> Granted(c, v, q), is |-> "live"] \in Hold
      BY <3>1 DEF Hold
    <3>3. QED
      BY <1>2, <1>3, <2>1, <3>2 DEF Reserve
  <2>2. CASE Release(c, v)
    BY <1>2, <1>3, <2>2 DEF Release
  <2>3. CASE Expire(c, v)
    <3>1. [hold[c][v] EXCEPT !.is = "expired"] \in Hold
      BY <1>2 DEF Hold
    <3>2. QED
      BY <1>2, <2>3, <3>1 DEF Expire
  <2>4. CASE Sweep
    BY <1>2, <1>3, <2>4 DEF Sweep
  <2>5. QED
    BY <2>1, <2>2, <2>3, <2>4
<1>5. QED
  BY <1>1, <1>4, UnchangedOK DEF TypeOK, TablesOK

(* Cart edits, abandon and the flush. *)
LEMMA TypeOfCartStep ==
  ASSUME TypeOK, NEW c \in Carts, EditCart(c) \/ Abandon(c) \/ Flush(c)
  PROVE  TypeOK'
<1> USE DEF tables, work, request, admin
<1>1. NoHold \in Hold
  BY CheckoutAssumption DEF CheckoutAssumption, NoHold, Hold
<1>2. CASE EditCart(c)
  BY <1>2, UnchangedOK DEF EditCart, TypeOK, CartingOK, AdminOK
<1>3. CASE Abandon(c)
  <2>1. TablesOK'
    BY <1>1, <1>3 DEF Abandon, TypeOK, TablesOK
  <2>2. CartingOK' /\ AdminOK'
    BY <1>3 DEF Abandon, TypeOK, CartingOK, AdminOK
  <2>3. QED
    BY <1>3, <2>1, <2>2, UnchangedOK DEF Abandon, TypeOK
<1>4. CASE Flush(c)
  <2>1. CartingOK'
    BY <1>4 DEF Flush, TypeOK, CartingOK
  <2>2. QED
    BY <1>4, <2>1, UnchangedOK DEF Flush, TypeOK
<1>5. QED
  BY <1>2, <1>3, <1>4

(* The catalogue's writes. *)
LEMMA TypeOfAdminStep ==
  ASSUME TypeOK, NEW v \in Variants,
         ToggleBundle(v) \/ \E n \in StockCounts : SetStock(v, n)
  PROVE  TypeOK'
<1>1. StockCounts \subseteq Nat
  BY CheckoutAssumption DEF CheckoutAssumption
<1>2. UNCHANGED <<hold, order, lastNo, used, toRestock, carting, work, request, edits>>
  BY DEF ToggleBundle, SetStock
<1>3. /\ stock' \in [Variants -> Int] /\ bundles' \subseteq Variants
      /\ counts' \in Nat /\ toggles' \in Nat
  BY <1>1 DEF ToggleBundle, SetStock, TypeOK, TablesOK, AdminOK
<1>4. QED
  BY <1>2, <1>3, UnchangedOK DEF TypeOK, TablesOK, AdminOK

(* Every step of the system keeps the types. *)
LEMMA TypeNext == TypeOK /\ [Next]_vars => TypeOK'
<1> SUFFICES ASSUME TypeOK, [Next]_vars PROVE TypeOK'
  OBVIOUS
<1>1. ASSUME NEW r \in Requests,
             \/ LoadExisting(r) \/ LoadCart(r) \/ Serve(r) \/ Crash(r)
             \/ Pay(r) \/ Cancel(r) \/ RestockBegin(r)
      PROVE  TypeOK'
  BY <1>1, TypeOfCheckoutStep, TypeOfCommit, TypeOfEnd, TypeOfOrderStep DEF Serve
<1>2. ASSUME NEW c \in Carts, EditCart(c) \/ Abandon(c) \/ Flush(c) PROVE TypeOK'
  BY <1>2, TypeOfCartStep
<1>3. ASSUME NEW c \in Carts, NEW v \in Variants,
             \/ \E q \in HoldQty[v], clamp \in BOOLEAN : Reserve(c, v, q, clamp)
             \/ Release(c, v) \/ Expire(c, v)
      PROVE  TypeOK'
  BY <1>3, TypeOfHoldStep
<1>4. CASE Sweep
  <2>1. \E c \in Carts, v \in Variants : TRUE
    BY <1>4 DEF Sweep
  <2>2. QED
    BY <1>4, <2>1, TypeOfHoldStep
<1>5. ASSUME NEW v \in Variants, ToggleBundle(v) \/ \E n \in StockCounts : SetStock(v, n)
      PROVE  TypeOK'
  BY <1>5, TypeOfAdminStep
<1>6. CASE UNCHANGED vars
  BY <1>6, UnchangedOK DEF vars, TypeOK
<1>7. QED
  BY <1>1, <1>2, <1>3, <1>4, <1>5, <1>6 DEF Next

(* The rows, blobs, transactions and requests always have the shape the     *)
(* code gives them.                                                         *)
THEOREM TypeCorrect == Spec => []TypeOK
<1>1. QED
  BY InitTypeOK, TypeNext, PTL DEF Spec

-----------------------------------------------------------------------------
(* The locks protect the decrements. *)

IInv == TypeOK /\ LockInv /\ NoOversell

(* At first nothing is locked or taken. *)
LEMMA InitIInv == Init => IInv
<1> SUFFICES ASSUME Init PROVE IInv
  OBVIOUS
<1>1. TypeOK
  BY InitTypeOK
<1>2. LockExclusive /\ TakenIsLocked /\ OnlyWorkLocks /\ TakenIsCovered
  BY DEF Init, LockExclusive, TakenIsLocked, OnlyWorkLocks, TakenIsCovered, NoLines
<1>3. NoOversell
  BY CheckoutAssumption DEF CheckoutAssumption, Init, NoOversell
<1>4. QED
  BY <1>1, <1>2, <1>3 DEF IInv, LockInv

(* Steps that move neither stock nor locks, and start no checkout. *)
LEMMA NothingMoves ==
  ASSUME LockInv, NoOversell, UNCHANGED <<stock, locked, taken>>,
         \A r \in Requests :
           /\ pc'[r] = "consuming" => pc[r] = "consuming"
           /\ pc[r] \in {"consuming", "restocking"} => pc'[r] = pc[r]
  PROVE  LockInv' /\ NoOversell'
BY DEF LockInv, LockExclusive, TakenIsLocked, OnlyWorkLocks, TakenIsCovered, NoOversell

(* A transaction that ends without effect takes nothing with it. *)
LEMMA DroppedWork ==
  ASSUME TypeOK, LockInv, NoOversell, NEW r \in Requests, DropWork(r), stock' = stock,
         pc' = [pc EXCEPT ![r] = "done"] \/ pc' = [pc EXCEPT ![r] = "conflict"]
  PROVE  LockInv' /\ NoOversell'
<1>1. /\ locked' = [locked EXCEPT ![r] = {}] /\ locked \in [Requests -> SUBSET Variants]
      /\ taken' = [taken EXCEPT ![r] = NoLines] /\ taken \in [Requests -> [Variants -> Nat]]
      /\ pc \in [Requests -> Stages]
  BY DEF DropWork, TypeOK, WorkOK, RequestOK
<1>2. LockExclusive'
  BY <1>1 DEF LockInv, LockExclusive
<1>3. TakenIsLocked'
  BY <1>1 DEF LockInv, TakenIsLocked, NoLines
<1>4. OnlyWorkLocks'
  BY <1>1 DEF LockInv, OnlyWorkLocks
<1>5. TakenIsCovered'
  BY <1>1 DEF LockInv, TakenIsCovered, NoOversell, NoLines
<1>6. QED
  BY <1>2, <1>3, <1>4, <1>5 DEF LockInv, NoOversell

(* Taking a step keeps the locks exclusive; a checkout's step is covered.   *)
LEMMA TakenStep ==
  ASSUME TypeOK, LockInv, NoOversell, NEW r \in Requests, NEW p \in todo[r],
         Take(r, p), ~LockedByOther(r, p[2]), stock' = stock,
         pc[r] \in {"consuming", "restocking"}, pc[r] = "consuming" => ~Short(r, p)
  PROVE  LockInv' /\ NoOversell'
<1>1. /\ p[1] \in Variants /\ p[2] \in Variants /\ Units(r, p) \in Nat
      /\ taken \in [Requests -> [Variants -> Nat]] /\ locked \in [Requests -> SUBSET Variants]
      /\ stock \in [Variants -> Int]
  BY UnitsNat DEF TypeOK, WorkOK, TablesOK
<1>2. /\ locked' = [locked EXCEPT ![r] = @ \cup {p[2]}]
      /\ taken' = [taken EXCEPT ![r][p[2]] = @ + Units(r, p)] /\ pc' = pc
  BY DEF Take
<1>3. LockExclusive'
  BY <1>1, <1>2 DEF LockInv, LockExclusive, LockedByOther
<1>4. TakenIsLocked'
  BY <1>1, <1>2 DEF LockInv, TakenIsLocked
<1>5. ASSUME pc[r] = "consuming", p[2] \notin Backorder
      PROVE  taken[r][p[2]] + Units(r, p) <= stock[p[2]]
  <2>1. Units(r, p) <= Available(r, p) \/ Available(r, p) \notin Int
    BY <1>1, <1>5 DEF Short
  <2>2. \A C \in SUBSET Carts : HeldBy(C, p[2]) \in Nat
    BY HeldByNat
  <2>3. Left(r, p[2]) = stock[p[2]] - taken[r][p[2]] /\ stock[p[2]] \in Int /\ taken[r][p[2]] \in Nat
    BY <1>1 DEF Left
  <2>4. Available(r, p) \in Int /\ Available(r, p) <= Left(r, p[2])
    <3>1. Carts \ {cartOf[r]} \in SUBSET Carts /\ Carts \in SUBSET Carts
      OBVIOUS
    <3>2. /\ HeldBy(Carts \ {cartOf[r]}, p[2]) \in Nat
          /\ HeldBy(Carts, p[2]) \in Nat
      BY <2>2, <3>1
    <3>3. QED
      BY <2>3, <3>2 DEF Available
  <2>5. QED
    BY <1>1, <2>1, <2>3, <2>4
<1>6. TakenIsCovered'
  <2> SUFFICES ASSUME NEW s \in Requests, NEW v \in Variants \ Backorder, pc'[s] = "consuming"
               PROVE  taken'[s][v] <= stock'[v]
    BY DEF TakenIsCovered
  <2>1. CASE s = r /\ v = p[2]
    BY <1>1, <1>2, <1>5, <2>1
  <2>2. CASE ~(s = r /\ v = p[2])
    <3>1. taken'[s][v] = taken[s][v]
      BY <1>1, <1>2, <2>2
    <3>2. QED
      BY <1>2, <3>1 DEF LockInv, TakenIsCovered
  <2>3. QED
    BY <2>1, <2>2
<1>7. OnlyWorkLocks'
  BY <1>1, <1>2 DEF LockInv, OnlyWorkLocks
<1>8. QED
  BY <1>3, <1>4, <1>6, <1>7 DEF LockInv, NoOversell

(* A commit moves what was taken out of the stock.  Another transaction has *)
(* taken nothing of a variant this one has locked.                          *)
LEMMA CommittedWork ==
  ASSUME TypeOK, LockInv, NoOversell, NEW r \in Requests, Commit(r)
  PROVE  LockInv' /\ NoOversell'
<1>1. /\ taken \in [Requests -> [Variants -> Nat]] /\ locked \in [Requests -> SUBSET Variants]
      /\ stock \in [Variants -> Int] /\ pc \in [Requests -> Stages]
  BY DEF TypeOK, WorkOK, TablesOK, RequestOK
<1>2. /\ locked' = [locked EXCEPT ![r] = {}] /\ taken' = [taken EXCEPT ![r] = NoLines]
      /\ pc[r] = "consuming" /\ pc' = [pc EXCEPT ![r] = "done"]
      /\ stock' = [v \in Variants |-> stock[v] - taken[r][v]]
  BY DEF Commit, DropWork, Left
<1>3. LockExclusive'
  BY <1>1, <1>2 DEF LockInv, LockExclusive
<1>4. TakenIsLocked' /\ OnlyWorkLocks'
  BY <1>1, <1>2 DEF LockInv, TakenIsLocked, OnlyWorkLocks, NoLines
<1>5. NoOversell'
  BY <1>1, <1>2 DEF LockInv, TakenIsCovered, NoOversell
<1>6. TakenIsCovered'
  <2> SUFFICES ASSUME NEW s \in Requests, NEW v \in Variants \ Backorder, pc'[s] = "consuming"
               PROVE  taken'[s][v] <= stock'[v]
    BY DEF TakenIsCovered
  <2>1. s # r /\ pc[s] = "consuming" /\ taken'[s][v] = taken[s][v]
    BY <1>1, <1>2
  <2>2. CASE v \in locked[r]
    <3>1. taken[s][v] = 0
      BY <2>1, <2>2 DEF LockInv, LockExclusive, TakenIsLocked
    <3>2. QED
      BY <1>5, <2>1, <3>1 DEF NoOversell
  <2>3. CASE v \notin locked[r]
    <3>1. stock'[v] = stock[v]
      BY <1>1, <1>2, <2>3 DEF LockInv, TakenIsLocked
    <3>2. QED
      BY <2>1, <3>1 DEF LockInv, TakenIsCovered
  <2>4. QED
    BY <2>2, <2>3
<1>7. QED
  BY <1>3, <1>4, <1>5, <1>6 DEF LockInv

(* A restock only adds to the stock, under the locks it took. *)
LEMMA Restocked ==
  ASSUME TypeOK, LockInv, NoOversell, NEW r \in Requests, RestockCommit(r)
  PROVE  LockInv' /\ NoOversell'
<1>1. /\ taken \in [Requests -> [Variants -> Nat]] /\ locked \in [Requests -> SUBSET Variants]
      /\ stock \in [Variants -> Int] /\ pc \in [Requests -> Stages]
  BY DEF TypeOK, WorkOK, TablesOK, RequestOK
<1>2. /\ locked' = [locked EXCEPT ![r] = {}] /\ taken' = [taken EXCEPT ![r] = NoLines]
      /\ pc' = [pc EXCEPT ![r] = "done"]
      /\ stock' = [v \in Variants |-> stock[v] + taken[r][v]]
  BY DEF RestockCommit, End, DropWork
<1>3. \A v \in Variants : stock'[v] >= stock[v]
  BY <1>1, <1>2
<1>4. LockExclusive' /\ TakenIsLocked' /\ OnlyWorkLocks'
  BY <1>1, <1>2 DEF LockInv, LockExclusive, TakenIsLocked, OnlyWorkLocks, NoLines
<1>5. NoOversell'
  BY <1>1, <1>2, <1>3 DEF NoOversell
<1>6. TakenIsCovered'
  <2> SUFFICES ASSUME NEW s \in Requests, NEW v \in Variants \ Backorder, pc'[s] = "consuming"
               PROVE  taken'[s][v] <= stock'[v]
    BY DEF TakenIsCovered
  <2>1. s # r /\ pc[s] = "consuming" /\ taken'[s][v] = taken[s][v]
    BY <1>1, <1>2
  <2>2. taken[s][v] <= stock[v] /\ stock[v] <= stock'[v] /\ taken[s][v] \in Int
        /\ stock[v] \in Int /\ stock'[v] \in Int
    BY <1>1, <1>2, <1>3, <2>1 DEF LockInv, TakenIsCovered
  <2>3. QED
    BY <2>1, <2>2
<1>7. QED
  BY <1>4, <1>5, <1>6 DEF LockInv

(* An admin's count waits for the row lock: nothing of v is in flight.      *)
LEMMA CountedStock ==
  ASSUME TypeOK, LockInv, NoOversell, NEW v \in Variants, NEW n \in StockCounts, SetStock(v, n)
  PROVE  LockInv' /\ NoOversell'
<1>1. stock' = [stock EXCEPT ![v] = n] /\ n \in Nat /\ stock \in [Variants -> Int]
  BY CheckoutAssumption DEF CheckoutAssumption, SetStock, TypeOK, TablesOK
<1>2. UNCHANGED <<locked, taken, pc>> /\ \A s \in Requests : taken[s][v] = 0
  BY DEF SetStock, VariantLocked, LockInv, TakenIsLocked, work, request
<1>3. QED
  BY <1>1, <1>2
     DEF LockInv, LockExclusive, TakenIsLocked, OnlyWorkLocks, TakenIsCovered, NoOversell

(* Every step of the system keeps the locking discipline and the stock. *)
LEMMA LockNext == IInv /\ [Next]_vars => LockInv' /\ NoOversell'
<1> SUFFICES ASSUME TypeOK, LockInv, NoOversell, [Next]_vars PROVE LockInv' /\ NoOversell'
  BY DEF IInv
<1> USE DEF tables, carting, work, request, admin
<1>1. pc \in [Requests -> Stages]
  BY DEF TypeOK, RequestOK, Stages
<1>2. ASSUME NEW r \in Requests, LoadExisting(r) \/ LoadCart(r)
      PROVE  LockInv' /\ NoOversell'
  BY <1>1, <1>2, NothingMoves DEF LoadExisting, LoadCart
<1>3. ASSUME NEW r \in Requests, LockCart(r)
      PROVE  LockInv' /\ NoOversell'
  <2>1. CASE Conflict(r) \/ End(r)
    BY <1>1, <1>3, <2>1, DroppedWork DEF LockCart, Conflict, End
  <2>2. CASE ~(Conflict(r) \/ End(r))
    <3>1. UNCHANGED <<stock, locked, taken>> /\ pc' = [pc EXCEPT ![r] = "consuming"] /\ pc[r] = "loaded"
      BY <1>3, <2>2 DEF LockCart
    <3>2. \A v \in Variants : taken[r][v] = 0
      BY <3>1 DEF LockInv, OnlyWorkLocks, TakenIsLocked
    <3>3. QED
      BY <1>1, <3>1, <3>2
         DEF LockInv, LockExclusive, TakenIsLocked, OnlyWorkLocks, TakenIsCovered, NoOversell
  <2>3. QED
    BY <2>1, <2>2
<1>4. ASSUME NEW r \in Requests, ConsumeStep(r)
      PROVE  LockInv' /\ NoOversell'
  <2>1. PICK p \in todo[r] :
          ~LockedByOther(r, p[2]) /\ IF Short(r, p) THEN Conflict(r) ELSE Take(r, p)
    BY <1>4 DEF ConsumeStep
  <2>2. stock' = stock /\ pc[r] = "consuming"
    BY <1>4 DEF ConsumeStep
  <2>3. CASE Short(r, p)
    <3>1. Conflict(r)
      BY <2>1, <2>3
    <3>2. DropWork(r) /\ (pc' = [pc EXCEPT ![r] = "done"] \/ pc' = [pc EXCEPT ![r] = "conflict"])
      BY <3>1 DEF Conflict, End
    <3>3. QED
      BY <2>2, <3>2, DroppedWork
  <2>4. CASE ~Short(r, p)
    BY <2>1, <2>2, <2>4, TakenStep
  <2>5. QED
    BY <2>3, <2>4
<1>5. ASSUME NEW r \in Requests, Commit(r)
      PROVE  LockInv' /\ NoOversell'
  BY <1>5, CommittedWork
<1>6. ASSUME NEW r \in Requests,
             DiscountGone(r) \/ Resolve(r) \/ DeadlockVictim(r) \/ Crash(r)
      PROVE  LockInv' /\ NoOversell'
  <2>1. CASE Conflict(r) \/ End(r)
    <3>1. DropWork(r) /\ (pc' = [pc EXCEPT ![r] = "done"] \/ pc' = [pc EXCEPT ![r] = "conflict"])
      BY <2>1 DEF Conflict, End
    <3>2. stock' = stock
      BY <1>6 DEF DiscountGone, Resolve, DeadlockVictim, Crash
    <3>3. QED
      BY <3>1, <3>2, DroppedWork
  <2>2. CASE ~(Conflict(r) \/ End(r))
    <3>1. pc[r] = "conflict" /\ pc' = [pc EXCEPT ![r] = "done"] /\ UNCHANGED <<work, tables>>
      BY <1>6, <2>2 DEF DiscountGone, Resolve, DeadlockVictim, Crash
    <3>2. QED
      BY <1>1, <3>1, NothingMoves
  <2>3. QED
    BY <2>1, <2>2
<1>7. ASSUME NEW r \in Requests, Pay(r) \/ Cancel(r) \/ RestockBegin(r)
      PROVE  LockInv' /\ NoOversell'
  BY <1>1, <1>7, NothingMoves DEF Pay, Cancel, RestockBegin
<1>8. ASSUME NEW r \in Requests, RestockStep(r)
      PROVE  LockInv' /\ NoOversell'
  <2>1. PICK p \in todo[r] : ~LockedByOther(r, p[2]) /\ Take(r, p)
    BY <1>8 DEF RestockStep
  <2>2. stock' = stock /\ pc[r] = "restocking"
    BY <1>8 DEF RestockStep
  <2>3. QED
    BY <2>1, <2>2, TakenStep
<1>9. ASSUME NEW r \in Requests, RestockCommit(r)
      PROVE  LockInv' /\ NoOversell'
  BY <1>9, Restocked
<1>10. ASSUME NEW c \in Carts, EditCart(c) \/ Abandon(c) \/ Flush(c)
       PROVE  LockInv' /\ NoOversell'
  BY <1>1, <1>10, NothingMoves DEF EditCart, Abandon, Flush
<1>11. ASSUME NEW c \in Carts, NEW v \in Variants,
              \/ \E q \in HoldQty[v], clamp \in BOOLEAN : Reserve(c, v, q, clamp)
              \/ Release(c, v) \/ Expire(c, v)
       PROVE  LockInv' /\ NoOversell'
  BY <1>1, <1>11, NothingMoves DEF Reserve, Release, Expire
<1>12. CASE Sweep
  BY <1>1, <1>12, NothingMoves DEF Sweep
<1>13. ASSUME NEW v \in Variants, ToggleBundle(v)
       PROVE  LockInv' /\ NoOversell'
  BY <1>1, <1>13, NothingMoves DEF ToggleBundle
<1>14. ASSUME NEW v \in Variants, NEW n \in StockCounts, SetStock(v, n)
       PROVE  LockInv' /\ NoOversell'
  BY <1>14, CountedStock
<1>15. CASE UNCHANGED vars
  BY <1>1, <1>15, NothingMoves DEF vars
<1>16. QED
  BY <1>2, <1>3, <1>4, <1>5, <1>6, <1>7, <1>8, <1>9, <1>10, <1>11, <1>12, <1>13, <1>14, <1>15
     DEF Next, Serve

(* The inductive invariant: types, locks, and with them no oversell.        *)
THEOREM LocksProtectStock == Spec => []IInv
<1>1. IInv /\ [Next]_vars => IInv'
  BY TypeNext, LockNext DEF IInv
<1>2. QED
  BY <1>1, InitIInv, PTL DEF Spec

(* The stock of a variant without backorder is never negative, for any      *)
(* number of carts, variants, bundles and interleaved checkouts.            *)
THEOREM NeverOversold == Spec => []NoOversell
<1>1. IInv => NoOversell
  BY DEF IInv
<1>2. QED
  BY <1>1, LocksProtectStock, PTL

-----------------------------------------------------------------------------
(* Orders, cart rows and answers.  The orders of a cart are bounded by its  *)
(* row: a checkout works on an active row that no other checkout works on   *)
(* (CartHeld, CartExclusive), leaves it converted, and only a flush makes   *)
(* it active again.                                                         *)

Starting == {"idle", "loaded", "consuming", "conflict"}

Unordered ==
  \A r \in Requests :
    /\ pc[r] \in Starting => order[r].status = "none" /\ answer[r] = NoAnswer
    /\ order[r].status = "none" => order[r] = NoOrder

Addressed ==
  \A r \in Requests : pc[r] \in {"loaded", "consuming", "conflict"} => cartOf[r] \in Carts

CartHeld ==
  \A r \in Requests : pc[r] = "consuming" => cartRow[cartOf[r]] = "active"

CartExclusive ==
  \A r, s \in Requests :
    pc[r] = "consuming" /\ pc[s] = "consuming" /\ cartOf[r] = cartOf[s] => r = s

AbandonedForGood ==
  \A c \in Carts : cartRow[c] = "abandoned" => blob[c] = "abandoned"

(* An answer is an order of the cart that was asked about. *)
Answered ==
  \A r \in Requests : answer[r] # NoAnswer => answer[r] \in OrdersOf(cartOf[r])

Restockable ==
  \A r \in Requests : r \in toRestock \/ pc[r] = "restocking" => order[r].status = "cancelled"

(* What a request has done so far, and what is true of the carts. *)
RequestsInv == Unordered /\ Addressed /\ Answered /\ Restockable
CartsInv    == CartHeld /\ CartExclusive /\ AbandonedForGood

(* Orders are counted: there are finitely many at any time. *)
CountInv == IsFiniteSet(Placed) /\ OrdersMatchConversions /\ RedemptionsWithinLimit

StoryInv == RequestsInv /\ CartsInv /\ CountInv

(* Before the first request there is no order to count. *)
LEMMA InitStory == Init => StoryInv
<1> SUFFICES ASSUME Init PROVE StoryInv
  OBVIOUS
<1>1. Placed = {} /\ (\A c \in Carts : OrdersOf(c) = {}) /\ {r \in Placed : order[r].redeemed} = {}
  BY DEF Init, Placed, OrdersOf, NoOrder
<1>2. RequestsInv
  BY DEF Init, RequestsInv, Unordered, Addressed, Answered, Restockable, NoOrder, Starting
<1>3. CartsInv
  BY DEF Init, CartsInv, CartHeld, CartExclusive, AbandonedForGood
<1>4. CountInv
  <2>1. IsFiniteSet(Placed) /\ Cardinality({}) = 0
    BY <1>1, FS_EmptySet
  <2>2. OrdersMatchConversions
    <3>1. \A c \in Carts : Cardinality(OrdersOf(c)) = 0 /\ cartRow[c] = "active" /\ reopened[c] = 0
      BY <1>1, <2>1 DEF Init
    <3>2. QED
      BY <3>1 DEF OrdersMatchConversions
  <2>3. RedemptionsWithinLimit
    BY <1>1, <2>1, CheckoutAssumption DEF CheckoutAssumption, Init, RedemptionsWithinLimit
  <2>4. QED
    BY <2>1, <2>2, <2>3 DEF CountInv
<1>5. QED
  BY <1>2, <1>3, <1>4 DEF StoryInv

(* A step that leaves the orders' carts and codes alone counts the same. *)
LEMMA SameCounts ==
  ASSUME CountInv, UNCHANGED <<used, cartRow, reopened>>,
         \A r \in Requests :
           /\ order'[r].status = "none" <=> order[r].status = "none"
           /\ order'[r].cart = order[r].cart /\ order'[r].redeemed = order[r].redeemed
  PROVE  CountInv' /\ Placed' = Placed /\ \A c : OrdersOf(c)' = OrdersOf(c)
<1>1. Placed' = Placed
  BY DEF Placed
<1>2. \A c : OrdersOf(c)' = OrdersOf(c)
  BY <1>1 DEF OrdersOf, Placed
<1>3. {r \in Placed' : order'[r].redeemed} = {r \in Placed : order[r].redeemed}
  BY <1>1 DEF Placed
<1>4. OrdersMatchConversions'
  BY <1>2 DEF CountInv, OrdersMatchConversions
<1>5. RedemptionsWithinLimit'
  BY <1>3 DEF CountInv, RedemptionsWithinLimit
<1>6. QED
  BY <1>1, <1>2, <1>4, <1>5 DEF CountInv

(* A step that moves neither orders nor cart rows, starts no checkout and   *)
(* keeps the cart of every request that was answered.                       *)
LEMMA NoOrderMoves ==
  ASSUME StoryInv, UNCHANGED <<order, used, answer, cartRow, blob, reopened>>,
         \A r \in Requests :
           /\ pc'[r] \in Starting => pc[r] \in Starting
           /\ pc'[r] \in {"loaded", "consuming", "conflict"} => cartOf'[r] \in Carts
           /\ pc'[r] = "consuming" => pc[r] = "consuming" /\ cartOf'[r] = cartOf[r]
           /\ answer[r] # NoAnswer => cartOf'[r] = cartOf[r]
           /\ r \in toRestock' => r \in toRestock
           /\ pc'[r] = "restocking" => r \in toRestock \/ pc[r] = "restocking"
  PROVE  StoryInv'
<1>1. CountInv' /\ \A c : OrdersOf(c)' = OrdersOf(c)
  BY SameCounts DEF StoryInv
<1>2. Answered'
  BY <1>1 DEF StoryInv, RequestsInv, Answered
<1>3. Unordered' /\ Addressed' /\ Restockable'
  BY DEF StoryInv, RequestsInv, Unordered, Addressed, Restockable, NoOrder, NoLines
<1>4. CartsInv'
  BY DEF StoryInv, CartsInv, CartHeld, CartExclusive, AbandonedForGood
<1>5. QED
  BY <1>1, <1>2, <1>3, <1>4 DEF StoryInv, RequestsInv

(* A request that ends, or runs into a 409, moves no order. *)
LEMMA EndMovesNoOrder ==
  ASSUME TypeOK, StoryInv, NEW r \in Requests, pc[r] # "idle", Conflict(r) \/ End(r),
         pc[r] \in {"loaded", "consuming"} \/ End(r),
         UNCHANGED <<order, used, toRestock, answer, cartRow, blob, reopened>>
  PROVE  StoryInv'
<1>1. /\ pc' = [pc EXCEPT ![r] = "done"] \/ (pc' = [pc EXCEPT ![r] = "conflict"] /\ pc[r] \in {"loaded", "consuming"})
      /\ cartOf' = cartOf \/ (answer[r] = NoAnswer /\ cartOf' = [cartOf EXCEPT ![r] = NoAnswer]
                                 /\ pc' = [pc EXCEPT ![r] = "done"])
  BY DEF Conflict, End
<1>2. pc \in [Requests -> Stages] /\ cartOf \in [Requests -> Carts \cup {NoAnswer}]
  BY DEF TypeOK, RequestOK
<1>3. Addressed
  BY DEF StoryInv, RequestsInv
<1>4. QED
  BY <1>1, <1>2, <1>3, NoOrderMoves DEF Addressed, Starting

(* Payment, cancellation and a restock's commit leave cart and code of the  *)
(* order as they are.                                                       *)
LEMMA StoryOfOrderStep ==
  ASSUME TypeOK, StoryInv, NEW r \in Requests, Pay(r) \/ Cancel(r) \/ RestockCommit(r)
  PROVE  StoryInv'
<1> USE DEF carting, request
<1>1. /\ order \in [Requests -> Order] /\ pc \in [Requests -> Stages]
      /\ cartOf \in [Requests -> Carts \cup {NoAnswer}]
  BY DEF TypeOK, TablesOK, RequestOK
<1>2. order[r].status # "none" /\ pc[r] \notin Starting
  BY DEF StoryInv, RequestsInv, Unordered, Restockable, Pay, Cancel, RestockCommit
<1>3. /\ UNCHANGED <<used, answer, cartRow, blob, reopened>>
      /\ \A s \in Requests \ {r} : order'[s] = order[s] /\ pc'[s] = pc[s] /\ cartOf'[s] = cartOf[s]
      /\ pc'[r] = pc[r] \/ pc'[r] = "done"
      /\ cartOf'[r] = cartOf[r] \/ answer[r] = NoAnswer
      /\ order'[r].status = order[r].status \/ (order'[r].status \in {"paid", "cancelled"} /\ pc'[r] = pc[r])
      /\ order'[r].cart = order[r].cart /\ order'[r].redeemed = order[r].redeemed
  BY <1>1 DEF Pay, Cancel, RestockCommit, End, Order
<1>4. CountInv' /\ \A c : OrdersOf(c)' = OrdersOf(c)
  <2>1. \A s \in Requests :
           /\ order'[s].status = "none" <=> order[s].status = "none"
           /\ order'[s].cart = order[s].cart /\ order'[s].redeemed = order[s].redeemed
    BY <1>2, <1>3
  <2>2. QED
    BY <1>3, <2>1, SameCounts DEF StoryInv
<1>5. Unordered' /\ Addressed'
  BY <1>2, <1>3 DEF StoryInv, RequestsInv, Unordered, Addressed, Starting, NoOrder, NoLines
<1>6. Answered'
  BY <1>3, <1>4 DEF StoryInv, RequestsInv, Answered
<1>7. Restockable'
  <2>1. CASE Pay(r)
    BY <1>1, <2>1 DEF Pay, StoryInv, RequestsInv, Restockable
  <2>2. CASE Cancel(r)
    <3>1. order'[r].status = "cancelled"
      BY <1>1, <2>2 DEF Cancel, Order
    <3>2. \A s \in Requests \ {r} : s \in toRestock' => s \in toRestock
      BY <2>2 DEF Cancel
    <3>3. QED
      BY <1>3, <2>2, <3>1, <3>2 DEF Cancel, StoryInv, RequestsInv, Restockable
  <2>3. CASE RestockCommit(r)
    <3>1. order'[r].status = order[r].status /\ toRestock' = toRestock
      BY <1>1, <2>3 DEF RestockCommit, Order
    <3>2. QED
      BY <1>3, <2>3, <3>1 DEF RestockCommit, StoryInv, RequestsInv, Restockable
  <2>4. QED
    BY <2>1, <2>2, <2>3
<1>8. CartsInv'
  <2>1. \A s \in Requests : pc'[s] = "consuming" => pc[s] = "consuming" /\ cartOf'[s] = cartOf[s]
    BY <1>2, <1>3 DEF Starting
  <2>2. QED
    BY <1>3, <2>1 DEF StoryInv, CartsInv, CartHeld, CartExclusive, AbandonedForGood
<1>9. QED
  BY <1>4, <1>5, <1>6, <1>7, <1>8 DEF StoryInv, RequestsInv

(* A request answered with the newest order of the cart it asked about. *)
LEMMA StoryOfAnswer ==
  ASSUME TypeOK, StoryInv, NEW r \in Requests, NEW s \in Requests, NEW c \in Carts,
         IsNewest(c, s), answer' = [answer EXCEPT ![r] = s], cartOf' = [cartOf EXCEPT ![r] = c],
         pc' = [pc EXCEPT ![r] = "done"],
         UNCHANGED <<order, used, toRestock, cartRow, blob, reopened>>
  PROVE  StoryInv'
<1>1. /\ pc \in [Requests -> Stages] /\ cartOf \in [Requests -> Carts \cup {NoAnswer}]
      /\ answer \in [Requests -> Requests \cup {NoAnswer}]
  BY DEF TypeOK, RequestOK
<1>2. CountInv' /\ \A d : OrdersOf(d)' = OrdersOf(d)
  BY SameCounts DEF StoryInv
<1>3. Unordered' /\ Addressed' /\ Restockable'
  BY <1>1 DEF StoryInv, RequestsInv, Unordered, Addressed, Restockable, NoOrder, NoLines, Starting
<1>4. Answered'
  <2> SUFFICES ASSUME NEW q \in Requests, answer'[q] # NoAnswer
               PROVE  answer'[q] \in OrdersOf(cartOf'[q])
    BY <1>2 DEF Answered
  <2>1. CASE q = r
    BY <1>1, <2>1 DEF IsNewest
  <2>2. CASE q # r
    BY <1>1, <2>2 DEF StoryInv, RequestsInv, Answered
  <2>3. QED
    BY <2>1, <2>2
<1>5. CartsInv'
  BY <1>1 DEF StoryInv, CartsInv, CartHeld, CartExclusive, AbandonedForGood
<1>6. QED
  BY <1>2, <1>3, <1>4, <1>5 DEF StoryInv, RequestsInv

(* The row lock: a checkout starts only on an active row nobody works on. *)
LEMMA StoryOfLock ==
  ASSUME TypeOK, StoryInv, NEW r \in Requests, LockCart(r)
  PROVE  StoryInv'
<1> USE DEF tables, carting
<1>1. pc[r] = "loaded" /\ UNCHANGED <<order, used, toRestock, answer, cartRow, blob, reopened>>
  BY DEF LockCart
<1>2. CASE Conflict(r) \/ End(r)
  BY <1>1, <1>2, EndMovesNoOrder
<1>3. CASE ~(Conflict(r) \/ End(r))
  <2>1. /\ cartRow[cartOf[r]] = "active" /\ ~CartLocked(cartOf[r])
        /\ pc' = [pc EXCEPT ![r] = "consuming"] /\ cartOf' = cartOf
    BY <1>3 DEF LockCart
  <2>2. pc \in [Requests -> Stages] /\ cartOf[r] \in Carts
    BY <1>1 DEF TypeOK, RequestOK, StoryInv, RequestsInv, Addressed
  <2>3. CountInv' /\ \A d : OrdersOf(d)' = OrdersOf(d)
    BY <1>1, SameCounts DEF StoryInv
  <2>4. Unordered' /\ Addressed' /\ Restockable' /\ Answered'
    BY <1>1, <2>1, <2>2, <2>3
       DEF StoryInv, RequestsInv, Unordered, Addressed, Restockable, Answered, NoOrder, NoLines, Starting
  <2>5. CartsInv'
    BY <1>1, <2>1, <2>2 DEF StoryInv, CartsInv, CartHeld, CartExclusive, AbandonedForGood, CartLocked
  <2>6. QED
    BY <2>3, <2>4, <2>5 DEF StoryInv, RequestsInv
<1>4. QED
  BY <1>2, <1>3

(* The commit: one order more, for a row that was active and no longer is,  *)
(* and one redemption more if there was one left.                           *)
LEMMA StoryOfCommit ==
  ASSUME TypeOK, StoryInv, NEW r \in Requests, Commit(r)
  PROVE  StoryInv'
<1>0. PICK c : c = cartOf[r]
  OBVIOUS
<1>1. /\ pc[r] = "consuming" /\ order[r] = NoOrder /\ order[r].status = "none"
      /\ c \in Carts /\ cartRow[c] = "active"
      /\ \A s \in Requests : pc[s] = "consuming" /\ cartOf[s] = c => s = r
  BY <1>0 DEF Commit, StoryInv, RequestsInv, CartsInv, Unordered, Addressed, CartHeld, CartExclusive,
         Starting
<1>2. /\ order' = [order EXCEPT ![r] = NewOrder(r)] /\ cartRow' = [cartRow EXCEPT ![c] = "converted"]
      /\ answer' = [answer EXCEPT ![r] = r] /\ pc' = [pc EXCEPT ![r] = "done"]
      /\ used' = (IF redeem[r] THEN used + 1 ELSE used) /\ ~UsedUp(r)
      /\ UNCHANGED <<toRestock, blob, reopened, cartOf>>
  BY <1>0 DEF Commit, MarkCartConverted
<1>3. /\ pc \in [Requests -> Stages] /\ order \in [Requests -> Order]
      /\ answer \in [Requests -> Requests \cup {NoAnswer}] /\ redeem[r] \in BOOLEAN
      /\ cartRow \in [Carts -> {"active", "converted", "abandoned"}] /\ used \in Nat
      /\ reopened \in [Carts -> Nat]
  BY DEF TypeOK, RequestOK, TablesOK, CartingOK, WorkOK
<1>4. /\ NewOrder(r).status = "pending_payment" /\ NewOrder(r).cart = c /\ NewOrder(r).redeemed = redeem[r]
      /\ order'[r] = NewOrder(r) /\ \A s \in Requests \ {r} : order'[s] = order[s]
  BY <1>0, <1>2, <1>3 DEF NewOrder
<1>5. r \notin Placed /\ Placed' = Placed \cup {r}
  BY <1>1, <1>4 DEF Placed
<1>6. OrdersOf(c)' = OrdersOf(c) \cup {r} /\ \A d : d # c => OrdersOf(d)' = OrdersOf(d)
  BY <1>4, <1>5 DEF OrdersOf, Placed
<1>7. CountInv'
  <2>1. IsFiniteSet(Placed) /\ IsFiniteSet(Placed')
    BY <1>5, FS_AddElement DEF StoryInv, CountInv
  <2>2. \A d : IsFiniteSet(OrdersOf(d))
    <3>1. \A d : OrdersOf(d) \in SUBSET Placed
      BY DEF OrdersOf
    <3>2. QED
      BY <2>1, <3>1, FS_Subset
  <2>3. OrdersMatchConversions'
    <3> SUFFICES ASSUME NEW d \in Carts
                 PROVE  Cardinality(OrdersOf(d)') <= IF cartRow'[d] = "active" THEN reopened'[d]
                                                                              ELSE reopened'[d] + 1
      BY DEF OrdersMatchConversions
    <3>1. Cardinality(OrdersOf(d)) <= IF cartRow[d] = "active" THEN reopened[d] ELSE reopened[d] + 1
      BY DEF StoryInv, CountInv, OrdersMatchConversions
    <3>2. CASE d # c
      BY <1>2, <1>6, <3>1, <3>2
    <3>3. CASE d = c
      <4>1. r \notin OrdersOf(c)
        BY <1>5 DEF OrdersOf
      <4>2. Cardinality(OrdersOf(c)') = Cardinality(OrdersOf(c)) + 1 /\ Cardinality(OrdersOf(c)) \in Nat
        BY <1>6, <2>2, <4>1, FS_AddElement, FS_CardinalityType
      <4>3. cartRow'[c] = "converted" /\ reopened'[c] = reopened[c] /\ reopened[c] \in Nat
        BY <1>1, <1>2, <1>3
      <4>4. Cardinality(OrdersOf(c)) <= reopened[c]
        BY <1>1, <3>1, <3>3
      <4>5. QED
        BY <3>3, <4>2, <4>3, <4>4
    <3>4. QED
      BY <3>2, <3>3
  <2>4. RedemptionsWithinLimit'
    <3> DEFINE R == {s \in Placed : order[s].redeemed}
    <3>1. used = Cardinality(R) /\ used <= UsageLimit
      BY DEF StoryInv, CountInv, RedemptionsWithinLimit
    <3>2. IsFiniteSet(R) /\ r \notin R
      <4>1. R \in SUBSET Placed
        OBVIOUS
      <4>2. QED
        BY <1>5, <2>1, <4>1, FS_Subset
    <3>3. {s \in Placed' : order'[s].redeemed} = IF redeem[r] THEN R \cup {r} ELSE R
      BY <1>3, <1>4, <1>5 DEF Placed
    <3>4. Cardinality(R \cup {r}) = Cardinality(R) + 1
      BY <3>2, FS_AddElement
    <3>5. UsageLimit \in Nat
      BY CheckoutAssumption DEF CheckoutAssumption
    <3> HIDE DEF R
    <3>6. used' = Cardinality({s \in Placed' : order'[s].redeemed})
      BY <1>2, <3>1, <3>3, <3>4
    <3>7. used' <= UsageLimit
      BY <1>2, <1>3, <3>1, <3>5 DEF UsedUp
    <3>8. QED
      BY <3>6, <3>7 DEF RedemptionsWithinLimit
  <2>5. QED
    BY <2>1, <2>3, <2>4 DEF CountInv
<1>8. Unordered' /\ Addressed' /\ Restockable'
  BY <1>1, <1>2, <1>3, <1>4
     DEF StoryInv, RequestsInv, Unordered, Addressed, Restockable, Starting, NoOrder, NoLines
<1>9. Answered'
  <2> SUFFICES ASSUME NEW q \in Requests, answer'[q] # NoAnswer
               PROVE  answer'[q] \in OrdersOf(cartOf[q])'
    BY DEF Answered
  <2>1. PICK d : d = cartOf[q] /\ d = cartOf'[q]
    BY <1>2
  <2>2. answer'[q] \in OrdersOf(d)'
    <3>1. CASE q = r
      BY <1>0, <1>2, <1>3, <1>6, <2>1, <3>1
    <3>2. CASE q # r
      <4>1. answer'[q] \in OrdersOf(d)
        BY <1>2, <1>3, <2>1, <3>2 DEF StoryInv, RequestsInv, Answered
      <4>2. OrdersOf(d) \subseteq OrdersOf(d)'
        BY <1>6
      <4>3. QED
        BY <4>1, <4>2
    <3>3. QED
      BY <3>1, <3>2
  <2>3. QED
    BY <2>1, <2>2 DEF OrdersOf
<1>10. CartsInv'
  <2>1. \A s \in Requests : pc'[s] = "consuming" => pc[s] = "consuming" /\ cartOf'[s] = cartOf[s]
                                                    /\ cartOf[s] # c
    BY <1>1, <1>2, <1>3
  <2>2. QED
    BY <1>1, <1>2, <1>3, <2>1 DEF StoryInv, CartsInv, CartHeld, CartExclusive, AbandonedForGood
<1>11. QED
  BY <1>7, <1>8, <1>9, <1>10 DEF StoryInv, RequestsInv

(* The flush is the one step that reopens a row, never one being worked on. *)
LEMMA StoryOfCartStep ==
  ASSUME TypeOK, StoryInv, NEW c \in Carts, EditCart(c) \/ Abandon(c) \/ Flush(c)
  PROVE  StoryInv'
<1> USE DEF tables, request
<1>1. /\ cartRow \in [Carts -> {"active", "converted", "abandoned"}] /\ reopened \in [Carts -> Nat]
      /\ blob \in [Carts -> {"active", "abandoned"}]
  BY DEF TypeOK, CartingOK
<1>2. UNCHANGED <<order, used, toRestock, answer, pc, cartOf>>
  BY DEF EditCart, Abandon, Flush
<1>3. Placed' = Placed /\ \A d : OrdersOf(d)' = OrdersOf(d)
  BY <1>2 DEF Placed, OrdersOf
<1>4. RequestsInv'
  BY <1>2, <1>3 DEF StoryInv, RequestsInv, Unordered, Addressed, Answered, Restockable, NoOrder, NoLines
<1>5. IsFiniteSet(Placed') /\ RedemptionsWithinLimit'
  <2>1. {r \in Placed' : order'[r].redeemed} = {r \in Placed : order[r].redeemed}
    BY <1>2, <1>3
  <2>2. QED
    BY <1>2, <1>3, <2>1 DEF StoryInv, CountInv, RedemptionsWithinLimit
<1>6. CASE EditCart(c) \/ Abandon(c)
  <2>1. UNCHANGED <<cartRow, reopened>> /\ (blob' = blob \/ blob' = [blob EXCEPT ![c] = "abandoned"])
    BY <1>6 DEF EditCart, Abandon
  <2>2. CartsInv'
    BY <1>1, <1>2, <2>1 DEF StoryInv, CartsInv, CartHeld, CartExclusive, AbandonedForGood
  <2>3. OrdersMatchConversions'
    BY <1>3, <2>1 DEF StoryInv, CountInv, OrdersMatchConversions
  <2>4. QED
    BY <1>4, <1>5, <2>2, <2>3 DEF StoryInv, CountInv
<1>7. CASE Flush(c)
  <2>1. /\ ~CartLocked(c) /\ cartRow' = [cartRow EXCEPT ![c] = blob[c]] /\ blob' = blob
        /\ reopened' = [reopened EXCEPT ![c] =
                          IF cartRow[c] = "converted" /\ blob[c] = "active" THEN @ + 1 ELSE @]
    BY <1>7 DEF Flush
  <2>2. CartsInv'
    BY <1>1, <1>2, <2>1 DEF StoryInv, CartsInv, CartHeld, CartExclusive, AbandonedForGood, CartLocked
  <2>3. OrdersMatchConversions'
    <3> SUFFICES ASSUME NEW d \in Carts
                 PROVE  Cardinality(OrdersOf(d)) <= IF cartRow'[d] = "active" THEN reopened'[d]
                                                                             ELSE reopened'[d] + 1
      BY <1>3 DEF OrdersMatchConversions
    <3>1. /\ Cardinality(OrdersOf(d)) <= IF cartRow[d] = "active" THEN reopened[d] ELSE reopened[d] + 1
          /\ cartRow[d] = "abandoned" => blob[d] = "abandoned"
      BY DEF StoryInv, CountInv, CartsInv, OrdersMatchConversions, AbandonedForGood
    <3>2. Cardinality(OrdersOf(d)) \in Nat
      <4>1. OrdersOf(d) \in SUBSET Placed /\ IsFiniteSet(Placed)
        BY DEF OrdersOf, StoryInv, CountInv
      <4>2. QED
        BY <4>1, FS_Subset, FS_CardinalityType
    <3>3. CASE d = c
      <4>1. /\ cartRow[c] \in {"active", "converted", "abandoned"} /\ blob[c] \in {"active", "abandoned"}
            /\ cartRow'[c] = blob[c] /\ reopened[c] \in Nat
            /\ reopened'[c] = IF cartRow[c] = "converted" /\ blob[c] = "active" THEN reopened[c] + 1
                                                                               ELSE reopened[c]
        BY <1>1, <2>1
      <4>2. QED
        BY <3>1, <3>2, <3>3, <4>1
    <3>4. CASE d # c
      BY <1>1, <2>1, <3>1, <3>4
    <3>5. QED
      BY <3>3, <3>4
  <2>4. QED
    BY <1>4, <1>5, <2>2, <2>3 DEF StoryInv, CountInv
<1>8. QED
  BY <1>6, <1>7

(* Every step keeps the story of the orders. *)
LEMMA StoryNext == TypeOK /\ StoryInv /\ [Next]_vars => StoryInv'
<1> SUFFICES ASSUME TypeOK, StoryInv, [Next]_vars PROVE StoryInv'
  OBVIOUS
<1> USE DEF tables, carting, work, request, admin
<1>1. /\ pc \in [Requests -> Stages] /\ cartOf \in [Requests -> Carts \cup {NoAnswer}]
      /\ answer \in [Requests -> Requests \cup {NoAnswer}] /\ Addressed /\ Unordered
  BY DEF TypeOK, RequestOK, StoryInv, RequestsInv
<1>2. ASSUME NEW r \in Requests, LoadExisting(r)
      PROVE  StoryInv'
  <2>1. PICK c \in Carts, s \in Requests :
          IsNewest(c, s) /\ cartOf' = [cartOf EXCEPT ![r] = c] /\ answer' = [answer EXCEPT ![r] = s]
    BY <1>2 DEF LoadExisting
  <2>2. QED
    BY <1>2, <2>1, StoryOfAnswer DEF LoadExisting
<1>3. ASSUME NEW r \in Requests, LoadCart(r)
      PROVE  StoryInv'
  <2>1. PICK c \in Carts : cartOf' = [cartOf EXCEPT ![r] = c]
    BY <1>3 DEF LoadCart
  <2>2. /\ pc[r] = "idle" /\ pc' = [pc EXCEPT ![r] = "loaded"] /\ answer[r] = NoAnswer
        /\ UNCHANGED <<order, used, toRestock, answer, cartRow, blob, reopened>>
    BY <1>1, <1>3 DEF LoadCart, Unordered, Starting
  <2>3. QED
    BY <1>1, <2>1, <2>2, NoOrderMoves DEF Addressed, Starting
<1>4. ASSUME NEW r \in Requests, LockCart(r)
      PROVE  StoryInv'
  BY <1>4, StoryOfLock
<1>5. ASSUME NEW r \in Requests, ConsumeStep(r) \/ RestockStep(r)
      PROVE  StoryInv'
  <2>1. UNCHANGED <<order, used, toRestock, answer, cartRow, blob, reopened>>
    BY <1>5 DEF ConsumeStep, RestockStep
  <2>2. CASE Conflict(r)
    <3>1. pc[r] \in {"consuming", "restocking"}
      BY <1>5 DEF ConsumeStep, RestockStep
    <3>2. CASE pc[r] = "consuming"
      BY <2>1, <2>2, <3>2, EndMovesNoOrder
    <3>3. CASE pc[r] = "restocking"
      <4>1. \E p \in todo[r] : Take(r, p)
        BY <1>5, <3>3 DEF ConsumeStep, RestockStep
      <4>2. pc' = pc /\ cartOf' = cartOf
        BY <4>1 DEF Take
      <4>3. QED
        BY <1>1, <2>1, <4>2, NoOrderMoves DEF Addressed
    <3>4. QED
      BY <3>1, <3>2, <3>3
  <2>3. CASE ~Conflict(r)
    <3>1. pc' = pc /\ cartOf' = cartOf
      BY <1>5, <2>3 DEF ConsumeStep, RestockStep, Take
    <3>2. QED
      BY <1>1, <2>1, <3>1, NoOrderMoves DEF Addressed
  <2>4. QED
    BY <2>2, <2>3
<1>6. ASSUME NEW r \in Requests, Commit(r)
      PROVE  StoryInv'
  BY <1>6, StoryOfCommit
<1>7. ASSUME NEW r \in Requests, DiscountGone(r) \/ DeadlockVictim(r) \/ Crash(r)
      PROVE  StoryInv'
  <2>1. UNCHANGED <<order, used, toRestock, answer, cartRow, blob, reopened>>
    BY <1>7 DEF DiscountGone, DeadlockVictim, Crash
  <2>2. CASE DiscountGone(r)
    BY <2>1, <2>2, EndMovesNoOrder DEF DiscountGone
  <2>3. CASE DeadlockVictim(r)
    <3>1. pc[r] \in {"consuming", "restocking"}
      BY <2>3 DEF DeadlockVictim, Deadlock, WaitsFor
    <3>2. QED
      BY <2>1, <2>3, <3>1, EndMovesNoOrder DEF DeadlockVictim
  <2>4. CASE Crash(r)
    BY <2>1, <2>4, EndMovesNoOrder DEF Crash
  <2>5. QED
    BY <1>7, <2>2, <2>3, <2>4
<1>8. ASSUME NEW r \in Requests, Resolve(r)
      PROVE  StoryInv'
  <2>1. UNCHANGED <<order, used, toRestock, cartRow, blob, reopened>> /\ pc[r] = "conflict"
    BY <1>8 DEF Resolve
  <2>2. CASE End(r) /\ UNCHANGED answer
    BY <2>1, <2>2, EndMovesNoOrder
  <2>3. CASE ~(End(r) /\ UNCHANGED answer)
    <3>1. PICK s \in Requests : IsNewest(cartOf[r], s) /\ answer' = [answer EXCEPT ![r] = s]
      BY <1>8, <2>3 DEF Resolve
    <3>2. pc' = [pc EXCEPT ![r] = "done"] /\ cartOf' = [cartOf EXCEPT ![r] = cartOf[r]]
      BY <1>1, <1>8, <2>3 DEF Resolve
    <3>3. cartOf[r] \in Carts
      BY <1>1, <2>1 DEF Addressed
    <3>4. QED
      BY <2>1, <3>1, <3>2, <3>3, StoryOfAnswer
  <2>4. QED
    BY <2>2, <2>3
<1>9. ASSUME NEW r \in Requests, Pay(r) \/ Cancel(r) \/ RestockCommit(r)
      PROVE  StoryInv'
  BY <1>9, StoryOfOrderStep
<1>10. ASSUME NEW r \in Requests, RestockBegin(r)
       PROVE  StoryInv'
  <2>1. /\ UNCHANGED <<order, used, answer, cartRow, blob, reopened, cartOf>> /\ r \in toRestock
        /\ pc' = [pc EXCEPT ![r] = "restocking"] /\ toRestock' = toRestock \ {r}
    BY <1>10 DEF RestockBegin
  <2>2. QED
    BY <1>1, <2>1, NoOrderMoves DEF Addressed, Starting
<1>11. ASSUME NEW c \in Carts, EditCart(c) \/ Abandon(c) \/ Flush(c)
       PROVE  StoryInv'
  BY <1>11, StoryOfCartStep
<1>12. CASE UNCHANGED <<order, used, toRestock, answer, cartRow, blob, reopened, pc, cartOf>>
  BY <1>1, <1>12, NoOrderMoves DEF Addressed
<1>13. ASSUME NEW c \in Carts, NEW v \in Variants,
              \/ \E q \in HoldQty[v], clamp \in BOOLEAN : Reserve(c, v, q, clamp)
              \/ Release(c, v) \/ Expire(c, v)
       PROVE  StoryInv'
  BY <1>12, <1>13 DEF Reserve, Release, Expire
<1>14. CASE Sweep
  BY <1>12, <1>14 DEF Sweep
<1>15. ASSUME NEW v \in Variants, ToggleBundle(v) \/ \E n \in StockCounts : SetStock(v, n)
       PROVE  StoryInv'
  BY <1>12, <1>15 DEF ToggleBundle, SetStock
<1>16. CASE UNCHANGED vars
  BY <1>12, <1>16 DEF vars
<1>17. QED
  BY <1>2, <1>3, <1>4, <1>5, <1>6, <1>7, <1>8, <1>9, <1>10, <1>11, <1>13, <1>14, <1>15, <1>16
     DEF Next, Serve

(* The inductive invariant behind the next three theorems. *)
THEOREM StoryAlways == Spec => [](TypeOK /\ StoryInv)
<1>1. TypeOK /\ StoryInv /\ [Next]_vars => (TypeOK /\ StoryInv)'
  BY TypeNext, StoryNext
<1>2. QED
  BY <1>1, InitTypeOK, InitStory, PTL DEF Spec

(* Each order of a cart beyond the first is paid for with one reopening of  *)
(* its row by a flush, for any number of carts, requests and flushes.       *)
THEOREM OrdersAreCounted == Spec => []OrdersMatchConversions
<1>1. StoryInv => OrdersMatchConversions
  BY DEF StoryInv, CountInv
<1>2. QED
  BY <1>1, StoryAlways, PTL

(* used_count is the number of orders that redeemed the code, and stays     *)
(* within the limit, whatever count the carts were evaluated against.       *)
THEOREM LimitRespected == Spec => []RedemptionsWithinLimit
<1>1. StoryInv => RedemptionsWithinLimit
  BY DEF StoryInv, CountInv
<1>2. QED
  BY <1>1, StoryAlways, PTL

(* Payment intents of one cart agree on its order unless a flush reopened   *)
(* the cart: an answer is an order of the cart, and there is only one.      *)
THEOREM IntentsAlwaysAgree == Spec => []IntentsAgree
<1>1. TypeOK /\ StoryInv => IntentsAgree
  <2> SUFFICES ASSUME TypeOK, StoryInv, NEW r \in Requests, NEW s \in Requests,
                      cartOf[r] = cartOf[s], cartOf[r] # NoAnswer,
                      answer[r] # NoAnswer, answer[s] # NoAnswer, reopened[cartOf[r]] = 0
               PROVE  answer[r] = answer[s]
    BY DEF IntentsAgree
  <2> DEFINE S == OrdersOf(cartOf[r])
  <2>1. answer[r] \in S /\ answer[s] \in S
    BY DEF StoryInv, RequestsInv, Answered
  <2>2. IsFiniteSet(S) /\ Cardinality(S) \in Nat
    <3>1. S \in SUBSET Placed /\ IsFiniteSet(Placed)
      BY DEF OrdersOf, StoryInv, CountInv
    <3>2. QED
      BY <3>1, FS_Subset, FS_CardinalityType
  <2>3. Cardinality(S) <= 1
    <3>1. cartOf[r] \in Carts
      BY DEF TypeOK, RequestOK
    <3>2. Cardinality(S) <= IF cartRow[cartOf[r]] = "active" THEN 0 ELSE 1
      BY <3>1 DEF StoryInv, CountInv, OrdersMatchConversions
    <3>3. QED
      BY <2>2, <3>2
  <2>4. Cardinality(S) # 0
    BY <2>1, <2>2, FS_EmptySet
  <2> HIDE DEF S
  <2>5. PICK x : S = {x}
    <3>1. Cardinality(S) = 1
      BY <2>2, <2>3, <2>4
    <3>2. QED
      BY <2>2, <3>1, FS_Singleton
  <2>6. QED
    BY <2>1, <2>5
<1>2. QED
  BY <1>1, StoryAlways, PTL

-----------------------------------------------------------------------------
(* The work of a transaction.  Its steps are taken in order, its locks are  *)
(* those of the steps done, and what it has taken is what those ask for.    *)

Working(r) == pc[r] \in {"consuming", "restocking"}
Done(r)    == Steps(lines[r], asBundle[r]) \ todo[r]

Precedes(p, q) == p[1] < q[1] \/ (p[1] = q[1] /\ p[2] <= q[2])

(* The units that the steps S of lines ls with the bundles bs take of v:    *)
(* counted one by one, for a sum over steps would be a recursion.           *)
Amount(ls, bs, p) == IF p[1] \in bs THEN Parts[p[1]][p[2]] * ls[p[1]] ELSE ls[p[1]]
UnitsOf(S, ls, bs, v) ==
  {u \in S \X (Nat \ {0}) : u[1][2] = v /\ u[2] <= Amount(ls, bs, u[1])}

TakenUnits(r, v) == UnitsOf(Done(r), lines[r], asBundle[r], v)

Idle(r) == todo[r] = {} /\ locked[r] = {} /\ taken[r] = NoLines

InOrder(r) ==
  /\ todo[r] \subseteq Steps(lines[r], asBundle[r])
  /\ \A v \in locked[r] : \E p \in Done(r) : p[2] = v
  /\ \A p \in Done(r), q \in todo[r] : Precedes(p, q)

Counted(r) ==
  \A v \in Variants : /\ IsFiniteSet(TakenUnits(r, v))
                      /\ taken[r][v] = Cardinality(TakenUnits(r, v))

WorkInv == \A r \in Requests : IF Working(r) THEN InOrder(r) /\ Counted(r) ELSE Idle(r)

(* One step more takes its own units more of its own variant. *)
LEMMA OneStepMore ==
  ASSUME NEW S, NEW ls, NEW bs, NEW p, p \notin S, Amount(ls, bs, p) \in Nat, NEW v,
         IsFiniteSet(UnitsOf(S, ls, bs, v))
  PROVE  /\ IsFiniteSet(UnitsOf(S \cup {p}, ls, bs, v))
         /\ Cardinality(UnitsOf(S \cup {p}, ls, bs, v)) =
              Cardinality(UnitsOf(S, ls, bs, v)) + IF p[2] = v THEN Amount(ls, bs, p) ELSE 0
<1> DEFINE n == Amount(ls, bs, p)
           A == UnitsOf(S, ls, bs, v)
           B == UnitsOf(S \cup {p}, ls, bs, v)
           T == {p} \X (1..n)
<1>1. CASE p[2] # v
  <2>1. A = B
    BY <1>1 DEF UnitsOf
  <2>2. Cardinality(A) \in Nat /\ IsFiniteSet(A)
    BY FS_CardinalityType
  <2> HIDE DEF A, B
  <2>3. IsFiniteSet(B) /\ Cardinality(B) = Cardinality(A) + 0
    BY <2>1, <2>2
  <2>4. QED
    BY <1>1, <2>3 DEF A, B
<1>2. CASE p[2] = v
  <2>1. B = A \cup T
    <3>1. \A u : u \in B => u \in A \cup T
      BY <1>2 DEF UnitsOf
    <3>2. \A u \in T : u[1] = p /\ u[2] \in Nat \ {0} /\ u[2] <= n /\ u \in {p} \X (Nat \ {0})
      OBVIOUS
    <3>3. T \subseteq B
      BY <1>2, <3>2 DEF UnitsOf
    <3>4. A \subseteq B
      BY DEF UnitsOf
    <3>5. QED
      BY <3>1, <3>3, <3>4
  <2>2. A \cap T = {}
    BY DEF UnitsOf
  <2>3. IsFiniteSet(T) /\ Cardinality(T) = n
    BY ColumnSize
  <2>4. Cardinality(A) \in Nat /\ Cardinality({}) = 0
    BY FS_CardinalityType, FS_EmptySet
  <2>5. IsFiniteSet(A)
    OBVIOUS
  <2> HIDE DEF A, B, T, n
  <2>6. IsFiniteSet(B) /\ Cardinality(B) = Cardinality(A) + n
    <3>1. IsFiniteSet(B) /\ Cardinality(B) = Cardinality(A) + Cardinality(T) - Cardinality(A \cap T)
      BY <2>1, <2>3, <2>5, FS_Union
    <3>2. n \in Nat /\ Cardinality(A \cap T) = 0
      BY <2>2, <2>4 DEF n
    <3>3. QED
      BY <2>3, <2>4, <3>1, <3>2
  <2>7. QED
    BY <1>2, <2>6 DEF A, B, n
<1>3. QED
  BY <1>1, <1>2

(* The same, of what a transaction has done. *)
LEMMA TakenOneMore ==
  ASSUME NEW r, NEW p, p \notin Done(r), Amount(lines[r], asBundle[r], p) \in Nat, NEW v,
         IsFiniteSet(TakenUnits(r, v))
  PROVE  /\ IsFiniteSet(UnitsOf(Done(r) \cup {p}, lines[r], asBundle[r], v))
         /\ Cardinality(UnitsOf(Done(r) \cup {p}, lines[r], asBundle[r], v)) =
              Cardinality(TakenUnits(r, v)) + IF p[2] = v THEN Amount(lines[r], asBundle[r], p) ELSE 0
BY OneStepMore DEF TakenUnits

(* A transaction that does not move keeps its work as it is. *)
LEMMA WorkKept ==
  ASSUME WorkInv, NEW r \in Requests, todo'[r] = todo[r], locked'[r] = locked[r], taken'[r] = taken[r],
         Working(r)' <=> Working(r),
         Working(r) => lines'[r] = lines[r] /\ asBundle'[r] = asBundle[r]
  PROVE  (IF Working(r) THEN InOrder(r) /\ Counted(r) ELSE Idle(r))'
<1>1. CASE Working(r)
  <2>1. InOrder(r) /\ Counted(r)
    BY <1>1 DEF WorkInv
  <2>2. Done(r)' = Done(r)
    BY <1>1 DEF Done, Steps
  <2>3. InOrder(r)'
    BY <1>1, <2>1, <2>2 DEF InOrder, Steps, Precedes
  <2>4. \A v : TakenUnits(r, v)' = TakenUnits(r, v)
    BY <1>1, <2>2 DEF TakenUnits, UnitsOf, Amount
  <2>5. Counted(r)'
    BY <2>1, <2>4 DEF Counted
  <2>6. QED
    BY <1>1, <2>3, <2>5
<1>2. CASE ~Working(r)
  BY <1>2 DEF WorkInv, Idle
<1>3. QED
  BY <1>1, <1>2

(* No work at first, none after the end. *)
LEMMA WorkDropped ==
  ASSUME TypeOK, WorkInv, NEW r \in Requests, DropWork(r), ~Working(r)',
         \A s \in Requests \ {r} : pc'[s] = pc[s] /\ lines'[s] = lines[s]
  PROVE  WorkInv'
<1>1. Idle(r)'
  BY DEF TypeOK, WorkOK, DropWork, Idle, NoLines
<1>2. ASSUME NEW s \in Requests, s # r
      PROVE  (IF Working(s) THEN InOrder(s) /\ Counted(s) ELSE Idle(s))'
  <2>1. /\ todo'[s] = todo[s] /\ locked'[s] = locked[s] /\ taken'[s] = taken[s]
        /\ (Working(s)' <=> Working(s)) /\ lines'[s] = lines[s] /\ asBundle'[s] = asBundle[s]
    BY <1>2 DEF TypeOK, WorkOK, DropWork, Working
  <2>2. QED
    BY <2>1, WorkKept
<1>3. QED
  BY <1>1, <1>2 DEF WorkInv

(* A transaction begins with all of its steps to do. *)
LEMMA WorkBegun ==
  ASSUME TypeOK, WorkInv, NEW r \in Requests, ~Working(r),
         asBundle' = [asBundle EXCEPT ![r] = bundles],
         todo' = [todo EXCEPT ![r] = Steps(lines[r], bundles)],
         UNCHANGED <<locked, taken, lines>>,
         \A s \in Requests \ {r} : pc'[s] = pc[s], Working(r)'
  PROVE  WorkInv'
<1>1. /\ Steps(lines[r], asBundle[r])' = todo'[r] /\ Done(r)' = {}
  BY DEF TypeOK, WorkOK, Done, Steps
<1>2. Idle(r)
  BY DEF WorkInv
<1>3. InOrder(r)'
  BY <1>1, <1>2 DEF InOrder, Idle
<1>4. \A v : TakenUnits(r, v)' = {}
  BY <1>1 DEF TakenUnits, UnitsOf
<1>5. Counted(r)'
  BY <1>2, <1>4, FS_EmptySet DEF Counted, Idle, NoLines
<1>6. ASSUME NEW s \in Requests, s # r
      PROVE  (IF Working(s) THEN InOrder(s) /\ Counted(s) ELSE Idle(s))'
  <2>1. /\ todo'[s] = todo[s] /\ locked'[s] = locked[s] /\ taken'[s] = taken[s]
        /\ (Working(s)' <=> Working(s)) /\ lines'[s] = lines[s] /\ asBundle'[s] = asBundle[s]
    BY <1>6 DEF TypeOK, WorkOK, Working
  <2>2. QED
    BY <2>1, WorkKept
<1>7. QED
  BY <1>3, <1>5, <1>6 DEF WorkInv

(* The next step of a transaction moves from its todo to what it has done.  *)
LEMMA WorkTaken ==
  ASSUME TypeOK, WorkInv, NEW r \in Requests, Working(r), NEW p \in todo[r], IsNext(r, p), Take(r, p)
  PROVE  WorkInv'
<1>1. /\ todo \in [Requests -> SUBSET (Variants \X Variants)] /\ locked \in [Requests -> SUBSET Variants]
      /\ taken \in [Requests -> [Variants -> Nat]]
      /\ p[1] \in Variants /\ p[2] \in Variants /\ Units(r, p) \in Nat /\ Variants \subseteq Nat
  BY UnitsNat, CheckoutAssumption DEF CheckoutAssumption, TypeOK, WorkOK
<1>2. /\ todo' = [todo EXCEPT ![r] = @ \ {p}] /\ locked' = [locked EXCEPT ![r] = @ \cup {p[2]}]
      /\ taken' = [taken EXCEPT ![r][p[2]] = @ + Units(r, p)]
      /\ UNCHANGED <<pc, lines, asBundle>>
  BY DEF Take
<1>3. InOrder(r) /\ Counted(r)
  BY DEF WorkInv
<1>4. Done(r)' = Done(r) \cup {p} /\ p \notin Done(r)
  BY <1>1, <1>2, <1>3 DEF Done, InOrder, Steps
<1>5. InOrder(r)'
  <2>1. todo'[r] \subseteq Steps(lines[r], asBundle[r])'
    BY <1>1, <1>2, <1>3 DEF InOrder, Steps
  <2>2. \A v \in locked'[r] : \E q \in Done(r)' : q[2] = v
    BY <1>1, <1>2, <1>3, <1>4 DEF InOrder
  <2>3. \A q \in todo'[r] : Precedes(p, q)
    BY <1>1, <1>2 DEF IsNext, Precedes
  <2>4. \A d \in Done(r)', q \in todo'[r] : Precedes(d, q)
    BY <1>1, <1>2, <1>3, <1>4, <2>3 DEF InOrder
  <2>5. QED
    BY <2>1, <2>2, <2>4 DEF InOrder, Precedes
<1>6. Counted(r)'
  <2> SUFFICES ASSUME NEW v \in Variants
               PROVE  /\ IsFiniteSet(TakenUnits(r, v)')
                      /\ taken'[r][v] = Cardinality(TakenUnits(r, v)')
    BY DEF Counted
  <2>1. Amount(lines[r], asBundle[r], p) = Units(r, p)
    BY DEF Amount, Units
  <2>2. TakenUnits(r, v)' = UnitsOf(Done(r) \cup {p}, lines[r], asBundle[r], v)
    BY <1>2, <1>4 DEF TakenUnits, UnitsOf, Amount
  <2>3. IsFiniteSet(TakenUnits(r, v)) /\ taken[r][v] = Cardinality(TakenUnits(r, v))
    BY <1>3 DEF Counted
  <2>4. /\ IsFiniteSet(TakenUnits(r, v)')
        /\ Cardinality(TakenUnits(r, v)') = taken[r][v] + IF p[2] = v THEN Units(r, p) ELSE 0
    <3>1. p \notin Done(r) /\ Amount(lines[r], asBundle[r], p) \in Nat
      BY <1>1, <1>4, <2>1
    <3>2. IsFiniteSet(UnitsOf(Done(r) \cup {p}, lines[r], asBundle[r], v))
      BY <2>3, <3>1, TakenOneMore
    <3>3. Cardinality(UnitsOf(Done(r) \cup {p}, lines[r], asBundle[r], v)) =
              Cardinality(TakenUnits(r, v)) + IF p[2] = v THEN Amount(lines[r], asBundle[r], p) ELSE 0
      BY <2>3, <3>1, TakenOneMore
    <3>4. QED
      BY <2>1, <2>2, <2>3, <3>2, <3>3
  <2>5. taken'[r][v] = taken[r][v] + IF p[2] = v THEN Units(r, p) ELSE 0
    BY <1>1, <1>2
  <2>6. QED
    BY <2>4, <2>5
<1>7. ASSUME NEW s \in Requests, s # r
      PROVE  (IF Working(s) THEN InOrder(s) /\ Counted(s) ELSE Idle(s))'
  <2>1. /\ todo'[s] = todo[s] /\ locked'[s] = locked[s] /\ taken'[s] = taken[s]
        /\ (Working(s)' <=> Working(s)) /\ lines'[s] = lines[s] /\ asBundle'[s] = asBundle[s]
    BY <1>1, <1>2, <1>7 DEF Working
  <2>2. QED
    BY <2>1, WorkKept
<1>8. Working(r)'
  BY <1>2 DEF Working
<1>9. QED
  BY <1>5, <1>6, <1>7, <1>8 DEF WorkInv

(* Steps that touch no transaction. *)
LEMMA WorkUntouched ==
  ASSUME WorkInv, UNCHANGED work,
         \A r \in Requests : (Working(r)' <=> Working(r)) /\ (Working(r) => lines'[r] = lines[r])
  PROVE  WorkInv'
<1>1. ASSUME NEW r \in Requests
      PROVE  (IF Working(r) THEN InOrder(r) /\ Counted(r) ELSE Idle(r))'
  BY WorkKept DEF work
<1>2. QED
  BY <1>1 DEF WorkInv

(* An end of any kind drops the work. *)
LEMMA WorkEnded ==
  ASSUME TypeOK, WorkInv, NEW r \in Requests, Conflict(r) \/ End(r)
  PROVE  WorkInv'
<1>1. /\ DropWork(r) /\ (pc' = [pc EXCEPT ![r] = "done"] \/ pc' = [pc EXCEPT ![r] = "conflict"])
      /\ lines' = lines \/ lines' = [lines EXCEPT ![r] = NoLines]
  BY DEF Conflict, End
<1>2. pc \in [Requests -> Stages] /\ lines \in [Requests -> [Variants -> 0..MaxQty]]
  BY DEF TypeOK, RequestOK
<1>3. ~Working(r)' /\ \A s \in Requests \ {r} : pc'[s] = pc[s] /\ lines'[s] = lines[s]
  BY <1>1, <1>2 DEF Working
<1>4. QED
  BY <1>1, <1>3, WorkDropped

(* Every step keeps the order of the work. *)
LEMMA WorkNext == TypeOK /\ WorkInv /\ [Next]_vars => WorkInv'
<1> SUFFICES ASSUME TypeOK, WorkInv, [Next]_vars PROVE WorkInv'
  OBVIOUS
<1> USE DEF tables, carting, request, admin
<1>1. pc \in [Requests -> Stages] /\ lines \in [Requests -> [Variants -> 0..MaxQty]]
  BY DEF TypeOK, RequestOK
<1>2. ASSUME NEW r \in Requests, LoadExisting(r) \/ LoadCart(r)
      PROVE  WorkInv'
  <2>1. /\ pc[r] = "idle" /\ pc' = [pc EXCEPT ![r] = IF LoadExisting(r) THEN "done" ELSE "loaded"]
        /\ UNCHANGED work /\ \E ls : lines' = lines \/ lines' = [lines EXCEPT ![r] = ls]
    BY <1>2 DEF LoadExisting, LoadCart
  <2>2. ~Working(r) /\ ~Working(r)' /\ \A s \in Requests \ {r} : pc'[s] = pc[s] /\ lines'[s] = lines[s]
    BY <1>1, <2>1 DEF Working
  <2>3. QED
    BY <2>1, <2>2, WorkUntouched DEF Working
<1>3. ASSUME NEW r \in Requests, LockCart(r)
      PROVE  WorkInv'
  <2>1. CASE Conflict(r) \/ End(r)
    BY <2>1, WorkEnded
  <2>2. CASE ~(Conflict(r) \/ End(r))
    <3>1. /\ pc[r] = "loaded" /\ pc' = [pc EXCEPT ![r] = "consuming"]
          /\ asBundle' = [asBundle EXCEPT ![r] = bundles]
          /\ todo' = [todo EXCEPT ![r] = Steps(lines[r], bundles)]
          /\ UNCHANGED <<locked, taken, lines>>
      BY <1>3, <2>2 DEF LockCart
    <3>2. ~Working(r) /\ Working(r)' /\ \A s \in Requests \ {r} : pc'[s] = pc[s]
      BY <1>1, <3>1 DEF Working
    <3>3. QED
      BY <3>1, <3>2, WorkBegun
  <2>3. QED
    BY <2>1, <2>2
<1>4. ASSUME NEW r \in Requests, ConsumeStep(r) \/ RestockStep(r)
      PROVE  WorkInv'
  <2>1. CASE Conflict(r)
    BY <2>1, WorkEnded
  <2>2. CASE ~Conflict(r)
    <3>1. PICK p \in todo[r] : IsNext(r, p) /\ Take(r, p)
      BY <1>4, <2>2 DEF ConsumeStep, RestockStep
    <3>2. Working(r)
      BY <1>4 DEF ConsumeStep, RestockStep, Working
    <3>3. QED
      BY <3>1, <3>2, WorkTaken
  <2>3. QED
    BY <2>1, <2>2
<1>5. ASSUME NEW r \in Requests, Commit(r)
      PROVE  WorkInv'
  <2>1. DropWork(r) /\ pc' = [pc EXCEPT ![r] = "done"] /\ lines' = lines
    BY <1>5 DEF Commit
  <2>2. ~Working(r)' /\ \A s \in Requests \ {r} : pc'[s] = pc[s] /\ lines'[s] = lines[s]
    BY <1>1, <2>1 DEF Working
  <2>3. QED
    BY <2>1, <2>2, WorkDropped
<1>6. ASSUME NEW r \in Requests, DiscountGone(r) \/ DeadlockVictim(r) \/ Crash(r) \/ RestockCommit(r)
      PROVE  WorkInv'
  BY <1>6, WorkEnded DEF DiscountGone, DeadlockVictim, Crash, RestockCommit
<1>7. ASSUME NEW r \in Requests, Resolve(r)
      PROVE  WorkInv'
  <2>1. CASE End(r)
    BY <2>1, WorkEnded
  <2>2. CASE ~End(r)
    <3>1. /\ pc[r] = "conflict" /\ pc' = [pc EXCEPT ![r] = "done"]
          /\ lines' = [lines EXCEPT ![r] = NoLines] /\ UNCHANGED work
      BY <1>7, <2>2 DEF Resolve
    <3>2. ~Working(r) /\ ~Working(r)' /\ \A s \in Requests \ {r} : pc'[s] = pc[s] /\ lines'[s] = lines[s]
      BY <1>1, <3>1 DEF Working
    <3>3. QED
      BY <3>1, <3>2, WorkUntouched DEF Working
  <2>3. QED
    BY <2>1, <2>2
<1>8. ASSUME NEW r \in Requests, RestockBegin(r)
      PROVE  WorkInv'
  <2>1. /\ pc[r] = "done" /\ pc' = [pc EXCEPT ![r] = "restocking"]
        /\ asBundle' = [asBundle EXCEPT ![r] = bundles]
        /\ todo' = [todo EXCEPT ![r] = Steps(lines[r], bundles)]
        /\ UNCHANGED <<locked, taken, lines>>
    BY <1>8 DEF RestockBegin
  <2>2. ~Working(r) /\ Working(r)' /\ \A s \in Requests \ {r} : pc'[s] = pc[s]
    BY <1>1, <2>1 DEF Working
  <2>3. QED
    BY <2>1, <2>2, WorkBegun
<1>9. CASE UNCHANGED work /\ UNCHANGED <<pc, lines>>
  BY <1>9, WorkUntouched DEF Working
<1>10. ASSUME NEW r \in Requests, Pay(r) \/ Cancel(r)
       PROVE  WorkInv'
  BY <1>9, <1>10 DEF Pay, Cancel
<1>11. ASSUME NEW c \in Carts, EditCart(c) \/ Abandon(c) \/ Flush(c)
       PROVE  WorkInv'
  BY <1>9, <1>11 DEF EditCart, Abandon, Flush
<1>12. ASSUME NEW c \in Carts, NEW v \in Variants,
              \/ \E q \in HoldQty[v], clamp \in BOOLEAN : Reserve(c, v, q, clamp)
              \/ Release(c, v) \/ Expire(c, v)
       PROVE  WorkInv'
  BY <1>9, <1>12 DEF Reserve, Release, Expire
<1>13. CASE Sweep
  BY <1>9, <1>13 DEF Sweep
<1>14. ASSUME NEW v \in Variants, ToggleBundle(v) \/ \E n \in StockCounts : SetStock(v, n)
       PROVE  WorkInv'
  BY <1>9, <1>14 DEF ToggleBundle, SetStock
<1>15. CASE UNCHANGED vars
  BY <1>9, <1>15 DEF vars
<1>16. QED
  BY <1>2, <1>3, <1>4, <1>5, <1>6, <1>7, <1>8, <1>10, <1>11, <1>12, <1>13, <1>14, <1>15
     DEF Next, Serve

(* At first no transaction is at work. *)
LEMMA InitWork == Init => WorkInv
BY DEF Init, WorkInv, Working, Idle

(* Steps are taken in order, under the locks of the steps already taken.    *)
THEOREM WorkAlways == Spec => [](TypeOK /\ WorkInv)
<1>1. TypeOK /\ WorkInv /\ [Next]_vars => (TypeOK /\ WorkInv)'
  BY TypeNext, WorkNext
<1>2. QED
  BY <1>1, InitTypeOK, InitWork, PTL DEF Spec

(* A wait goes from a smaller variant to a larger one: what r waits for,    *)
(* the plain transaction s has locked, and s itself waits for a larger one. *)
LEMMA WaitsClimb ==
  ASSUME TypeOK, WorkInv, NEW r \in Requests, NEW s \in Requests, NEW p \in todo[r], NEW q \in todo[s],
         IsNext(r, p), IsNext(s, q), WaitsFor(r, s),
         \A v \in asBundle[r] : ~(lines[r][v] > 0), \A v \in asBundle[s] : ~(lines[s][v] > 0)
  PROVE  p[2] \in Nat /\ q[2] \in Nat /\ p[2] < q[2]
<1>1. /\ todo \in [Requests -> SUBSET (Variants \X Variants)]
      /\ locked \in [Requests -> SUBSET Variants] /\ Variants \subseteq Nat
  BY CheckoutAssumption DEF CheckoutAssumption, TypeOK, WorkOK
<1>2. InOrder(r) /\ InOrder(s)
  <2>1. r # s /\ todo[r] # {} /\ todo[s] # {}
    BY DEF WaitsFor
  <2>2. QED
    BY <2>1 DEF WorkInv, Idle
<1>3. /\ p \in Variants \X Variants /\ q \in Variants \X Variants
      /\ p[2] = p[1] /\ q[2] = q[1]
  <2>1. p \in Steps(lines[r], asBundle[r]) /\ q \in Steps(lines[s], asBundle[s])
    BY <1>2 DEF InOrder
  <2>2. QED
    BY <2>1 DEF Steps
<1>4. p[2] \in locked[s]
  <2>1. PICK x \in todo[r] : IsNext(r, x) /\ x[2] \in locked[s]
    BY DEF WaitsFor
  <2>2. x[1] = p[1] /\ x[2] = p[2]
    <3>1. x \in Variants \X Variants /\ p \in Variants \X Variants
      BY <1>1
    <3>2. x[1] \in Nat /\ x[2] \in Nat /\ p[1] \in Nat /\ p[2] \in Nat
      BY <1>1, <3>1
    <3>3. /\ x[1] < p[1] \/ (x[1] = p[1] /\ x[2] <= p[2])
          /\ p[1] < x[1] \/ (p[1] = x[1] /\ p[2] <= x[2])
      BY <2>1 DEF IsNext
    <3>4. QED
      BY <3>2, <3>3
  <2>3. QED
    BY <2>1, <2>2
<1>5. PICK d \in Done(s) : d[2] = p[2]
  BY <1>2, <1>4 DEF InOrder
<1>6. d \in Variants \X Variants /\ d[2] = d[1] /\ d # q
  BY DEF Done, Steps
<1>7. d[1] < q[1] \/ (d[1] = q[1] /\ d[2] <= q[2])
  BY <1>2 DEF InOrder, Precedes
<1>8. d[1] # q[1]
  BY <1>3, <1>6
<1>9. QED
  BY <1>1, <1>3, <1>5, <1>6, <1>7, <1>8

(* Every nonempty set of naturals has a least element. *)
LEMMA LeastNat ==
  ASSUME NEW S \in SUBSET Nat, S # {}
  PROVE  \E m \in S : \A n \in S : ~(n < m)
<1>1. IsWellFoundedOn(OpToRel(<, Nat), Nat)
  BY NatLessThanWellFounded
<1>2. PICK m \in S : \A n \in S : ~(<<n, m>> \in OpToRel(<, Nat))
  BY <1>1, WFMin
<1>3. QED
  BY <1>2 DEF OpToRel

(* Checkouts and restocks of plain lines cannot wait on each other in a     *)
(* circle: whoever waits for the smallest variant of a deadlock would be    *)
(* waited for by one that waits for a smaller variant still.                *)
THEOREM PlainLinesCannotDeadlock == Spec => []PlainLinesNeverDeadlock
<1>1. TypeOK /\ WorkInv => PlainLinesNeverDeadlock
  <2> SUFFICES ASSUME TypeOK, WorkInv, NEW D \in SUBSET Requests, D # {}, Deadlock(D),
                      \A r \in D : \A v \in asBundle[r] : ~(lines[r][v] > 0)
               PROVE  FALSE
    BY DEF PlainLinesNeverDeadlock
  <2> DEFINE S == {n \in Nat : \E r \in D : \E p \in todo[r] : IsNext(r, p) /\ p[2] = n}
  <2>1. \A r \in D : r \in Requests /\ \E p \in todo[r] : IsNext(r, p) /\ p[2] \in S
    <3> SUFFICES ASSUME NEW r \in D PROVE r \in Requests /\ \E p \in todo[r] : IsNext(r, p) /\ p[2] \in S
      OBVIOUS
    <3>1. PICK p \in todo[r] : IsNext(r, p)
      BY DEF Deadlock, WaitsFor
    <3>2. p[2] \in Nat
      <4>1. /\ todo \in [Requests -> SUBSET (Variants \X Variants)] /\ Variants \subseteq Nat
            /\ r \in Requests
        BY CheckoutAssumption DEF CheckoutAssumption, TypeOK, WorkOK
      <4>2. p \in Variants \X Variants
        BY <4>1
      <4>3. QED
        BY <4>1, <4>2
    <3>3. QED
      BY <3>1, <3>2
  <2>2. S \in SUBSET Nat /\ S # {}
    <3>1. PICK r : r \in D
      OBVIOUS
    <3>2. \E p \in todo[r] : p[2] \in S
      BY <2>1, <3>1
    <3>3. QED
      BY <3>2
  <2>3. PICK m \in S : \A n \in S : ~(n < m)
    BY <2>2, LeastNat
  <2>4. PICK s \in D : \E q \in todo[s] : IsNext(s, q) /\ q[2] = m
    BY <2>3
  <2>5. PICK q \in todo[s] : IsNext(s, q) /\ q[2] = m
    BY <2>4
  <2>6. PICK r \in D : WaitsFor(r, s)
    BY <2>4 DEF Deadlock
  <2>7. PICK p \in todo[r] : IsNext(r, p) /\ p[2] \in S
    BY <2>1, <2>6
  <2>8. p[2] < q[2]
    BY <2>1, <2>5, <2>6, <2>7, WaitsClimb
  <2>9. QED
    BY <2>3, <2>5, <2>7, <2>8
<1>2. QED
  BY <1>1, WorkAlways, PTL

-----------------------------------------------------------------------------
(* Reservations are granted from what the other carts' holds leave. *)

(* The property of one step, and a cart's own hold beside the others'.      *)
HoldsCovered ==
  \A c \in Carts, v \in Variants \ Backorder :
    hold'[c][v].is = "live" /\ hold'[c][v] # hold[c][v] => HeldBy(Carts, v)' <= stock'[v]

(* After a cart is granted q units its hold counts q, the others' as before. *)
LEMMA HeldAfterGrant ==
  ASSUME TypeOK, NEW c \in Carts, NEW v \in Variants, NEW q \in 1..MaxQty,
         hold' = [hold EXCEPT ![c][v] = [qty |-> q, is |-> "live"]]
  PROVE  HeldBy(Carts, v)' = HeldBy(Carts \ {c}, v) + q
<1> DEFINE A == {u \in (Carts \ {c}) \X (1..MaxQty) :
                   hold[u[1]][v].is = "live" /\ u[2] <= hold[u[1]][v].qty}
           B == {u \in Carts \X (1..MaxQty) :
                   hold'[u[1]][v].is = "live" /\ u[2] <= hold'[u[1]][v].qty}
           T == {c} \X (1..q)
<1>1. MaxQty \in Nat /\ IsFiniteSet(Carts) /\ hold \in [Carts -> [Variants -> Hold]] /\ q \in Nat /\ q <= MaxQty
  BY CheckoutAssumption DEF CheckoutAssumption, TypeOK, TablesOK
<1>2. /\ hold'[c][v] = [qty |-> q, is |-> "live"]
      /\ \A d \in Carts \ {c} : hold'[d][v] = hold[d][v]
  BY <1>1
<1>3. B = A \cup T
  <2>1. \A u \in B : u \in A \cup T
    <3> SUFFICES ASSUME NEW u \in B PROVE u \in A \cup T
      OBVIOUS
    <3>1. u \in Carts \X (1..MaxQty) /\ hold'[u[1]][v].is = "live" /\ u[2] <= hold'[u[1]][v].qty
      OBVIOUS
    <3>2. CASE u[1] = c
      BY <1>1, <1>2, <3>1, <3>2
    <3>3. CASE u[1] # c
      BY <1>2, <3>1, <3>3
    <3>4. QED
      BY <3>2, <3>3
  <2>2. \A u \in A : u \in B
    BY <1>2
  <2>3. \A u \in T : u \in B
    <3> SUFFICES ASSUME NEW u \in T PROVE u \in B
      OBVIOUS
    <3>1. u \in {c} \X (1..q) /\ u[1] = c /\ u[2] \in 1..q
      OBVIOUS
    <3>2. u \in Carts \X (1..MaxQty) /\ u[2] <= q
      BY <1>1, <3>1
    <3>3. hold'[u[1]][v].is = "live" /\ hold'[u[1]][v].qty = q
      BY <1>2, <3>1
    <3>4. QED
      BY <3>2, <3>3
  <2>4. QED
    BY <2>1, <2>2, <2>3
<1>4. A \cap T = {}
  OBVIOUS
<1>5. IsFiniteSet(A)
  <2>1. IsFiniteSet(Carts \X (1..MaxQty))
    <3>1. IsFiniteSet(1..MaxQty)
      BY <1>1, FS_Interval
    <3>2. QED
      BY <1>1, <3>1, FS_Product
  <2>2. A \in SUBSET (Carts \X (1..MaxQty))
    OBVIOUS
  <2>3. QED
    BY <2>1, <2>2, FS_Subset
<1>6. IsFiniteSet(T) /\ Cardinality(T) = q
  BY <1>1, ColumnSize
<1>7. HeldBy(Carts, v)' = Cardinality(B) /\ HeldBy(Carts \ {c}, v) = Cardinality(A)
  BY DEF HeldBy
<1> HIDE DEF A, B, T
<1>8. Cardinality(B) = Cardinality(A) + Cardinality(T) - Cardinality(A \cap T)
  BY <1>3, <1>5, <1>6, FS_Union
<1>9. Cardinality(A \cap T) = 0 /\ Cardinality(A) \in Nat
  BY <1>4, <1>5, FS_EmptySet, FS_CardinalityType
<1>10. QED
  BY <1>1, <1>6, <1>7, <1>8, <1>9

(* reserve() is the one step that makes a hold live, and what it grants fits *)
(* beside the holds of all other carts.                                      *)
LEMMA GrantFits ==
  ASSUME TypeOK, NEW c \in Carts, NEW v \in Variants, NEW q \in HoldQty[v], NEW clamp \in BOOLEAN,
         Reserve(c, v, q, clamp)
  PROVE  HoldsCovered
<1> SUFFICES ASSUME NEW d \in Carts, NEW w \in Variants \ Backorder,
                    hold'[d][w].is = "live", hold'[d][w] # hold[d][w]
             PROVE  HeldBy(Carts, w)' <= stock'[w]
  BY DEF HoldsCovered
<1> DEFINE g == Granted(c, v, q)
<1>1. hold \in [Carts -> [Variants -> Hold]] /\ stock \in [Variants -> Int] /\ MaxQty \in Nat
  BY CheckoutAssumption DEF CheckoutAssumption, TypeOK, TablesOK
<1>2. /\ hold' = [hold EXCEPT ![c][v] = IF g = 0 THEN NoHold ELSE [qty |-> g, is |-> "live"]]
      /\ stock' = stock /\ g \in 0..MaxQty
  BY GrantedQty DEF Reserve
<1> HIDE DEF g
<1>3. d = c /\ w = v /\ g # 0
  <2>1. d = c /\ w = v
    BY <1>1, <1>2
  <2>2. g # 0
    BY <1>1, <1>2, <2>1 DEF NoHold
  <2>3. QED
    BY <2>1, <2>2
<1>4. HeldBy(Carts, v)' = HeldBy(Carts \ {c}, v) + g
  <2>1. PICK n : n = g
    OBVIOUS
  <2>2. n \in 1..MaxQty
    BY <1>1, <1>2, <1>3, <2>1
  <2>3. hold' = [hold EXCEPT ![c][v] = [qty |-> n, is |-> "live"]]
    BY <1>2, <1>3, <2>1
  <2>4. HeldBy(Carts, v)' = HeldBy(Carts \ {c}, v) + n
    BY <2>2, <2>3, HeldAfterGrant
  <2>5. QED
    BY <2>1, <2>4
<1>5. g <= LeftFor(c, v)
  <2>1. HeldBy(Carts \ {c}, v) \in Nat
    BY HeldByNat
  <2>2. LeftFor(c, v) \in Int
    BY <1>1, <2>1 DEF LeftFor
  <2>3. v \notin Backorder /\ q \in Int
    BY <1>3, CheckoutAssumption DEF CheckoutAssumption
  <2>4. QED
    BY <1>2, <1>3, <2>2, <2>3 DEF g, Granted, TooMuch
<1>6. HeldBy(Carts \ {c}, v) \in Nat
  BY HeldByNat
<1>7. QED
  BY <1>1, <1>2, <1>3, <1>4, <1>5, <1>6 DEF LeftFor

(* Every other step leaves a live hold as it was or ends it. *)
LEMMA CoveredNext == TypeOK /\ [Next]_vars => HoldsCovered
<1> SUFFICES ASSUME TypeOK, [Next]_vars PROVE HoldsCovered
  OBVIOUS
<1> USE DEF tables, carting, work, request, admin
<1>1. hold \in [Carts -> [Variants -> Hold]]
  BY DEF TypeOK, TablesOK
<1>2. CASE UNCHANGED hold
  BY <1>2 DEF HoldsCovered
<1>3. ASSUME NEW r \in Requests,
             \/ LoadExisting(r) \/ LoadCart(r) \/ LockCart(r) \/ ConsumeStep(r) \/ DiscountGone(r)
             \/ Resolve(r) \/ DeadlockVictim(r) \/ RestockStep(r) \/ RestockCommit(r) \/ Crash(r)
             \/ Pay(r) \/ Cancel(r) \/ RestockBegin(r)
      PROVE  HoldsCovered
  BY <1>2, <1>3 DEF LoadExisting, LoadCart, LockCart, ConsumeStep, DiscountGone, Resolve,
       DeadlockVictim, RestockStep, RestockCommit, Crash, Pay, Cancel, RestockBegin
<1>4. ASSUME NEW r \in Requests, Commit(r)
      PROVE  HoldsCovered
  <2>1. hold' = [hold EXCEPT ![cartOf[r]] = [v \in Variants |-> SettledHold(r, v)]]
    BY <1>4 DEF Commit
  <2>2. \A v \in Variants :
          LET row == SettledHold(r, v) IN row.is = "live" => row = hold[cartOf[r]][v]
    BY DEF SettledHold, NoHold
  <2>3. QED
    BY <1>1, <2>1, <2>2 DEF HoldsCovered
<1>5. ASSUME NEW c \in Carts, EditCart(c) \/ Flush(c)
      PROVE  HoldsCovered
  BY <1>2, <1>5 DEF EditCart, Flush
<1>6. ASSUME NEW c \in Carts, Abandon(c)
      PROVE  HoldsCovered
  BY <1>1, <1>6 DEF Abandon, HoldsCovered, NoHold
<1>7. ASSUME NEW c \in Carts, NEW v \in Variants,
             \E q \in HoldQty[v], clamp \in BOOLEAN : Reserve(c, v, q, clamp)
      PROVE  HoldsCovered
  BY <1>7, GrantFits
<1>8. ASSUME NEW c \in Carts, NEW v \in Variants, Release(c, v) \/ Expire(c, v)
      PROVE  HoldsCovered
  <2>1. CASE Release(c, v)
    BY <1>1, <2>1 DEF Release, HoldsCovered, NoHold
  <2>2. CASE Expire(c, v)
    BY <1>1, <2>2 DEF Expire, HoldsCovered, Hold
  <2>3. QED
    BY <1>8, <2>1, <2>2
<1>9. CASE Sweep
  BY <1>1, <1>9 DEF Sweep, HoldsCovered, NoHold
<1>10. ASSUME NEW v \in Variants, ToggleBundle(v) \/ \E n \in StockCounts : SetStock(v, n)
       PROVE  HoldsCovered
  BY <1>2, <1>10 DEF ToggleBundle, SetStock
<1>11. CASE UNCHANGED vars
  BY <1>2, <1>11 DEF vars
<1>12. QED
  BY <1>3, <1>4, <1>5, <1>6, <1>7, <1>8, <1>9, <1>10, <1>11 DEF Next, Serve

(* A step that grants a cart a hold leaves all live holds together within   *)
(* the stock, for any number of carts that reserve, expire and check out.   *)
THEOREM HoldsAlwaysCovered == Spec => NewHoldsCovered
<1>1. TypeOK /\ [Next]_vars => [HoldsCovered]_vars
  BY CoveredNext
<1>2. QED
  BY <1>1, TypeCorrect, PTL DEF Spec, NewHoldsCovered, HoldsCovered

-----------------------------------------------------------------------------
(* Checkout implements OrderBook as long as no product is turned into a      *)
(* bundle or back: the restock listener computes what it returns from the    *)
(* order's lines and the bundles of the day, and returns what the order took *)
(* only if the bundles are the same.                                         *)

Totals(ls) ==
  [v \in Variants |-> Cardinality(UnitsOf(Steps(ls, InitialBundles), ls, InitialBundles, v))]

Owed(r) == r \in toRestock \/ pc[r] = "restocking"

SameBundles ==
  /\ bundles = InitialBundles
  /\ \A r \in Requests : Working(r) => asBundle[r] = InitialBundles

(* An order that may still come back to the shelf took what its lines ask.  *)
UnitsKept ==
  \A r \in Requests :
    order[r].status = "pending_payment" \/ Owed(r) => order[r].units = Totals(lines[r])

OwedOnce ==
  \A r \in Requests :
    /\ order[r].status = "pending_payment" => pc[r] = "done" /\ ~order[r].credited
    /\ Owed(r) => order[r].due /\ ~order[r].credited
    /\ r \in toRestock => pc[r] = "done"

BookInv == SameBundles /\ UnitsKept /\ OwedOnce

(* What the steps below start from. *)
DetailInv == IInv /\ StoryInv /\ WorkInv /\ BookInv

(* No order, nothing owed. *)
LEMMA InitBook == Init => BookInv
BY DEF Init, BookInv, SameBundles, UnitsKept, OwedOnce, Owed, Working, NoOrder

(* Steps that move no order that may come back, nor its lines. *)
LEMMA BookKept ==
  ASSUME BookInv, order' = order, bundles' = bundles,
         \A r \in Requests :
           /\ Working(r)' => asBundle'[r] = InitialBundles
           /\ r \in toRestock' => r \in toRestock
           /\ Owed(r)' => Owed(r)
           /\ order[r].status = "pending_payment" \/ Owed(r)' => lines'[r] = lines[r]
           /\ order[r].status = "pending_payment" \/ r \in toRestock' => pc'[r] = pc[r]
  PROVE  BookInv'
<1>1. SameBundles'
  BY DEF BookInv, SameBundles
<1>2. UnitsKept'
  <2> SUFFICES ASSUME NEW r \in Requests, order[r].status = "pending_payment" \/ Owed(r)'
               PROVE  order[r].units = Totals(lines'[r])
    BY DEF UnitsKept, Totals
  <2>1. order[r].units = Totals(lines[r]) /\ lines'[r] = lines[r]
    BY DEF BookInv, UnitsKept
  <2>2. QED
    BY <2>1
<1>3. OwedOnce'
  BY DEF BookInv, OwedOnce, Owed
<1>4. QED
  BY <1>1, <1>2, <1>3 DEF BookInv

(* A request that ends owes nothing any more, and moves no order. *)
LEMMA BookOfEnd ==
  ASSUME DetailInv, NEW r \in Requests, Conflict(r) \/ End(r), pc[r] \notin {"idle", "done"},
         UNCHANGED <<order, bundles, toRestock>>
  PROVE  BookInv'
<1>1. /\ pc \in [Requests -> Stages] /\ lines \in [Requests -> [Variants -> 0..MaxQty]]
      /\ asBundle \in [Requests -> SUBSET Variants]
  BY DEF DetailInv, IInv, TypeOK, RequestOK, WorkOK
<1>2. /\ DropWork(r) /\ (pc' = [pc EXCEPT ![r] = "done"] \/ pc' = [pc EXCEPT ![r] = "conflict"])
      /\ lines' = lines \/ lines' = [lines EXCEPT ![r] = NoLines]
  BY DEF Conflict, End
<1>3. r \notin toRestock /\ order[r].status # "pending_payment"
  BY DEF DetailInv, BookInv, OwedOnce
<1>4. /\ ~Working(r)' /\ ~Owed(r)'
      /\ \A s \in Requests \ {r} : pc'[s] = pc[s] /\ lines'[s] = lines[s] /\ asBundle'[s] = asBundle[s]
  BY <1>1, <1>2, <1>3 DEF Working, Owed, DropWork
<1>5. \A s \in Requests \ {r} : /\ Working(s)' => asBundle'[s] = InitialBundles
                                /\ Owed(s)' => Owed(s)
  BY <1>4 DEF Working, Owed, DetailInv, BookInv, SameBundles
<1>6. BookInv
  BY DEF DetailInv
<1>7. QED
  BY <1>3, <1>4, <1>5, <1>6, BookKept

(* The commit: the order takes what its transaction has taken. *)
LEMMA BookOfCommit ==
  ASSUME DetailInv, NEW r \in Requests, Commit(r)
  PROVE  BookInv'
<1>1. /\ pc \in [Requests -> Stages] /\ order \in [Requests -> Order]
      /\ asBundle \in [Requests -> SUBSET Variants] /\ taken[r] \in [Variants -> Nat]
  BY DEF DetailInv, IInv, TypeOK, RequestOK, WorkOK, TablesOK
<1>2. /\ pc[r] = "consuming" /\ todo[r] = {}
      /\ order' = [order EXCEPT ![r] = NewOrder(r)] /\ pc' = [pc EXCEPT ![r] = "done"]
      /\ asBundle' = [asBundle EXCEPT ![r] = {}]
      /\ UNCHANGED <<bundles, toRestock, lines>>
  BY DEF Commit, DropWork
<1>3. r \notin toRestock /\ Working(r)
  BY <1>2 DEF DetailInv, BookInv, OwedOnce, Working
<1>4. taken[r] = Totals(lines[r])
  <2>1. asBundle[r] = InitialBundles /\ Counted(r)
    BY <1>3 DEF DetailInv, BookInv, SameBundles, WorkInv
  <2>2. Done(r) = Steps(lines[r], InitialBundles)
    BY <1>2, <2>1 DEF Done
  <2>3. \A v \in Variants :
          taken[r][v] = Cardinality(UnitsOf(Steps(lines[r], InitialBundles), lines[r], InitialBundles, v))
    BY <2>1, <2>2 DEF Counted, TakenUnits
  <2>4. QED
    BY <1>1, <2>3 DEF Totals
<1>5. SameBundles'
  BY <1>1, <1>2 DEF DetailInv, BookInv, SameBundles, Working
<1>6. UnitsKept'
  <2> SUFFICES ASSUME NEW s \in Requests, order'[s].status = "pending_payment" \/ Owed(s)'
               PROVE  order'[s].units = Totals(lines[s])
    BY <1>2 DEF UnitsKept, Totals
  <2>1. CASE s = r
    BY <1>1, <1>2, <1>4, <2>1 DEF NewOrder
  <2>2. CASE s # r
    <3>1. order'[s] = order[s] /\ (Owed(s)' => Owed(s))
      BY <1>1, <1>2, <2>2 DEF Owed
    <3>2. QED
      BY <3>1 DEF DetailInv, BookInv, UnitsKept
  <2>3. QED
    BY <2>1, <2>2
<1>7. OwedOnce'
  <2> SUFFICES ASSUME NEW s \in Requests
               PROVE  /\ order'[s].status = "pending_payment" => pc'[s] = "done" /\ ~order'[s].credited
                      /\ Owed(s)' => order'[s].due /\ ~order'[s].credited
                      /\ s \in toRestock' => pc'[s] = "done"
    BY DEF OwedOnce
  <2>1. CASE s = r
    BY <1>1, <1>2, <1>3, <2>1 DEF NewOrder, Owed
  <2>2. CASE s # r
    <3>1. order'[s] = order[s] /\ pc'[s] = pc[s] /\ toRestock' = toRestock
      BY <1>1, <1>2, <2>2
    <3>2. QED
      BY <3>1 DEF DetailInv, BookInv, OwedOnce, Owed
  <2>3. QED
    BY <2>1, <2>2
<1>8. QED
  BY <1>5, <1>6, <1>7 DEF BookInv

(* Payment, cancellation, and the two ends of a restock. *)
LEMMA BookOfOrderStep ==
  ASSUME DetailInv, NEW r \in Requests, Pay(r) \/ Cancel(r) \/ RestockBegin(r) \/ RestockCommit(r)
  PROVE  BookInv'
<1> USE DEF request, work
<1>1. /\ pc \in [Requests -> Stages] /\ order \in [Requests -> Order]
      /\ asBundle \in [Requests -> SUBSET Variants] /\ lines \in [Requests -> [Variants -> 0..MaxQty]]
  BY DEF DetailInv, IInv, TypeOK, RequestOK, WorkOK, TablesOK
<1>2. /\ \A s \in Requests \ {r} :
           /\ order'[s] = order[s] /\ pc'[s] = pc[s] /\ lines'[s] = lines[s]
           /\ asBundle'[s] = asBundle[s] /\ (s \in toRestock' <=> s \in toRestock)
      /\ bundles' = bundles
  BY <1>1 DEF Pay, Cancel, RestockBegin, RestockCommit, End, DropWork
<1>3. SameBundles /\ UnitsKept /\ OwedOnce /\ Restockable
  BY DEF DetailInv, BookInv, StoryInv, RequestsInv
<1>4. /\ Working(r)' => asBundle'[r] = InitialBundles
      /\ order'[r].status = "pending_payment" \/ Owed(r)' => order'[r].units = Totals(lines'[r])
      /\ order'[r].status = "pending_payment" => pc'[r] = "done" /\ ~order'[r].credited
      /\ Owed(r)' => order'[r].due /\ ~order'[r].credited
      /\ r \in toRestock' => pc'[r] = "done"
  <2>1. CASE Pay(r)
    <3>1. /\ order[r].status = "pending_payment" /\ order'[r].status = "paid"
          /\ UNCHANGED <<pc, lines, asBundle, toRestock>>
      BY <1>1, <2>1 DEF Pay, Order
    <3>2. ~Owed(r)' /\ ~Working(r)'
      BY <1>3, <3>1 DEF Owed, Restockable, OwedOnce, Working
    <3>3. QED
      BY <3>1, <3>2 DEF Owed
  <2>2. CASE Cancel(r)
    <3>1. /\ order[r].status \in {"pending_payment", "paid"} /\ order'[r].status = "cancelled"
          /\ order'[r].units = order[r].units /\ order'[r].credited = order[r].credited
          /\ order'[r].due = (order[r].status = "pending_payment")
          /\ toRestock' = IF order[r].status = "pending_payment" THEN toRestock \cup {r} ELSE toRestock
          /\ UNCHANGED <<pc, lines, asBundle>>
      BY <1>1, <2>2 DEF Cancel, DueOnCancel, Order
    <3>2. ~Owed(r)
      BY <1>3, <3>1 DEF Owed, Restockable
    <3>3. Working(r)' => asBundle'[r] = InitialBundles
      BY <1>3, <3>1 DEF SameBundles, Working
    <3>4. Owed(r)' => order[r].status = "pending_payment"
      BY <3>1, <3>2 DEF Owed
    <3>5. QED
      BY <1>3, <3>1, <3>2, <3>3, <3>4 DEF Owed, OwedOnce, UnitsKept
  <2>3. CASE RestockBegin(r)
    <3>1. /\ r \in toRestock /\ pc'[r] = "restocking" /\ asBundle'[r] = bundles /\ r \notin toRestock'
          /\ UNCHANGED <<order, lines>>
      BY <1>1, <2>3 DEF RestockBegin
    <3>2. Owed(r) /\ order[r].status = "cancelled"
      BY <1>3, <3>1 DEF Owed, Restockable
    <3>3. QED
      BY <1>3, <3>1, <3>2 DEF OwedOnce, UnitsKept, SameBundles
  <2>4. CASE RestockCommit(r)
    <3>1. /\ pc[r] = "restocking" /\ pc'[r] = "done" /\ order'[r].status = order[r].status
          /\ toRestock' = toRestock
      BY <1>1, <2>4 DEF RestockCommit, End, Order
    <3>2. order[r].status = "cancelled" /\ r \notin toRestock
      BY <1>3, <3>1 DEF Restockable, OwedOnce
    <3>3. QED
      BY <3>1, <3>2 DEF Owed, Working
  <2>5. QED
    BY <2>1, <2>2, <2>3, <2>4
<1>5. ASSUME NEW s \in Requests, s # r
      PROVE  /\ Working(s)' => asBundle'[s] = InitialBundles
             /\ order'[s].status = "pending_payment" \/ Owed(s)' => order'[s].units = Totals(lines'[s])
             /\ order'[s].status = "pending_payment" => pc'[s] = "done" /\ ~order'[s].credited
             /\ Owed(s)' => order'[s].due /\ ~order'[s].credited
             /\ s \in toRestock' => pc'[s] = "done"
  <2>1. (Owed(s)' <=> Owed(s)) /\ (Working(s)' <=> Working(s))
    BY <1>2, <1>5 DEF Owed, Working
  <2>2. QED
    BY <1>2, <1>3, <1>5, <2>1 DEF SameBundles, UnitsKept, OwedOnce
<1>6. SameBundles'
  BY <1>2, <1>3, <1>4, <1>5 DEF SameBundles
<1>7. UnitsKept'
  BY <1>4, <1>5 DEF UnitsKept, Totals
<1>8. OwedOnce'
  BY <1>4, <1>5 DEF OwedOnce
<1>9. QED
  BY <1>6, <1>7, <1>8 DEF BookInv

(* As long as no product changes its kind, every step keeps what is owed.   *)
LEMMA BookNext ==
  ASSUME MaxToggles = 0
  PROVE  DetailInv /\ [Next]_vars => BookInv'
<1> SUFFICES ASSUME DetailInv, [Next]_vars PROVE BookInv'
  OBVIOUS
<1> USE DEF tables, carting, work, request, admin
<1>1. /\ pc \in [Requests -> Stages] /\ lines \in [Requests -> [Variants -> 0..MaxQty]]
      /\ asBundle \in [Requests -> SUBSET Variants]
  BY DEF DetailInv, IInv, TypeOK, RequestOK, WorkOK
<1>2. BookInv /\ SameBundles /\ OwedOnce /\ Unordered /\ Restockable
  BY DEF DetailInv, BookInv, StoryInv, RequestsInv
<1>3. ASSUME NEW r \in Requests, LoadExisting(r) \/ LoadCart(r)
      PROVE  BookInv'
  <2>1. /\ pc[r] = "idle" /\ UNCHANGED <<order, bundles, toRestock, asBundle>>
        /\ pc' = [pc EXCEPT ![r] = "done"] \/ pc' = [pc EXCEPT ![r] = "loaded"]
        /\ \A s \in Requests \ {r} : lines'[s] = lines[s]
    BY <1>1, <1>3 DEF LoadExisting, LoadCart
  <2>2. r \notin toRestock /\ order[r].status # "pending_payment"
    BY <1>2, <2>1 DEF OwedOnce
  <2>3. ~Owed(r)' /\ ~Working(r)' /\ \A s \in Requests \ {r} : pc'[s] = pc[s]
    BY <1>1, <2>1, <2>2 DEF Owed, Working
  <2>4. \A s \in Requests \ {r} : /\ Working(s)' => asBundle'[s] = InitialBundles
                                  /\ Owed(s)' => Owed(s)
    BY <1>2, <2>1, <2>3 DEF Working, Owed, SameBundles
  <2>5. QED
    BY <1>2, <2>1, <2>2, <2>3, <2>4, BookKept
<1>4. ASSUME NEW r \in Requests, LockCart(r)
      PROVE  BookInv'
  <2>1. pc[r] = "loaded" /\ UNCHANGED <<order, bundles, toRestock>>
    BY <1>4 DEF LockCart
  <2>2. CASE Conflict(r) \/ End(r)
    BY <2>1, <2>2, BookOfEnd
  <2>3. CASE ~(Conflict(r) \/ End(r))
    <3>1. /\ pc' = [pc EXCEPT ![r] = "consuming"] /\ asBundle' = [asBundle EXCEPT ![r] = bundles]
          /\ lines' = lines
      BY <1>4, <2>3 DEF LockCart
    <3>2. r \notin toRestock /\ order[r].status # "pending_payment"
      BY <1>2, <2>1 DEF OwedOnce
    <3>3. \A s \in Requests : /\ Working(s)' => asBundle'[s] = InitialBundles
                              /\ Owed(s)' => Owed(s)
      BY <1>1, <1>2, <2>1, <3>1, <3>2 DEF Working, Owed, SameBundles
    <3>4. QED
      BY <1>1, <1>2, <2>1, <3>1, <3>2, <3>3, BookKept
  <2>4. QED
    BY <2>2, <2>3
<1>5. ASSUME NEW r \in Requests, ConsumeStep(r) \/ RestockStep(r)
      PROVE  BookInv'
  <2>1. UNCHANGED <<order, bundles, toRestock>> /\ pc[r] \in {"consuming", "restocking"}
    BY <1>5 DEF ConsumeStep, RestockStep
  <2>2. CASE Conflict(r)
    BY <2>1, <2>2, BookOfEnd
  <2>3. CASE ~Conflict(r)
    <3>1. UNCHANGED <<pc, lines, asBundle>>
      BY <1>5, <2>3 DEF ConsumeStep, RestockStep, Take
    <3>2. \A s \in Requests : (Working(s)' => asBundle'[s] = InitialBundles) /\ (Owed(s)' => Owed(s))
      BY <1>2, <2>1, <3>1 DEF Working, Owed, SameBundles
    <3>3. QED
      BY <1>2, <2>1, <3>1, <3>2, BookKept
  <2>4. QED
    BY <2>2, <2>3
<1>6. ASSUME NEW r \in Requests, Commit(r)
      PROVE  BookInv'
  BY <1>6, BookOfCommit
<1>7. ASSUME NEW r \in Requests, DiscountGone(r) \/ DeadlockVictim(r) \/ Crash(r)
      PROVE  BookInv'
  <2>1. UNCHANGED <<order, bundles, toRestock>> /\ (Conflict(r) \/ End(r))
    BY <1>7 DEF DiscountGone, DeadlockVictim, Crash
  <2>2. pc[r] \in {"loaded", "consuming", "restocking"}
    BY <1>7 DEF DiscountGone, DeadlockVictim, Crash, Deadlock, WaitsFor
  <2>3. QED
    BY <2>1, <2>2, BookOfEnd
<1>8. ASSUME NEW r \in Requests, Resolve(r)
      PROVE  BookInv'
  <2>1. UNCHANGED <<order, bundles, toRestock>> /\ pc[r] = "conflict"
    BY <1>8 DEF Resolve
  <2>2. CASE End(r)
    BY <2>1, <2>2, BookOfEnd
  <2>3. CASE ~End(r)
    <3>1. /\ pc' = [pc EXCEPT ![r] = "done"] /\ lines' = [lines EXCEPT ![r] = NoLines]
          /\ asBundle' = asBundle
      BY <1>8, <2>3 DEF Resolve
    <3>2. r \notin toRestock /\ order[r].status # "pending_payment"
      BY <1>2, <2>1 DEF OwedOnce
    <3>3. \A s \in Requests : /\ Working(s)' => asBundle'[s] = InitialBundles
                              /\ Owed(s)' => Owed(s) /\ s # r
      BY <1>1, <1>2, <2>1, <3>1, <3>2 DEF Working, Owed, SameBundles
    <3>4. \A s \in Requests \ {r} : pc'[s] = pc[s] /\ lines'[s] = lines[s]
      BY <1>1, <3>1
    <3>5. QED
      BY <1>2, <2>1, <3>2, <3>3, <3>4, BookKept
  <2>4. QED
    BY <2>2, <2>3
<1>9. ASSUME NEW r \in Requests, Pay(r) \/ Cancel(r) \/ RestockBegin(r) \/ RestockCommit(r)
      PROVE  BookInv'
  BY <1>9, BookOfOrderStep
<1>10. CASE UNCHANGED <<order, bundles, toRestock, pc, lines, asBundle>>
  <2>1. \A s \in Requests : (Working(s)' => asBundle'[s] = InitialBundles) /\ (Owed(s)' => Owed(s))
    BY <1>2, <1>10 DEF Working, Owed, SameBundles
  <2>2. QED
    BY <1>2, <1>10, <2>1, BookKept
<1>11. ASSUME NEW c \in Carts, EditCart(c) \/ Abandon(c) \/ Flush(c)
       PROVE  BookInv'
  BY <1>10, <1>11 DEF EditCart, Abandon, Flush
<1>12. ASSUME NEW c \in Carts, NEW v \in Variants,
              \/ \E q \in HoldQty[v], clamp \in BOOLEAN : Reserve(c, v, q, clamp)
              \/ Release(c, v) \/ Expire(c, v)
       PROVE  BookInv'
  BY <1>10, <1>12 DEF Reserve, Release, Expire
<1>13. CASE Sweep
  BY <1>10, <1>13 DEF Sweep
<1>14. ASSUME NEW v \in Variants, ToggleBundle(v)
       PROVE  BookInv'
  <2>1. toggles \in Nat /\ toggles < 0
    BY <1>14 DEF ToggleBundle, DetailInv, IInv, TypeOK, AdminOK
  <2>2. QED
    BY <2>1
<1>15. ASSUME NEW v \in Variants, NEW n \in StockCounts, SetStock(v, n)
       PROVE  BookInv'
  BY <1>10, <1>15 DEF SetStock
<1>16. CASE UNCHANGED vars
  BY <1>10, <1>16 DEF vars
<1>17. QED
  BY <1>3, <1>4, <1>5, <1>6, <1>7, <1>8, <1>9, <1>11, <1>12, <1>13, <1>14, <1>15, <1>16
     DEF Next, Serve

-----------------------------------------------------------------------------
(* Step by step: what a transaction does before its end is a stutter of the *)
(* order book, its commit is one action of it.                              *)

(* What an update of an entry's fields gives, field by field. *)
LEMMA OrderEntryUpdates ==
  ASSUME NEW r, NEW y
  PROVE  /\ Book!NewEntry(y) = [status |-> "pending_payment", units |-> y, due |-> FALSE, credited |-> FALSE]
         /\ [Entry(r) EXCEPT !.status = "cancelled", !.due = y] =
              [status |-> "cancelled", units |-> order[r].units, due |-> y, credited |-> order[r].credited]
         /\ [Entry(r) EXCEPT !.credited = y] =
              [status |-> order[r].status, units |-> order[r].units, due |-> order[r].due, credited |-> y]
<1>1. PICK a, b, c, d, e, x : /\ a = order[r].status /\ b = order[r].units /\ c = order[r].due
                              /\ d = order[r].credited /\ e = Entry(r) /\ x = "cancelled"
  OBVIOUS
<1>2. e = [status |-> a, units |-> b, due |-> c, credited |-> d]
  BY <1>1 DEF Entry
<1>3. [e EXCEPT !.status = x, !.due = y] = [status |-> x, units |-> b, due |-> y, credited |-> d]
  <2>1. PICK g : g = [e EXCEPT !.status = x]
    OBVIOUS
  <2>2. g = [status |-> x, units |-> b, due |-> c, credited |-> d]
    BY <1>2, <2>1
  <2>3. [e EXCEPT !.status = x, !.due = y] = [[e EXCEPT !.status = x] EXCEPT !.due = y]
    BY Zenon
  <2>4. [g EXCEPT !.due = y] = [status |-> x, units |-> b, due |-> y, credited |-> d]
    BY <2>2
  <2>5. QED
    BY <2>1, <2>3, <2>4, Zenon
<1>4. [e EXCEPT !.credited = y] = [status |-> a, units |-> b, due |-> c, credited |-> y]
  BY <1>2
<1>5. PICK n, u, f, p : /\ n = Book!NoEntry /\ u = [v \in Variants |-> 0] /\ f = FALSE
                        /\ p = "pending_payment"
  OBVIOUS
<1>6. n = [status |-> "none", units |-> u, due |-> f, credited |-> f]
  BY <1>5 DEF Book!NoEntry
<1>7. [n EXCEPT !.status = p, !.units = y] = [status |-> p, units |-> y, due |-> f, credited |-> f]
  <2>1. PICK g : g = [n EXCEPT !.status = p]
    OBVIOUS
  <2>2. g = [status |-> p, units |-> u, due |-> f, credited |-> f]
    BY <1>6, <2>1
  <2>3. [n EXCEPT !.status = p, !.units = y] = [[n EXCEPT !.status = p] EXCEPT !.units = y]
    BY Zenon
  <2>4. [g EXCEPT !.units = y] = [status |-> p, units |-> y, due |-> f, credited |-> f]
    BY <2>2
  <2>5. QED
    BY <2>1, <2>3, <2>4, Zenon
<1>8. Book!NewEntry(y) = [status |-> "pending_payment", units |-> y, due |-> FALSE, credited |-> FALSE]
  BY <1>5, <1>7 DEF Book!NewEntry
<1>9. QED
  BY <1>1, <1>3, <1>4, <1>8

(* The commit places the order: all its units at once, none of them sold.   *)
LEMMA CommitPlaces ==
  ASSUME DetailInv, NEW r \in Requests, Commit(r)
  PROVE  Book!Place(r)
<1> DEFINE book == [s \in Requests |-> Entry(s)]
<1>1. /\ order \in [Requests -> Order] /\ taken \in [Requests -> [Variants -> Nat]]
      /\ stock \in [Variants -> Int]
  BY DEF DetailInv, IInv, TypeOK, WorkOK, TablesOK
<1>2. /\ pc[r] = "consuming" /\ order[r] = NoOrder
      /\ order' = [order EXCEPT ![r] = NewOrder(r)]
      /\ stock' = [v \in Variants |-> stock[v] - taken[r][v]]
  BY DEF Commit, Left, DetailInv, StoryInv, RequestsInv, Unordered, Starting
<1>3. book[r] = Book!NoEntry
  <2>1. Entry(r) = Book!NoEntry
    BY <1>2 DEF Entry, NoOrder, NoLines, Book!NoEntry
  <2>2. QED
    BY <2>1
<1>4. book'[r].units = taken[r]
  BY <1>1, <1>2 DEF Entry, NewOrder
<1>5. \A v \in Variants \ Backorder : taken[r][v] <= stock[v]
  BY <1>2 DEF DetailInv, IInv, LockInv, TakenIsCovered
<1>6. book' = [book EXCEPT ![r] = Book!NewEntry(taken[r])]
  <2>1. Entry(r)' = Book!NewEntry(taken[r])
    <3>1. order'[r] = NewOrder(r)
      BY <1>1, <1>2
    <3>2. Entry(r)' = [status |-> "pending_payment", units |-> taken[r], due |-> FALSE, credited |-> FALSE]
      BY <3>1 DEF Entry, NewOrder
    <3>3. QED
      BY <3>2, OrderEntryUpdates
  <2>2. \A s \in Requests \ {r} : Entry(s)' = Entry(s)
    BY <1>1, <1>2 DEF Entry
  <2>3. QED
    BY <2>1, <2>2
<1>7. QED
  BY <1>1, <1>2, <1>3, <1>4, <1>5, <1>6 DEF Book!Place

(* The order's later steps are the book's own. *)
LEMMA OrderStepsMap ==
  ASSUME DetailInv, NEW r \in Requests
  PROVE  /\ Pay(r) => Book!Pay(r)
         /\ Cancel(r) => Book!Cancel(r)
<1> DEFINE book == [s \in Requests |-> Entry(s)]
<1>1. order \in [Requests -> Order]
  BY DEF DetailInv, IInv, TypeOK, TablesOK
<1>2. ASSUME Pay(r) PROVE Book!Pay(r)
  <2>1. /\ order[r].status = "pending_payment" /\ stock' = stock
        /\ order' = [order EXCEPT ![r].status = "paid"]
    BY <1>2 DEF Pay
  <2>2. Entry(r)' = [Entry(r) EXCEPT !.status = "paid"]
    BY <1>1, <2>1 DEF Entry, Order
  <2>3. \A s \in Requests \ {r} : Entry(s)' = Entry(s)
    BY <1>1, <2>1 DEF Entry
  <2>4. book' = [book EXCEPT ![r].status = "paid"]
    BY <2>2, <2>3
  <2>5. book[r].status = "pending_payment"
    BY <2>1 DEF Entry
  <2>6. QED
    BY <2>1, <2>4, <2>5 DEF Book!Pay
<1>3. ASSUME Cancel(r) PROVE Book!Cancel(r)
  <2>1. /\ order[r].status \in {"pending_payment", "paid"} /\ stock' = stock
        /\ order' = [order EXCEPT ![r] = [order[r] EXCEPT !.status = "cancelled", !.due = DueOnCancel(r)]]
    BY <1>1, <1>3 DEF Cancel
  <2>2. Entry(r)' = [Entry(r) EXCEPT !.status = "cancelled", !.due = (Entry(r).status = "pending_payment")]
    <3>1. order'[r] = [order[r] EXCEPT !.status = "cancelled", !.due = DueOnCancel(r)]
      BY <1>1, <2>1
    <3>2. Entry(r)' = [status |-> "cancelled", units |-> order[r].units, due |-> DueOnCancel(r),
                       credited |-> order[r].credited]
      BY <1>1, <3>1 DEF Entry, Order
    <3>3. PICK y : y = DueOnCancel(r)
      OBVIOUS
    <3>4. y = (Entry(r).status = "pending_payment")
      BY <3>3 DEF Entry, DueOnCancel
    <3>5. [Entry(r) EXCEPT !.status = "cancelled", !.due = y] =
            [status |-> "cancelled", units |-> order[r].units, due |-> y, credited |-> order[r].credited]
      BY OrderEntryUpdates
    <3>6. QED
      BY <3>2, <3>3, <3>4, <3>5
  <2>3. \A s \in Requests \ {r} : Entry(s)' = Entry(s)
    BY <1>1, <2>1 DEF Entry
  <2>4. book' = [book EXCEPT ![r] = [Entry(r) EXCEPT !.status = "cancelled",
                                                     !.due = (Entry(r).status = "pending_payment")]]
    BY <2>2, <2>3
  <2>5. book' = [book EXCEPT ![r].status = "cancelled", ![r].due = (book[r].status = "pending_payment")]
    BY <2>4
  <2>6. book[r].status \in {"pending_payment", "paid"}
    BY <2>1 DEF Entry
  <2>7. QED
    BY <2>1, <2>5, <2>6 DEF Book!Cancel
<1>4. QED
  BY <1>2, <1>3

(* A restock returns exactly what the order took, and only once. *)
LEMMA RestockCredits ==
  ASSUME DetailInv, NEW r \in Requests, RestockCommit(r)
  PROVE  Book!Credit(r)
<1> DEFINE book == [s \in Requests |-> Entry(s)]
<1>1. /\ order \in [Requests -> Order] /\ taken \in [Requests -> [Variants -> Nat]]
      /\ stock \in [Variants -> Int]
  BY DEF DetailInv, IInv, TypeOK, WorkOK, TablesOK
<1>2. /\ pc[r] = "restocking" /\ todo[r] = {}
      /\ stock' = [v \in Variants |-> stock[v] + taken[r][v]]
      /\ order' = [order EXCEPT ![r].credited = TRUE]
  BY DEF RestockCommit
<1>3. order[r].due /\ ~order[r].credited /\ order[r].units = Totals(lines[r])
  BY <1>2 DEF DetailInv, BookInv, OwedOnce, UnitsKept, Owed
<1>4. \A v \in Variants : taken[r][v] = order[r].units[v]
  <2>1. Working(r)
    BY <1>2 DEF Working
  <2>2. asBundle[r] = InitialBundles /\ Counted(r)
    BY <2>1 DEF DetailInv, BookInv, SameBundles, WorkInv
  <2>3. Done(r) = Steps(lines[r], InitialBundles)
    BY <1>2, <2>2 DEF Done
  <2>4. \A v \in Variants :
          taken[r][v] = Cardinality(UnitsOf(Steps(lines[r], InitialBundles), lines[r], InitialBundles, v))
    BY <2>2, <2>3 DEF Counted, TakenUnits
  <2>5. QED
    BY <1>3, <2>4 DEF Totals
<1>5. Entry(r)' = [Entry(r) EXCEPT !.credited = TRUE]
  <2>1. order'[r] = [order[r] EXCEPT !.credited = TRUE] /\ order[r] \in Order
    BY <1>1, <1>2
  <2>2. Entry(r)' = [status |-> order[r].status, units |-> order[r].units, due |-> order[r].due,
                     credited |-> TRUE]
    BY <2>1 DEF Entry, Order
  <2>3. PICK y : y = TRUE
    OBVIOUS
  <2>4. [Entry(r) EXCEPT !.credited = y] =
          [status |-> order[r].status, units |-> order[r].units, due |-> order[r].due, credited |-> y]
    BY OrderEntryUpdates
  <2>5. QED
    BY <2>2, <2>3, <2>4
<1>6. \A s \in Requests \ {r} : Entry(s)' = Entry(s)
  BY <1>1, <1>2 DEF Entry
<1>7. book' = [book EXCEPT ![r].credited = TRUE]
  BY <1>5, <1>6
<1>8. stock' = [v \in Variants |-> stock[v] + book[r].units[v]]
  BY <1>2, <1>4 DEF Entry
<1>9. book[r].due /\ ~book[r].credited
  BY <1>3 DEF Entry
<1>10. QED
  BY <1>7, <1>8, <1>9 DEF Book!Credit

(* An empty book, and every step an action of it or none. *)
LEMMA BookInit == Init => Book!Init
<1> SUFFICES ASSUME Init PROVE Book!Init
  OBVIOUS
<1>1. stock \in [Variants -> Nat]
  BY CheckoutAssumption DEF CheckoutAssumption, Init
<1>2. [r \in Requests |-> Entry(r)] = [r \in Requests |-> Book!NoEntry]
  BY DEF Init, Entry, NoOrder, NoLines, Book!NoEntry
<1>3. QED
  BY <1>1, <1>2 DEF Book!Init

LEMMA BookStep == DetailInv /\ [Next]_vars => [Book!Next]_Book!bookVars
<1> SUFFICES ASSUME DetailInv, [Next]_vars PROVE [Book!Next]_Book!bookVars
  OBVIOUS
<1> USE DEF tables, carting, work, request, admin
<1>1. CASE UNCHANGED <<stock, order>>
  BY <1>1 DEF Book!bookVars, Entry
<1>2. ASSUME NEW r \in Requests,
             \/ LoadExisting(r) \/ LoadCart(r) \/ LockCart(r) \/ ConsumeStep(r) \/ DiscountGone(r)
             \/ Resolve(r) \/ DeadlockVictim(r) \/ RestockStep(r) \/ Crash(r) \/ RestockBegin(r)
      PROVE  [Book!Next]_Book!bookVars
  BY <1>1, <1>2 DEF LoadExisting, LoadCart, LockCart, ConsumeStep, DiscountGone,
       Resolve, DeadlockVictim, RestockStep, Crash, RestockBegin
<1>3. ASSUME NEW r \in Requests, Commit(r) \/ Pay(r) \/ Cancel(r) \/ RestockCommit(r)
      PROVE  Book!Next
  BY <1>3, CommitPlaces, OrderStepsMap, RestockCredits DEF Book!Next
<1>4. ASSUME NEW c \in Carts, EditCart(c) \/ Abandon(c) \/ Flush(c)
      PROVE  [Book!Next]_Book!bookVars
  BY <1>1, <1>4 DEF EditCart, Abandon, Flush
<1>5. ASSUME NEW c \in Carts, NEW v \in Variants,
             \/ \E q \in HoldQty[v], clamp \in BOOLEAN : Reserve(c, v, q, clamp)
             \/ Release(c, v) \/ Expire(c, v)
      PROVE  [Book!Next]_Book!bookVars
  BY <1>1, <1>5 DEF Reserve, Release, Expire
<1>6. CASE Sweep
  BY <1>1, <1>6 DEF Sweep
<1>7. ASSUME NEW v \in Variants, ToggleBundle(v)
      PROVE  [Book!Next]_Book!bookVars
  BY <1>1, <1>7 DEF ToggleBundle
<1>8. ASSUME NEW v \in Variants, NEW n \in StockCounts, SetStock(v, n)
      PROVE  Book!Next
  <2>1. stock' = [stock EXCEPT ![v] = n] /\ n \in Nat /\ order' = order /\ stock \in [Variants -> Int]
    BY <1>8, CheckoutAssumption DEF CheckoutAssumption, SetStock, DetailInv, IInv, TypeOK, TablesOK
  <2>2. [r \in Requests |-> Entry(r)]' = [r \in Requests |-> Entry(r)]
    BY <2>1 DEF Entry
  <2>3. Book!SetStock(v)
    BY <2>1, <2>2 DEF Book!SetStock
  <2>4. QED
    BY <2>3 DEF Book!Next
<1>9. CASE UNCHANGED vars
  BY <1>1, <1>9 DEF vars
<1>10. QED
  BY <1>2, <1>3, <1>4, <1>5, <1>6, <1>7, <1>8, <1>9 DEF Next, Serve

(* With locks, waits, deadlocks, 409s and crashes in it, Checkout is an     *)
(* order book: an order takes all of its units at once or none, what it     *)
(* took comes back at most once and in full, for any number of requests,    *)
(* carts and variants, as long as no product changes its kind.              *)
THEOREM ImplementsTheOrderBook ==
  ASSUME MaxToggles = 0
  PROVE  Spec => ImplementsOrderBook
<1>1. Init => DetailInv
  BY InitIInv, InitStory, InitWork, InitBook DEF DetailInv
<1>2. DetailInv /\ [Next]_vars => DetailInv'
  <2>1. DetailInv /\ [Next]_vars => BookInv'
    BY BookNext
  <2>2. QED
    BY <2>1, TypeNext, LockNext, StoryNext, WorkNext DEF DetailInv, IInv
<1>3. QED
  BY <1>1, <1>2, BookInit, BookStep, PTL DEF Spec, ImplementsOrderBook, Book!Spec
=============================================================================
