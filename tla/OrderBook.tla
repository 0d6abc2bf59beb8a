------------------------------ MODULE OrderBook ------------------------------
(***************************************************************************)
(* What order creation promises about stock, with no transactions in it: an *)
(* order takes every unit of every line at once or takes nothing, a variant *)
(* without backorder never gives a unit it does not have, and exactly the   *)
(* units an order took come back, at most once, after the order was         *)
(* cancelled unpaid.  Checkout.tla is shown to implement this.              *)
(***************************************************************************)
EXTENDS Integers

CONSTANTS
  Requests,   \* checkout requests; an order is named by the request that made it
  Variants,   \* product variants
  Backorder   \* the variants with allow_backorder

VARIABLES
  stock,      \* [Variants -> Int]    product_variants.stock_quantity
  book        \* [Requests -> Entry]  the orders

bookVars == <<stock, book>>

Statuses == {"none", "pending_payment", "paid", "cancelled"}

(* due: the order was cancelled unpaid, so its units are owed to the shelf; *)
(* credited: they are back.                                                 *)
Entry == [status: Statuses, units: [Variants -> Nat], due: BOOLEAN, credited: BOOLEAN]

NoEntry == [status |-> "none", units |-> [v \in Variants |-> 0],
            due |-> FALSE, credited |-> FALSE]

NewEntry(units) == [NoEntry EXCEPT !.status = "pending_payment", !.units = units]

Init ==
  /\ stock \in [Variants -> Nat]
  /\ book = [r \in Requests |-> NoEntry]

(* All or nothing, and never more than a variant without backorder has. *)
Place(r) ==
  LET units == book'[r].units IN
  /\ book[r] = NoEntry
  /\ units \in [Variants -> Nat]
  /\ \A v \in Variants \ Backorder : units[v] > 0 => units[v] <= stock[v]
  /\ book' = [book EXCEPT ![r] = NewEntry(units)]
  /\ stock' = [v \in Variants |-> stock[v] - units[v]]

Pay(r) ==
  /\ book[r].status = "pending_payment"
  /\ book' = [book EXCEPT ![r].status = "paid"]
  /\ UNCHANGED stock

Cancel(r) ==
  /\ book[r].status \in {"pending_payment", "paid"}
  /\ book' = [book EXCEPT ![r].status = "cancelled",
                          ![r].due    = (book[r].status = "pending_payment")]
  /\ UNCHANGED stock

Credit(r) ==
  /\ book[r].due /\ ~book[r].credited
  /\ stock' = [v \in Variants |-> stock[v] + book[r].units[v]]
  /\ book' = [book EXCEPT ![r].credited = TRUE]

(* The merchant counts the shelf and writes the number down. *)
SetStock(v) ==
  /\ stock'[v] \in Nat
  /\ stock' = [stock EXCEPT ![v] = stock'[v]]
  /\ UNCHANGED book

Next ==
  \/ \E r \in Requests : Place(r) \/ Pay(r) \/ Cancel(r) \/ Credit(r)
  \/ \E v \in Variants : SetStock(v)

Spec == Init /\ [][Next]_bookVars
=============================================================================
