----------------------------- MODULE CartRegister -----------------------------
(***************************************************************************)
(* What CartRepository.mutate promises of a cart, with no WATCH, retry or   *)
(* flush in it: a cart is one register, every edit takes effect at once on  *)
(* what the edits before it made, within the stock and on a live cart; but  *)
(* for an abandon it changes one line at most, and a line keeps its id.     *)
(* Nothing is promised once Redis has lost the cart.  CartStore.tla is      *)
(* shown to implement this.                                                 *)
(***************************************************************************)
EXTENDS Integers

CONSTANTS Variants, Stock, Amounts

VARIABLE cart  \* [lines, status, edits], or Lost

NoLine == [id |-> 0, qty |-> 0]
Lost   == [status |-> "lost"]

Init == cart = [lines |-> [v \in Variants |-> NoLine], status |-> "active", edits |-> 0]

(* One edit more; a new line is named by it. *)
Edited(lines, status) == cart' = [lines |-> lines, status |-> status, edits |-> cart.edits + 1]
Live                  == cart.status = "active"
Lists(v)              == cart.lines[v] # NoLine

Add(v, n) ==
  LET l == cart.lines[v] IN
  /\ Live /\ l.qty + n <= Stock
  /\ Edited([cart.lines EXCEPT ![v] = [id  |-> IF Lists(v) THEN l.id ELSE cart.edits + 1,
                                       qty |-> l.qty + n]], "active")

Update(v, n) == Live /\ Lists(v) /\ Edited([cart.lines EXCEPT ![v].qty = n], "active")
Remove(v)    == Live /\ Edited([cart.lines EXCEPT ![v] = NoLine], "active")
Abandon      == Live /\ Edited([v \in Variants |-> NoLine], "abandoned")

(* An address, a code, a removal that finds its line gone. *)
Touch == Live /\ Edited(cart.lines, "active")

Lose == cart' = Lost

Next ==
  \/ \E v \in Variants, n \in Amounts : Add(v, n) \/ Update(v, n)
  \/ \E v \in Variants : Remove(v)
  \/ Abandon \/ Touch \/ Lose

Spec == Init /\ [][Next]_cart
=============================================================================
