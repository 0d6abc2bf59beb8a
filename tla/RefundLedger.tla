----------------------------- MODULE RefundLedger -----------------------------
(***************************************************************************)
(* What RefundService promises of a paid order's money and stock, with no   *)
(* request, gateway or event in it: a refund takes its amount out of what   *)
(* is left, once, when it is recorded; it is credited, its units going back *)
(* to the shelf with the credit note, or released, its money being again    *)
(* left, and either is final.  Refunds.tla is shown to implement this.      *)
(***************************************************************************)
EXTENDS Integers

CONSTANTS Refunds, Qty, Total

VARIABLES
  entry,    \* [Refunds -> Blank or [st, amount, back]]
  balance,  \* the money taken
  shelf     \* the units given back

Blank == [st |-> "none"]

Init == entry = [r \in Refunds |-> Blank] /\ balance = 0 /\ shelf = 0

(* A refund fits what is left of the order. *)
Opens(r, st, n, b) ==
  /\ entry[r] = Blank /\ balance + n <= Total
  /\ entry' = [entry EXCEPT ![r] = [st |-> st, amount |-> n, back |-> b]]
  /\ balance' = balance + n

Reserve(r, n, b) == Opens(r, "reserved", n, b) /\ shelf' = shelf
Credit(r, n, b)  == Opens(r, "credited", n, b) /\ shelf' = shelf + b

Ends(r, st) == entry[r].st = "reserved" /\ entry' = [entry EXCEPT ![r].st = st]

Confirm(r) == Ends(r, "credited") /\ shelf' = shelf + entry[r].back /\ balance' = balance
Reject(r)  == Ends(r, "released") /\ balance' = balance - entry[r].amount /\ shelf' = shelf

Next ==
  \E r \in Refunds :
    \/ \E n \in 1..Total, b \in 0..Qty : Reserve(r, n, b) \/ Credit(r, n, b)
    \/ Confirm(r) \/ Reject(r)

Spec == Init /\ [][Next]_<<entry, balance, shelf>>
=============================================================================
