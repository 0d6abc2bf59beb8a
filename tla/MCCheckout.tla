------------------------------ MODULE MCCheckout ------------------------------
(* The small instances of Checkout that TLC checks. *)
EXTENDS Checkout, TLC

CONSTANTS c1, c2, r1, r2, r3

MCSymmetry == Permutations(Carts) \cup Permutations(Requests)

(* Variant 1 is sold as a bundle of one unit of variant 3; 2 and 3 plain.   *)
MCVariants == 1..3
MCParts == [b \in MCVariants |-> [v \in MCVariants |-> IF b = 1 /\ v = 3 THEN 1 ELSE 0]]
MCStock == [v \in MCVariants |-> IF v = 1 THEN 0 ELSE 2]
MCContents == {<<1, 1, 0>>, <<0, 1, 1>>}
NoHolds == [v \in MCVariants |-> {}]

(* Two variants: 1 a bundle of two units of 2, for the runs with holds.     *)
SmallVariants == 1..2
SmallParts == [b \in SmallVariants |-> [v \in SmallVariants |-> IF b = 1 /\ v = 2 THEN 2 ELSE 0]]
SmallStock == [v \in SmallVariants |-> IF v = 1 THEN 1 ELSE 2]
SmallContents == {<<1, 0>>, <<0, 2>>}
SmallHolds == [v \in SmallVariants |-> {v}]
=============================================================================
