------------------------------- MODULE MCRefunds -------------------------------
(* The small instances of Refunds that TLC checks. *)
EXTENDS Refunds, TLC

LineAsk == {[lines |-> 1, restock |-> TRUE]}
FullAsk == {[full |-> TRUE, restock |-> TRUE]}
TwoAsks == {[lines |-> 1, restock |-> TRUE], [full |-> TRUE, restock |-> TRUE]}

MCSymmetry == Permutations(Refunds) \cup Permutations(Workers)
=============================================================================
