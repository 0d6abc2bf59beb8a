------------------------------ MODULE MCFulfilment ------------------------------
(* Fulfilment on a small instance. *)
EXTENDS Fulfilment, TLC

MCSymmetry == Permutations(Staff) \cup Permutations(Workers) \cup Permutations(Returns)

=============================================================================
