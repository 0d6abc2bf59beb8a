------------------------------ MODULE MCPayments ------------------------------
(* The small instances of Payments that TLC checks. *)
EXTENDS Payments, TLC

MCSymmetry == Permutations(Intents) \cup Permutations(Workers) \cup Permutations(Clients)
=============================================================================
