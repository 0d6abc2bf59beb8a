-------------------------------- MODULE MCCarts --------------------------------
(* The small instances of CartStore that TLC checks. *)
EXTENDS CartStore

=============================================================================
