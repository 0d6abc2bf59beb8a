-------------------------------- MODULE MCLogins --------------------------------
(* The small instances of CartLogin that TLC checks. *)
EXTENDS CartLogin, TLC

MCSymmetry == Permutations(Customers) \cup Permutations(Carts) \cup Permutations(Logins)
=============================================================================
