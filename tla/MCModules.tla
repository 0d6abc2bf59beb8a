------------------------------- MODULE MCModules -------------------------------
(* The small instances of ModuleRuntime that TLC checks. *)
EXTENDS ModuleRuntime
=============================================================================
