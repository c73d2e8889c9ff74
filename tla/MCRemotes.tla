------------------------------ MODULE MCRemotes ------------------------------
(* Remotes on small instances: TLC needs a module of its own for the root. *)
EXTENDS Remotes
=============================================================================
