------------------------------ MODULE MCConsole ------------------------------
(* Console on small instances; consoles are interchangeable.               *)
EXTENDS Console, TLC

Symmetry == Permutations(Consoles)
=============================================================================
