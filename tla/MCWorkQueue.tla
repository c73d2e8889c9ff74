----------------------------- MODULE MCWorkQueue -----------------------------
(* WorkQueue on small instances; pools and threads are interchangeable.    *)
EXTENDS WorkQueue, TLC

Symmetry == Permutations(Pools) \cup Permutations(Threads)
=============================================================================
