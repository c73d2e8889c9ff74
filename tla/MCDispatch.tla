----------------------------- MODULE MCDispatch -----------------------------
(* Dispatch on small instances: a failure reported at once, alone or in a  *)
(* group, and a normal end reported in a batch; a handler that runs again  *)
(* may conclude the other.                                                 *)
EXTENDS Dispatch

V(s, c, m) == [status |-> s, category |-> c, mode |-> m]

MCVerdicts == {V("semantic_failed", "OUT_OF_MEMORY", "immediate"),
               V("normal", "NONE", "batch")}
=============================================================================
