--------------------------- MODULE MCReceiptSpool ---------------------------
(* ReceiptSpool on small instances.  The instances differ in the contents  *)
(* the receipts may have.                                                  *)
EXTENDS ReceiptSpool, TLC

C(k, j, f) == [kind |-> k, job |-> j, form |-> f]

(* A batch job, its steps, requests to cancel it, a local job, and files   *)
(* that are refused.                                                       *)
MCMixed == {C("sbatch", "j1", "good"), C("csrun", "j1", "step"), C("csrun", "j2", "local"),
            C("scancel", "j1", "request"), C("sbatch", "j1", "unresolved"), C("scancel", "j1", "invalid")}

(* ... and one of each kind that cannot be recorded.                       *)
MCAll == MCMixed \cup {C("sbatch", "j2", "opaque"), C("csrun", "j1", "opaque"),
                       C("scancel", "j2", "opaque")}

(* Well-formed submissions, one that cannot be recorded.                   *)
MCOpaque == {C("sbatch", "j1", "good"), C("sbatch", "j2", "opaque")}

Symmetry == Permutations(Ingesters)
=============================================================================
