------------------------------ MODULE JobLedger ------------------------------
(***************************************************************************)
(* What ingesting command receipts promises to the rest of the program,    *)
(* free of spool files, passes and crashes: each receipt takes effect on   *)
(* the job table at most once and in one step, and a row that exists is    *)
(* changed only by Slurm accounting.  ReceiptSpool.tla implements this     *)
(* ledger (ReceiptSpool!Ledger).                                           *)
(***************************************************************************)
EXTENDS Naturals

CONSTANTS
    Receipts,  \* receipt names
    Jobs       \* job ids

VARIABLES
    content,   \* [Receipts -> contents], fixed: what each receipt records
    state,     \* [Jobs -> job states], "none" before the row exists
    queued,    \* jobs whose submission work (static, summary) was enqueued
    cancelled, \* jobs with a CANCEL_REQUESTED event
    effects    \* [Receipts -> Nat], times a receipt took effect

ledgerVars == <<content, state, queued, cancelled, effects>>

Init ==
    /\ state = [j \in Jobs |-> "none"]
    /\ queued = {}
    /\ cancelled = {}
    /\ effects = [r \in Receipts |-> 0]

(* The row a receipt inserts when the job has none. *)
InsertedState(c) == IF c.form = "local" THEN "COMPLETED" ELSE "UNKNOWN"

Effect(r) ==
    LET c == content[r]
        inserts == c.kind # "scancel" /\ state[c.job] = "none"
    IN  /\ state' = IF inserts THEN [state EXCEPT ![c.job] = InsertedState(c)] ELSE state
        /\ queued' = IF inserts /\ c.kind = "sbatch" THEN queued \cup {c.job} ELSE queued
        /\ cancelled' = IF c.form = "request" THEN cancelled \cup {c.job} ELSE cancelled
        /\ effects' = [effects EXCEPT ![r] = @ + 1]
        /\ UNCHANGED content

Apply(r) ==
    /\ effects[r] = 0
    /\ Effect(r)

(* Accounting reports the job's progress. *)
Observe(j) ==
    /\ \/ state[j] = "UNKNOWN" /\ state' = [state EXCEPT ![j] = "RUNNING"]
       \/ state[j] \in {"UNKNOWN", "RUNNING"} /\ state' = [state EXCEPT ![j] = "COMPLETED"]
    /\ UNCHANGED <<content, queued, cancelled, effects>>

Next == (\E r \in Receipts : Apply(r)) \/ (\E j \in Jobs : Observe(j))

Spec == Init /\ [][Next]_ledgerVars
=============================================================================
