---------------------------- MODULE WorkContract ----------------------------
(***************************************************************************)
(* What the durable work queue promises to the code that enqueues work,   *)
(* free of locks, pools, threads and crashes:                              *)
(*   - an accepted item is executed by at most one handler at a time;      *)
(*   - it is executed at least once and, until somebody revives it, at     *)
(*     most MaxAttempts times, whatever interrupts the executions;         *)
(*   - once done it is never executed again, and it is given up only       *)
(*     when the attempts are used up.                                      *)
(* WorkQueue.tla implements this contract (WorkQueue!Contract).            *)
(***************************************************************************)
EXTENDS Naturals

CONSTANTS
    Items,       \* the work items that may ever be accepted
    MaxAttempts  \* executions granted to an item before it is given up

VARIABLES
    phase,       \* [Items -> Phases]
    tries        \* [Items -> Nat], executions begun since the item was accepted or revived

contractVars == <<phase, tries>>

Phases == {"unknown", "waiting", "active", "done", "dead"}

Init ==
    /\ phase = [i \in Items |-> "unknown"]
    /\ tries = [i \in Items |-> 0]

(* One commit may accept several items: a job's receipt brings two. *)
Accept(S) ==
    /\ S # {}
    /\ \A i \in S : phase[i] = "unknown"
    /\ phase' = [i \in Items |-> IF i \in S THEN "waiting" ELSE phase[i]]
    /\ UNCHANGED tries

Begin(i) ==
    /\ phase[i] = "waiting"
    /\ tries[i] < MaxAttempts
    /\ phase' = [phase EXCEPT ![i] = "active"]
    /\ tries' = [tries EXCEPT ![i] = @ + 1]

End(i) ==
    /\ phase[i] = "active"
    /\ phase' = [phase EXCEPT ![i] = "done"]
    /\ UNCHANGED tries

(* Executions that fail or are cut short put their items back; a process  *)
(* that dies may interrupt several at once.                                *)
Interrupt(S) ==
    /\ S # {}
    /\ \A i \in S : phase[i] = "active"
    /\ phase' = [i \in Items |-> IF i \in S THEN "waiting" ELSE phase[i]]
    /\ UNCHANGED tries

GiveUp(S) ==
    /\ S # {}
    /\ \A i \in S : phase[i] \in {"waiting", "active"} /\ tries[i] = MaxAttempts
    /\ phase' = [i \in Items |-> IF i \in S THEN "dead" ELSE phase[i]]
    /\ UNCHANGED tries

Revive(i) ==
    /\ phase[i] = "dead"
    /\ phase' = [phase EXCEPT ![i] = "waiting"]
    /\ tries' = [tries EXCEPT ![i] = 0]

Next ==
    \/ \E S \in SUBSET Items : Accept(S) \/ Interrupt(S) \/ GiveUp(S)
    \/ \E i \in Items : Begin(i) \/ End(i) \/ Revive(i)

Spec == Init /\ [][Next]_contractVars
=============================================================================
