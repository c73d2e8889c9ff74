------------------------------ MODULE WorkQueue ------------------------------
(***************************************************************************)
(* The durable work queue of src/src/cslurm/work.py: the work_items table  *)
(* and the processes that drain it.  A process runs drain(): it takes the  *)
(* per-root flock on workers.lock, puts back what an earlier process left  *)
(* running, and starts a fixed number of worker threads that claim, handle *)
(* and settle items until nothing is claimable or the budget is spent.     *)
(***************************************************************************)
EXTENDS Naturals, FiniteSets

CONSTANTS
    Jobs,         \* job ids
    Pools,        \* slots for processes that run drain()
    Threads,      \* worker threads of one process ([work].concurrency, clamped to 1..8)
    MaxAttempts,  \* executions before an item is given up (5 in the code)
    Limit,        \* items one drain() may claim (100 in the code)
    MaxFaults,    \* bound: crashes and database errors in one behaviour
    MaxRetries,   \* bound: explicit retries in one behaviour
    NoPool,       \* nobody holds workers.lock
    NoItem        \* a worker handles nothing

Kinds == {"static", "summary", "completion"}
Items == Kinds \X Jobs
Kind(i) == i[1]
JobOf(i) == i[2]
Workers == Pools \X Threads
Statuses == {"absent", "pending", "running", "succeeded", "failed"}

ASSUME ConstantsAssumption ==
    /\ MaxAttempts \in Nat \ {0}
    /\ Limit \in Nat \ {0}
    /\ MaxFaults \in Nat
    /\ MaxRetries \in Nat
    /\ NoPool \notin Pools
    /\ NoItem \notin Items

VARIABLES
    status,     \* work_items.status; "absent" before the row exists
    attempts,   \* work_items.attempts
    due,        \* available_at <= now
    rowId,      \* work_items.id: rows are claimed in this order, 0 while absent
    lastId,     \* the newest row's id
    lock,       \* the pool whose open file description holds the flock
    stage,      \* per pool: "off", "locked" (before recover), "draining"
    budget,     \* per pool: items claimed so far
    worker,     \* per worker thread: "gone", "idle" or "busy"
    held,       \* the item a busy worker handles
    seen,       \* item['attempts'] as the claim returned it
    faults,     \* bound: see MaxFaults
    retries,    \* bound: see MaxRetries
    ended       \* history: items that were succeeded or failed at some time

rows == <<status, attempts, due, rowId, lastId>>
procs == <<lock, stage, budget, worker, held, seen>>
bounds == <<faults, retries>>
vars == <<rows, procs, bounds, ended>>

TypeOK ==
    /\ status \in [Items -> Statuses]
    /\ attempts \in [Items -> Nat]
    /\ due \in [Items -> BOOLEAN]
    /\ rowId \in [Items -> Nat]
    /\ lastId \in Nat
    /\ lock \in Pools \cup {NoPool}
    /\ stage \in [Pools -> {"off", "locked", "draining"}]
    /\ budget \in [Pools -> 0..Limit]
    /\ worker \in [Workers -> {"gone", "idle", "busy"}]
    /\ held \in [Workers -> Items \cup {NoItem}]
    /\ seen \in [Workers -> Nat]
    /\ faults \in 0..MaxFaults
    /\ retries \in 0..MaxRetries
    /\ ended \in SUBSET Items

Init ==
    /\ status = [i \in Items |-> "absent"]
    /\ attempts = [i \in Items |-> 0]
    /\ due = [i \in Items |-> TRUE]
    /\ rowId = [i \in Items |-> 0]
    /\ lastId = 0
    /\ lock = NoPool
    /\ stage = [p \in Pools |-> "off"]
    /\ budget = [p \in Pools |-> 0]
    /\ worker = [w \in Workers |-> "gone"]
    /\ held = [w \in Workers |-> NoItem]
    /\ seen = [w \in Workers |-> 0]
    /\ faults = 0
    /\ retries = 0
    /\ ended = {}

-----------------------------------------------------------------------------
(* Enqueueing *)

(* enqueue(conn, "static", j) then enqueue(conn, "summary", j) in the one  *)
(* transaction that inserts job j; either kind may be switched off.        *)
EnqueueSubmission(j, K) ==
    LET static == <<"static", j>>
        summary == <<"summary", j>>
        new == K \X {j}
    IN  /\ status[static] = "absent" /\ status[summary] = "absent"
        /\ status' = [i \in Items |-> IF i \in new THEN "pending" ELSE status[i]]
        /\ rowId' = [i \in Items |->
                        CASE i \notin new -> rowId[i]
                          [] i \in new /\ i = static -> lastId + 1
                          [] OTHER -> IF static \in new THEN lastId + 2 ELSE lastId + 1]
        /\ lastId' = lastId + (IF K = {"static", "summary"} THEN 2 ELSE 1)
        /\ UNCHANGED <<attempts, due, procs, bounds, ended>>

(* enqueue(conn, "completion", j, event) by the tracker. *)
EnqueueCompletion(j) ==
    LET i == <<"completion", j>>
    IN  /\ status[i] = "absent"
        /\ status' = [status EXCEPT ![i] = "pending"]
        /\ rowId' = [rowId EXCEPT ![i] = lastId + 1]
        /\ lastId' = lastId + 1
        /\ UNCHANGED <<attempts, due, procs, bounds, ended>>

(* Mutant: retry accepts any settled item.                                 *)
RetryAnySettled(i) ==
    /\ retries < MaxRetries
    /\ status[i] \in {"failed", "succeeded"}
    /\ status' = [status EXCEPT ![i] = "pending"]
    /\ attempts' = [attempts EXCEPT ![i] = 0]
    /\ due' = [due EXCEPT ![i] = TRUE]
    /\ retries' = retries + 1
    /\ UNCHANGED <<rowId, lastId, procs, faults, ended>>

(* retry(item_id): only an existing failed item. *)
Retry(i) ==
    /\ retries < MaxRetries
    /\ status[i] = "failed"
    /\ status' = [status EXCEPT ![i] = "pending"]
    /\ attempts' = [attempts EXCEPT ![i] = 0]
    /\ due' = [due EXCEPT ![i] = TRUE]
    /\ retries' = retries + 1
    /\ UNCHANGED <<rowId, lastId, procs, faults, ended>>

(* The clock passes available_at. *)
BackoffElapses(i) ==
    /\ status[i] = "pending" /\ ~due[i]
    /\ due' = [due EXCEPT ![i] = TRUE]
    /\ UNCHANGED <<status, attempts, rowId, lastId, procs, bounds, ended>>

-----------------------------------------------------------------------------
(* drain() *)

(* wake() launches a process that inherits the locked descriptor, or       *)
(* cwork run takes the lock itself.  When the lock is held both give up.   *)
TakeLock(p) ==
    /\ stage[p] = "off"
    /\ lock = NoPool
    /\ lock' = p
    /\ stage' = [stage EXCEPT ![p] = "locked"]
    /\ UNCHANGED <<rows, budget, worker, held, seen, bounds, ended>>

(* Mutant: recover ignores the attempts.                                   *)
RecoverAlways(p) ==
    /\ stage[p] = "locked"
    /\ status' = [i \in Items |-> IF status[i] = "running" THEN "pending" ELSE status[i]]
    /\ stage' = [stage EXCEPT ![p] = "draining"]
    /\ budget' = [budget EXCEPT ![p] = 0]
    /\ worker' = [w \in Workers |-> IF w[1] = p THEN "idle" ELSE worker[w]]
    /\ UNCHANGED <<attempts, due, rowId, lastId, lock, held, seen, bounds, ended>>

(* recover(conn), then the thread pool starts. *)
Recover(p) ==
    /\ stage[p] = "locked"
    /\ status' = [i \in Items |->
                    IF status[i] # "running" THEN status[i]
                    ELSE IF attempts[i] >= MaxAttempts THEN "failed" ELSE "pending"]
    /\ stage' = [stage EXCEPT ![p] = "draining"]
    /\ budget' = [budget EXCEPT ![p] = 0]
    /\ worker' = [w \in Workers |-> IF w[1] = p THEN "idle" ELSE worker[w]]
    /\ ended' = ended \cup {i \in Items : status'[i] = "failed"}
    /\ UNCHANGED <<attempts, due, rowId, lastId, lock, held, seen, bounds>>

(* Mutants: the summary waits only while the static analysis is queued, or *)
(* until it has succeeded.                                                 *)
AwaitsQueuedStatic(i) ==
    Kind(i) = "summary" /\ status[<<"static", JobOf(i)>>] = "pending"
AwaitsStaticSuccess(i) ==
    Kind(i) = "summary" /\ status[<<"static", JobOf(i)>>] # "succeeded"

(* A summary waits for the static analysis of the same job. *)
AwaitsStatic(i) ==
    /\ Kind(i) = "summary"
    /\ status[<<"static", JobOf(i)>>] \in {"pending", "running"}

Claimable == {i \in Items : status[i] = "pending" /\ due[i] /\ ~AwaitsStatic(i)}

(* _claim() under the guard: the oldest claimable row. *)
Claim(w, i) ==
    /\ worker[w] = "idle"
    /\ budget[w[1]] < Limit
    /\ i \in Claimable
    /\ \A k \in Claimable : rowId[i] <= rowId[k]
    /\ status' = [status EXCEPT ![i] = "running"]
    /\ attempts' = [attempts EXCEPT ![i] = @ + 1]
    /\ budget' = [budget EXCEPT ![w[1]] = @ + 1]
    /\ worker' = [worker EXCEPT ![w] = "busy"]
    /\ held' = [held EXCEPT ![w] = i]
    /\ seen' = [seen EXCEPT ![w] = attempts[i] + 1]
    /\ UNCHANGED <<due, rowId, lastId, lock, stage, bounds, ended>>

(* The worker's loop ends: budget spent or nothing claimable. *)
ThreadExit(w) ==
    /\ worker[w] = "idle"
    /\ budget[w[1]] >= Limit \/ Claimable = {}
    /\ worker' = [worker EXCEPT ![w] = "gone"]
    /\ UNCHANGED <<rows, lock, stage, budget, held, seen, bounds, ended>>

(* The unconditional update after the handler: the row gets this outcome   *)
(* whatever it holds by then.                                              *)
Settle(w, outcome, ready) ==
    LET i == held[w]
    IN  /\ status' = [status EXCEPT ![i] = outcome]
        /\ due' = [due EXCEPT ![i] = ready]
        /\ ended' = IF outcome = "pending" THEN ended ELSE ended \cup {i}
        /\ worker' = [worker EXCEPT ![w] = "idle"]
        /\ held' = [held EXCEPT ![w] = NoItem]
        /\ seen' = [seen EXCEPT ![w] = 0]
        /\ UNCHANGED <<attempts, rowId, lastId, lock, stage, budget, bounds>>

HandlerSucceeds(w) ==
    /\ worker[w] = "busy"
    /\ Settle(w, "succeeded", TRUE)

(* Mutant: one attempt too many.                                           *)
HandlerFailsLate(w) ==
    /\ worker[w] = "busy"
    /\ Settle(w, IF seen[w] > MaxAttempts THEN "failed" ELSE "pending", FALSE)

HandlerFails(w) ==
    /\ worker[w] = "busy"
    /\ Settle(w, IF seen[w] >= MaxAttempts THEN "failed" ELSE "pending", FALSE)

(* The claim or the final update raises (the database stays locked past    *)
(* the retry deadline): the thread ends and its row, if any, stays running.*)
ThreadRaises(w) ==
    /\ faults < MaxFaults
    /\ worker[w] # "gone"
    /\ worker' = [worker EXCEPT ![w] = "gone"]
    /\ held' = [held EXCEPT ![w] = NoItem]
    /\ seen' = [seen EXCEPT ![w] = 0]
    /\ faults' = faults + 1
    /\ UNCHANGED <<rows, lock, stage, budget, retries, ended>>

(* Mutant: the file is closed without joining the threads.                 *)
PoolExitUnjoined(p) ==
    /\ stage[p] = "draining"
    /\ stage' = [stage EXCEPT ![p] = "off"]
    /\ lock' = IF lock = p THEN NoPool ELSE lock
    /\ UNCHANGED <<rows, budget, worker, held, seen, bounds, ended>>

(* The executor's exit joins every thread; then the file is closed.        *)
PoolExit(p) ==
    /\ stage[p] = "draining"
    /\ \A w \in Workers : w[1] = p => worker[w] = "gone"
    /\ stage' = [stage EXCEPT ![p] = "off"]
    /\ lock' = IF lock = p THEN NoPool ELSE lock
    /\ UNCHANGED <<rows, budget, worker, held, seen, bounds, ended>>

(* The process dies, or drain() raises before the threads start: its       *)
(* threads vanish and the kernel drops its flock.                          *)
Crash(p) ==
    /\ faults < MaxFaults
    /\ stage[p] # "off"
    /\ stage' = [stage EXCEPT ![p] = "off"]
    /\ lock' = IF lock = p THEN NoPool ELSE lock
    /\ worker' = [w \in Workers |-> IF w[1] = p THEN "gone" ELSE worker[w]]
    /\ held' = [w \in Workers |-> IF w[1] = p THEN NoItem ELSE held[w]]
    /\ seen' = [w \in Workers |-> IF w[1] = p THEN 0 ELSE seen[w]]
    /\ faults' = faults + 1
    /\ UNCHANGED <<rows, budget, retries, ended>>

-----------------------------------------------------------------------------
Step(w) ==
    \/ \E i \in Items : Claim(w, i)
    \/ ThreadExit(w)
    \/ HandlerSucceeds(w)
    \/ HandlerFails(w)

Next ==
    \/ \E j \in Jobs : \/ \E K \in SUBSET {"static", "summary"} : K # {} /\ EnqueueSubmission(j, K)
                       \/ EnqueueCompletion(j)
    \/ \E i \in Items : Retry(i) \/ BackoffElapses(i)
    \/ \E p \in Pools : TakeLock(p) \/ Recover(p) \/ PoolExit(p) \/ Crash(p)
    \/ \E w \in Workers : Step(w) \/ ThreadRaises(w)

Spec == Init /\ [][Next]_vars

(* cron runs the tracker every minute and the tracker calls wake(); the    *)
(* operating system schedules the threads; every handler returns (its      *)
(* model calls and subprocesses have timeouts); time passes.  drain() gets *)
(* past its import of receipts but for MaxFaults crashes: ReceiptSpool     *)
(* shows when it does not.  Enqueueing, retrying, failing are not promised.*)
Fairness ==
    /\ WF_vars(\E p \in Pools : TakeLock(p))
    /\ \A p \in Pools : WF_vars(Recover(p)) /\ WF_vars(PoolExit(p))
    /\ \A w \in Workers : WF_vars(Step(w))
    /\ \A i \in Items : WF_vars(BackoffElapses(i))

FairSpec == Spec /\ Fairness

-----------------------------------------------------------------------------
(* Properties *)

Busy == {w \in Workers : worker[w] = "busy"}

(* An item is handled by at most one thread at a time, in the process that *)
(* holds workers.lock, and its row says "running" meanwhile (the promise   *)
(* of one pool per root: work.py:59-102), through crashes and recovery.    *)
ExclusiveExecution ==
    /\ \A w \in Busy : /\ status[held[w]] = "running"
                       /\ attempts[held[w]] = seen[w]
                       /\ lock = w[1]
    /\ \A v, w \in Busy : held[v] = held[w] => v = w

(* However often the process dies in the middle of it, an item is begun at *)
(* most MaxAttempts times, and it is given up only when all of them were   *)
(* used (work.py:72-75 and 90).                                            *)
AttemptsExhausted ==
    \A i \in Items :
        /\ attempts[i] <= MaxAttempts
        /\ status[i] = "pending" => attempts[i] < MaxAttempts
        /\ status[i] = "failed" => attempts[i] = MaxAttempts

(* The summary of a job never overtakes the static analysis enqueued with  *)
(* it: by the time a summary is handled, that analysis has ended, for good *)
(* or until someone retries it (work.py:37-40, submissions.py:113-120).    *)
SummaryAfterStatic ==
    \A w \in Busy :
        LET static == <<"static", JobOf(held[w])>>
        IN  Kind(held[w]) = "summary" /\ status[static] # "absent" => static \in ended

(* A succeeded item is never touched again, and a failed one is revived    *)
(* only by retry, with its attempts reset (work.py:97 updates blindly, so  *)
(* this depends on the lock, recover and claim together).                  *)
SettledIsFinal ==
    [][\A i \in Items :
          /\ status[i] = "succeeded" => status'[i] = "succeeded"
          /\ status[i] = "failed" /\ status'[i] # "failed"
               => status'[i] = "pending" /\ attempts'[i] = 0]_vars

(* With cron alive every item that was enqueued is eventually settled, in  *)
(* spite of crashes, database errors, spent budgets, missed wake-ups and   *)
(* the summary's wait for its static analysis.  (One formula for all items *)
(* at once: there are finitely many enqueues and retries.)                 *)
EventuallySettled ==
    []<>(\A i \in Items : status[i] \in {"absent", "succeeded", "failed"})

(* The queue keeps the contract: an execution is active while some thread  *)
(* holds the item; a row left running by a dead thread is waiting again.   *)
ContractPhase(i) ==
    CASE status[i] = "absent" -> "unknown"
      [] status[i] = "pending" -> "waiting"
      [] status[i] = "running" -> IF \E w \in Busy : held[w] = i THEN "active" ELSE "waiting"
      [] status[i] = "succeeded" -> "done"
      [] OTHER -> "dead"

Contract == INSTANCE WorkContract
    WITH phase <- [i \in Items |-> ContractPhase(i)], tries <- attempts

ImplementsContract == Contract!Spec
=============================================================================
