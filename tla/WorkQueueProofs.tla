--------------------------- MODULE WorkQueueProofs ---------------------------
(* Proofs about WorkQueue, for every set of jobs, processes and threads    *)
(* and every value of the bounds.                                          *)
EXTENDS WorkQueue, TLAPS

(***************************************************************************)
(* The strengthening that makes the safety properties inductive: who holds *)
(* the lock, whose threads exist, and what an absent or settled row is.    *)
(***************************************************************************)
LockDiscipline == \A p \in Pools : stage[p] # "off" <=> lock = p

ThreadDiscipline ==
    \A w \in Workers :
        /\ worker[w] # "gone" => stage[w[1]] = "draining"
        /\ worker[w] = "busy" <=> held[w] # NoItem

RowDiscipline ==
    \A i \in Items :
        /\ status[i] = "absent" => attempts[i] = 0
        /\ status[i] \in {"succeeded", "failed"} => i \in ended

IInv ==
    /\ TypeOK
    /\ LockDiscipline
    /\ ThreadDiscipline
    /\ RowDiscipline
    /\ ExclusiveExecution
    /\ AttemptsExhausted
    /\ SummaryAfterStatic

-----------------------------------------------------------------------------
(* The parts of a worker and of an item, and which items a kind names.     *)
LEMMA Shapes ==
    /\ \A w \in Workers : w[1] \in Pools
    /\ \A i \in Items : Kind(i) \in Kinds /\ JobOf(i) \in Jobs
    /\ \A k \in Kinds, j \in Jobs :
          <<k, j>> \in Items /\ Kind(<<k, j>>) = k /\ JobOf(<<k, j>>) = j
    /\ \A i \in Items : i = <<Kind(i), JobOf(i)>>
    /\ \A i \in Items : <<"static", JobOf(i)>> \in Items
BY DEF Workers, Items, Kind, JobOf, Kinds

-----------------------------------------------------------------------------
(* The inductive invariant of the queue: one step of each kind keeps it.   *)
LEMMA Inductive == IInv /\ [Next]_vars => IInv'
<1>0. SUFFICES ASSUME IInv, [Next]_vars
               PROVE  IInv'
  OBVIOUS
<1>a. /\ MaxAttempts \in Nat \ {0}
      /\ attempts \in [Items -> Nat]
      /\ AttemptsExhausted
  BY <1>0, ConstantsAssumption DEF IInv, TypeOK
<1> USE DEF IInv, TypeOK, rows, procs, bounds
<1>1. ASSUME NEW j \in Jobs, NEW K \in SUBSET {"static", "summary"}, K # {}, EnqueueSubmission(j, K)
      PROVE  IInv'
  <2>0. \A i \in Items : status'[i] = status[i] \/ (status[i] = "absent" /\ status'[i] = "pending")
    <3> SUFFICES ASSUME NEW i \in Items, status'[i] # status[i]
                 PROVE  status[i] = "absent" /\ status'[i] = "pending"
      OBVIOUS
    <3>1. i \in K \X {j} /\ status'[i] = "pending"
      BY <1>0, <1>1 DEF EnqueueSubmission
    <3>2. i = <<"static", j>> \/ i = <<"summary", j>>
      <4>1. i = <<i[1], i[2]>> /\ i[1] \in K /\ i[2] = j
        BY <3>1
      <4> QED
        BY <4>1
    <3> QED
      BY <1>0, <1>1, <3>1, <3>2 DEF EnqueueSubmission
  <2>1. TypeOK'
    BY <1>0, <1>1, <2>0, ConstantsAssumption, Shapes DEF EnqueueSubmission, Statuses
  <2>2. LockDiscipline'
    BY <1>0, <1>1, <2>0, ConstantsAssumption, Shapes DEF EnqueueSubmission, LockDiscipline
  <2>3. ThreadDiscipline'
    BY <1>0, <1>1, <2>0, ConstantsAssumption, Shapes DEF EnqueueSubmission, LockDiscipline, ThreadDiscipline
  <2>4. RowDiscipline'
    BY <1>0, <1>1, <2>0, ConstantsAssumption, Shapes DEF EnqueueSubmission, Statuses, RowDiscipline
  <2>5. ExclusiveExecution'
    BY <1>0, <1>1, <2>0, ConstantsAssumption, Shapes DEF EnqueueSubmission, LockDiscipline, ThreadDiscipline, ExclusiveExecution, Busy
  <2>6. AttemptsExhausted'
    BY <1>0, <1>1, <2>0, ConstantsAssumption, Shapes DEF EnqueueSubmission, RowDiscipline, AttemptsExhausted
  <2>7. SummaryAfterStatic'
    <3>1. \A v \in Busy : held[v] \in Items /\ status[held[v]] = "running"
      BY <1>0 DEF ThreadDiscipline, ExclusiveExecution, Busy
    <3>2. ASSUME NEW v \in Busy, Kind(held[v]) = "summary"
          PROVE  LET s == <<"static", JobOf(held[v])>> IN s \in Items /\ status'[s] = status[s]
      <4>1. held[v] = <<"summary", JobOf(held[v])>> /\ held[v] \in Items
        BY <3>1, <3>2, Shapes
      <4>2. JobOf(held[v]) # j
        BY <1>1, <3>1, <4>1 DEF EnqueueSubmission
      <4>3. <<"static", JobOf(held[v])>> \notin K \X {j}
        BY <4>2
      <4>4. <<"static", JobOf(held[v])>> \in Items
        BY <4>1, Shapes
      <4> QED
        BY <1>0, <1>1, <4>3, <4>4 DEF EnqueueSubmission
    <3> QED
      BY <1>0, <1>1, <3>2 DEF EnqueueSubmission, SummaryAfterStatic, Busy
  <2> QED
    BY <2>1, <2>2, <2>3, <2>4, <2>5, <2>6, <2>7
<1>2. ASSUME NEW j \in Jobs, EnqueueCompletion(j)
      PROVE  IInv'
  <2>0. /\ <<"completion", j>> \in Items
        /\ \A i \in Items : status'[i] = status[i] \/ (status[i] = "absent" /\ status'[i] = "pending")
    BY <1>0, <1>2, Shapes DEF EnqueueCompletion, Kinds
  <2>1. TypeOK'
    BY <1>0, <1>2, <2>0, ConstantsAssumption, Shapes DEF EnqueueCompletion, Statuses
  <2>2. LockDiscipline'
    BY <1>0, <1>2, <2>0, ConstantsAssumption, Shapes DEF EnqueueCompletion, LockDiscipline
  <2>3. ThreadDiscipline'
    BY <1>0, <1>2, <2>0, ConstantsAssumption, Shapes DEF EnqueueCompletion, LockDiscipline, ThreadDiscipline
  <2>4. RowDiscipline'
    BY <1>0, <1>2, <2>0, ConstantsAssumption, Shapes DEF EnqueueCompletion, Statuses, RowDiscipline
  <2>5. ExclusiveExecution'
    BY <1>0, <1>2, <2>0, ConstantsAssumption, Shapes DEF EnqueueCompletion, LockDiscipline, ThreadDiscipline, ExclusiveExecution, Busy
  <2>6. AttemptsExhausted'
    BY <1>0, <1>2, <2>0, ConstantsAssumption, Shapes DEF EnqueueCompletion, RowDiscipline, AttemptsExhausted
  <2>7. SummaryAfterStatic'
    BY <1>0, <1>2, <2>0, ConstantsAssumption, Shapes DEF EnqueueCompletion, RowDiscipline, ThreadDiscipline, ExclusiveExecution, SummaryAfterStatic, Busy
  <2> QED
    BY <2>1, <2>2, <2>3, <2>4, <2>5, <2>6, <2>7
<1>3. ASSUME NEW i \in Items, Retry(i)
      PROVE  IInv'
  <2>1. TypeOK'
    BY <1>0, <1>3, ConstantsAssumption, Shapes DEF Retry, Statuses
  <2>2. LockDiscipline'
    BY <1>0, <1>3, ConstantsAssumption, Shapes DEF Retry, LockDiscipline
  <2>3. ThreadDiscipline'
    BY <1>0, <1>3, ConstantsAssumption, Shapes DEF Retry, LockDiscipline, ThreadDiscipline
  <2>4. RowDiscipline'
    BY <1>0, <1>3, ConstantsAssumption, Shapes DEF Retry, Statuses, RowDiscipline
  <2>5. ExclusiveExecution'
    BY <1>0, <1>3, ConstantsAssumption, Shapes DEF Retry, LockDiscipline, ThreadDiscipline, ExclusiveExecution, Busy
  <2>6. AttemptsExhausted'
    BY <1>0, <1>3, ConstantsAssumption, Shapes DEF Retry, RowDiscipline, AttemptsExhausted
  <2>7. SummaryAfterStatic'
    <3>1. \A k \in Items : status'[k] # "absent" => status[k] # "absent"
      BY <1>0, <1>3 DEF Retry
    <3>2. Busy' = Busy /\ held' = held /\ ended' = ended
      BY <1>3 DEF Retry, Busy
    <3>3. \A w \in Busy : held[w] \in Items
      BY <1>0 DEF ThreadDiscipline, Busy
    <3>4. \A w \in Busy : <<"static", JobOf(held[w])>> \in Items
      BY <3>3, Shapes
    <3> QED
      BY <1>0, <3>1, <3>2, <3>4 DEF SummaryAfterStatic
  <2> QED
    BY <2>1, <2>2, <2>3, <2>4, <2>5, <2>6, <2>7
<1>4. ASSUME NEW i \in Items, BackoffElapses(i)
      PROVE  IInv'
  <2>1. TypeOK'
    BY <1>0, <1>4, ConstantsAssumption, Shapes DEF BackoffElapses, Statuses
  <2>2. LockDiscipline'
    BY <1>0, <1>4, ConstantsAssumption, Shapes DEF BackoffElapses, LockDiscipline
  <2>3. ThreadDiscipline'
    BY <1>0, <1>4, ConstantsAssumption, Shapes DEF BackoffElapses, LockDiscipline, ThreadDiscipline
  <2>4. RowDiscipline'
    BY <1>0, <1>4, ConstantsAssumption, Shapes DEF BackoffElapses, Statuses, RowDiscipline
  <2>5. ExclusiveExecution'
    BY <1>0, <1>4, ConstantsAssumption, Shapes DEF BackoffElapses, LockDiscipline, ThreadDiscipline, ExclusiveExecution, Busy
  <2>6. AttemptsExhausted'
    BY <1>0, <1>4, ConstantsAssumption, Shapes DEF BackoffElapses, RowDiscipline, AttemptsExhausted
  <2>7. SummaryAfterStatic'
    BY <1>0, <1>4, ConstantsAssumption, Shapes DEF BackoffElapses, RowDiscipline, ThreadDiscipline, ExclusiveExecution, SummaryAfterStatic, Busy
  <2> QED
    BY <2>1, <2>2, <2>3, <2>4, <2>5, <2>6, <2>7
<1>5. ASSUME NEW p \in Pools, TakeLock(p)
      PROVE  IInv'
  <2>1. TypeOK'
    BY <1>0, <1>5, ConstantsAssumption, Shapes DEF TakeLock, Statuses
  <2>2. LockDiscipline'
    BY <1>0, <1>5, ConstantsAssumption, Shapes DEF TakeLock, LockDiscipline
  <2>3. ThreadDiscipline'
    BY <1>0, <1>5, ConstantsAssumption, Shapes DEF TakeLock, LockDiscipline, ThreadDiscipline
  <2>4. RowDiscipline'
    BY <1>0, <1>5, ConstantsAssumption, Shapes DEF TakeLock, Statuses, RowDiscipline
  <2>5. ExclusiveExecution'
    BY <1>0, <1>5, ConstantsAssumption, Shapes DEF TakeLock, LockDiscipline, ThreadDiscipline, ExclusiveExecution, Busy
  <2>6. AttemptsExhausted'
    BY <1>0, <1>5, ConstantsAssumption, Shapes DEF TakeLock, RowDiscipline, AttemptsExhausted
  <2>7. SummaryAfterStatic'
    BY <1>0, <1>5, ConstantsAssumption, Shapes DEF TakeLock, RowDiscipline, ThreadDiscipline, ExclusiveExecution, SummaryAfterStatic, Busy
  <2> QED
    BY <2>1, <2>2, <2>3, <2>4, <2>5, <2>6, <2>7
<1>6. ASSUME NEW p \in Pools, Recover(p)
      PROVE  IInv'
  <2>1. TypeOK'
    BY <1>0, <1>6, ConstantsAssumption, Shapes DEF Recover, Statuses
  <2>2. LockDiscipline'
    BY <1>0, <1>6, ConstantsAssumption, Shapes DEF Recover, LockDiscipline
  <2>3. ThreadDiscipline'
    BY <1>0, <1>6, ConstantsAssumption, Shapes DEF Recover, LockDiscipline, ThreadDiscipline
  <2>4. RowDiscipline'
    BY <1>0, <1>6, ConstantsAssumption, Shapes DEF Recover, Statuses, RowDiscipline
  <2>5. ExclusiveExecution'
    BY <1>0, <1>6, ConstantsAssumption, Shapes DEF Recover, LockDiscipline, ThreadDiscipline, ExclusiveExecution, Busy
  <2>6. AttemptsExhausted'
    <3> SUFFICES ASSUME NEW i \in Items
                 PROVE  /\ attempts'[i] <= MaxAttempts
                        /\ status'[i] = "pending" => attempts'[i] < MaxAttempts
                        /\ status'[i] = "failed" => attempts'[i] = MaxAttempts
      BY DEF AttemptsExhausted
    <3>1. attempts'[i] = attempts[i] /\ attempts[i] \in Nat
      BY <1>a, <1>6 DEF Recover
    <3>2. CASE status[i] # "running"
      BY <1>a, <1>6, <3>1, <3>2 DEF Recover, AttemptsExhausted
    <3>3. CASE status[i] = "running" /\ attempts[i] >= MaxAttempts
      <4>1. attempts[i] = MaxAttempts /\ status'[i] = "failed"
        BY <1>a, <1>6, <3>1, <3>3 DEF Recover, AttemptsExhausted
      <4> QED
        BY <3>1, <4>1
    <3>4. CASE status[i] = "running" /\ ~(attempts[i] >= MaxAttempts)
      BY <1>a, <1>6, <3>1, <3>4 DEF Recover, AttemptsExhausted
    <3> QED
      BY <3>2, <3>3, <3>4
  <2>7. SummaryAfterStatic'
    BY <1>0, <1>6, ConstantsAssumption, Shapes DEF Recover, RowDiscipline, ThreadDiscipline, ExclusiveExecution, SummaryAfterStatic, Busy
  <2> QED
    BY <2>1, <2>2, <2>3, <2>4, <2>5, <2>6, <2>7
<1>7. ASSUME NEW p \in Pools, PoolExit(p)
      PROVE  IInv'
  <2>1. TypeOK'
    BY <1>0, <1>7, ConstantsAssumption, Shapes DEF PoolExit, Statuses
  <2>2. LockDiscipline'
    BY <1>0, <1>7, ConstantsAssumption, Shapes DEF PoolExit, LockDiscipline
  <2>3. ThreadDiscipline'
    BY <1>0, <1>7, ConstantsAssumption, Shapes DEF PoolExit, LockDiscipline, ThreadDiscipline
  <2>4. RowDiscipline'
    BY <1>0, <1>7, ConstantsAssumption, Shapes DEF PoolExit, Statuses, RowDiscipline
  <2>5. ExclusiveExecution'
    BY <1>0, <1>7, ConstantsAssumption, Shapes DEF PoolExit, LockDiscipline, ThreadDiscipline, ExclusiveExecution, Busy
  <2>6. AttemptsExhausted'
    BY <1>0, <1>7, ConstantsAssumption, Shapes DEF PoolExit, RowDiscipline, AttemptsExhausted
  <2>7. SummaryAfterStatic'
    BY <1>0, <1>7, ConstantsAssumption, Shapes DEF PoolExit, RowDiscipline, ThreadDiscipline, ExclusiveExecution, SummaryAfterStatic, Busy
  <2> QED
    BY <2>1, <2>2, <2>3, <2>4, <2>5, <2>6, <2>7
<1>8. ASSUME NEW p \in Pools, Crash(p)
      PROVE  IInv'
  <2>1. TypeOK'
    BY <1>0, <1>8, ConstantsAssumption, Shapes DEF Crash, Statuses
  <2>2. LockDiscipline'
    BY <1>0, <1>8, ConstantsAssumption, Shapes DEF Crash, LockDiscipline
  <2>3. ThreadDiscipline'
    BY <1>0, <1>8, ConstantsAssumption, Shapes DEF Crash, LockDiscipline, ThreadDiscipline
  <2>4. RowDiscipline'
    BY <1>0, <1>8, ConstantsAssumption, Shapes DEF Crash, Statuses, RowDiscipline
  <2>5. ExclusiveExecution'
    BY <1>0, <1>8, ConstantsAssumption, Shapes DEF Crash, LockDiscipline, ThreadDiscipline, ExclusiveExecution, Busy
  <2>6. AttemptsExhausted'
    BY <1>0, <1>8, ConstantsAssumption, Shapes DEF Crash, RowDiscipline, AttemptsExhausted
  <2>7. SummaryAfterStatic'
    BY <1>0, <1>8, ConstantsAssumption, Shapes DEF Crash, RowDiscipline, ThreadDiscipline, ExclusiveExecution, SummaryAfterStatic, Busy
  <2> QED
    BY <2>1, <2>2, <2>3, <2>4, <2>5, <2>6, <2>7
<1>9. ASSUME NEW w \in Workers, NEW i \in Items, Claim(w, i)
      PROVE  IInv'
  <2>1. TypeOK'
    BY <1>0, <1>9, ConstantsAssumption, Shapes DEF Claim, Claimable, Statuses
  <2>2. LockDiscipline'
    BY <1>0, <1>9, ConstantsAssumption, Shapes DEF Claim, Claimable, LockDiscipline
  <2>3. ThreadDiscipline'
    BY <1>0, <1>9, ConstantsAssumption, Shapes DEF Claim, Claimable, LockDiscipline, ThreadDiscipline
  <2>4. RowDiscipline'
    BY <1>0, <1>9, ConstantsAssumption, Shapes DEF Claim, Claimable, Statuses, RowDiscipline
  <2>5. ExclusiveExecution'
    BY <1>0, <1>9, ConstantsAssumption, Shapes DEF Claim, Claimable, LockDiscipline, ThreadDiscipline, ExclusiveExecution, Busy
  <2>6. AttemptsExhausted'
    BY <1>0, <1>9, ConstantsAssumption, Shapes DEF Claim, Claimable, RowDiscipline, AttemptsExhausted
  <2>7. SummaryAfterStatic'
    <3> SUFFICES ASSUME NEW v \in Workers, worker'[v] = "busy", Kind(held'[v]) = "summary",
                        status'[<<"static", JobOf(held'[v])>>] # "absent"
                 PROVE  <<"static", JobOf(held'[v])>> \in ended'
      BY DEF SummaryAfterStatic, Busy
    <3>1. CASE v = w
      <4>1. held'[v] = i /\ ~AwaitsStatic(i) /\ i # <<"static", JobOf(i)>>
        BY <1>0, <1>9, <3>1, Shapes DEF Claim, Claimable
      <4>2. status'[<<"static", JobOf(i)>>] = status[<<"static", JobOf(i)>>] /\ ended' = ended
        BY <1>0, <1>9, <4>1, Shapes DEF Claim
      <4> QED
        BY <1>0, <4>1, <4>2, Shapes DEF AwaitsStatic, RowDiscipline, Statuses
    <3>2. CASE v # w
      <4>1. v \in Busy /\ held'[v] = held[v] /\ held[v] \in Items
        BY <1>0, <1>9, <3>2 DEF Claim, Busy, ThreadDiscipline
      <4>2. status[<<"static", JobOf(held[v])>>] # "absent"
        BY <1>0, <1>9, <4>1, Shapes DEF Claim, Claimable
      <4> QED
        BY <1>0, <1>9, <4>1, <4>2 DEF Claim, SummaryAfterStatic
    <3> QED
      BY <3>1, <3>2
  <2> QED
    BY <2>1, <2>2, <2>3, <2>4, <2>5, <2>6, <2>7
<1>10. ASSUME NEW w \in Workers, ThreadExit(w)
      PROVE  IInv'
  <2>1. TypeOK'
    BY <1>0, <1>10, ConstantsAssumption, Shapes DEF ThreadExit, Statuses
  <2>2. LockDiscipline'
    BY <1>0, <1>10, ConstantsAssumption, Shapes DEF ThreadExit, LockDiscipline
  <2>3. ThreadDiscipline'
    BY <1>0, <1>10, ConstantsAssumption, Shapes DEF ThreadExit, LockDiscipline, ThreadDiscipline
  <2>4. RowDiscipline'
    BY <1>0, <1>10, ConstantsAssumption, Shapes DEF ThreadExit, Statuses, RowDiscipline
  <2>5. ExclusiveExecution'
    BY <1>0, <1>10, ConstantsAssumption, Shapes DEF ThreadExit, LockDiscipline, ThreadDiscipline, ExclusiveExecution, Busy
  <2>6. AttemptsExhausted'
    BY <1>0, <1>10, ConstantsAssumption, Shapes DEF ThreadExit, RowDiscipline, AttemptsExhausted
  <2>7. SummaryAfterStatic'
    BY <1>0, <1>10, ConstantsAssumption, Shapes DEF ThreadExit, RowDiscipline, ThreadDiscipline, ExclusiveExecution, SummaryAfterStatic, Busy
  <2> QED
    BY <2>1, <2>2, <2>3, <2>4, <2>5, <2>6, <2>7
<1>11. ASSUME NEW w \in Workers, HandlerSucceeds(w)
      PROVE  IInv'
  <2>0. /\ held[w] \in Items /\ status[held[w]] = "running"
        /\ attempts[held[w]] = seen[w] /\ lock = w[1]
    BY <1>0, <1>11 DEF HandlerSucceeds, ThreadDiscipline, ExclusiveExecution, Busy
  <2>1. TypeOK'
    BY <1>0, <1>11, <2>0, ConstantsAssumption, Shapes DEF HandlerSucceeds, Settle, Statuses
  <2>2. LockDiscipline'
    BY <1>0, <1>11, <2>0, ConstantsAssumption, Shapes DEF HandlerSucceeds, Settle, LockDiscipline
  <2>3. ThreadDiscipline'
    BY <1>0, <1>11, <2>0, ConstantsAssumption, Shapes DEF HandlerSucceeds, Settle, LockDiscipline, ThreadDiscipline
  <2>4. RowDiscipline'
    BY <1>0, <1>11, <2>0, ConstantsAssumption, Shapes DEF HandlerSucceeds, Settle, Statuses, RowDiscipline
  <2>5. ExclusiveExecution'
    BY <1>0, <1>11, <2>0, ConstantsAssumption, Shapes DEF HandlerSucceeds, Settle, LockDiscipline, ThreadDiscipline, ExclusiveExecution, Busy
  <2>6. AttemptsExhausted'
    BY <1>0, <1>11, <2>0, ConstantsAssumption, Shapes DEF HandlerSucceeds, Settle, RowDiscipline, AttemptsExhausted
  <2>7. SummaryAfterStatic'
    BY <1>0, <1>11, <2>0, ConstantsAssumption, Shapes DEF HandlerSucceeds, Settle, RowDiscipline, ThreadDiscipline, ExclusiveExecution, SummaryAfterStatic, Busy
  <2> QED
    BY <2>1, <2>2, <2>3, <2>4, <2>5, <2>6, <2>7
<1>12. ASSUME NEW w \in Workers, HandlerFails(w)
      PROVE  IInv'
  <2>0. /\ held[w] \in Items /\ status[held[w]] = "running"
        /\ attempts[held[w]] = seen[w] /\ lock = w[1]
    BY <1>0, <1>12 DEF HandlerFails, ThreadDiscipline, ExclusiveExecution, Busy
  <2>1. TypeOK'
    BY <1>0, <1>12, <2>0, ConstantsAssumption, Shapes DEF HandlerFails, Settle, Statuses
  <2>2. LockDiscipline'
    BY <1>0, <1>12, <2>0, ConstantsAssumption, Shapes DEF HandlerFails, Settle, LockDiscipline
  <2>3. ThreadDiscipline'
    BY <1>0, <1>12, <2>0, ConstantsAssumption, Shapes DEF HandlerFails, Settle, LockDiscipline, ThreadDiscipline
  <2>4. RowDiscipline'
    BY <1>0, <1>12, <2>0, ConstantsAssumption, Shapes DEF HandlerFails, Settle, Statuses, RowDiscipline
  <2>5. ExclusiveExecution'
    BY <1>0, <1>12, <2>0, ConstantsAssumption, Shapes DEF HandlerFails, Settle, LockDiscipline, ThreadDiscipline, ExclusiveExecution, Busy
  <2>6. AttemptsExhausted'
    <3>1. CASE seen[w] >= MaxAttempts
      <4>1. attempts[held[w]] = MaxAttempts
        BY <1>a, <2>0, <3>1 DEF AttemptsExhausted
      <4> QED
        BY <1>0, <1>12, <2>0, <3>1, <4>1 DEF HandlerFails, Settle, AttemptsExhausted
    <3>2. CASE ~(seen[w] >= MaxAttempts)
      BY <1>a, <1>12, <2>0, <3>2 DEF HandlerFails, Settle, AttemptsExhausted
    <3> QED
      BY <3>1, <3>2
  <2>7. SummaryAfterStatic'
    BY <1>0, <1>12, <2>0, ConstantsAssumption, Shapes DEF HandlerFails, Settle, RowDiscipline, ThreadDiscipline, ExclusiveExecution, SummaryAfterStatic, Busy
  <2> QED
    BY <2>1, <2>2, <2>3, <2>4, <2>5, <2>6, <2>7
<1>13. ASSUME NEW w \in Workers, ThreadRaises(w)
      PROVE  IInv'
  <2>1. TypeOK'
    BY <1>0, <1>13, ConstantsAssumption, Shapes DEF ThreadRaises, Statuses
  <2>2. LockDiscipline'
    BY <1>0, <1>13, ConstantsAssumption, Shapes DEF ThreadRaises, LockDiscipline
  <2>3. ThreadDiscipline'
    BY <1>0, <1>13, ConstantsAssumption, Shapes DEF ThreadRaises, LockDiscipline, ThreadDiscipline
  <2>4. RowDiscipline'
    BY <1>0, <1>13, ConstantsAssumption, Shapes DEF ThreadRaises, Statuses, RowDiscipline
  <2>5. ExclusiveExecution'
    BY <1>0, <1>13, ConstantsAssumption, Shapes DEF ThreadRaises, LockDiscipline, ThreadDiscipline, ExclusiveExecution, Busy
  <2>6. AttemptsExhausted'
    BY <1>0, <1>13, ConstantsAssumption, Shapes DEF ThreadRaises, RowDiscipline, AttemptsExhausted
  <2>7. SummaryAfterStatic'
    BY <1>0, <1>13, ConstantsAssumption, Shapes DEF ThreadRaises, RowDiscipline, ThreadDiscipline, ExclusiveExecution, SummaryAfterStatic, Busy
  <2> QED
    BY <2>1, <2>2, <2>3, <2>4, <2>5, <2>6, <2>7
<1>14. CASE UNCHANGED vars
  BY <1>0, <1>14 DEF vars, Statuses, LockDiscipline, ThreadDiscipline, RowDiscipline, ExclusiveExecution, Busy, AttemptsExhausted, SummaryAfterStatic
<1> QED
  BY <1>0, <1>1, <1>2, <1>3, <1>4, <1>5, <1>6, <1>7, <1>8, <1>9, <1>10, <1>11, <1>12, <1>13, <1>14
  DEF Next, Step

LEMMA Initial == Init => IInv
BY ConstantsAssumption, Shapes
DEF Init, IInv, TypeOK, Statuses, LockDiscipline, ThreadDiscipline, RowDiscipline,
    ExclusiveExecution, AttemptsExhausted, SummaryAfterStatic, Busy

LEMMA Invariance == Spec => []IInv
BY Initial, Inductive, PTL DEF Spec

-----------------------------------------------------------------------------
(* Every variable keeps its type.                                          *)
THEOREM TypeCorrect == Spec => []TypeOK
<1>1. IInv => TypeOK
  BY DEF IInv
<1> QED
  BY <1>1, Invariance, PTL

(* At most one thread handles an item, and it is a thread of the process   *)
(* that holds workers.lock, for any number of processes and crashes.       *)
THEOREM Exclusive == Spec => []ExclusiveExecution
<1>1. IInv => ExclusiveExecution
  BY DEF IInv
<1> QED
  BY <1>1, Invariance, PTL

(* An item is begun at most MaxAttempts times and given up only then.      *)
THEOREM Exhausted == Spec => []AttemptsExhausted
<1>1. IInv => AttemptsExhausted
  BY DEF IInv
<1> QED
  BY <1>1, Invariance, PTL

(* No summary is handled before its job's static analysis ended once.      *)
THEOREM StaticFirst == Spec => []SummaryAfterStatic
<1>1. IInv => SummaryAfterStatic
  BY DEF IInv
<1> QED
  BY <1>1, Invariance, PTL

(* A succeeded item is never touched again and only retry revives a failed *)
(* one: the worker's blind update is safe because its row is running.      *)
THEOREM Final == Spec => SettledIsFinal
<1> DEFINE Kept == \A i \in Items :
                      /\ status[i] = "succeeded" => status'[i] = "succeeded"
                      /\ status[i] = "failed" /\ status'[i] # "failed"
                           => status'[i] = "pending" /\ attempts'[i] = 0
<1>1. IInv /\ [Next]_vars => [Kept]_vars
  <2>0. SUFFICES ASSUME IInv, [Next]_vars
                 PROVE  Kept \/ UNCHANGED vars
    OBVIOUS
  <2>a. /\ status \in [Items -> Statuses]
        /\ attempts \in [Items -> Nat]
        /\ \A w \in Busy : held[w] \in Items /\ status[held[w]] = "running"
    BY <2>0 DEF IInv, TypeOK, ThreadDiscipline, ExclusiveExecution, Busy
  <2>1. ASSUME NEW j \in Jobs, NEW K \in SUBSET {"static", "summary"}, K # {}, EnqueueSubmission(j, K)
        PROVE  Kept
    <3>1. SUFFICES ASSUME NEW i \in Items, status'[i] # status[i]
                   PROVE  status[i] = "absent"
      OBVIOUS
    <3>2. i \in K \X {j}
      BY <2>a, <2>1, <3>1 DEF EnqueueSubmission
    <3>3. i = <<i[1], i[2]>> /\ i[1] \in K /\ i[2] = j
      BY <3>2
    <3>4. i = <<"static", j>> \/ i = <<"summary", j>>
      BY <3>3
    <3> QED
      BY <2>1, <3>4 DEF EnqueueSubmission
  <2>2. ASSUME NEW j \in Jobs, EnqueueCompletion(j)
        PROVE  Kept
    BY <2>a, <2>2 DEF EnqueueCompletion
  <2>3. ASSUME NEW i \in Items, Retry(i)
        PROVE  Kept
    BY <2>a, <2>3 DEF Retry
  <2>4. ASSUME NEW p \in Pools, Recover(p)
        PROVE  Kept
    BY <2>a, <2>4 DEF Recover
  <2>5. ASSUME NEW w \in Workers, NEW i \in Items, Claim(w, i)
        PROVE  Kept
    BY <2>a, <2>5 DEF Claim, Claimable
  <2>6. ASSUME NEW w \in Workers, HandlerSucceeds(w) \/ HandlerFails(w)
        PROVE  Kept
    BY <2>a, <2>6 DEF HandlerSucceeds, HandlerFails, Settle, Busy
  <2>7. ASSUME UNCHANGED status
        PROVE  Kept
    BY <2>7
  <2>8. \A i \in Items : BackoffElapses(i) => UNCHANGED status
    BY DEF BackoffElapses
  <2>9. \A p \in Pools : TakeLock(p) \/ PoolExit(p) \/ Crash(p) => UNCHANGED status
    BY DEF TakeLock, PoolExit, Crash, rows
  <2>10. \A w \in Workers : ThreadExit(w) \/ ThreadRaises(w) => UNCHANGED status
    BY DEF ThreadExit, ThreadRaises, rows
  <2> QED
    BY <2>0, <2>1, <2>2, <2>3, <2>4, <2>5, <2>6, <2>7, <2>8, <2>9, <2>10 DEF Next, Step
<1> QED
  BY <1>1, Invariance, PTL DEF Spec, SettledIsFinal

-----------------------------------------------------------------------------
(* The contract's view of an item, from its row and whether it is held.    *)
HeldItems == {held[w] : w \in Busy}

PhaseOf(s, isHeld) ==
    CASE s = "absent" -> "unknown"
      [] s = "pending" -> "waiting"
      [] s = "running" -> IF isHeld THEN "active" ELSE "waiting"
      [] s = "succeeded" -> "done"
      [] OTHER -> "dead"

View == [i \in Items |-> PhaseOf(status[i], i \in HeldItems)]

LEMMA Views ==
    /\ [i \in Items |-> ContractPhase(i)] = View
    /\ [i \in Items |-> ContractPhase(i)]' = View'
<1>1. ASSUME NEW i \in Items
      PROVE  ContractPhase(i) = PhaseOf(status[i], i \in HeldItems)
  <2>1. CASE \E w \in Busy : held[w] = i
    BY <2>1 DEF ContractPhase, PhaseOf, HeldItems
  <2>2. CASE ~\E w \in Busy : held[w] = i
    BY <2>2 DEF ContractPhase, PhaseOf, HeldItems
  <2>3. QED
    BY <2>1, <2>2
<1>2. ASSUME NEW i \in Items
      PROVE  ContractPhase(i)' = PhaseOf(status'[i], i \in HeldItems')
  <2>1. CASE \E w \in Busy' : held'[w] = i
    BY <2>1 DEF ContractPhase, PhaseOf, HeldItems
  <2>2. CASE ~\E w \in Busy' : held'[w] = i
    BY <2>2 DEF ContractPhase, PhaseOf, HeldItems
  <2>3. QED
    BY <2>1, <2>2
<1>3. QED
  BY <1>1, <1>2 DEF View

(* The steps of the contract, read off the view.                           *)
LEMMA ViewMoves ==
    ASSUME NEW S \in SUBSET Items, NEW to,
           \A i \in Items : View'[i] = IF i \in S THEN to ELSE View[i]
    PROVE  View' = [i \in Items |-> IF i \in S THEN to ELSE View[i]]
BY DEF View

LEMMA Accepts ==
    ASSUME NEW S \in SUBSET Items, S # {}, UNCHANGED attempts,
           \A i \in S : View[i] = "unknown",
           \A i \in Items : View'[i] = IF i \in S THEN "waiting" ELSE View[i]
    PROVE  Contract!Next
<1>1. View' = [i \in Items |-> IF i \in S THEN "waiting" ELSE View[i]]
  BY ViewMoves
<1>2. Contract!Accept(S)
  BY <1>1, Views DEF Contract!Accept
<1>3. QED
  BY <1>2 DEF Contract!Next

LEMMA Interrupts ==
    ASSUME NEW S \in SUBSET Items, S # {}, UNCHANGED attempts,
           \A i \in S : View[i] = "active",
           \A i \in Items : View'[i] = IF i \in S THEN "waiting" ELSE View[i]
    PROVE  Contract!Next
<1>1. View' = [i \in Items |-> IF i \in S THEN "waiting" ELSE View[i]]
  BY ViewMoves
<1>2. Contract!Interrupt(S)
  BY <1>1, Views DEF Contract!Interrupt
<1>3. QED
  BY <1>2 DEF Contract!Next

LEMMA GivesUp ==
    ASSUME NEW S \in SUBSET Items, S # {}, UNCHANGED attempts,
           \A i \in S : View[i] \in {"waiting", "active"} /\ attempts[i] = MaxAttempts,
           \A i \in Items : View'[i] = IF i \in S THEN "dead" ELSE View[i]
    PROVE  Contract!Next
<1>1. View' = [i \in Items |-> IF i \in S THEN "dead" ELSE View[i]]
  BY ViewMoves
<1>2. Contract!GiveUp(S)
  BY <1>1, Views DEF Contract!GiveUp
<1>3. QED
  BY <1>2 DEF Contract!Next

(* One item moves and nothing else.                                        *)
LEMMA OneMoves ==
    ASSUME NEW i \in Items, NEW to, NEW tries,
           View'[i] = to, \A k \in Items \ {i} : View'[k] = View[k],
           attempts' = [attempts EXCEPT ![i] = tries],
           \/ View[i] = "waiting" /\ attempts[i] < MaxAttempts
                /\ to = "active" /\ tries = attempts[i] + 1
           \/ View[i] = "dead" /\ to = "waiting" /\ tries = 0
    PROVE  Contract!Next
<1>1. View' = [View EXCEPT ![i] = to]
  BY DEF View
<1>2. Contract!Begin(i) \/ Contract!Revive(i)
  BY <1>1, Views DEF Contract!Begin, Contract!Revive
<1>3. QED
  BY <1>2 DEF Contract!Next

LEMMA Ends ==
    ASSUME NEW i \in Items, UNCHANGED attempts, View[i] = "active", View'[i] = "done",
           \A k \in Items \ {i} : View'[k] = View[k]
    PROVE  Contract!Next
<1>1. View' = [View EXCEPT ![i] = "done"]
  BY DEF View
<1>2. Contract!End(i)
  BY <1>1, Views DEF Contract!End
<1>3. QED
  BY <1>2 DEF Contract!Next

LEMMA Stutters ==
    ASSUME UNCHANGED attempts, \A i \in Items : View'[i] = View[i]
    PROVE  UNCHANGED Contract!contractVars
<1>1. View' = View
  BY DEF View
<1>2. QED
  BY <1>1, Views DEF Contract!contractVars

-----------------------------------------------------------------------------
(* Who holds what, and what a settled or crashed thread leaves.            *)
LEMMA HeldRows ==
    ASSUME IInv
    PROVE  /\ \A w \in Busy : held[w] \in Items /\ status[held[w]] = "running"
                              /\ attempts[held[w]] = seen[w] /\ stage[w[1]] = "draining"
                              /\ lock = w[1]
           /\ \A v, w \in Busy : held[v] = held[w] => v = w
           /\ HeldItems \subseteq Items
BY DEF IInv, TypeOK, ThreadDiscipline, ExclusiveExecution, Busy, HeldItems

LEMMA StepSimulates ==
    ASSUME IInv, [Next]_vars
    PROVE  [Contract!Next]_(Contract!contractVars)
<1> USE DEF rows, procs, bounds
<1>0. /\ status \in [Items -> Statuses] /\ attempts \in [Items -> Nat]
      /\ MaxAttempts \in Nat \ {0}
      /\ \A i \in Items : View[i] = PhaseOf(status[i], i \in HeldItems)
      /\ \A i \in Items : View'[i] = PhaseOf(status'[i], i \in HeldItems')
  BY ConstantsAssumption DEF IInv, TypeOK, View
<1>1. ASSUME NEW j \in Jobs, NEW K \in SUBSET {"static", "summary"}, K # {}, EnqueueSubmission(j, K)
      PROVE  Contract!Next
  <2>1. PICK S \in SUBSET Items : S = K \X {j}
    BY DEF Items, Kinds
  <2>2. \A i \in S : status[i] = "absent"
    <3> SUFFICES ASSUME NEW i \in S PROVE status[i] = "absent"
      OBVIOUS
    <3>1. i = <<i[1], i[2]>> /\ i[1] \in K /\ i[2] = j
      BY <2>1
    <3>2. i = <<"static", j>> \/ i = <<"summary", j>>
      BY <3>1
    <3>3. QED
      BY <1>1, <3>2 DEF EnqueueSubmission
  <2>3. S # {}
    <3>1. PICK k \in K : TRUE
      BY <1>1
    <3>2. <<k, j>> \in S
      BY <2>1, <3>1
    <3>3. QED
      BY <3>2
  <2>4. /\ status' = [i \in Items |-> IF i \in S THEN "pending" ELSE status[i]]
        /\ UNCHANGED attempts /\ HeldItems' = HeldItems
    BY <1>1, <2>1 DEF EnqueueSubmission, HeldItems, Busy
  <2>5. /\ \A i \in S : View[i] = "unknown"
        /\ \A i \in Items : View'[i] = IF i \in S THEN "waiting" ELSE View[i]
    BY <1>0, <2>2, <2>4 DEF PhaseOf
  <2>6. QED
    BY <2>3, <2>4, <2>5, Accepts
<1>2. ASSUME NEW j \in Jobs, EnqueueCompletion(j)
      PROVE  Contract!Next
  <2>1. PICK i \in Items : i = <<"completion", j>>
    BY Shapes DEF Kinds
  <2>2. /\ status[i] = "absent" /\ status' = [status EXCEPT ![i] = "pending"]
        /\ UNCHANGED attempts /\ HeldItems' = HeldItems
    BY <1>2, <2>1 DEF EnqueueCompletion, HeldItems, Busy
  <2>3. /\ \A k \in {i} : View[k] = "unknown"
        /\ \A k \in Items : View'[k] = IF k \in {i} THEN "waiting" ELSE View[k]
    BY <1>0, <2>2 DEF PhaseOf
  <2>4. {i} \in SUBSET Items /\ {i} # {}
    OBVIOUS
  <2>5. QED
    BY <2>2, <2>3, <2>4, Accepts
<1>3. ASSUME NEW i \in Items, Retry(i)
      PROVE  Contract!Next
  <2>1. /\ status[i] = "failed" /\ status' = [status EXCEPT ![i] = "pending"]
        /\ attempts' = [attempts EXCEPT ![i] = 0] /\ HeldItems' = HeldItems
    BY <1>3 DEF Retry, HeldItems, Busy
  <2>2. View[i] = "dead" /\ View'[i] = "waiting" /\ \A k \in Items \ {i} : View'[k] = View[k]
    BY <1>0, <2>1 DEF PhaseOf
  <2>3. QED
    BY <2>1, <2>2, OneMoves
<1>4. ASSUME NEW p \in Pools, Recover(p)
      PROVE  [Contract!Next]_(Contract!contractVars)
  <2>1. HeldItems = {} /\ HeldItems' = {}
    <3>1. \A w \in Workers : worker[w] # "busy"
      BY <1>4, HeldRows DEF IInv, LockDiscipline, Recover, Busy
    <3>2. \A w \in Workers : worker'[w] # "busy"
      BY <1>4, <3>1 DEF Recover
    <3>3. QED
      BY <3>1, <3>2 DEF HeldItems, Busy
  <2>2. PICK S \in SUBSET Items : S = {i \in Items : status[i] = "running" /\ attempts[i] >= MaxAttempts}
    OBVIOUS
  <2>3. /\ \A i \in Items : status'[i] = IF status[i] # "running" THEN status[i]
                                         ELSE IF attempts[i] >= MaxAttempts THEN "failed" ELSE "pending"
        /\ UNCHANGED attempts
    BY <1>4 DEF Recover
  <2>4. \A i \in Items : View'[i] = IF i \in S THEN "dead" ELSE View[i]
    BY <1>0, <2>1, <2>2, <2>3 DEF PhaseOf
  <2>5. \A i \in S : View[i] = "waiting" /\ attempts[i] = MaxAttempts
    BY <1>0, <2>1, <2>2 DEF PhaseOf, IInv, AttemptsExhausted
  <2>6. CASE S = {}
    BY <2>3, <2>4, <2>6, Stutters
  <2>7. CASE S # {}
    BY <2>3, <2>4, <2>5, <2>7, GivesUp
  <2>8. QED
    BY <2>6, <2>7
<1>5. ASSUME NEW w \in Workers, NEW i \in Items, Claim(w, i)
      PROVE  Contract!Next
  <2>1. /\ worker[w] = "idle" /\ status[i] = "pending" /\ status' = [status EXCEPT ![i] = "running"]
        /\ attempts' = [attempts EXCEPT ![i] = attempts[i] + 1]
        /\ worker' = [worker EXCEPT ![w] = "busy"] /\ held' = [held EXCEPT ![w] = i]
    BY <1>5 DEF Claim, Claimable
  <2>2. attempts[i] < MaxAttempts
    BY <2>1 DEF IInv, AttemptsExhausted
  <2>3. i \in HeldItems' /\ \A k \in Items \ {i} : k \in HeldItems' <=> k \in HeldItems
    BY <2>1 DEF IInv, TypeOK, HeldItems, Busy
  <2>4. i \notin HeldItems
    BY <2>1, HeldRows DEF HeldItems
  <2>5. View[i] = "waiting" /\ View'[i] = "active" /\ \A k \in Items \ {i} : View'[k] = View[k]
    BY <1>0, <2>1, <2>3 DEF PhaseOf
  <2>6. QED
    BY <2>1, <2>2, <2>5, OneMoves
<1>6. ASSUME NEW w \in Workers, worker[w] = "busy", NEW outcome \in {"succeeded", "failed", "pending"},
             NEW ready, Settle(w, outcome, ready), outcome = "failed" => seen[w] = MaxAttempts
      PROVE  Contract!Next
  <2>1. PICK i \in Items : i = held[w]
    BY <1>6, HeldRows DEF Busy
  <2>2. /\ status[i] = "running" /\ attempts[i] = seen[w] /\ i \in HeldItems
    BY <1>6, <2>1, HeldRows DEF Busy, HeldItems
  <2>3. /\ status' = [status EXCEPT ![i] = outcome] /\ UNCHANGED attempts
        /\ worker' = [worker EXCEPT ![w] = "idle"] /\ held' = [held EXCEPT ![w] = NoItem]
    BY <1>6, <2>1 DEF Settle
  <2>4. \A k \in Items \ {i} : k \in HeldItems' <=> k \in HeldItems
    BY <1>6, <2>1, <2>3 DEF IInv, TypeOK, HeldItems, Busy
  <2>5. /\ View[i] = "active" /\ \A k \in Items \ {i} : View'[k] = View[k]
        /\ View'[i] = CASE outcome = "succeeded" -> "done"
                        [] outcome = "failed" -> "dead"
                        [] outcome = "pending" -> "waiting"
    BY <1>0, <2>2, <2>3, <2>4 DEF PhaseOf
  <2>6. {i} \in SUBSET Items /\ {i} # {}
    OBVIOUS
  <2>7. CASE outcome = "succeeded"
    BY <2>3, <2>5, <2>7, Ends
  <2>8. CASE outcome = "failed"
    BY <1>6, <2>2, <2>3, <2>5, <2>6, <2>8, GivesUp
  <2>9. CASE outcome = "pending"
    BY <2>3, <2>5, <2>6, <2>9, Interrupts
  <2>10. QED
    BY <2>7, <2>8, <2>9
<1>7. ASSUME NEW w \in Workers, HandlerSucceeds(w)
      PROVE  Contract!Next
  BY <1>6, <1>7 DEF HandlerSucceeds
<1>8. ASSUME NEW w \in Workers, HandlerFails(w)
      PROVE  Contract!Next
  <2>1. worker[w] = "busy" /\ seen[w] \in Nat /\ seen[w] <= MaxAttempts
    BY <1>0, <1>8, HeldRows DEF HandlerFails, Busy, IInv, AttemptsExhausted
  <2>2. PICK outcome \in {"failed", "pending"} :
          Settle(w, outcome, FALSE) /\ (outcome = "failed" => seen[w] >= MaxAttempts)
    BY <1>8 DEF HandlerFails
  <2>3. outcome = "failed" => seen[w] = MaxAttempts
    BY <1>0, <2>1, <2>2
  <2>4. QED
    BY <1>6, <2>1, <2>2, <2>3
(* Threads that vanish leave their items waiting.                          *)
<1>9. ASSUME NEW W \in SUBSET Workers, UNCHANGED rows,
             Busy' = Busy \ W, \A w \in Busy \ W : held'[w] = held[w]
      PROVE  [Contract!Next]_(Contract!contractVars)
  <2>1. PICK S \in SUBSET Items : S = {held[w] : w \in Busy \cap W}
    <3>1. {held[w] : w \in Busy \cap W} \in SUBSET Items
      BY HeldRows
    <3>2. QED
      BY <3>1
  <2>2. HeldItems' = HeldItems \ S
    BY <1>9, <2>1, HeldRows DEF HeldItems
  <2>3. \A i \in S : i \in HeldItems /\ status[i] = "running"
    BY <2>1, HeldRows DEF HeldItems
  <2>4. /\ \A i \in S : View[i] = "active"
        /\ \A i \in Items : View'[i] = IF i \in S THEN "waiting" ELSE View[i]
    BY <1>0, <1>9, <2>2, <2>3 DEF PhaseOf
  <2>5. CASE S = {}
    BY <1>9, <2>4, <2>5, Stutters
  <2>6. CASE S # {}
    BY <1>9, <2>4, <2>6, Interrupts
  <2>7. QED
    BY <2>5, <2>6
<1>10. ASSUME NEW w \in Workers, ThreadRaises(w)
       PROVE  [Contract!Next]_(Contract!contractVars)
  <2>1. UNCHANGED rows /\ Busy' = Busy \ {w} /\ \A v \in Busy \ {w} : held'[v] = held[v]
    BY <1>10 DEF ThreadRaises, IInv, TypeOK, Busy
  <2>2. QED
    BY <1>9, <2>1
<1>11. ASSUME NEW p \in Pools, Crash(p)
       PROVE  [Contract!Next]_(Contract!contractVars)
  <2>1. PICK W \in SUBSET Workers : W = {w \in Workers : w[1] = p}
    OBVIOUS
  <2>2. UNCHANGED rows /\ Busy' = Busy \ W /\ \A v \in Busy \ W : held'[v] = held[v]
    BY <1>11, <2>1 DEF Crash, Busy
  <2>3. QED
    BY <1>9, <2>2
<1>12. ASSUME UNCHANGED <<status, attempts, held>>, Busy' = Busy
       PROVE  UNCHANGED Contract!contractVars
  <2>1. HeldItems' = HeldItems
    BY <1>12 DEF HeldItems
  <2>2. QED
    BY <1>0, <1>12, <2>1, Stutters
<1>13. ASSUME NEW w \in Workers, ThreadExit(w)
       PROVE  UNCHANGED <<status, attempts, held>> /\ Busy' = Busy
  BY <1>13 DEF ThreadExit, IInv, TypeOK, Busy
<1>14. /\ \A i \in Items : BackoffElapses(i) => UNCHANGED <<status, attempts, held>> /\ Busy' = Busy
       /\ \A p \in Pools : TakeLock(p) \/ PoolExit(p) => UNCHANGED <<status, attempts, held>> /\ Busy' = Busy
       /\ UNCHANGED vars => UNCHANGED <<status, attempts, held>> /\ Busy' = Busy
  BY DEF BackoffElapses, TakeLock, PoolExit, vars, Busy
<1>15. CASE UNCHANGED vars
  BY <1>12, <1>14, <1>15
<1>16. CASE Next
  BY <1>1, <1>2, <1>3, <1>4, <1>5, <1>7, <1>8, <1>10, <1>11, <1>12, <1>13, <1>14, <1>16
  DEF Next, Step
<1>17. QED
  BY <1>15, <1>16

(* The queue keeps its contract: items are begun at most MaxAttempts       *)
(* times, ended once, given up only when the attempts are used, whatever   *)
(* processes crash and recover (work.py:59-102).                           *)
THEOREM ContractKept == Spec => ImplementsContract
<1>1. Init => Contract!Init
  BY DEF Init, Contract!Init, ContractPhase
<1>2. QED
  BY <1>1, StepSimulates, Invariance, PTL DEF Spec, ImplementsContract, Contract!Spec
=============================================================================
