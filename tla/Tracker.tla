------------------------------- MODULE Tracker -------------------------------
(***************************************************************************)
(* Tracker passes (src/src/cslurm/slurm/tracker.py): a pass lists the jobs *)
(* that are not terminal, asks sacct about them in batches outside any     *)
(* transaction, then writes state, event and completion work per job.      *)
(* cron and the web console run a pass under a flock on ctrack.lock; a     *)
(* plain "ctrack" takes no lock.  SQLite lets one connection write at a    *)
(* time, and Python opens a transaction at the first write only.           *)
(***************************************************************************)
EXTENDS Naturals, Sequences, FiniteSets

CONSTANTS
    Jobs,          \* job ids
    Passes,        \* slots for processes running track_once()
    Ends,          \* states in which jobs end, for Slurm
    BatchSize,     \* jobs per sacct call (200 in the code)
    PlainJobs,     \* bound: the jobs followed where passes run outside ctrack.lock
    LogJobs,       \* bound: jobs whose runtime log may come to hold a line no pass can ingest
    MaxFaults,     \* bound: passes that raise or die in one behaviour
    MaxRequeues,   \* bound: ended jobs Slurm puts back, where all passes take the lock
    NoPass,        \* nobody holds ctrack.lock, or nobody writes
    NoJob          \* a pass between two jobs

(* Of TERMINAL_STATES one that failed and one that did not; PREEMPTED ends *)
(* a job in Slurm and is not among them.                                   *)
Terminal == {"COMPLETED", "FAILED"}
Reported == {"PENDING", "RUNNING", "PREEMPTED"} \cup Terminal
States == {"none", "UNKNOWN"} \cup Reported

ASSUME ConstantsAssumption ==
    /\ Ends \subseteq Terminal \cup {"PREEMPTED"}
    /\ BatchSize \in Nat \ {0}
    /\ PlainJobs \subseteq Jobs
    /\ LogJobs \subseteq Jobs
    /\ MaxFaults \in Nat
    /\ MaxRequeues \in Nat
    /\ NoPass \notin Passes
    /\ NoJob \notin Jobs

VARIABLES
    plain,        \* whether passes outside ctrack.lock happen, fixed
    slurm,        \* what accounting says of a job now; "none": nothing
    torn,         \* jobs with a line in a runtime log that no pass can ingest
    state,        \* jobs.state as committed; "none" before the row exists
    events,       \* [Jobs -> Seq([old, new])], committed STATE_CHANGED events
    completions,  \* [Jobs -> Nat], committed completion work items
    lock,         \* the pass holding ctrack.lock
    writer,       \* the pass inside a write transaction
    draft,        \* writes of that transaction: a set of [job, old, new]
    stage,        \* per pass: "off", "list", "query", "write"
    listed,       \* per pass: jobs it will write
    unasked,      \* per pass: jobs sacct was not asked about yet
    answer,       \* per pass: [Jobs -> sacct's answer], "none" without a row
    cur,          \* per pass: job whose state was read and is not written yet
    old,          \* per pass: that state
    faults,       \* bound: see MaxFaults
    requeues      \* bound: see MaxRequeues

db == <<state, events, completions>>
txn == <<writer, draft>>
pass == <<stage, listed, unasked, answer, cur, old>>
vars == <<plain, slurm, torn, db, lock, txn, pass, faults, requeues>>

Change == [job : Jobs, old : States, new : Reported]

TypeOK ==
    /\ plain \in BOOLEAN
    /\ slurm \in [Jobs -> {"none"} \cup Reported]
    /\ torn \in SUBSET Jobs
    /\ state \in [Jobs -> States]
    /\ events \in [Jobs -> Seq([old : States, new : Reported])]
    /\ completions \in [Jobs -> Nat]
    /\ lock \in Passes \cup {NoPass}
    /\ writer \in Passes \cup {NoPass}
    /\ draft \in SUBSET Change
    /\ stage \in [Passes -> {"off", "list", "query", "write"}]
    /\ listed \in [Passes -> SUBSET Jobs]
    /\ unasked \in [Passes -> SUBSET Jobs]
    /\ answer \in [Passes -> [Jobs -> {"none"} \cup Reported]]
    /\ cur \in [Passes -> Jobs \cup {NoJob}]
    /\ old \in [Passes -> States]
    /\ faults \in 0..MaxFaults
    /\ requeues \in 0..MaxRequeues

Nothing == [j \in Jobs |-> "none"]

Init ==
    /\ plain \in BOOLEAN
    /\ slurm = Nothing
    /\ torn = {}
    /\ state = Nothing
    /\ events = [j \in Jobs |-> <<>>]
    /\ completions = [j \in Jobs |-> 0]
    /\ lock = NoPass
    /\ writer = NoPass
    /\ draft = {}
    /\ stage = [a \in Passes |-> "off"]
    /\ listed = [a \in Passes |-> {}]
    /\ unasked = [a \in Passes |-> {}]
    /\ answer = [a \in Passes |-> Nothing]
    /\ cur = [a \in Passes |-> NoJob]
    /\ old = [a \in Passes |-> "none"]
    /\ faults = 0
    /\ requeues = 0

-----------------------------------------------------------------------------
(* Slurm and the receipts *)

(* Two overlapping passes over several jobs are out of TLC's reach.        *)
Followed == IF plain THEN PlainJobs ELSE Jobs

Progress(j) ==
    /\ j \in Followed
    /\ \/ slurm[j] = "none" /\ slurm' = [slurm EXCEPT ![j] = "PENDING"]
       \/ slurm[j] = "PENDING" /\ slurm' = [slurm EXCEPT ![j] = "RUNNING"]
       \/ /\ slurm[j] \in {"PENDING", "RUNNING"}
          /\ \E s \in Ends : slurm' = [slurm EXCEPT ![j] = s]
    /\ UNCHANGED <<plain, torn, db, lock, txn, pass, faults, requeues>>

Requeue(j) ==
    /\ ~plain /\ requeues < MaxRequeues
    /\ slurm[j] \in Ends
    /\ slurm' = [slurm EXCEPT ![j] = "PENDING"]
    /\ requeues' = requeues + 1
    /\ UNCHANGED <<plain, torn, db, lock, txn, pass, faults>>

(* Programs of a running job append to commands.log and finish.log without *)
(* a lock: a line is torn by another one, by a full disk or a kill, or it  *)
(* has a directory that is not text.  Nothing repairs it.                  *)
TearLog(j) ==
    /\ j \in Followed \cap LogJobs
    /\ slurm[j] = "RUNNING"
    /\ torn' = torn \cup {j}
    /\ UNCHANGED <<plain, slurm, db, lock, txn, pass, faults, requeues>>

(* A submission receipt is imported, see ReceiptSpool.                     *)
InsertJob(j) ==
    /\ j \in Followed
    /\ writer = NoPass
    /\ state[j] = "none"
    /\ state' = [state EXCEPT ![j] = "UNKNOWN"]
    /\ UNCHANGED <<plain, slurm, torn, events, completions, lock, txn, pass, faults, requeues>>

-----------------------------------------------------------------------------
(* A pass *)

Start(a) ==
    /\ stage[a] = "off" /\ a = CHOOSE b \in Passes : stage[b] = "off"
    /\ stage' = [stage EXCEPT ![a] = "list"]
    /\ UNCHANGED <<plain, slurm, torn, db, txn, listed, unasked, answer, cur, old, faults, requeues>>

StartLocked(a) == lock = NoPass /\ lock' = a /\ Start(a)

StartUnlocked(a) == plain /\ Start(a) /\ UNCHANGED lock

(* The web console holds the lock for the pass it runs: if it is killed,   *)
(* the pass goes on without it.                                            *)
Orphan(a) ==
    /\ plain
    /\ stage[a] # "off" /\ lock = a
    /\ lock' = NoPass
    /\ UNCHANGED <<plain, slurm, torn, db, txn, pass, faults, requeues>>

(* Mutants: terminal jobs are listed too; jobs nobody has seen are not.    *)
OpenAll == {j \in Jobs : state[j] # "none"}
OpenSeen == {j \in Jobs : state[j] \in {"PENDING", "RUNNING"}}

Open == {j \in Jobs : state[j] \notin {"none"} \cup Terminal}

(* The jobs to look at are fixed here, in a transaction of their own.      *)
List(a) ==
    /\ stage[a] = "list"
    /\ stage' = [stage EXCEPT ![a] = "query"]
    /\ listed' = [listed EXCEPT ![a] = Open]
    /\ unasked' = [unasked EXCEPT ![a] = Open]
    /\ answer' = [answer EXCEPT ![a] = Nothing]
    /\ UNCHANGED <<plain, slurm, torn, db, lock, txn, cur, old, faults, requeues>>

(* One sacct call about the next batch.                                    *)
Query(a) ==
    /\ stage[a] = "query"
    /\ \E B \in SUBSET unasked[a] :
        /\ Cardinality(B) = BatchSize \/ (B = unasked[a] /\ Cardinality(B) < BatchSize)
        /\ B # {}
        /\ unasked' = [unasked EXCEPT ![a] = @ \ B]
        /\ answer' = [answer EXCEPT ![a] = [j \in Jobs |-> IF j \in B THEN slurm[j] ELSE @[j]]]
    /\ UNCHANGED <<plain, slurm, torn, db, lock, txn, stage, listed, cur, old, faults, requeues>>

Answered(a) ==
    /\ stage[a] = "query" /\ unasked[a] = {}
    /\ stage' = [stage EXCEPT ![a] = "write"]
    /\ UNCHANGED <<plain, slurm, torn, db, lock, txn, listed, unasked, answer, cur, old, faults, requeues>>

(* The rows as the open transaction leaves them, if it is committed.       *)
Committed ==
    LET change(j) == {c \in draft : c.job = j}
        moved(j) == {c \in change(j) : c.old # c.new}
    IN  /\ state' = [j \in Jobs |->
              IF change(j) = {} THEN state[j] ELSE (CHOOSE c \in change(j) : TRUE).new]
        /\ events' = [j \in Jobs |->
              IF moved(j) = {} THEN events[j]
              ELSE LET c == CHOOSE c \in moved(j) : TRUE
                   IN  Append(events[j], [old |-> c.old, new |-> c.new])]
        /\ completions' = [j \in Jobs |->
              IF \E c \in moved(j) : c.new \in Terminal THEN completions[j] + 1 ELSE completions[j]]

(* A job with a runtime log: ingest_runtime_commands and _finish commit,   *)
(* and with their events whatever the pass has written so far.             *)
IngestRuntimeLog(a) ==
    /\ stage[a] = "write" /\ cur[a] = NoJob /\ listed[a] # {}
    /\ writer = a
    /\ Committed
    /\ writer' = NoPass /\ draft' = {}
    /\ UNCHANGED <<plain, slurm, torn, lock, pass, faults, requeues>>

Stop(a) ==
    /\ stage' = [stage EXCEPT ![a] = "off"]
    /\ listed' = [listed EXCEPT ![a] = {}]
    /\ unasked' = [unasked EXCEPT ![a] = {}]
    /\ answer' = [answer EXCEPT ![a] = Nothing]
    /\ cur' = [cur EXCEPT ![a] = NoJob]
    /\ old' = [old EXCEPT ![a] = "none"]
    /\ lock' = IF lock = a THEN NoPass ELSE lock

RollBack(a) == IF writer = a THEN writer' = NoPass /\ draft' = {} ELSE UNCHANGED txn

(* json.loads, or binding a value, raises at such a line, in this pass and *)
(* in every later one that still lists the job: the answers for all jobs   *)
(* that were not committed yet are lost.                                   *)
RaiseTorn(a) ==
    /\ stage[a] = "write" /\ cur[a] = NoJob
    /\ listed[a] \cap torn # {}
    /\ RollBack(a)
    /\ Stop(a)
    /\ UNCHANGED <<plain, slurm, torn, db, faults, requeues>>

(* The job's log was ingested, if it has one, just before its state is     *)
(* read; a line torn between the two is as well torn after them.           *)
IngestedLog(a, j) ==
    /\ stage[a] = "write" /\ cur[a] = NoJob
    /\ j \in listed[a] \ torn

(* sacct has no row for the job: it keeps its state.                       *)
SkipJob(a, j) ==
    /\ IngestedLog(a, j)
    /\ answer[a][j] = "none"
    /\ listed' = [listed EXCEPT ![a] = @ \ {j}]
    /\ UNCHANGED <<plain, slurm, torn, db, lock, txn, stage, unasked, answer, cur, old, faults, requeues>>

(* The current state is selected: before the first write of a transaction  *)
(* this read is outside it.                                                *)
ReadState(a, j) ==
    /\ IngestedLog(a, j)
    /\ answer[a][j] # "none"
    /\ cur' = [cur EXCEPT ![a] = j]
    /\ old' = [old EXCEPT ![a] = state[j]]
    /\ UNCHANGED <<plain, slurm, torn, db, lock, txn, stage, listed, unasked, answer, faults, requeues>>

(* update jobs; with a new state also the event and, if that is terminal,  *)
(* the completion work.  The write waits while another pass is writing.    *)
WriteState(a) ==
    LET j == cur[a]
    IN  /\ stage[a] = "write" /\ j # NoJob
        /\ writer \in {NoPass, a}
        /\ writer' = a
        /\ draft' = draft \cup {[job |-> j, old |-> old[a], new |-> answer[a][j]]}
        /\ listed' = [listed EXCEPT ![a] = @ \ {j}]
        /\ cur' = [cur EXCEPT ![a] = NoJob]
        /\ old' = [old EXCEPT ![a] = "none"]
        /\ UNCHANGED <<plain, slurm, torn, db, lock, stage, unasked, answer, faults, requeues>>

(* The final commit; the process ends and its flock with it.               *)
Finish(a) ==
    /\ stage[a] = "write" /\ listed[a] = {}
    /\ IF writer = a
       THEN Committed /\ writer' = NoPass /\ draft' = {}
       ELSE UNCHANGED <<db, txn>>
    /\ Stop(a)
    /\ UNCHANGED <<plain, slurm, torn, faults, requeues>>

(* Mutant: states are committed one by one, before their events and work.  *)
FailAutocommitted(a) ==
    /\ faults < MaxFaults
    /\ stage[a] # "off"
    /\ state' = IF writer = a
          THEN [j \in Jobs |-> IF \E c \in draft : c.job = j
                               THEN (CHOOSE c \in draft : c.job = j).new ELSE state[j]]
          ELSE state
    /\ RollBack(a)
    /\ Stop(a)
    /\ faults' = faults + 1
    /\ UNCHANGED <<plain, slurm, torn, events, completions, requeues>>

(* sacct fails, a log is read while its last line is being written, the    *)
(* database stays locked, the process is killed: what was not committed is *)
(* rolled back.                                                            *)
Fail(a) ==
    /\ faults < MaxFaults
    /\ stage[a] # "off"
    /\ RollBack(a)
    /\ Stop(a)
    /\ faults' = faults + 1
    /\ UNCHANGED <<plain, slurm, torn, db, requeues>>

-----------------------------------------------------------------------------
Advance(a) ==
    \/ List(a) \/ Query(a) \/ Answered(a)
    \/ \E j \in Jobs : SkipJob(a, j) \/ ReadState(a, j)
    \/ WriteState(a) \/ RaiseTorn(a) \/ Finish(a)

Next ==
    \/ \E j \in Jobs : Progress(j) \/ Requeue(j) \/ TearLog(j) \/ InsertJob(j)
    \/ \E a \in Passes : \/ StartLocked(a) \/ StartUnlocked(a) \/ Orphan(a)
                         \/ Advance(a) \/ IngestRuntimeLog(a) \/ Fail(a)

Spec == Init /\ [][Next]_vars

(* cron starts a pass every minute and a started pass keeps running.       *)
Fairness ==
    /\ WF_vars(\E a \in Passes : StartLocked(a))
    /\ \A a \in Passes : WF_vars(Advance(a))

FairSpec == Spec /\ Fairness

-----------------------------------------------------------------------------
(* Properties *)

(* docs/sbatch-compatibility.md: "Previously recorded terminal states,     *)
(* notifications and exclusions are preserved."  A pass writes answers     *)
(* that may be old by then (tracker.py:101-125).                           *)
TerminalPreserved ==
    [][\A j \in Jobs : ~plain /\ state[j] \in Terminal => state'[j] = state[j]]_vars

(* Whatever passes overlap or fail half way, an end that is recorded is    *)
(* queued for analysis, and so is every terminal event: state, event and   *)
(* work are one transaction (tracker.py:122-132, docs/operations.md:14).   *)
(* Among passes that respect ctrack.lock it is queued once.                *)
EndsAreQueued ==
    \A j \in Jobs :
        /\ state[j] \in Terminal => completions[j] > 0
        /\ completions[j] = Cardinality({n \in DOMAIN events[j] : events[j][n].new \in Terminal})
        /\ ~plain => completions[j] <= IF state[j] \in Terminal THEN 1 ELSE 0

(* The events of a job tell its history: each one continues the previous   *)
(* and the last one ends in the recorded state (tracker.py:120-129).       *)
EventsTellHistory ==
    ~plain => \A j \in Jobs :
        LET e == events[j]
        IN  /\ \A n \in 1..Len(e) - 1 : e[n].new = e[n + 1].old
            /\ \A n \in 1..Len(e) : e[n].old # e[n].new
            /\ e # <<>> => e[1].old = "UNKNOWN" /\ e[Len(e)].new = state[j]
            /\ e = <<>> => state[j] \in {"none", "UNKNOWN"}

(* With cron alive the end of a tracked job is eventually recorded and     *)
(* queued for analysis, unless Slurm takes it back first: for the ends the *)
(* tracker knows, and unless a job that is still open, this one or any     *)
(* other, has a torn log and so ends every pass (tracker.py:112-133).      *)
EndIsRecorded ==
    \A j \in Jobs :
        state[j] # "none" /\ slurm[j] \in Terminal
            ~> \/ state[j] \in Terminal /\ completions[j] > 0
               \/ slurm[j] \notin Terminal
               \/ Open \cap torn # {}

(* docs/notifications.md:18 "records every terminal job transition before  *)
(* deciding whether to push a message": for every end Slurm has.           *)
EveryEndIsRecorded ==
    \A j \in Jobs :
        state[j] # "none" /\ slurm[j] \in Ends ~> completions[j] > 0 \/ slurm[j] \notin Ends
=============================================================================
