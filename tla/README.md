# A formal model of CleverSlurm

CleverSlurm wraps the Slurm commands, keeps what it learns about jobs in one
SQLite database per `CSLURM_ROOT`, analyses the ends of jobs and reports them to
a webhook. It has no server process: short-lived processes (the wrappers, the
tracker that cron starts every minute, worker pools, dispatchers, the web
console's children) meet in the database, in spool directories and on lock files,
and any of them may die at any line. The modules in this directory model those
processes and what they promise each other; TLC checks them on small instances
and TLAPS proves every safety property for every instance.

`PROJECT.json` is the index: components, runs, the source lines behind every
definition, hazards, findings and theorems.

## The system

| Component (source under `src/src/cslurm`) | State it keeps | Operations | What makes it correct |
|---|---|---|---|
| Durable work queue (`work.py`, `cli/cwork.py`) | `work_items` rows; `workers.lock` | enqueue, claim, settle, recover, retry, drain, wake | one handler per item; five attempts, whatever dies; a summary after its static analysis; everything enqueued is settled |
| Command receipts (`slurm/submissions.py`, `runtime/{receipts,spool,cancellation}.py`, `cli/csrun.py`, `cli/cscancel.py`) | files in `spool/{sbatch,csrun,scancel}` and their archive directories; `jobs`, `job_events` | publish, list, validate, record, archive, replay | each receipt takes effect once; none is lost; a row is never reset |
| Tracker (`slurm/tracker.py`, `cli/ctrack.py`, `runtime/ingest.py`) | `jobs.state`, `STATE_CHANGED` events; `ctrack.lock` | list open jobs, ask sacct in batches, write states, events and completion work | an end is recorded and queued exactly once; history is continuous; terminal states stay |
| Completion analysis (`notify/analysis.py`, `notify/semantic.py`) | `job_analysis` | classify, scan logs, ask a model, merge | verdict and mode follow the documented table |
| Notifications (`notify/dispatcher.py`, `notify/feishu.py`, `cli/cnotify.py`) | `notifications`, `notification_batches`; `dispatch.lock` | enqueue with a dedupe key, claim, group, post, settle, recover | posted at most once; the table tells what happened; batches agree with rows |
| Doctor (`doctor.py`) | `notification_exclusions`, backup files | health, backup, verify, restore, freeze-history | nothing before the line is ever sent; a verified copy is a committed state of the database; copies never overwrite |
| Submission wrappers (`cli/csbatch.py`, `slurm/{native,native_sbatch,sbatch_options,cancel_options,commands}.py`) | none | snapshot, run the native command, publish | the native command behaves as if it were alone |
| Model client and its users (`ai/*`) | summary columns, `AI_...` events; telemetry | chat with retry and fallback, summarise, ask | bounded requests, stop at the first success; a summary and its event agree |
| Static analysis (`collect/*`) | `job_commands`, `job_files` | parse script, record | repeating it adds nothing |
| Cron entry and shims (`auto_track.py`, `shims.py`) | the user's crontab, links | enable, disable, install, remove, the line's own cleanup | one tracker at most, always where `off` finds it; nobody else's lines or files are touched; a leftover removes itself |
| Web operations (`web/operations.py`) | one running child, its last 50 results | start, time out, close | one at a time, none left behind |
| Settings and registry (`web/settings.py`, `web/remotes.py` `Registry`, `config.py`) | `config.toml`, `servers.json`, backups | save under a revision | no lost update, no torn file |
| Remote servers (`web/{remotes,discovery,remote_*}.py`) | bridge processes and pending requests | connect, request, time out, install | an answer goes to the request it belongs to |
| Web server, views, reports (`web/{server,data}.py`, `cli/cjobs.py`) | none | read | |

How they interact:

```
csbatch / csrun / cscancel --receipt--> spool --import--> jobs, job_events, work_items
                                                              |            |
cron: ctrack --sacct--> jobs.state + event + completion work -+   drain() threads
                                                                   |  static, summary, completion
                                                                   v
              dispatch_pending() <-- notifications <-- process_job_completion
                   |
                webhook
```

Both the tracker and `drain()` import receipts; every writer of work calls
`wake()`; the tracker ends by dispatching. `workers.lock`, `ctrack.lock` and
`dispatch.lock` are `flock`s that the kernel drops when their holder dies.
`freeze-history` takes all three.

What is hard here: processes that die between two transactions or between a
commit and a rename; passes that overlap, some under a lock and some (a plain
`ctrack`) not; answers of sacct and of the webhook that are old, late or missing;
updates that are unconditional because a lock is supposed to make them safe; work
that must happen eventually although nobody waits for it. `PROJECT.json` lists
each at its line under `hazards`.

## Modules

### The work queue: `WorkQueue`, `WorkContract`, `WorkQueueProofs`

`WorkQueue` has the `work_items` table (`status`, `attempts`, `due` for
`available_at <= now`, `rowId`) and, per process, its stage, budget and threads.
`TakeLock`/`Recover`/`Claim`/`ThreadExit`/`PoolExit` are the steps of `drain()`,
each a transaction or a thread's decision; `Claim` covers the guard, the select
and the update because the code holds `guard` and an immediate transaction
around them. `HandlerSucceeds` and `HandlerFails` are the update after the
handler, unconditional as in the code: nothing in `Settle` looks at the row.
`ThreadRaises` is a transaction that fails past the retry deadline; `Crash` is
the death of the process. `wake()` hands its locked descriptor to the child, so
taking the lock and starting are one step; a caller that finds the lock held gives
up and changes nothing.

`WorkContract` says what callers rely on: items are accepted, begun at most
`MaxAttempts` times, ended once, given up only when the attempts are used. The
mapping (`ContractPhase`) calls a row left `running` by a dead thread *waiting*:
that is what recovery makes of it.

### Receipts: `ReceiptSpool`, `JobLedger`, `ReceiptSpoolProofs`

A receipt is reduced to its kind, the job it names and a *form* that decides its
effect; the form `opaque` makes the import raise, whether git prints bytes that are
not text or a recorded value (an argument, a directory) has surrogates that SQLite does
not take: `Commit` is for the others, `RaiseOpaque` ends the pass. `BeginPass` lists the submissions, `NextSpool` the other spools in the
order of the code; `Take` reads and validates one file, `Commit` is the immediate
transaction of its kind (`RecordSubmission`, `RecordRun`, `RecordCancel`),
`Archive` the rename. Between any two of them the pass may be cut short (`Abort`)
and another pass may do anything. `BeginDirect` is the Python API, which imports
the receipt it has just published. File names are random, so the order in which a
pass meets two receipts is independent of the order they were published in:
receipts are numbers, and every assignment of contents to numbers is an initial
state. `JobLedger` is the same without files and passes: each receipt acts once,
in one step.

### Tracker: `Tracker`, `TrackerProofs`

A pass goes `list`, `query`, `write`. `List` fixes the open jobs in a transaction
of its own; `Query` asks sacct about one batch and remembers what accounting said
*then*; `ReadState` and `WriteState` are separate because Python opens a
transaction only at the first write, so the select before it can be overtaken.
`draft` holds the uncommitted writes; `IngestRuntimeLog` is the commit hidden in
the runtime-log import, which publishes whatever was written so far; `Finish` is
the last commit; `Fail` rolls back. `TearLog` makes a runtime log unreadable, for good:
`json.loads` raises at a torn line and a pass that comes to it ends like one that fails
(`RaiseTorn`), each time. `StartLocked` is cron's pass and the console's,
`StartUnlocked` a plain `ctrack`, and `Orphan` the console dying under the pass it
holds the lock for (the child does not inherit the descriptor). The last two happen
in the behaviours that begin with `plain`, so that one run has both worlds; `Ends`
says in which states jobs end for Slurm, which need not be those the tracker calls
terminal.

### Notifications: `Dispatch`, `Delivery`, `DispatchProofs`

`Complete` is the transaction of the completion handler. It may run again with
another verdict, because a worker that dies after it is recovered and handlers
consult logs and a model; the dedupe key contains the verdict. A claim takes all
units of one mode at once, `Send` is one POST whose outcome is confirmed, in
doubt, or never sent, `Finish` settles rows only while they are `sending` and the
batch unconditionally. A batch is known by its first row: a row is claimed at most
once. `FreezeHistory` is the boundary of `doctor.py`. `Delivery` is the promise to
the user: at most one POST per message.

### From an end to its notification: `Completion`, `Pipeline`, `PipelineProofs`

`Completion` is the judgement as pure operators: `Classify` on the facts of
accounting, `Windows` and `Strongest` on the log (first pattern per line, at most
`MaxMatches` lines), `Analyze` for the three together with the success criteria,
`Answer` and `Merge` for a model, `Decide` for the mode, `Key` for the dedupe key.
`Windows` is a set of positions in the log, not a sequence of lines, so that what
`Strongest` chooses can be reasoned about; the choice is the same. A line of a log is the set of patterns that occur in it; criteria have an outcome
(`missed`) and may be of the kind that raises.

`Pipeline` is the completion handler of one job around them: `Analyse` reads,
`ModelReplies` or `ModelFails` waits, `Record` is the one transaction, `Succeed`
the update of the queue. Between them output still arrives (`OutputArrives`), the
receipt of a cancellation is published and imported, and the pool dies and is
recovered (`Fault`). The pool is one step here because `WorkQueue` has it in
detail; `Dispatch` takes over where a row exists. `item` keeps the verdict without
the model beside the final one, so that properties can compare them.

### Web consoles: `Console`, `Remotes`, `RemotesProofs`

`Console` has any number of consoles on one root: cweb itself and the helpers that
SSH connections start run the same server. `StartOp` is `Operations.start()` under
`ops.lock`; `LockTracking`, `Spawn`, `Collect` or `Deadline`, `Release`, `Settle` are
the steps of its worker thread `_run()`, with the flock on `ctrack.lock` held from
before the child starts until after it ended. `CloseAsk`, `CloseTerminate`,
`CloseJoin` are the three parts of `close()`, between which the worker goes on;
`Kill` is the death of the process, whose child, in a session of its own, lives on.
A save of `config.toml` is `BeginSave` (it keeps `ops.lock` to the end),
`CheckRevision`, `Recheck`, `Replace`; `OutsideEdit` may come between any two.
Contents of the file are a version and who wrote it: a revision is a hash of all
of it. `shown` is the revision the request carries (the page may be loaded again
meanwhile); `overtaken` remembers an outside edit after the second look of a save,
the one thing no lock of the code can prevent and the only exception `SavesSurvive` makes.

`Remotes` extends it. `here` is a cweb with one registered server, `bridge` its
`Bridge`, and a console of the other module the helper at its far end. Tabs relay
requests (`LookUp` under the manager's lock, then `Send` whenever `Bridge.lock` is
free, `Receive` or `TimeOut`); `Begin` and the steps after it are `action()` under the
manager's lock, whose `_disconnect()` asks the helper for its active operation and
closes the bridge without letting go of `Bridge.lock`. Closing is one step: its waits
and kills concern the local ssh only, and the helper sees the end of its input some
time later (`HelperEof`). `BeginInstall` to `InstallWrites` are the installer thread,
`ThereLocks` and `ThereWrites` another cweb on the same registry. A new connection
gets a new helper; the old one may still be finishing its operation on the same root.

### Model calls and copies of the database: `ModelCalls`, `Backups`, `BackupsProofs`

`ModelCalls` has processes that make runs: a summary of a submission or completion,
or a question. `Start` builds the client, from one revision of `config.toml` because
`consistent_config` reads the file once; without key, endpoint or model it raises.
One request is one step, `Accept`, `AskAgain` (same model), `AskNext` (fallback) or
`ChatFails`: the exits of the two loops of `_chat_with_fallback`, in the order the
code tries them. A reply is classified by what the client does about it, so that the
parsers of the two providers and the extraction of an object from prose are the
classification `Accepted`. `GoOn` is the `except` around a chat: after a JSON chat a
plain one with all candidates again, then failure for a summary and an answer from
the database for a question. `Write` commits the column and its event, `WriteFails`
is a database that stays locked, `RecordFailure` what the automatic summary leaves.

`Backups` extends it: `cdoctor backup` and `restore` copy the database in pages while
runs commit to it. A copy has two halves, the summaries and the events, so that a
commit can fall between them; `Commit` composes a step of `ModelCalls` with what
SQLite does to copies under way, which is external to `src/`: it starts them over.
`Create` is the exclusive creation, `Verify` what is reported, `CopyFails` an error or
a kill that leaves what is there.

### The crontab: `Crontab`, `CrontabProofs`

Lines are markers, the managed line and entries of the user. `Reads` and `Install`
are the two halves of everything that rewrites a crontab: `ctrack auto on` and `off`
(`CommandReads`), the cleanup inside the managed line (`TickReads`, the awk script of
`build_cron_line`) and the user's editor (`UserReads`, `UserSaves`), between which
anybody else may install. `Scan` and `Managed` are `_strip_managed_block` and
`_managed_line` line by line. A failing `crontab -l` reads as an empty one.

## Runs

All bounds are constants named `Max...`; their comments say what they bound.

| Run | Shows | Instance |
|---|---|---|
| `queue` | `ExclusiveExecution`, `AttemptsExhausted`, `SummaryAfterStatic`, `SettledIsFinal`, that the queue implements `WorkContract`, and `EventuallySettled` | 1 job (3 items), 2 processes of 2 threads, 2 attempts, budget 2, 1 fault, any number of failing handlers, 1 retry |
| `receipts` | `NothingLost`, `WorkFollowsSubmission`, refinement of `JobLedger` (each receipt acts once, no row is reset); `EventuallyFiled`: every receipt is filed unless one ahead of it in the pass, or it itself, cannot be recorded | every pair of receipts over 9 contents and 2 jobs, one content of each kind cannot be recorded, 2 passes, 1 cut short, 1 replay |
| `tracker` | under the lock `EventsTellHistory`, `TerminalPreserved` and that an end is queued once; with plain runs and orphans too, that it is queued (`EndsAreQueued`); `EndIsRecorded`, as long as no open job has a torn log | 2 jobs, one of which may tear its log, 2 passes, one job per batch, 1 failure, 1 requeue; without the lock 1 job and no requeue |
| `pipeline` | `HardFailureOnce`, `RepeatsAreSilent`, `VerdictsReported`, `OnlyFindingsCount`, `EventuallyReported` | 6 ends (hard by state, by exit code, by derived code, clean, cancelled), 3 kinds of lines, cap of 2 matches, 3 changes, 4 replies, 2 attempts, 1 interruption |
| `dispatch` | `StatusTellsDelivery`, `BatchAgrees`, `NoReplay`, `AtMostOnce` (refinement of `Delivery`), `EventuallyAttempted` | 2 jobs, 2 rows, 3 verdicts, 2 dispatchers, group threshold 2, a limit of 1 or 2 rows per claim, 1 death or manual run, 1 freeze |
| `console` | `OneTracker`, `NoneLeftBehind`, `SavesSurvive` | 2 consoles, 2 operations, 1 result kept, 2 saves, 1 outside edit, 1 kill, cron any time |
| `remotes` | `OwnAnswers`, `NoForgottenBridge`, `DisconnectSpares`, `EditsSurvive`, `HelperLeaves` | 1 tab, 2 actions, 2 helpers, 2 profiles (one read-only), 1 request of the tab (before the questions of the actions), 1 operation, 1 change elsewhere, 1 break of the connection |
| `calls` | `SummaryMatchesEvent`, `ChatsEndRight`, `BackupsAgree`, `BackupsStand`, `RunsEnd` | 2 callers (one the automatic summary), 2 candidate models named 3 times or a client that cannot be built, 4 replies, 1 retry, 3 tasks in all, 1 copier, 2 paths |
| `crontab` | `OneBlock`, `EntriesKept`, `LeftoverRemoved` | 2 commands, 1 cleanup, the user with 2 entries, 5 uses (commands, edits, failing reads) |

Runs that end in a counterexample, each a disagreement of the code with a sentence
of its documentation (`findings` quotes it):

| Run | Counterexample |
|---|---|
| `receipts_opaque` | a receipt cannot be recorded (`git diff` prints bytes that are not text, or an argument or directory has bytes that are not text and SQLite refuses the string); the exception is not an `OSError`, leaves the import loop, and the receipts after it are never imported, although docs/operations.md:38 says that malformed records do not block valid ones |
| `tracker_preempted` | a job ends `PREEMPTED`, a state the analysis knows and the tracker does not call terminal: it is polled for ever and nothing is reported |
| `pipeline_criteria` | an absolute pattern in `require_output_files` makes every attempt raise; a failed job is never reported |

More disagreements show in the models without a run of their own:

- One line of a job's `commands.log` or `finish.log` that is not JSON (two programs of the
  job append at once, the disk is full, a program is killed) stops the tracker: it raises
  in `json.loads` (`ingest.py:43`, `:104`) in every pass that lists the job
  (`tracker.py:114`), and the answers for *all* open jobs that were not committed are
  rolled back. As the job's own end is not recorded either, it stays listed, and until
  somebody repairs the file an end is recorded only if the import of another log happens
  to commit it before. docs/notifications.md:18 says
  that every terminal transition is recorded. `EndIsRecorded` therefore says: an end is
  recorded, or an open job has a torn log (`Tracker`).
- A `csrun` step imported before its submission inserts the row, and the submission
  then queues no static analysis and no summary (`submissions.py:112`), while
  docs/operations.md:5 says it does (`ReceiptSpool`).
- `TerminalPreserved` holds under `ctrack.lock` and fails where passes run outside it
  (`plain`): a plain
  `ctrack` writes an old answer over a terminal state (`tracker.py:122`), and the next
  pass queues the same end again, while docs/sbatch-compatibility.md:93 says that
  recorded terminal states are preserved (`Tracker`).
- A job cancelled by its user that misses a required file, or whose log matches, is
  reported at once (`analysis.py:413`), while docs/notifications.md:44 assigns digest
  mode to it (`Pipeline`).
- docs/configuration.md:257 gives `request_retries` to "transport-level errors" and has
  time-outs move on to the fallback. In `client.py:191-207` an error while the answer is
  read (cut off, reset) is neither retried nor followed by a fallback, and a connection
  that times out is a `URLError` and is tried again with the same model. Line 259 says
  that errors such as HTTP 401 are not hidden by fallback: no other model is asked, but
  `_request_summary` (`summarize.py:67`) sends a second, plain request after any failure
  (`ModelCalls`).
- README.md:284 and docs/notifications.md:131 say that only the marked block of the
  crontab is edited. `EntriesKept` says when that is so: if the crontab could be read
  (`auto_track.py:142`; in the cleanup, a pipeline whose failing `crontab -l` feeds awk
  nothing), nobody else wrote since, and the block has its end marker. Otherwise entries
  of the user are gone (`Crontab`).
- A summary is made from facts read before the chat and written after it
  (`summarize.py:116`): two overlapping runs may leave the older facts. No document
  promises otherwise; `SummaryMatchesEvent` says only that column and event agree.

Why the bounds are enough. Five attempts, budget 100, batches of 200 and ten
grouped messages only move the boundary: with 2, 2, 1 and 2 each limit is reached,
and so is the state just below it. In `dispatch` the limit is 2 in some behaviours and 1
in the others, so that it also cuts while a group of two still exists. Two of everything that competes (processes,
threads, passes, dispatchers) gives every pairwise race; a third would wait on the
same lock. One fault at any point covers each place a process can die, and
together with a failing handler it uses up both attempts of an item. One job suffices for the queue because items only interact through
their job (static before summary) and the claim order, and the three kinds are
already three items; the proofs cover any number. One tab suffices for `remotes`
because it contends for `Bridge.lock` with the actions, as a second tab would; the
second helper is there for a reconnection beside the old one; one console is killed,
and helpers are not, because that is the case `console` has. In `calls` one copier
suffices for `BackupsAgree`; that two of them never write one path (`BackupsStand`, the
exclusive creation) is a race the run does not have and the proof covers. Three tasks
give two overlapping runs around a copy, or a backup, its restore and a run between;
an empty answer and a busy model (`"blank"`, `"busy"`) lead where a connection that
fails for the last time leads, and are left out of the run, not of the module. In `crontab`
five uses let two commands and an editor overlap and one of them fail, after an entry
and a block are there. `tracker` and `dispatch` take the first free slot for a new
process instead of any: slots are interchangeable and this is sound where symmetry is
not. Symmetry is declared only over
processes, threads, consoles and jobs that no definition tells apart, and never in a run
with a liveness property.

Fairness. Cron starts a tracker pass every minute and the tracker wakes workers
and dispatches, hence weak fairness on `TakeLock`, `BeginPass`, `StartLocked` and
`StartTracker`; the operating system keeps running a process that is not blocked,
and handlers and posts have timeouts, hence weak fairness on the steps of a started
process; time passes (`BackoffElapses`, `WindowElapses`). Weak fairness suffices because
every lock holder leaves. Nothing is promised about submissions, retries,
failures, manual commands or the progress of jobs. In `remotes` only the helper is
fair (it reads its input, and its operation ends by itself or at the deadline of
300 s, before the 310 s it waits); browsers, actions and the network owe nothing. In
`calls` a caller goes on, unless it dies. That is an assumption about the endpoint: `timeout`
bounds the connection and each read, not a request, and one that sends a byte now and then
holds its caller for ever; `RunsEnd` says that requests which end are not followed by
requests without end. Copies owe nothing. In `crontab` cron starts the line every minute, whoever has read goes on to install
or gives up, and a cleanup that gets as far infinitely often installs once (strong
fairness: one that is killed every minute never will). The queue and the dispatcher
are reached only by passes that get through their import of receipts (and, for the
dispatcher, through sacct): `receipts_opaque` shows a receipt that stops every
pass, and while it lies in the spool neither liveness claim holds. A torn runtime log is no
fault that passes: it is there for ever, `MaxFaults` does not count it, and `EndIsRecorded`
claims nothing while an open job has one. The cron line removes itself
when the package cannot be imported; liveness is claimed only while it is there.

## Proofs

### The queue

`WorkQueueProofs` proves, for any jobs, processes, threads and bounds (the named
assumption `ConstantsAssumption` only says that bounds are numbers, that at least
one attempt and one item are granted, and that the null values are not members):

- `TypeCorrect`, `Exclusive`, `Exhausted`, `StaticFirst`: the invariants that run
  `queue` checks;
- `Final`: the action property `SettledIsFinal`.

The argument. `ExclusiveExecution` is not inductive: the unconditional update of
`Settle` and the blanket reset of `Recover` are safe only because no other thread
is alive when they happen. `IInv` adds what the code relies on silently:
`LockDiscipline` (a process past the flock is the one holding it),
`ThreadDiscipline` (threads live only in a draining process; a thread is busy
exactly while it holds an item) and `RowDiscipline` (absent rows have no attempts;
settled items are remembered as ended). `Inductive` shows that each action keeps
`IInv`, one step per action and one step per conjunct it can disturb; `Initial` and
`Invariance` lift it to the specification, and the five theorems are its
consequences. In the proof of `Recover` the lock gives that nobody is busy; in
`HandlerFails` the remembered `seen` equals `attempts`, so the comparison with the
limit is about the row as it is.

`ContractKept` shows `ImplementsContract`: `Views` gives the contract's view of an item
for each of its states, and each action of the queue is then one of the contract's steps at
one item (`OneMoves`), the interruption of all that are held, or a stutter.

### Receipts

`ReceiptSpoolProofs` proves, for any receipts, jobs, passes and bounds, `Kept`
(`NothingLost`), `Worked` (`WorkFollowsSubmission`), `Implements` (`ImplementsLedger`)
and the type invariant. The heart is `CommitApplies`: the commit of a pass is exactly one
step of the ledger, or, when the receipt has acted before, no step. It rests on `Hands`
(whatever a pass holds at its commit is a receipt it has validated, and at the archive
one that is refused or has acted), on `AtMostOnce`, and on `RowsHaveReceipts` (a row
that leaves no work was made by a step or a local run). `Filed` extends
`NothingLost` to the files not yet published, which is what a publication needs.

### The tracker

`TrackerProofs` proves, for any jobs, passes and batch sizes and for lock and no lock
alike: `Queued` (`EndsAreQueued`), `Told` (`EventsTellHistory`), `Preserved`
(`TerminalPreserved`). Two invariants are at work. `Counted` holds whatever overlaps:
the work items of a job are its terminal events, and a terminal state that
a pass *has read*, before or inside its transaction, was queued by then
(`SeenQueued`); this is why a pass that finds no change may leave the queue alone.
`Locked` holds under `ctrack.lock`: `Alone` says that what the one pass listed, read or
wrote is what is recorded, so that an event continues the last one. `CommittedRecords`
reads the set of writes as one write per job, which `Drafts` allows.

### The pipeline

`PipelineProofs` proves, for any ends, lines, replies, criteria and bounds, the four
safety properties of run `pipeline`:

- `HardOnce`. `AnalyzeHard` shows that the facts alone decide about a hard
  failure, `MergeHard` that no answer changes it; `HardInv` adds that an item in
  hand is that verdict, which the transaction needs and a crash keeps.
- `FindingsOnly`. `Stable` describes the verdicts that deciding again leaves alone
  (`DecideTwice`, `AnalyzeStable`); for those, prose and "normal" merge to nothing
  (`MergeUnheard`).
- `Silent`. While nothing changes, what a handler holds and what the first one
  recorded is `Now`, the verdict any handler would reach.
- `Reported`. `VerdictsReported` needs only that the tables are sequences and that
  a handler about to settle has written its analysis.
- `TypeCorrect` (`TypeOK`): whatever is recorded is a `Verdict`, one of the statuses,
  categories and modes the tables know. This is about the operators: `StrongestKnown`
  (among the matches of highest confidence there is a first, so the `CHOOSE` has a
  witness and what it picks is a line of the log that some pattern is in), then
  `ClassifyKnown`, `AnalyzeKnown`, and `MergeKnown` for a reply of any confidence and
  any words. The invariant adds that an item which waits has an attempt left and that
  a handler past its analysis has one in hand.

The bounds have no value in these proofs: attempts, matches and faults may be any
numbers.

### Summaries and copies

`BackupsProofs` proves, for any callers, models, replies, retries, copiers and paths:

- `Recorded` (`SummaryMatchesEvent`). Two runs may write the same summary in any order;
  what keeps column and events in agreement is that a run's number is in nobody else's
  hands and in no event yet (`Numbered`). `StepShape` reduces every step of `ModelCalls`
  to one that begins a run, one that leaves the database alone, or one report
  (`Begins`, `Thinks`, `Reports`), so that the chat itself never appears in the argument.
- `Committed` (`BackupsAgree`). `Halves` says what a copy under way has: the summaries of
  its source as it is now, unless it is stale. `FilesAgree` uses that the events only
  grow (`CommitAppends`), so that what was a prefix stays one.
- `Standing` (`BackupsStand`). `Owners`: a path being written belongs to one copier and
  holds a partial file, hence nothing that can be verified is written.

- `RequestsStop` (`ChatsEndRight`). `Asking` is what a chat between two requests
  relies on: a model that is still left was not asked, but for the first of them, which
  was out of reach `tries` times; one that is not left had its turn; and no reply so far
  ended the chat. It needs `OnceEach`: `CandidateModels`, a fold over the names of the
  configuration, has each of them exactly once. Without that a model named twice would
  be asked again after it had refused.

### The crontab

`CrontabProofs` proves, for any commands, cleanups and entries and for crontabs of any
length, `OneTracker` (`OneBlock`) and `OwnEntriesKept` (`EntriesKept`).

`OneBlock` is not inductive: an editor may drop the end marker, and what the next
command makes of the text depends on where the other lines stand. `Shape` says so: one
begin marker, the managed line directly under it, the end marker directly under that,
entries anywhere. Every text that is installed, or was read and is still to be installed,
has it: stripping a text of that shape leaves only entries (`ShapeFacts` and what
follows), the new block goes to the end, and an editor takes out neither the begin marker
nor the managed line. For `EntriesKept` the block is closed as well, and then no entry is
in what stripping drops.

`_strip_managed_block` is a `FoldLeft` over the lines, and the two theorems need what it
computes for any number of them. No theorem of the library says it without an operator as
parameter, so the module proves it: `Minimum` (a set of numbers has a least one) gives
induction over a set (`Induction`), and that the recursive function behind the fold
exists and does one line after the other. `BackupsProofs` states the same lemmas for
`CandidateModels`.

### Notifications

`DispatchProofs` proves, for any jobs, dispatchers, verdicts and batch sizes, `Truthful`
(`StatusTellsDelivery`), `Agreed` (`BatchAgrees`), `NeverReplayed` (`NoReplay`) and
`PostedOnce` (`AtMostOnce`, the refinement of `Delivery`). The lock is in
`LockDiscipline`; `Unclaimed` says that only the holder of the lock leaves rows in
`sending`, and `Hands` what it has claimed: units that do not overlap, each whole in its
batch, none of an excluded job. `Claims` describes the claim as the choice of such
units, so that the order in which the code groups rows (`Minimum` gives the first row of
a unit) appears in one lemma. `SweepKeeps` is the common argument for `Recover` and
`FreezeHistory`, which settle rows and batches by different conditions; `PhaseMoves`
turns what a step does to a set of rows into one step of `Delivery`.

### Consoles and remote servers

The first part of `RemotesProofs` is about `Console` alone and proves `TypeCorrect`,
`OneAtATime`, `ClosesClean` and `SavesKept`. `Good(c)` says what
each console relies on: a dead process holds nothing, the worker exists while an
operation is active, `close()` remembers the child that runs, a refresh and a save hold
their locks, and a save past its second look was shown the file as it is, or has been
overtaken by an editor since. It speaks of one console and the locks; `Apart` says what a step leaves to
the others, so that each action is a step at one console (`OneActs`).

The second part is about `Remotes`: each of its steps keeps the invariant of `Console`
(`HelpersBehave`), whoever asks the helper. `Link(c)` is the protocol on a bridge (one
message at a time, only while its lock is held), `Waits(t)` and `Asks` are the two kinds
of holder, and the bridge's four operations are lemmas of their own (`Transmits`, `Takes`,
`Gives`, `Replies`). `Answered` and `Remembered` need each other: only because
an old bridge is closed can no second request change the ids an action waits for.
`Spared` holds because what an idle helper said stays true while the answer is on its way.
`Lists` is separate: an action and an installation take turns by the manager's lock, and
what they saw of the list under `servers.lock` is what they replace (`EditsKept`).

`RemotesTypeCorrect` is the type invariant of the two modules together. It is more than
a form: an installation writes back what it read when it began, and that this is a server,
not an empty place, is a fact about all steps in between (`RestTyped`).

### What rests on what

Every invariant and every action property that a passing run checks is proved, and so are
the three refinements. The type invariants are proved as well, under the name `TypeCorrect`
(`RemotesTypeCorrect` for `Remotes`), in every module that states one; runs do not repeat
them. Each proof uses the one named assumption of its module. They say that bounds are
numbers and null values no members, and little else:

- `ModelCalls`: a client that can be built names a model (`client.py:104-106` raises
  otherwise), and its list of models is a finite sequence;
- `Pipeline`: jobs end in states of accounting, a line of a log that is kept matches a
  pattern, and a reply has a number for its confidence (`semantic.py` converts it);
- `Crontab`: entries of the user are not the managed lines themselves, and the user is
  neither a command nor a cleanup.

Model-checked only, because the prover cannot express or reach it: the liveness properties
(`EventuallySettled`, `EventuallyFiled`, `EndIsRecorded`, `EventuallyReported`,
`EventuallyAttempted`, `HelperLeaves`, `RunsEnd`, `LeftoverRemoved`), which are about
fairness and `ENABLED`, and the three runs that end in a counterexample.

## Not modelled

- `work.submit` (no caller in `src/`) and `record_health` (telemetry nothing reads
  back for a decision); logging, card layout, wording.
- Content of rows beyond what decides an effect: paths, metadata, log text.
- Failures of the disk or of SQLite itself other than a transaction that does not
  happen; hosts without a local file system, which `storage.py` refuses.
- `notifications.mode = 'silent'`: `decide_notification` never returns it.
- A completion handler's analysis and its write are one step in `Dispatch` and
  apart in `Pipeline`. The write repeats the exclusion check inside its transaction.
- Several logs of one job: they are scanned one after the other, each with its own
  cap, and judged together; the model has one.
- Several registered servers: each has a bridge and a state of its own and shares
  only the manager's lock, which the tab and the actions contend for already. Ids of
  servers are never used again. The end of cweb itself, which closes its bridges, is
  the `closed` case of each. A second read of the registry inside `_install()` is one
  step with the first.
- What a request asks, beyond starting an operation or not, and the answer 502 to a
  start that took effect: the relaying side looks into the answer to an overview only.
- Telemetry of model requests (`model_calls`) and the reading of the list of models a
  provider offers: nothing decides by either.
- In the crontab: blank lines and comments, other schedules, and the difference between
  awk's exact match of a marker and the one of Python, which ignores blanks around it.
- The shims (`shims.py`): three files, written and removed one by one by one command.
- The components listed as `not_modelled` in `PROJECT.json`: static analysis (rows from
  text; its queueing is in `WorkQueue`), the native passthrough (signals, descriptors and
  exit codes of one process), and the commands that only read.

## Plan

1. *Done:* `WorkContract`, `WorkQueue`, `WorkQueueProofs`; `JobLedger`,
   `ReceiptSpool`; `Tracker`; `Delivery`, `Dispatch`.
2. *Done:* `Completion`, `Pipeline`, `PipelineProofs`.
3. Pure operators against reference definitions: `Accounting` (`accounting_row`,
   `_parse_sacct_table`), `CancelAudit` (`cancel_options.audit`).
4. *Done:* `Console`, `Remotes`; `ModelCalls`, `Backups`, `BackupsProofs`; `Crontab`. Next:
   discovery and the steps of the remote installer.
5. *Done:* `ReceiptSpoolProofs`, `TrackerProofs`, `DispatchProofs`, `RemotesProofs`,
   `CrontabProofs`, the step simulation behind `ImplementsContract`, all type invariants.
   Next: that a command repeated changes nothing (`auto_track.py`), and what the claims of
   queue and dispatcher choose (the order by age) as lemmas about their operators.
