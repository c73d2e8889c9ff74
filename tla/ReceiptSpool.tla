---------------------------- MODULE ReceiptSpool ----------------------------
(***************************************************************************)
(* The receipt spools: csbatch, csrun and cscancel publish what the native *)
(* command did as a file, and workers, tracker passes and the Python API   *)
(* import the files into SQLite and archive them (slurm/submissions.py,    *)
(* runtime/receipts.py, runtime/spool.py, runtime/cancellation.py).  The   *)
(* database and the directories share no transaction: a pass may die       *)
(* between the commit and the rename, and passes overlap.                  *)
(***************************************************************************)
EXTENDS Naturals, Sequences, FiniteSets

CONSTANTS
    Receipts,    \* names of receipt files, numbers: passes import them in this order
    Jobs,        \* job ids
    Contents,    \* what receipts may record, see Content
    Ingesters,   \* slots for processes importing receipts
    MaxFaults,   \* bound: passes cut short in one behaviour
    MaxReplays,  \* bound: receipts copied back into a spool in one behaviour
    NoReceipt    \* a pass between two receipts

Kinds == {"sbatch", "csrun", "scancel"}
Categories == {"ingested", "unresolved", "invalid"}
JobStates == {"none", "UNKNOWN", "RUNNING", "COMPLETED"}

(* What receipts record, as far as it decides their effect: their kind,    *)
(* the job they name, and a form.  "invalid" files are refused.  "opaque"  *)
(* ones pass for valid, but recording them raises every time: an argument, *)
(* directory or note is not text, which JSON escapes and SQLite refuses,   *)
(* or what git prints in a submission's directory is not.                  *)
(* A submission: usable, or without an id of this cluster.                 *)
SubmissionContent ==
    [kind : {"sbatch"}, job : Jobs, form : {"good", "unresolved", "opaque", "invalid"}]
(* A finished run: inside an allocation, or on its own.                    *)
RunContent ==
    [kind : {"csrun"}, job : Jobs, form : {"step", "local", "opaque", "invalid"}]
(* A cancellation: requested for the job, or anything else (ambiguous,     *)
(* only signalled, failed).                                                *)
CancelContent ==
    [kind : {"scancel"}, job : Jobs, form : {"request", "other", "opaque", "invalid"}]
Content == SubmissionContent \cup RunContent \cup CancelContent

ASSUME ConstantsAssumption ==
    /\ Receipts \subseteq Nat
    /\ Contents \subseteq Content
    /\ MaxFaults \in Nat
    /\ MaxReplays \in Nat
    /\ NoReceipt \notin Receipts

VARIABLES
    content,    \* what each receipt records, fixed from the start
    published,  \* receipts renamed into place
    spool,      \* receipts waiting as spool/<kind>/*.json
    archived,   \* [Receipts -> SUBSET Categories], directories holding a copy
    state,      \* jobs.state, "none" before the row exists
    queued,     \* jobs whose static and summary work was enqueued
    cancelled,  \* jobs with a CANCEL_REQUESTED event
    effects,    \* [Receipts -> Nat], events with this receipt's key
    stage,      \* per ingester: "idle", "next", "commit", "archive"
    todo,       \* per ingester: files of the current spool still to look at
    later,      \* per ingester: kinds still to be listed in this pass
    cur,        \* per ingester: the receipt in hand
    faults,     \* bound: see MaxFaults
    replays     \* bound: see MaxReplays

db == <<state, queued, cancelled, effects>>
files == <<published, spool, archived>>
passes == <<stage, todo, later, cur>>
vars == <<content, files, db, passes, faults, replays>>

TypeOK ==
    /\ content \in [Receipts -> Contents]
    /\ published \in SUBSET Receipts
    /\ spool \in SUBSET Receipts
    /\ archived \in [Receipts -> SUBSET Categories]
    /\ state \in [Jobs -> JobStates]
    /\ queued \in SUBSET Jobs
    /\ cancelled \in SUBSET Jobs
    /\ effects \in [Receipts -> Nat]
    /\ stage \in [Ingesters -> {"idle", "next", "commit", "archive"}]
    /\ todo \in [Ingesters -> SUBSET Receipts]
    /\ later \in [Ingesters -> Seq(Kinds)]
    /\ cur \in [Ingesters -> Receipts \cup {NoReceipt}]
    /\ faults \in 0..MaxFaults
    /\ replays \in 0..MaxReplays

(* A csrun outside an allocation invents its job id, so nothing shares it. *)
LocalIdsAreUnique(c) ==
    \A r \in Receipts : c[r].form = "local"
        => \A q \in Receipts : c[q].job = c[r].job => q = r

Init ==
    /\ content \in {c \in [Receipts -> Contents] : LocalIdsAreUnique(c)}
    /\ published = {}
    /\ spool = {}
    /\ archived = [r \in Receipts |-> {}]
    /\ state = [j \in Jobs |-> "none"]
    /\ queued = {}
    /\ cancelled = {}
    /\ effects = [r \in Receipts |-> 0]
    /\ stage = [a \in Ingesters |-> "idle"]
    /\ todo = [a \in Ingesters |-> {}]
    /\ later = [a \in Ingesters |-> <<>>]
    /\ cur = [a \in Ingesters |-> NoReceipt]
    /\ faults = 0
    /\ replays = 0

-----------------------------------------------------------------------------
(* Around the passes *)

(* publish(): written to a temporary name, flushed, renamed into place.    *)
Publish(r) ==
    /\ r \notin published
    /\ published' = published \cup {r}
    /\ spool' = spool \cup {r}
    /\ UNCHANGED <<content, archived, db, passes, faults, replays>>

(* Somebody copies an imported receipt back into its spool.                *)
Replay(r) ==
    /\ replays < MaxReplays
    /\ "ingested" \in archived[r] /\ r \notin spool
    /\ spool' = spool \cup {r}
    /\ replays' = replays + 1
    /\ UNCHANGED <<content, published, archived, db, passes, faults>>

(* The tracker writes what accounting says, in its own transaction.        *)
Observe(j) ==
    /\ \/ state[j] = "UNKNOWN" /\ state' = [state EXCEPT ![j] = "RUNNING"]
       \/ state[j] \in {"UNKNOWN", "RUNNING"} /\ state' = [state EXCEPT ![j] = "COMPLETED"]
    /\ UNCHANGED <<content, files, queued, cancelled, effects, passes, faults, replays>>

-----------------------------------------------------------------------------
(* A pass *)

Listed(k) == {r \in spool : content[r].kind = k}

(* Tracker and drain import every spool, submissions first.                *)
BeginPass(a) ==
    /\ stage[a] = "idle"
    /\ stage' = [stage EXCEPT ![a] = "next"]
    /\ todo' = [todo EXCEPT ![a] = Listed("sbatch")]
    /\ later' = [later EXCEPT ![a] = <<"csrun", "scancel">>]
    /\ UNCHANGED <<content, files, db, cur, faults, replays>>

(* The Python API imports the one receipt it publishes; a step inside an   *)
(* allocation leaves its receipt to a pass on the management host.         *)
BeginDirect(a, r) ==
    /\ stage[a] = "idle"
    /\ r \notin published /\ content[r].form # "step"
    /\ published' = published \cup {r}
    /\ spool' = spool \cup {r}
    /\ stage' = [stage EXCEPT ![a] = "next"]
    /\ todo' = [todo EXCEPT ![a] = {r}]
    /\ later' = [later EXCEPT ![a] = <<>>]
    /\ UNCHANGED <<content, archived, db, cur, faults, replays>>

(* One spool is finished: list the next one, or end the pass.              *)
NextSpool(a) ==
    /\ stage[a] = "next" /\ todo[a] = {}
    /\ IF later[a] = <<>>
       THEN /\ stage' = [stage EXCEPT ![a] = "idle"]
            /\ UNCHANGED <<todo, later>>
       ELSE /\ todo' = [todo EXCEPT ![a] = Listed(Head(later[a]))]
            /\ later' = [later EXCEPT ![a] = Tail(@)]
            /\ UNCHANGED stage
    /\ UNCHANGED <<content, files, db, cur, faults, replays>>

(* Mutants: the file is moved before the commit; a refused file is left.   *)
TakeMoving(a) ==
    /\ stage[a] = "next"
    /\ \E r \in todo[a] :
        /\ \A q \in todo[a] : r <= q
        /\ todo' = [todo EXCEPT ![a] = @ \ {r}]
        /\ cur' = [cur EXCEPT ![a] = r]
        /\ stage' = [stage EXCEPT ![a] = "commit"]
        /\ spool' = spool \ {r}
        /\ archived' = [archived EXCEPT ![r] = @ \cup {"ingested"}]
    /\ UNCHANGED <<content, published, db, later, faults, replays>>
TakeLeavingRefused(a) ==
    /\ stage[a] = "next"
    /\ \E r \in todo[a] :
        /\ \A q \in todo[a] : r <= q
        /\ todo' = [todo EXCEPT ![a] = @ \ {r}]
        /\ IF r \notin spool \/ content[r].form \in {"invalid", "unresolved"}
           THEN UNCHANGED <<stage, cur>>
           ELSE cur' = [cur EXCEPT ![a] = r] /\ stage' = [stage EXCEPT ![a] = "commit"]
    /\ UNCHANGED <<content, files, db, later, faults, replays>>

(* Read and validate the first file left; one that is gone was archived by *)
(* another pass, one without a usable job never reaches the database.      *)
Take(a) ==
    /\ stage[a] = "next"
    /\ \E r \in todo[a] :
        /\ \A q \in todo[a] : r <= q
        /\ todo' = [todo EXCEPT ![a] = @ \ {r}]
        /\ IF r \notin spool
           THEN UNCHANGED <<stage, cur>>
           ELSE /\ cur' = [cur EXCEPT ![a] = r]
                /\ stage' = [stage EXCEPT ![a] =
                      IF content[r].form \in {"invalid", "unresolved"} THEN "archive" ELSE "commit"]
    /\ UNCHANGED <<content, files, db, later, faults, replays>>

(* One immediate transaction per receipt: nothing if the receipt's key is  *)
(* an event already; else the event, and what the kind adds to it.         *)
Once(r) == effects' = [effects EXCEPT ![r] = @ + 1]

(* Mutant: no check for the receipt's event.                               *)
RecordSubmissionAgain(r) ==
    LET j == content[r].job
        inserted == state[j] = "none"
    IN  /\ state' = IF inserted THEN [state EXCEPT ![j] = "UNKNOWN"] ELSE state
        /\ queued' = IF inserted THEN queued \cup {j} ELSE queued
        /\ Once(r)
        /\ UNCHANGED cancelled

(* The row, with its work, if the job has none ("insert or ignore").  Of a *)
(* receipt that is not opaque, see Commit and RaiseOpaque.                 *)
RecordSubmission(r) ==
    LET j == content[r].job
        inserted == state[j] = "none"
    IN  IF effects[r] > 0
        THEN UNCHANGED db
        ELSE /\ state' = IF inserted THEN [state EXCEPT ![j] = "UNKNOWN"] ELSE state
             /\ queued' = IF inserted THEN queued \cup {j} ELSE queued
             /\ Once(r)
             /\ UNCHANGED cancelled

(* Mutant: a run enqueues work like a submission.                          *)
RecordRunQueueing(r) ==
    LET j == content[r].job
        inserted == state[j] = "none"
    IN  IF effects[r] > 0
        THEN UNCHANGED db
        ELSE /\ state' = IF inserted THEN [state EXCEPT ![j] = "UNKNOWN"] ELSE state
             /\ queued' = IF inserted THEN queued \cup {j} ELSE queued
             /\ Once(r)
             /\ UNCHANGED cancelled

(* A step must not mark its allocation finished; a run of its own has.     *)
RecordRun(r) ==
    LET j == content[r].job
        recorded == IF content[r].form = "step" THEN "UNKNOWN" ELSE "COMPLETED"
    IN  IF effects[r] > 0
        THEN UNCHANGED db
        ELSE /\ state' = IF state[j] = "none" THEN [state EXCEPT ![j] = recorded] ELSE state
             /\ Once(r)
             /\ UNCHANGED <<queued, cancelled>>

(* Audit only: events, never a row or a state.                             *)
RecordCancel(r) ==
    IF effects[r] > 0
    THEN UNCHANGED db
    ELSE /\ cancelled' = IF content[r].form = "request" THEN cancelled \cup {content[r].job} ELSE cancelled
         /\ Once(r)
         /\ UNCHANGED <<state, queued>>

Commit(a) ==
    /\ stage[a] = "commit"
    /\ content[cur[a]].form # "opaque"
    /\ LET r == cur[a]
       IN  \/ content[r].kind = "sbatch" /\ RecordSubmission(r)
           \/ content[r].kind = "csrun" /\ RecordRun(r)
           \/ content[r].kind = "scancel" /\ RecordCancel(r)
    /\ stage' = [stage EXCEPT ![a] = "archive"]
    /\ UNCHANGED <<content, files, todo, later, cur, faults, replays>>

EndPass(a) ==
    /\ stage' = [stage EXCEPT ![a] = "idle"]
    /\ todo' = [todo EXCEPT ![a] = {}]
    /\ later' = [later EXCEPT ![a] = <<>>]
    /\ cur' = [cur EXCEPT ![a] = NoReceipt]

(* The exception (Unicode*Error from git's output or from binding a value) *)
(* is not one anybody handles: the transaction is rolled back, the file    *)
(* stays, and the pass ends, with the receipts and spools still to come.   *)
RaiseOpaque(a) ==
    /\ stage[a] = "commit"
    /\ content[cur[a]].form = "opaque"
    /\ EndPass(a)
    /\ UNCHANGED <<content, files, db, faults, replays>>

Category(r) ==
    IF content[r].form \in {"invalid", "unresolved"} THEN content[r].form ELSE "ingested"

(* rename into the category's directory; a file already gone is no error.  *)
Archive(a) ==
    LET r == cur[a]
    IN  /\ stage[a] = "archive"
        /\ spool' = spool \ {r}
        /\ archived' = IF r \in spool THEN [archived EXCEPT ![r] = @ \cup {Category(r)}] ELSE archived
        /\ stage' = [stage EXCEPT ![a] = "next"]
        /\ cur' = [cur EXCEPT ![a] = NoReceipt]
        /\ UNCHANGED <<content, published, db, todo, later, faults, replays>>

(* The process dies, or the database stays locked past the deadline.       *)
Abort(a) ==
    /\ faults < MaxFaults
    /\ stage[a] # "idle"
    /\ EndPass(a)
    /\ faults' = faults + 1
    /\ UNCHANGED <<content, files, db, replays>>

-----------------------------------------------------------------------------
Advance(a) == NextSpool(a) \/ Take(a) \/ Commit(a) \/ RaiseOpaque(a) \/ Archive(a)

Next ==
    \/ \E r \in Receipts : Publish(r) \/ Replay(r)
    \/ \E j \in Jobs : Observe(j)
    \/ \E a \in Ingesters : \/ BeginPass(a) \/ Advance(a) \/ Abort(a)
                            \/ \E r \in Receipts : BeginDirect(a, r)

Spec == Init /\ [][Next]_vars

(* cron starts a pass every minute, and a pass that started keeps running. *)
Fairness ==
    /\ WF_vars(\E a \in Ingesters : BeginPass(a))
    /\ \A a \in Ingesters : WF_vars(Advance(a))

FairSpec == Spec /\ Fairness

-----------------------------------------------------------------------------
(* Properties *)

(* A published receipt is never lost: until it is archived it waits in its *)
(* spool, and it is filed as ingested only after its effects are committed.*)
NothingLost ==
    \A r \in published :
        /\ r \in spool \/ archived[r] # {}
        /\ "ingested" \in archived[r] => effects[r] = 1
        /\ effects[r] = 0 /\ content[r].form \in {"good", "step", "local", "request", "other", "opaque"}
              => r \in spool

(* A job has static and summary work only from its own submission, and a   *)
(* submission that is recorded leaves its job without work only if a step  *)
(* of the job was recorded first and so inserted the row                   *)
(* (submissions.py:96-121, receipts.py:36-44).                             *)
WorkFollowsSubmission ==
    \A j \in Jobs :
        LET recorded(form) == \E r \in Receipts :
                content[r].job = j /\ content[r].form = form /\ effects[r] > 0
        IN  /\ j \in queued => recorded("good")
            /\ recorded("good") => j \in queued \/ recorded("step")

(* A pass that reaches q ends there and does not reach r.                  *)
Blocks(q, r) ==
    /\ content[q].form = "opaque"
    /\ \/ q = r
       \/ content[q].kind = "sbatch" /\ content[r].kind # "sbatch"
       \/ content[q].kind = "csrun" /\ content[r].kind = "scancel"
       \/ content[q].kind = content[r].kind /\ q < r

(* With cron alive every receipt leaves its spool, also when each pass     *)
(* ends in an exception: only the opaque receipt itself and those that     *)
(* come after it in a pass stay, for as long as it is there                *)
(* (submissions.py:146-166, spool.py:18-51, cancellation.py:24-49).        *)
EventuallyFiled ==
    \A r \in Receipts :
        r \in spool ~> r \notin spool \/ \E q \in spool : Blocks(q, r)

(* With cron alive a submission is recorded, whatever else is in the       *)
(* spool.  docs/sbatch-compatibility.md:44: "A new job may take a short    *)
(* time to appear in `cjobs` or the web console."                          *)
EventuallyRecorded ==
    \A r \in Receipts : r \in spool /\ content[r].form = "good" ~> effects[r] > 0

Ledger == INSTANCE JobLedger

ImplementsLedger == Ledger!Spec
=============================================================================
