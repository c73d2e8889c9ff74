------------------------------ MODULE Pipeline ------------------------------
(***************************************************************************)
(* From the recorded end of one job to its notification rows               *)
(* (process_job_completion_standalone in src/src/cslurm/notify/            *)
(* dispatcher.py, run as a completion work item).  The handler reads the   *)
(* job, may ask a model, and writes later, in one transaction; meanwhile   *)
(* output still reaches the logs and a cancellation receipt may be         *)
(* imported, and the worker may die anywhere and be replaced.  WorkQueue   *)
(* has the queue in detail: here one item, whose pool dies and is          *)
(* recovered in one step, and no time passes between attempts.             *)
(***************************************************************************)
EXTENDS Completion

CONSTANTS
    Ends,         \* facts jobs end with: a set of [state, exit, derived]
    Lines,        \* lines that may still be written to the log
    Replies,      \* replies of a model
    Criteria,     \* success criteria jobs have: "none", "sound" or "broken"
    ModelUses,    \* whether completions are analysed by a model: a set of BOOLEANs
    MaxAttempts,  \* executions of a work item (5 in the code)
    MaxChanges,   \* bound: changes of the logs and of the criteria's outcome
    MaxFaults,    \* bound: deaths of a pool and exceptions of other causes
    NoItem        \* the handler has no verdict in hand

ASSUME ConstantsAssumption ==
    /\ MaxMatches \in Nat \ {0}
    /\ MaxAttempts \in Nat \ {0}
    /\ MaxChanges \in Nat
    /\ MaxFaults \in Nat
    /\ ModelUses \subseteq BOOLEAN
    /\ Criteria \subseteq {"none", "sound", "broken"}
    /\ \A f \in Ends : f.state \in {"COMPLETED", "CANCELLED"} \cup HardFailureStates
    /\ \A l \in Lines : l # {} /\ l \subseteq DOMAIN LogPatterns
    /\ \A r \in Replies : r.confidence \in Int

VARIABLES
    facts,      \* the row of the job, final since its end was recorded
    log,        \* the log as a reader sees it
    criteria,   \* the success criteria of the job: see Criteria
    missed,     \* whether some criterion is not met, now
    request,    \* its cancellation: "never", "sent", "published", "imported"
    model,      \* whether completions are analysed by a model
    status,     \* of the work item
    attempts,   \* of the work item
    stage,      \* of the handler: "idle", "analyse", "ask", "record", "settle"
    item,       \* its analysis: [first, verdict, said], or NoItem
    analyses,   \* job_analysis: the recorded [first, verdict, said]
    notes,      \* notifications: Seq([key, mode])
    changes,    \* history: changes of what the handler reads
    faults      \* bound: see MaxFaults

world == <<facts, log, criteria, missed, request, model>>
work == <<status, attempts, stage, item>>
tables == <<analyses, notes>>
vars == <<world, work, tables, changes, faults>>

(* first: the verdict without a model; said: what the model did.           *)
Analysis == [first : Verdict, verdict : Verdict,
             said : {"unasked", "finding", "normal", "prose", "error"}]

TypeOK ==
    /\ facts \in Ends
    /\ log \in Seq(Lines)
    /\ criteria \in Criteria
    /\ missed \in BOOLEAN
    /\ request \in {"never", "sent", "published", "imported"}
    /\ model \in ModelUses
    /\ status \in {"pending", "running", "succeeded", "failed"}
    /\ attempts \in 0..MaxAttempts
    /\ stage \in {"idle", "analyse", "ask", "record", "settle"}
    /\ item \in Analysis \cup {NoItem}
    /\ analyses \in Seq(Analysis)
    /\ notes \in Seq([key : AllowedSemantic \X VerdictCategories, mode : VerdictModes])
    /\ changes \in Nat
    /\ faults \in 0..MaxFaults

(* The tracker has recorded the end and enqueued the work. *)
Init ==
    /\ facts \in Ends
    /\ log = <<>>
    /\ criteria \in Criteria
    /\ missed \in BOOLEAN
    /\ missed => criteria = "sound"
    /\ request \in {"never", "sent", "imported"}
    /\ model \in ModelUses
    /\ status = "pending"
    /\ attempts = 0
    /\ stage = "idle"
    /\ item = NoItem
    /\ analyses = <<>>
    /\ notes = <<>>
    /\ changes = 0
    /\ faults = 0

-----------------------------------------------------------------------------
(* The surroundings. *)

(* Buffered output reaches the log, or a file required by the criteria     *)
(* appears or goes.                                                        *)
OutputArrives ==
    /\ changes < MaxChanges
    /\ \/ \E l \in Lines : log' = Append(log, l) /\ UNCHANGED missed
       \/ criteria = "sound" /\ missed' = ~missed /\ UNCHANGED log
    /\ changes' = changes + 1
    /\ UNCHANGED <<facts, criteria, request, model, work, tables, faults>>

(* cscancel runs scancel first and publishes its receipt afterwards; it    *)
(* may never come to that.                                                 *)
PublishRequest ==
    /\ request = "sent"
    /\ request' = "published"
    /\ UNCHANGED <<facts, log, criteria, missed, model, work, tables, changes, faults>>

(* A tracker pass or a starting pool. *)
ImportRequest ==
    /\ request = "published"
    /\ request' = "imported"
    /\ changes' = changes + 1
    /\ UNCHANGED <<facts, log, criteria, missed, model, work, tables, faults>>

-----------------------------------------------------------------------------
(* The handler. *)

Claim ==
    /\ status = "pending"
    /\ status' = "running"
    /\ attempts' = attempts + 1
    /\ stage' = "analyse"
    /\ UNCHANGED <<world, item, tables, changes, faults>>

(* What is read is read at one point: the facts are final, and the events, *)
(* the logs and the outcome of the criteria change independently.          *)
Analyse ==
    /\ stage = "analyse"
    /\ criteria # "broken"
    /\ LET v == Analyze(facts, request = "imported", log, missed)
       IN  /\ item' = [first |-> v, verdict |-> v, said |-> "unasked"]
           /\ stage' = IF model /\ AsksModel(v, log) THEN "ask" ELSE "record"
    /\ UNCHANGED <<world, status, attempts, tables, changes, faults>>

ModelReplies ==
    /\ stage = "ask"
    /\ \E r \in Replies :
         item' = [first |-> item.first,
                  verdict |-> Merge(item.verdict, Answer(item.verdict, r)),
                  said |-> IF ~Allowed(r) THEN "prose"
                           ELSE IF r.semantic = "normal" THEN "normal" ELSE "finding"]
    /\ stage' = "record"
    /\ UNCHANGED <<world, status, attempts, tables, changes, faults>>

(* The request fails, or the sentence asked for instead of a verdict does: *)
(* the event AI_LOG_ANALYSIS_FAILED is written with the analysis.          *)
ModelFails ==
    /\ stage = "ask"
    /\ item' = [first |-> item.first, verdict |-> item.verdict, said |-> "error"]
    /\ stage' = "record"
    /\ UNCHANGED <<world, status, attempts, tables, changes, faults>>

Known(key) == \E n \in DOMAIN notes : notes[n].key = key

(* Mutant: rows are inserted without looking for the key.                  *)
RecordAgain ==
    /\ stage = "record"
    /\ analyses' = Append(analyses, item)
    /\ notes' = Append(notes, [key |-> Key(item.verdict), mode |-> item.verdict.mode])
    /\ item' = NoItem
    /\ stage' = "settle"
    /\ UNCHANGED <<world, status, attempts, changes, faults>>

(* Mutant: one notification per job, whatever later handlers conclude.     *)
RecordFirst ==
    /\ stage = "record"
    /\ analyses' = Append(analyses, item)
    /\ notes' = IF notes # <<>> THEN notes
                ELSE <<[key |-> Key(item.verdict), mode |-> item.verdict.mode]>>
    /\ item' = NoItem
    /\ stage' = "settle"
    /\ UNCHANGED <<world, status, attempts, changes, faults>>

Record ==
    /\ stage = "record"
    /\ analyses' = Append(analyses, item)
    /\ notes' = IF Known(Key(item.verdict)) THEN notes
                ELSE Append(notes, [key |-> Key(item.verdict), mode |-> item.verdict.mode])
    /\ item' = NoItem
    /\ stage' = "settle"
    /\ UNCHANGED <<world, status, attempts, changes, faults>>

Succeed ==
    /\ stage = "settle"
    /\ status' = "succeeded"
    /\ stage' = "idle"
    /\ UNCHANGED <<world, attempts, item, tables, changes, faults>>

(* Mutant: an interrupted item is not taken up again.                      *)
GiveBackNever ==
    /\ status' = "failed"
    /\ stage' = "idle"
    /\ item' = NoItem
    /\ UNCHANGED <<world, attempts, tables, changes>>

(* The item gets another attempt, if it has one left. *)
GiveBack ==
    /\ status' = IF attempts >= MaxAttempts THEN "failed" ELSE "pending"
    /\ stage' = "idle"
    /\ item' = NoItem
    /\ UNCHANGED <<world, attempts, tables, changes>>

(* Path.glob() refuses an absolute pattern of require_output_files, a      *)
(* scalar is not a list, a criteria file need not be text: none of these   *)
(* is an OSError, and each attempt meets it again, whatever the facts.     *)
CriteriaRaise ==
    /\ stage = "analyse"
    /\ criteria = "broken"
    /\ GiveBack
    /\ UNCHANGED faults

(* The pool dies, before or after the transaction of the handler, or the   *)
(* transaction does not happen (the handler raises).                       *)
Fault ==
    /\ faults < MaxFaults
    /\ status = "running"
    /\ faults' = faults + 1
    /\ GiveBack

Handle == Claim \/ Analyse \/ ModelReplies \/ ModelFails \/ Record \/ Succeed \/ CriteriaRaise
Settled == status \in {"succeeded", "failed"} /\ UNCHANGED vars

Next == OutputArrives \/ PublishRequest \/ ImportRequest \/ Handle \/ Fault \/ Settled

Spec == Init /\ [][Next]_vars

(* Pools are woken by every pass of the tracker, and requests to a model   *)
(* have a timeout.                                                         *)
Fairness == WF_vars(Handle)
FairSpec == Spec /\ Fairness

-----------------------------------------------------------------------------
(* A job that failed hard causes at most one notification, immediate and   *)
(* named by its failure, whatever the logs, the criteria, the model and    *)
(* repeated handlers say.  The dedupe key contains the verdict, so this    *)
(* needs the verdict to be out of reach of all of them.                    *)
HardFailureOnce ==
    IsHard(facts) =>
        /\ Len(notes) <= 1
        /\ \A n \in DOMAIN notes :
             notes[n] = [key |-> <<"hard_failed", HardCategory(facts)>>, mode |-> "immediate"]

(* Handlers that ran before a crash run again: unless something they read  *)
(* changed, or a model is asked, nobody hears of the job twice.            *)
RepeatsAreSilent == ~model /\ changes = 0 => Len(notes) <= 1

(* job_analysis and notifications agree although rows of the one outnumber *)
(* rows of the other: each recorded analysis has the notification of its   *)
(* key, and each notification is the first analysis with its key; a job    *)
(* whose item succeeded has both.                                          *)
VerdictsReported ==
    /\ \A i \in DOMAIN analyses : Known(Key(analyses[i].verdict))
    /\ \A n \in DOMAIN notes : \E i \in DOMAIN analyses :
         /\ notes[n] = [key |-> Key(analyses[i].verdict), mode |-> analyses[i].verdict.mode]
         /\ \A k \in 1..(i - 1) : Key(analyses[k].verdict) # notes[n].key
    /\ status = "succeeded" => Len(analyses) > 0

(* Logs are untrusted, and so is what a model makes of them: only a        *)
(* finding in the form asked for changes a verdict.  Prose, a failed       *)
(* request and "normal" leave the one reached without the model.           *)
OnlyFindingsCount ==
    \A i \in DOMAIN analyses :
        analyses[i].said # "finding" => analyses[i].verdict = analyses[i].first

(* Every end that is recorded is reported in the end, interruptions,       *)
(* contradictions and silent models included, while attempts are left and  *)
(* the success criteria can be read.                                       *)
EventuallyReported == criteria # "broken" => <>(notes # <<>>)

(* docs/notifications.md:25 lists "immediate Feishu card dispatch for hard *)
(* failures": of every one.  Criteria that raise use the attempts up.      *)
EveryEndIsReported == <>(notes # <<>>)

=============================================================================
