----------------------------- MODULE Completion -----------------------------
(***************************************************************************)
(* How the end of a job is judged (src/src/cslurm/notify/analysis.py and   *)
(* semantic.py): the facts of accounting first, then the logs and the      *)
(* success criteria, then, for some jobs, a model.  Pure operators; a      *)
(* verdict is a record                                                     *)
(*   [status, semantic, category, severity, confidence, mode]              *)
(* with status for deterministic_status, mode for                          *)
(* recommended_notification, and confidences in percent.  hard_failed is   *)
(* status = "hard_failed": the code sets both in the same places.          *)
(***************************************************************************)
EXTENDS Integers, Sequences, FiniteSets

CONSTANT
    MaxMatches  \* lines taken from one log (20 in the code)

HardFailureStates == {"FAILED", "OUT_OF_MEMORY", "TIMEOUT", "NODE_FAIL", "BOOT_FAIL",
                      "DEADLINE", "REVOKED", "SPECIAL_EXIT"}
AbnormalStates == {"PREEMPTED", "REQUEUED"}

-----------------------------------------------------------------------------
(* Facts: [state, exit, derived].  An exit code column is the sequence of  *)
(* its parts between colons; <<>> is an empty or missing column.           *)

ExitCode(column) ==
    IF column = <<>> THEN <<0, 0>> ELSE IF Len(column) = 2 THEN column ELSE <<1, 0>>

(* The category of a hard failure, "none" for any other end. *)
HardCategory(facts) ==
    IF facts.state \in HardFailureStates THEN facts.state
    ELSE IF ExitCode(facts.exit) # <<0, 0>> THEN "NONZERO_EXITCODE"
    ELSE IF ExitCode(facts.derived) # <<0, 0>> THEN "NONZERO_DERIVED_EXITCODE"
    ELSE "none"

IsHard(facts) == HardCategory(facts) # "none"

Classified(status, severity, category, mode) ==
    [status |-> status, severity |-> severity, category |-> category, mode |-> mode]

(* requested: a CANCEL_REQUESTED event of the job is in the database. *)
Classify(facts, requested) ==
    CASE IsHard(facts) ->
           Classified("hard_failed", "high", HardCategory(facts), "immediate")
      [] ~IsHard(facts) /\ facts.state = "CANCELLED" /\ requested ->
           Classified("cancelled_by_user", "low", "USER_CANCELLED", "digest")
      [] ~IsHard(facts) /\ facts.state = "CANCELLED" /\ ~requested ->
           Classified("cancelled_unknown", "medium", "CANCELLED_UNKNOWN", "batch")
      [] ~IsHard(facts) /\ facts.state \in AbnormalStates ->
           Classified("abnormal", "medium", facts.state, "batch")
      [] ~IsHard(facts) /\ facts.state = "COMPLETED" ->
           Classified("completed", "normal", "NONE", "batch")
      [] OTHER -> Classified("unknown", "medium", "UNKNOWN", "batch")

-----------------------------------------------------------------------------
(* Logs: a log is a sequence of lines, a line the set of the patterns      *)
(* (positions in LogPatterns) that occur in it.                            *)

LogPatterns == <<
    <<"NOT_CONVERGED", 90>>, <<"NOT_CONVERGED", 90>>, <<"NOT_CONVERGED", 88>>,
    <<"NUMERICAL_INSTABILITY", 86>>, <<"NUMERICAL_INSTABILITY", 82>>, <<"NUMERICAL_INSTABILITY", 86>>,
    <<"LOG_ERROR_PATTERN", 82>>, <<"LOG_ERROR_PATTERN", 90>>, <<"LOG_ERROR_PATTERN", 82>>,
    <<"OUT_OF_MEMORY", 90>>, <<"OUT_OF_MEMORY", 90>>, <<"OUT_OF_MEMORY", 84>>,
    <<"LOG_ERROR_PATTERN", 75>>, <<"LOG_ERROR_PATTERN", 80>>, <<"LOG_ERROR_PATTERN", 78>>,
    <<"DEPENDENCY_OR_ENV_WARNING", 76>>, <<"DEPENDENCY_OR_ENV_WARNING", 76>>,
    <<"LOG_ERROR_PATTERN", 78>>, <<"LOG_ERROR_PATTERN", 80>>, <<"LOG_ERROR_PATTERN", 80>>,
    <<"LOG_ERROR_PATTERN", 78>>, <<"LOG_ERROR_PATTERN", 90>>, <<"LOG_ERROR_PATTERN", 78>> >>

(* The first pattern of the table that occurs in the line speaks for it. *)
Match(line) == LogPatterns[CHOOSE p \in line : \A q \in line : p <= q]

(* The lines that are taken: the first MaxMatches that some pattern is in. *)
Windows(log) ==
    {i \in DOMAIN log :
        log[i] # {} /\ Cardinality({j \in 1..i : log[j] # {}}) <= MaxMatches}

(* The first of the matches with the highest confidence. *)
Strongest(log) ==
    LET Confidence(i) == Match(log[i])[2]
    IN  Match(log[CHOOSE i \in Windows(log) : \A j \in Windows(log) :
                      /\ Confidence(j) <= Confidence(i)
                      /\ j < i => Confidence(j) < Confidence(i)])

IsFailure(match) ==
    \/ match[1] \in {"NOT_CONVERGED", "NUMERICAL_INSTABILITY", "OUT_OF_MEMORY"}
    \/ match[2] >= 85

-----------------------------------------------------------------------------
(* How soon a verdict is reported. *)
Decide(v) ==
    IF \/ v.severity = "high" \/ v.status = "hard_failed"
       \/ v.category \in {"OUT_OF_MEMORY", "TIMEOUT", "NODE_FAIL"}
       \/ v.semantic = "semantic_failed" /\ v.confidence >= 85
    THEN "immediate"
    ELSE IF v.semantic \in {"semantic_failed", "suspicious", "success_with_warning", "normal"}
    THEN "batch"
    ELSE IF v.status = "cancelled_by_user" THEN "digest" ELSE v.mode

Decided(v) ==
    [status |-> v.status, semantic |-> v.semantic, category |-> v.category,
     severity |-> v.severity, confidence |-> v.confidence, mode |-> Decide(v)]

(* missed: some success criterion is not met. *)
Analyze(facts, requested, log, missed) ==
    LET c == Classify(facts, requested)
        strongest == Strongest(log)
        Judged(semantic, category, severity, confidence) ==
            Decided([status |-> c.status, semantic |-> semantic, category |-> category,
                     severity |-> severity, confidence |-> confidence, mode |-> c.mode])
    IN  CASE IsHard(facts) -> Judged("hard_failed", c.category, c.severity, 100)
          [] ~IsHard(facts) /\ missed -> Judged("semantic_failed", "SUCCESS_CRITERIA_NOT_MET", "medium", 90)
          [] ~IsHard(facts) /\ ~missed /\ Windows(log) # {} ->
               Judged(IF IsFailure(strongest) THEN "semantic_failed" ELSE "suspicious",
                      strongest[1], "medium", strongest[2])
          [] ~IsHard(facts) /\ ~missed /\ Windows(log) = {} /\ c.status = "completed" ->
               Judged("normal", c.category, c.severity, 100)
          [] OTHER -> Judged("unknown", c.category, c.severity, 0)

-----------------------------------------------------------------------------
(* The model.  A reply that is no allowed verdict (prose, another status   *)
(* or category) is followed by a request for a sentence, which is kept     *)
(* beside the verdict reached without the model.                           *)

AllowedSemantic == {"normal", "success_with_warning", "suspicious", "semantic_failed",
                    "hard_failed", "unknown"}
AllowedCategories == {"NONE", "NOT_CONVERGED", "NUMERICAL_INSTABILITY", "OUTPUT_MISSING",
                      "PARAMETER_MISMATCH", "EARLY_TERMINATION", "PHYSICALLY_SUSPICIOUS",
                      "RESOURCE_RISK", "DEPENDENCY_OR_ENV_WARNING", "LOG_ERROR_PATTERN",
                      "SUCCESS_CRITERIA_NOT_MET", "UNKNOWN"}

AsksModel(v, log) ==
    v.status = "hard_failed" \/ Windows(log) # {} \/ v.semantic \in {"suspicious", "semantic_failed"}

Allowed(reply) == reply.semantic \in AllowedSemantic /\ reply.category \in AllowedCategories

Clamped(percent) == IF percent < 0 THEN 0 ELSE IF percent > 100 THEN 100 ELSE percent

(* Mutant: the text fallback forgets the verdict it accompanies.           *)
AnswerBlank(v, reply) ==
    IF Allowed(reply)
    THEN [semantic |-> reply.semantic, category |-> reply.category, confidence |-> Clamped(reply.confidence)]
    ELSE [semantic |-> "unknown", category |-> "UNKNOWN", confidence |-> 0]

Answer(v, reply) ==
    IF Allowed(reply)
    THEN [semantic |-> reply.semantic, category |-> reply.category, confidence |-> Clamped(reply.confidence)]
    ELSE [semantic |-> v.semantic, category |-> v.category, confidence |-> v.confidence]

(* Mutant: a hard failure is merged like any other verdict.                *)
MergeAnyone(v, answer) ==
    Decided([v EXCEPT !.semantic = answer.semantic, !.category = answer.category,
                      !.confidence = answer.confidence])

Merge(v, answer) ==
    LET s == answer.semantic
        severity == IF \/ s = "semantic_failed"
                       \/ s \in {"suspicious", "success_with_warning"} /\ v.severity = "normal"
                    THEN "medium" ELSE v.severity
    IN  CASE v.status = "hard_failed" -> v
          [] v.status # "hard_failed" /\ s = "normal" -> Decided(v)
          [] OTHER -> Decided([status |-> v.status, semantic |-> s, category |-> answer.category,
                               severity |-> severity, confidence |-> answer.confidence,
                               mode |-> v.mode])

(* Two verdicts with the same key are one notification. *)
Key(v) == <<v.semantic, v.category>>

(* The verdicts a job can be given, for type invariants. *)
VerdictCategories ==
    AllowedCategories \cup HardFailureStates \cup AbnormalStates
        \cup {"NONZERO_EXITCODE", "NONZERO_DERIVED_EXITCODE", "USER_CANCELLED", "CANCELLED_UNKNOWN"}
VerdictModes == {"immediate", "batch", "digest"}
Verdict ==
    [status : {"hard_failed", "cancelled_by_user", "cancelled_unknown", "abnormal", "completed", "unknown"},
     semantic : AllowedSemantic, category : VerdictCategories,
     severity : {"high", "medium", "normal", "low"}, confidence : 0..100, mode : VerdictModes]
=============================================================================
