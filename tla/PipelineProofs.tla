--------------------------- MODULE PipelineProofs ---------------------------
(***************************************************************************)
(* What Pipeline promises for any facts, lines, replies and bounds: a hard *)
(* failure is reported once whatever anybody says of it, repeated handlers *)
(* are silent unless something changed, and a model that does not answer   *)
(* with a finding changes nothing.                                         *)
(***************************************************************************)
EXTENDS Pipeline, TLAPS, WellFoundedInduction

HardVerdict(f) ==
    [status |-> "hard_failed", semantic |-> "hard_failed", category |-> HardCategory(f),
     severity |-> "high", confidence |-> 100, mode |-> "immediate"]

(* The facts alone decide about a hard failure.                            *)
LEMMA AnalyzeHard ==
    ASSUME NEW f, NEW r, NEW l, NEW m, IsHard(f)
    PROVE  Analyze(f, r, l, m) = HardVerdict(f)
<1>1. Classify(f, r) = [status |-> "hard_failed", severity |-> "high",
                        category |-> HardCategory(f), mode |-> "immediate"]
  BY DEF Classify, Classified
<1>2. QED
  BY <1>1 DEF Analyze, Decided, Decide, HardVerdict

(* No answer changes a hard failure.                                       *)
LEMMA MergeHard ==
    ASSUME NEW v, NEW a, v.status = "hard_failed"
    PROVE  Merge(v, a) = v
BY DEF Merge

-----------------------------------------------------------------------------
(* Between analysis and transaction, the item in hand is a hard failure's. *)
HardInv ==
    IsHard(facts) =>
        /\ stage \in {"ask", "record"} =>
             item.verdict = HardVerdict(facts)
        /\ notes # <<>> =>
             notes = <<[key |-> <<"hard_failed", HardCategory(facts)>>, mode |-> "immediate"]>>

LEMMA HardInitial == Init => HardInv
BY DEF Init, HardInv

LEMMA HardInductive == HardInv /\ [Next]_vars => HardInv'
<1>0. SUFFICES ASSUME HardInv, [Next]_vars PROVE HardInv'
  OBVIOUS
<1>1. CASE UNCHANGED vars
  BY <1>0, <1>1 DEF HardInv, vars, world, work, tables
<1>2. CASE OutputArrives \/ PublishRequest \/ ImportRequest
  BY <1>0, <1>2 DEF HardInv, OutputArrives, PublishRequest, ImportRequest, work, tables
<1>3. CASE Claim \/ Succeed
  BY <1>0, <1>3 DEF HardInv, Claim, Succeed, world, tables
<1>4. CASE Analyse
  <2>1. IsHard(facts) =>
            item' = [first |-> HardVerdict(facts), verdict |-> HardVerdict(facts), said |-> "unasked"]
    BY <1>4, AnalyzeHard DEF Analyse
  <2>2. UNCHANGED <<facts, notes>>
    BY <1>4 DEF Analyse, world, tables
  <2>3. QED
    BY <1>0, <2>1, <2>2 DEF HardInv
<1>5. CASE ModelReplies
  <2>1. UNCHANGED <<facts, notes>> /\ stage = "ask"
    BY <1>5 DEF ModelReplies, world, tables
  <2>2. IsHard(facts) => item'.verdict = HardVerdict(facts)
    <3>1. PICK r \in Replies : item'.verdict = Merge(item.verdict, Answer(item.verdict, r))
      BY <1>5 DEF ModelReplies
    <3>2. IsHard(facts) => item.verdict = HardVerdict(facts) /\ item.verdict.status = "hard_failed"
      BY <1>0, <2>1 DEF HardInv, HardVerdict
    <3>3. QED
      BY <3>1, <3>2, MergeHard
  <2>3. QED
    BY <1>0, <2>1, <2>2 DEF HardInv
<1>6. CASE ModelFails
  <2>1. UNCHANGED <<facts, notes>> /\ stage = "ask" /\ item'.verdict = item.verdict
    BY <1>6 DEF ModelFails, world, tables
  <2>2. QED
    BY <1>0, <2>1 DEF HardInv
<1>7. CASE Record
  <2>1. UNCHANGED facts /\ stage = "record" /\ stage' = "settle"
    BY <1>7 DEF Record, world
  <2>2. IsHard(facts) => item.verdict = HardVerdict(facts)
    BY <1>0, <2>1 DEF HardInv
  <2>3. IsHard(facts) => Key(item.verdict) = <<"hard_failed", HardCategory(facts)>>
                         /\ item.verdict.mode = "immediate"
    BY <2>2 DEF HardVerdict, Key
  <2>4. CASE notes = <<>>
    BY <1>7, <2>1, <2>3, <2>4 DEF Record, HardInv, Known
  <2>5. CASE notes # <<>> /\ IsHard(facts)
    <3>1. notes = <<[key |-> <<"hard_failed", HardCategory(facts)>>, mode |-> "immediate"]>>
      BY <1>0, <2>5 DEF HardInv
    <3>2. 1 \in DOMAIN notes /\ notes[1].key = Key(item.verdict)
      BY <3>1, <2>3, <2>5
    <3>3. Known(Key(item.verdict))
      BY <3>2 DEF Known
    <3>4. notes' = notes
      BY <1>7, <3>3 DEF Record
    <3>5. QED
      BY <2>1, <3>1, <3>4 DEF HardInv
  <2>6. QED
    BY <2>1, <2>4, <2>5 DEF HardInv
<1>8. CASE CriteriaRaise \/ Fault
  BY <1>0, <1>8 DEF HardInv, CriteriaRaise, Fault, GiveBack, world, tables
<1>9. QED
  BY <1>0, <1>1, <1>2, <1>3, <1>4, <1>5, <1>6, <1>7, <1>8 DEF Next, Handle, Settled

(* A hard failure causes at most one notification, immediate and named by  *)
(* its failure, whatever logs, criteria, model and repeated handlers say.  *)
THEOREM HardOnce == Spec => []HardFailureOnce
<1>1. HardInv => HardFailureOnce
  BY DEF HardInv, HardFailureOnce
<1>2. QED
  BY HardInitial, HardInductive, <1>1, PTL DEF Spec

-----------------------------------------------------------------------------
(* A verdict that deciding again, or hearing nothing new, leaves as it is. *)
Stable(v) ==
    /\ v = [status |-> v.status, semantic |-> v.semantic, category |-> v.category,
            severity |-> v.severity, confidence |-> v.confidence, mode |-> v.mode]
    /\ Decide(v) = v.mode
    /\ v.status # "hard_failed" =>
         /\ v.semantic = "semantic_failed" => v.severity = "medium"
         /\ v.semantic = "suspicious" => v.severity # "normal"
         /\ v.semantic # "success_with_warning"

(* Deciding twice is deciding once: the last resort of decide_notification *)
(* is what was recommended before.                                         *)
LEMMA DecideTwice == ASSUME NEW v PROVE Decide(Decided(v)) = Decided(v).mode
<1>1. /\ Decided(v).status = v.status /\ Decided(v).semantic = v.semantic
      /\ Decided(v).category = v.category /\ Decided(v).severity = v.severity
      /\ Decided(v).confidence = v.confidence /\ Decided(v).mode = Decide(v)
  BY DEF Decided
<1>2. QED
  BY <1>1 DEF Decide

LEMMA AnalyzeStable ==
    ASSUME NEW f, NEW r, NEW l, NEW m \in BOOLEAN
    PROVE  Stable(Analyze(f, r, l, m))
<1> DEFINE c == Classify(f, r)
           w == Strongest(l)
           Judged(semantic, category, severity, confidence) ==
             [status |-> c.status, semantic |-> semantic, category |-> category,
              severity |-> severity, confidence |-> confidence, mode |-> c.mode]
<1>1. ASSUME NEW sem, NEW cat, NEW sev, NEW conf,
             sem = "semantic_failed" => sev = "medium",
             sem = "suspicious" => sev # "normal",
             sem # "success_with_warning"
      PROVE  Stable(Decided(Judged(sem, cat, sev, conf)))
  <2> DEFINE v == Judged(sem, cat, sev, conf)
  <2>1. Decided(v) = [status |-> c.status, semantic |-> sem, category |-> cat,
                      severity |-> sev, confidence |-> conf, mode |-> Decide(v)]
    BY DEF Decided
  <2>2. Decide(Decided(v)) = Decided(v).mode
    BY DecideTwice
  <2> DEFINE d == Decided(v)
  <2>3. /\ d.status = c.status /\ d.semantic = sem /\ d.category = cat
        /\ d.severity = sev /\ d.confidence = conf /\ d.mode = Decide(v)
    BY <2>1
  <2>4. d = [status |-> d.status, semantic |-> d.semantic, category |-> d.category,
             severity |-> d.severity, confidence |-> d.confidence, mode |-> d.mode]
    BY <2>1, <2>3
  <2> HIDE DEF d
  <2>5. Stable(d)
    BY <1>1, <2>2, <2>3, <2>4 DEF Stable, d
  <2>6. QED
    BY <2>5 DEF d
<1>2. CASE IsHard(f)
  BY AnalyzeHard, <1>2 DEF Stable, HardVerdict, Decide
<1> HIDE DEF c, w, Judged
<1>3. CASE ~IsHard(f) /\ m
  <2>1. Analyze(f, r, l, m) = Decided(Judged("semantic_failed", "SUCCESS_CRITERIA_NOT_MET", "medium", 90))
    BY <1>3 DEF Analyze, Judged, c
  <2>2. QED
    BY <1>1, <2>1
<1>4. CASE ~IsHard(f) /\ ~m /\ Windows(l) # {}
  <2>1. Analyze(f, r, l, m) =
          Decided(Judged(IF IsFailure(w) THEN "semantic_failed" ELSE "suspicious", w[1], "medium", w[2]))
    BY <1>4 DEF Analyze, Judged, c, w
  <2>2. QED
    BY <1>1, <2>1
<1>5. CASE ~IsHard(f) /\ ~m /\ Windows(l) = {} /\ c.status = "completed"
  <2>1. Analyze(f, r, l, m) = Decided(Judged("normal", c.category, c.severity, 100))
    BY <1>5 DEF Analyze, Judged, c
  <2>2. QED
    BY <1>1, <2>1
<1>6. CASE ~IsHard(f) /\ ~m /\ Windows(l) = {} /\ c.status # "completed"
  <2>1. Analyze(f, r, l, m) = Decided(Judged("unknown", c.category, c.severity, 0))
    BY <1>6 DEF Analyze, Judged, c
  <2>2. QED
    BY <1>1, <2>1
<1>7. QED
  BY <1>2, <1>3, <1>4, <1>5, <1>6

(* Prose and "normal" leave a verdict as it is.                            *)
LEMMA MergeUnheard ==
    ASSUME NEW v, Stable(v), NEW r, ~Allowed(r) \/ r.semantic = "normal"
    PROVE  Merge(v, Answer(v, r)) = v
<1>1. Decided(v) = v
  BY DEF Decided, Stable
<1>2. CASE v.status = "hard_failed"
  BY <1>2, MergeHard
<1>3. CASE v.status # "hard_failed" /\ Answer(v, r).semantic = "normal"
  BY <1>1, <1>3 DEF Merge
<1>4. CASE v.status # "hard_failed" /\ ~Allowed(r) /\ v.semantic # "normal"
  <2>1. Answer(v, r) = [semantic |-> v.semantic, category |-> v.category, confidence |-> v.confidence]
    BY <1>4 DEF Answer
  <2>2. Merge(v, Answer(v, r)) =
          Decided([status |-> v.status, semantic |-> v.semantic, category |-> v.category,
                   severity |-> v.severity, confidence |-> v.confidence, mode |-> v.mode])
    BY <1>4, <2>1 DEF Merge, Stable
  <2>3. QED
    BY <1>1, <2>2 DEF Stable
<1>5. CASE (~Allowed(r) /\ v.semantic = "normal") \/ Allowed(r)
  BY <1>1, <1>2, <1>3, <1>5 DEF Answer
<1>6. QED
  BY <1>2, <1>3, <1>4, <1>5

(* Some sequence, whatever it consists of.                                 *)
IsSequence(s) == \E S : s \in Seq(S)

LEMMA Appended ==
    ASSUME NEW s, IsSequence(s), NEW e
    PROVE  /\ IsSequence(Append(s, e))
           /\ Len(s) \in Nat /\ DOMAIN s = 1..Len(s)
           /\ Len(Append(s, e)) = Len(s) + 1
           /\ DOMAIN Append(s, e) = 1..(Len(s) + 1)
           /\ \A i \in DOMAIN s : Append(s, e)[i] = s[i]
           /\ Append(s, e)[Len(s) + 1] = e
<1>1. PICK S : s \in Seq(S)
  BY DEF IsSequence
<1>2. s \in Seq(S \cup {e}) /\ e \in S \cup {e}
  BY <1>1
<1>3. Append(s, e) \in Seq(S \cup {e})
  BY <1>2
<1>4. QED
  BY <1>2, <1>3 DEF IsSequence

(* What is in hand comes from Analyze, and from a model only by a finding. *)
FindingsInv ==
    /\ stage = "ask" => item.verdict = item.first /\ Stable(item.first)
    /\ stage = "record" => (item.said # "finding" => item.verdict = item.first)
    /\ missed \in BOOLEAN
    /\ IsSequence(analyses)
    /\ OnlyFindingsCount

LEMMA FindingsInitial == Init => FindingsInv
<1>1. IsSequence(<<>>)
  BY DEF IsSequence
<1>2. QED
  BY <1>1 DEF Init, FindingsInv, OnlyFindingsCount

LEMMA FindingsInductive == FindingsInv /\ [Next]_vars => FindingsInv'
<1>0. SUFFICES ASSUME FindingsInv, [Next]_vars PROVE FindingsInv'
  OBVIOUS
<1>1. CASE UNCHANGED vars
  BY <1>0, <1>1 DEF FindingsInv, OnlyFindingsCount, vars, world, work, tables
<1>2. CASE OutputArrives \/ PublishRequest \/ ImportRequest
  BY <1>0, <1>2 DEF FindingsInv, OnlyFindingsCount, OutputArrives, PublishRequest, ImportRequest, work, tables
<1>3. CASE Claim \/ Succeed
  BY <1>0, <1>3 DEF FindingsInv, OnlyFindingsCount, Claim, Succeed, world, tables
<1>4. CASE Analyse
  <2>1. PICK v : v = Analyze(facts, request = "imported", log, missed)
    OBVIOUS
  <2>2. Stable(v)
    BY <1>0, <2>1, AnalyzeStable DEF FindingsInv
  <2>3. item' = [first |-> v, verdict |-> v, said |-> "unasked"] /\ UNCHANGED <<missed, analyses>>
    BY <1>4, <2>1 DEF Analyse, world, tables
  <2>4. item'.first = v /\ item'.verdict = v
    BY <2>3
  <2>5. QED
    BY <1>0, <2>2, <2>3, <2>4 DEF FindingsInv, OnlyFindingsCount
<1>5. CASE ModelReplies
  <2>1. PICK r \in Replies :
          /\ item'.first = item.first
          /\ item'.verdict = Merge(item.verdict, Answer(item.verdict, r))
          /\ item'.said # "finding" => ~Allowed(r) \/ r.semantic = "normal"
    BY <1>5 DEF ModelReplies
  <2>2. item.verdict = item.first /\ Stable(item.first)
    BY <1>0, <1>5 DEF FindingsInv, ModelReplies
  <2>3. item'.said # "finding" => item'.verdict = item'.first
    BY <2>1, <2>2, MergeUnheard
  <2>4. stage' = "record" /\ UNCHANGED <<missed, analyses>>
    BY <1>5 DEF ModelReplies, world, tables
  <2>5. QED
    BY <1>0, <2>3, <2>4 DEF FindingsInv, OnlyFindingsCount
<1>6. CASE ModelFails
  <2>1. stage = "ask" /\ stage' = "record" /\ UNCHANGED <<missed, analyses>>
        /\ item'.first = item.first /\ item'.verdict = item.verdict
    BY <1>6 DEF ModelFails, world, tables
  <2>2. QED
    BY <1>0, <2>1 DEF FindingsInv, OnlyFindingsCount
<1>7. CASE Record
  <2>1. stage = "record" /\ stage' = "settle" /\ missed' = missed /\ analyses' = Append(analyses, item)
    BY <1>7 DEF Record, world
  <2>2. OnlyFindingsCount'
    <3>1. IsSequence(analyses) /\ (item.said # "finding" => item.verdict = item.first)
      BY <1>0, <2>1 DEF FindingsInv
    <3>2. \A i \in DOMAIN analyses' : \/ i \in DOMAIN analyses /\ analyses'[i] = analyses[i]
                                      \/ analyses'[i] = item
      BY <2>1, <3>1, Appended
    <3>3. QED
      BY <1>0, <3>1, <3>2 DEF FindingsInv, OnlyFindingsCount
  <2>3. IsSequence(analyses')
    BY <1>0, <2>1, Appended DEF FindingsInv
  <2>4. QED
    BY <1>0, <2>1, <2>2, <2>3 DEF FindingsInv
<1>8. CASE CriteriaRaise \/ Fault
  BY <1>0, <1>8 DEF FindingsInv, OnlyFindingsCount, CriteriaRaise, Fault, GiveBack, world, tables
<1>9. QED
  BY <1>0, <1>1, <1>2, <1>3, <1>4, <1>5, <1>6, <1>7, <1>8 DEF Next, Handle, Settled

(* Only a finding in the form asked for changes a verdict: prose, a failed *)
(* request and "normal" leave the one reached without the model.           *)
THEOREM FindingsOnly == Spec => []OnlyFindingsCount
<1>1. FindingsInv => OnlyFindingsCount
  BY DEF FindingsInv
<1>2. QED
  BY FindingsInitial, FindingsInductive, <1>1, PTL DEF Spec

-----------------------------------------------------------------------------
(* The verdict the handler would reach now, without a model.               *)
Now == Analyze(facts, request = "imported", log, missed)

RepeatInv ==
    /\ changes \in Nat
    /\ ~model => stage # "ask"
    /\ ~model /\ changes = 0 =>
         /\ stage = "record" => item.verdict = Now
         /\ notes # <<>> => notes = <<[key |-> Key(Now), mode |-> Now.mode]>>

LEMMA RepeatInitial == Init => RepeatInv
BY DEF Init, RepeatInv

LEMMA RepeatInductive == RepeatInv /\ [Next]_vars => RepeatInv'
<1>0. SUFFICES ASSUME RepeatInv, [Next]_vars PROVE RepeatInv'
  OBVIOUS
<1> USE DEF RepeatInv
<1>1. CASE UNCHANGED vars
  BY <1>0, <1>1 DEF Now, vars, world, work, tables
<1>2. CASE OutputArrives \/ ImportRequest
  <2>1. changes' = changes + 1 /\ UNCHANGED <<model, stage>>
    BY <1>2 DEF OutputArrives, ImportRequest, work
  <2>2. QED
    BY <1>0, <2>1
<1>3. CASE PublishRequest
  <2>1. UNCHANGED <<model, stage, item, notes, changes>>
        /\ UNCHANGED <<facts, request = "imported", log, missed>>
    BY <1>3 DEF PublishRequest, work, tables
  <2>2. Now' = Now
    BY <2>1 DEF Now
  <2>3. QED
    BY <1>0, <2>1, <2>2
<1>4. CASE Claim \/ Succeed
  BY <1>0, <1>4 DEF Now, Claim, Succeed, world, tables
<1>5. CASE Analyse
  <2>1. UNCHANGED <<model, notes, changes>> /\ (~model => stage' = "record") /\ Now' = Now
    BY <1>5 DEF Analyse, Now, world, tables
  <2>2. item' = [first |-> Now, verdict |-> Now, said |-> "unasked"]
    BY <1>5 DEF Analyse, Now
  <2>3. item'.verdict = Now
    BY <2>2
  <2>4. QED
    BY <1>0, <2>1, <2>3
<1>6. CASE ModelReplies \/ ModelFails
  BY <1>0, <1>6 DEF ModelReplies, ModelFails, world, tables
<1>7. CASE Record
  <2>1. stage = "record" /\ stage' = "settle" /\ UNCHANGED <<model, changes>> /\ Now' = Now
    BY <1>7 DEF Record, Now, world
  <2>2. ASSUME ~model, changes = 0, notes = <<>>
        PROVE  notes' = <<[key |-> Key(Now), mode |-> Now.mode]>>
    <3>1. item.verdict = Now /\ ~Known(Key(item.verdict))
      BY <1>0, <2>1, <2>2 DEF Known
    <3>2. notes' = Append(<<>>, [key |-> Key(Now), mode |-> Now.mode])
      BY <1>7, <2>2, <3>1 DEF Record
    <3>3. QED
      BY <3>2
  <2>3. ASSUME ~model, changes = 0, notes # <<>>
        PROVE  notes' = <<[key |-> Key(Now), mode |-> Now.mode]>>
    <3>1. item.verdict = Now /\ notes = <<[key |-> Key(Now), mode |-> Now.mode]>>
      BY <1>0, <2>1, <2>3
    <3>2. 1 \in DOMAIN notes /\ notes[1].key = Key(item.verdict)
      BY <3>1
    <3>3. notes' = notes
      BY <1>7, <3>2 DEF Record, Known
    <3>4. QED
      BY <3>1, <3>3
  <2>4. QED
    BY <1>0, <2>1, <2>2, <2>3
<1>8. CASE CriteriaRaise \/ Fault
  BY <1>0, <1>8 DEF Now, CriteriaRaise, Fault, GiveBack, world, tables
<1>9. QED
  BY <1>0, <1>1, <1>2, <1>3, <1>4, <1>5, <1>6, <1>7, <1>8 DEF Next, Handle, Settled

(* Without a model, and while nothing the handler reads changes, repeated  *)
(* handlers are silent.                                                    *)
THEOREM Silent == Spec => []RepeatsAreSilent
<1>1. RepeatInv => RepeatsAreSilent
  <2>1. Len(<<>>) = 0 /\ \A e : Len(<<e>>) = 1
    OBVIOUS
  <2>2. ASSUME RepeatInv, ~model, changes = 0 PROVE Len(notes) <= 1
    <3>1. CASE notes = <<>>
      BY <2>1, <3>1
    <3>2. CASE notes # <<>>
      BY <2>1, <2>2, <3>2 DEF RepeatInv
    <3>3. QED
      BY <3>1, <3>2
  <2>3. QED
    BY <2>2 DEF RepeatsAreSilent
<1>2. QED
  BY RepeatInitial, RepeatInductive, <1>1, PTL DEF Spec

-----------------------------------------------------------------------------
(* VerdictsReported is inductive once the tables are sequences and a       *)
(* handler that is about to settle has written its analysis.               *)
ReportInv ==
    /\ IsSequence(analyses) /\ IsSequence(notes)
    /\ stage = "settle" => Len(analyses) > 0
    /\ VerdictsReported

Note(v) == [key |-> Key(v), mode |-> v.mode]

(* The row comes from the i-th analysis, the first with its key.           *)
ComesFrom(row, all, i) ==
    /\ row = Note(all[i].verdict)
    /\ \A k \in 1..(i - 1) : Key(all[k].verdict) # row.key

LEMMA ReportInitial == Init => ReportInv
<1>1. IsSequence(<<>>)
  BY DEF IsSequence
<1>2. QED
  BY <1>1 DEF Init, ReportInv, VerdictsReported

LEMMA RecordReports == ReportInv /\ Record => ReportInv'
<1>0. SUFFICES ASSUME ReportInv, Record PROVE ReportInv'
  OBVIOUS
<1> DEFINE v == item.verdict
           last == Len(analyses) + 1
<1>1. IsSequence(analyses) /\ IsSequence(notes)
  BY <1>0 DEF ReportInv
<1>2. analyses' = Append(analyses, item) /\ status' = status /\ stage' = "settle"
  BY <1>0 DEF Record, work
<1>3. /\ IsSequence(analyses') /\ Len(analyses) \in Nat
      /\ Len(analyses') = last /\ DOMAIN analyses' = 1..last /\ DOMAIN analyses = 1..Len(analyses)
      /\ \A i \in DOMAIN analyses : analyses'[i] = analyses[i]
      /\ analyses'[last] = item
  BY <1>1, <1>2, Appended
<1>4. \A i \in DOMAIN analyses : Known(Key(analyses[i].verdict))
  BY <1>0 DEF ReportInv, VerdictsReported
<1>5. \A n \in DOMAIN notes : \E i \in DOMAIN analyses : ComesFrom(notes[n], analyses, i)
  BY <1>0 DEF ReportInv, VerdictsReported, ComesFrom, Note
<1>6. CASE Known(Key(v))
  <2>1. notes' = notes
    BY <1>0, <1>6 DEF Record
  <2>2. \A i \in DOMAIN analyses' : Known(Key(analyses[i].verdict)) \/ i = last
    BY <1>3, <1>4
  <2>3. \A i \in DOMAIN analyses' : \E n \in DOMAIN notes' : notes'[n].key = Key(analyses'[i].verdict)
    <3>1. TAKE i \in DOMAIN analyses'
    <3>2. Known(Key(analyses'[i].verdict))
      <4>1. CASE i = last
        BY <1>3, <1>6, <4>1
      <4>2. CASE i # last
        BY <1>3, <1>4, <4>2
      <4>3. QED
        BY <4>1, <4>2
    <3>3. QED
      BY <2>1, <3>2 DEF Known
  <2>4. \A n \in DOMAIN notes' : \E i \in DOMAIN analyses' : ComesFrom(notes'[n], analyses', i)
    <3>1. TAKE n \in DOMAIN notes'
    <3>2. PICK i \in DOMAIN analyses : ComesFrom(notes[n], analyses, i)
      BY <1>5, <2>1
    <3>3. i \in DOMAIN analyses' /\ ComesFrom(notes'[n], analyses', i)
      BY <1>3, <2>1, <3>2 DEF ComesFrom
    <3>4. QED
      BY <3>3
  <2>5. QED
    BY <1>1, <1>2, <1>3, <2>1, <2>3, <2>4 DEF ReportInv, VerdictsReported, Known, ComesFrom, Note
<1>7. CASE ~Known(Key(v))
  <2> DEFINE new == Len(notes) + 1
  <2>1. notes' = Append(notes, Note(v))
    BY <1>0, <1>7 DEF Record, Note
  <2>2. /\ IsSequence(notes') /\ Len(notes) \in Nat
        /\ DOMAIN notes' = 1..new /\ DOMAIN notes = 1..Len(notes)
        /\ \A n \in DOMAIN notes : notes'[n] = notes[n]
        /\ notes'[new] = Note(v)
    BY <1>1, <2>1, Appended
  <2>3. Note(v).key = Key(v)
    BY DEF Note
  <2>4. \A i \in DOMAIN analyses' : \E n \in DOMAIN notes' : notes'[n].key = Key(analyses'[i].verdict)
    <3>1. TAKE i \in DOMAIN analyses'
    <3>2. CASE i = last
      BY <1>3, <2>2, <2>3, <3>2
    <3>3. CASE i # last
      <4>1. PICK n \in DOMAIN notes : notes[n].key = Key(analyses[i].verdict)
        BY <1>3, <1>4, <3>3 DEF Known
      <4>2. QED
        BY <1>3, <2>2, <3>3, <4>1
    <3>4. QED
      BY <3>2, <3>3
  <2>5. \A n \in DOMAIN notes' : \E i \in DOMAIN analyses' : ComesFrom(notes'[n], analyses', i)
    <3>1. TAKE n \in DOMAIN notes'
    <3>2. CASE n = new
      <4>1. last \in DOMAIN analyses' /\ notes'[n] = Note(analyses'[last].verdict)
        BY <1>3, <2>2, <3>2
      <4>2. \A k \in 1..(last - 1) : Key(analyses'[k].verdict) # Key(v)
        BY <1>3, <1>4, <1>7
      <4>3. ComesFrom(notes'[n], analyses', last)
        BY <1>3, <2>2, <2>3, <3>2, <4>1, <4>2 DEF ComesFrom
      <4>4. QED
        BY <4>1, <4>3
    <3>3. CASE n # new
      <4>1. n \in DOMAIN notes /\ notes'[n] = notes[n]
        BY <2>2, <3>3
      <4>2. PICK i \in DOMAIN analyses : ComesFrom(notes[n], analyses, i)
        BY <1>5, <4>1
      <4>3. i \in DOMAIN analyses' /\ ComesFrom(notes'[n], analyses', i)
        BY <1>3, <4>1, <4>2 DEF ComesFrom
      <4>4. QED
        BY <4>3
    <3>4. QED
      BY <3>2, <3>3
  <2>6. \A i \in DOMAIN analyses' : Known(Key(analyses[i].verdict))'
    BY <2>4 DEF Known
  <2>7. (status = "succeeded" => Len(analyses) > 0)' /\ (stage = "settle" => Len(analyses) > 0)'
    BY <1>3
  <2>8. VerdictsReported'
    BY <2>5, <2>6, <2>7 DEF VerdictsReported, ComesFrom, Note
  <2>9. QED
    BY <1>3, <2>2, <2>7, <2>8 DEF ReportInv
<1>8. QED
  BY <1>6, <1>7

LEMMA ReportInductive == ReportInv /\ [Next]_vars => ReportInv'
<1>0. SUFFICES ASSUME ReportInv, [Next]_vars PROVE ReportInv'
  OBVIOUS
<1> USE DEF ReportInv, VerdictsReported, Known
<1>1. CASE UNCHANGED vars
  BY <1>0, <1>1 DEF vars, world, work, tables
<1>2. CASE OutputArrives \/ PublishRequest \/ ImportRequest
  BY <1>0, <1>2 DEF OutputArrives, PublishRequest, ImportRequest, work, tables
<1>3. CASE Claim \/ Succeed
  BY <1>0, <1>3 DEF Claim, Succeed, world, tables
<1>4. CASE Analyse \/ ModelReplies \/ ModelFails
  BY <1>0, <1>4 DEF Analyse, ModelReplies, ModelFails, world, tables
<1>5. CASE Record
  BY <1>0, <1>5, RecordReports
<1>6. CASE CriteriaRaise \/ Fault
  BY <1>0, <1>6 DEF CriteriaRaise, Fault, GiveBack, world, tables
<1>7. QED
  BY <1>0, <1>1, <1>2, <1>3, <1>4, <1>5, <1>6 DEF Next, Handle, Settled

(* Recorded analyses and notifications agree, whatever interrupts, repeats *)
(* or contradicts them.                                                    *)
THEOREM Reported == Spec => []VerdictsReported
<1>1. ReportInv => VerdictsReported
  BY DEF ReportInv
<1>2. QED
  BY ReportInitial, ReportInductive, <1>1, PTL DEF Spec

-----------------------------------------------------------------------------
(* Every verdict that can be reached is one of Verdict.                    *)
LEMMA Minimum ==
    ASSUME NEW S \in SUBSET Nat, S # {}
    PROVE  \E n \in S : \A m \in S : n <= m
<1>1. PICK n \in S : \A m \in S : ~(<<m, n>> \in OpToRel(<, Nat))
  BY NatLessThanWellFounded, WFMin
<1>2. \A m \in S : ~(m < n)
  BY <1>1 DEF OpToRel
<1>3. QED
  BY <1>2

VerdictStatuses == {"hard_failed", "cancelled_by_user", "cancelled_unknown", "abnormal",
                    "completed", "unknown"}
Severities == {"high", "medium", "normal", "low"}
Percents == 0..100

LEMMA PatternsKnown ==
    /\ DOMAIN LogPatterns = 1..23
    /\ \A p \in 1..23 : /\ LogPatterns[p][1] \in VerdictCategories
                        /\ LogPatterns[p][2] \in Percents
<1>1. DOMAIN LogPatterns = 1..23
  BY DEF LogPatterns
<1>2. ASSUME NEW p \in 1..23
      PROVE  /\ LogPatterns[p][1] \in AllowedCategories \cup {"OUT_OF_MEMORY"}
             /\ LogPatterns[p][2] \in Percents
  BY DEF LogPatterns, AllowedCategories, Percents
<1>3. QED
  BY <1>1, <1>2 DEF VerdictCategories, HardFailureStates

LEMMA MatchKnown ==
    ASSUME NEW line \in Lines
    PROVE  Match(line)[1] \in VerdictCategories /\ Match(line)[2] \in Percents
<1>1. line # {} /\ line \subseteq 1..23
  BY ConstantsAssumption, PatternsKnown
<1>2. \E p \in line : \A q \in line : p <= q
  BY <1>1, Minimum
<1>3. QED
  BY <1>1, <1>2, PatternsKnown DEF Match

(* The first of the matches with the highest confidence is one of them.    *)
LEMMA StrongestKnown ==
    ASSUME NEW l \in Seq(Lines), Windows(l) # {}
    PROVE  Strongest(l)[1] \in VerdictCategories /\ Strongest(l)[2] \in Percents
<1> DEFINE W == Windows(l)
           conf == [i \in W |-> Match(l[i])[2]]
           First(i) == \A j \in W : /\ Match(l[j])[2] <= Match(l[i])[2]
                                    /\ j < i => Match(l[j])[2] < Match(l[i])[2]
<1>1. W \subseteq Nat /\ \A i \in W : l[i] \in Lines
  BY DEF Windows
<1>2. \A i \in W : Match(l[i])[1] \in VerdictCategories /\ Match(l[i])[2] \in 0..100
  <2> HIDE DEF W
  <2>1. QED
    BY <1>1, MatchKnown DEF Percents
<1>3. Strongest(l) = Match(l[CHOOSE i \in W : First(i)])
  BY DEF Strongest
<1>4. W # {}
  OBVIOUS
<1> HIDE DEF W
<1>5. \A i \in W : conf[i] = Match(l[i])[2]
  OBVIOUS
<1>5a. \A i \in W : conf[i] \in 0..100
  BY <1>2, <1>5
<1> HIDE DEF conf
<1>5b. \A i \in W : conf[i] \in Int /\ 100 - conf[i] \in Nat
  <2>1. \A n \in 0..100 : n \in Int /\ 100 - n \in Nat
    OBVIOUS
  <2>2. QED
    BY <1>5a, <2>1
<1>6. PICK k \in W : \A j \in W : conf[j] <= conf[k]
  <2> DEFINE S == {100 - conf[i] : i \in W}
  <2>1. S \in SUBSET Nat /\ S # {}
    <3>1. \A s \in S : s \in Nat
      BY <1>5b
    <3>2. \E i \in W : 100 - conf[i] \in S
      BY <1>4
    <3>3. QED
      BY <3>1, <3>2
  <2>2. PICK n \in S : \A m \in S : n <= m
    <3> HIDE DEF S
    <3>1. QED
      BY <2>1, Minimum
  <2>3. PICK k \in W : n = 100 - conf[k]
    OBVIOUS
  <2>4. ASSUME NEW j \in W PROVE conf[j] <= conf[k]
    <3>1. 100 - conf[k] <= 100 - conf[j]
      BY <2>2, <2>3
    <3>2. conf[j] \in Int /\ conf[k] \in Int
      BY <1>5b, <2>3
    <3>3. QED
      BY <3>1, <3>2
  <2>5. QED
    BY <2>4
<1>7. PICK i \in {j \in W : conf[j] = conf[k]} :
        \A j \in {j \in W : conf[j] = conf[k]} : i <= j
  <2> DEFINE S == {j \in W : conf[j] = conf[k]}
  <2>1. S \in SUBSET Nat /\ k \in S
    BY <1>1
  <2> HIDE DEF S
  <2>2. \E i \in S : \A j \in S : i <= j
    BY <2>1, Minimum
  <2>3. QED
    BY <2>2 DEF S
<1>8. i \in W /\ First(i)
  <2>1. i \in W /\ conf[i] = conf[k] /\ \A j \in W : conf[j] = conf[k] => i <= j
    BY <1>7
  <2>2. ASSUME NEW j \in W
        PROVE  conf[j] <= conf[i] /\ (j < i => conf[j] < conf[i])
    <3>1. conf[j] <= conf[i]
      BY <1>6, <2>1
    <3>2. conf[j] \in Int /\ conf[i] \in Int /\ i \in Int /\ j \in Int
      BY <1>1, <1>5b, <2>1
    <3>3. j < i => conf[j] # conf[i]
      BY <2>1, <3>2
    <3>4. QED
      BY <3>1, <3>2, <3>3
  <2>3. QED
    BY <1>5, <2>1, <2>2
<1> HIDE DEF First
<1>9. (CHOOSE j \in W : First(j)) \in W
  BY <1>8
<1>10. QED
  BY <1>2, <1>3, <1>9 DEF Percents

(* Deciding how soon to report keeps a verdict one.                        *)
LEMMA DecidedKnown ==
    ASSUME NEW standing \in VerdictStatuses,
           NEW semantic \in AllowedSemantic, NEW category \in VerdictCategories,
           NEW severity \in Severities,
           NEW confidence \in Percents, NEW mode \in VerdictModes
    PROVE  Decided([status |-> standing, semantic |-> semantic, category |-> category,
                    severity |-> severity, confidence |-> confidence, mode |-> mode])
             \in Verdict
<1> DEFINE v == [status |-> standing, semantic |-> semantic, category |-> category,
                 severity |-> severity, confidence |-> confidence, mode |-> mode]
<1>1. /\ v.status = standing /\ v.semantic = semantic /\ v.category = category
      /\ v.severity = severity /\ v.confidence = confidence /\ v.mode = mode
  OBVIOUS
<1> HIDE DEF v
<1>2. Decide(v) \in VerdictModes
  BY <1>1 DEF Decide, VerdictModes
<1>3. Decided(v) \in Verdict
  BY <1>1, <1>2 DEF Decided, Verdict, VerdictStatuses, Severities, Percents
<1>4. QED
  BY <1>3 DEF v

LEMMA ClassifyKnown ==
    ASSUME NEW f \in Ends, NEW r \in BOOLEAN
    PROVE  /\ Classify(f, r).status \in VerdictStatuses
           /\ Classify(f, r).severity \in Severities
           /\ Classify(f, r).category \in VerdictCategories
           /\ Classify(f, r).mode \in VerdictModes
<1>1. IsHard(f) => HardCategory(f) \in VerdictCategories
  BY DEF IsHard, HardCategory, VerdictCategories
<1>2. f.state \in AbnormalStates => f.state \in VerdictCategories
  BY DEF VerdictCategories
<1>3. {"USER_CANCELLED", "CANCELLED_UNKNOWN", "NONE", "UNKNOWN"} \subseteq VerdictCategories
  BY DEF VerdictCategories, AllowedCategories
<1>4. \/ IsHard(f)
            /\ Classify(f, r) = Classified("hard_failed", "high", HardCategory(f), "immediate")
      \/ Classify(f, r) = Classified("cancelled_by_user", "low", "USER_CANCELLED", "digest")
      \/ Classify(f, r) = Classified("cancelled_unknown", "medium", "CANCELLED_UNKNOWN", "batch")
      \/ f.state \in AbnormalStates
            /\ Classify(f, r) = Classified("abnormal", "medium", f.state, "batch")
      \/ Classify(f, r) = Classified("completed", "normal", "NONE", "batch")
      \/ Classify(f, r) = Classified("unknown", "medium", "UNKNOWN", "batch")
  BY DEF Classify
<1>5. QED
  BY <1>1, <1>2, <1>3, <1>4 DEF Classified, VerdictModes, VerdictStatuses, Severities

LEMMA AnalyzeKnown ==
    ASSUME NEW f \in Ends, NEW r \in BOOLEAN, NEW l \in Seq(Lines), NEW m \in BOOLEAN
    PROVE  Analyze(f, r, l, m) \in Verdict
<1> DEFINE c == Classify(f, r)
           w == Strongest(l)
           Judged(semantic, category, severity, confidence) ==
             Decided([status |-> c.status, semantic |-> semantic, category |-> category,
                      severity |-> severity, confidence |-> confidence, mode |-> c.mode])
<1>1. /\ c.status \in VerdictStatuses
      /\ c.severity \in Severities
      /\ c.category \in VerdictCategories
      /\ c.mode \in VerdictModes
  BY ClassifyKnown
<1> HIDE DEF c
<1>2. ASSUME NEW sem \in AllowedSemantic, NEW cat \in VerdictCategories,
             NEW sev \in Severities, NEW conf \in Percents
      PROVE  Judged(sem, cat, sev, conf) \in Verdict
  BY <1>1, <1>2, DecidedKnown DEF Judged
<1>3. /\ {"hard_failed", "semantic_failed", "suspicious", "normal", "unknown"}
            \subseteq AllowedSemantic
      /\ "SUCCESS_CRITERIA_NOT_MET" \in VerdictCategories
      /\ "medium" \in Severities /\ 100 \in Percents /\ 90 \in Percents /\ 0 \in Percents
  BY DEF AllowedSemantic, VerdictCategories, AllowedCategories, Severities, Percents
<1> HIDE DEF w, Judged
<1>4. CASE IsHard(f)
  <2>1. Analyze(f, r, l, m) = Judged("hard_failed", c.category, c.severity, 100)
    BY <1>4 DEF Analyze, Judged, c
  <2>2. QED
    BY <1>1, <1>2, <1>3, <2>1
<1>5. CASE ~IsHard(f) /\ m
  <2>1. Analyze(f, r, l, m) = Judged("semantic_failed", "SUCCESS_CRITERIA_NOT_MET", "medium", 90)
    BY <1>5 DEF Analyze, Judged, c
  <2>2. QED
    BY <1>2, <1>3, <2>1
<1>6. CASE ~IsHard(f) /\ ~m /\ Windows(l) # {}
  <2>1. Analyze(f, r, l, m) =
          Judged(IF IsFailure(w) THEN "semantic_failed" ELSE "suspicious", w[1], "medium", w[2])
    BY <1>6 DEF Analyze, Judged, c, w
  <2>2. w[1] \in VerdictCategories /\ w[2] \in Percents
    BY <1>6, StrongestKnown DEF w
  <2>3. QED
    BY <1>2, <1>3, <2>1, <2>2
<1>7. CASE ~IsHard(f) /\ ~m /\ Windows(l) = {} /\ c.status = "completed"
  <2>1. Analyze(f, r, l, m) = Judged("normal", c.category, c.severity, 100)
    BY <1>7 DEF Analyze, Judged, c
  <2>2. QED
    BY <1>1, <1>2, <1>3, <2>1
<1>8. CASE ~IsHard(f) /\ ~m /\ Windows(l) = {} /\ c.status # "completed"
  <2>1. Analyze(f, r, l, m) = Judged("unknown", c.category, c.severity, 0)
    BY <1>8 DEF Analyze, Judged, c
  <2>2. QED
    BY <1>1, <1>2, <1>3, <2>1
<1>9. QED
  BY <1>4, <1>5, <1>6, <1>7, <1>8

(* Whatever a model says, what is made of it is a verdict.                 *)
LEMMA MergeKnown ==
    ASSUME NEW v \in Verdict, NEW r \in Replies
    PROVE  Merge(v, Answer(v, r)) \in Verdict
<1> DEFINE a == Answer(v, r)
           severity == IF \/ a.semantic = "semantic_failed"
                          \/ a.semantic \in {"suspicious", "success_with_warning"}
                             /\ v.severity = "normal"
                       THEN "medium" ELSE v.severity
<1>1. /\ v.status \in VerdictStatuses
      /\ v.semantic \in AllowedSemantic /\ v.category \in VerdictCategories
      /\ v.severity \in Severities
      /\ v.confidence \in Percents /\ v.mode \in VerdictModes
      /\ v = [status |-> v.status, semantic |-> v.semantic, category |-> v.category,
              severity |-> v.severity, confidence |-> v.confidence, mode |-> v.mode]
  BY DEF Verdict, VerdictStatuses, Severities, Percents
<1>2. Clamped(r.confidence) \in Percents
  BY ConstantsAssumption DEF Clamped, Percents
<1>3. /\ a.semantic \in AllowedSemantic /\ a.category \in VerdictCategories
      /\ a.confidence \in Percents
  BY <1>1, <1>2 DEF Answer, Allowed, VerdictCategories
<1> HIDE DEF a
<1>4. severity \in Severities
  BY <1>1 DEF Severities
<1>5. CASE v.status = "hard_failed"
  BY <1>5, MergeHard DEF a
<1>6. CASE v.status # "hard_failed" /\ a.semantic = "normal"
  <2>1. Merge(v, a) = Decided(v)
    BY <1>6 DEF Merge
  <2>2. Decided(v) \in Verdict
    BY <1>1, DecidedKnown, Zenon
  <2>3. QED
    BY <2>1, <2>2 DEF a
<1>7. CASE v.status # "hard_failed" /\ a.semantic # "normal"
  <2>1. Merge(v, a) =
          Decided([status |-> v.status, semantic |-> a.semantic, category |-> a.category,
                   severity |-> severity, confidence |-> a.confidence, mode |-> v.mode])
    BY <1>7 DEF Merge
  <2> HIDE DEF severity
  <2>2. QED
    BY <1>1, <1>3, <1>4, <2>1, DecidedKnown DEF a
<1>8. QED
  BY <1>5, <1>6, <1>7

-----------------------------------------------------------------------------
(* TypeOK is inductive once an item that waits has an attempt left and a   *)
(* handler past its analysis has one in hand.                              *)
TypeInv ==
    /\ TypeOK
    /\ status = "pending" => attempts < MaxAttempts
    /\ stage \in {"ask", "record"} => item \in Analysis

NoteRows == [key : AllowedSemantic \X VerdictCategories, mode : VerdictModes]

LEMMA AnalysisKnown ==
    ASSUME NEW v \in Verdict, NEW w \in Verdict,
           NEW said \in {"unasked", "finding", "normal", "prose", "error"}
    PROVE  [first |-> v, verdict |-> w, said |-> said] \in Analysis
BY DEF Analysis

LEMMA AnalysisParts ==
    ASSUME NEW a \in Analysis
    PROVE  a.first \in Verdict /\ a.verdict \in Verdict
BY DEF Analysis

LEMMA NoteKnown ==
    ASSUME NEW v \in Verdict
    PROVE  [key |-> Key(v), mode |-> v.mode] \in NoteRows
<1>1. v.semantic \in AllowedSemantic /\ v.category \in VerdictCategories /\ v.mode \in VerdictModes
  BY DEF Verdict
<1>2. QED
  BY <1>1 DEF Key, NoteRows

LEMMA TypeInitial == Init => TypeInv
<1>1. SUFFICES ASSUME Init PROVE TypeInv
  OBVIOUS
<1>2. TypeOK
  BY <1>1, ConstantsAssumption DEF Init, TypeOK
<1>3. QED
  BY <1>1, <1>2, ConstantsAssumption DEF Init, TypeInv

LEMMA TypeInductive == TypeInv /\ [Next]_vars => TypeInv'
<1>0. SUFFICES ASSUME TypeInv, [Next]_vars PROVE TypeInv'
  OBVIOUS
<1> USE <1>0 DEF TypeInv
<1>1. CASE UNCHANGED vars
  BY <1>1 DEF TypeOK, vars, world, work, tables
<1>2. CASE OutputArrives
  <2>1. log' \in Seq(Lines) /\ missed' \in BOOLEAN /\ changes' \in Nat
    <3>1. log \in Seq(Lines) /\ missed \in BOOLEAN /\ changes \in Nat
      BY DEF TypeOK
    <3>2. changes' = changes + 1
      BY <1>2 DEF OutputArrives
    <3>3. CASE \E l \in Lines : log' = Append(log, l) /\ UNCHANGED missed
      BY <3>1, <3>2, <3>3
    <3>4. CASE missed' = ~missed /\ UNCHANGED log
      BY <3>1, <3>2, <3>4
    <3>5. QED
      BY <1>2, <3>3, <3>4 DEF OutputArrives
  <2>2. UNCHANGED <<facts, criteria, request, model, status, attempts, stage, item,
                    analyses, notes, faults>>
    BY <1>2 DEF OutputArrives, work, tables
  <2>3. QED
    BY <2>1, <2>2 DEF TypeOK
<1>3. CASE PublishRequest
  BY <1>3 DEF TypeOK, PublishRequest, work, tables
<1>4. CASE ImportRequest
  BY <1>4 DEF TypeOK, ImportRequest, work, tables
<1>5. CASE Claim
  <2>1. UNCHANGED <<facts, log, criteria, missed, request, model, item, analyses, notes,
                    changes, faults>>
    BY <1>5 DEF Claim, world, tables
  <2>2. attempts' \in 0..MaxAttempts
    BY <1>5, ConstantsAssumption DEF Claim, TypeOK
  <2>3. status' = "running" /\ stage' = "analyse"
    BY <1>5 DEF Claim
  <2>4. QED
    BY <2>1, <2>2, <2>3 DEF TypeOK
<1>6. CASE Analyse
  <2>1. UNCHANGED <<facts, log, criteria, missed, request, model, status, attempts,
                    analyses, notes, changes, faults>>
    BY <1>6 DEF Analyse, world, tables
  <2>2. Analyze(facts, request = "imported", log, missed) \in Verdict
    <3>1. (request = "imported") \in BOOLEAN
      OBVIOUS
    <3>2. facts \in Ends /\ log \in Seq(Lines) /\ missed \in BOOLEAN
      BY DEF TypeOK
    <3>3. QED
      BY <3>1, <3>2, AnalyzeKnown
  <2>3. item' = [first |-> Analyze(facts, request = "imported", log, missed),
                 verdict |-> Analyze(facts, request = "imported", log, missed),
                 said |-> "unasked"]
    BY <1>6 DEF Analyse
  <2>4. item' \in Analysis
    BY <2>2, <2>3, AnalysisKnown
  <2>5. stage' \in {"ask", "record"}
    BY <1>6 DEF Analyse
  <2>6. QED
    BY <2>1, <2>4, <2>5 DEF TypeOK
<1>7. CASE ModelReplies
  <2>1. UNCHANGED <<facts, log, criteria, missed, request, model, status, attempts,
                    analyses, notes, changes, faults>>
    BY <1>7 DEF ModelReplies, world, tables
  <2>2. item \in Analysis /\ stage' = "record"
    BY <1>7 DEF ModelReplies
  <2>3. item.first \in Verdict /\ item.verdict \in Verdict
    BY <2>2, AnalysisParts
  <2>4. PICK r \in Replies :
          item' = [first |-> item.first,
                   verdict |-> Merge(item.verdict, Answer(item.verdict, r)),
                   said |-> IF ~Allowed(r) THEN "prose"
                            ELSE IF r.semantic = "normal" THEN "normal" ELSE "finding"]
    BY <1>7 DEF ModelReplies
  <2>5. Merge(item.verdict, Answer(item.verdict, r)) \in Verdict
    BY <2>3, MergeKnown
  <2>6. item' \in Analysis
    BY <2>3, <2>4, <2>5, AnalysisKnown
  <2>7. QED
    BY <2>1, <2>2, <2>6 DEF TypeOK
<1>8. CASE ModelFails
  <2>1. UNCHANGED <<facts, log, criteria, missed, request, model, status, attempts,
                    analyses, notes, changes, faults>>
    BY <1>8 DEF ModelFails, world, tables
  <2>2. item \in Analysis /\ stage' = "record"
    BY <1>8 DEF ModelFails
  <2>3. item' \in Analysis
    BY <1>8, <2>2, AnalysisParts, AnalysisKnown DEF ModelFails
  <2>4. QED
    BY <2>1, <2>2, <2>3 DEF TypeOK
<1>9. CASE Record
  <2>1. UNCHANGED <<facts, log, criteria, missed, request, model, status, attempts,
                    changes, faults>>
    BY <1>9 DEF Record, world
  <2>2. item \in Analysis
    BY <1>9 DEF Record
  <2>3. item' = NoItem /\ stage' = "settle"
    BY <1>9 DEF Record
  <2>4. analyses' \in Seq(Analysis)
    BY <1>9, <2>2 DEF Record, TypeOK
  <2>5. notes' \in Seq(NoteRows)
    <3>1. notes \in Seq(NoteRows)
      BY DEF TypeOK, NoteRows
    <3>2. [key |-> Key(item.verdict), mode |-> item.verdict.mode] \in NoteRows
      BY <2>2, AnalysisParts, NoteKnown
    <3>3. QED
      BY <1>9, <3>1, <3>2 DEF Record
  <2>6. QED
    BY <2>1, <2>3, <2>4, <2>5 DEF TypeOK, NoteRows
<1>10. CASE Succeed
  BY <1>10 DEF TypeOK, Succeed, world, tables
<1>11. CASE CriteriaRaise \/ Fault
  <2>1. UNCHANGED <<facts, log, criteria, missed, request, model, attempts,
                    analyses, notes, changes>>
    BY <1>11 DEF CriteriaRaise, Fault, GiveBack, world, tables
  <2>2. stage' = "idle" /\ item' = NoItem
    BY <1>11 DEF CriteriaRaise, Fault, GiveBack
  <2>3. status' = IF attempts >= MaxAttempts THEN "failed" ELSE "pending"
    BY <1>11 DEF CriteriaRaise, Fault, GiveBack
  <2>4. attempts \in Nat /\ MaxAttempts \in Nat
    BY ConstantsAssumption DEF TypeOK
  <2>5. status' \in {"pending", "failed"} /\ (status' = "pending" => attempts' < MaxAttempts)
    BY <2>1, <2>3, <2>4
  <2>6. faults' \in 0..MaxFaults
    BY <1>11, ConstantsAssumption DEF CriteriaRaise, Fault, TypeOK
  <2>7. QED
    BY <2>1, <2>2, <2>5, <2>6 DEF TypeOK
<1>12. QED
  BY <1>1, <1>2, <1>3, <1>4, <1>5, <1>6, <1>7, <1>8, <1>9, <1>10, <1>11
  DEF Next, Handle, Settled

(* Every analysis and every notification that is recorded carries one of   *)
(* the verdicts the tables know, for any logs, replies and interruptions,  *)
(* and no item is executed more often than it may be.                      *)
THEOREM TypeCorrect == Spec => []TypeOK
<1>1. TypeInv => TypeOK
  BY DEF TypeInv
<1>2. QED
  BY TypeInitial, TypeInductive, <1>1, PTL DEF Spec

=============================================================================
