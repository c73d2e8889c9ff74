--------------------------- MODULE BackupsProofs ---------------------------
(***************************************************************************)
(* What ModelCalls and Backups keep for any number of callers, copiers,    *)
(* paths, models and tasks: stored summaries agree with their events, so   *)
(* do verified copies, and verified copies never change.                   *)
(***************************************************************************)
EXTENDS Backups, TLAPS, WellFoundedInduction, FiniteSetTheorems,
        SequenceTheorems

Event == [type : Summaries \cup {"failed"}, run : Nat]

(* A run that goes on has a number.                                        *)
IsRun(r) ==
  /\ r.run \in Nat
  /\ r.at # "off" => r.run > 0

IsDatabase(d) ==
  /\ d = [summary |-> d.summary, events |-> d.events]
  /\ d.summary \in [Summaries -> Nat]
  /\ d.events \in Seq(Event)

CallsTyped ==
  /\ call = [c \in Callers |-> call[c]]
  /\ \A c \in Callers : IsRun(call[c])
  /\ tasks \in Nat
  /\ IsDatabase(db)

(* The numbers of runs tell them apart, in memory and in the events.       *)
Numbered ==
  /\ \A c \in Callers : call[c].run =< tasks
  /\ \A i \in DOMAIN db.events : db.events[i].run \in 1..tasks
  /\ \A c \in Callers : \A i \in DOMAIN db.events :
       db.events[i].run # call[c].run
  /\ \A c, d \in Callers :
       c # d /\ call[c].run # 0 => call[c].run # call[d].run

CallsInv == CallsTyped /\ Numbered /\ Agrees(db)

-----------------------------------------------------------------------------
(* What the steps of a caller come to, seen from the database.             *)
Others(c) ==
  call' = [d \in Callers |-> IF d = c THEN call'[c] ELSE call[d]]

Begins(c) ==
  /\ tasks' = tasks + 1 /\ db' = db /\ Others(c)
  /\ IsRun(call'[c]) /\ call'[c].run \in {0, tasks + 1}

Thinks(c) ==
  /\ tasks' = tasks /\ db' = db /\ Others(c)
  /\ IsRun(call'[c]) /\ call'[c].run \in {0, call[c].run}

Reports(c, e) ==
  /\ tasks' = tasks /\ Others(c) /\ call'[c] = Off
  /\ e \in Event /\ e.run = call[c].run /\ e.run > 0
  /\ db'.events = Append(db.events, e)
  /\ db'.summary = IF e.type \in Summaries
                     THEN [db.summary EXCEPT ![e.type] = e.run]
                     ELSE db.summary
  /\ db' = [summary |-> db'.summary, events |-> db'.events]

LEMMA OffIsRun == IsRun(Off) /\ Off.run = 0
  BY DEF IsRun, Off

LEMMA AtIsRun ==
  ASSUME NEW r, NEW at, NEW left, NEW tries, NEW log, r.run \in Nat, r.run > 0
  PROVE  IsRun(At(r, at, left, tries, log))
         /\ At(r, at, left, tries, log).run = r.run
  BY DEF IsRun, At

LEMMA FailingIsRun ==
  ASSUME NEW c, NEW r, r.run \in Nat, r.run > 0
  PROVE  IsRun(Failing(c, r)) /\ Failing(c, r).run \in {0, r.run}
  BY OffIsRun, AtIsRun DEF Failing

LEMMA ChattingIsRun ==
  ASSUME NEW k, NEW m, NEW ms, NEW n \in Nat, n > 0
  PROVE  IsRun(Chatting(k, m, ms, n)) /\ Chatting(k, m, ms, n).run = n
  BY DEF IsRun, Chatting

LEMMA GoesMoves ==
  ASSUME CallsTyped, NEW c \in Callers, NEW r, Goes(c, r)
  PROVE  call'[c] = r /\ Others(c)
  BY DEF CallsTyped, Goes, Others

LEMMA StartBegins ==
  ASSUME CallsTyped, NEW c \in Callers, NEW k, NEW r, Start(c, k, r)
  PROVE  Begins(c)
<1> DEFINE first == IF k = "question" THEN "text" ELSE "json"
           run   == Chatting(k, first, r.models, tasks + 1)
           next  == IF r.usable THEN run ELSE Failing(c, run)
<1>1. IsRun(run) /\ run.run = tasks + 1 /\ tasks + 1 > 0
  BY ChattingIsRun DEF CallsTyped
<1>2. IsRun(next) /\ next.run \in {0, tasks + 1}
  BY <1>1, FailingIsRun DEF IsRun
<1>3. Goes(c, next) /\ tasks' = tasks + 1 /\ db' = db
  BY DEF Start
<1> HIDE DEF next
<1>4. call'[c] = next /\ Others(c)
  BY <1>3, GoesMoves
<1> QED
  BY <1>2, <1>3, <1>4 DEF Begins

(* All of a run between its start and its commit.                          *)
LEMMA ThoughtIsQuiet ==
  ASSUME CallsTyped, NEW c \in Callers, NEW r, Goes(c, r),
         IsRun(r), r.run \in {0, call[c].run}, tasks' = tasks, db' = db
  PROVE  Thinks(c)
  BY GoesMoves DEF Thinks

LEMMA AskedIsRun ==
  ASSUME NEW r, NEW reply, IsRun(r), r.at = "ask"
  PROVE  IsRun(Asked(r, reply)) /\ Asked(r, reply).run = r.run /\ r.run > 0
  BY AtIsRun DEF Asked, IsRun

LEMMA AskingIsQuiet ==
  ASSUME CallsTyped, NEW c \in Callers, NEW reply, call[c].at = "ask",
         \/ Accept(c, reply) \/ AskAgain(c, reply)
         \/ AskNext(c, reply) \/ ChatFails(c, reply)
  PROVE  Thinks(c)
<1> DEFINE run == Asked(call[c], reply)
<1>1. /\ IsRun(run) /\ run.run = call[c].run
      /\ run.run \in Nat /\ run.run > 0
  BY AskedIsRun DEF CallsTyped, IsRun
<1>2. CASE Accept(c, reply)
  <2>1. Goes(c, At(run, "answered", <<>>, 0, <<>>)) /\ UNCHANGED <<tasks, db>>
    BY <1>2 DEF Accept
  <2> HIDE DEF run
  <2> QED
    BY <1>1, <2>1, AtIsRun, ThoughtIsQuiet
<1>3. CASE AskAgain(c, reply)
  <2>1. /\ Goes(c, At(run, "ask", run.left, run.tries + 1, run.log))
        /\ UNCHANGED <<tasks, db>>
    BY <1>3 DEF AskAgain
  <2> HIDE DEF run
  <2> QED
    BY <1>1, <2>1, AtIsRun, ThoughtIsQuiet
<1>4. CASE AskNext(c, reply)
  <2>1. /\ Goes(c, At(run, "ask", Tail(run.left), 0, run.log))
        /\ UNCHANGED <<tasks, db>>
    BY <1>4 DEF AskNext
  <2> HIDE DEF run
  <2> QED
    BY <1>1, <2>1, AtIsRun, ThoughtIsQuiet
<1>5. CASE ChatFails(c, reply)
  <2>1. /\ Goes(c, At(run, "failed", run.left, run.tries, run.log))
        /\ UNCHANGED <<tasks, db>>
    BY <1>5 DEF ChatFails
  <2> HIDE DEF run
  <2> QED
    BY <1>1, <2>1, AtIsRun, ThoughtIsQuiet
<1> QED
  BY <1>2, <1>3, <1>4, <1>5

LEMMA OffIsQuiet ==
  ASSUME CallsTyped, NEW c \in Callers, Goes(c, Off), UNCHANGED <<tasks, db>>
  PROVE  Thinks(c)
  BY OffIsRun, ThoughtIsQuiet

LEMMA FailingIsQuiet ==
  ASSUME CallsTyped, NEW c \in Callers, call[c].at # "off",
         Goes(c, Failing(c, call[c])), UNCHANGED <<tasks, db>>
  PROVE  Thinks(c)
<1>1. call[c].run \in Nat /\ call[c].run > 0
  BY DEF CallsTyped, IsRun
<1> QED
  BY <1>1, FailingIsRun, ThoughtIsQuiet

LEMMA GoOnIsQuiet ==
  ASSUME CallsTyped, NEW c \in Callers, GoOn(c)
  PROVE  Thinks(c)
<1> DEFINE run == call[c]
           next == CASE run.mode = "json" ->
                          Chatting(run.kind, "text", run.models, run.run)
                     [] run.mode = "text" /\ run.kind = "question" -> Off
                     [] OTHER -> Failing(c, run)
<1>1. run.at = "failed" /\ Goes(c, next) /\ UNCHANGED <<tasks, db>>
  BY DEF GoOn
<1>2. run.run \in Nat /\ run.run > 0
  BY <1>1 DEF CallsTyped, IsRun
<1>3. CASE run.mode = "json"
  <2>1. next = Chatting(run.kind, "text", run.models, run.run)
    BY <1>3
  <2>2. IsRun(next) /\ next.run = run.run
    BY <1>2, <2>1, ChattingIsRun
  <2> HIDE DEF next
  <2> QED
    BY <1>1, <2>2, ThoughtIsQuiet
<1>4. CASE run.mode # "json" /\ run.mode = "text" /\ run.kind = "question"
  <2>1. next = Off
    BY <1>4
  <2> QED
    BY <1>1, <2>1, OffIsQuiet
<1>5. CASE run.mode # "json" /\ ~(run.mode = "text" /\ run.kind = "question")
  <2>1. next = Failing(c, run)
    BY <1>5
  <2> QED
    BY <1>1, <2>1, FailingIsQuiet
<1> QED
  BY <1>3, <1>4, <1>5

LEMMA WriteReports ==
  ASSUME CallsTyped, NEW c \in Callers, Write(c)
  PROVE  \E e \in Event : Reports(c, e)
<1> DEFINE e == [type |-> call[c].kind, run |-> call[c].run]
<1>1. /\ call[c].kind \in Summaries /\ call[c].at = "answered"
      /\ Goes(c, Off) /\ tasks' = tasks
      /\ db' = [summary |-> [db.summary EXCEPT ![call[c].kind] = call[c].run],
                events |-> Append(db.events, e)]
  BY DEF Write
<1>2. e \in Event /\ e.run > 0
  BY <1>1 DEF CallsTyped, IsRun, Event
<1>3. call'[c] = Off /\ Others(c)
  BY <1>1, GoesMoves
<1>4. /\ db'.events = Append(db.events, e)
      /\ db'.summary = [db.summary EXCEPT ![e.type] = e.run]
      /\ db' = [summary |-> db'.summary, events |-> db'.events]
  BY <1>1
<1> QED
  BY <1>1, <1>2, <1>3, <1>4 DEF Reports

LEMMA FailureReports ==
  ASSUME CallsTyped, NEW c \in Callers, RecordFailure(c)
  PROVE  \E e \in Event : Reports(c, e)
<1> DEFINE e == [type |-> "failed", run |-> call[c].run]
<1>1. /\ call[c].at = "report"
      /\ Goes(c, Off) /\ tasks' = tasks
      /\ db' = [summary |-> db.summary, events |-> Append(db.events, e)]
  BY DEF RecordFailure
<1>2. e \in Event /\ e.run > 0 /\ e.type \notin Summaries
  BY <1>1 DEF CallsTyped, IsRun, Event, Summaries
<1>3. call'[c] = Off /\ Others(c)
  BY <1>1, GoesMoves
<1>4. /\ db'.events = Append(db.events, e) /\ db'.summary = db.summary
      /\ db' = [summary |-> db'.summary, events |-> db'.events]
  BY <1>1
<1> QED
  BY <1>1, <1>2, <1>3, <1>4 DEF Reports

LEMMA StepShape ==
  ASSUME CallsTyped, CallsStep
  PROVE  \E c \in Callers :
            Begins(c) \/ Thinks(c) \/ \E e \in Event : Reports(c, e)
<1>1. PICK c \in Callers :
        (\E k \in Kinds, r \in Revisions : Start(c, k, r)) \/ Act(c) \/ Die(c)
  BY DEF CallsStep
<1>2. CASE \E k \in Kinds, r \in Revisions : Start(c, k, r)
  BY <1>2, StartBegins
<1>3. CASE Die(c)
  BY <1>3, OffIsQuiet DEF Die
<1>4. CASE Act(c)
  <2>1. CASE call[c].at = "ask" /\ \E r \in Replies :
               \/ Accept(c, r) \/ AskAgain(c, r)
               \/ AskNext(c, r) \/ ChatFails(c, r)
    BY <2>1, AskingIsQuiet
  <2>2. CASE GoOn(c)
    BY <2>2, GoOnIsQuiet
  <2>3. CASE AnswerQuestion(c)
    BY <2>3, OffIsQuiet DEF AnswerQuestion
  <2>4. CASE WriteFails(c)
    BY <2>4, FailingIsQuiet DEF WriteFails
  <2>5. CASE Write(c)
    BY <2>5, WriteReports
  <2>6. CASE RecordFailure(c)
    BY <2>6, FailureReports
  <2> QED
    BY <1>4, <2>1, <2>2, <2>3, <2>4, <2>5, <2>6 DEF Act
<1> QED
  BY <1>1, <1>2, <1>3, <1>4

-----------------------------------------------------------------------------
(* An event more, of a run that had none.                                  *)
LEMMA AppendAgrees ==
  ASSUME NEW d, IsDatabase(d), Agrees(d), NEW e \in Event, e.run > 0,
         \A i \in DOMAIN d.events : d.events[i].run # e.run,
         NEW n, n.events = Append(d.events, e),
         n.summary = IF e.type \in Summaries
                       THEN [d.summary EXCEPT ![e.type] = e.run]
                       ELSE d.summary
  PROVE  Agrees(n)
<1> DEFINE l == Len(d.events)
<1>1. /\ l \in Nat /\ DOMAIN d.events = 1..l
      /\ DOMAIN n.events = 1..(l + 1) /\ n.events[l + 1] = e
      /\ \A i \in 1..l : n.events[i] = d.events[i] /\ i \in 1..(l + 1)
  BY DEF IsDatabase
<1> HIDE DEF l
<1>2. ASSUME NEW i \in DOMAIN n.events, NEW j \in DOMAIN n.events,
             n.events[i].run = n.events[j].run
      PROVE  i = j
  BY <1>1, <1>2 DEF Agrees
<1>3. ASSUME NEW k \in Summaries
      PROVE  IsLastCreated(n.events, k, n.summary[k])
  <2>1. IsLastCreated(d.events, k, d.summary[k])
    BY DEF Agrees
  <2>2. CASE e.type = k
    <3>1. n.summary[k] = e.run
      BY <2>2 DEF IsDatabase
    <3>2. /\ l + 1 \in DOMAIN n.events
          /\ n.events[l + 1].type = k /\ n.events[l + 1].run = e.run
          /\ \A j \in DOMAIN n.events : ~(j > l + 1)
      BY <1>1, <2>2
    <3> QED
      BY <3>1, <3>2 DEF IsLastCreated
  <2>3. CASE e.type # k
    <3>1. n.summary[k] = d.summary[k]
      BY <2>3 DEF IsDatabase
    <3>2. CASE d.summary[k] = 0
      BY <1>1, <2>1, <2>3, <3>1, <3>2 DEF IsLastCreated
    <3>3. CASE d.summary[k] # 0
      <4>1. PICK i \in DOMAIN d.events :
              /\ d.events[i].type = k /\ d.events[i].run = d.summary[k]
              /\ \A j \in DOMAIN d.events : j > i => d.events[j].type # k
        BY <2>1, <3>3 DEF IsLastCreated
      <4>2. /\ i \in DOMAIN n.events
            /\ n.events[i].type = k /\ n.events[i].run = n.summary[k]
        BY <1>1, <3>1, <4>1
      <4>3. ASSUME NEW j \in DOMAIN n.events, j > i
            PROVE  n.events[j].type # k
        BY <1>1, <2>3, <4>1, <4>3
      <4> QED
        BY <3>1, <3>3, <4>2, <4>3 DEF IsLastCreated
    <3> QED
      BY <3>2, <3>3
  <2> QED
    BY <2>2, <2>3
<1> QED
  BY <1>2, <1>3 DEF Agrees

LEMMA ReportedIsDatabase ==
  ASSUME NEW d, IsDatabase(d), NEW e \in Event,
         NEW n, n.events = Append(d.events, e),
         n.summary = (IF e.type \in Summaries
                        THEN [d.summary EXCEPT ![e.type] = e.run]
                        ELSE d.summary),
         n = [summary |-> n.summary, events |-> n.events]
  PROVE  IsDatabase(n)
<1>1. n.events \in Seq(Event)
  BY DEF IsDatabase
<1>2. n.summary \in [Summaries -> Nat]
  BY DEF IsDatabase, Event
<1> QED
  BY <1>1, <1>2 DEF IsDatabase

LEMMA CallsInitially == InitCalls => CallsInv
<1> SUFFICES ASSUME InitCalls PROVE CallsInv
  OBVIOUS
<1>1. \A c \in Callers : call[c] = Off
  BY DEF InitCalls
<1>2. db.events = <<>> /\ DOMAIN db.events = {} /\ tasks = 0
  BY DEF InitCalls
<1>3. \A k \in Summaries : db.summary[k] = 0
  BY DEF InitCalls
<1>4. IsDatabase(db)
  BY DEF InitCalls, IsDatabase
<1>5. CallsTyped
  BY <1>1, <1>2, <1>4, OffIsRun DEF CallsTyped, InitCalls
<1>6. Numbered
  BY <1>1, <1>2, OffIsRun DEF Numbered
<1>7. Agrees(db)
  BY <1>2, <1>3 DEF Agrees, IsLastCreated
<1> QED
  BY <1>5, <1>6, <1>7 DEF CallsInv

LEMMA BeginsKeeps ==
  ASSUME CallsInv, NEW c \in Callers, Begins(c)
  PROVE  CallsInv'
<1> USE DEF CallsInv
<1>1. CallsTyped'
  BY DEF Begins, Others, CallsTyped
<1>2. \A d \in Callers : call'[d].run =< tasks + 1 /\ call'[d].run \in Nat
  BY DEF Begins, Others, CallsTyped, IsRun, Numbered
<1>3. Numbered'
  <2>1. \A d \in Callers : d # c => call'[d] = call[d]
    BY DEF Begins, Others
  <2>2. \A i \in DOMAIN db.events : db.events[i].run \in 1..tasks
    BY DEF Numbered
  <2>3. \A i \in DOMAIN db.events :
          /\ db.events[i].run \in 1..(tasks + 1)
          /\ db.events[i].run # 0 /\ db.events[i].run # tasks + 1
    BY <2>2 DEF CallsTyped
  <2>4. \A d \in Callers, i \in DOMAIN db.events :
          db.events[i].run # call'[d].run
    BY <2>1, <2>3 DEF Begins, Numbered
  <2>5. \A d \in Callers : d # c => call'[d].run # tasks + 1
    BY <2>1 DEF Numbered, CallsTyped, IsRun
  <2>6. ASSUME NEW a \in Callers, NEW d \in Callers, a # d, call'[a].run # 0
        PROVE  call'[a].run # call'[d].run
    BY <2>1, <2>5, <2>6 DEF Begins, Numbered
  <2> QED
    BY <1>2, <2>3, <2>4, <2>6 DEF Numbered, Begins
<1>4. Agrees(db)'
  BY DEF Begins
<1> QED
  BY <1>1, <1>3, <1>4

LEMMA ThinksKeeps ==
  ASSUME CallsInv, NEW c \in Callers, Thinks(c)
  PROVE  CallsInv'
<1> USE DEF CallsInv
<1>1. CallsTyped'
  BY DEF Thinks, Others, CallsTyped
<1>2. Numbered'
  <2>1. \A d \in Callers : call'[d].run = call[d].run \/ call'[d].run = 0
    BY DEF Thinks, Others
  <2>2. \A d \in Callers : call[d].run \in Nat
    BY DEF CallsTyped, IsRun
  <2>3. \A d \in Callers : call'[d].run =< tasks
    BY <2>1, <2>2 DEF CallsTyped, Numbered
  <2>4. \A i \in DOMAIN db.events : db.events[i].run # 0
    BY DEF Numbered, CallsTyped
  <2>5. \A d \in Callers, i \in DOMAIN db.events :
          db.events[i].run # call'[d].run
    BY <2>1, <2>4 DEF Numbered
  <2> QED
    BY <2>1, <2>3, <2>5 DEF Numbered, Thinks
<1>3. Agrees(db)'
  BY DEF Thinks
<1> QED
  BY <1>1, <1>2, <1>3

LEMMA ReportsKeeps ==
  ASSUME CallsInv, NEW c \in Callers, NEW e \in Event, Reports(c, e)
  PROVE  CallsInv'
<1> USE DEF CallsInv
<1>1. IsDatabase(db')
  BY ReportedIsDatabase DEF Reports, CallsTyped
<1>2. CallsTyped'
  BY <1>1, OffIsRun DEF Reports, Others, CallsTyped
<1>3. \A i \in DOMAIN db.events : db.events[i].run # e.run
  BY DEF Numbered, Reports
<1>4. Agrees(db')
  BY <1>3, AppendAgrees DEF Reports, CallsTyped
<1>5. Numbered'
  <2>1. /\ call'[c].run = 0
        /\ \A d \in Callers : d # c => call'[d] = call[d]
    BY OffIsRun DEF Reports, Others
  <2>2. \A i \in DOMAIN db'.events :
          \/ db'.events[i].run = e.run
          \/ i \in DOMAIN db.events /\ db'.events[i] = db.events[i]
    BY DEF Reports, CallsTyped, IsDatabase
  <2>3. e.run \in 1..tasks
    BY DEF Reports, Numbered, CallsTyped, IsRun
  <2>4. \A i \in DOMAIN db'.events : db'.events[i].run \in 1..tasks
    BY <2>2, <2>3 DEF Numbered
  <2>5. \A d \in Callers : d # c => call[d].run # e.run
    BY DEF Reports, Numbered
  <2>6. ASSUME NEW d \in Callers, NEW i \in DOMAIN db'.events
        PROVE  db'.events[i].run # call'[d].run
    <3>1. CASE d = c
      BY <2>1, <2>4, <3>1 DEF CallsTyped
    <3>2. CASE d # c
      BY <2>1, <2>2, <2>5, <3>2 DEF Numbered
    <3> QED
      BY <3>1, <3>2
  <2>7. \A d \in Callers : call'[d].run =< tasks
    BY <2>1 DEF Numbered, CallsTyped
  <2>8. ASSUME NEW a \in Callers, NEW d \in Callers, a # d, call'[a].run # 0
        PROVE  call'[a].run # call'[d].run
    BY <2>1, <2>8 DEF Numbered
  <2> QED
    BY <2>4, <2>6, <2>7, <2>8 DEF Numbered, Reports
<1> QED
  BY <1>2, <1>4, <1>5

LEMMA CallsKeep ==
  ASSUME CallsInv, CallsStep
  PROVE  CallsInv'
  BY StepShape, BeginsKeeps, ThinksKeeps, ReportsKeeps DEF CallsInv

-----------------------------------------------------------------------------
LEMMA PrefixSelf ==
  ASSUME NEW s \in Seq(Event)
  PROVE  IsPrefix(s, s)
  BY DEF IsPrefix

LEMMA PrefixAppend ==
  ASSUME NEW s \in Seq(Event), NEW t \in Seq(Event), NEW e \in Event,
         IsPrefix(s, t)
  PROVE  IsPrefix(s, Append(t, e))
<1> DEFINE n == Len(s)
           u == Append(t, e)
<1>1. /\ n \in Nat /\ Len(t) \in Nat /\ n =< Len(t)
      /\ SubSeq(s, 1, n) = SubSeq(t, 1, n)
  BY DEF IsPrefix
<1>2. Len(u) = Len(t) + 1 /\ \A i \in 1..Len(t) : u[i] = t[i]
  OBVIOUS
<1>3. SubSeq(t, 1, n) = [i \in 1..n |-> t[i]]
  BY <1>1
<1>4. SubSeq(u, 1, n) = [i \in 1..n |-> u[i]]
  BY <1>1, <1>2
<1>5. [i \in 1..n |-> t[i]] = [i \in 1..n |-> u[i]]
  BY <1>1, <1>2
<1> QED
  BY <1>1, <1>2, <1>3, <1>4, <1>5 DEF IsPrefix

(* What is known of files and of copies under way: who owns a file that is *)
(* not complete, and what the half of a copy that is not stale holds.      *)
CopyTyped ==
  /\ copy = [b \in Copiers |-> copy[b]]
  /\ file = [p \in Paths |-> file[p]]
  /\ \A b \in Copiers : copy[b].from \in Paths \cup {Database}
  /\ \A b \in Copiers : copy[b].at # "rest" => copy[b].to \in Paths

FilesAgree ==
  \A p \in Paths : Verified(file[p]) =>
     /\ IsDatabase(file[p].holds) /\ Agrees(file[p].holds)
     /\ IsPrefix(file[p].holds.events, db.events)

GoodFiles == \A p \in good : p \in Paths /\ Verified(file[p])

Writing(job) == job.at = "copy" \/ job.at = "more"

Owners ==
  /\ \A b \in Copiers : Writing(copy[b]) => file[copy[b].to] = Partial
  /\ \A a, b \in Copiers :
       a # b /\ Writing(copy[a]) /\ Writing(copy[b])
       => copy[a].to # copy[b].to

Halves ==
  \A b \in Copiers :
     /\ copy[b].at # "rest" /\ copy[b].from # Database
        => Verified(file[copy[b].from])
     /\ copy[b].at = "more" /\ ~copy[b].stale
        => copy[b].half = Source(copy[b].from).summary

CopyInv == CopyTyped /\ FilesAgree /\ GoodFiles /\ Owners /\ Halves

IInv == CallsInv /\ CopyInv

LEMMA Files ==
  /\ ~Verified(None) /\ ~Verified(Partial) /\ None # Partial
  /\ \A d : Verified(Whole(d)) /\ Whole(d).holds = d /\ Whole(d) # None
  BY DEF Verified, None, Partial, Whole

LEMMA Jobs ==
  ASSUME NEW at, NEW from, NEW to, NEW half, NEW stale
  PROVE  /\ Job(at, from, to, half, stale).at = at
         /\ Job(at, from, to, half, stale).from = from
         /\ Job(at, from, to, half, stale).to = to
         /\ Job(at, from, to, half, stale).half = half
         /\ Job(at, from, to, half, stale).stale = stale
  BY DEF Job

LEMMA Initially == Init => IInv
<1> SUFFICES ASSUME Init PROVE IInv
  OBVIOUS
<1>1. CallsInv
  BY CallsInitially DEF Init
<1>2. \A b \in Copiers : copy[b] = Resting
  BY DEF Init
<1>3. Resting.at = "rest" /\ Resting.from = Database
  BY DEF Resting, Job
<1>4. \A p \in Paths : ~Verified(file[p])
  BY Files DEF Init
<1>5. CopyInv
  BY <1>2, <1>3, <1>4
     DEF CopyInv, CopyTyped, FilesAgree, GoodFiles, Owners, Halves, Writing, Init
<1> QED
  BY <1>1, <1>5 DEF IInv

(* A commit adds to the events, or leaves the database as it is.           *)
LEMMA CommitAppends ==
  ASSUME CallsInv, CallsStep
  PROVE  db' = db \/ \E e \in Event : db'.events = Append(db.events, e)
  BY StepShape DEF CallsInv, Begins, Thinks, Reports

LEMMA CommitKeeps ==
  ASSUME IInv, Commit
  PROVE  IInv'
<1> USE DEF IInv
<1>1. CallsInv'
  BY CallsKeep DEF Commit
<1>2. file' = file /\ good' = good
  BY DEF Commit
<1>3. ASSUME NEW b \in Copiers
      PROVE  /\ copy'[b].at = copy[b].at /\ copy'[b].from = copy[b].from
             /\ copy'[b].to = copy[b].to
             /\ ~copy'[b].stale /\ copy[b].at = "more"
                => /\ ~copy[b].stale /\ copy'[b].half = copy[b].half
                   /\ copy[b].from = Database => db' = db
  <2>1. copy'[b] = IF db' # db /\ copy[b].from = Database /\ copy[b].at = "more"
                     THEN Job("more", copy[b].from, copy[b].to,
                              copy[b].half, TRUE)
                     ELSE copy[b]
    BY DEF Commit
  <2>2. CASE db' # db /\ copy[b].from = Database /\ copy[b].at = "more"
    BY <2>1, <2>2 DEF Job
  <2>3. CASE ~(db' # db /\ copy[b].from = Database /\ copy[b].at = "more")
    BY <2>1, <2>3
  <2> QED
    BY <2>2, <2>3
<1>4. CopyTyped'
  BY <1>2, <1>3 DEF CopyInv, CopyTyped, Commit
<1>5. FilesAgree'
  <2>1. ASSUME NEW p \in Paths, Verified(file[p])
        PROVE  IsPrefix(file[p].holds.events, db'.events)
    BY <2>1, CommitAppends, PrefixAppend
       DEF Commit, CopyInv, FilesAgree, IsDatabase, CallsInv, CallsTyped
  <2> QED
    BY <1>2, <2>1 DEF CopyInv, FilesAgree
<1>6. GoodFiles'
  BY <1>2 DEF CopyInv, GoodFiles
<1>7. Owners'
  BY <1>2, <1>3 DEF CopyInv, Owners, Writing
<1>8. Halves'
  <2> SUFFICES ASSUME NEW b \in Copiers
      PROVE  /\ copy'[b].at # "rest" /\ copy'[b].from # Database
                => Verified(file'[copy'[b].from])
             /\ copy'[b].at = "more" /\ ~copy'[b].stale
                => copy'[b].half = (IF copy'[b].from = Database THEN db'
                                    ELSE file'[copy'[b].from].holds).summary
    BY DEF Halves, Source
  <2>1. /\ copy[b].at # "rest" /\ copy[b].from # Database
           => Verified(file[copy[b].from])
        /\ copy[b].at = "more" /\ ~copy[b].stale
           => copy[b].half = (IF copy[b].from = Database THEN db
                              ELSE file[copy[b].from].holds).summary
    BY DEF CopyInv, Halves, Source
  <2> QED
    BY <1>2, <1>3, <2>1
<1> QED
  BY <1>1, <1>4, <1>5, <1>6, <1>7, <1>8 DEF CopyInv

LEMMA CallsUntouched ==
  ASSUME CallsInv, UNCHANGED <<call, db>>, tasks' \in {tasks, tasks + 1}
  PROVE  CallsInv'
<1> USE DEF CallsInv
<1>1. CallsTyped'
  BY DEF CallsTyped
<1>2. Numbered'
  <2>1. tasks \in Nat /\ \A c \in Callers : call[c].run \in Nat
    BY DEF CallsTyped, IsRun
  <2>2. \A i \in DOMAIN db.events : db.events[i].run \in 1..(tasks + 1)
    BY <2>1 DEF Numbered
  <2>3. \A c \in Callers : call[c].run =< tasks + 1
    BY <2>1 DEF Numbered
  <2> QED
    BY <2>2, <2>3 DEF Numbered
<1> QED
  BY <1>1, <1>2

(* What a step of a copier has to show for itself.                         *)
LEMMA CopierKeeps ==
  ASSUME IInv, UNCHANGED <<call, db>>, tasks' \in {tasks, tasks + 1},
         NEW b \in Copiers, NEW job, Does(b, job),
         job.from \in Paths \cup {Database},
         job.at # "rest" => job.to \in Paths,
         job.at # "rest" /\ job.from # Database => Verified(file[job.from]),
         job.at = "more" /\ ~job.stale => job.half = Source(job.from).summary,
         file' = [p \in Paths |-> file'[p]],
         \A p \in Paths : Verified(file[p]) => file'[p] = file[p],
         \A p \in Paths : Verified(file'[p]) /\ ~Verified(file[p]) =>
            /\ IsDatabase(file'[p].holds) /\ Agrees(file'[p].holds)
            /\ IsPrefix(file'[p].holds.events, db.events),
         \A a \in Copiers : a # b /\ Writing(copy[a]) =>
            /\ file'[copy[a].to] = file[copy[a].to]
            /\ Writing(job) => copy[a].to # job.to,
         Writing(job) => file'[job.to] = Partial,
         \A p \in good' : p \in Paths /\ Verified(file'[p])
  PROVE  IInv'
<1> USE DEF IInv, CopyInv
<1>1. CallsInv'
  BY CallsUntouched
<1>2. /\ copy' = [a \in Copiers |-> copy'[a]] /\ copy'[b] = job
      /\ \A a \in Copiers : a # b => copy'[a] = copy[a]
  BY DEF CopyTyped, Does
<1>3. CopyTyped'
  BY <1>2 DEF CopyTyped
<1>4. FilesAgree'
  BY DEF FilesAgree
<1>5. GoodFiles'
  BY DEF GoodFiles
<1>6. Owners'
  BY <1>2 DEF Owners
<1>7. Halves'
  <2> SUFFICES ASSUME NEW a \in Copiers
      PROVE  /\ copy'[a].at # "rest" /\ copy'[a].from # Database
                => Verified(file'[copy'[a].from])
             /\ copy'[a].at = "more" /\ ~copy'[a].stale
                => copy'[a].half = (IF copy'[a].from = Database THEN db
                                    ELSE file'[copy'[a].from].holds).summary
    BY DEF Halves, Source
  <2>1. /\ copy'[a].at # "rest" /\ copy'[a].from # Database
           => Verified(file[copy'[a].from])
        /\ copy'[a].at = "more" /\ ~copy'[a].stale
           => copy'[a].half = (IF copy'[a].from = Database THEN db
                               ELSE file[copy'[a].from].holds).summary
        /\ copy'[a].from \in Paths \cup {Database}
    BY <1>2 DEF Halves, Source, CopyTyped
  <2> QED
    BY <2>1
<1> QED
  BY <1>1, <1>3, <1>4, <1>5, <1>6, <1>7

LEMMA BeginKeeps ==
  ASSUME IInv, NEW b \in Copiers, NEW from, NEW to \in Paths,
         Begin(b, from, to)
  PROVE  IInv'
<1> DEFINE job == Job("create", from, to, <<>>, FALSE)
<1>1. /\ job.at = "create" /\ job.from = from /\ job.to = to /\ ~Writing(job)
  BY DEF Job, Writing
<1>2. /\ Does(b, job) /\ tasks' = tasks + 1
      /\ UNCHANGED <<call, db, file, good>>
      /\ from \in {Database} \cup {p \in Paths : Verified(file[p])}
  BY DEF Begin
<1> HIDE DEF job
<1> QED
  BY <1>1, <1>2, CopierKeeps DEF IInv, CopyInv, CopyTyped, GoodFiles

(* Resting again, from any step.                                           *)
LEMMA RestKeeps ==
  ASSUME IInv, NEW b \in Copiers, Does(b, Resting),
         UNCHANGED <<callVars, file>>,
         \A p \in good' : p \in Paths /\ Verified(file[p])
  PROVE  IInv'
<1>1. Resting.at = "rest" /\ Resting.from = Database /\ ~Writing(Resting)
  BY DEF Resting, Job, Writing
<1> QED
  BY <1>1, CopierKeeps DEF callVars, IInv, CopyInv, CopyTyped

LEMMA CreateKeeps ==
  ASSUME IInv, NEW b \in Copiers, Create(b)
  PROVE  IInv'
<1> DEFINE to  == copy[b].to
           job == Job("copy", copy[b].from, to, <<>>, FALSE)
<1>1. copy[b].at = "create" /\ to \in Paths /\ UNCHANGED <<callVars, good>>
  BY DEF Create, IInv, CopyInv, CopyTyped
<1>2. CASE file[to] = None
  <2>1. file' = [file EXCEPT ![to] = Partial] /\ Does(b, job)
    BY <1>2 DEF Create
  <2>2. /\ job.at = "copy" /\ job.from = copy[b].from /\ job.to = to
        /\ Writing(job)
    BY DEF Job, Writing
  <2>3. /\ file' = [p \in Paths |-> file'[p]] /\ file'[to] = Partial
        /\ \A p \in Paths : p # to => file'[p] = file[p]
    BY <1>1, <2>1 DEF IInv, CopyInv, CopyTyped
  <2>4. \A p \in Paths : Verified(file[p]) \/ Verified(file'[p])
                        => file'[p] = file[p]
    BY <1>2, <2>3, Files
  <2>5. \A a \in Copiers : Writing(copy[a]) => copy[a].to # to
    BY <1>2, Files DEF IInv, CopyInv, Owners
  <2>6. \A a \in Copiers : Writing(copy[a]) => copy[a].to \in Paths
    BY DEF IInv, CopyInv, CopyTyped, Writing
  <2>7. \A p \in good' : p \in Paths /\ Verified(file'[p])
    BY <1>1, <2>4 DEF IInv, CopyInv, GoodFiles
  <2>8. job.from \in Paths \cup {Database}
        /\ (job.from # Database => Verified(file[job.from]))
    BY <1>1, <2>2 DEF IInv, CopyInv, CopyTyped, Halves
  <2> HIDE DEF job, to
  <2>9. UNCHANGED <<call, db>> /\ tasks' \in {tasks, tasks + 1}
    BY <1>1 DEF callVars
  <2>10. \A p \in Paths : Verified(file[p]) => file'[p] = file[p]
    BY <2>4
  <2>11. \A p \in Paths : Verified(file'[p]) /\ ~Verified(file[p]) =>
            /\ IsDatabase(file'[p].holds) /\ Agrees(file'[p].holds)
            /\ IsPrefix(file'[p].holds.events, db.events)
    BY <2>4
  <2>12. \A a \in Copiers : a # b /\ Writing(copy[a]) =>
            /\ file'[copy[a].to] = file[copy[a].to]
            /\ Writing(job) => copy[a].to # job.to
    BY <2>2, <2>3, <2>5, <2>6
  <2> QED
    <3>1. file' = [p \in Paths |-> file'[p]] /\ job.from \in Paths \cup {Database}
      BY <2>3, <2>8
    <3>2. job.at # "rest" => job.to \in Paths
      BY <1>1, <2>2
    <3>3. job.at # "rest" /\ job.from # Database => Verified(file[job.from])
      BY <2>8
    <3>4. job.at = "more" /\ ~job.stale => job.half = Source(job.from).summary
      BY <2>2
    <3>5. Writing(job) => file'[job.to] = Partial
      BY <2>2, <2>3
    <3>6. Does(b, job)
      BY <2>1
    <3> QED
      BY <2>7, <2>9, <2>10, <2>11, <2>12, <3>1, <3>2, <3>3, <3>4, <3>5, <3>6,
         CopierKeeps
<1>3. CASE file[to] # None
  <2>1. Does(b, Resting) /\ UNCHANGED file
    BY <1>3 DEF Create
  <2> QED
    BY <1>1, <2>1, RestKeeps DEF IInv, CopyInv, GoodFiles
<1> QED
  BY <1>2, <1>3

LEMMA CopyBeginsKeeps ==
  ASSUME IInv, NEW b \in Copiers, CopyBegins(b)
  PROVE  IInv'
<1> DEFINE half == Source(copy[b].from).summary
           job  == Job("more", copy[b].from, copy[b].to, half, FALSE)
<1>1. /\ copy[b].at = "copy" /\ Does(b, job)
      /\ UNCHANGED <<callVars, file, good>>
  BY DEF CopyBegins
<1>2. /\ job.at = "more" /\ job.from = copy[b].from /\ job.to = copy[b].to
      /\ job.half = half
  BY DEF Job
<1>3. Writing(copy[b])
  BY <1>1 DEF Writing
<1> HIDE DEF job
<1>4. \A p \in good' : p \in Paths /\ Verified(file[p])
  BY <1>1 DEF IInv, CopyInv, GoodFiles
<1>5. file' = [p \in Paths |-> file'[p]]
  BY <1>1 DEF IInv, CopyInv, CopyTyped
<1>6. /\ file[copy[b].to] = Partial /\ copy[b].to \in Paths
      /\ copy[b].from \in Paths \cup {Database}
      /\ copy[b].from # Database => Verified(file[copy[b].from])
      /\ \A a \in Copiers : a # b /\ Writing(copy[a])
                           => copy[a].to # copy[b].to
  BY <1>1, <1>3 DEF IInv, CopyInv, CopyTyped, Owners, Halves
<1> QED
  BY <1>1, <1>2, <1>4, <1>5, <1>6, CopierKeeps DEF callVars

LEMMA CopyEndsKeeps ==
  ASSUME IInv, NEW b \in Copiers, CopyEnds(b)
  PROVE  IInv'
<1> DEFINE to    == copy[b].to
           from  == copy[b].from
           again == Job("copy", from, to, <<>>, FALSE)
           done  == Job("verify", from, to, <<>>, FALSE)
           d     == [summary |-> copy[b].half, events |-> Source(from).events]
<1>1. copy[b].at = "more" /\ UNCHANGED <<callVars, good>>
  BY DEF CopyEnds
<1>2. Writing(copy[b])
  BY <1>1 DEF Writing
<1>3. /\ file[to] = Partial /\ to \in Paths
      /\ from \in Paths \cup {Database}
      /\ from # Database => Verified(file[from])
      /\ \A a \in Copiers : a # b /\ Writing(copy[a]) => copy[a].to # to
  BY <1>1, <1>2 DEF IInv, CopyInv, CopyTyped, Owners, Halves
<1>4. CASE copy[b].stale
  <2>1. Does(b, again) /\ UNCHANGED file
    BY <1>4 DEF CopyEnds
  <2>2. /\ again.at = "copy" /\ again.from = from /\ again.to = to
    BY DEF Job
  <2> HIDE DEF again, to, from
  <2>3. \A p \in good' : p \in Paths /\ Verified(file[p])
    BY <1>1 DEF IInv, CopyInv, GoodFiles
  <2>4. file' = [p \in Paths |-> file'[p]]
    BY <2>1 DEF IInv, CopyInv, CopyTyped
  <2> QED
    BY <1>1, <1>3, <2>1, <2>2, <2>3, <2>4, CopierKeeps DEF callVars
<1>5. CASE ~copy[b].stale
  <2>1. Does(b, done) /\ file' = [file EXCEPT ![to] = Whole(d)]
    BY <1>5 DEF CopyEnds
  <2>2. /\ done.at = "verify" /\ done.from = from /\ done.to = to
        /\ ~Writing(done)
    BY DEF Job, Writing
  <2>3. copy[b].half = Source(from).summary
    BY <1>1, <1>5 DEF IInv, CopyInv, Halves
  <2>4. /\ IsDatabase(Source(from)) /\ Agrees(Source(from))
        /\ IsPrefix(Source(from).events, db.events)
    <3>1. CASE from = Database
      BY <3>1, PrefixSelf DEF Source, IInv, CallsInv, CallsTyped, IsDatabase
    <3>2. CASE from # Database
      BY <1>3, <3>2 DEF Source, IInv, CopyInv, FilesAgree
    <3> QED
      BY <3>1, <3>2
  <2>5. /\ d.summary = Source(from).summary /\ d.events = Source(from).events
        /\ d = [summary |-> d.summary, events |-> d.events]
    BY <2>3
  <2> HIDE DEF d, to, from, done
  <2>6. IsDatabase(d) /\ Agrees(d) /\ IsPrefix(d.events, db.events)
    BY <2>4, <2>5 DEF IsDatabase, Agrees
  <2>7. /\ file' = [p \in Paths |-> file'[p]] /\ file'[to] = Whole(d)
        /\ \A p \in Paths : p # to => file'[p] = file[p]
    BY <1>3, <2>1 DEF IInv, CopyInv, CopyTyped
  <2>8. \A p \in Paths : Verified(file[p]) => file'[p] = file[p]
    BY <1>3, <2>7, Files
  <2>9. \A p \in Paths : Verified(file'[p]) /\ ~Verified(file[p]) =>
          /\ IsDatabase(file'[p].holds) /\ Agrees(file'[p].holds)
          /\ IsPrefix(file'[p].holds.events, db.events)
    BY <2>6, <2>7, Files
  <2>10. \A a \in Copiers : Writing(copy[a]) => copy[a].to \in Paths
    BY DEF IInv, CopyInv, CopyTyped, Writing
  <2>11. \A p \in good' : p \in Paths /\ Verified(file'[p])
    BY <1>1, <2>8 DEF IInv, CopyInv, GoodFiles
  <2>12. Does(b, done) /\ UNCHANGED <<call, db>> /\ tasks' \in {tasks, tasks + 1}
    BY <1>1, <2>1 DEF callVars
  <2>13. \A a \in Copiers : a # b /\ Writing(copy[a]) =>
            /\ file'[copy[a].to] = file[copy[a].to]
            /\ Writing(done) => copy[a].to # done.to
    BY <1>3, <2>2, <2>7, <2>10
  <2> QED
    BY <1>3, <2>2, <2>7, <2>8, <2>9, <2>11, <2>12, <2>13, CopierKeeps
<1> QED
  BY <1>4, <1>5

LEMMA VerifyKeeps ==
  ASSUME IInv, NEW b \in Copiers, Verify(b)
  PROVE  IInv'
<1>1. /\ copy[b].at = "verify" /\ Does(b, Resting)
      /\ UNCHANGED <<callVars, file>>
      /\ good' = IF Verified(file[copy[b].to]) THEN good \cup {copy[b].to}
                 ELSE good
  BY DEF Verify
<1>2. copy[b].to \in Paths
  BY <1>1 DEF IInv, CopyInv, CopyTyped
<1>3. \A p \in good' : p \in Paths /\ Verified(file[p])
  BY <1>1, <1>2 DEF IInv, CopyInv, GoodFiles
<1> QED
  BY <1>1, <1>3, RestKeeps

LEMMA CopyFailsKeeps ==
  ASSUME IInv, NEW b \in Copiers, CopyFails(b)
  PROVE  IInv'
  BY RestKeeps DEF CopyFails, IInv, CopyInv, GoodFiles

LEMMA Inductive == IInv /\ [Next]_vars => IInv'
<1> SUFFICES ASSUME IInv, [Next]_vars PROVE IInv'
  OBVIOUS
<1>1. CASE UNCHANGED vars
  BY <1>1 DEF vars, callVars, copyVars, IInv, CallsInv, CallsTyped, Numbered,
     CopyInv, CopyTyped, FilesAgree, GoodFiles, Owners, Halves, Source
<1>2. CASE Commit
  BY <1>2, CommitKeeps
<1>3. ASSUME NEW b \in Copiers, NEW from \in Paths \cup {Database},
             NEW to \in Destinations, Begin(b, from, to)
      PROVE  IInv'
  <2>1. to \in Paths
    BY DEF Destinations, Free
  <2> QED
    BY <1>3, <2>1, BeginKeeps
<1>4. ASSUME NEW b \in Copiers, Copying(b)
      PROVE  IInv'
  BY <1>4, CreateKeeps, CopyBeginsKeeps, CopyEndsKeeps, VerifyKeeps,
     CopyFailsKeeps DEF Copying
<1> QED
  BY <1>1, <1>2, <1>3, <1>4 DEF Next, Done

LEMMA Invariance == Spec => []IInv
  BY Initially, Inductive, PTL DEF Spec

(* Stored summaries agree with their events, for any number of runs that   *)
(* overlap, fail and are killed (summarize.py, auto.py).                   *)
THEOREM Recorded == Spec => []SummaryMatchesEvent
<1>1. IInv => SummaryMatchesEvent
  BY DEF IInv, CallsInv, SummaryMatchesEvent
<1> QED
  BY Invariance, <1>1, PTL

(* Whatever can be verified as a backup or a restored root is a state the  *)
(* database committed, for any number of copiers, paths and commits while  *)
(* they copy (doctor.py).                                                  *)
THEOREM Committed == Spec => []BackupsAgree
<1>1. IInv => BackupsAgree
  BY DEF IInv, CopyInv, FilesAgree, GoodFiles, BackupsAgree
<1> QED
  BY Invariance, <1>1, PTL

(* No step changes a file that can be verified, nor removes one that was   *)
(* created (doctor.py).                                                    *)
THEOREM Standing == Spec => BackupsStand
<1> DEFINE Stand == \A p \in Paths :
                      /\ Verified(file[p]) => file'[p] = file[p]
                      /\ file[p] = Partial => file'[p] # None
<1>1. ASSUME IInv, [Next]_vars
      PROVE  Stand \/ UNCHANGED vars
  <2>1. CASE UNCHANGED file
    BY <2>1, Files
  <2>2. ASSUME NEW b \in Copiers, Create(b), ~UNCHANGED file
        PROVE  Stand
    <3>1. /\ file[copy[b].to] = None
          /\ file' = [file EXCEPT ![copy[b].to] = Partial]
      BY <2>2 DEF Create
    <3> QED
      BY <1>1, <3>1, Files DEF IInv, CopyInv, CopyTyped
  <2>3. ASSUME NEW b \in Copiers, CopyEnds(b), ~UNCHANGED file
        PROVE  Stand
    <3>1. PICK d : file' = [file EXCEPT ![copy[b].to] = Whole(d)]
      BY <2>3 DEF CopyEnds
    <3>2. file[copy[b].to] = Partial
      BY <1>1, <2>3 DEF CopyEnds, IInv, CopyInv, Owners, Writing
    <3> QED
      BY <1>1, <3>1, <3>2, Files DEF IInv, CopyInv, CopyTyped
  <2>4. UNCHANGED file \/ \E b \in Copiers : Create(b) \/ CopyEnds(b)
    BY <1>1 DEF Next, Done, Commit, Begin, Copying, CopyBegins, Verify,
       CopyFails, vars, copyVars
  <2> QED
    BY <2>1, <2>2, <2>3, <2>4
<1>2. IInv /\ [Next]_vars => [Stand]_vars
  BY <1>1
<1> QED
  BY Invariance, <1>2, PTL DEF BackupsStand, Spec

-----------------------------------------------------------------------------
(* A fold, as a function of the set of positions it goes over: what        *)
(* CandidateModels is computed by, one mention after the other.            *)
LEMMA Minimum ==
  ASSUME NEW S \in SUBSET Nat, S # {}
  PROVE  \E n \in S : \A m \in S : n <= m
<1>1. PICK n \in S : \A m \in S : ~(<<m, n>> \in OpToRel(<, Nat))
  BY NatLessThanWellFounded, WFMin
<1>2. \A m \in S : ~(m < n)
  BY <1>1 DEF OpToRel
<1>3. QED
  BY <1>2

(* A set that holds 0 and, with a number below N, the next one, holds them *)
(* all up to N.                                                            *)
LEMMA Induction ==
  ASSUME NEW N \in Nat, NEW S, 0 \in S, \A k \in 1..N : k - 1 \in S => k \in S
  PROVE  \A k \in 0..N : k \in S
<1> DEFINE Missed == {k \in 0..N : k \notin S}
<1>1. SUFFICES ASSUME Missed # {} PROVE FALSE
  OBVIOUS
<1>2. PICK k \in Missed : \A m \in Missed : k <= m
  <2>1. Missed \in SUBSET Nat
    OBVIOUS
  <2> HIDE DEF Missed
  <2>2. QED
    BY <1>1, <2>1, Minimum
<1>3. k \in 0..N /\ k # 0 /\ k \notin S
  OBVIOUS
<1>4. k \in 1..N /\ k - 1 \in 0..N /\ ~(k <= k - 1)
  BY <1>3
<1>5. k - 1 \in Missed
  BY <1>3, <1>4
<1>6. QED
  BY <1>2, <1>4, <1>5

LEMMA Greatest ==
  ASSUME NEW k \in Nat, NEW s \in SUBSET (1..k), k \in s
  PROVE  Max(s) = k
<1>1. \A y \in s : k >= y
  OBVIOUS
<1>2. ASSUME NEW x \in s, \A y \in s : x >= y PROVE x = k
  BY <1>1, <1>2
<1>3. QED
  BY <1>1, <1>2 DEF Max

LEMMA MaxIn ==
  ASSUME NEW N \in Nat, NEW s \in SUBSET (1..N), s # {}
  PROVE  Max(s) \in s
<1> DEFINE S == {k \in Nat : \A t \in SUBSET (1..k) : t # {} => Max(t) \in t}
<1>1. 0 \in S
  <2>1. \A t \in SUBSET (1..0) : t = {}
    OBVIOUS
  <2>2. QED
    BY <2>1
<1>2. ASSUME NEW k \in 1..N, k - 1 \in S PROVE k \in S
  <2>1. SUFFICES ASSUME NEW t \in SUBSET (1..k), t # {} PROVE Max(t) \in t
    OBVIOUS
  <2>2. CASE k \in t
    BY <2>2, Greatest
  <2>3. CASE k \notin t
    <3>1. t \in SUBSET (1..(k - 1))
      BY <2>3
    <3>2. QED
      BY <3>1, <2>1, <1>2
  <2>4. QED
    BY <2>2, <2>3
<1>3. \A k \in 0..N : k \in S
  <2> HIDE DEF S
  <2>1. QED
    BY <1>1, <1>2, Induction
<1>4. N \in S
  BY <1>3
<1>5. QED
  BY <1>4

(* What a fold of `step' computes, as a function of the set of positions   *)
(* it goes over.                                                           *)
IsFold(g, N, St, base, step) ==
  /\ g \in [SUBSET (1..N) -> St]
  /\ \A s \in SUBSET (1..N) :
       g[s] = IF s = {} THEN base ELSE step[Max(s)][g[s \ {Max(s)}]]

LEMMA FoldExists ==
  ASSUME NEW N \in Nat, NEW St, NEW base \in St, NEW step \in [1..N -> [St -> St]]
  PROVE  \E g : IsFold(g, N, St, base, step)
<1> DEFINE S == {k \in Nat : \E g : IsFold(g, k, St, base, step)}
<1>1. 0 \in S
  <2>1. IsFold([s \in SUBSET (1..0) |-> base], 0, St, base, step)
    BY DEF IsFold
  <2>2. QED
    BY <2>1
<1>2. ASSUME NEW k \in 1..N, k - 1 \in S PROVE k \in S
  <2>1. PICK g : IsFold(g, k - 1, St, base, step)
    BY <1>2
  <2> DEFINE h == [s \in SUBSET (1..k) |->
                     IF k \in s THEN step[k][g[s \ {k}]] ELSE g[s]]
  <2>2. ASSUME NEW s \in SUBSET (1..k)
        PROVE  /\ k \notin s => s \in SUBSET (1..(k - 1))
               /\ s \ {k} \in SUBSET (1..(k - 1))
    OBVIOUS
  <2>3. h \in [SUBSET (1..k) -> St]
    <3>1. ASSUME NEW s \in SUBSET (1..k)
          PROVE  (IF k \in s THEN step[k][g[s \ {k}]] ELSE g[s]) \in St
      <4>1. g[s \ {k}] \in St
        BY <2>1, <2>2 DEF IsFold
      <4>2. k \notin s => g[s] \in St
        BY <2>1, <2>2 DEF IsFold
      <4>3. step[k] \in [St -> St]
        OBVIOUS
      <4>4. QED
        BY <4>1, <4>2, <4>3
    <3>2. QED
      BY <3>1
  <2>4. ASSUME NEW s \in SUBSET (1..k)
        PROVE  h[s] = IF s = {} THEN base ELSE step[Max(s)][h[s \ {Max(s)}]]
    <3>1. CASE k \in s
      <4>1. Max(s) = k
        BY <3>1, Greatest
      <4>2. h[s \ {k}] = g[s \ {k}]
        BY <2>2
      <4>3. h[s] = step[k][g[s \ {k}]]
        BY <3>1
      <4>4. QED
        BY <3>1, <4>1, <4>2, <4>3
    <3>2. CASE k \notin s
      <4>1. h[s] = g[s] /\ s \in SUBSET (1..(k - 1))
        BY <3>2, <2>2
      <4>2. h[s \ {Max(s)}] = g[s \ {Max(s)}]
        BY <3>2
      <4>3. g[s] = IF s = {} THEN base ELSE step[Max(s)][g[s \ {Max(s)}]]
        BY <4>1, <2>1 DEF IsFold
      <4>4. QED
        BY <4>1, <4>2, <4>3
    <3>3. QED
      BY <3>1, <3>2
  <2>5. IsFold(h, k, St, base, step)
    <3> HIDE DEF h
    <3>1. QED
      BY <2>3, <2>4 DEF IsFold
  <2>6. QED
    BY <2>5
<1>3. \A k \in 0..N : k \in S
  <2> HIDE DEF S
  <2>1. QED
    BY <1>1, <1>2, Induction
<1>4. N \in S
  BY <1>3
<1>5. QED
  BY <1>4

(* What a fold goes over first is all but the last of the positions.       *)
LEMMA Initial ==
  ASSUME NEW N \in Nat, NEW n \in 1..N
  PROVE  /\ 1..n \in SUBSET (1..N) /\ 1..n # {}
         /\ Max(1..n) = n
         /\ (1..n) \ {n} = 1..(n - 1)
<1>1. n \in 1..n /\ 1..n \in SUBSET (1..N) /\ (1..n) \ {n} = 1..(n - 1)
  OBVIOUS
<1>2. Max(1..n) = n
  BY <1>1, Greatest
<1>3. QED
  BY <1>1, <1>2

(* The candidates after one mention more.                                  *)
Noting(seen, m) == IF m \in ToSet(seen) THEN seen ELSE Append(seen, m)

Noted(models, h) ==
  /\ h[0] = <<>>
  /\ \A n \in 1..Len(models) : h[n] = Noting(h[n - 1], models[n])

LEMMA Candidates ==
  ASSUME NEW Names, NEW models \in Seq(Names)
  PROVE  \E h : Noted(models, h) /\ CandidateModels(models) = h[Len(models)]
<1> DEFINE N == Len(models)
           step == [n \in 1..N |-> [v \in Seq(Names) |-> Noting(v, models[n])]]
           Fold(H) == H = [s \in SUBSET (1..N) |->
                             IF s = {} THEN <<>>
                             ELSE Noting(H[s \ {Max(s)}], models[Max(s)])]
           f == CHOOSE H : Fold(H)
<1>1. N \in Nat /\ DOMAIN models = 1..N /\ \A n \in 1..N : models[n] \in Names
  OBVIOUS
<1>2. <<>> \in Seq(Names)
  OBVIOUS
<1>3. step \in [1..N -> [Seq(Names) -> Seq(Names)]]
  <2>1. ASSUME NEW n \in 1..N, NEW v \in Seq(Names) PROVE Noting(v, models[n]) \in Seq(Names)
    BY <1>1 DEF Noting
  <2>2. QED
    BY <2>1
<1>4. PICK g : IsFold(g, N, Seq(Names), <<>>, step)
  <2> HIDE DEF N, step
  <2>1. QED
    BY <1>1, <1>2, <1>3, FoldExists
<1>5. Fold(g)
  <2>1. g = [s \in SUBSET (1..N) |-> g[s]]
    BY <1>4 DEF IsFold
  <2>2. ASSUME NEW s \in SUBSET (1..N)
        PROVE  g[s] = IF s = {} THEN <<>>
                      ELSE Noting(g[s \ {Max(s)}], models[Max(s)])
    <3>1. s # {} => Max(s) \in 1..N
      BY <1>1, MaxIn
    <3>2. g[s \ {Max(s)}] \in Seq(Names)
      BY <1>4 DEF IsFold
    <3>3. g[s] = IF s = {} THEN <<>> ELSE step[Max(s)][g[s \ {Max(s)}]]
      BY <1>4 DEF IsFold
    <3>4. QED
      BY <3>1, <3>2, <3>3
  <2>3. QED
    BY <2>1, <2>2
<1>6. Fold(f)
  <2> HIDE DEF Fold
  <2>1. QED
    BY <1>5
<1>7. CandidateModels(models) = f[1..N]
  BY <1>1, Zenon DEF CandidateModels, Noting, FoldLeft, MapThenFoldSet
<1> DEFINE h == [n \in 0..N |-> f[1..n]]
<1>8. h[0] = <<>>
  <2>1. 1..0 = {} /\ 1..0 \in SUBSET (1..N)
    BY <1>1
  <2> HIDE DEF f
  <2>2. QED
    BY <1>6, <2>1
<1>9. ASSUME NEW n \in 1..N
      PROVE  h[n] = Noting(h[n - 1], models[n])
  <2>1. /\ 1..n \in SUBSET (1..N) /\ 1..n # {}
        /\ Max(1..n) = n /\ (1..n) \ {n} = 1..(n - 1)
    BY <1>1, Initial
  <2>2. f[1..n] = Noting(f[(1..n) \ {Max(1..n)}], models[Max(1..n)])
    <3> HIDE DEF f
    <3>1. QED
      BY <1>6, <2>1
  <2>3. n - 1 \in 0..N /\ n \in 0..N
    BY <1>1
  <2>4. h[n] = f[1..n] /\ h[n - 1] = f[1..(n - 1)]
    <3> HIDE DEF f
    <3>1. QED
      BY <2>3
  <2>5. QED
    BY <2>1, <2>2, <2>4
<1>10. h[N] = f[1..N]
  BY <1>1
<1>11. Noted(models, h) /\ CandidateModels(models) = h[Len(models)]
  <2> HIDE DEF f, h
  <2>1. QED
    BY <1>7, <1>8, <1>9, <1>10 DEF Noted
<1>12. QED
  BY <1>11

(* Every configured model is a candidate, and no other, and each only once.*)
LEMMA OnceEach ==
  ASSUME NEW Names, NEW models \in Seq(Names)
  PROVE  /\ CandidateModels(models) \in Seq(Names)
         /\ ToSet(CandidateModels(models)) = ToSet(models)
         /\ \A i, j \in DOMAIN CandidateModels(models) :
              CandidateModels(models)[i] = CandidateModels(models)[j] => i = j
<1>1. PICK h : Noted(models, h) /\ CandidateModels(models) = h[Len(models)]
  BY Candidates
<1> DEFINE Each(k) ==
             /\ h[k] \in Seq(Names)
             /\ ToSet(h[k]) = {models[i] : i \in 1..k}
             /\ \A i, j \in DOMAIN h[k] : h[k][i] = h[k][j] => i = j
           S == {k \in 0..Len(models) : Each(k)}
<1>2. Len(models) \in Nat /\ DOMAIN models = 1..Len(models)
  OBVIOUS
<1>3. 0 \in S
  <2>1. h[0] = <<>>
    BY <1>1 DEF Noted
  <2>2. <<>> \in Seq(Names) /\ DOMAIN <<>> = {} /\ 1..0 = {}
    OBVIOUS
  <2>3. Each(0)
    BY <2>1, <2>2 DEF ToSet
  <2>4. QED
    BY <1>2, <2>3
<1>4. ASSUME NEW k \in 1..Len(models), k - 1 \in S PROVE k \in S
  <2> DEFINE u == h[k - 1]
             m == models[k]
  <2>1. h[k] = Noting(u, m) /\ m \in Names
    BY <1>1 DEF Noted
  <2>2. /\ u \in Seq(Names) /\ ToSet(u) = {models[i] : i \in 1..(k - 1)}
        /\ \A i, j \in DOMAIN u : u[i] = u[j] => i = j
    BY <1>4
  <2>3. {models[i] : i \in 1..k} = {models[i] : i \in 1..(k - 1)} \cup {m}
    <3>1. 1..k = 1..(k - 1) \cup {k}
      BY <1>2
    <3>2. QED
      BY <3>1
  <2> HIDE DEF u, m
  <2>4. CASE m \in ToSet(u)
    <3>1. h[k] = u
      BY <2>1, <2>4 DEF Noting
    <3>2. Each(k)
      BY <2>2, <2>3, <2>4, <3>1
    <3>3. QED
      BY <1>2, <3>2
  <2>5. CASE m \notin ToSet(u)
    <3> DEFINE v == Append(u, m)
    <3>1. /\ v \in Seq(Names) /\ Len(u) \in Nat /\ DOMAIN u = 1..Len(u)
          /\ DOMAIN v = 1..(Len(u) + 1) /\ v[Len(u) + 1] = m
          /\ \A i \in 1..Len(u) : v[i] = u[i]
      BY <2>1, <2>2
    <3>2. h[k] = v
      BY <2>1, <2>5 DEF Noting
    <3> HIDE DEF v
    <3>3. \A i \in 1..Len(u) : v[i] # m
      BY <2>5, <3>1 DEF ToSet
    <3>4. 1..(Len(u) + 1) = 1..Len(u) \cup {Len(u) + 1}
      BY <3>1
    <3>5. ToSet(v) = ToSet(u) \cup {m}
      BY <3>1, <3>4 DEF ToSet
    <3>6. ASSUME NEW i \in DOMAIN v, NEW j \in DOMAIN v, v[i] = v[j] PROVE i = j
      BY <2>2, <3>1, <3>3, <3>4, <3>6
    <3>7. Each(k)
      BY <2>2, <2>3, <3>1, <3>2, <3>5, <3>6
    <3>8. QED
      BY <1>2, <3>7
  <2>6. QED
    BY <2>4, <2>5
<1>5. \A k \in 0..Len(models) : k \in S
  <2> HIDE DEF S
  <2>1. QED
    BY <1>2, <1>3, <1>4, Induction
<1>6. Each(Len(models))
  <2>1. Len(models) \in S
    <3> HIDE DEF S
    <3>1. Len(models) \in 0..Len(models)
      BY <1>2
    <3>2. QED
      BY <1>5, <3>1
  <2>2. QED
    BY <2>1
<1>7. {models[i] : i \in 1..Len(models)} = ToSet(models)
  BY <1>2 DEF ToSet
<1>8. QED
  BY <1>1, <1>6, <1>7

-----------------------------------------------------------------------------
(* What a model got that had its turn in a chat that goes on.              *)
HadItsTurn(run, m) ==
  /\ Exhausted(run, m)
  /\ \A i, j \in Requests(run, m) : i < j => run.log[i].reply = "unreachable"

UsableModels == {r.models : r \in {r \in Revisions : r.usable}}

(* A chat between two requests: who is left to ask has not been asked, but *)
(* for the first of them, who was out of reach `tries' times; whoever is   *)
(* not left had a turn; and no reply so far ended the chat.                *)
Asking(run) ==
  LET Names == ToSet(run.models)
      first == Head(run.left)
  IN /\ run.left \in Seq(Names) /\ run.left # <<>>
     /\ \A i, j \in DOMAIN run.left : run.left[i] = run.left[j] => i = j
     /\ run.log \in Seq([model : Names, reply : Replies])
     /\ run.tries \in 0..Retries
     /\ \A i \in DOMAIN run.log : ~Conclusive(run, run.log[i].reply)
     /\ Cardinality(Requests(run, first)) = run.tries
     /\ \A i \in Requests(run, first) : run.log[i].reply = "unreachable"
     /\ \A m \in ToSet(run.left) \ {first} : Requests(run, m) = {}
     /\ \A m \in Names \ ToSet(run.left) : HadItsTurn(run, m)

Chats(run) ==
  /\ ChatEndsRight(run)
  /\ run.at \in {"ask", "failed"} => run.models \in UsableModels
  /\ run.at = "ask" => Asking(run)

ChatsInv == \A c \in Callers : Chats(call[c])

LEMMA UsableNames ==
  ASSUME NEW models \in UsableModels
  PROVE  models \in Seq(ToSet(models)) /\ models # <<>>
BY CallAssumptions DEF UsableModels

LEMMA RequestsFinite ==
  ASSUME NEW S, NEW run, run.log \in Seq(S), NEW m
  PROVE  IsFiniteSet(Requests(run, m)) /\ Cardinality(Requests(run, m)) \in Nat
<1>1. Requests(run, m) \subseteq 1..Len(run.log) /\ Len(run.log) \in Nat
  BY DEF Requests
<1>2. IsFiniteSet(1..Len(run.log))
  BY <1>1, FS_Interval
<1>3. IsFiniteSet(Requests(run, m))
  BY <1>1, <1>2, FS_Subset
<1>4. QED
  BY <1>3, FS_CardinalityType

(* A run with nothing in its log has asked nobody.                         *)
LEMMA SilentEndsRight ==
  ASSUME NEW run, run.log = <<>>, run.at # "failed"
  PROVE  ChatEndsRight(run)
<1>1. \A m : Requests(run, m) = {}
  BY DEF Requests
<1>2. Cardinality({}) = 0 /\ Retries \in Nat
  BY FS_EmptySet, CallAssumptions
<1>3. 1..(Len(run.log) - 1) = {}
  OBVIOUS
<1>4. \A m : Cardinality(Requests(run, m)) =< Retries + 1
  <2>1. 0 =< Retries + 1
    BY <1>2
  <2>2. QED
    BY <1>1, <1>2, <2>1
<1>5. \A m : \A i, j \in Requests(run, m) : i < j => run.log[i].reply = "unreachable"
  BY <1>1
<1>6. \A i \in 1..(Len(run.log) - 1) : ~Conclusive(run, run.log[i].reply)
  BY <1>3
<1>7. QED
  BY <1>4, <1>5, <1>6 DEF ChatEndsRight

LEMMA SilentChats ==
  ASSUME NEW run, run.log = <<>>, run.at \notin {"ask", "failed"}
  PROVE  Chats(run)
BY SilentEndsRight DEF Chats

LEMMA OffChats == Chats(Off)
<1>1. Off.log = <<>> /\ Off.at = "off"
  BY DEF Off
<1>2. QED
  BY <1>1, SilentChats

LEMMA FailingChats ==
  ASSUME NEW c, NEW run
  PROVE  Chats(Failing(c, run))
<1> DEFINE reported == At(run, "report", <<>>, 0, <<>>)
<1>1. reported.log = <<>> /\ reported.at = "report"
  BY DEF At
<1>2. Chats(reported)
  BY <1>1, SilentChats
<1>3. QED
  BY <1>2, OffChats DEF Failing

(* A chat begins with every configured model to be asked.                  *)
LEMMA ChattingChats ==
  ASSUME NEW kind, NEW mode, NEW models \in UsableModels, NEW n
  PROVE  Chats(Chatting(kind, mode, models, n))
<1> DEFINE run == Chatting(kind, mode, models, n)
           cands == CandidateModels(models)
<1>1. /\ run.at = "ask" /\ run.models = models /\ run.left = cands
      /\ run.tries = 0 /\ run.log = <<>>
  BY DEF Chatting
<1>2. models \in Seq(ToSet(models)) /\ models # <<>>
  BY UsableNames
<1>3. /\ cands \in Seq(ToSet(models)) /\ ToSet(cands) = ToSet(models)
      /\ \A i, j \in DOMAIN cands : cands[i] = cands[j] => i = j
  BY <1>2, OnceEach
<1> HIDE DEF run, cands
<1>4. cands # <<>>
  <2>1. models[1] \in ToSet(models)
    BY <1>2, EmptySeq DEF ToSet
  <2>2. ToSet(<<>>) = {}
    BY DEF ToSet
  <2>3. QED
    BY <1>3, <2>1, <2>2
<1>5. \A m : Requests(run, m) = {}
  BY <1>1 DEF Requests
<1>6. Cardinality({}) = 0 /\ 0 \in 0..Retries
  BY FS_EmptySet, CallAssumptions
<1>7. DOMAIN run.log = {} /\ run.log \in Seq([model : ToSet(models), reply : Replies])
  BY <1>1
<1>8. Asking(run)
  BY <1>1, <1>3, <1>4, <1>5, <1>6, <1>7 DEF Asking
<1>9. ChatEndsRight(run)
  BY <1>1, SilentEndsRight
<1>10. QED
  BY <1>1, <1>8, <1>9 DEF Chats, run

-----------------------------------------------------------------------------
(* What one more reply of the first model that is left adds to a chat.     *)
Replied(run, next, reply) ==
  /\ Head(run.left) \in ToSet(run.left) /\ Head(run.left) \in ToSet(run.models)
  /\ next.log \in Seq([model : ToSet(run.models), reply : Replies])
  /\ Len(run.log) \in Nat /\ DOMAIN run.log = 1..Len(run.log)
  /\ Len(next.log) = Len(run.log) + 1
  /\ DOMAIN next.log = 1..(Len(run.log) + 1)
  /\ next.log[Len(run.log) + 1].reply = reply
  /\ \A i \in 1..Len(run.log) : ~Conclusive(next, next.log[i].reply)
  /\ Requests(next, Head(run.left)) =
       Requests(run, Head(run.left)) \cup {Len(run.log) + 1}
  /\ Cardinality(Requests(next, Head(run.left))) = run.tries + 1
  /\ \A m : \A i \in Requests(next, m) : i \in 1..(Len(run.log) + 1)
  /\ \A i \in Requests(next, Head(run.left)) :
       i # Len(run.log) + 1 => next.log[i].reply = "unreachable"
  /\ \A m \in ToSet(run.left) \ {Head(run.left)} : Requests(next, m) = {}
  /\ \A m \in ToSet(run.models) \ ToSet(run.left) : HadItsTurn(next, m)

LEMMA OneReplyMore ==
  ASSUME NEW run, run.models \in UsableModels, Asking(run),
         NEW reply \in Replies, NEW next,
         next.models = run.models, next.mode = run.mode,
         next.log = Append(run.log, [model |-> Head(run.left), reply |-> reply])
  PROVE  Replied(run, next, reply)
<1> DEFINE first == Head(run.left)
           l == Len(run.log)
           Names == ToSet(run.models)
           e == [model |-> first, reply |-> reply]
<1>1. /\ run.left \in Seq(Names) /\ run.left # <<>>
      /\ run.log \in Seq([model : Names, reply : Replies])
  BY DEF Asking
<1>2. first \in ToSet(run.left) /\ first \in Names
  <2>1. Len(run.left) \in Nat /\ Len(run.left) > 0 /\ first = run.left[1]
    BY <1>1, EmptySeq
  <2>2. 1 \in DOMAIN run.left
    BY <1>1, <2>1
  <2>3. QED
    BY <1>1, <2>1, <2>2 DEF ToSet
<1>3. /\ l \in Nat /\ DOMAIN run.log = 1..l
      /\ e \in [model : Names, reply : Replies]
  BY <1>1, <1>2
<1>4. /\ next.log \in Seq([model : Names, reply : Replies])
      /\ Len(next.log) = l + 1 /\ DOMAIN next.log = 1..(l + 1)
      /\ next.log[l + 1] = e /\ \A i \in 1..l : next.log[i] = run.log[i]
  BY <1>1, <1>3, AppendProperties
<1>5. e.model = first /\ e.reply = reply
  OBVIOUS
<1> HIDE DEF l, e, first, Names
<1>6. \A i \in 1..(l + 1) : i \in 1..l \/ i = l + 1
  BY <1>3
<1>7. \A i \in 1..l : i \in 1..(l + 1) /\ i # l + 1
  BY <1>3
<1>8. Requests(next, first) = Requests(run, first) \cup {l + 1} /\ l + 1 \notin Requests(run, first)
  BY <1>3, <1>4, <1>5, <1>6, <1>7 DEF Requests
<1>9. \A m : m # first => Requests(next, m) = Requests(run, m)
  BY <1>3, <1>4, <1>5, <1>6, <1>7 DEF Requests
<1>10. Cardinality(Requests(next, first)) = run.tries + 1
  <2>1. IsFiniteSet(Requests(run, first)) /\ Cardinality(Requests(run, first)) = run.tries
    BY <1>1, RequestsFinite DEF Asking, first
  <2>2. QED
    BY <1>8, <2>1, FS_AddElement
<1>11. \A m : \A i \in Requests(run, m) : i \in 1..l /\ next.log[i] = run.log[i]
  BY <1>3, <1>4 DEF Requests
<1>12. \A i \in Requests(next, first) : i # l + 1 => next.log[i].reply = "unreachable"
  BY <1>8, <1>11 DEF Asking, first
<1>13. ASSUME NEW m \in Names \ ToSet(run.left) PROVE HadItsTurn(next, m)
  <2>1. HadItsTurn(run, m) /\ m # first
    BY <1>2, <1>13 DEF Asking, Names
  <2>2. Requests(next, m) = Requests(run, m)
    BY <1>9, <2>1
  <2>3. \A i \in Requests(run, m) : next.log[i] = run.log[i]
    BY <1>11
  <2>4. Exhausted(next, m)
    BY <2>1, <2>2, <2>3 DEF HadItsTurn, Exhausted
  <2>5. QED
    BY <2>1, <2>2, <2>3, <2>4 DEF HadItsTurn
<1>14. \A m \in ToSet(run.left) \ {first} : Requests(next, m) = {}
  BY <1>9 DEF Asking, first
<1>15. \A i \in 1..l : ~Conclusive(next, next.log[i].reply)
  BY <1>3, <1>4 DEF Asking, Conclusive
<1>16. \A m : \A i \in Requests(next, m) : i \in 1..(l + 1)
  BY <1>4 DEF Requests
<1>17. QED
  BY <1>2, <1>3, <1>4, <1>5, <1>8, <1>10, <1>12, <1>13, <1>14, <1>15, <1>16
     DEF first, l, Names, Replied

(* A turn that ends: out of reach as often as is allowed, or answered.     *)
LEMMA TurnEnds ==
  ASSUME NEW next, NEW m, NEW last, Cardinality(Requests(next, m)) =< Retries + 1,
         Cardinality(Requests(next, m)) \in Nat,
         last \in Requests(next, m),
         \A i \in Requests(next, m) :
           i \in Nat /\ i <= last /\ (i # last => next.log[i].reply = "unreachable"),
         next.log[last].reply = "unreachable" =>
           Cardinality(Requests(next, m)) = Retries + 1
  PROVE  HadItsTurn(next, m)
<1>1. Exhausted(next, m)
  BY DEF Exhausted
<1>2. \A i, j \in Requests(next, m) : i < j => i # last
  OBVIOUS
<1>3. QED
  BY <1>1, <1>2 DEF HadItsTurn

(* However a chat goes on after a reply, its requests are as they should.  *)
LEMMA ReplyEndsRight ==
  ASSUME NEW run, run.models \in UsableModels, Asking(run),
         NEW reply \in Replies, NEW next,
         next.models = run.models, next.mode = run.mode,
         next.log = Append(run.log, [model |-> Head(run.left), reply |-> reply]),
         next.at = "failed" =>
           \/ reply = "refused"
           \/ \A m \in ToSet(run.models) : Exhausted(next, m)
  PROVE  ChatEndsRight(next)
<1> DEFINE first == Head(run.left)
           l == Len(run.log)
<1>1. /\ Len(next.log) = l + 1 /\ l \in Nat
      /\ next.log[l + 1].reply = reply
      /\ \A i \in 1..l : ~Conclusive(next, next.log[i].reply)
      /\ Cardinality(Requests(next, first)) = run.tries + 1
      /\ \A m : \A i \in Requests(next, m) : i \in 1..(l + 1)
      /\ \A i \in Requests(next, first) :
           i # l + 1 => next.log[i].reply = "unreachable"
      /\ \A m \in ToSet(run.left) \ {first} : Requests(next, m) = {}
      /\ \A m \in ToSet(run.models) \ ToSet(run.left) : HadItsTurn(next, m)
  <2>1. Replied(run, next, reply)
    BY OneReplyMore
  <2>2. QED
    BY <2>1 DEF Replied
<1>3. Retries \in Nat /\ run.tries \in 0..Retries
  BY CallAssumptions DEF Asking
<1> HIDE DEF first, l
<1>4. ASSUME NEW m \in ToSet(run.models)
      PROVE  /\ Cardinality(Requests(next, m)) =< Retries + 1
             /\ \A i, j \in Requests(next, m) :
                  i < j => next.log[i].reply = "unreachable"
  <2>1. CASE m = first
    <3>1. \A i, j \in Requests(next, first) : i < j => i # l + 1
      BY <1>1
    <3>2. run.tries + 1 =< Retries + 1
      BY <1>3
    <3>3. QED
      BY <1>1, <2>1, <3>1, <3>2
  <2>2. CASE m \in ToSet(run.left) \ {first}
    <3>1. Requests(next, m) = {} /\ Cardinality({}) = 0
      BY <1>1, <2>2, FS_EmptySet
    <3>2. QED
      BY <1>3, <3>1
  <2>3. CASE m \notin ToSet(run.left)
    <3>1. HadItsTurn(next, m)
      BY <1>1, <2>3
    <3>2. Retries + 1 =< Retries + 1
      BY <1>3
    <3>3. Cardinality(Requests(next, m)) =< Retries + 1
      BY <3>1, <3>2 DEF HadItsTurn, Exhausted
    <3>4. QED
      BY <3>1, <3>3 DEF HadItsTurn
  <2>4. QED
    BY <2>1, <2>2, <2>3
<1>5. \A i \in 1..(Len(next.log) - 1) : ~Conclusive(next, next.log[i].reply)
  <2>1. Len(next.log) - 1 = l
    BY <1>1
  <2>2. QED
    BY <1>1, <2>1
<1>6. next.at = "failed" => \/ Reply(next) = "refused"
                            \/ \A m \in ToSet(next.models) : Exhausted(next, m)
  BY <1>1 DEF Reply, Last
<1>7. QED
  BY <1>4, <1>5, <1>6 DEF ChatEndsRight

(* What the client tells the replies apart by.                             *)
LEMMA ReplyFacts ==
  ASSUME NEW run, run.models \in UsableModels, Asking(run), NEW reply \in Replies
  PROVE  LET asked == Asked(run, reply) IN
         /\ asked = At(run, run.at, run.left, run.tries,
                       Append(run.log, [model |-> Head(run.left), reply |-> reply]))
         /\ asked.models = run.models /\ asked.mode = run.mode
         /\ asked.left = run.left /\ asked.tries = run.tries
         /\ asked.log = Append(run.log, [model |-> Head(run.left), reply |-> reply])
         /\ Reply(asked) = reply
<1> DEFINE asked == Asked(run, reply)
           e == [model |-> Head(run.left), reply |-> reply]
<1>1. /\ asked.models = run.models /\ asked.mode = run.mode
      /\ asked.left = run.left /\ asked.tries = run.tries
      /\ asked.log = Append(run.log, e)
  BY DEF Asked, At
<1>2. asked.log[Len(asked.log)].reply = reply
  <2>1. Replied(run, asked, reply)
    <3> HIDE DEF asked
    <3>1. QED
      BY <1>1, OneReplyMore
  <2>2. QED
    BY <2>1 DEF Replied
<1>3. Reply(asked) = reply
  BY <1>2 DEF Reply, Last
<1>4. QED
  BY <1>1, <1>3 DEF Asked

(* The first model that is left is out of reach and is asked again.        *)
LEMMA AskAgainChats ==
  ASSUME NEW run, run.models \in UsableModels, Asking(run), NEW reply \in Replies,
         AskedAgain(Asked(run, reply))
  PROVE  LET asked == Asked(run, reply) IN
         Chats(At(asked, "ask", asked.left, asked.tries + 1, asked.log))
<1> DEFINE asked == Asked(run, reply)
           next == At(asked, "ask", asked.left, asked.tries + 1, asked.log)
           first == Head(run.left)
           l == Len(run.log)
<1>1. /\ asked.models = run.models /\ asked.mode = run.mode
      /\ asked.left = run.left /\ asked.tries = run.tries
      /\ asked.log = Append(run.log, [model |-> first, reply |-> reply])
      /\ Reply(asked) = reply
  BY ReplyFacts
<1>2. reply = "unreachable" /\ run.tries < Retries
  BY <1>1 DEF AskedAgain
<1>3. /\ next.at = "ask" /\ next.left = run.left /\ next.tries = run.tries + 1
      /\ next.models = run.models /\ next.mode = run.mode
      /\ next.log = Append(run.log, [model |-> first, reply |-> reply])
  <2> HIDE DEF asked
  <2>1. QED
    BY <1>1 DEF At
<1> HIDE DEF next, asked
<1>4. Replied(run, next, reply)
  BY <1>3, OneReplyMore
<1>5. \A i \in Requests(next, first) : next.log[i].reply = "unreachable"
  BY <1>2, <1>4 DEF Replied
<1>6. \A i \in DOMAIN next.log : ~Conclusive(next, next.log[i].reply)
  <2>1. ~Conclusive(next, reply)
    BY <1>2 DEF Conclusive
  <2>2. \A i \in 1..(l + 1) : i \in 1..l \/ i = l + 1
    BY <1>4 DEF Replied
  <2>3. QED
    BY <1>4, <2>1, <2>2 DEF Replied
<1>7. run.tries + 1 \in 0..Retries
  BY <1>2, CallAssumptions DEF Asking
<1>8. Asking(next)
  BY <1>3, <1>4, <1>5, <1>6, <1>7 DEF Asking, Replied
<1>9. ChatEndsRight(next)
  BY <1>3, ReplyEndsRight
<1>10. QED
  BY <1>3, <1>8, <1>9 DEF Chats, next, asked

(* The turn of a model ends with a reply that is neither the chat's end    *)
(* nor followed by another request to it.                                  *)
LEMMA FirstHadItsTurn ==
  ASSUME NEW run, run.models \in UsableModels, Asking(run), NEW reply \in Replies,
         Fruitless(Asked(run, reply)),
         NEW next, Replied(run, next, reply), next.mode = run.mode
  PROVE  HadItsTurn(next, Head(run.left)) /\ ~Conclusive(next, reply)
<1> DEFINE first == Head(run.left)
           last == Len(run.log) + 1
           asked == Asked(run, reply)
<1>1. asked.mode = run.mode /\ asked.tries = run.tries /\ Reply(asked) = reply
  BY ReplyFacts
<1>2. ~Conclusive(next, reply)
  BY <1>1 DEF Fruitless, Accepted, Refused, Conclusive
<1>3. run.tries \in 0..Retries /\ Retries \in Nat
  BY CallAssumptions DEF Asking
<1>4. reply = "unreachable" => run.tries = Retries
  <2>1. reply = "unreachable" => ~(run.tries < Retries)
    BY <1>1 DEF Fruitless, AskedAgain
  <2>2. QED
    BY <1>3, <2>1
<1> HIDE DEF asked
<1>5. /\ last \in Requests(next, first) /\ next.log[last].reply = reply
      /\ Cardinality(Requests(next, first)) = run.tries + 1
      /\ \A i \in Requests(next, first) : i \in 1..last
      /\ \A i \in Requests(next, first) :
           i # last => next.log[i].reply = "unreachable"
  BY DEF Replied
<1>6. last \in Nat
  BY DEF Replied
<1> HIDE DEF first, last
<1>7. /\ run.tries + 1 =< Retries + 1 /\ run.tries + 1 \in Nat
      /\ reply = "unreachable" => run.tries + 1 = Retries + 1
  BY <1>3, <1>4
<1>8. \A i \in 1..last : i \in Nat /\ i <= last
  BY <1>6
<1>9. HadItsTurn(next, first)
  BY <1>5, <1>7, <1>8, TurnEnds
<1>10. QED
  BY <1>2, <1>9 DEF first

(* The next candidate is asked, who was not asked before.                  *)
LEMMA AskNextChats ==
  ASSUME NEW run, run.models \in UsableModels, Asking(run), NEW reply \in Replies,
         Fruitless(Asked(run, reply)), Len(run.left) > 1
  PROVE  LET asked == Asked(run, reply) IN
         Chats(At(asked, "ask", Tail(asked.left), 0, asked.log))
<1> DEFINE asked == Asked(run, reply)
           next == At(asked, "ask", Tail(asked.left), 0, asked.log)
           first == Head(run.left)
           rest == Tail(run.left)
           Names == ToSet(run.models)
<1>1. /\ asked.models = run.models /\ asked.mode = run.mode
      /\ asked.left = run.left
      /\ asked.log = Append(run.log, [model |-> first, reply |-> reply])
  BY ReplyFacts
<1>2. /\ next.at = "ask" /\ next.left = rest /\ next.tries = 0
      /\ next.models = run.models /\ next.mode = run.mode
      /\ next.log = Append(run.log, [model |-> first, reply |-> reply])
  <2> HIDE DEF asked
  <2>1. QED
    BY <1>1 DEF At
<1> HIDE DEF next, asked
<1>3. Replied(run, next, reply)
  BY <1>2, OneReplyMore
<1>4. HadItsTurn(next, first) /\ ~Conclusive(next, reply)
  BY <1>2, <1>3, FirstHadItsTurn
<1>5. /\ run.left \in Seq(Names) /\ run.left # <<>>
      /\ \A i, j \in DOMAIN run.left : run.left[i] = run.left[j] => i = j
  BY DEF Asking
<1> HIDE DEF Names
<1>6. /\ rest \in Seq(Names) /\ Len(rest) = Len(run.left) - 1
      /\ Len(run.left) \in Nat /\ first = run.left[1]
      /\ DOMAIN run.left = 1..Len(run.left) /\ DOMAIN rest = 1..Len(rest)
      /\ \A i \in 1..Len(rest) : rest[i] = run.left[i + 1]
  BY <1>5, HeadTailProperties
<1> HIDE DEF rest, first
<1>7. \A i \in 1..Len(rest) : i + 1 \in DOMAIN run.left /\ i + 1 # 1
  BY <1>6
<1>8. \A i, j \in DOMAIN rest : rest[i] = rest[j] => i = j
  <2>1. ASSUME NEW i \in DOMAIN rest, NEW j \in DOMAIN rest, rest[i] = rest[j]
        PROVE  i = j
    <3>1. i + 1 = j + 1
      BY <1>5, <1>6, <1>7, <2>1
    <3>2. QED
      BY <1>6, <3>1
  <2>2. QED
    BY <2>1
<1>9. ToSet(rest) = ToSet(run.left) \ {first}
  <2>1. ASSUME NEW m \in ToSet(rest) PROVE m \in ToSet(run.left) \ {first}
    <3>1. PICK i \in DOMAIN rest : rest[i] = m
      BY DEF ToSet
    <3>2. run.left[i + 1] = m /\ i + 1 \in DOMAIN run.left /\ i + 1 # 1
      BY <1>6, <1>7, <3>1
    <3>3. 1 \in DOMAIN run.left
      BY <1>6
    <3>4. QED
      BY <1>5, <1>6, <3>2, <3>3 DEF ToSet
  <2>2. ASSUME NEW m \in ToSet(run.left), m # first PROVE m \in ToSet(rest)
    <3>1. PICK i \in DOMAIN run.left : run.left[i] = m
      BY DEF ToSet
    <3>2. i - 1 \in 1..Len(rest) /\ (i - 1) + 1 = i
      <4>1. i # 1 /\ i \in 1..Len(run.left)
        BY <1>6, <2>2, <3>1
      <4>2. QED
        BY <1>6, <4>1
    <3>3. rest[i - 1] = m
      BY <1>6, <3>1, <3>2
    <3>4. QED
      BY <1>6, <3>2, <3>3 DEF ToSet
  <2>3. QED
    BY <2>1, <2>2
<1>10. rest # <<>> /\ Head(rest) \in ToSet(rest)
  <2>1. Len(rest) > 0
    BY <1>6
  <2>2. rest # <<>> /\ Head(rest) = rest[1] /\ 1 \in DOMAIN rest
    BY <1>6, <2>1
  <2>3. QED
    BY <2>2 DEF ToSet
<1>11. \A m \in ToSet(rest) : Requests(next, m) = {}
  BY <1>3, <1>9 DEF Replied, first
<1>12. Cardinality(Requests(next, Head(rest))) = 0
  BY <1>10, <1>11, FS_EmptySet
<1>13. \A m \in Names \ ToSet(rest) : HadItsTurn(next, m)
  BY <1>3, <1>4, <1>9 DEF Replied, Names
<1>14. \A i \in DOMAIN next.log : ~Conclusive(next, next.log[i].reply)
  <2>1. \A i \in 1..(Len(run.log) + 1) : i \in 1..Len(run.log) \/ i = Len(run.log) + 1
    BY <1>3 DEF Replied
  <2>2. QED
    BY <1>3, <1>4, <2>1 DEF Replied
<1>15. 0 \in 0..Retries
  BY CallAssumptions
<1>16. next.log \in Seq([model : Names, reply : Replies])
  BY <1>3 DEF Replied, Names
<1>17. Asking(next)
  BY <1>2, <1>6, <1>8, <1>10, <1>11, <1>12, <1>13, <1>14, <1>15, <1>16
     DEF Asking, Names
<1>18. ChatEndsRight(next)
  BY <1>2, ReplyEndsRight DEF first
<1>19. QED
  BY <1>2, <1>17, <1>18 DEF Chats, next, asked

(* A chat fails for a refusal, or when its last candidate had its turn.    *)
LEMMA ChatFailsChats ==
  ASSUME NEW run, run.models \in UsableModels, Asking(run), NEW reply \in Replies,
         \/ Refused(Asked(run, reply))
         \/ Fruitless(Asked(run, reply)) /\ Len(Asked(run, reply).left) = 1
  PROVE  LET asked == Asked(run, reply) IN
         Chats(At(asked, "failed", asked.left, asked.tries, asked.log))
<1> DEFINE asked == Asked(run, reply)
           next == At(asked, "failed", asked.left, asked.tries, asked.log)
           first == Head(run.left)
<1>1. /\ asked.models = run.models /\ asked.mode = run.mode
      /\ asked.left = run.left /\ Reply(asked) = reply
      /\ asked.log = Append(run.log, [model |-> first, reply |-> reply])
  BY ReplyFacts
<1>2. /\ next.at = "failed"
      /\ next.models = run.models /\ next.mode = run.mode
      /\ next.log = Append(run.log, [model |-> first, reply |-> reply])
  <2> HIDE DEF asked
  <2>1. QED
    BY <1>1 DEF At
<1>3. Refused(asked) => reply = "refused"
  BY <1>1 DEF Refused
<1> HIDE DEF next
<1>4. Replied(run, next, reply)
  BY <1>2, OneReplyMore
<1>5. ASSUME Fruitless(asked), Len(run.left) = 1, NEW m \in ToSet(run.models)
      PROVE  Exhausted(next, m)
  <2>1. HadItsTurn(next, first)
    BY <1>2, <1>4, <1>5, FirstHadItsTurn
  <2>2. ToSet(run.left) = {first}
    <3>1. run.left \in Seq(ToSet(run.models)) /\ run.left # <<>>
      BY DEF Asking
    <3>2. DOMAIN run.left = {1} /\ first = run.left[1]
      BY <1>5, <3>1
    <3>3. QED
      BY <3>2 DEF ToSet
  <2>3. HadItsTurn(next, m)
    BY <1>4, <2>1, <2>2 DEF Replied
  <2>4. QED
    BY <2>3 DEF HadItsTurn
<1>6. ChatEndsRight(next)
  BY <1>1, <1>2, <1>3, <1>5, ReplyEndsRight
<1>7. QED
  BY <1>2, <1>6 DEF Chats, next

-----------------------------------------------------------------------------
(* No step of a caller makes a chat of another caller end wrongly.         *)
LEMMA OneChatMoves ==
  ASSUME CallsTyped, ChatsInv, NEW c \in Callers, NEW run, Goes(c, run), Chats(run)
  PROVE  ChatsInv'
<1>1. call' = [d \in Callers |-> IF d = c THEN run ELSE call[d]]
  BY GoesMoves DEF Others
<1>2. ASSUME NEW d \in Callers PROVE Chats(call'[d])
  <2>1. call'[d] = IF d = c THEN run ELSE call[d]
    BY <1>1
  <2>2. Chats(call[d])
    BY DEF ChatsInv
  <2>3. QED
    BY <2>1, <2>2
<1>3. QED
  BY <1>2 DEF ChatsInv

LEMMA StartChats ==
  ASSUME CallsTyped, ChatsInv, NEW c \in Callers, NEW k, NEW r \in Revisions,
         Start(c, k, r)
  PROVE  ChatsInv'
<1> DEFINE first == IF k = "question" THEN "text" ELSE "json"
           run   == Chatting(k, first, r.models, tasks + 1)
<1>1. Goes(c, IF r.usable THEN run ELSE Failing(c, run))
  BY DEF Start
<1>2. r.usable => Chats(run)
  <2>1. r.usable => r.models \in UsableModels
    BY DEF UsableModels
  <2> HIDE DEF first
  <2>2. QED
    BY <2>1, ChattingChats
<1> HIDE DEF run
<1>3. Chats(IF r.usable THEN run ELSE Failing(c, run))
  BY <1>2, FailingChats
<1>4. QED
  BY <1>1, <1>3, OneChatMoves

LEMMA AskChats ==
  ASSUME CallsTyped, ChatsInv, NEW c \in Callers, call[c].at = "ask",
         NEW r \in Replies,
         Accept(c, r) \/ AskAgain(c, r) \/ AskNext(c, r) \/ ChatFails(c, r)
  PROVE  ChatsInv'
<1> DEFINE run == call[c]
           asked == Asked(run, r)
<1>1. run.models \in UsableModels /\ Asking(run)
  BY DEF ChatsInv, Chats
<1>2. CASE Accept(c, r)
  <2> DEFINE next == At(asked, "answered", <<>>, 0, <<>>)
  <2>1. Goes(c, next)
    BY <1>2 DEF Accept
  <2>2. next.log = <<>> /\ next.at = "answered"
    BY DEF At
  <2> HIDE DEF next
  <2>3. QED
    BY <2>1, <2>2, SilentChats, OneChatMoves
<1>3. CASE AskAgain(c, r)
  <2> DEFINE next == At(asked, "ask", asked.left, asked.tries + 1, asked.log)
  <2>1. Goes(c, next) /\ AskedAgain(asked)
    BY <1>3 DEF AskAgain
  <2>2. Chats(next)
    BY <1>1, <2>1, AskAgainChats
  <2> HIDE DEF next
  <2>3. QED
    BY <2>1, <2>2, OneChatMoves
<1>4. CASE AskNext(c, r)
  <2> DEFINE next == At(asked, "ask", Tail(asked.left), 0, asked.log)
  <2>1. Goes(c, next) /\ Fruitless(asked) /\ Len(asked.left) > 1
    BY <1>4 DEF AskNext
  <2>2. asked.left = run.left
    BY <1>1, ReplyFacts
  <2>3. Chats(next)
    BY <1>1, <2>1, <2>2, AskNextChats
  <2> HIDE DEF next
  <2>4. QED
    BY <2>1, <2>3, OneChatMoves
<1>5. CASE ChatFails(c, r)
  <2> DEFINE next == At(asked, "failed", asked.left, asked.tries, asked.log)
  <2>1. /\ Goes(c, next)
        /\ Refused(asked) \/ (Fruitless(asked) /\ Len(asked.left) = 1)
    BY <1>5 DEF ChatFails
  <2>2. Chats(next)
    BY <1>1, <2>1, ChatFailsChats
  <2> HIDE DEF next
  <2>3. QED
    BY <2>1, <2>2, OneChatMoves
<1>6. QED
  BY <1>2, <1>3, <1>4, <1>5

LEMMA GoOnChats ==
  ASSUME CallsTyped, ChatsInv, NEW c \in Callers, GoOn(c)
  PROVE  ChatsInv'
<1> DEFINE run == call[c]
           again == Chatting(run.kind, "text", run.models, run.run)
           next == CASE run.mode = "json" -> again
                     [] run.mode = "text" /\ run.kind = "question" -> Off
                     [] OTHER -> Failing(c, run)
<1>1. run.at = "failed" /\ Goes(c, next)
  BY Zenon DEF GoOn
<1>2. run.models \in UsableModels
  BY <1>1 DEF ChatsInv, Chats
<1>3. Chats(again)
  BY <1>2, ChattingChats
<1>4. Chats(Off) /\ Chats(Failing(c, run))
  BY OffChats, FailingChats
<1>5. \/ next = again /\ run.mode = "json"
      \/ next = Off \/ next = Failing(c, run)
  <2> HIDE DEF again
  <2>1. run.mode = "json" => next = again
    BY Zenon
  <2>2. run.mode # "json" /\ run.mode = "text" /\ run.kind = "question" => next = Off
    BY Zenon
  <2>3. run.mode # "json" /\ ~(run.mode = "text" /\ run.kind = "question")
        => next = Failing(c, run)
    BY Zenon
  <2>4. QED
    BY <2>1, <2>2, <2>3
<1> HIDE DEF next, again
<1>6. Chats(next)
  BY <1>3, <1>4, <1>5
<1>7. QED
  BY <1>1, <1>6, OneChatMoves

LEMMA StepChats ==
  ASSUME CallsTyped, ChatsInv, CallsStep
  PROVE  ChatsInv'
<1>1. PICK c \in Callers :
        \/ \E k \in Kinds, r \in Revisions : Start(c, k, r)
        \/ Act(c)
        \/ Die(c)
  BY DEF CallsStep
<1>2. CASE \E k \in Kinds, r \in Revisions : Start(c, k, r)
  BY <1>2, StartChats
<1>3. CASE Act(c)
  <2>1. CASE /\ call[c].at = "ask"
             /\ \E r \in Replies : \/ Accept(c, r) \/ AskAgain(c, r)
                                   \/ AskNext(c, r) \/ ChatFails(c, r)
    BY <2>1, AskChats
  <2>2. CASE GoOn(c)
    BY <2>2, GoOnChats
  <2>3. CASE AnswerQuestion(c) \/ Write(c) \/ RecordFailure(c)
    <3>1. Goes(c, Off)
      BY <2>3 DEF AnswerQuestion, Write, RecordFailure
    <3>2. QED
      BY <3>1, OffChats, OneChatMoves
  <2>4. CASE WriteFails(c)
    <3>1. Goes(c, Failing(c, call[c]))
      BY <2>4 DEF WriteFails
    <3>2. Chats(Failing(c, call[c]))
      BY FailingChats
    <3>3. QED
      BY <3>1, <3>2, OneChatMoves
  <2>5. QED
    BY <1>3, <2>1, <2>2, <2>3, <2>4 DEF Act
<1>4. CASE Die(c)
  <2>1. Goes(c, Off)
    BY <1>4 DEF Die
  <2>2. QED
    BY <2>1, OffChats, OneChatMoves
<1>5. QED
  BY <1>1, <1>2, <1>3, <1>4

(* Whatever the replies, and however many models, retries and callers      *)
(* there are, a chat asks nobody after an answer or a refusal, a model     *)
(* again only while it is out of reach, and gives no model up before its   *)
(* turn (client.py, _chat_with_fallback).                                  *)
THEOREM RequestsStop == Spec => []ChatsEndRight
<1>1. Init => ChatsInv
  <2>1. SUFFICES ASSUME Init, NEW c \in Callers PROVE Chats(call[c])
    BY DEF ChatsInv
  <2>2. call[c] = Off
    BY <2>1 DEF Init, InitCalls
  <2>3. QED
    BY <2>2, OffChats
<1>2. IInv /\ ChatsInv /\ [Next]_vars => ChatsInv'
  <2>1. SUFFICES ASSUME IInv, ChatsInv, [Next]_vars PROVE ChatsInv'
    OBVIOUS
  <2>2. CASE call' = call
    BY <2>1, <2>2 DEF ChatsInv
  <2>3. CASE CallsStep
    BY <2>1, <2>3, StepChats DEF IInv, CallsInv
  <2>4. call' = call \/ CallsStep
    <3>1. \A b \in Copiers : Copying(b) => call' = call
      BY DEF Copying, Create, CopyBegins, CopyEnds, Verify, CopyFails, callVars
    <3>2. \A b \in Copiers, from \in Paths \cup {Database}, to \in Destinations :
            Begin(b, from, to) => call' = call
      BY DEF Begin
    <3>3. UNCHANGED vars => call' = call
      BY DEF vars, callVars
    <3>4. QED
      BY <2>1, <3>1, <3>2, <3>3 DEF Next, Done, Commit
  <2>5. QED
    BY <2>2, <2>3, <2>4
<1>3. ChatsInv => ChatsEndRight
  BY DEF ChatsInv, Chats, ChatsEndRight
<1>4. QED
  BY Invariance, <1>1, <1>2, <1>3, PTL DEF Spec
=============================================================================
