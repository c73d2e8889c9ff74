---------------------------- MODULE TrackerProofs ----------------------------
(***************************************************************************)
(* What Tracker promises for any jobs, passes, batches and bounds: ends    *)
(* are queued whatever overlaps or fails, and under ctrack.lock a job has  *)
(* one end, a history without gaps and a terminal state that stays.        *)
(***************************************************************************)
EXTENDS Tracker, TLAPS, FiniteSetTheorems

Event == [old : States, new : Reported]

(* The events of a job that end it.                                        *)
Ended(e) == {n \in DOMAIN e : e[n].new \in Terminal}

(* What a pass holds: nothing before it lists jobs; a job it has read is   *)
(* one it still has to write, and sacct answered about it.                 *)
Holds ==
    \A a \in Passes :
        /\ stage[a] \in {"off", "list"} => listed[a] = {}
        /\ cur[a] # NoJob => /\ stage[a] = "write" /\ cur[a] \in listed[a]
                             /\ answer[a][cur[a]] # "none"

(* The open transaction is that of a pass that is writing; it has each job *)
(* once, and none that is still to be written.                             *)
Drafts ==
    /\ writer = NoPass => draft = {}
    /\ writer # NoPass => stage[writer] = "write"
    /\ \A c, d \in draft : c.job = d.job => c = d
    /\ \A c \in draft : c.job \notin listed[writer]

(* What is recorded of a job whatever overlaps.                            *)
Sound(s, e, k) ==
    /\ s \in Terminal => k > 0
    /\ k = Cardinality(Ended(e))

(* A terminal state that was read was queued by then.                      *)
SeenQueued ==
    /\ \A a \in Passes : cur[a] # NoJob /\ old[a] \in Terminal
                           => completions[cur[a]] > 0
    /\ \A c \in draft : c.old \in Terminal => completions[c.job] > 0

Counted ==
    /\ \A j \in Jobs : Sound(state[j], events[j], completions[j])
    /\ SeenQueued

(* What is recorded of a job under ctrack.lock.                            *)
Orderly(s, e, k) ==
    /\ k <= IF s \in Terminal THEN 1 ELSE 0
    /\ \A n \in 1..Len(e) - 1 : e[n].new = e[n + 1].old
    /\ \A n \in 1..Len(e) : e[n].old # e[n].new
    /\ e # <<>> => e[1].old = "UNKNOWN" /\ e[Len(e)].new = s
    /\ e = <<>> => s \in {"none", "UNKNOWN"}

(* Under the lock there is one pass, and what it listed, read or wrote is  *)
(* what is recorded, because nobody else writes.                           *)
Alone ==
    /\ \A a \in Passes : stage[a] # "off" => lock = a
    /\ \A a \in Passes : listed[a] \cap {j \in Jobs : state[j] \in {"none"} \cup Terminal} = {}
    /\ \A a \in Passes : cur[a] # NoJob => old[a] = state[cur[a]]
    /\ \A c \in draft : c.old = state[c.job] /\ c.old \notin {"none"} \cup Terminal

Locked ==
    ~plain => /\ Alone
              /\ \A j \in Jobs : Orderly(state[j], events[j], completions[j])

IInv == TypeOK /\ Holds /\ Drafts /\ Counted /\ Locked

-----------------------------------------------------------------------------
(* An event more ends the job once more, if it ends it.                    *)
LEMMA EndedAppend ==
    ASSUME NEW e \in Seq(Event), NEW v \in Event
    PROVE  Cardinality(Ended(Append(e, v)))
             = IF v.new \in Terminal THEN Cardinality(Ended(e)) + 1
               ELSE Cardinality(Ended(e))
<1> DEFINE n == Len(e) + 1
<1>1. /\ n \in Nat /\ Len(e) \in Nat
      /\ DOMAIN e = 1..Len(e) /\ DOMAIN Append(e, v) = 1..n
      /\ Append(e, v)[n] = v
      /\ \A i \in 1..Len(e) : Append(e, v)[i] = e[i]
  OBVIOUS
<1>2. IsFiniteSet(Ended(e))
  <2>1. IsFiniteSet(1..Len(e))
    BY <1>1, FS_Interval
  <2>2. Ended(e) \in SUBSET (1..Len(e))
    BY <1>1 DEF Ended
  <2>3. QED
    BY <2>1, <2>2, FS_Subset
<1>3. n \notin Ended(e)
  BY <1>1 DEF Ended
<1>4. CASE v.new \in Terminal
  <2>1. Ended(Append(e, v)) = Ended(e) \cup {n}
    BY <1>1, <1>4 DEF Ended
  <2>2. QED
    BY <1>2, <1>3, <1>4, <2>1, FS_AddElement
<1>5. CASE v.new \notin Terminal
  <2>1. Ended(Append(e, v)) = Ended(e)
    BY <1>1, <1>5 DEF Ended
  <2>2. QED
    BY <1>5, <2>1
<1>6. QED
  BY <1>4, <1>5

(* A job after a commit: what the transaction has of it is recorded, with  *)
(* its event if the state is another one.                                  *)
Recorded(j) ==
    \/ /\ \A c \in draft : c.job # j
       /\ state'[j] = state[j] /\ events'[j] = events[j]
       /\ completions'[j] = completions[j]
    \/ \E c \in draft :
         /\ c.job = j /\ state'[j] = c.new
         /\ IF c.old = c.new
              THEN events'[j] = events[j] /\ completions'[j] = completions[j]
              ELSE /\ events'[j] = Append(events[j], [old |-> c.old, new |-> c.new])
                   /\ completions'[j] = IF c.new \in Terminal THEN completions[j] + 1
                                        ELSE completions[j]

LEMMA CommittedRecords ==
    ASSUME TypeOK, Drafts, Committed, NEW j \in Jobs
    PROVE  Recorded(j)
<1> DEFINE change == {c \in draft : c.job = j}
           moved == {c \in change : c.old # c.new}
<1>1. /\ state'[j] = IF change = {} THEN state[j] ELSE (CHOOSE c \in change : TRUE).new
      /\ events'[j] = IF moved = {} THEN events[j]
                      ELSE LET c == CHOOSE c \in moved : TRUE
                           IN  Append(events[j], [old |-> c.old, new |-> c.new])
      /\ completions'[j] = IF \E c \in moved : c.new \in Terminal
                           THEN completions[j] + 1 ELSE completions[j]
  BY DEF Committed
<1>2. CASE change = {}
  BY <1>1, <1>2 DEF Recorded
<1>3. CASE change # {}
  <2>1. PICK c \in draft : change = {c}
    BY <1>3 DEF Drafts
  <2>2. state'[j] = c.new /\ c.job = j
    BY <1>1, <2>1
  <2>3. CASE c.old = c.new
    <3>1. moved = {}
      BY <2>1, <2>3
    <3>2. QED
      BY <1>1, <2>2, <2>3, <3>1 DEF Recorded
  <2>4. CASE c.old # c.new
    <3>1. moved = {c}
      BY <2>1, <2>4
    <3>2. (CHOOSE d \in moved : TRUE) = c
      BY <3>1
    <3>3. /\ events'[j] = Append(events[j], [old |-> c.old, new |-> c.new])
          /\ completions'[j] = IF c.new \in Terminal THEN completions[j] + 1
                               ELSE completions[j]
      BY <1>1, <3>1, <3>2
    <3>4. QED
      BY <2>2, <2>4, <3>3 DEF Recorded
  <2>5. QED
    BY <2>3, <2>4
<1>4. QED
  BY <1>2, <1>3

LEMMA DraftTyped ==
    ASSUME TypeOK, NEW c \in draft
    PROVE  c.job \in Jobs /\ c.old \in States /\ c.new \in Reported
BY DEF TypeOK, Change

LEMMA RecordedTyped ==
    ASSUME TypeOK, NEW j \in Jobs, Recorded(j)
    PROVE  /\ state'[j] \in States /\ events'[j] \in Seq(Event)
           /\ completions'[j] \in Nat /\ completions'[j] >= completions[j]
<1>1. state[j] \in States /\ events[j] \in Seq(Event) /\ completions[j] \in Nat
  BY DEF TypeOK, Event
<1>2. CASE \E c \in draft : /\ c.job = j /\ state'[j] = c.new
                            /\ c.old # c.new
                            /\ events'[j] = Append(events[j], [old |-> c.old, new |-> c.new])
                            /\ completions'[j] \in {completions[j], completions[j] + 1}
  <2>1. PICK c \in draft : /\ state'[j] = c.new
                           /\ events'[j] = Append(events[j], [old |-> c.old, new |-> c.new])
    BY <1>2
  <2>2. [old |-> c.old, new |-> c.new] \in Event /\ c.new \in States
    BY DraftTyped DEF Event, States
  <2>3. QED
    BY <1>1, <1>2, <2>1, <2>2
<1>3. CASE \E c \in draft : /\ state'[j] = c.new /\ events'[j] = events[j]
                            /\ completions'[j] = completions[j]
  BY <1>1, <1>3, DraftTyped DEF States
<1>4. CASE /\ state'[j] = state[j] /\ events'[j] = events[j]
           /\ completions'[j] = completions[j]
  BY <1>1, <1>4
<1>5. QED
  BY <1>2, <1>3, <1>4 DEF Recorded

(* Recording keeps what holds of a job whatever overlaps.                  *)
LEMMA RecordedSound ==
    ASSUME TypeOK, Counted, NEW j \in Jobs, Recorded(j)
    PROVE  Sound(state'[j], events'[j], completions'[j])
<1>1. /\ events[j] \in Seq(Event) /\ completions[j] \in Nat
      /\ Sound(state[j], events[j], completions[j])
  BY DEF TypeOK, Event, Counted
<1>2. CASE state'[j] = state[j] /\ events'[j] = events[j] /\ completions'[j] = completions[j]
  BY <1>1, <1>2
<1>3. ASSUME NEW c \in draft, c.job = j, state'[j] = c.new, c.old = c.new,
             events'[j] = events[j], completions'[j] = completions[j]
      PROVE  Sound(state'[j], events'[j], completions'[j])
  BY <1>1, <1>3 DEF Counted, SeenQueued, Sound
<1>4. ASSUME NEW c \in draft, c.job = j, state'[j] = c.new, c.old # c.new,
             events'[j] = Append(events[j], [old |-> c.old, new |-> c.new]),
             completions'[j] = IF c.new \in Terminal THEN completions[j] + 1
                               ELSE completions[j]
      PROVE  Sound(state'[j], events'[j], completions'[j])
  <2>1. [old |-> c.old, new |-> c.new] \in Event
    BY DraftTyped DEF Event
  <2>2. Cardinality(Ended(events'[j]))
          = IF c.new \in Terminal THEN Cardinality(Ended(events[j])) + 1
            ELSE Cardinality(Ended(events[j]))
    BY <1>1, <1>4, <2>1, EndedAppend
  <2>3. QED
    BY <1>1, <1>4, <2>2 DEF Sound
<1>5. QED
  BY <1>2, <1>3, <1>4 DEF Recorded

(* Recording what was read under the lock keeps the history in order.      *)
LEMMA RecordedOrderly ==
    ASSUME TypeOK, Locked, ~plain, NEW j \in Jobs, Recorded(j)
    PROVE  Orderly(state'[j], events'[j], completions'[j])
<1>1. /\ events[j] \in Seq(Event) /\ completions[j] \in Nat
      /\ Orderly(state[j], events[j], completions[j]) /\ Alone
  BY DEF TypeOK, Event, Locked
<1>2. CASE state'[j] = state[j] /\ events'[j] = events[j] /\ completions'[j] = completions[j]
  BY <1>1, <1>2
<1>3. ASSUME NEW c \in draft, c.job = j, state'[j] = c.new, c.old = c.new,
             events'[j] = events[j], completions'[j] = completions[j]
      PROVE  Orderly(state'[j], events'[j], completions'[j])
  BY <1>1, <1>3 DEF Alone
<1>4. ASSUME NEW c \in draft, c.job = j, state'[j] = c.new, c.old # c.new,
             events'[j] = Append(events[j], [old |-> c.old, new |-> c.new]),
             completions'[j] = IF c.new \in Terminal THEN completions[j] + 1
                               ELSE completions[j]
      PROVE  Orderly(state'[j], events'[j], completions'[j])
  <2> DEFINE e == events[j]
             v == [old |-> c.old, new |-> c.new]
  <2>1. c.old = state[j] /\ state[j] \notin {"none"} \cup Terminal
    BY <1>1, <1>4 DEF Alone
  <2>2. v \in Event /\ e \in Seq(Event)
    BY <1>1, DraftTyped DEF Event
  <2>3. /\ Len(e) \in Nat /\ Len(Append(e, v)) = Len(e) + 1
        /\ Append(e, v)[Len(e) + 1] = v /\ Append(e, v) # <<>>
        /\ \A n \in 1..Len(e) : Append(e, v)[n] = e[n]
    BY <2>2
  <2>4. completions'[j] <= IF state'[j] \in Terminal THEN 1 ELSE 0
    BY <1>1, <1>4, <2>1 DEF Orderly
  <2>5. e = <<>> => Len(e) = 0 /\ state[j] = "UNKNOWN"
    BY <1>1, <2>1 DEF Orderly
  <2>6. e # <<>> => Len(e) > 0 /\ e[Len(e)].new = state[j] /\ e[1].old = "UNKNOWN"
    BY <1>1, <2>2, <2>3 DEF Orderly
  <2>7. \A n \in 1..Len(Append(e, v)) - 1 :
           Append(e, v)[n].new = Append(e, v)[n + 1].old
    <3>0. Len(Append(e, v)) - 1 = Len(e)
      BY <2>3
    <3> SUFFICES ASSUME NEW n \in 1..Len(e)
                 PROVE  Append(e, v)[n].new = Append(e, v)[n + 1].old
      BY <3>0
    <3>1. CASE n = Len(e)
      BY <2>1, <2>3, <2>6, <3>1
    <3>2. CASE n < Len(e)
      <4>1. n \in 1..Len(e) - 1 /\ n + 1 \in 1..Len(e)
        BY <2>3, <3>2
      <4>2. e[n].new = e[n + 1].old
        BY <1>1, <4>1 DEF Orderly
      <4>3. QED
        BY <2>3, <4>1, <4>2
    <3>3. QED
      BY <2>3, <3>1, <3>2
  <2>8. \A n \in 1..Len(Append(e, v)) : Append(e, v)[n].old # Append(e, v)[n].new
    <3> SUFFICES ASSUME NEW n \in 1..Len(e) + 1
                 PROVE  Append(e, v)[n].old # Append(e, v)[n].new
      BY <2>3
    <3>1. CASE n = Len(e) + 1
      BY <1>4, <2>3, <3>1
    <3>2. CASE n \in 1..Len(e)
      BY <1>1, <2>3, <3>2 DEF Orderly
    <3>3. QED
      BY <2>3, <3>1, <3>2
  <2>9. Append(e, v)[1].old = "UNKNOWN" /\ Append(e, v)[Len(Append(e, v))].new = c.new
    BY <2>1, <2>3, <2>5, <2>6
  <2>10. QED
    BY <1>4, <2>3, <2>4, <2>7, <2>8, <2>9 DEF Orderly
<1>5. QED
  BY <1>2, <1>3, <1>4 DEF Recorded

-----------------------------------------------------------------------------
(* A commit, followed by the end of the pass or not: other passes keep     *)
(* what they hold, the committing one no more than it held.                *)
LEMMA CommitKeeps ==
    ASSUME IInv, NEW a \in Passes, writer = a, cur[a] = NoJob,
           Committed, writer' = NoPass, draft' = {},
           TypeOK', Holds', plain' = plain,
           \A b \in Passes : /\ listed'[b] = listed[b] \/ listed'[b] = {}
                             /\ cur'[b] = cur[b] /\ old'[b] \in {old[b], "none"}
                             /\ cur[b] # NoJob => old'[b] = old[b]
                             /\ stage'[b] \in {stage[b], "off"}
                             /\ lock' = b \/ lock # b \/ stage'[b] = "off"
    PROVE  IInv'
<1>0. TypeOK /\ Drafts /\ Holds /\ Counted /\ Locked
  BY DEF IInv
<1>1. \A j \in Jobs : Recorded(j)
  BY <1>0, CommittedRecords
<1>2. Drafts'
  BY DEF Drafts
<1>3. Counted'
  <2>1. \A j \in Jobs : Sound(state'[j], events'[j], completions'[j])
    BY <1>0, <1>1, RecordedSound
  <2>2. \A b \in Passes : cur'[b] # NoJob /\ old'[b] \in Terminal
                             => completions'[cur'[b]] > 0
    <3> SUFFICES ASSUME NEW b \in Passes, cur'[b] # NoJob, old'[b] \in Terminal
                 PROVE  completions'[cur'[b]] > 0
      OBVIOUS
    <3>1. /\ cur'[b] = cur[b] /\ cur[b] \in Jobs /\ old[b] \in Terminal
          /\ completions[cur[b]] > 0
      BY <1>0 DEF TypeOK, Counted, SeenQueued, Terminal
    <3>2. completions'[cur[b]] >= completions[cur[b]] /\ completions'[cur[b]] \in Nat
      BY <1>0, <1>1, <3>1, RecordedTyped
    <3>3. completions[cur[b]] \in Nat
      BY <1>0, <3>1 DEF TypeOK
    <3>4. QED
      BY <3>1, <3>2, <3>3
  <2>3. QED
    BY <2>1, <2>2 DEF Counted, SeenQueued
<1>4. Locked'
  <2> SUFFICES ASSUME ~plain
               PROVE  Alone' /\ \A j \in Jobs : Orderly(state'[j], events'[j], completions'[j])
    BY DEF Locked
  <2>1. \A j \in Jobs : Orderly(state'[j], events'[j], completions'[j])
    BY <1>0, <1>1, RecordedOrderly
  <2>2. Alone /\ lock = a
    BY <1>0, ConstantsAssumption DEF Locked, Alone, Drafts
  <2>3. \A b \in Passes : b # a => stage[b] = "off" /\ listed[b] = {} /\ cur[b] = NoJob
    BY <1>0, <2>2 DEF Alone, Holds
  <2>4. \A b \in Passes : cur'[b] = NoJob
    BY <2>3
  <2>5. \A b \in Passes : stage'[b] # "off" => lock' = b
    BY <2>2, <2>3 DEF Alone
  <2>6. \A j \in listed[a] : state'[j] = state[j]
    <3>1. listed[a] \subseteq Jobs
      BY <1>0 DEF TypeOK
    <3>2. \A c \in draft : c.job \notin listed[a]
      BY <1>0 DEF Drafts
    <3>3. TAKE j \in listed[a]
    <3>4. j \in Jobs /\ \A c \in draft : c.job # j
      BY <3>1, <3>2
    <3>5. Recorded(j)
      BY <1>1, <3>4
    <3>6. QED
      BY <3>4, <3>5, Zenon DEF Recorded
  <2>7. \A b \in Passes :
           listed'[b] \cap {j \in Jobs : state'[j] \in {"none"} \cup Terminal} = {}
    BY <2>2, <2>3, <2>6 DEF Alone
  <2>8. QED
    BY <2>1, <2>4, <2>5, <2>7 DEF Alone
<1>5. QED
  BY <1>2, <1>3, <1>4 DEF IInv
-----------------------------------------------------------------------------
LEMMA Initially == Init => IInv
<1> SUFFICES ASSUME Init PROVE IInv
  OBVIOUS
<1> USE DEF Init, Nothing
<1>1. TypeOK
  BY ConstantsAssumption DEF TypeOK, States, Reported
<1>2. \A j \in Jobs : Ended(events[j]) = {}
  BY DEF Ended
<1>3. Counted
  BY <1>2, FS_EmptySet DEF Counted, Sound, SeenQueued, Terminal
<1>4. Locked
  BY DEF Locked, Alone, Orderly, Terminal
<1>5. QED
  BY <1>1, <1>3, <1>4 DEF IInv, Holds, Drafts

LEMMA ProgressKeeps ==
    ASSUME IInv, NEW j \in Jobs, Progress(j) \/ Requeue(j)
    PROVE  IInv'
<1>1. /\ slurm' \in [Jobs -> {"none"} \cup Reported]
      /\ requeues' \in 0..MaxRequeues
  <2>1. /\ slurm \in [Jobs -> {"none"} \cup Reported]
        /\ requeues \in 0..MaxRequeues /\ MaxRequeues \in Nat
    BY ConstantsAssumption DEF IInv, TypeOK
  <2>2. Ends \subseteq Reported /\ "PENDING" \in Reported /\ "RUNNING" \in Reported
    BY ConstantsAssumption DEF Reported
  <2>3. \E s \in Reported : slurm' = [slurm EXCEPT ![j] = s]
    BY <2>2 DEF Progress, Requeue
  <2>4. slurm' \in [Jobs -> {"none"} \cup Reported]
    BY <2>1, <2>3
  <2>5. requeues' = requeues \/ (requeues < MaxRequeues /\ requeues' = requeues + 1)
    BY DEF Progress, Requeue
  <2>6. QED
    BY <2>1, <2>4, <2>5
<1>2. UNCHANGED <<plain, torn, db, lock, txn, pass, faults>>
  BY DEF Progress, Requeue
<1>3. QED
  BY <1>1, <1>2 DEF IInv, TypeOK, Holds, Drafts, Counted, SeenQueued, Locked,
                    Alone, db, txn, pass

LEMMA TearLogKeeps ==
    ASSUME IInv, NEW j \in Jobs, TearLog(j)
    PROVE  IInv'
<1>1. UNCHANGED <<plain, slurm, db, lock, txn, pass, faults, requeues>>
  BY DEF TearLog
<1>2. torn' \in SUBSET Jobs
  BY DEF TearLog, IInv, TypeOK
<1>3. QED
  BY <1>1, <1>2 DEF IInv, TypeOK, Holds, Drafts, Counted, SeenQueued, Locked,
                    Alone, db, txn, pass

LEMMA LastEvent ==
    ASSUME NEW e \in Seq(Event), e # <<>>
    PROVE  e[Len(e)].new \in Reported
<1>1. Len(e) \in 1..Len(e)
  OBVIOUS
<1>2. e[Len(e)] \in Event
  BY <1>1
<1>3. QED
  BY <1>2 DEF Event

LEMMA InsertJobKeeps ==
    ASSUME IInv, NEW j \in Jobs, InsertJob(j)
    PROVE  IInv'
<1> USE DEF InsertJob, txn, pass
<1>1. TypeOK'
  BY DEF IInv, TypeOK, States
<1>2. Holds' /\ Drafts' /\ SeenQueued'
  BY DEF IInv, Holds, Drafts, Counted, SeenQueued
<1>3. /\ state'[j] = "UNKNOWN" /\ state[j] = "none"
      /\ \A i \in Jobs : i # j => state'[i] = state[i]
  BY DEF IInv, TypeOK
<1>4. Counted'
  BY <1>2, <1>3 DEF IInv, Counted, Sound, Terminal
<1>5. Locked'
  <2> SUFFICES ASSUME ~plain
               PROVE  Alone' /\ \A i \in Jobs : Orderly(state'[i], events[i], completions[i])
    BY DEF Locked
  <2>1. Alone /\ \A i \in Jobs : Orderly(state[i], events[i], completions[i])
    BY DEF IInv, Locked
  <2>2. \A a \in Passes : j \notin listed[a]
    BY <1>3, <2>1 DEF Alone
  <2>3. \A c \in draft : c.job # j
    BY <1>3, <2>1 DEF Alone
  <2>4. Alone'
    BY <1>3, <2>1, <2>2, <2>3 DEF IInv, TypeOK, Change, Holds, Alone
  <2>5. Orderly("UNKNOWN", events[j], completions[j])
    <3>1. Orderly("none", events[j], completions[j])
      BY <1>3, <2>1
    <3>2. events[j] = <<>>
      <4> SUFFICES ASSUME events[j] # <<>> PROVE FALSE
        OBVIOUS
      <4>1. events[j] \in Seq(Event)
        BY DEF IInv, TypeOK, Event
      <4>2. events[j][Len(events[j])].new \in Reported
        BY <4>1, LastEvent
      <4>3. QED
        BY <3>1, <4>2 DEF Orderly, Reported, Terminal
    <3>3. QED
      BY <3>1, <3>2 DEF Orderly, Terminal
  <2>6. QED
    BY <1>3, <2>1, <2>4, <2>5
<1>6. QED
  BY <1>1, <1>2, <1>4, <1>5 DEF IInv

-----------------------------------------------------------------------------
(* The steps of a pass that leave the database and the transaction alone.  *)
LEMMA DatabaseKept ==
    ASSUME IInv, UNCHANGED <<plain, db, txn>>, SeenQueued', ~plain => Alone'
    PROVE  Counted' /\ Locked'
BY DEF IInv, Counted, Locked, db

LEMMA StartKeeps ==
    ASSUME IInv, NEW a \in Passes, StartLocked(a) \/ StartUnlocked(a)
    PROVE  IInv'
<1> USE DEF StartLocked, StartUnlocked, Start, db, txn
<1>1. TypeOK'
  BY DEF IInv, TypeOK
<1>2. Holds' /\ Drafts' /\ SeenQueued'
  BY DEF IInv, TypeOK, Holds, Drafts, Counted, SeenQueued
<1>3. ~plain => Alone'
  BY ConstantsAssumption DEF IInv, TypeOK, Locked, Alone
<1>4. QED
  BY <1>1, <1>2, <1>3, DatabaseKept DEF IInv

LEMMA OrphanKeeps ==
    ASSUME IInv, NEW a \in Passes, Orphan(a)
    PROVE  IInv'
BY DEF IInv, Orphan, TypeOK, Holds, Drafts, Counted, SeenQueued, Locked, db, txn, pass

LEMMA ListKeeps ==
    ASSUME IInv, NEW a \in Passes, List(a)
    PROVE  IInv'
<1> USE DEF List, db, txn
<1>1. TypeOK'
  BY DEF IInv, TypeOK, Open, Nothing
<1>2. Holds' /\ Drafts' /\ SeenQueued'
  BY DEF IInv, TypeOK, Holds, Drafts, Counted, SeenQueued
<1>3. ~plain => Alone'
  BY DEF IInv, TypeOK, Locked, Alone, Open
<1>4. QED
  BY <1>1, <1>2, <1>3, DatabaseKept DEF IInv

LEMMA QueryKeeps ==
    ASSUME IInv, NEW a \in Passes, Query(a) \/ Answered(a)
    PROVE  IInv'
<1> USE DEF Query, Answered, db, txn
<1>1. TypeOK'
  <2>0. TypeOK
    BY DEF IInv
  <2>1. CASE Answered(a)
    BY <2>0, <2>1 DEF TypeOK
  <2>2. CASE Query(a)
    <3>1. PICK B \in SUBSET unasked[a] :
            /\ unasked' = [unasked EXCEPT ![a] = @ \ B]
            /\ answer' = [answer EXCEPT ![a] = [j \in Jobs |-> IF j \in B THEN slurm[j] ELSE @[j]]]
      BY <2>2
    <3>2. unasked' \in [Passes -> SUBSET Jobs]
      BY <2>0, <3>1 DEF TypeOK
    <3>3. [j \in Jobs |-> IF j \in B THEN slurm[j] ELSE answer[a][j]]
            \in [Jobs -> {"none"} \cup Reported]
      BY <2>0 DEF TypeOK
    <3>4. answer' \in [Passes -> [Jobs -> {"none"} \cup Reported]]
      BY <2>0, <3>1, <3>3 DEF TypeOK
    <3>5. QED
      BY <2>0, <2>2, <3>2, <3>4 DEF TypeOK
  <2>3. QED
    BY <2>1, <2>2
<1>2. Holds'
  <2>1. /\ \A b \in Passes : stage'[b] = stage[b] \/ stage'[b] = "write"
        /\ \A b \in Passes : answer'[b] = answer[b] \/ stage[b] = "query"
        /\ UNCHANGED <<listed, cur>>
    BY DEF IInv, TypeOK
  <2>2. \A b \in Passes : cur[b] # NoJob => stage[b] = "write" /\ stage'[b] = "write"
    BY <2>1 DEF IInv, Holds
  <2>3. QED
    BY <2>1, <2>2 DEF IInv, Holds
<1>3. Drafts' /\ SeenQueued'
  BY DEF IInv, TypeOK, Drafts, Counted, SeenQueued
<1>4. ~plain => Alone'
  BY DEF IInv, TypeOK, Locked, Alone
<1>5. QED
  BY <1>1, <1>2, <1>3, <1>4, DatabaseKept DEF IInv

LEMMA SkipJobKeeps ==
    ASSUME IInv, NEW a \in Passes, NEW j \in Jobs, SkipJob(a, j)
    PROVE  IInv'
<1> USE DEF SkipJob, IngestedLog, db, txn
<1>1. TypeOK'
  BY DEF IInv, TypeOK
<1>2. Holds' /\ Drafts' /\ SeenQueued'
  BY DEF IInv, TypeOK, Holds, Drafts, Counted, SeenQueued
<1>3. ~plain => Alone'
  BY DEF IInv, TypeOK, Locked, Alone
<1>4. QED
  BY <1>1, <1>2, <1>3, DatabaseKept DEF IInv

LEMMA ReadStateKeeps ==
    ASSUME IInv, NEW a \in Passes, NEW j \in Jobs, ReadState(a, j)
    PROVE  IInv'
<1> USE DEF ReadState, IngestedLog, db, txn
<1>1. TypeOK'
  BY DEF IInv, TypeOK
<1>2. Holds' /\ Drafts'
  BY DEF IInv, TypeOK, Holds, Drafts
<1>3. SeenQueued'
  BY DEF IInv, TypeOK, Counted, SeenQueued, Sound
<1>4. ~plain => Alone'
  BY DEF IInv, TypeOK, Locked, Alone
<1>5. QED
  BY <1>1, <1>2, <1>3, <1>4, DatabaseKept DEF IInv

(* A write adds the job that was read to the transaction.                  *)
LEMMA WriteStateKeeps ==
    ASSUME IInv, NEW a \in Passes, WriteState(a)
    PROVE  IInv'
<1> DEFINE j == cur[a]
           c == [job |-> j, old |-> old[a], new |-> answer[a][j]]
<1>1. /\ j \in Jobs /\ j # NoJob /\ j \in listed[a] /\ stage[a] = "write"
      /\ answer[a][j] \in Reported /\ old[a] \in States
      /\ UNCHANGED <<plain, slurm, torn, db, lock, stage, unasked, answer, faults, requeues>>
      /\ writer \in {NoPass, a} /\ writer' = a /\ draft' = draft \cup {c}
      /\ listed' = [listed EXCEPT ![a] = @ \ {j}]
      /\ cur' = [cur EXCEPT ![a] = NoJob] /\ old' = [old EXCEPT ![a] = "none"]
  BY DEF IInv, TypeOK, Holds, WriteState
<1>2. c \in Change /\ c.job = j /\ c.old = old[a]
  BY <1>1 DEF Change
<1>3. TypeOK'
  BY <1>1, <1>2 DEF IInv, TypeOK, db, States
<1>4. Holds'
  BY <1>1 DEF IInv, TypeOK, Holds
<1>5. \A d \in draft : d.job \notin listed[a]
  BY <1>1 DEF IInv, Drafts
<1>6. /\ listed'[a] = listed[a] \ {j}
      /\ \A b \in Passes : b # a => listed'[b] = listed[b] /\ cur'[b] = cur[b] /\ old'[b] = old[b]
      /\ cur'[a] = NoJob
  BY <1>1 DEF IInv, TypeOK
<1>7. Drafts'
  BY <1>1, <1>2, <1>5, <1>6, ConstantsAssumption DEF IInv, Drafts
<1>8. SeenQueued'
  BY <1>1, <1>2, <1>6 DEF IInv, Counted, SeenQueued, db
<1>9. Counted'
  BY <1>1, <1>8 DEF IInv, Counted, db
<1>10. Locked'
  <2> SUFFICES ASSUME ~plain PROVE Alone'
    BY <1>1 DEF IInv, Locked, db
  <2>1. Alone
    BY DEF IInv, Locked
  <2>2. c.old = state[c.job] /\ c.old \notin {"none"} \cup Terminal
    BY <1>1, <1>2, <2>1 DEF Alone
  <2>3. QED
    BY <1>1, <1>6, <2>1, <2>2 DEF Alone, db
<1>11. QED
  BY <1>3, <1>4, <1>7, <1>9, <1>10 DEF IInv

LEMMA CommittedTyped ==
    ASSUME TypeOK, Drafts, Committed
    PROVE  /\ state' \in [Jobs -> States] /\ completions' \in [Jobs -> Nat]
           /\ events' \in [Jobs -> Seq([old : States, new : Reported])]
<1>1. \A j \in Jobs : /\ state'[j] \in States /\ events'[j] \in Seq(Event)
                      /\ completions'[j] \in Nat
  BY CommittedRecords, RecordedTyped
<1>2. /\ state' = [j \in Jobs |-> state'[j]] /\ events' = [j \in Jobs |-> events'[j]]
      /\ completions' = [j \in Jobs |-> completions'[j]]
  BY DEF Committed
<1>3. QED
  BY <1>1, <1>2 DEF Event

LEMMA IngestKeeps ==
    ASSUME IInv, NEW a \in Passes, IngestRuntimeLog(a)
    PROVE  IInv'
<1> USE DEF IngestRuntimeLog, pass
<1>1. TypeOK'
  BY CommittedTyped DEF IInv, TypeOK
<1>2. Holds'
  BY DEF IInv, Holds
<1>3. QED
  BY <1>1, <1>2, CommitKeeps

(* The end of a pass, successful or not.                                   *)
LEMMA StopShape ==
    ASSUME TypeOK, NEW a \in Passes, Stop(a)
    PROVE  /\ stage'[a] = "off" /\ listed'[a] = {} /\ cur'[a] = NoJob /\ old'[a] = "none"
           /\ \A b \in Passes : b # a =>
                /\ stage'[b] = stage[b] /\ listed'[b] = listed[b] /\ cur'[b] = cur[b]
                /\ old'[b] = old[b] /\ answer'[b] = answer[b]
           /\ lock' \in {lock, NoPass}
           /\ \A b \in Passes : b # a /\ lock = b => lock' = b
           /\ stage' \in [Passes -> {"off", "list", "query", "write"}]
           /\ listed' \in [Passes -> SUBSET Jobs] /\ unasked' \in [Passes -> SUBSET Jobs]
           /\ answer' \in [Passes -> [Jobs -> {"none"} \cup Reported]]
           /\ cur' \in [Passes -> Jobs \cup {NoJob}] /\ old' \in [Passes -> States]
BY DEF TypeOK, Stop, Nothing, States

(* A pass that ends without a commit takes its transaction with it.        *)
LEMMA StopKeeps ==
    ASSUME IInv, NEW a \in Passes, Stop(a), UNCHANGED <<plain, slurm, torn, db, requeues>>,
           faults' \in 0..MaxFaults,
           RollBack(a)
    PROVE  IInv'
<1> USE DEF RollBack
<1>0. TypeOK
  BY DEF IInv
<1>1. TypeOK'
  BY <1>0, StopShape DEF TypeOK, db, txn
<1>2. Holds'
  BY <1>0, StopShape DEF IInv, Holds
<1>3. draft' \subseteq draft /\ (writer' = NoPass => draft' = {})
  BY DEF IInv, Drafts, txn
<1>4. Drafts'
  <2>1. CASE writer = a
    BY <2>1 DEF Drafts
  <2>2. CASE writer # a
    <3>1. UNCHANGED txn /\ Drafts /\ writer \in Passes \cup {NoPass}
      BY <2>2 DEF IInv, TypeOK
    <3>2. writer # NoPass => stage'[writer] = stage[writer] /\ listed'[writer] = listed[writer]
      BY <1>0, <2>2, <3>1, StopShape
    <3>3. QED
      BY <3>1, <3>2 DEF Drafts, txn
  <2>3. QED
    BY <2>1, <2>2
<1>5. SeenQueued'
  BY <1>0, <1>3, StopShape DEF IInv, Counted, SeenQueued, db
<1>6. ~plain => Alone'
  <2> SUFFICES ASSUME ~plain' PROVE Alone'
    OBVIOUS
  <2>1. Alone
    BY DEF IInv, Locked
  <2>2. \A b \in Passes : /\ stage'[b] # "off" => lock' = b
                          /\ listed'[b] \in {listed[b], {}}
                          /\ cur'[b] # NoJob => cur'[b] = cur[b] /\ old'[b] = old[b]
    <3>1. TAKE b \in Passes
    <3>2. CASE b = a
      BY <1>0, <3>2, StopShape
    <3>3. CASE b # a
      BY <1>0, <2>1, <3>3, StopShape DEF Alone
    <3>4. QED
      BY <3>2, <3>3
  <2>3. QED
    BY <1>3, <2>1, <2>2 DEF Alone, db
<1>7. QED
  BY <1>1, <1>2, <1>4, <1>5, <1>6 DEF IInv, Counted, Locked, db

LEMMA FinishKeeps ==
    ASSUME IInv, NEW a \in Passes, Finish(a)
    PROVE  IInv'
<1>1. TypeOK /\ Stop(a) /\ cur[a] = NoJob /\ UNCHANGED <<plain, slurm, torn, faults, requeues>>
  BY DEF IInv, Holds, Finish
<1>2. Holds'
  BY <1>1, StopShape DEF IInv, Holds
<1>3. CASE writer = a
  <2>1. Committed /\ writer' = NoPass /\ draft' = {}
    BY <1>3 DEF Finish
  <2>2. TypeOK'
    BY <1>1, <2>1, StopShape, CommittedTyped DEF IInv, TypeOK
  <2>3. QED
    BY <1>1, <1>2, <1>3, <2>1, <2>2, StopShape, CommitKeeps
<1>4. CASE writer # a
  <2>1. UNCHANGED <<db, txn>>
    BY <1>4 DEF Finish
  <2>2. faults' \in 0..MaxFaults
    BY <1>1 DEF TypeOK
  <2>3. QED
    BY <1>1, <1>4, <2>1, <2>2, StopKeeps DEF txn, RollBack
<1>5. QED
  BY <1>3, <1>4

LEMMA FailKeeps ==
    ASSUME IInv, NEW a \in Passes, Fail(a)
    PROVE  IInv'
<1>1. faults' \in 0..MaxFaults
  BY ConstantsAssumption DEF IInv, TypeOK, Fail
<1>2. QED
  BY <1>1, StopKeeps DEF Fail

LEMMA RaiseTornKeeps ==
    ASSUME IInv, NEW a \in Passes, RaiseTorn(a)
    PROVE  IInv'
<1>1. faults' \in 0..MaxFaults
  BY DEF IInv, TypeOK, RaiseTorn
<1>2. QED
  BY <1>1, StopKeeps DEF RaiseTorn

-----------------------------------------------------------------------------
LEMMA Inductive == IInv /\ [Next]_vars => IInv'
<1> SUFFICES ASSUME IInv, [Next]_vars PROVE IInv'
  OBVIOUS
<1>1. ASSUME NEW j \in Jobs, Progress(j) \/ Requeue(j) \/ TearLog(j) \/ InsertJob(j)
      PROVE  IInv'
  BY <1>1, ProgressKeeps, TearLogKeeps, InsertJobKeeps
<1>2. ASSUME NEW a \in Passes, StartLocked(a) \/ StartUnlocked(a) \/ Orphan(a) PROVE IInv'
  BY <1>2, StartKeeps, OrphanKeeps
<1>3. ASSUME NEW a \in Passes, Advance(a) PROVE IInv'
  BY <1>3, ListKeeps, QueryKeeps, SkipJobKeeps, ReadStateKeeps, WriteStateKeeps,
     RaiseTornKeeps, FinishKeeps
  DEF Advance
<1>4. ASSUME NEW a \in Passes, IngestRuntimeLog(a) \/ Fail(a) PROVE IInv'
  BY <1>4, IngestKeeps, FailKeeps
<1>5. CASE UNCHANGED vars
  BY <1>5 DEF IInv, TypeOK, Holds, Drafts, Counted, SeenQueued, Locked, Alone, vars, db, txn, pass
<1>6. QED
  BY <1>1, <1>2, <1>3, <1>4, <1>5 DEF Next

LEMMA Invariance == Spec => []IInv
BY Initially, Inductive, PTL DEF Spec

(* The tables hold states and changes that accounting or the queue can     *)
(* report, and passes stay within their bounds, whatever they meet         *)
(* (tracker.py, slurm.py).                                                 *)
THEOREM TypeCorrect == Spec => []TypeOK
<1>1. IInv => TypeOK
  BY DEF IInv
<1>2. QED
  BY <1>1, Invariance, PTL

(* An end that is recorded is queued for analysis, whatever passes overlap *)
(* and fail, and among passes under ctrack.lock once (tracker.py:122-132). *)
THEOREM Queued == Spec => []EndsAreQueued
<1>1. IInv => EndsAreQueued
  BY DEF IInv, Counted, Sound, Ended, Locked, Orderly, EndsAreQueued
<1>2. QED
  BY <1>1, Invariance, PTL

(* Under ctrack.lock the events of a job continue one another and end in   *)
(* its state (tracker.py:120-129).                                         *)
THEOREM Told == Spec => []EventsTellHistory
<1>1. IInv => EventsTellHistory
  BY DEF IInv, Locked, Orderly, EventsTellHistory
<1>2. QED
  BY <1>1, Invariance, PTL

(* Under ctrack.lock no old answer replaces a terminal state.              *)
THEOREM Preserved == Spec => TerminalPreserved
<1> DEFINE Step == \A j \in Jobs : ~plain /\ state[j] \in Terminal => state'[j] = state[j]
<1>1. ASSUME IInv, Committed PROVE Step
  <2> SUFFICES ASSUME NEW j \in Jobs, ~plain, state[j] \in Terminal
               PROVE  state'[j] = state[j]
    OBVIOUS
  <2>1. Recorded(j) /\ Alone
    BY <1>1, CommittedRecords DEF IInv, Locked
  <2>2. QED
    BY <2>1 DEF Recorded, Alone
<1>2. ASSUME UNCHANGED state PROVE Step
  BY <1>2
<1>3. ASSUME NEW j \in Jobs, InsertJob(j), IInv PROVE Step
  BY <1>3 DEF InsertJob, IInv, TypeOK, Terminal
<1>4. ASSUME NEW a \in Passes, Finish(a), IInv PROVE Step
  BY <1>1, <1>2, <1>4 DEF Finish, db
<1>5. ASSUME NEW a \in Passes, IngestRuntimeLog(a), IInv PROVE Step
  BY <1>1, <1>5 DEF IngestRuntimeLog
<1>6. ASSUME NEW j \in Jobs, Progress(j) \/ Requeue(j) \/ TearLog(j) PROVE UNCHANGED state
  BY <1>6 DEF Progress, Requeue, TearLog, db
<1>7. ASSUME NEW a \in Passes,
             \/ StartLocked(a) \/ StartUnlocked(a) \/ Orphan(a) \/ Fail(a)
             \/ List(a) \/ Query(a) \/ Answered(a) \/ WriteState(a) \/ RaiseTorn(a)
             \/ \E j \in Jobs : SkipJob(a, j) \/ ReadState(a, j)
      PROVE  UNCHANGED state
  BY <1>7 DEF StartLocked, StartUnlocked, Start, Orphan, Fail, List, Query, Answered,
              WriteState, RaiseTorn, SkipJob, ReadState, db
<1>8. UNCHANGED vars => UNCHANGED state
  BY DEF vars, db
<1>9. IInv /\ [Next]_vars => [Step]_vars
  BY <1>2, <1>3, <1>4, <1>5, <1>6, <1>7, <1>8 DEF Next, Advance
<1>10. QED
  BY <1>9, Invariance, PTL DEF Spec, TerminalPreserved
=============================================================================
