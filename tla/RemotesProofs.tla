---------------------------- MODULE RemotesProofs ----------------------------
(***************************************************************************)
(* What Console and Remotes promise for any consoles, modes, helpers,      *)
(* tabs, profiles and bounds.  First of the consoles alone: one tracker    *)
(* pass at a time, no child left behind, no console's save lost to another *)
(* console's.  Then of the remote servers: every caller reads its own      *)
(* answer, no bridge is forgotten, no action cuts off an operation, and no *)
(* change of the server list is lost.  A helper is a console, so that what *)
(* is shown of the consoles holds of it as well.                           *)
(***************************************************************************)
EXTENDS Remotes, TLAPS, SequenceTheorems

Item == [id : Nat, kind : Kinds, status : {"running", "succeeded", "failed"}]

(* A process that does not run holds nothing.                              *)
HoldsNothing(c) ==
    ~Alive(c) => worker[c] = "idle" /\ trackLock # c /\ configLock # c /\ saver[c] = "no"

(* The worker thread exists exactly while an operation is active, and the  *)
(* operation is among the results; once the child is over, its status is   *)
(* known.                                                                  *)
Busy(c) ==
    /\ worker[c] = "idle" <=> active[c] = 0
    /\ worker[c] \in {"release", "settle"} => outcome[c] # "none"
    /\ worker[c] # "idle" => items[c] # <<>>

(* A living console waits for its running child, and close() knows of it.  *)
Minds(c) ==
    /\ Alive(c) /\ child[c] = "running" => worker[c] = "wait"
    /\ life[c] = "stopping" /\ child[c] = "running" => victim[c]
    /\ life[c] \in {"off", "terminated", "gone"} => child[c] # "running"

(* A refresh holds ctrack.lock from before its child to after it.          *)
LocksTracking(c) ==
    worker[c] \in {"spawn", "wait"} /\ Last(items[c]).kind = "refresh" => trackLock = c

(* Between its first look at config.toml and its own save a console holds  *)
(* the lock; after its second look the file is the one its page showed, or *)
(* an editor without the lock has been there since.                        *)
LocksConfig(c) ==
    /\ saver[c] \in {"checked", "rechecked"} => configLock = c
    /\ saver[c] = "rechecked" => shown[c] = config.n \/ overtaken[c]

Good(c) == HoldsNothing(c) /\ Busy(c) /\ Minds(c) /\ LocksTracking(c) /\ LocksConfig(c)

IInv == TypeOK /\ \A c \in Consoles : Good(c)

-----------------------------------------------------------------------------
(* What a console does leaves the other ones as they are: it takes and     *)
(* drops locks that are free or its own, and replaces config.toml under    *)
(* config.lock.                                                            *)
Apart(d) ==
    /\ life'[d] = life[d] /\ items'[d] = items[d] /\ active'[d] = active[d]
    /\ worker'[d] = worker[d] /\ outcome'[d] = outcome[d]
    /\ child'[d] = child[d] /\ victim'[d] = victim[d]
    /\ saver'[d] = saver[d] /\ shown'[d] = shown[d]
    /\ saver[d] = "rechecked" /\ overtaken[d] => overtaken'[d]
    /\ trackLock' = d <=> trackLock = d
    /\ configLock' = d <=> configLock = d
    /\ \/ config' = config \/ configLock # d
       \/ saver[d] = "rechecked" => overtaken'[d]

LEMMA ApartKeeps ==
    ASSUME NEW d \in Consoles, Good(d), Apart(d)
    PROVE  Good(d)'
BY DEF Good, HoldsNothing, Alive, Busy, Minds, LocksTracking, LocksConfig, Apart

LEMMA OneActs ==
    ASSUME IInv, NEW c \in Consoles, TypeOK', Good(c)',
           \A d \in Consoles \ {c} : Apart(d)
    PROVE  IInv'
BY ApartKeeps DEF IInv

LEMMA Initial == Init => IInv
<1> SUFFICES ASSUME Init PROVE IInv
  OBVIOUS
<1>1. TypeOK
  BY ConstantsAssumption DEF Init, TypeOK, Stages
<1>2. ASSUME NEW c \in Consoles PROVE Good(c)
  BY ConstantsAssumption
  DEF Init, Good, HoldsNothing, Alive, Busy, Minds, LocksTracking, LocksConfig
<1>3. QED
  BY <1>1, <1>2 DEF IInv

-----------------------------------------------------------------------------
(* The results of a console stay a sequence of operations.                 *)
LEMMA RoomMade ==
    ASSUME NEW s \in Seq(Item), NEW v \in Item, Len(s) >= Keep
    PROVE  LET t == Append(SubSeq(s, Len(s) - (Keep - 2), Len(s)), v)
           IN  t \in Seq(Item) /\ t # <<>> /\ Last(t) = v
<1>1. Len(s) \in Nat /\ Keep \in Nat \ {0}
  BY ConstantsAssumption
<1>2. \A i \in (Len(s) - (Keep - 2))..Len(s) : s[i] \in Item
  BY <1>1
<1>3. SubSeq(s, Len(s) - (Keep - 2), Len(s)) \in Seq(Item)
  BY <1>1, <1>2, SubSeqProperties
<1>4. QED
  BY <1>3 DEF Last

LEMMA Settles ==
    ASSUME NEW s \in Seq(Item), s # <<>>, NEW r \in {"succeeded", "failed", "running"}
    PROVE  [s EXCEPT ![Len(s)].status = r] \in Seq(Item)
<1>1. Len(s) \in 1..Len(s)
  OBVIOUS
<1>2. s[Len(s)] \in Item
  BY <1>1
<1>3. [s[Len(s)] EXCEPT !.status = r] \in Item
  BY <1>2 DEF Item
<1>4. QED
  BY <1>1, <1>3

LEMMA StartOpKeeps ==
    ASSUME IInv, NEW c \in Consoles, NEW kind \in Kinds, StartOp(c, kind)
    PROVE  IInv'
<1> DEFINE v == [id |-> started', kind |-> kind, status |-> "running"]
           kept == SubSeq(items[c], Len(items[c]) - (Keep - 2), Len(items[c]))
           new == Append(IF Len(items[c]) < Keep THEN items[c] ELSE kept, v)
<1>1. /\ started' \in 1..MaxOps /\ started' \in Nat \ {0}
      /\ worker[c] = "idle" /\ life[c] = "up" /\ child[c] # "running"
  <2>1. started \in Nat /\ MaxOps \in Nat /\ started < MaxOps /\ started' = started + 1
    BY ConstantsAssumption DEF IInv, TypeOK, StartOp
  <2>2. QED
    BY <2>1 DEF IInv, StartOp, Good, Busy, Minds, Alive
<1>2. items[c] \in Seq(Item)
  BY DEF IInv, TypeOK, Item
<1>3. v \in Item
  BY <1>1 DEF Item
<1>4. new \in Seq(Item) /\ new # <<>> /\ Last(new) = v
  <2>1. CASE Len(items[c]) < Keep
    BY <1>2, <1>3, <2>1 DEF Last
  <2>2. CASE ~(Len(items[c]) < Keep)
    <3>1. Len(items[c]) >= Keep
      BY <1>2, <2>2, ConstantsAssumption
    <3>2. QED
      BY <1>2, <1>3, <2>2, <3>1, RoomMade
  <2>3. QED
    BY <2>1, <2>2
<1>5. /\ items' = [items EXCEPT ![c] = new]
      /\ active' = [active EXCEPT ![c] = started']
      /\ worker' = [worker EXCEPT ![c] = IF kind = "refresh" THEN "lock" ELSE "spawn"]
      /\ UNCHANGED <<server, outcome, child, trackLock, settings>>
  BY DEF StartOp
<1>6. v.kind = kind
  OBVIOUS
<1> HIDE DEF new, v
<1>7. TypeOK'
  <2>1. items' \in [Consoles -> Seq(Item)]
    BY <1>4, <1>5 DEF IInv, TypeOK, Item
  <2>2. started' \in 0..MaxOps
    BY <1>1
  <2>3. QED
    BY <1>1, <1>5, <2>1, <2>2 DEF IInv, TypeOK, Item, Stages, server, settings, save
<1>8. items'[c] = new /\ active'[c] = started' /\ worker'[c] = IF kind = "refresh" THEN "lock" ELSE "spawn"
  BY <1>5 DEF IInv, TypeOK
<1>9. Good(c)'
  BY <1>1, <1>4, <1>5, <1>6, <1>8
  DEF IInv, Good, HoldsNothing, Alive, Busy, Minds, LocksTracking, LocksConfig, server, settings, save
<1>10. \A d \in Consoles \ {c} : Apart(d)
  BY <1>5 DEF IInv, TypeOK, Apart, server, settings, save
<1>11. QED
  BY <1>7, <1>9, <1>10, OneActs

LEMMA SettleKeeps ==
    ASSUME IInv, NEW c \in Consoles, Settle(c)
    PROVE  IInv'
<1> DEFINE new == [items[c] EXCEPT ![Len(items[c])].status = outcome[c]]
<1>1. items[c] \in Seq(Item) /\ items[c] # <<>> /\ outcome[c] \in {"none", "succeeded", "failed"}
  BY DEF IInv, TypeOK, Item, Good, Busy, Settle
<1>2. outcome[c] # "none"
  BY DEF IInv, Good, Busy, Settle
<1>3. new \in Seq(Item)
  BY <1>1, <1>2, Settles
<1>4. items' = [items EXCEPT ![c] = new]
  BY DEF Settle
<1> HIDE DEF new
<1>5. TypeOK'
  <2>1. items' \in [Consoles -> Seq(Item)]
    BY <1>3, <1>4 DEF IInv, TypeOK, Item
  <2>2. QED
    BY <2>1 DEF IInv, TypeOK, Item, Stages, Settle, To, server, settings, save
<1>6. Good(c)'
  BY DEF Settle, To, server, settings, save, IInv, TypeOK, Good, HoldsNothing, Alive, Busy, Minds,
         LocksTracking, LocksConfig
<1>7. \A d \in Consoles \ {c} : Apart(d)
  BY <1>4 DEF Settle, To, server, settings, save, IInv, TypeOK, Apart
<1>8. QED
  BY <1>5, <1>6, <1>7, OneActs

(* The other steps of an operation, and the end of its child.              *)
LEMMA WorkKeeps ==
    ASSUME IInv, NEW c \in Consoles,
           LockTracking(c) \/ Spawn(c) \/ Collect(c) \/ Deadline(c) \/ Release(c) \/ ChildExits(c)
    PROVE  IInv'
<1>1. CASE LockTracking(c)
  <2>1. TypeOK'
    <3>1. trackLock' \in Consoles \cup {"cron", NoOne}
      BY <1>1, ConstantsAssumption DEF IInv, TypeOK, LockTracking, To, server, settings, save
    <3>2. worker' \in [Consoles -> Stages]
      <4>1. \E w \in Stages : worker' = [worker EXCEPT ![c] = w]
        BY <1>1 DEF LockTracking, To, Stages
      <4>2. QED
        BY <4>1 DEF IInv, TypeOK
    <3>3. outcome' \in [Consoles -> {"none", "succeeded", "failed"}]
      <4>1. \E r \in {"none", "succeeded", "failed"} : outcome' = [outcome EXCEPT ![c] = r]
        BY <1>1 DEF LockTracking, To
      <4>2. QED
        BY <4>1 DEF IInv, TypeOK
    <3>4. QED
      BY <1>1, <3>1, <3>2, <3>3 DEF IInv, TypeOK, Item, LockTracking, To, server, settings, save
  <2>2. Good(c)'
    <3>1. LocksConfig(c)'
      BY <1>1, ConstantsAssumption DEF IInv, TypeOK, Good, LocksConfig,
         LockTracking, To, server, settings, save
    <3>2. HoldsNothing(c)' /\ Busy(c)'
      <4>1. Alive(c) /\ life' = life
        BY <1>1 DEF LockTracking, server
      <4>2. Busy(c)'
        <5>1. /\ worker[c] = "lock" /\ UNCHANGED <<items, active>>
              /\ To(c, "spawn", "none") \/ To(c, "release", "failed")
          BY <1>1 DEF LockTracking
        <5>2. /\ worker'[c] \in {"spawn", "release"}
              /\ worker'[c] = "release" => outcome'[c] = "failed"
          BY <5>1 DEF IInv, TypeOK, To
        <5>3. QED
          BY <5>1, <5>2 DEF IInv, Good, Busy
      <4>3. QED
        BY <4>1, <4>2 DEF HoldsNothing, Alive
    <3>3. Minds(c)'
      BY <1>1
      DEF IInv, TypeOK, Good, Alive, Minds, LockTracking, To, server, settings, save
    <3>4. LocksTracking(c)'
      BY <1>1
      DEF IInv, TypeOK, Good, LocksTracking, LockTracking, To, server, settings, save
    <3>5. QED
      BY <3>1, <3>2, <3>3, <3>4 DEF Good
  <2>3. \A d \in Consoles \ {c} : Apart(d)
    BY <1>1, ConstantsAssumption, SMTT(30)
    DEF IInv, TypeOK, Good, LocksConfig, Apart, LockTracking, To, server, settings, save
  <2>4. QED
    BY <2>1, <2>2, <2>3, OneActs
<1>2. CASE Spawn(c)
  <2>1. TypeOK'
    <3>1. child' \in [Consoles -> {"none", "running", "ok", "bad"}]
      BY <1>2 DEF IInv, TypeOK, Spawn
    <3>2. \E w \in Stages, r \in {"none", "succeeded", "failed"} : To(c, w, r)
      BY <1>2 DEF Spawn, Stages
    <3>3. /\ worker' \in [Consoles -> Stages]
          /\ outcome' \in [Consoles -> {"none", "succeeded", "failed"}]
      <4>1. /\ worker \in [Consoles -> Stages]
            /\ outcome \in [Consoles -> {"none", "succeeded", "failed"}]
        BY DEF IInv, TypeOK
      <4>2. QED
        BY <3>2, <4>1 DEF To
    <3>4. UNCHANGED <<server, items, active, trackLock, started, settings>>
      BY <1>2 DEF Spawn
    <3>5. QED
      BY <3>1, <3>3, <3>4 DEF IInv, TypeOK, server, settings, save
  <2>2. Good(c)'
    <3>1. CASE worker'[c] = "wait"
      BY <1>2, <3>1
      DEF IInv, TypeOK, Good, HoldsNothing, Alive, Busy, Minds, LocksTracking, LocksConfig,
          Spawn, To, server, settings, save
    <3>2. CASE worker'[c] = "release"
      <4>1. UNCHANGED child /\ To(c, "release", "failed")
        BY <1>2, <3>2 DEF IInv, TypeOK, Spawn, To
      <4>2. worker[c] = "spawn" /\ outcome'[c] = "failed"
        BY <1>2, <4>1 DEF IInv, TypeOK, Spawn, To
      <4>3. UNCHANGED <<server, items, active, trackLock, settings>>
        BY <1>2 DEF Spawn
      <4>4. QED
        BY <3>2, <4>1, <4>2, <4>3
        DEF IInv, Good, HoldsNothing, Alive, Busy, Minds, LocksTracking, LocksConfig,
            server, settings, save
    <3>3. worker'[c] \in {"wait", "release"}
      BY <1>2 DEF Spawn, To, IInv, TypeOK
    <3>4. QED
      BY <3>1, <3>2, <3>3
  <2>3. \A d \in Consoles \ {c} : Apart(d)
    BY <1>2, ConstantsAssumption, SMTT(30)
    DEF IInv, TypeOK, Good, LocksConfig, Apart, Spawn, To, server, settings, save
  <2>4. QED
    BY <2>1, <2>2, <2>3, OneActs
<1>3. CASE Collect(c)
  <2>1. TypeOK'
    BY <1>3, ConstantsAssumption DEF IInv, TypeOK, Stages, Collect, To, server, settings, save
  <2>2. Good(c)'
    <3>1. LocksConfig(c)'
      BY <1>3, ConstantsAssumption DEF IInv, TypeOK, Good, LocksConfig,
         Collect, To, server, settings, save
    <3>2. HoldsNothing(c)' /\ Busy(c)'
      <4>1. Alive(c) /\ life' = life
        BY <1>3 DEF Collect, server
      <4>2. Busy(c)'
        BY <1>3 DEF IInv, TypeOK, Good, Busy, Collect, To
      <4>3. QED
        BY <4>1, <4>2 DEF HoldsNothing, Alive
    <3>3. Minds(c)'
      BY <1>3
      DEF IInv, TypeOK, Good, Alive, Minds, Collect, To, server, settings, save
    <3>4. LocksTracking(c)'
      BY <1>3
      DEF IInv, TypeOK, Good, LocksTracking, Collect, To, server, settings, save
    <3>5. QED
      BY <3>1, <3>2, <3>3, <3>4 DEF Good
  <2>3. \A d \in Consoles \ {c} : Apart(d)
    BY <1>3, ConstantsAssumption, SMTT(30)
    DEF IInv, TypeOK, Good, LocksConfig, Apart, Collect, To, server, settings, save
  <2>4. QED
    BY <2>1, <2>2, <2>3, OneActs
<1>4. CASE Deadline(c)
  <2>1. TypeOK'
    BY <1>4, ConstantsAssumption DEF IInv, TypeOK, Stages, Deadline, To, server, settings, save
  <2>2. Good(c)'
    <3>1. LocksConfig(c)'
      BY <1>4, ConstantsAssumption DEF IInv, TypeOK, Good, LocksConfig,
         Deadline, To, server, settings, save
    <3>2. HoldsNothing(c)' /\ Busy(c)'
      <4>1. Alive(c) /\ life' = life
        BY <1>4 DEF Deadline, server
      <4>2. Busy(c)'
        BY <1>4 DEF IInv, TypeOK, Good, Busy, Deadline, To
      <4>3. QED
        BY <4>1, <4>2 DEF HoldsNothing, Alive
    <3>3. Minds(c)'
      BY <1>4
      DEF IInv, TypeOK, Good, Alive, Minds, Deadline, To, server, settings, save
    <3>4. LocksTracking(c)'
      BY <1>4
      DEF IInv, TypeOK, Good, LocksTracking, Deadline, To, server, settings, save
    <3>5. QED
      BY <3>1, <3>2, <3>3, <3>4 DEF Good
  <2>3. \A d \in Consoles \ {c} : Apart(d)
    BY <1>4, ConstantsAssumption, SMTT(30)
    DEF IInv, TypeOK, Good, LocksConfig, Apart, Deadline, To, server, settings, save
  <2>4. QED
    BY <2>1, <2>2, <2>3, OneActs
<1>5. CASE Release(c)
  <2>1. TypeOK'
    BY <1>5, ConstantsAssumption DEF IInv, TypeOK, Stages, Release, To, server, settings, save
  <2>2. Good(c)'
    <3>1. LocksConfig(c)'
      BY <1>5, ConstantsAssumption DEF IInv, TypeOK, Good, LocksConfig,
         Release, To, server, settings, save
    <3>2. HoldsNothing(c)' /\ Busy(c)'
      <4>1. Alive(c) /\ life' = life
        BY <1>5 DEF Release, server
      <4>2. Busy(c)'
        BY <1>5 DEF IInv, TypeOK, Good, Busy, Release, To
      <4>3. QED
        BY <4>1, <4>2 DEF HoldsNothing, Alive
    <3>3. Minds(c)'
      BY <1>5
      DEF IInv, TypeOK, Good, Alive, Minds, Release, To, server, settings, save
    <3>4. LocksTracking(c)'
      BY <1>5
      DEF IInv, TypeOK, Good, LocksTracking, Release, To, server, settings, save
    <3>5. QED
      BY <3>1, <3>2, <3>3, <3>4 DEF Good
  <2>3. \A d \in Consoles \ {c} : Apart(d)
    BY <1>5, ConstantsAssumption, SMTT(30)
    DEF IInv, TypeOK, Good, LocksConfig, Apart, Release, To, server, settings, save
  <2>4. QED
    BY <2>1, <2>2, <2>3, OneActs
<1>6. CASE ChildExits(c)
  <2>1. TypeOK'
    <3>1. child' \in [Consoles -> {"none", "running", "ok", "bad"}]
      BY <1>6, ConstantsAssumption DEF IInv, TypeOK, ChildExits, To, server, settings, save
    <3>2. QED
      BY <1>6, <3>1 DEF IInv, TypeOK, Item, ChildExits, To, server, settings, save
  <2>2. Good(c)'
    BY <1>6, ConstantsAssumption, SMTT(30)
    DEF IInv, TypeOK, Good, HoldsNothing, Alive, Busy, Minds, LocksTracking, LocksConfig,
        ChildExits, To, server, settings, save
  <2>3. \A d \in Consoles \ {c} : Apart(d)
    BY <1>6, ConstantsAssumption, SMTT(30)
    DEF IInv, TypeOK, Good, LocksConfig, Apart, ChildExits, To, server, settings, save
  <2>4. QED
    BY <2>1, <2>2, <2>3, OneActs
<1>7. QED
  BY <1>1, <1>2, <1>3, <1>4, <1>5, <1>6

LEMMA LifeKeeps ==
    ASSUME IInv, NEW c \in Consoles,
           \/ \E m \in {"read", "write", "cancel"} : Open(c, m)
           \/ CloseAsk(c) \/ CloseTerminate(c)
    PROVE  IInv'
<1>1. CASE (\E m \in {"read", "write", "cancel"} : Open(c, m))
  <2>1. TypeOK'
    <3>1. life' \in [Consoles -> {"off", "up", "stopping", "terminated", "gone", "killed"}]
      BY <1>1, ConstantsAssumption DEF IInv, TypeOK, Open, ops, settings, save
    <3>2. mode' \in [Consoles -> {"read", "write", "cancel"}]
      <4>1. \E m \in {"read", "write", "cancel"} : mode' = [mode EXCEPT ![c] = m]
        BY <1>1, ConstantsAssumption DEF Open
      <4>2. QED
        BY <4>1 DEF IInv, TypeOK
    <3>3. UNCHANGED <<victim, kills, ops, trackLock, started, settings>>
      BY <1>1 DEF Open
    <3>4. QED
      BY <3>1, <3>2, <3>3 DEF IInv, TypeOK, Item, Stages, ops, settings, save
  <2>2. Good(c)'
    BY <1>1, ConstantsAssumption, SMTT(30)
    DEF IInv, TypeOK, Good, HoldsNothing, Alive, Busy, Minds, LocksTracking, LocksConfig,
        Open, ops, settings, save
  <2>3. \A d \in Consoles \ {c} : Apart(d)
    BY <1>1, ConstantsAssumption, SMTT(30) DEF IInv, TypeOK, Good, LocksConfig, Apart, Open, ops, settings, save
  <2>4. QED
    BY <2>1, <2>2, <2>3, OneActs
<1>2. CASE CloseAsk(c)
  <2>1. TypeOK'
    BY <1>2, ConstantsAssumption DEF IInv, TypeOK, Stages, CloseAsk, ops, settings, save
  <2>2. Good(c)'
    <3>1. life'[c] = "stopping" /\ Alive(c) /\ Good(c)
      BY <1>2 DEF IInv, TypeOK, Alive, CloseAsk
    <3>2. child[c] = "running" => victim'[c]
      <4>1. child[c] = "running" => worker[c] = "wait"
        BY <3>1 DEF Good, Minds
      <4>2. QED
        BY <1>2, <4>1 DEF IInv, TypeOK, CloseAsk
    <3>3. UNCHANGED <<ops, trackLock, settings>>
      BY <1>2 DEF CloseAsk
    <3>4. QED
      BY <3>1, <3>2, <3>3
      DEF Good, HoldsNothing, Alive, Busy, Minds, LocksTracking, LocksConfig, ops, settings, save
  <2>3. \A d \in Consoles \ {c} : Apart(d)
    BY <1>2, ConstantsAssumption, SMTT(30)
    DEF IInv, TypeOK, Good, LocksConfig, Apart, CloseAsk, ops, settings, save
  <2>4. QED
    BY <2>1, <2>2, <2>3, OneActs
<1>3. CASE CloseTerminate(c)
  <2>1. TypeOK'
    BY <1>3, ConstantsAssumption DEF IInv, TypeOK, Stages, CloseTerminate, settings, save
  <2>2. Good(c)'
    BY <1>3, ConstantsAssumption, SMTT(30)
    DEF IInv, TypeOK, Good, HoldsNothing, Alive, Busy, Minds, LocksTracking, LocksConfig,
        CloseTerminate, settings, save
  <2>3. \A d \in Consoles \ {c} : Apart(d)
    BY <1>3, ConstantsAssumption, SMTT(30)
    DEF IInv, TypeOK, Good, LocksConfig, Apart, CloseTerminate, settings, save
  <2>4. QED
    BY <2>1, <2>2, <2>3, OneActs
<1>4. QED
  BY <1>1, <1>2, <1>3

LEMMA ExitKeeps ==
    ASSUME IInv, NEW c \in Consoles,
           CloseJoin(c) \/ Kill(c)
    PROVE  IInv'
<1>a. kills \in 0..MaxKills /\ MaxKills \in Nat
  BY ConstantsAssumption DEF IInv, TypeOK
<1>1. CASE CloseJoin(c)
  <2>1. TypeOK'
    <3>1. life' \in [Consoles -> {"off", "up", "stopping", "terminated", "gone", "killed"}]
      BY <1>1, <1>a, ConstantsAssumption DEF IInv, TypeOK, CloseJoin, Exit, SaveEnds, To
    <3>2. trackLock' \in Consoles \cup {"cron", NoOne}
      BY <1>1, <1>a, ConstantsAssumption DEF IInv, TypeOK, CloseJoin, Exit, SaveEnds, To
    <3>3. configLock' \in Consoles \cup {NoOne}
      BY <1>1, <1>a, ConstantsAssumption DEF IInv, TypeOK, CloseJoin, Exit, SaveEnds, To
    <3>4. saver' \in [Consoles -> {"no", "waiting", "checked", "rechecked"}]
      BY <1>1, <1>a, ConstantsAssumption DEF IInv, TypeOK, CloseJoin, Exit, SaveEnds, To
    <3>5. items' \in [Consoles -> Seq(Item)]
      <4>1. <<>> \in Seq(Item) /\ items' = [items EXCEPT ![c] = <<>>]
        BY <1>1 DEF CloseJoin, Exit
      <4>2. items \in [Consoles -> Seq(Item)]
        BY DEF IInv, TypeOK, Item
      <4>3. QED
        BY <4>1, <4>2
    <3>6. active' \in [Consoles -> Nat]
      BY <1>1, <1>a, ConstantsAssumption DEF IInv, TypeOK, CloseJoin, Exit, SaveEnds, To
    <3>7. worker' \in [Consoles -> Stages]
      BY <1>1, <1>a, ConstantsAssumption DEF IInv, TypeOK, Stages, CloseJoin, Exit, SaveEnds, To
    <3>8. outcome' \in [Consoles -> {"none", "succeeded", "failed"}]
      BY <1>1, <1>a, ConstantsAssumption DEF IInv, TypeOK, CloseJoin, Exit, SaveEnds, To
    <3>9. victim' \in [Consoles -> BOOLEAN]
      BY <1>1, <1>a, ConstantsAssumption DEF IInv, TypeOK, CloseJoin, Exit, SaveEnds, To
    <3>10. page' \in [Consoles -> Nat]
      BY <1>1, <1>a, ConstantsAssumption DEF IInv, TypeOK, CloseJoin, Exit, SaveEnds, To
    <3>11. kills' \in 0..MaxKills
      BY <1>1, <1>a, ConstantsAssumption DEF IInv, TypeOK, CloseJoin, Exit, SaveEnds, To
    <3>12. QED
      BY <1>1, <1>a, <3>1, <3>2, <3>3, <3>4, <3>5, <3>6, <3>7, <3>8, <3>9, <3>10, <3>11
      DEF IInv, TypeOK, Item, CloseJoin, Exit, SaveEnds, To
  <2>2. Good(c)'
    BY <1>1, ConstantsAssumption, SMTT(30)
    DEF IInv, TypeOK, Good, HoldsNothing, Alive, Busy, Minds, LocksTracking, LocksConfig,
        CloseJoin, Exit, SaveEnds, To
  <2>3. \A d \in Consoles \ {c} : Apart(d)
    BY <1>1, ConstantsAssumption, SMTT(30) DEF IInv, TypeOK, Good, LocksConfig, Apart, CloseJoin, Exit, SaveEnds, To
  <2>4. QED
    BY <2>1, <2>2, <2>3, OneActs
<1>2. CASE Kill(c)
  <2>1. TypeOK'
    <3>1. life' \in [Consoles -> {"off", "up", "stopping", "terminated", "gone", "killed"}]
      BY <1>2, <1>a, ConstantsAssumption DEF IInv, TypeOK, Kill, Exit, SaveEnds, To
    <3>2. trackLock' \in Consoles \cup {"cron", NoOne}
      BY <1>2, <1>a, ConstantsAssumption DEF IInv, TypeOK, Kill, Exit, SaveEnds, To
    <3>3. configLock' \in Consoles \cup {NoOne}
      BY <1>2, <1>a, ConstantsAssumption DEF IInv, TypeOK, Kill, Exit, SaveEnds, To
    <3>4. saver' \in [Consoles -> {"no", "waiting", "checked", "rechecked"}]
      BY <1>2, <1>a, ConstantsAssumption DEF IInv, TypeOK, Kill, Exit, SaveEnds, To
    <3>5. items' \in [Consoles -> Seq(Item)]
      <4>1. <<>> \in Seq(Item) /\ items' = [items EXCEPT ![c] = <<>>]
        BY <1>2 DEF Kill, Exit
      <4>2. items \in [Consoles -> Seq(Item)]
        BY DEF IInv, TypeOK, Item
      <4>3. QED
        BY <4>1, <4>2
    <3>6. active' \in [Consoles -> Nat]
      BY <1>2, <1>a, ConstantsAssumption DEF IInv, TypeOK, Kill, Exit, SaveEnds, To
    <3>7. worker' \in [Consoles -> Stages]
      BY <1>2, <1>a, ConstantsAssumption DEF IInv, TypeOK, Stages, Kill, Exit, SaveEnds, To
    <3>8. outcome' \in [Consoles -> {"none", "succeeded", "failed"}]
      BY <1>2, <1>a, ConstantsAssumption DEF IInv, TypeOK, Kill, Exit, SaveEnds, To
    <3>9. victim' \in [Consoles -> BOOLEAN]
      BY <1>2, <1>a, ConstantsAssumption DEF IInv, TypeOK, Kill, Exit, SaveEnds, To
    <3>10. page' \in [Consoles -> Nat]
      BY <1>2, <1>a, ConstantsAssumption DEF IInv, TypeOK, Kill, Exit, SaveEnds, To
    <3>11. kills' \in 0..MaxKills
      BY <1>2, <1>a, ConstantsAssumption DEF IInv, TypeOK, Kill, Exit, SaveEnds, To
    <3>12. QED
      BY <1>2, <1>a, <3>1, <3>2, <3>3, <3>4, <3>5, <3>6, <3>7, <3>8, <3>9, <3>10, <3>11
      DEF IInv, TypeOK, Item, Kill, Exit, SaveEnds, To
  <2>2. Good(c)'
    BY <1>2, ConstantsAssumption, SMTT(30)
    DEF IInv, TypeOK, Good, HoldsNothing, Alive, Busy, Minds, LocksTracking, LocksConfig,
        Kill, Exit, SaveEnds, To
  <2>3. \A d \in Consoles \ {c} : Apart(d)
    BY <1>2, ConstantsAssumption, SMTT(30)
    DEF IInv, TypeOK, Good, LocksConfig, Apart, Kill, Exit, SaveEnds, To
  <2>4. QED
    BY <2>1, <2>2, <2>3, OneActs
<1>3. QED
  BY <1>1, <1>2

(* Cron and the user's editor belong to no console.                        *)
LEMMA OutsideKeeps ==
    ASSUME IInv, CronTracks \/ CronEnds \/ OutsideEdit
    PROVE  IInv'
<1> USE DEF CronTracks, CronEnds, OutsideEdit, server, ops, settings, save
<1>1. TypeOK'
  <2>1. edits' \in 0..MaxEdits
    <3>1. edits \in 0..MaxEdits /\ MaxEdits \in Nat
      BY ConstantsAssumption DEF IInv, TypeOK
    <3>2. edits' = edits \/ (edits < MaxEdits /\ edits' = edits + 1)
      OBVIOUS
    <3>3. QED
      BY <3>1, <3>2
  <2>2. config' \in [n : Nat, by : Consoles \cup {NoOne}]
    BY SMTT(30) DEF IInv, TypeOK
  <2>3. trackLock' \in Consoles \cup {"cron", NoOne}
    BY DEF IInv, TypeOK
  <2>4. UNCHANGED <<server, ops, started, configLock, page, saver, shown, saves>>
    OBVIOUS
  <2>5. overtaken' \in [Consoles -> BOOLEAN]
    <3> HIDE DEF CronTracks, CronEnds, OutsideEdit, server, ops, settings, save
    <3>1. \/ overtaken' = overtaken
          \/ overtaken' = [c \in Consoles |-> saver[c] = "rechecked"]
      <4>1. CASE CronTracks
        BY <4>1 DEF CronTracks, settings, save
      <4>2. CASE CronEnds
        BY <4>2 DEF CronEnds, settings, save
      <4>3. CASE OutsideEdit
        BY <4>3 DEF OutsideEdit
      <4>4. QED
        BY <4>1, <4>2, <4>3
    <3>2. overtaken \in [Consoles -> BOOLEAN]
      BY DEF IInv, TypeOK
    <3>3. [c \in Consoles |-> saver[c] = "rechecked"] \in [Consoles -> BOOLEAN]
      BY Zenon
    <3>4. QED
      BY <3>1, <3>2, <3>3, Zenon
  <2> HIDE DEF CronTracks, CronEnds, OutsideEdit
  <2>6. QED
    BY <2>1, <2>2, <2>3, <2>4, <2>5 DEF IInv, TypeOK
<1>2. \A d \in Consoles : Apart(d)
  BY ConstantsAssumption DEF Apart
<1>3. QED
  BY <1>1, <1>2, ApartKeeps DEF IInv

LEMMA SaveKeeps ==
    ASSUME IInv, NEW c \in Consoles,
           LoadPage(c) \/ BeginSave(c) \/ CheckRevision(c) \/ Recheck(c) \/ Replace(c) \/ SaveFails(c)
    PROVE  IInv'
<1>a. saves \in 0..MaxSaves /\ MaxSaves \in Nat /\ config.n \in Nat
  BY ConstantsAssumption DEF IInv, TypeOK
<1>1. CASE LoadPage(c)
  <2>1. TypeOK'
    BY <1>1, <1>a, ConstantsAssumption DEF IInv, TypeOK, Stages, LoadPage, save, server, ops
  <2>2. Good(c)'
    <3>1. LocksConfig(c)'
      BY <1>1, ConstantsAssumption DEF IInv, TypeOK, Good, LocksConfig,
         LoadPage, save, server, ops
    <3>2. HoldsNothing(c)' /\ Busy(c)' /\ Minds(c)' /\ LocksTracking(c)'
      BY <1>1, ConstantsAssumption
      DEF IInv, TypeOK, Good, HoldsNothing, Alive, Busy, Minds, LocksTracking,
          LoadPage, save, server, ops
    <3>3. QED
      BY <3>1, <3>2 DEF Good
  <2>3. \A d \in Consoles \ {c} : Apart(d)
    BY <1>1, ConstantsAssumption, SMTT(30)
    DEF IInv, TypeOK, Good, LocksConfig, Apart, LoadPage, save, server, ops
  <2>4. QED
    BY <2>1, <2>2, <2>3, OneActs
<1>2. CASE BeginSave(c)
  <2>1. TypeOK'
    <3>1. saver' \in [Consoles -> {"no", "waiting", "checked", "rechecked"}]
      BY <1>2, <1>a, ConstantsAssumption DEF IInv, TypeOK, BeginSave, server, ops
    <3>2. saves' \in 0..MaxSaves
      BY <1>2, <1>a, ConstantsAssumption DEF IInv, TypeOK, BeginSave, server, ops
    <3>3. QED
      BY <1>2, <1>a, <3>1, <3>2 DEF IInv, TypeOK, Item, BeginSave, server, ops
  <2>2. Good(c)'
    BY <1>2, ConstantsAssumption, SMTT(30)
    DEF IInv, TypeOK, Good, HoldsNothing, Alive, Busy, Minds, LocksTracking, LocksConfig,
        BeginSave, server, ops
  <2>3. \A d \in Consoles \ {c} : Apart(d)
    BY <1>2, ConstantsAssumption, SMTT(30)
    DEF IInv, TypeOK, Good, LocksConfig, Apart, BeginSave, server, ops
  <2>4. QED
    BY <2>1, <2>2, <2>3, OneActs
<1>3. CASE CheckRevision(c)
  <2>1. TypeOK'
    <3>1. saver' \in [Consoles -> {"no", "waiting", "checked", "rechecked"}]
      <4>1. \E w \in {"no", "checked", "rechecked"} : saver' = [saver EXCEPT ![c] = w]
        BY <1>3 DEF CheckRevision, SaveEnds
      <4>2. QED
        BY <4>1 DEF IInv, TypeOK
    <3>2. configLock' \in Consoles \cup {NoOne}
      BY <1>3, <1>a, ConstantsAssumption DEF IInv, TypeOK, CheckRevision, SaveEnds, server, ops
    <3>3. shown' \in [Consoles -> Nat] /\ overtaken' \in [Consoles -> BOOLEAN]
      <4>1. UNCHANGED <<shown, overtaken>> \/ SaveEnds(c)
        BY <1>3 DEF CheckRevision
      <4>2. QED
        <5>1. shown \in [Consoles -> Nat] /\ overtaken \in [Consoles -> BOOLEAN]
          BY DEF IInv, TypeOK
        <5>2. CASE SaveEnds(c)
          BY <5>1, <5>2 DEF SaveEnds
        <5>3. QED
          BY <4>1, <5>1, <5>2
    <3>4. UNCHANGED <<server, ops, trackLock, started, config, page, saves, edits>>
      BY <1>3 DEF CheckRevision
    <3>5. QED
      BY <3>1, <3>2, <3>3, <3>4 DEF IInv, TypeOK, server, ops
  <2>2. Good(c)'
    <3>1. LocksConfig(c)'
      <4>1. CASE shown[c] = config.n
        BY <1>3, <4>1 DEF IInv, TypeOK, Good, LocksConfig, CheckRevision
      <4>2. CASE shown[c] # config.n
        BY <1>3, <4>2 DEF IInv, TypeOK, LocksConfig, CheckRevision, SaveEnds
      <4>3. QED
        BY <4>1, <4>2
    <3>2. HoldsNothing(c)' /\ Busy(c)' /\ Minds(c)' /\ LocksTracking(c)'
      BY <1>3, ConstantsAssumption
      DEF IInv, TypeOK, Good, HoldsNothing, Alive, Busy, Minds, LocksTracking,
          CheckRevision, SaveEnds, server, ops
    <3>3. QED
      BY <3>1, <3>2 DEF Good
  <2>3. \A d \in Consoles \ {c} : Apart(d)
    BY <1>3, ConstantsAssumption, SMTT(30)
    DEF IInv, TypeOK, Good, LocksConfig, Apart, CheckRevision, SaveEnds, server, ops
  <2>4. QED
    BY <2>1, <2>2, <2>3, OneActs
<1>4. CASE Recheck(c)
  <2>1. TypeOK'
    <3>1. saver' \in [Consoles -> {"no", "waiting", "checked", "rechecked"}]
      <4>1. \E w \in {"no", "checked", "rechecked"} : saver' = [saver EXCEPT ![c] = w]
        BY <1>4 DEF Recheck, SaveEnds
      <4>2. QED
        BY <4>1 DEF IInv, TypeOK
    <3>2. configLock' \in Consoles \cup {NoOne}
      BY <1>4, <1>a, ConstantsAssumption DEF IInv, TypeOK, Recheck, SaveEnds, server, ops
    <3>3. shown' \in [Consoles -> Nat] /\ overtaken' \in [Consoles -> BOOLEAN]
      <4>1. UNCHANGED <<shown, overtaken>> \/ SaveEnds(c)
        BY <1>4 DEF Recheck
      <4>2. QED
        <5>1. shown \in [Consoles -> Nat] /\ overtaken \in [Consoles -> BOOLEAN]
          BY DEF IInv, TypeOK
        <5>2. CASE SaveEnds(c)
          BY <5>1, <5>2 DEF SaveEnds
        <5>3. QED
          BY <4>1, <5>1, <5>2
    <3>4. UNCHANGED <<server, ops, trackLock, started, config, page, saves, edits>>
      BY <1>4 DEF Recheck
    <3>5. QED
      BY <3>1, <3>2, <3>3, <3>4 DEF IInv, TypeOK, server, ops
  <2>2. Good(c)'
    <3>1. LocksConfig(c)'
      <4>1. CASE shown[c] = config.n
        BY <1>4, <4>1 DEF IInv, TypeOK, Good, LocksConfig, Recheck
      <4>2. CASE shown[c] # config.n
        BY <1>4, <4>2 DEF IInv, TypeOK, LocksConfig, Recheck, SaveEnds
      <4>3. QED
        BY <4>1, <4>2
    <3>2. HoldsNothing(c)' /\ Busy(c)' /\ Minds(c)' /\ LocksTracking(c)'
      BY <1>4, ConstantsAssumption
      DEF IInv, TypeOK, Good, HoldsNothing, Alive, Busy, Minds, LocksTracking,
          Recheck, SaveEnds, server, ops
    <3>3. QED
      BY <3>1, <3>2 DEF Good
  <2>3. \A d \in Consoles \ {c} : Apart(d)
    BY <1>4, ConstantsAssumption, SMTT(30)
    DEF IInv, TypeOK, Good, LocksConfig, Apart, Recheck, SaveEnds, server, ops
  <2>4. QED
    BY <2>1, <2>2, <2>3, OneActs
<1>5. CASE Replace(c)
  <2>1. TypeOK'
    <3>1. config' \in [n : Nat, by : Consoles \cup {NoOne}]
      <4>1. config' = [n |-> config.n + 1, by |-> c] /\ config.n + 1 \in Nat
        BY <1>5, <1>a DEF Replace
      <4>2. QED
        BY <4>1
    <3>2. page' \in [Consoles -> Nat]
      <4>1. config'.n \in Nat /\ page' = [page EXCEPT ![c] = config'.n]
        BY <1>5, <3>1 DEF Replace
      <4>2. QED
        BY <4>1 DEF IInv, TypeOK
    <3>3. saver' \in [Consoles -> {"no", "waiting", "checked", "rechecked"}]
      BY <1>5, <1>a, ConstantsAssumption DEF IInv, TypeOK, Replace, SaveEnds, server, ops
    <3>4. configLock' \in Consoles \cup {NoOne}
      BY <1>5, <1>a, ConstantsAssumption DEF IInv, TypeOK, Replace, SaveEnds, server, ops
    <3>5. QED
      BY <1>5, <1>a, <3>1, <3>2, <3>3, <3>4 DEF IInv, TypeOK, Item, Replace, SaveEnds, server, ops
  <2>2. Good(c)'
    <3>1. LocksConfig(c)'
      BY <1>5, ConstantsAssumption DEF IInv, TypeOK, Good, LocksConfig,
         Replace, SaveEnds, server, ops
    <3>2. HoldsNothing(c)' /\ Busy(c)' /\ Minds(c)' /\ LocksTracking(c)'
      BY <1>5, ConstantsAssumption
      DEF IInv, TypeOK, Good, HoldsNothing, Alive, Busy, Minds, LocksTracking,
          Replace, SaveEnds, server, ops
    <3>3. QED
      BY <3>1, <3>2 DEF Good
  <2>3. \A d \in Consoles \ {c} : Apart(d)
    BY <1>5, ConstantsAssumption, SMTT(30)
    DEF IInv, TypeOK, Good, LocksConfig, Apart, Replace, SaveEnds, server, ops
  <2>4. QED
    BY <2>1, <2>2, <2>3, OneActs
<1>6. CASE SaveFails(c)
  <2>1. TypeOK'
    BY <1>6, <1>a, ConstantsAssumption DEF IInv, TypeOK, Stages, SaveFails, SaveEnds, server, ops
  <2>2. Good(c)'
    <3>1. LocksConfig(c)'
      BY <1>6, ConstantsAssumption DEF IInv, TypeOK, Good, LocksConfig,
         SaveFails, SaveEnds, server, ops
    <3>2. HoldsNothing(c)' /\ Busy(c)' /\ Minds(c)' /\ LocksTracking(c)'
      BY <1>6, ConstantsAssumption
      DEF IInv, TypeOK, Good, HoldsNothing, Alive, Busy, Minds, LocksTracking,
          SaveFails, SaveEnds, server, ops
    <3>3. QED
      BY <3>1, <3>2 DEF Good
  <2>3. \A d \in Consoles \ {c} : Apart(d)
    BY <1>6, ConstantsAssumption, SMTT(30)
    DEF IInv, TypeOK, Good, LocksConfig, Apart, SaveFails, SaveEnds, server, ops
  <2>4. QED
    BY <2>1, <2>2, <2>3, OneActs
<1>7. QED
  BY <1>1, <1>2, <1>3, <1>4, <1>5, <1>6

-----------------------------------------------------------------------------
LEMMA Inductive == IInv /\ [Next]_consoleVars => IInv'
<1> SUFFICES ASSUME IInv, [Next]_consoleVars PROVE IInv'
  OBVIOUS
<1>1. ASSUME NEW c \in Consoles,
             \/ \E m \in Modes : Open(c, m)
             \/ CloseAsk(c) \/ Closing(c) \/ Kill(c)
      PROVE  IInv'
  BY <1>1, LifeKeeps, ExitKeeps, ConstantsAssumption DEF Closing
<1>2. ASSUME NEW c \in Consoles,
             (\E kind \in Kinds : StartOp(c, kind)) \/ Work(c) \/ ChildExits(c)
      PROVE  IInv'
  BY <1>2, StartOpKeeps, WorkKeeps, SettleKeeps DEF Work
<1>3. ASSUME NEW c \in Consoles, LoadPage(c) \/ BeginSave(c) \/ Saving(c)
      PROVE  IInv'
  BY <1>3, SaveKeeps DEF Saving
<1>4. CASE UNCHANGED consoleVars
  <2>1. TypeOK' /\ \A d \in Consoles : Apart(d)
    BY <1>4 DEF IInv, TypeOK, Apart, consoleVars, server, ops, settings, save
  <2>2. QED
    BY <2>1, ApartKeeps DEF IInv
<1>5. QED
  BY <1>1, <1>2, <1>3, <1>4, OutsideKeeps DEF Next

LEMMA Invariance == Spec => []IInv
BY Initial, Inductive, PTL DEF Spec

(* Consoles, their operations and the settings form keep to their statuses *)
(* and stages (web/operations.py), whatever is killed or closed.           *)
THEOREM TypeCorrect == Spec => []TypeOK
<1>1. IInv => TypeOK
  BY DEF IInv
<1>2. QED
  BY <1>1, Invariance, PTL

LEMMA OneTrackerHolds == IInv => OneTracker
<1>1. ASSUME IInv, NEW c \in Consoles, life[c] # "killed", Tracking(c)
      PROVE  trackLock = c
  BY <1>1 DEF IInv, TypeOK, Tracking, Good, Minds, LocksTracking, Alive
<1>2. QED
  BY <1>1, ConstantsAssumption DEF OneTracker

LEMMA NoChildRemains == IInv => NoneLeftBehind
BY DEF IInv, Good, Minds, NoneLeftBehind

(* One tracker pass at a time, cron's or a console's: ctrack.lock is held  *)
(* around the child (operations.py:130-168).                               *)
THEOREM OneAtATime == Spec => []OneTracker
BY OneTrackerHolds, Invariance, PTL

(* A console that closed leaves no child, even one that was about to start *)
(* when it was asked to close (operations.py:117-124, 141-143).            *)
THEOREM ClosesClean == Spec => []NoneLeftBehind
BY NoChildRemains, Invariance, PTL

(* A save overwrites neither another console nor an edit made before its   *)
(* second look at the file (settings.py:186-243).                          *)
THEOREM SavesKept == Spec => SavesSurvive
<1> DEFINE Step == config'.by # NoOne /\ config' # config
                     => shown[config'.by] = config.n \/ overtaken[config'.by]
<1>1. ASSUME IInv, NEW c \in Consoles, Replace(c) PROVE Step
  <2>1. shown[c] = config.n \/ overtaken[c]
    BY <1>1 DEF IInv, Good, LocksConfig, Replace
  <2>2. config'.by = c
    BY <1>1 DEF Replace
  <2>3. QED
    BY <2>1, <2>2
<1>2. UNCHANGED config => Step
  OBVIOUS
<1>3. OutsideEdit => Step
  BY DEF OutsideEdit
<1>4. ASSUME NEW c \in Consoles,
             \/ (\E m \in Modes : Open(c, m)) \/ CloseAsk(c) \/ Closing(c) \/ Kill(c)
             \/ (\E kind \in Kinds : StartOp(c, kind)) \/ Work(c) \/ ChildExits(c)
             \/ LoadPage(c) \/ BeginSave(c) \/ CheckRevision(c) \/ Recheck(c) \/ SaveFails(c)
      PROVE  UNCHANGED config
  <2>1. CASE (\E m \in Modes : Open(c, m)) \/ CloseAsk(c) \/ Closing(c) \/ Kill(c)
    BY <2>1 DEF Open, CloseAsk, Closing, CloseTerminate, CloseJoin, Kill, Exit, settings, save
  <2>2. CASE (\E kind \in Kinds : StartOp(c, kind)) \/ Work(c) \/ ChildExits(c)
    BY <2>2 DEF StartOp, Work, LockTracking, Spawn, Collect, Deadline, Release, Settle,
                ChildExits, settings, save
  <2>3. CASE LoadPage(c) \/ BeginSave(c) \/ CheckRevision(c) \/ Recheck(c) \/ SaveFails(c)
    BY <2>3 DEF LoadPage, BeginSave, CheckRevision, Recheck, SaveFails
  <2>4. QED
    BY <1>4, <2>1, <2>2, <2>3
<1>5. /\ CronTracks \/ CronEnds => UNCHANGED config
      /\ UNCHANGED consoleVars => UNCHANGED config
  BY DEF CronTracks, CronEnds, consoleVars, settings, save
<1> HIDE DEF Step
<1>6. IInv /\ [Next]_consoleVars => [Step]_consoleVars
  BY <1>1, <1>2, <1>3, <1>4, <1>5 DEF Next, Saving
<1>7. QED
  BY <1>6, Invariance, PTL DEF Spec, SavesSurvive, Step

-----------------------------------------------------------------------------
(* The remote servers.                                                     *)
Request == [at : {"idle", "got", "sent", "failed"}, on : Consoles \cup {NoOne},
            id : Nat, kind : {"read", "start"}]

(* The variables of the bridges are what RemotesTypeOK says.               *)
LinkTyped ==
    /\ bridge \in Consoles \cup {NoOne}
    /\ closed \in [Consoles -> BOOLEAN]
    /\ holder \in [Consoles -> Tabs \cup {"here", NoOne}]
    /\ inbox \in [Consoles -> Seq(Message)]
    /\ outbox \in [Consoles -> Seq(Answer)]
    /\ request \in [Tabs -> Request]
    /\ asked \in Nat

(* On a bridge there is one message at a time, and only while somebody     *)
(* holds its lock; nobody waits at a closed one.                           *)
Link(c) ==
    /\ life[c] = "off" => closed[c] /\ inbox[c] = <<>>
    /\ closed[c] => holder[c] = NoOne /\ outbox[c] = <<>>
    /\ ~closed[c] /\ holder[c] = NoOne => inbox[c] = <<>> /\ outbox[c] = <<>>
    /\ ~closed[c] => Len(inbox[c]) + Len(outbox[c]) =< 1

(* A tab that has sent a request holds the bridge, on which there is       *)
(* nothing but that request or its answer.                                 *)
Waits(t) ==
    LET c == request[t].on
    IN  /\ request[t].at # "idle" => c \in Consoles /\ life[c] # "off"
        /\ request[t].at = "sent" =>
               /\ ~closed[c] /\ holder[c] = t
               /\ inbox[c] # <<>> => Head(inbox[c]).id = request[t].id
               /\ outbox[c] # <<>> => Head(outbox[c]).id = request[t].id

(* An action that asked the helper what it runs holds the bridge in the    *)
(* same way, and what it is told about an idle helper stays true.          *)
Asks ==
    /\ step # "idle" <=> manager = "here"
    /\ step \in {"act", "write"} => bridge = NoOne
    /\ step = "shake" =>
           /\ bridge \in Consoles
           /\ \A t \in Tabs : request[t].at # "idle" => request[t].on # bridge
    /\ step = "asked" =>
           /\ bridge \in Consoles /\ ~closed[bridge] /\ holder[bridge] = "here"
           /\ inbox[bridge] # <<>> =>
                  Head(inbox[bridge]).id = asked /\ Head(inbox[bridge]).kind = "overview"
           /\ outbox[bridge] # <<>> =>
                  /\ Head(outbox[bridge]).id = asked
                  /\ Head(outbox[bridge]).ok /\ ~Head(outbox[bridge]).busy => active[bridge] = 0

RInv ==
    /\ IInv /\ LinkTyped
    /\ \A c \in Consoles : Link(c)
    /\ NoForgottenBridge
    /\ \A t \in Tabs : Waits(t)
    /\ Asks

-----------------------------------------------------------------------------
(* What happens at one bridge leaves the others as they are.               *)
Same(d) ==
    /\ closed'[d] = closed[d] /\ holder'[d] = holder[d]
    /\ inbox'[d] = inbox[d] /\ outbox'[d] = outbox[d]
    /\ life'[d] = "off" <=> life[d] = "off"

LEMMA SameLink ==
    ASSUME NEW d \in Consoles, Link(d), Same(d)
    PROVE  Link(d)'
BY DEF Link, Same

LEMMA SameWaits ==
    ASSUME RInv, NEW t \in Tabs, Waits(t), request'[t] = request[t],
           \A d \in Consoles : life'[d] = "off" <=> life[d] = "off",
           request[t].at = "sent" => Same(request[t].on)
    PROVE  Waits(t)'
BY DEF Waits, Same

LEMMA OnlyOne ==
    ASSUME NEW S, NEW T, NEW s \in Seq(S), NEW t \in Seq(T), Len(s) + Len(t) =< 1, s # <<>>
    PROVE  t = <<>> /\ Len(s) = 1 /\ Tail(s) = <<>>
<1>1. Len(s) \in Nat \ {0} /\ Len(t) \in Nat
  BY EmptySeq
<1>2. Len(s) = 1 /\ Len(t) = 0
  <2>1. \A m \in Nat \ {0}, n \in Nat : m + n =< 1 => m = 1 /\ n = 0
    OBVIOUS
  <2>2. QED
    BY <1>1, <2>1
<1>3. Tail(s) \in Seq(S) /\ Len(Tail(s)) = 0
  BY <1>2
<1>4. QED
  BY <1>2, <1>3, EmptySeq

(* The four things that happen on a bridge.                                *)
LEMMA Transmits ==
    ASSUME RInv, NEW c \in Consoles, NEW owner \in Tabs \cup {"here"},
           NEW kind \in {"read", "start", "overview"},
           ~closed[c], holder[c] = NoOne, UNCHANGED life,
           Transmit(c, owner, kind)
    PROVE  /\ closed' = closed /\ closed' \in [Consoles -> BOOLEAN]
           /\ holder' \in [Consoles -> Tabs \cup {"here", NoOne}]
           /\ inbox' \in [Consoles -> Seq(Message)]
           /\ outbox' \in [Consoles -> Seq(Answer)]
           /\ asked' \in Nat
           /\ holder'[c] = owner /\ outbox'[c] = <<>>
           /\ Head(inbox'[c]) = [id |-> asked', kind |-> kind]
           /\ Link(c)'
           /\ \A d \in Consoles \ {c} : Same(d)
<1> DEFINE m == [id |-> asked', kind |-> kind]
<1>1. inbox[c] = <<>> /\ outbox[c] = <<>> /\ life[c] # "off"
  BY DEF RInv, Link
<1>2. asked' = asked + 1 /\ asked' \in Nat
  BY DEF RInv, LinkTyped, Transmit
<1>3. m \in Message
  BY <1>2 DEF Message
<1>4. inbox' = [inbox EXCEPT ![c] = <<m>>]
  BY <1>1 DEF Transmit, RInv, LinkTyped
<1>5. holder' = [holder EXCEPT ![c] = owner] /\ UNCHANGED <<closed, outbox>>
  BY DEF Transmit
<1>6. <<m>> \in Seq(Message) /\ Head(<<m>>) = m /\ Len(<<m>>) = 1
  BY <1>3
<1> HIDE DEF m
<1>7. /\ holder' \in [Consoles -> Tabs \cup {"here", NoOne}]
      /\ inbox' \in [Consoles -> Seq(Message)]
  BY <1>4, <1>5, <1>6 DEF RInv, LinkTyped
<1>8. holder'[c] = owner /\ inbox'[c] = <<m>> /\ outbox'[c] = <<>>
  BY <1>1, <1>4, <1>5 DEF RInv, LinkTyped
<1>9. owner # NoOne
  BY ConstantsAssumption, RemotesAssumption
<1>10. Link(c)'
  BY <1>1, <1>5, <1>6, <1>8, <1>9 DEF Link
<1>11. \A d \in Consoles \ {c} : Same(d)
  BY <1>4, <1>5 DEF RInv, LinkTyped, Same
<1>12. QED
  BY <1>2, <1>5, <1>6, <1>7, <1>8, <1>10, <1>11 DEF RInv, LinkTyped, m

LEMMA Takes ==
    ASSUME RInv, NEW c \in Consoles, outbox[c] # <<>>, UNCHANGED life, TakeAnswer(c)
    PROVE  /\ closed' = closed
           /\ holder' \in [Consoles -> Tabs \cup {"here", NoOne}]
           /\ inbox' \in [Consoles -> Seq(Message)]
           /\ outbox' \in [Consoles -> Seq(Answer)]
           /\ Link(c)'
           /\ \A d \in Consoles \ {c} : Same(d)
<1>1. Link(c) /\ outbox[c] \in Seq(Answer) /\ inbox[c] \in Seq(Message)
  BY DEF RInv, LinkTyped
<1>2. ~closed[c] /\ Len(inbox[c]) + Len(outbox[c]) =< 1
  BY <1>1 DEF Link
<1>3. Len(outbox[c]) + Len(inbox[c]) =< 1
  <2>1. Len(outbox[c]) \in Nat /\ Len(inbox[c]) \in Nat
    BY <1>1
  <2>2. \A m, n \in Nat : m + n = n + m
    OBVIOUS
  <2>3. QED
    BY <1>2, <2>1, <2>2
<1>4. inbox[c] = <<>> /\ Tail(outbox[c]) = <<>>
  BY <1>1, <1>3, OnlyOne
<1>5. /\ outbox' = [outbox EXCEPT ![c] = <<>>]
      /\ holder' = [holder EXCEPT ![c] = NoOne]
      /\ UNCHANGED <<closed, inbox>>
  BY <1>4 DEF TakeAnswer
<1>6. <<>> \in Seq(Answer) /\ Len(<<>>) = 0
  OBVIOUS
<1>7. /\ holder' \in [Consoles -> Tabs \cup {"here", NoOne}]
      /\ outbox' \in [Consoles -> Seq(Answer)]
  BY <1>5, <1>6 DEF RInv, LinkTyped
<1>8. holder'[c] = NoOne /\ outbox'[c] = <<>>
  BY <1>5 DEF RInv, LinkTyped
<1>9. Link(c)'
  <2>1. inbox'[c] = <<>> /\ closed'[c] = closed[c] /\ life'[c] = life[c]
    BY <1>4, <1>5
  <2>2. QED
    BY <1>1, <1>2, <1>6, <1>8, <2>1 DEF Link
<1>10. \A d \in Consoles \ {c} : Same(d)
  BY <1>5 DEF RInv, LinkTyped, Same
<1>11. QED
  BY <1>5, <1>7, <1>9, <1>10 DEF RInv, LinkTyped

LEMMA Gives ==
    ASSUME RInv, NEW c \in Consoles, ~closed[c], UNCHANGED life, GiveUp(c)
    PROVE  /\ closed' \in [Consoles -> BOOLEAN]
           /\ holder' \in [Consoles -> Tabs \cup {"here", NoOne}]
           /\ inbox' \in [Consoles -> Seq(Message)]
           /\ outbox' \in [Consoles -> Seq(Answer)]
           /\ closed'[c]
           /\ Link(c)'
           /\ \A d \in Consoles \ {c} : Same(d)
<1>1. /\ closed' = [closed EXCEPT ![c] = TRUE]
      /\ holder' = [holder EXCEPT ![c] = NoOne]
      /\ outbox' = [outbox EXCEPT ![c] = <<>>]
      /\ UNCHANGED inbox
  BY DEF GiveUp
<1>2. <<>> \in Seq(Answer)
  OBVIOUS
<1>3. /\ closed' \in [Consoles -> BOOLEAN]
      /\ holder' \in [Consoles -> Tabs \cup {"here", NoOne}]
      /\ outbox' \in [Consoles -> Seq(Answer)]
  BY <1>1, <1>2 DEF RInv, LinkTyped
<1>4. closed'[c] /\ holder'[c] = NoOne /\ outbox'[c] = <<>>
  BY <1>1 DEF RInv, LinkTyped
<1>5. life[c] # "off"
  BY DEF RInv, Link
<1>6. Link(c)'
  BY <1>4, <1>5 DEF Link
<1>7. \A d \in Consoles \ {c} : Same(d)
  BY <1>1 DEF RInv, LinkTyped, Same
<1>8. QED
  BY <1>1, <1>3, <1>4, <1>6, <1>7 DEF RInv, LinkTyped

(* An open bridge carries the answer, a closed one drops it.               *)
LEMMA Replies ==
    ASSUME RInv, NEW c \in Consoles, NEW ok \in BOOLEAN, NEW busy \in BOOLEAN,
           Serving(c), UNCHANGED life, Reply(c, Head(inbox[c]).id, ok, busy)
    PROVE  /\ closed' = closed /\ holder' = holder
           /\ inbox' \in [Consoles -> Seq(Message)]
           /\ outbox' \in [Consoles -> Seq(Answer)]
           /\ Link(c)'
           /\ ~closed[c] =>
                 /\ inbox'[c] = <<>> /\ outbox'[c] # <<>>
                 /\ Head(outbox'[c]) = [id |-> Head(inbox[c]).id, ok |-> ok, busy |-> busy]
           /\ \A d \in Consoles \ {c} : Same(d)
<1> DEFINE a == [id |-> Head(inbox[c]).id, ok |-> ok, busy |-> busy]
<1>1. Link(c) /\ outbox[c] \in Seq(Answer) /\ inbox[c] \in Seq(Message) /\ closed[c] \in BOOLEAN
  BY DEF RInv, LinkTyped
<1>2. inbox[c] # <<>> /\ life[c] = "up"
  BY DEF Serving
<1>3. Head(inbox[c]) \in Message /\ Tail(inbox[c]) \in Seq(Message)
  BY <1>1, <1>2
<1>4. a \in Answer
  BY <1>3 DEF Answer, Message
<1>5. Len(inbox[c]) >= 1 /\ Len(Tail(inbox[c])) = Len(inbox[c]) - 1
  BY <1>1, <1>2
<1>6. UNCHANGED <<closed, holder>> /\ inbox' = [inbox EXCEPT ![c] = Tail(inbox[c])]
  BY DEF Reply, RInv, LinkTyped
<1>7. inbox' \in [Consoles -> Seq(Message)] /\ inbox'[c] = Tail(inbox[c])
  BY <1>3, <1>6 DEF RInv, LinkTyped
<1>8. CASE closed[c]
  <2>1. UNCHANGED outbox
    BY <1>8 DEF Reply
  <2>2. Link(c)'
    BY <1>1, <1>2, <1>6, <1>8, <2>1 DEF Link
  <2>3. \A d \in Consoles \ {c} : Same(d)
    BY <1>6, <2>1 DEF RInv, LinkTyped, Same
  <2>4. QED
    BY <1>6, <1>7, <1>8, <2>1, <2>2, <2>3 DEF RInv, LinkTyped
<1>9. CASE ~closed[c]
  <2>1. Len(inbox[c]) + Len(outbox[c]) =< 1 /\ holder[c] # NoOne
    BY <1>1, <1>2, <1>9 DEF Link
  <2>2. outbox[c] = <<>> /\ Tail(inbox[c]) = <<>>
    BY <1>1, <1>2, <2>1, OnlyOne
  <2>3. outbox' = [outbox EXCEPT ![c] = <<a>>]
    <3>1. outbox' = [outbox EXCEPT ![c] = Append(outbox[c], a)]
      BY <1>9 DEF Reply, RInv, LinkTyped
    <3>2. Append(outbox[c], a) = <<a>>
      BY <2>2
    <3>3. QED
      BY <3>1, <3>2
  <2>4. <<a>> \in Seq(Answer) /\ Len(<<a>>) = 1 /\ Head(<<a>>) = a /\ <<a>> # <<>> /\ Len(<<>>) = 0
    BY <1>4
  <2> HIDE DEF a
  <2>5. outbox' \in [Consoles -> Seq(Answer)] /\ outbox'[c] = <<a>>
    BY <2>3, <2>4 DEF RInv, LinkTyped
  <2>6. Link(c)'
    BY <1>2, <1>6, <1>7, <1>9, <2>1, <2>2, <2>4, <2>5 DEF Link
  <2>7. \A d \in Consoles \ {c} : Same(d)
    BY <1>6, <2>3 DEF RInv, LinkTyped, Same
  <2>8. QED
    BY <1>6, <1>7, <2>2, <2>4, <2>5, <2>6, <2>7 DEF a
<1>10. QED
  BY <1>1, <1>8, <1>9

-----------------------------------------------------------------------------
LEMMA Initially == RemotesInit => RInv
<1> SUFFICES ASSUME RemotesInit PROVE RInv
  OBVIOUS
<1>1. IInv
  BY Initial DEF RemotesInit
<1>2. LinkTyped
  BY DEF RemotesInit, LinkTyped, Idle, Request
<1>3. \A c \in Consoles : Link(c)
  BY DEF RemotesInit, Init, Link
<1>4. NoForgottenBridge
  BY DEF RemotesInit, NoForgottenBridge
<1>5. \A t \in Tabs : Waits(t)
  BY DEF RemotesInit, Waits, Idle
<1>6. Asks
  BY RemotesAssumption DEF RemotesInit, Asks
<1>7. QED
  BY <1>1, <1>2, <1>3, <1>4, <1>5, <1>6 DEF RInv

(* A helper answers.                                                       *)
LEMMA ReplyKeeps ==
    ASSUME RInv, IInv', NEW c \in Consoles, NEW ok \in BOOLEAN, NEW busy \in BOOLEAN,
           Serving(c), Reply(c, Head(inbox[c]).id, ok, busy),
           UNCHANGED <<life, bridge, step, manager, request, asked>>,
           \A d \in Consoles \ {c} : active'[d] = active[d],
           Head(inbox[c]).kind = "overview" /\ ok /\ ~busy => active'[c] = 0
    PROVE  RInv'
<1>1. /\ closed' = closed /\ holder' = holder
      /\ inbox' \in [Consoles -> Seq(Message)]
      /\ outbox' \in [Consoles -> Seq(Answer)]
      /\ Link(c)'
      /\ ~closed[c] =>
            /\ inbox'[c] = <<>> /\ outbox'[c] # <<>>
            /\ Head(outbox'[c]) = [id |-> Head(inbox[c]).id, ok |-> ok, busy |-> busy]
      /\ \A d \in Consoles \ {c} : Same(d)
  BY Replies
<1>2. inbox[c] # <<>>
  BY DEF Serving
<1>3. LinkTyped'
  BY <1>1 DEF RInv, LinkTyped
<1>4. \A d \in Consoles : Link(d)'
  BY <1>1, SameLink DEF RInv
<1>5. NoForgottenBridge'
  BY <1>1 DEF RInv, NoForgottenBridge
<1>6. ASSUME NEW t \in Tabs PROVE Waits(t)'
  <2>1. CASE request[t].at = "sent" /\ request[t].on = c
    <3>1. ~closed[c] /\ holder[c] = t /\ Head(inbox[c]).id = request[t].id
      BY <1>2, <2>1 DEF RInv, Waits
    <3>2. inbox'[c] = <<>> /\ Head(outbox'[c]).id = request[t].id
      BY <1>1, <3>1
    <3>3. request' = request /\ life' = life
      OBVIOUS
    <3>4. QED
      BY <1>1, <2>1, <3>1, <3>2, <3>3 DEF RInv, Waits
  <2>2. CASE ~(request[t].at = "sent" /\ request[t].on = c)
    <3>1. request[t].at = "sent" => Same(request[t].on)
      BY <1>1, <2>2 DEF RInv, Waits
    <3>2. QED
      BY <3>1, SameWaits DEF RInv
  <2>3. QED
    BY <2>1, <2>2
<1>7. Asks'
  <2>1. CASE step = "asked" /\ bridge = c
    <3>1. ~closed[c] /\ holder[c] = "here"
      BY <2>1 DEF RInv, Asks
    <3>2. Head(inbox[c]).id = asked /\ Head(inbox[c]).kind = "overview"
      BY <1>2, <2>1 DEF RInv, Asks
    <3>3. /\ inbox'[c] = <<>>
          /\ Head(outbox'[c]).id = asked
          /\ Head(outbox'[c]).ok = ok /\ Head(outbox'[c]).busy = busy
      BY <1>1, <3>1, <3>2
    <3>4. QED
      BY <1>1, <2>1, <3>1, <3>2, <3>3 DEF RInv, Asks
  <2>2. CASE step = "asked" /\ bridge # c
    <3>1. bridge \in Consoles \ {c}
      BY <2>2 DEF RInv, Asks
    <3>2. Same(bridge) /\ active'[bridge] = active[bridge]
      BY <1>1, <3>1
    <3>3. QED
      BY <2>2, <3>1, <3>2 DEF RInv, Asks, Same
  <2>3. CASE step # "asked"
    BY <2>3 DEF RInv, Asks
  <2>4. QED
    BY <2>1, <2>2, <2>3
<1>8. QED
  BY <1>3, <1>4, <1>5, <1>6, <1>7 DEF RInv

(* A helper does something else: its inbox may be dropped, its operation   *)
(* may end.                                                                *)
LEMMA HelperKeeps ==
    ASSUME RInv, IInv',
           UNCHANGED <<bridge, step, manager, request, asked, closed, holder, outbox>>,
           \A d \in Consoles : /\ life'[d] = "off" <=> life[d] = "off"
                               /\ inbox'[d] \in {inbox[d], <<>>}
                               /\ active'[d] \in {active[d], 0},
           inbox' \in [Consoles -> Seq(Message)]
    PROVE  RInv'
<1>1. LinkTyped'
  BY DEF RInv, LinkTyped
<1>2. ASSUME NEW d \in Consoles PROVE Link(d)'
  <2>1. Link(d) /\ inbox[d] \in Seq(Message) /\ outbox[d] \in Seq(Answer)
    BY DEF RInv, LinkTyped
  <2>2. CASE inbox'[d] = inbox[d]
    BY <2>1, <2>2, SameLink DEF Same
  <2>3. CASE inbox'[d] = <<>>
    <3>1. Len(inbox[d]) \in Nat /\ Len(outbox[d]) \in Nat /\ Len(<<>>) = 0
      BY <2>1
    <3>2. \A m, n \in Nat : m + n =< 1 => 0 + n =< 1
      OBVIOUS
    <3>3. ~closed[d] => Len(inbox'[d]) + Len(outbox'[d]) =< 1
      BY <2>1, <2>3, <3>1, <3>2 DEF Link
    <3>4. QED
      BY <2>1, <2>3, <3>3 DEF Link
  <2>4. QED
    BY <2>2, <2>3
<1>3. NoForgottenBridge'
  BY DEF RInv, NoForgottenBridge
<1>4. \A t \in Tabs : Waits(t)'
  BY DEF RInv, Waits
<1>5. Asks'
  BY DEF RInv, Asks
<1>6. QED
  BY <1>1, <1>2, <1>3, <1>4, <1>5 DEF RInv

-----------------------------------------------------------------------------
LEMMA Unmoved == IInv /\ UNCHANGED consoleVars => IInv'
BY Inductive

LEMMA Moves ==
    ASSUME IInv, NEW c \in Consoles,
           CloseAsk(c) \/ Work(c) \/ Closing(c) \/ ChildExits(c)
    PROVE  /\ IInv'
           /\ \A d \in Consoles : /\ life'[d] = "off" <=> life[d] = "off"
                                  /\ active'[d] \in {active[d], 0}
<1>1. IInv'
  BY LifeKeeps, ExitKeeps, WorkKeeps, SettleKeeps DEF Work, Closing
<1>2. life \in [Consoles -> {"off", "up", "stopping", "terminated", "gone", "killed"}]
      /\ active \in [Consoles -> Nat]
  BY DEF IInv, TypeOK
<1>3. CASE CloseAsk(c)
  BY <1>1, <1>2, <1>3 DEF CloseAsk, ops
<1>4. CASE Work(c) /\ ~Settle(c)
  BY <1>1, <1>4
  DEF Work, LockTracking, Spawn, Collect, Deadline, Release, server
<1>5. CASE Settle(c)
  BY <1>1, <1>2, <1>5 DEF Settle, server
<1>6. CASE CloseTerminate(c)
  BY <1>1, <1>2, <1>6 DEF CloseTerminate
<1>7. CASE CloseJoin(c)
  BY <1>1, <1>2, <1>7 DEF CloseJoin, Exit
<1>8. CASE ChildExits(c)
  BY <1>1, <1>8 DEF ChildExits, server
<1>9. QED
  BY <1>3, <1>4, <1>5, <1>6, <1>7, <1>8 DEF Closing

LEMMA ServeKeeps ==
    ASSUME RInv, NEW c \in Consoles, Serve(c)
    PROVE  RInv'
<1>1. CASE ServeStart(c)
  <2>1. PICK kind \in Kinds : StartOp(c, kind) /\ Reply(c, Head(inbox[c]).id, TRUE, FALSE)
    BY <1>1 DEF ServeStart
  <2>2. IInv'
    BY <2>1, StartOpKeeps DEF RInv
  <2>3. UNCHANGED life /\ active' = [active EXCEPT ![c] = started']
    BY <2>1 DEF StartOp, server
  <2>4. \A d \in Consoles \ {c} : active'[d] = active[d]
    BY <2>3 DEF RInv, IInv, TypeOK
  <2>5. Serving(c) /\ Head(inbox[c]).kind = "start"
    BY <1>1 DEF ServeStart
  <2>6. UNCHANGED <<bridge, step, manager, request, asked>>
    BY <1>1 DEF ServeStart, FarEnd, acting
  <2>7. QED
    BY <2>1, <2>2, <2>3, <2>4, <2>5, <2>6, ReplyKeeps
<1>2. CASE ServeRead(c)
  <2>1. IInv' /\ UNCHANGED <<life, active>>
    BY <1>2, Unmoved DEF ServeRead, RInv, consoleVars, server, ops
  <2>2. UNCHANGED <<bridge, step, manager, request, asked>>
    BY <1>2 DEF ServeRead, FarEnd, acting
  <2>3. Serving(c) /\ Reply(c, Head(inbox[c]).id, TRUE, active[c] # 0)
    BY <1>2 DEF ServeRead
  <2>4. QED
    BY <2>1, <2>2, <2>3, ReplyKeeps
<1>3. CASE ServeFails(c)
  <2>1. IInv' /\ UNCHANGED <<life, active>>
    BY <1>3, Unmoved DEF ServeFails, RInv, consoleVars, server, ops
  <2>2. UNCHANGED <<bridge, step, manager, request, asked>>
    BY <1>3 DEF ServeFails, FarEnd, acting
  <2>3. Serving(c) /\ Reply(c, Head(inbox[c]).id, FALSE, FALSE)
    BY <1>3 DEF ServeFails
  <2>4. QED
    BY <2>1, <2>2, <2>3, ReplyKeeps
<1>4. QED
  BY <1>1, <1>2, <1>3 DEF Serve

(* The helper's own console moves, its input or its connection ends.       *)
LEMMA FarEndKeeps ==
    ASSUME RInv, NEW c \in Consoles,
           \/ HelperEof(c) \/ HelperStops(c) \/ LinkBreaks(c)
           \/ (Work(c) \/ Closing(c)) /\ UNCHANGED remotes
           \/ ChildExits(c) /\ UNCHANGED remotes
    PROVE  RInv'
<1>1. CASE HelperEof(c)
  <2>1. /\ UNCHANGED <<consoleVars, bridge, step, manager, request, asked, closed, holder, outbox>>
        /\ inbox' = [inbox EXCEPT ![c] = <<>>]
    BY <1>1 DEF HelperEof, acting
  <2>2. /\ inbox' \in [Consoles -> Seq(Message)]
        /\ \A d \in Consoles : inbox'[d] \in {inbox[d], <<>>}
    <3>1. <<>> \in Seq(Message)
      OBVIOUS
    <3>2. QED
      BY <2>1, <3>1 DEF RInv, LinkTyped
  <2>3. IInv' /\ UNCHANGED <<life, active>>
    BY <2>1, Unmoved DEF RInv, consoleVars, server, ops
  <2>4. QED
    BY <2>1, <2>2, <2>3, HelperKeeps
<1>2. CASE LinkBreaks(c)
  <2>1. UNCHANGED <<consoleVars, bridge, step, manager, request, asked, closed, holder,
                    inbox, outbox>>
    BY <1>2 DEF LinkBreaks, acting
  <2>2. IInv' /\ UNCHANGED <<life, active>>
    BY <2>1, Unmoved DEF RInv, consoleVars, server, ops
  <2>3. QED
    BY <2>1, <2>2, HelperKeeps DEF RInv, LinkTyped
<1>3. CASE \/ HelperStops(c)
           \/ (Work(c) \/ Closing(c)) /\ UNCHANGED remotes
           \/ ChildExits(c) /\ UNCHANGED remotes
  <2>1. CloseAsk(c) \/ Work(c) \/ Closing(c) \/ ChildExits(c)
    BY <1>3 DEF HelperStops
  <2>2. UNCHANGED <<bridge, step, manager, request, asked, closed, holder, inbox, outbox>>
    BY <1>3 DEF HelperStops, remotes, acting, link
  <2>3. QED
    BY <2>1, <2>2, Moves, HelperKeeps DEF RInv, LinkTyped
<1>4. QED
  BY <1>1, <1>2, <1>3

-----------------------------------------------------------------------------
(* Steps that only the server list or the installer sees.                  *)
LEMMA ElsewhereKeeps ==
    ASSUME RInv, UNCHANGED <<consoleVars, bridge, link, request, asked>>, Asks'
    PROVE  RInv'
<1>1. IInv' /\ UNCHANGED life
  BY Unmoved DEF RInv, consoleVars, server
<1>2. QED
  BY <1>1 DEF RInv, LinkTyped, Link, NoForgottenBridge, Waits, link

(* A tab looks, sends, reads, gives up.                                    *)
LEMMA TabKeeps ==
    ASSUME RInv, NEW t \in Tabs, UNCHANGED <<consoleVars, bridge, step, manager>>,
           LinkTyped', \A d \in Consoles : Link(d)', NoForgottenBridge',
           Waits(t)',
           \A u \in Tabs \ {t} : request'[u] = request[u],
           \A u \in Tabs \ {t} : request[u].at = "sent" => Same(request[u].on),
           Asks'
    PROVE  RInv'
<1>1. IInv' /\ UNCHANGED life
  BY Unmoved DEF RInv, consoleVars, server
<1>2. \A u \in Tabs \ {t} : Waits(u)'
  BY <1>1, SameWaits DEF RInv
<1>3. QED
  BY <1>1, <1>2 DEF RInv

LEMMA Requests ==
    ASSUME LinkTyped, NEW t \in Tabs, NEW r, request' = [request EXCEPT ![t] = r],
           r \in Request
    PROVE  /\ request' \in [Tabs -> Request]
           /\ request'[t] = r
           /\ \A u \in Tabs \ {t} : request'[u] = request[u]
BY DEF LinkTyped

(* Steps of a tab that leave the bridges alone.                            *)
LEMMA WaitingKeeps ==
    ASSUME RInv, NEW t \in Tabs, UNCHANGED <<consoleVars, bridge, step, manager, link, asked>>,
           NEW r, request' = [request EXCEPT ![t] = r],
           r \in Request,
           r.at # "sent",
           r.at # "idle" => r.on \in Consoles /\ life[r.on] # "off",
           step = "shake" /\ r.at # "idle" => request[t].at # "idle" /\ r.on = request[t].on
    PROVE  RInv'
<1>1. /\ request' \in [Tabs -> Request]
      /\ request'[t] = r
      /\ \A u \in Tabs \ {t} : request'[u] = request[u]
  BY Requests DEF RInv
<1>2. UNCHANGED <<life, active, closed, holder, inbox, outbox>>
  BY DEF consoleVars, server, ops, link
<1>3. LinkTyped'
  BY <1>1, <1>2 DEF RInv, LinkTyped
<1>4. \A d \in Consoles : Same(d) /\ Link(d)'
  BY <1>2, SameLink DEF Same, RInv
<1>5. NoForgottenBridge'
  BY <1>2 DEF RInv, NoForgottenBridge
<1>6. Waits(t)'
  BY <1>1, <1>2 DEF Waits
<1>7. Asks'
  <2>1. step = "shake" =>
           \A u \in Tabs : request'[u].at # "idle" => request'[u].on # bridge
    BY <1>1 DEF RInv, Asks
  <2>2. QED
    BY <1>2, <2>1 DEF RInv, Asks
<1>8. \A u \in Tabs \ {t} : request[u].at = "sent" => Same(request[u].on)
  BY <1>4 DEF RInv, Waits
<1>9. QED
  BY <1>1, <1>3, <1>4, <1>5, <1>6, <1>7, <1>8, TabKeeps

LEMMA LookUpKeeps ==
    ASSUME RInv, NEW t \in Tabs, NEW kind \in {"read", "start"}, LookUp(t, kind)
    PROVE  RInv'
<1>1. bridge \in Consoles /\ ~closed[bridge] /\ life[bridge] # "off"
  BY DEF LookUp, RInv, LinkTyped, Link
<1>2. step = "idle"
  BY RemotesAssumption DEF LookUp, RInv, Asks
<1>3. UNCHANGED <<consoleVars, bridge, step, manager, link, asked>>
  BY DEF LookUp, ForTab, acting
<1>4. request' = [request EXCEPT ![t] = [at |-> "got", on |-> bridge, id |-> 0, kind |-> kind]]
  BY DEF LookUp
<1> DEFINE r == [at |-> "got", on |-> bridge, id |-> 0, kind |-> kind]
<1>5. /\ r \in Request
      /\ r.at = "got" /\ r.on = bridge /\ request' = [request EXCEPT ![t] = r]
  BY <1>1, <1>4 DEF Request
<1> HIDE DEF r
<1>6. QED
  BY <1>1, <1>2, <1>3, <1>5, WaitingKeeps

LEMMA FindClosedKeeps ==
    ASSUME RInv, NEW t \in Tabs, FindClosed(t)
    PROVE  RInv'
<1> DEFINE r == [request[t] EXCEPT !.at = "failed"]
<1>1. UNCHANGED <<consoleVars, bridge, step, manager, link, asked>>
  BY DEF FindClosed, ForTab, acting
<1>2. request' = [request EXCEPT ![t] = r]
  BY DEF FindClosed
<1>3. request[t] \in Request
  BY DEF RInv, LinkTyped
<1>4. r.at = "failed" /\ r.on = request[t].on /\ request[t].at = "got"
  BY <1>3 DEF FindClosed
<1>5. request[t].on \in Consoles /\ life[request[t].on] # "off"
  BY <1>4 DEF RInv, Waits
<1>6. r \in Request
  BY <1>3 DEF Request
<1> HIDE DEF r
<1>7. QED
  BY <1>1, <1>2, <1>4, <1>5, <1>6, WaitingKeeps

LEMMA ShowErrorKeeps ==
    ASSUME RInv, NEW t \in Tabs, ShowError(t)
    PROVE  RInv'
<1>1. UNCHANGED <<consoleVars, bridge, step, manager, link, asked>>
  BY DEF ShowError, acting
<1>2. request' = [request EXCEPT ![t] = Idle]
  BY DEF ShowError
<1>3. Idle.at = "idle" /\ Idle \in Request
  BY DEF Idle, Request
<1>4. QED
  BY <1>1, <1>2, <1>3, WaitingKeeps

LEMMA SendKeeps ==
    ASSUME RInv, NEW t \in Tabs, Send(t)
    PROVE  RInv'
<1>0. PICK c : c = request[t].on
  OBVIOUS
<1> DEFINE r == [request[t] EXCEPT !.at = "sent", !.id = asked']
<1>1. request[t] \in Request
  BY DEF RInv, LinkTyped
<1>2. request[t].at = "got" /\ c \in Consoles /\ life[c] # "off"
  BY <1>0 DEF Send, RInv, Waits
<1>3. holder[c] = NoOne /\ ~closed[c] /\ Transmit(c, t, request[t].kind)
  BY <1>0 DEF Send
<1>4. UNCHANGED <<consoleVars, bridge, step, manager>> /\ UNCHANGED <<life, active>>
  BY DEF Send, ForTab, acting, consoleVars, server, ops
<1>5. request[t].kind \in {"read", "start", "overview"}
  BY <1>1 DEF Request
<1>6. /\ closed' = closed /\ closed' \in [Consoles -> BOOLEAN]
      /\ holder' \in [Consoles -> Tabs \cup {"here", NoOne}]
      /\ inbox' \in [Consoles -> Seq(Message)]
      /\ outbox' \in [Consoles -> Seq(Answer)]
      /\ asked' \in Nat
      /\ holder'[c] = t /\ outbox'[c] = <<>>
      /\ Head(inbox'[c]) = [id |-> asked', kind |-> request[t].kind]
      /\ Link(c)'
      /\ \A d \in Consoles \ {c} : Same(d)
  BY <1>2, <1>3, <1>4, <1>5, Transmits
<1>7. request' = [request EXCEPT ![t] = r]
  BY DEF Send
<1>8. /\ r \in Request
      /\ r.at = "sent" /\ r.on = c /\ r.id = asked'
  BY <1>0, <1>1, <1>2, <1>6 DEF Request
<1> HIDE DEF r
<1>9. /\ request' \in [Tabs -> Request]
      /\ request'[t] = r
      /\ \A u \in Tabs \ {t} : request'[u] = request[u]
  BY <1>7, <1>8, Requests DEF RInv
<1>10. LinkTyped'
  BY <1>4, <1>6, <1>9 DEF RInv, LinkTyped
<1>11. \A d \in Consoles : Link(d)'
  BY <1>6, SameLink DEF RInv
<1>12. NoForgottenBridge'
  BY <1>4, <1>6 DEF RInv, NoForgottenBridge
<1>13. Waits(t)'
  BY <1>2, <1>3, <1>4, <1>6, <1>8, <1>9 DEF Waits
<1>14. \A u \in Tabs \ {t} : request[u].at = "sent" => Same(request[u].on)
  <2>1. \A u \in Tabs : request[u].at = "sent" =>
           holder[request[u].on] = u /\ request[u].on \in Consoles
    BY DEF RInv, Waits
  <2>2. NoOne \notin Tabs
    BY RemotesAssumption
  <2>3. QED
    BY <1>3, <1>6, <2>1, <2>2
<1>15. Asks'
  <2>1. bridge = c
    BY <1>2, <1>3 DEF RInv, NoForgottenBridge
  <2>2. step # "asked"
    BY <1>3, <2>1, RemotesAssumption DEF RInv, Asks
  <2>3. step # "shake"
    BY <1>0, <1>2, <2>1 DEF RInv, Asks
  <2>4. QED
    BY <1>4, <2>2, <2>3 DEF RInv, Asks
<1>16. QED
  BY <1>4, <1>9, <1>10, <1>11, <1>12, <1>13, <1>14, <1>15, TabKeeps

(* The two ends of a request: the answer, or the end of the bridge.        *)
LEMMA EndKeeps ==
    ASSUME RInv, NEW t \in Tabs, Receive(t) \/ TimeOut(t)
    PROVE  RInv'
<1>0. PICK c : c = request[t].on
  OBVIOUS
<1> DEFINE r == IF Receive(t) THEN Idle ELSE [request[t] EXCEPT !.at = "failed"]
<1>1. request[t] \in Request
  BY DEF RInv, LinkTyped
<1>2. request[t].at = "sent"
  BY DEF Receive, TimeOut
<1>3. c \in Consoles /\ life[c] # "off" /\ ~closed[c] /\ holder[c] = t
  BY <1>0, <1>2 DEF RInv, Waits
<1>4. UNCHANGED <<consoleVars, bridge, step, manager>> /\ UNCHANGED <<life, active>>
  BY DEF Receive, TimeOut, ForTab, acting, consoleVars, server, ops
<1>5. /\ closed' \in [Consoles -> BOOLEAN]
      /\ holder' \in [Consoles -> Tabs \cup {"here", NoOne}]
      /\ inbox' \in [Consoles -> Seq(Message)]
      /\ outbox' \in [Consoles -> Seq(Answer)]
      /\ Link(c)'
      /\ closed'[c] \/ closed'[c] = closed[c]
      /\ \A d \in Consoles \ {c} : Same(d)
  <2>1. CASE Receive(t)
    <3>1. outbox[c] # <<>> /\ TakeAnswer(c)
      BY <1>0, <2>1 DEF Receive
    <3>2. QED
      BY <1>3, <1>4, <3>1, Takes DEF RInv, LinkTyped
  <2>2. CASE TimeOut(t)
    <3>1. GiveUp(c)
      BY <1>0, <2>2 DEF TimeOut
    <3>2. QED
      BY <1>3, <1>4, <3>1, Gives
  <2>3. QED
    BY <2>1, <2>2
<1>6. /\ request' = [request EXCEPT ![t] = r] /\ asked' = asked
      /\ r.at # "sent" /\ (r.at # "idle" => r.on = c)
      /\ r \in Request
  BY <1>0, <1>1, <1>2 DEF Receive, TimeOut, Idle, Request
<1> HIDE DEF r
<1>7. /\ request' \in [Tabs -> Request]
      /\ request'[t] = r
      /\ \A u \in Tabs \ {t} : request'[u] = request[u]
  BY <1>6, Requests DEF RInv
<1>8. LinkTyped'
  BY <1>4, <1>5, <1>6, <1>7 DEF RInv, LinkTyped
<1>9. \A d \in Consoles : Link(d)'
  BY <1>5, SameLink DEF RInv
<1>10. NoForgottenBridge'
  BY <1>3, <1>4, <1>5 DEF RInv, NoForgottenBridge, Same
<1>11. Waits(t)'
  BY <1>3, <1>4, <1>6, <1>7 DEF Waits
<1>12. \A u \in Tabs \ {t} : request[u].at = "sent" => Same(request[u].on)
  BY <1>3, <1>5 DEF RInv, Waits
<1>13. Asks'
  <2>1. step = "asked" => bridge \in Consoles /\ Same(bridge) /\ active'[bridge] = active[bridge]
    BY <1>3, <1>4, <1>5, RemotesAssumption DEF RInv, Asks
  <2>2. step = "shake" => \A u \in Tabs : request'[u].at # "idle" => request'[u].on # bridge
    BY <1>0, <1>2, <1>6, <1>7 DEF RInv, Asks
  <2>3. QED
    BY <1>4, <1>6, <2>1, <2>2 DEF RInv, Asks, Same
<1>14. QED
  BY <1>4, <1>7, <1>8, <1>9, <1>10, <1>11, <1>12, <1>13, TabKeeps

-----------------------------------------------------------------------------
(* An action on the server list and an installation take turns, and who    *)
(* writes servers.json has seen under servers.lock what it replaces.       *)
Lists ==
    /\ step # "idle" <=> manager = "here"
    /\ installer \in {"saving", "writing"} <=> manager = "installer"
    /\ DOMAIN form = {"here", "there", "installer"}
    /\ step = "write" <=> regLock = "here"
    /\ regLock = "here" => form["here"] = registry
    /\ installer = "writing" <=> regLock = "installer"
    /\ installer = "writing" => form["installer"] = registry
    /\ installer = "saving" => form["installer"] = revision

LEMMA ListsInitially == RemotesInit => Lists
BY RemotesAssumption DEF RemotesInit, Lists

(* Most of an action happens before the list is locked.                    *)
LEMMA ListsStay ==
    ASSUME Lists, UNCHANGED <<registry, regLock, form, installer, revision>>,
           step # "write", step' # "write",
           step' # "idle" <=> manager' = "here",
           manager' = "installer" <=> manager = "installer"
    PROVE  Lists'
BY DEF Lists

LEMMA ActLists ==
    ASSUME Lists,
           \/ Act
           \/ \E p \in Profiles, action \in {"save", "remove", "connect", "disconnect"} :
                 Begin(action, p)
    PROVE  Lists'
<1>1. ASSUME NEW p \in Profiles, NEW action \in {"save", "remove", "connect", "disconnect"},
             Begin(action, p)
      PROVE  Lists'
  BY <1>1, ListsStay, RemotesAssumption DEF Lists, Begin, list, install
<1>2. CASE DropNothing
  BY <1>2, ListsStay DEF Lists, DropNothing, Forget, Go, list
<1>3. CASE DropAsk
  BY <1>3, ListsStay DEF Lists, DropAsk, Go, list, install
<1>4. CASE DropConfirmed
  BY <1>4, ListsStay DEF Lists, DropConfirmed, Forget, Go, list
<1>5. CASE DropRefused
  BY <1>5, ListsStay, RemotesAssumption DEF Lists, DropRefused, Leave, list, install
<1>6. CASE DropBreaks
  BY <1>6, ListsStay, RemotesAssumption DEF Lists, DropBreaks, Leave, list, install
<1>7. ASSUME NEW c \in Consoles, ConnectSpawn(c) PROVE Lists'
  BY <1>7, ListsStay DEF Lists, ConnectSpawn, Go, list, install
<1>8. CASE ConnectDone \/ ConnectFails \/ ConnectNothing
  BY <1>8, ListsStay, RemotesAssumption
  DEF Lists, ConnectDone, ConnectFails, ConnectNothing, Leave, list
<1>9. CASE Disconnected
  BY <1>9, ListsStay, RemotesAssumption DEF Lists, Disconnected, Leave, list, install
<1>10. CASE ChangeList
  BY <1>10, RemotesAssumption DEF Lists, ChangeList, Leave, Go, install
<1>11. CASE WriteList
  BY <1>11, RemotesAssumption DEF Lists, WriteList, Leave, install
<1>12. QED
  BY <1>1, <1>2, <1>3, <1>4, <1>5, <1>6, <1>7, <1>8, <1>9, <1>10, <1>11 DEF Act, Drop, Connect

LEMMA OtherLists ==
    ASSUME Lists,
           \/ LoadForm("here") \/ LoadForm("there") \/ ThereLocks \/ ThereWrites
           \/ BeginInstall \/ Install
    PROVE  Lists'
<1>1. CASE LoadForm("here")
  BY <1>1 DEF Lists, LoadForm, acting, install
<1>2. CASE LoadForm("there")
  BY <1>2 DEF Lists, LoadForm, acting, install
<1>3. CASE ThereLocks \/ ThereWrites
  BY <1>3, RemotesAssumption DEF Lists, ThereLocks, ThereWrites, acting, install
<1>4. CASE BeginInstall
  BY <1>4, RemotesAssumption DEF Lists, BeginInstall, ForInstall, acting
<1>5. CASE InstallFails
  BY <1>5, RemotesAssumption DEF Lists, InstallFails, InstallEnds, ForInstall, acting, list
<1>6. CASE Installed
  BY <1>6, RemotesAssumption DEF Lists, Installed, InstallEnds, list
<1>7. CASE InstallLocks
  BY <1>7, RemotesAssumption DEF Lists, InstallLocks, InstallEnds
<1>8. CASE InstallWrites
  BY <1>8, RemotesAssumption DEF Lists, InstallWrites, InstallEnds
<1>9. QED
  BY <1>1, <1>2, <1>3, <1>4, <1>5, <1>6, <1>7, <1>8 DEF Install

LEMMA ListsKept == Lists /\ [RemotesNext]_vars => Lists'
<1> SUFFICES ASSUME Lists, [RemotesNext]_vars PROVE Lists'
  OBVIOUS
<1>1. UNCHANGED <<registry, regLock, form, step, manager, installer, revision>> => Lists'
  BY DEF Lists
<1>2. ASSUME NEW t \in Tabs, Relay(t) \/ \E kind \in {"read", "start"} : LookUp(t, kind)
      PROVE  Lists'
  BY <1>1, <1>2
  DEF Relay, LookUp, Send, FindClosed, Receive, TimeOut, ShowError, ForTab, list, acting, install
<1>3. ASSUME NEW c \in Consoles, Helper(c) \/ LinkBreaks(c) \/ (ChildExits(c) /\ UNCHANGED remotes)
      PROVE  Lists'
  BY <1>1, <1>3
  DEF Helper, Serve, ServeStart, ServeRead, ServeFails, HelperEof, HelperStops, LinkBreaks,
      FarEnd, remotes, list, acting, install
<1>4. UNCHANGED vars => Lists'
  BY <1>1 DEF vars, remotes, list, acting, install
<1>5. QED
  BY <1>2, <1>3, <1>4, ActLists, OtherLists DEF RemotesNext

-----------------------------------------------------------------------------
LEMMA BeginKeeps ==
    ASSUME RInv, NEW p \in Profiles, NEW action \in {"save", "remove", "connect", "disconnect"},
           Begin(action, p)
    PROVE  RInv'
<1>1. UNCHANGED <<consoleVars, bridge, link, request, asked>>
  BY DEF Begin, ForAction
<1>2. Asks'
  BY DEF Begin, Asks
<1>3. QED
  BY <1>1, <1>2, ElsewhereKeeps

LEMMA QuietActsKeep ==
    ASSUME RInv, \/ ConnectDone \/ ConnectNothing \/ Disconnected \/ ChangeList \/ WriteList
    PROVE  RInv'
<1>1. UNCHANGED <<consoleVars, bridge, link, request, asked>>
  BY DEF ConnectDone, ConnectNothing, Disconnected, ChangeList, WriteList, ForAction, install
<1>2. step \in {"shake", "act", "write"}
  BY DEF ConnectDone, ConnectNothing, Disconnected, ChangeList, WriteList
<1>3. \/ step' = "idle" /\ manager' = NoOne
      \/ step' = "write" /\ manager' = manager /\ step = "act"
  BY DEF ConnectDone, ConnectNothing, Disconnected, ChangeList, WriteList, Leave, Go
<1>4. Asks'
  BY <1>1, <1>2, <1>3, RemotesAssumption DEF RInv, Asks
<1>5. QED
  BY <1>1, <1>4, ElsewhereKeeps

LEMMA OthersKeep ==
    ASSUME RInv, Lists,
           \/ LoadForm("here") \/ LoadForm("there") \/ ThereLocks \/ ThereWrites
           \/ BeginInstall \/ Install
    PROVE  RInv'
<1>1. UNCHANGED <<consoleVars, bridge, link, request, asked, step>>
  BY DEF LoadForm, ThereLocks, ThereWrites, BeginInstall, Install, InstallFails, Installed,
         InstallLocks, InstallWrites, ForAction, ForInstall, acting
<1>2. manager' = "here" <=> manager = "here"
  <2>1. CASE LoadForm("here") \/ LoadForm("there") \/ ThereLocks \/ ThereWrites \/ BeginInstall
    BY <2>1 DEF LoadForm, ThereLocks, ThereWrites, BeginInstall, ForInstall, acting
  <2>2. CASE Install
    BY <2>2, RemotesAssumption
    DEF Lists, Install, InstallFails, Installed, InstallLocks, InstallWrites, InstallEnds,
        ForInstall, acting
  <2>3. QED
    BY <2>1, <2>2
<1>3. Asks'
  BY <1>1, <1>2 DEF RInv, Asks, consoleVars, ops, link
<1>4. QED
  BY <1>1, <1>3, ElsewhereKeeps

-----------------------------------------------------------------------------
(* Whatever an action does at the bridge, the tabs wait elsewhere.         *)
LEMMA ActKeeps ==
    ASSUME RInv, NEW c \in Consoles, IInv', UNCHANGED request,
           \A d \in Consoles : life'[d] = "off" => life[d] = "off",
           \A d \in Consoles \ {c} : Same(d),
           \A t \in Tabs : request[t].at = "sent" => request[t].on # c,
           LinkTyped', Link(c)', NoForgottenBridge', Asks'
    PROVE  RInv'
<1>1. \A d \in Consoles : Link(d)'
  BY SameLink DEF RInv
<1>2. \A t \in Tabs : Waits(t)'
  BY DEF RInv, Waits, Same
<1>3. QED
  BY <1>1, <1>2 DEF RInv

LEMMA DropNothingKeeps ==
    ASSUME RInv, DropNothing
    PROVE  RInv'
<1>1. /\ UNCHANGED <<consoleVars, link, request, asked, manager>>
      /\ UNCHANGED <<life, active, closed, holder, inbox, outbox>>
      /\ bridge' = NoOne /\ step = "drop" /\ step' = "act"
  BY DEF DropNothing, ForAction, Forget, Go, consoleVars, server, ops, link
<1>2. \A c \in Consoles : closed[c]
  BY ConstantsAssumption DEF RInv, LinkTyped, NoForgottenBridge, DropNothing
<1>3. IInv'
  BY <1>1, Unmoved DEF RInv
<1>4. LinkTyped' /\ NoForgottenBridge' /\ \A c \in Consoles : Link(c)'
  BY <1>1, <1>2 DEF RInv, LinkTyped, NoForgottenBridge, Link
<1>5. \A t \in Tabs : Waits(t)'
  BY <1>1 DEF RInv, Waits
<1>6. Asks'
  BY <1>1 DEF RInv, Asks
<1>7. QED
  BY <1>3, <1>4, <1>5, <1>6 DEF RInv

LEMMA DropAskKeeps ==
    ASSUME RInv, DropAsk
    PROVE  RInv'
<1>1. PICK c \in Consoles : c = bridge
  BY DEF DropAsk, RInv, LinkTyped
<1>2. holder[c] = NoOne /\ ~closed[c] /\ Transmit(c, "here", "overview")
  BY <1>1 DEF DropAsk
<1>3. /\ UNCHANGED <<consoleVars, bridge, request, manager>>
      /\ UNCHANGED <<life, active>>
      /\ step = "drop" /\ step' = "asked"
  BY DEF DropAsk, ForAction, Go, consoleVars, server, ops
<1>4. /\ closed' = closed /\ closed' \in [Consoles -> BOOLEAN]
      /\ holder' \in [Consoles -> Tabs \cup {"here", NoOne}]
      /\ inbox' \in [Consoles -> Seq(Message)]
      /\ outbox' \in [Consoles -> Seq(Answer)]
      /\ asked' \in Nat
      /\ holder'[c] = "here" /\ outbox'[c] = <<>>
      /\ Head(inbox'[c]) = [id |-> asked', kind |-> "overview"]
      /\ Link(c)'
      /\ \A d \in Consoles \ {c} : Same(d)
  BY <1>2, <1>3, Transmits
<1>5. \A t \in Tabs : request[t].at = "sent" => request[t].on # c
  BY <1>2, RemotesAssumption DEF RInv, Waits
<1>6. IInv'
  BY <1>3, Unmoved DEF RInv
<1>7. LinkTyped' /\ NoForgottenBridge'
  BY <1>3, <1>4 DEF RInv, LinkTyped, NoForgottenBridge
<1>8. Asks'
  BY <1>1, <1>2, <1>3, <1>4 DEF RInv, Asks
<1>9. QED
  BY <1>3, <1>4, <1>5, <1>6, <1>7, <1>8, ActKeeps

(* The bridge is read or closed by the action that holds it, or that has   *)
(* just opened it.                                                         *)
LEMMA AtBridgeKeeps ==
    ASSUME RInv, DropConfirmed \/ DropRefused \/ DropBreaks \/ ConnectFails
    PROVE  RInv'
<1>1. step \in {"asked", "shake"} /\ bridge \in Consoles
  BY DEF DropConfirmed, DropRefused, DropBreaks, ConnectFails, RInv, Asks
<1>2. PICK c \in Consoles : c = bridge
  BY <1>1
<1>3. \A t \in Tabs : request[t].at = "sent" => request[t].on # c
  BY <1>1, <1>2, RemotesAssumption DEF RInv, Asks, Waits
<1>4. /\ UNCHANGED <<consoleVars, request, asked>> /\ UNCHANGED <<life, active>>
      /\ bridge' \in {bridge, NoOne}
      /\ \/ step' = "idle" /\ manager' = NoOne
         \/ step' = "act" /\ manager' = manager /\ bridge' = NoOne
  BY DEF DropConfirmed, DropRefused, DropBreaks, ConnectFails, ForAction, Forget, Go, Leave,
         consoleVars, server, ops
<1>5. /\ closed' \in [Consoles -> BOOLEAN]
      /\ holder' \in [Consoles -> Tabs \cup {"here", NoOne}]
      /\ inbox' \in [Consoles -> Seq(Message)]
      /\ outbox' \in [Consoles -> Seq(Answer)]
      /\ Link(c)'
      /\ \A d \in Consoles \ {c} : Same(d)
      /\ closed'[c] \/ (closed' = closed /\ bridge' = bridge)
  <2>1. CASE DropRefused
    <3>1. outbox[c] # <<>> /\ TakeAnswer(c) /\ bridge' = bridge
      BY <1>2, <2>1 DEF DropRefused
    <3>2. closed \in [Consoles -> BOOLEAN]
      BY DEF RInv, LinkTyped
    <3>3. QED
      BY <1>4, <3>1, <3>2, Takes
  <2>2. CASE (DropConfirmed \/ DropBreaks \/ ConnectFails) /\ ~closed[c]
    <3>1. GiveUp(c)
      BY <1>2, <2>2 DEF DropConfirmed, DropBreaks, ConnectFails
    <3>2. QED
      BY <1>4, <2>2, <3>1, Gives
  <2>3. CASE ConnectFails /\ closed[c]
    <3>1. /\ closed' = [closed EXCEPT ![c] = TRUE]
          /\ holder' = [holder EXCEPT ![c] = NoOne]
          /\ outbox' = [outbox EXCEPT ![c] = <<>>]
          /\ UNCHANGED inbox
      BY <1>2, <2>3 DEF ConnectFails, GiveUp
    <3>2. holder[c] = NoOne /\ outbox[c] = <<>> /\ Link(c)
      BY <2>3 DEF RInv, Link
    <3>3. UNCHANGED <<closed, holder, outbox, inbox>>
      BY <2>3, <3>1, <3>2 DEF RInv, LinkTyped
    <3>4. \A d \in Consoles : Same(d)
      BY <1>4, <3>3 DEF Same
    <3>5. QED
      BY <2>3, <3>2, <3>3, <3>4, SameLink DEF RInv, LinkTyped
  <2>4. step = "asked" => ~closed[c]
    BY <1>2 DEF RInv, Asks
  <2>5. QED
    BY <2>1, <2>2, <2>3, <2>4 DEF DropConfirmed, DropBreaks
<1>6. IInv'
  BY <1>4, Unmoved DEF RInv
<1>7. LinkTyped'
  BY <1>4, <1>5 DEF RInv, LinkTyped
<1>8. NoForgottenBridge'
  BY <1>2, <1>4, <1>5 DEF RInv, NoForgottenBridge, Same
<1>9. Asks'
  BY <1>1, <1>4, RemotesAssumption DEF RInv, Asks
<1>10. QED
  BY <1>3, <1>4, <1>5, <1>6, <1>7, <1>8, <1>9, ActKeeps

LEMMA ConnectSpawnKeeps ==
    ASSUME RInv, NEW c \in Consoles, ConnectSpawn(c)
    PROVE  RInv'
<1> DEFINE m == BridgeMode(doing.profile)
<1>1. Open(c, m) /\ m \in {"read", "write", "cancel"}
  BY DEF ConnectSpawn, BridgeMode
<1> HIDE DEF m
<1>2. IInv'
  BY <1>1, LifeKeeps DEF RInv
<1>3. life[c] = "off" /\ life' = [life EXCEPT ![c] = "up"] /\ UNCHANGED active
  BY <1>1 DEF Open, ops
<1>4. /\ UNCHANGED <<request, asked, holder, inbox, outbox, manager>>
      /\ closed' = [closed EXCEPT ![c] = FALSE]
      /\ bridge' = c /\ step = "act" /\ step' = "shake"
  BY DEF ConnectSpawn, Go
<1>5. /\ closed[c] /\ inbox[c] = <<>> /\ holder[c] = NoOne /\ outbox[c] = <<>>
      /\ Len(inbox[c]) + Len(outbox[c]) =< 1
  <2>1. closed[c] /\ inbox[c] = <<>> /\ holder[c] = NoOne /\ outbox[c] = <<>>
    BY <1>3 DEF RInv, Link
  <2>2. QED
    BY <2>1
<1>6. bridge = NoOne /\ \A d \in Consoles : closed[d]
  <2>1. bridge = NoOne
    BY <1>4 DEF RInv, Asks
  <2>2. QED
    BY <2>1, ConstantsAssumption DEF RInv, NoForgottenBridge
<1>7. life \in [Consoles -> {"off", "up", "stopping", "terminated", "gone", "killed"}]
  BY DEF RInv, IInv, TypeOK
<1>8. \A t \in Tabs : request[t].at # "idle" => request[t].on # c
  BY <1>3 DEF RInv, Waits
<1>9. LinkTyped'
  BY <1>4 DEF RInv, LinkTyped
<1>10. Link(c)' /\ \A d \in Consoles \ {c} : Same(d)
  BY <1>3, <1>4, <1>5, <1>7 DEF RInv, LinkTyped, Link, Same
<1>11. NoForgottenBridge'
  BY <1>4, <1>6 DEF RInv, LinkTyped, NoForgottenBridge
<1>12. Asks'
  BY <1>4, <1>8 DEF RInv, Asks
<1>13. \A d \in Consoles : life'[d] = "off" => life[d] = "off"
  BY <1>3, <1>7
<1>14. QED
  BY <1>2, <1>4, <1>8, <1>9, <1>10, <1>11, <1>12, <1>13, ActKeeps

-----------------------------------------------------------------------------
LEMMA Kept == RInv /\ Lists /\ [RemotesNext]_vars => RInv'
<1> SUFFICES ASSUME RInv, Lists, [RemotesNext]_vars PROVE RInv'
  OBVIOUS
<1>1. ASSUME NEW t \in Tabs, Relay(t) \/ \E kind \in {"read", "start"} : LookUp(t, kind)
      PROVE  RInv'
  BY <1>1, LookUpKeeps, SendKeeps, FindClosedKeeps, EndKeeps, ShowErrorKeeps DEF Relay
<1>2. ASSUME NEW p \in Profiles, NEW action \in {"save", "remove", "connect", "disconnect"},
             Begin(action, p)
      PROVE  RInv'
  BY <1>2, BeginKeeps
<1>3. ASSUME Act PROVE RInv'
  BY <1>3, DropNothingKeeps, DropAskKeeps, AtBridgeKeeps, ConnectSpawnKeeps, QuietActsKeep
  DEF Act, Drop, Connect
<1>4. ASSUME NEW c \in Consoles, Helper(c) \/ LinkBreaks(c) \/ (ChildExits(c) /\ UNCHANGED remotes)
      PROVE  RInv'
  BY <1>4, ServeKeeps, FarEndKeeps DEF Helper
<1>5. CASE UNCHANGED vars
  <2>1. UNCHANGED <<consoleVars, bridge, link, request, asked>> /\ Asks'
    BY <1>5 DEF vars, remotes, acting, link, RInv, Asks, consoleVars, ops
  <2>2. QED
    BY <2>1, ElsewhereKeeps
<1>6. QED
  BY <1>1, <1>2, <1>3, <1>4, <1>5, OthersKeep DEF RemotesNext

LEMMA AlwaysSo == RemotesSpec => [](RInv /\ Lists)
BY Initially, ListsInitially, Kept, ListsKept, PTL DEF RemotesSpec

(* Every caller reads the answer to its own request, however many requests *)
(* timed out before it (remotes.py:185-197).                               *)
THEOREM Answered == RemotesSpec => []OwnAnswers
<1>1. RInv => OwnAnswers
  BY DEF RInv, Waits, Asks, OwnAnswers
<1>2. QED
  BY <1>1, AlwaysSo, PTL

(* No ssh process is forgotten (remotes.py:149-157, 239-251, 287-293).     *)
THEOREM Remembered == RemotesSpec => []NoForgottenBridge
<1>1. RInv => NoForgottenBridge
  BY DEF RInv
<1>2. QED
  BY <1>1, AlwaysSo, PTL

(* Helpers are consoles, also under requests that come over SSH: one       *)
(* tracker pass at a time, no child behind one that ended.                 *)
THEOREM HelpersBehave == RemotesSpec => [](OneTracker /\ NoneLeftBehind)
<1>1. RInv => OneTracker /\ NoneLeftBehind
  BY OneTrackerHolds, NoChildRemains DEF RInv
<1>2. QED
  BY <1>1, AlwaysSo, PTL

(* No action closes a bridge behind which an operation runs or may start   *)
(* (remotes.py:239-251).                                                   *)
THEOREM Spared == RemotesSpec => DisconnectSpares
<1> DEFINE Step == \A c \in Consoles :
                      step # "shake" /\ bridge = c /\ bridge' = NoOne /\ ~closed[c]
                         => active[c] = 0 /\ inbox[c] = <<>>
<1>1. ASSUME RInv, DropConfirmed PROVE Step
  <2>1. PICK c \in Consoles : c = bridge
    BY <1>1 DEF DropConfirmed, RInv, Asks
  <2>2. /\ step = "asked" /\ outbox[c] # <<>>
        /\ Head(outbox[c]).ok /\ ~Head(outbox[c]).busy
    BY <1>1, <2>1 DEF DropConfirmed
  <2>3. active[c] = 0 /\ ~closed[c]
    BY <1>1, <2>1, <2>2 DEF RInv, Asks
  <2>4. /\ inbox[c] \in Seq(Message) /\ outbox[c] \in Seq(Answer)
        /\ Len(inbox[c]) + Len(outbox[c]) =< 1
    BY <1>1, <2>3 DEF RInv, LinkTyped, Link
  <2>5. inbox[c] = <<>>
    <3>1. inbox[c] # <<>> => outbox[c] = <<>>
      BY <2>4, OnlyOne
    <3>2. QED
      BY <2>2, <3>1
  <2>6. QED
    BY <2>1, <2>3, <2>5
<1>2. DropNothing \/ ConnectFails => Step
  BY ConstantsAssumption DEF DropNothing, ConnectFails
<1>3. ASSUME NEW c \in Consoles, ConnectSpawn(c) PROVE Step
  BY <1>3, ConstantsAssumption DEF ConnectSpawn
<1>4. UNCHANGED bridge => Step
  BY ConstantsAssumption
<1>5. ASSUME NEW t \in Tabs, Relay(t) \/ \E kind \in {"read", "start"} : LookUp(t, kind)
      PROVE  UNCHANGED bridge
  BY <1>5 DEF Relay, LookUp, Send, FindClosed, Receive, TimeOut, ShowError, ForTab
<1>6. ASSUME NEW p \in Profiles, NEW action \in {"save", "remove", "connect", "disconnect"},
             Begin(action, p)
      PROVE  UNCHANGED bridge
  BY <1>6 DEF Begin
<1>7. DropAsk \/ DropRefused \/ DropBreaks \/ ConnectDone \/ ConnectNothing
      \/ Disconnected \/ ChangeList \/ WriteList => UNCHANGED bridge
  BY DEF DropAsk, DropRefused, DropBreaks, ConnectDone, ConnectNothing, Disconnected,
         ChangeList, WriteList
<1>8. LoadForm("here") \/ LoadForm("there") \/ ThereLocks \/ ThereWrites
      \/ BeginInstall \/ Install => UNCHANGED bridge
  BY DEF LoadForm, ThereLocks, ThereWrites, BeginInstall, Install, InstallFails, Installed,
         InstallLocks, InstallWrites, ForInstall
<1>9. ASSUME NEW c \in Consoles, Helper(c) \/ LinkBreaks(c) \/ (ChildExits(c) /\ UNCHANGED remotes)
      PROVE  UNCHANGED bridge
  BY <1>9 DEF Helper, Serve, ServeStart, ServeRead, ServeFails, HelperEof, HelperStops,
              LinkBreaks, FarEnd, remotes
<1>10. UNCHANGED vars => UNCHANGED bridge
  BY DEF vars, remotes
<1> HIDE DEF Step
<1>11. RInv /\ [RemotesNext]_vars => Step
  BY <1>1, <1>2, <1>3, <1>4, <1>5, <1>6, <1>7, <1>8, <1>9, <1>10
  DEF RemotesNext, Act, Drop, Connect
<1>12. QED
  BY <1>11, AlwaysSo, PTL DEF RemotesSpec, DisconnectSpares, Step

(* Nobody's change of the server list is overwritten unseen                *)
(* (remotes.py:72-88, 318-322).                                            *)
THEOREM EditsKept == RemotesSpec => EditsSurvive
<1> DEFINE Step == registry' # registry /\ regLock # "there" => registry = form[regLock]
<1>1. Lists /\ (WriteList \/ InstallWrites \/ ThereWrites) => Step
  BY DEF Lists, WriteList, InstallWrites, ThereWrites
<1>2. ASSUME NEW t \in Tabs, Relay(t) \/ \E kind \in {"read", "start"} : LookUp(t, kind)
      PROVE  UNCHANGED registry
  BY <1>2 DEF Relay, LookUp, Send, FindClosed, Receive, TimeOut, ShowError, ForTab, list
<1>3. ASSUME NEW p \in Profiles, NEW action \in {"save", "remove", "connect", "disconnect"},
             Begin(action, p)
      PROVE  UNCHANGED registry
  BY <1>3 DEF Begin, list
<1>4. Drop \/ Connect \/ Disconnected \/ ChangeList => UNCHANGED registry
  BY DEF Drop, DropNothing, DropAsk, DropConfirmed, DropRefused, DropBreaks, Connect, ConnectDone,
         ConnectFails, ConnectNothing, ConnectSpawn, Disconnected, ChangeList, list
<1>5. LoadForm("here") \/ LoadForm("there") \/ ThereLocks \/ BeginInstall \/ InstallFails
      \/ Installed \/ InstallLocks => UNCHANGED registry
  BY DEF LoadForm, ThereLocks, BeginInstall, InstallFails, Installed, InstallLocks, list
<1>6. ASSUME NEW c \in Consoles, Helper(c) \/ LinkBreaks(c) \/ (ChildExits(c) /\ UNCHANGED remotes)
      PROVE  UNCHANGED registry
  BY <1>6 DEF Helper, Serve, ServeStart, ServeRead, ServeFails, HelperEof, HelperStops,
              LinkBreaks, FarEnd, remotes, list
<1>7. UNCHANGED vars => UNCHANGED registry
  BY DEF vars, remotes, list
<1>8. UNCHANGED registry => Step
  OBVIOUS
<1> HIDE DEF Step
<1>9. Lists /\ [RemotesNext]_vars => Step
  BY <1>1, <1>2, <1>3, <1>4, <1>5, <1>6, <1>7, <1>8 DEF RemotesNext, Act, Install
<1>10. QED
  BY <1>9, AlwaysSo, PTL DEF RemotesSpec, EditsSurvive, Step

-----------------------------------------------------------------------------
(* The rest of RemotesTypeOK.  An installation was begun for a server, so  *)
(* that what it writes back is one.                                        *)
ListTyped ==
    /\ registry \in Registered \cup {NoServer}
    /\ regLock \in {NoOne, "here", "there", "installer"}
    /\ form \in [{"here", "there", "installer"} -> Registered \cup {NoServer}]
    /\ installer # "no" => form["installer"] \in Registered
    /\ installer \in {"no", "running", "saving", "writing"}
    /\ revision \in Registered \cup {NoServer}
    /\ status \in {"disconnected", "connected", "not_installed", "error",
                   "installing", "installed", "install_failed"}

ActingTyped ==
    /\ manager \in {NoOne, "here", "installer"}
    /\ step \in ActionSteps
    /\ doing \in [action : {"none", "save", "remove", "connect", "disconnect"},
                  profile : Registered \cup {NoServer}]
    /\ actions \in 0..MaxActions

HelpersTyped ==
    /\ target \in [Consoles -> Registered \cup {NoServer}]
    /\ broken \in [Consoles -> BOOLEAN]
    /\ reading \in [Consoles -> BOOLEAN]
    /\ changes \in 0..MaxChanges /\ breaks \in 0..MaxBreaks

RestTyped == ListTyped /\ ActingTyped /\ HelpersTyped

LEMMA RestInitially == RemotesInit => RestTyped
<1> SUFFICES ASSUME RemotesInit PROVE RestTyped
  OBVIOUS
<1>1. registry \in Registered
  BY DEF RemotesInit, Registered
<1>2. ListTyped
  BY <1>1 DEF RemotesInit, ListTyped
<1>3. ActingTyped
  BY RemotesAssumption DEF RemotesInit, ActingTyped, ActionSteps
<1>4. HelpersTyped
  BY RemotesAssumption DEF RemotesInit, HelpersTyped
<1>5. QED
  BY <1>2, <1>3, <1>4 DEF RestTyped

(* What an action does to its own variables.                               *)
LEMMA ActingStays ==
    ASSUME ActingTyped, Leave \/ \E s \in ActionSteps : Go(s)
    PROVE  ActingTyped'
BY RemotesAssumption DEF ActingTyped, ActionSteps, Leave, Go

LEMMA BeginTyped ==
    ASSUME RestTyped, NEW p \in Profiles,
           NEW action \in {"save", "remove", "connect", "disconnect"}, Begin(action, p)
    PROVE  RestTyped'
<1>1. ListTyped' /\ HelpersTyped'
  BY DEF Begin, RestTyped, ListTyped, HelpersTyped, list, install, link
<1>2. [p |-> p, python |-> "given"] \in Registered
  BY DEF Registered
<1>3. doing' \in [action : {"none", "save", "remove", "connect", "disconnect"},
                  profile : Registered \cup {NoServer}]
  BY <1>2 DEF Begin, RestTyped, ListTyped
<1>4. ActingTyped'
  BY <1>3, RemotesAssumption DEF Begin, RestTyped, ActingTyped, ActionSteps
<1>5. QED
  BY <1>1, <1>4 DEF RestTyped

LEMMA ActTyped ==
    ASSUME RestTyped, Act
    PROVE  RestTyped'
<1> USE DEF RestTyped
<1>1. ASSUME Drop PROVE RestTyped'
  <2>1. ActingTyped'
    <3>1. "act" \in ActionSteps /\ "asked" \in ActionSteps
      BY DEF ActionSteps
    <3>2. Leave \/ \E s \in ActionSteps : Go(s)
      BY <1>1, <3>1 DEF Drop, DropNothing, DropAsk, DropConfirmed, DropRefused, DropBreaks
    <3>3. QED
      BY <3>2, ActingStays
  <2>2. ListTyped' /\ HelpersTyped'
    BY <1>1 DEF Drop, DropNothing, DropAsk, DropConfirmed, DropRefused, DropBreaks, Forget,
                Transmit, GiveUp, TakeAnswer, list, install, link, ListTyped, HelpersTyped
  <2>3. QED
    BY <2>1, <2>2
<1>2. ASSUME NEW c \in Consoles, ConnectSpawn(c) PROVE RestTyped'
  <2>1. ActingTyped'
    <3>1. Go("shake") /\ "shake" \in ActionSteps
      BY <1>2 DEF ConnectSpawn, ActionSteps
    <3>2. QED
      BY <3>1, ActingStays
  <2>2. doing.profile \in Registered \cup {NoServer}
    BY DEF ActingTyped
  <2>3. ListTyped' /\ HelpersTyped'
    BY <1>2, <2>2 DEF ConnectSpawn, list, install, ListTyped, HelpersTyped
  <2>4. QED
    BY <2>1, <2>3
<1>3. ASSUME ConnectDone \/ ConnectFails \/ ConnectNothing \/ Disconnected PROVE RestTyped'
  <2>1. ActingTyped'
    BY <1>3, ActingStays DEF ConnectDone, ConnectFails, ConnectNothing, Disconnected
  <2>2. ListTyped' /\ HelpersTyped'
    BY <1>3 DEF ConnectDone, ConnectFails, ConnectNothing, Disconnected, GiveUp,
                list, install, link, ListTyped, HelpersTyped
  <2>3. QED
    BY <2>1, <2>2
<1>4. ASSUME ChangeList PROVE RestTyped'
  <2>1. ActingTyped'
    <3>1. "write" \in ActionSteps
      BY DEF ActionSteps
    <3>2. QED
      BY <1>4, <3>1, ActingStays DEF ChangeList
  <2>2. ListTyped' /\ HelpersTyped'
    BY <1>4 DEF ChangeList, install, link, ListTyped, HelpersTyped
  <2>3. QED
    BY <2>1, <2>2
<1>5. ASSUME WriteList PROVE RestTyped'
  <2>1. ActingTyped'
    BY <1>5, ActingStays DEF WriteList
  <2>2. doing.profile \in Registered \cup {NoServer}
    BY DEF ActingTyped
  <2>3. registry' \in Registered \cup {NoServer}
    BY <1>5, <2>2 DEF WriteList
  <2>4. ListTyped' /\ HelpersTyped'
    BY <1>5, <2>3 DEF WriteList, install, link, ListTyped, HelpersTyped
  <2>5. QED
    BY <2>1, <2>4
<1>6. QED
  BY <1>1, <1>2, <1>3, <1>4, <1>5 DEF Act, Connect

LEMMA InstallTyped ==
    ASSUME RestTyped, BeginInstall \/ Install
    PROVE  RestTyped'
<1> USE DEF RestTyped
<1>1. HelpersTyped'
  BY DEF BeginInstall, Install, InstallFails, Installed, InstallLocks, InstallWrites,
         ForInstall, list, link, HelpersTyped
<1>2. ActingTyped'
  BY DEF BeginInstall, Install, InstallFails, Installed, InstallLocks, InstallWrites,
         ForInstall, acting, ActingTyped
<1>3. CASE BeginInstall
  <2>1. registry \in Registered /\ form' = [form EXCEPT !["installer"] = registry]
    BY <1>3 DEF BeginInstall, ListTyped
  <2>2. ListTyped'
    BY <1>3, <2>1 DEF BeginInstall, ListTyped
  <2>3. QED
    BY <1>1, <1>2, <2>2
<1>4. CASE InstallFails \/ Installed \/ InstallLocks
  <2>1. ListTyped'
    BY <1>4 DEF InstallFails, Installed, InstallLocks, InstallEnds, list, ListTyped
  <2>2. QED
    BY <1>1, <1>2, <2>1
<1>5. CASE InstallWrites
  <2>1. form["installer"] \in Registered
    BY <1>5 DEF InstallWrites, ListTyped
  <2>2. registry' \in Registered
    BY <1>5, <2>1 DEF InstallWrites, Registered
  <2>3. ListTyped'
    BY <1>5, <2>2 DEF InstallWrites, InstallEnds, ListTyped
  <2>4. QED
    BY <1>1, <1>2, <2>3
<1>6. QED
  BY <1>3, <1>4, <1>5 DEF Install

LEMMA RestKept == RestTyped /\ [RemotesNext]_vars => RestTyped'
<1> SUFFICES ASSUME RestTyped, [RemotesNext]_vars PROVE RestTyped'
  OBVIOUS
<1> USE DEF RestTyped
<1>1. ASSUME UNCHANGED <<list, acting, install, target, broken, reading, breaks>>
      PROVE  RestTyped'
  BY <1>1 DEF list, acting, install, ListTyped, ActingTyped, HelpersTyped
<1>2. ASSUME NEW t \in Tabs, Relay(t) \/ \E kind \in {"read", "start"} : LookUp(t, kind)
      PROVE  RestTyped'
  <2>1. CASE ShowError(t)
    BY <2>1 DEF ShowError, list, acting, link, ListTyped, ActingTyped, HelpersTyped
  <2>2. CASE ~ShowError(t)
    <3>1. UNCHANGED <<list, acting, install, target, broken, reading, breaks>>
      BY <1>2, <2>2 DEF Relay, LookUp, Send, FindClosed, Receive, TimeOut, ForTab, Transmit,
                        TakeAnswer, GiveUp, link
    <3>2. QED
      BY <1>1, <3>1
  <2>3. QED
    BY <2>1, <2>2
<1>3. ASSUME NEW c \in Consoles, Helper(c) \/ LinkBreaks(c) \/ (ChildExits(c) /\ UNCHANGED remotes)
      PROVE  RestTyped'
  <2>1. CASE LinkBreaks(c)
    BY <2>1, RemotesAssumption
    DEF LinkBreaks, list, acting, install, ListTyped, ActingTyped, HelpersTyped
  <2>2. CASE HelperEof(c)
    BY <2>2 DEF HelperEof, list, acting, install, ListTyped, ActingTyped, HelpersTyped
  <2>3. CASE ~LinkBreaks(c) /\ ~HelperEof(c)
    <3>1. UNCHANGED <<list, acting, install, target, broken, reading, breaks>>
      BY <1>3, <2>3 DEF Helper, Serve, ServeStart, ServeRead, ServeFails, HelperStops, Reply,
                        FarEnd, remotes, link
    <3>2. QED
      BY <1>1, <3>1
  <2>4. QED
    BY <2>1, <2>2, <2>3
<1>4. ASSUME NEW w \in {"here", "there"}, LoadForm(w) PROVE RestTyped'
  BY <1>4 DEF LoadForm, acting, install, link, ListTyped, ActingTyped, HelpersTyped
<1>5. CASE ThereLocks
  BY <1>5, RemotesAssumption
  DEF ThereLocks, acting, install, link, ListTyped, ActingTyped, HelpersTyped
<1>6. CASE ThereWrites
  <2>1. registry' \in Registered \cup {NoServer}
    BY <1>6 DEF ThereWrites, Registered
  <2>2. QED
    BY <1>6, <2>1 DEF ThereWrites, acting, install, link, ListTyped, ActingTyped, HelpersTyped
<1>7. CASE UNCHANGED vars
  BY <1>1, <1>7 DEF vars, remotes, link
<1>8. QED
  BY <1>2, <1>3, <1>4, <1>5, <1>6, <1>7, BeginTyped, ActTyped, InstallTyped DEF RemotesNext

(* The consoles, the bridges and the server list are what their type       *)
(* invariant says; in particular an installation only writes back a server *)
(* (remotes.py:318-322).                                                   *)
THEOREM RemotesTypeCorrect == RemotesSpec => []RemotesTypeOK
<1>1. RInv /\ RestTyped => RemotesTypeOK
  BY DEF RInv, IInv, LinkTyped, Request, RestTyped, ListTyped, ActingTyped, HelpersTyped,
         RemotesTypeOK
<1>2. RemotesSpec => []RestTyped
  BY RestInitially, RestKept, PTL DEF RemotesSpec
<1>3. QED
  BY <1>1, <1>2, AlwaysSo, PTL
=============================================================================
