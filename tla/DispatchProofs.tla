--------------------------- MODULE DispatchProofs ---------------------------
(***************************************************************************)
(* What Dispatch promises for any jobs, rows, dispatchers, thresholds and  *)
(* bounds: rows, batches and the wire agree, nothing is posted about an    *)
(* excluded job, and every message is posted at most once.                 *)
(***************************************************************************)
EXTENDS Dispatch, TLAPS, WellFoundedInduction, FiniteSetTheorems

LockDiscipline == \A d \in Dispatchers : stage[d] # "off" <=> lock = d

(* Rows are written in the order of their ids.                             *)
InOrder == \E k \in Nat : Written = 1..k

(* A row that was never claimed is in no batch and was never posted; a     *)
(* batch is known by one of its own rows.                                  *)
Unclaimed ==
    \A n \in Ids :
        /\ status[n] \in {"absent", "pending"} =>
             posts[n] = 0 /\ accepted[n] = 0 /\ batch[n] = NoBatch
        /\ status[n] \in {"sent", "batched"} => accepted[n] = 1
        /\ batch[n] # NoBatch => batch[batch[n]] = batch[n]

(* A claimed unit has all the rows of its batch, and they are nobody       *)
(* else's business until it is settled.                                    *)
Whole(u) ==
    /\ u.ids # {}
    /\ \A n \in u.ids :
          status[n] = "sending" /\ batch[n] = u.batch /\ row[n].job \notin excluded
    /\ u.batch # NoBatch =>
          u.batch \in u.ids /\ \A n \in Ids : batch[n] = u.batch => n \in u.ids

Fresh(u) == \A n \in u.ids : posts[n] = 0 /\ accepted[n] = 0

(* What a dispatcher believes of the unit it has posted.                   *)
Known(d, u) ==
    result[d] # "uncertain" =>
        /\ result[d] = IF u.batch = NoBatch THEN "sent" ELSE "batched"
        /\ \A n \in u.ids : accepted[n] = 1

Hands ==
    \A d \in Dispatchers :
        /\ stage[d] \notin {"send", "finish"} => units[d] = {}
        /\ \A u \in units[d] : Whole(u)
        /\ \A u, w \in units[d] : u.ids \cap w.ids # {} => u = w
        /\ \A u \in units[d] :
              IF stage[d] = "finish" /\ InHand(d, u) THEN Known(d, u) ELSE Fresh(u)

IInv ==
    /\ TypeOK
    /\ LockDiscipline
    /\ InOrder
    /\ Unclaimed
    /\ BatchAgrees
    /\ Hands

-----------------------------------------------------------------------------
LEMMA Minimum ==
    ASSUME NEW S \in SUBSET Nat, S # {}
    PROVE  \E n \in S : \A m \in S : n <= m
<1>1. IsWellFoundedOn(OpToRel(<, Nat), Nat)
  BY NatLessThanWellFounded
<1>2. PICK n \in S : \A m \in S : ~(<<m, n>> \in OpToRel(<, Nat))
  BY <1>1, WFMin
<1>3. ASSUME NEW m \in S PROVE n <= m
  <2>1. ~(m < n)
    BY <1>2 DEF OpToRel
  <2>2. QED
    BY <2>1
<1>4. QED
  BY <1>3

(* The first row of a group is one of its rows.                            *)
LEMMA FirstIn ==
    ASSUME NEW S \in SUBSET Ids, S # {}
    PROVE  FirstOf(S) \in S
<1>1. S \in SUBSET Nat
  BY ConstantsAssumption DEF Ids
<1>2. \E n \in S : \A m \in S : n <= m
  BY <1>1, Minimum
<1>3. QED
  BY <1>2 DEF FirstOf

LEMMA IdFacts == Ids \subseteq Nat /\ NoBatch \notin Ids /\ NoBatch \in Nat
BY ConstantsAssumption DEF Ids, NoBatch

(* There is one unit in hand at a time.                                    *)
LEMMA OneInHand ==
    ASSUME TypeOK, Hands, NEW d \in Dispatchers, NEW u, NEW w, InHand(d, u), InHand(d, w)
    PROVE  u = w
<1>1. /\ u \in units[d] /\ w \in units[d]
      /\ u.ids \in SUBSET Ids /\ w.ids \in SUBSET Ids /\ u.ids # {} /\ w.ids # {}
  BY DEF InHand, TypeOK, Unit, Hands, Whole
<1>2. FirstOf(u.ids) \in u.ids /\ FirstOf(w.ids) \in w.ids
  BY <1>1, FirstIn
<1>3. FirstOf(u.ids) = FirstOf(w.ids)
  <2>1. FirstOf(u.ids) <= FirstOf(w.ids) /\ FirstOf(w.ids) <= FirstOf(u.ids)
    BY <1>1 DEF InHand
  <2>2. FirstOf(u.ids) \in Nat /\ FirstOf(w.ids) \in Nat
    BY <1>1, <1>2, IdFacts
  <2>3. QED
    BY <2>1, <2>2
<1>4. QED
  BY <1>1, <1>2, <1>3 DEF Hands

-----------------------------------------------------------------------------
LEMMA Initial == Init => IInv
<1> SUFFICES ASSUME Init PROVE IInv
  OBVIOUS
<1> USE DEF Init
<1>1. TypeOK
  BY ConstantsAssumption DEF TypeOK, RowStatuses, BatchStatuses, Results
<1>2. LockDiscipline /\ Unclaimed /\ BatchAgrees /\ Hands
  BY ConstantsAssumption DEF LockDiscipline, Unclaimed, BatchAgrees, Hands
<1>3. InOrder
  <2>1. Written = 1..0
    BY DEF Written
  <2>2. QED
    BY <2>1 DEF InOrder
<1>4. QED
  BY <1>1, <1>2, <1>3 DEF IInv

(* The steps that leave rows and wire alone, and every unit that stays.    *)
LEMMA TableKept ==
    ASSUME IInv, TypeOK', LockDiscipline',
           UNCHANGED <<row, status, batch, batchStatus, wire, excluded, result>>,
           \A d \in Dispatchers :
               \/ units'[d] = {}
               \/ units'[d] = units[d] /\ stage'[d] = stage[d]
    PROVE  IInv'
<1>1. InOrder' /\ Unclaimed' /\ BatchAgrees'
  BY DEF IInv, InOrder, Written, Unclaimed, BatchAgrees, wire
<1>2. Hands'
  <2> SUFFICES ASSUME NEW d \in Dispatchers,
                      units'[d] = units[d] /\ stage'[d] = stage[d]
               PROVE  /\ stage'[d] \notin {"send", "finish"} => units'[d] = {}
                      /\ \A u \in units'[d] : Whole(u)'
                      /\ \A u, w \in units'[d] : u.ids \cap w.ids # {} => u = w
                      /\ \A u \in units'[d] :
                            IF stage'[d] = "finish" /\ InHand(d, u)' THEN Known(d, u)' ELSE Fresh(u)'
    BY DEF Hands
  <2>1. \A u \in units[d] : (Whole(u)' <=> Whole(u)) /\ (Fresh(u)' <=> Fresh(u))
    BY DEF Whole, Fresh, wire
  <2>2. \A u \in units[d] : (InHand(d, u)' <=> InHand(d, u)) /\ (Known(d, u)' <=> Known(d, u))
    BY DEF InHand, Known, wire
  <2>3. QED
    BY <2>1, <2>2 DEF IInv, Hands
<1>3. QED
  BY <1>1, <1>2 DEF IInv

LEMMA JobProceedsKeeps ==
    ASSUME IInv, NEW j \in Jobs, JobProceeds(j)
    PROVE  IInv'
<1>1. TypeOK' /\ LockDiscipline'
  BY DEF IInv, TypeOK, LockDiscipline, JobProceeds, table, runs, wire, bounds
<1>2. QED
  BY <1>1, TableKept DEF JobProceeds, table, runs, wire

LEMMA WindowElapsesKeeps ==
    ASSUME IInv, NEW n \in Ids, WindowElapses(n)
    PROVE  IInv'
<1>1. TypeOK' /\ LockDiscipline'
  BY DEF IInv, TypeOK, LockDiscipline, WindowElapses, runs, wire, bounds
<1>2. QED
  BY <1>1, TableKept DEF WindowElapses, runs, wire

LEMMA StartKeeps ==
    ASSUME IInv, NEW d \in Dispatchers, StartTracker(d) \/ StartManual(d)
    PROVE  IInv'
<1>1. PICK modes \in Seq(Modes), force \in BOOLEAN : Start(d, modes, force)
  <2>1. AllModes \in Seq(Modes) /\ \A m \in Modes : <<m>> \in Seq(Modes)
    BY DEF AllModes, Modes
  <2>2. QED
    BY <2>1 DEF StartTracker, StartManual
<1>2. incidents' \in 0..MaxIncidents
  <2>1. incidents \in 0..MaxIncidents /\ MaxIncidents \in Nat
    BY ConstantsAssumption DEF IInv, TypeOK
  <2>2. incidents' = incidents \/ (incidents < MaxIncidents /\ incidents' = incidents + 1)
    BY DEF StartTracker, StartManual
  <2>3. QED
    BY <2>1, <2>2
<1>3. TypeOK'
  BY <1>1, <1>2 DEF IInv, TypeOK, Start, table, wire
<1>4. LockDiscipline'
  BY <1>1, ConstantsAssumption DEF IInv, TypeOK, LockDiscipline, Start
<1>5. \A e \in Dispatchers : units'[e] = {} \/ (units'[e] = units[e] /\ stage'[e] = stage[e])
  BY <1>1 DEF IInv, TypeOK, Hands, Start
<1>6. QED
  BY <1>1, <1>3, <1>4, <1>5, TableKept DEF Start, table, wire

LEMMA NextModeKeeps ==
    ASSUME IInv, NEW d \in Dispatchers, NextMode(d)
    PROVE  IInv'
<1>1. TypeOK' /\ LockDiscipline'
  BY DEF IInv, TypeOK, LockDiscipline, NextMode, table, wire, bounds
<1>2. \A e \in Dispatchers : units'[e] = {} \/ (units'[e] = units[e] /\ stage'[e] = stage[e])
  BY DEF IInv, TypeOK, NextMode
<1>3. QED
  BY <1>1, <1>2, TableKept DEF NextMode, table, wire

LEMMA LeaveKeeps ==
    ASSUME IInv, NEW d \in Dispatchers, Return(d) \/ Die(d)
    PROVE  IInv'
<1>1. Leave(d) /\ UNCHANGED <<jobs, excluded, table, forced, result, wire, limit, freezes>>
  BY DEF Return, Die, bounds
<1>2. incidents' \in 0..MaxIncidents
  BY ConstantsAssumption DEF IInv, TypeOK, Return, Die, bounds
<1>3. TypeOK'
  BY <1>1, <1>2 DEF IInv, TypeOK, Leave, table, wire
<1>4. LockDiscipline'
  BY <1>1, ConstantsAssumption DEF IInv, TypeOK, LockDiscipline, Leave
<1>5. \A e \in Dispatchers : units'[e] = {} \/ (units'[e] = units[e] /\ stage'[e] = stage[e])
  BY <1>1 DEF IInv, TypeOK, Leave
<1>6. QED
  BY <1>1, <1>3, <1>4, <1>5, TableKept DEF table, wire

-----------------------------------------------------------------------------
(* The row a handler writes is the next one, of which nothing is known.    *)
LEMMA NextRow ==
    ASSUME TypeOK, InOrder
    PROVE  LET n == Cardinality(Written) + 1
           IN  n \in Nat /\ Written = 1..(n - 1) /\ (n \in Ids => status[n] = "absent")
<1>1. PICK k \in Nat : Written = 1..k
  BY DEF InOrder
<1>2. Cardinality(Written) = k
  <2>1. Cardinality(1..k) = IF 1 > k THEN 0 ELSE k - 1 + 1
    BY FS_Interval
  <2>2. QED
    BY <1>1, <2>1
<1>3. k + 1 \in Nat /\ Written = 1..((k + 1) - 1) /\ k + 1 \notin Written
  BY <1>1
<1>4. k + 1 \in Ids => status[k + 1] = "absent"
  BY <1>3 DEF Written
<1>5. QED
  BY <1>2, <1>3, <1>4

LEMMA CompleteKeeps ==
    ASSUME IInv, NEW j \in Jobs, NEW v \in Verdicts, Complete(j, v)
    PROVE  IInv'
<1> DEFINE n == Cardinality(Written) + 1
           s == IF j \in excluded THEN "suppressed" ELSE "pending"
<1>1. /\ n \in Ids /\ n \in Nat /\ status[n] = "absent" /\ Written = 1..(n - 1)
  BY NextRow DEF IInv, Complete
<1>2. /\ row' = [row EXCEPT ![n] = [job |-> j, verdict |-> v]]
      /\ status' = [status EXCEPT ![n] = s] /\ s \in {"suppressed", "pending"}
      /\ UNCHANGED <<jobs, excluded, due, batch, batchStatus, runs, wire, bounds>>
  BY DEF Complete
<1> HIDE DEF n, s
<1>3. TypeOK'
  BY <1>1, <1>2 DEF IInv, TypeOK, Row, RowStatuses, runs, wire, bounds
<1>4. /\ status'[n] = s
      /\ \A m \in Ids : m # n => status'[m] = status[m] /\ row'[m] = row[m]
  BY <1>1, <1>2 DEF IInv, TypeOK
<1>5. LockDiscipline'
  BY <1>2 DEF IInv, LockDiscipline, runs
<1>6. InOrder'
  <2>1. Written' = Written \cup {n}
    BY <1>1, <1>2, <1>4 DEF Written
  <2>2. Written' = 1..n
    <3>1. n >= 1
      BY <1>1, ConstantsAssumption DEF Ids
    <3>2. QED
      BY <1>1, <2>1, <3>1
  <2>3. QED
    BY <1>1, <2>2 DEF InOrder
<1>7. posts[n] = 0 /\ accepted[n] = 0 /\ batch[n] = NoBatch
  BY <1>1 DEF IInv, Unclaimed
<1>8. Unclaimed'
  BY <1>2, <1>4, <1>7 DEF IInv, Unclaimed, wire
<1>9. BatchAgrees'
  BY <1>2, <1>4, <1>7 DEF IInv, BatchAgrees
<1>10. Hands'
  <2> SUFFICES ASSUME NEW d \in Dispatchers
               PROVE  /\ stage'[d] \notin {"send", "finish"} => units'[d] = {}
                      /\ \A u \in units'[d] : Whole(u)'
                      /\ \A u, w \in units'[d] : u.ids \cap w.ids # {} => u = w
                      /\ \A u \in units'[d] :
                            IF stage'[d] = "finish" /\ InHand(d, u)' THEN Known(d, u)' ELSE Fresh(u)'
    BY DEF Hands
  <2>1. stage' = stage /\ units' = units /\ result' = result
    BY <1>2 DEF runs
  <2>2. ASSUME NEW u \in units[d] PROVE Whole(u)'
    <3>1. Whole(u) /\ u.ids \in SUBSET Ids
      BY DEF IInv, Hands, TypeOK, Unit
    <3>2. n \notin u.ids
      BY <1>1, <3>1 DEF Whole
    <3>3. QED
      BY <1>2, <1>4, <3>1, <3>2 DEF Whole
  <2>3. \A u \in units[d] : /\ Fresh(u)' <=> Fresh(u)
                            /\ InHand(d, u)' <=> InHand(d, u)
                            /\ Known(d, u)' <=> Known(d, u)
    BY <1>2, <2>1 DEF Fresh, InHand, Known, wire
  <2>4. QED
    BY <2>1, <2>2, <2>3 DEF IInv, Hands
<1>11. QED
  BY <1>3, <1>5, <1>6, <1>8, <1>9, <1>10 DEF IInv

(* Whoever recovers, or draws the boundary, finds no unit in hand.         *)
LEMMA NobodySends ==
    ASSUME IInv, lock = NoOne \/ \E d \in Dispatchers : stage[d] = "recover"
    PROVE  \A e \in Dispatchers : units[e] = {}
BY ConstantsAssumption DEF IInv, LockDiscipline, Hands

(* Rows and batches that were "sending" get one outcome.                   *)
LEMMA SweepKeeps ==
    ASSUME IInv, \A e \in Dispatchers : units[e] = {},
           NEW from \in SUBSET {"pending", "sending", "uncertain"},
           NEW to \in {"uncertain", "suppressed"},
           status' = [n \in Ids |-> IF status[n] \in from THEN to ELSE status[n]],
           batchStatus' = [n \in Ids |-> IF batchStatus[n] \in from \ {"pending"} THEN to ELSE batchStatus[n]],
           UNCHANGED <<row, batch, wire, units, due, kinds, forced, result>>,
           TypeOK', LockDiscipline'
    PROVE  IInv'
<1>1. InOrder'
  <2>1. \A n \in Ids : status'[n] # "absent" <=> status[n] # "absent"
    OBVIOUS
  <2>2. Written' = Written
    BY <2>1 DEF Written
  <2>3. QED
    BY <2>2 DEF IInv, InOrder
<1>2. Unclaimed'
  <2>1. \A n \in Ids : /\ status'[n] \in {"absent", "pending"} => status[n] = status'[n]
                       /\ status'[n] \in {"sent", "batched"} => status[n] = status'[n]
    OBVIOUS
  <2>2. QED
    BY <2>1 DEF IInv, Unclaimed, wire
<1>3. BatchAgrees'
  <2> SUFFICES ASSUME NEW n \in Ids, batch[n] # NoBatch
               PROVE  status'[n] = IF batchStatus'[batch[n]] = "sent" THEN "batched"
                                   ELSE batchStatus'[batch[n]]
    BY DEF BatchAgrees
  <2>1. batch[n] \in Ids /\ status[n] # "pending"
    BY DEF IInv, TypeOK, Unclaimed
  <2>2. status[n] = IF batchStatus[batch[n]] = "sent" THEN "batched" ELSE batchStatus[batch[n]]
    BY DEF IInv, BatchAgrees
  <2>3. QED
    BY <2>1, <2>2
<1>4. Hands'
  BY DEF Hands
<1>5. QED
  BY <1>1, <1>2, <1>3, <1>4 DEF IInv

LEMMA RecoverKeeps ==
    ASSUME IInv, NEW d \in Dispatchers, Recover(d)
    PROVE  IInv'
<1>1. \A e \in Dispatchers : units[e] = {}
  BY NobodySends DEF Recover
<1>2. TypeOK'
  BY DEF IInv, TypeOK, Recover, RowStatuses, BatchStatuses, wire, bounds
<1>3. LockDiscipline'
  BY DEF IInv, TypeOK, LockDiscipline, Recover
<1>4. /\ status' = [n \in Ids |-> IF status[n] \in {"sending"} THEN "uncertain" ELSE status[n]]
      /\ batchStatus' = [n \in Ids |-> IF batchStatus[n] \in {"sending"} \ {"pending"}
                                       THEN "uncertain" ELSE batchStatus[n]]
  BY DEF Recover
<1>5. QED
  BY <1>1, <1>2, <1>3, <1>4, SweepKeeps DEF Recover

LEMMA FreezeKeeps ==
    ASSUME IInv, FreezeHistory
    PROVE  IInv'
<1> DEFINE open == {"pending", "sending", "uncertain"}
<1>1. \A e \in Dispatchers : units[e] = {}
  BY NobodySends DEF FreezeHistory
<1>2. TypeOK'
  BY ConstantsAssumption
  DEF IInv, TypeOK, FreezeHistory, RowStatuses, BatchStatuses, runs, wire
<1>3. LockDiscipline'
  BY DEF IInv, LockDiscipline, FreezeHistory, runs
<1>4. /\ status' = [n \in Ids |-> IF status[n] \in open THEN "suppressed" ELSE status[n]]
      /\ batchStatus' = [n \in Ids |-> IF batchStatus[n] \in open \ {"pending"}
                                       THEN "suppressed" ELSE batchStatus[n]]
  BY DEF FreezeHistory
<1>5. QED
  BY <1>1, <1>2, <1>3, <1>4, SweepKeeps DEF FreezeHistory, runs

-----------------------------------------------------------------------------
(* A claim: rows that are pending, and of no excluded job, in groups that  *)
(* do not overlap.                                                         *)
Claims(d, C, G, grouped) ==
    /\ \A n \in C : /\ status[n] = "pending" /\ row[n].job \notin excluded
                    /\ n \in G[n]
    /\ \A m, n \in C : G[m] \cap G[n] # {} => G[m] = G[n]
    /\ status' = [n \in Ids |-> IF n \in C THEN "sending" ELSE status[n]]
    /\ batch' = [n \in Ids |-> IF grouped /\ n \in C THEN FirstOf(G[n]) ELSE batch[n]]
    /\ batchStatus' = [n \in Ids |-> IF grouped /\ n \in {FirstOf(G[m]) : m \in C}
                                     THEN "sending" ELSE batchStatus[n]]
    /\ units' = [units EXCEPT ![d] =
          {[ids |-> G[n], batch |-> IF grouped THEN FirstOf(G[n]) ELSE NoBatch] : n \in C}]

LEMMA ClaimClaims ==
    ASSUME TypeOK, NEW d \in Dispatchers, Claim(d)
    PROVE  \E C \in SUBSET Ids : \E G \in [C -> SUBSET C] :
           \E grouped \in BOOLEAN : Claims(d, C, G, grouped)
<1> DEFINE mode == Head(kinds[d])
           C == Claimed(mode, forced[d])
           grouped == Grouped(mode)
           G == [n \in C |-> GroupOf(n, mode, forced[d])]
<1>1. C \subseteq Candidates(mode) /\ Candidates(mode) \subseteq Ids
  BY DEF Claimed, Selected, Candidates, Written
<1>2. \A n \in C : status[n] = "pending" /\ row[n].job \notin excluded
  BY <1>1 DEF Candidates
<1>3. \A n \in C : /\ GroupOf(n, mode, forced[d]) \in SUBSET C
                   /\ n \in GroupOf(n, mode, forced[d])
  BY DEF GroupOf
<1>4. ASSUME NEW m \in C, NEW n \in C, G[m] \cap G[n] # {}
      PROVE  G[m] = G[n]
  BY <1>4 DEF GroupOf
<1>5. {GroupOf(n, mode, forced[d]) : n \in C} = {G[n] : n \in C}
  OBVIOUS
<1>6. /\ status' = [n \in Ids |-> IF n \in C THEN "sending" ELSE status[n]]
      /\ units' = [units EXCEPT ![d] =
            {[ids |-> G[n], batch |-> IF grouped THEN FirstOf(G[n]) ELSE NoBatch] : n \in C}]
  <2>1. {[ids |-> g, batch |-> IF grouped THEN FirstOf(g) ELSE NoBatch] : g \in {G[n] : n \in C}}
          = {[ids |-> G[n], batch |-> IF grouped THEN FirstOf(G[n]) ELSE NoBatch] : n \in C}
    OBVIOUS
  <2>2. QED
    BY <1>5, <2>1 DEF Claim
<1>7. batch' = [n \in Ids |-> IF grouped /\ n \in C THEN FirstOf(G[n]) ELSE batch[n]]
  <2>1. CASE grouped
    BY <2>1 DEF Claim
  <2>2. CASE ~grouped
    BY <2>2 DEF Claim, TypeOK
  <2>3. QED
    BY <2>1, <2>2
<1>8. batchStatus' = [n \in Ids |-> IF grouped /\ n \in {FirstOf(G[m]) : m \in C}
                                    THEN "sending" ELSE batchStatus[n]]
  <2>1. CASE grouped
    <3>1. {FirstOf(g) : g \in {GroupOf(n, mode, forced[d]) : n \in C}} = {FirstOf(G[m]) : m \in C}
      BY <1>5
    <3>2. QED
      BY <2>1, <3>1 DEF Claim
  <2>2. CASE ~grouped
    BY <2>2 DEF Claim, TypeOK
  <2>3. QED
    BY <2>1, <2>2
<1>9. G \in [C -> SUBSET C]
  BY <1>3
<1>10. grouped \in BOOLEAN
  BY DEF Grouped
<1>11. Claims(d, C, G, grouped)
  <2>1. \A n \in C : n \in G[n]
    BY <1>3
  <2> HIDE DEF G, C, grouped
  <2>2. QED
    BY <1>2, <1>4, <1>6, <1>7, <1>8, <2>1 DEF Claims
<1> HIDE DEF G, C, grouped
<1>12. QED
  BY <1>1, <1>9, <1>10, <1>11

LEMMA ClaimKeeps ==
    ASSUME IInv, NEW d \in Dispatchers, Claim(d)
    PROVE  IInv'
<1>a. PICK C \in SUBSET Ids : \E G \in [C -> SUBSET C] : \E grouped \in BOOLEAN :
                                 Claims(d, C, G, grouped)
  BY ClaimClaims DEF IInv
<1>b. PICK G \in [C -> SUBSET C] : \E grouped \in BOOLEAN : Claims(d, C, G, grouped)
  BY <1>a
<1>1. PICK grouped \in BOOLEAN : Claims(d, C, G, grouped)
  BY <1>b
<1>2. /\ stage[d] = "claim" /\ stage' = [stage EXCEPT ![d] = "send"]
      /\ kinds[d] # <<>> /\ kinds' = [kinds EXCEPT ![d] = Tail(@)]
      /\ UNCHANGED <<jobs, excluded, row, due, lock, forced, result, wire, bounds>>
  BY DEF Claim
<1>3. \A n \in C : /\ status[n] = "pending" /\ row[n].job \notin excluded /\ n \in G[n]
                   /\ posts[n] = 0 /\ accepted[n] = 0 /\ batch[n] = NoBatch
                   /\ G[n] \in SUBSET C /\ G[n] \in SUBSET Ids
                   /\ FirstOf(G[n]) \in G[n]
  BY <1>1, FirstIn DEF Claims, IInv, Unclaimed
<1>4. \A m, n \in C : G[m] \cap G[n] # {} => G[m] = G[n]
  BY <1>1 DEF Claims
<1>5. \A n \in C : \A m \in G[n] : m \in C /\ G[m] = G[n]
  BY <1>3, <1>4
<1>6. /\ status' = [n \in Ids |-> IF n \in C THEN "sending" ELSE status[n]]
      /\ batch' = [n \in Ids |-> IF grouped /\ n \in C THEN FirstOf(G[n]) ELSE batch[n]]
      /\ batchStatus' = [n \in Ids |-> IF grouped /\ n \in {FirstOf(G[m]) : m \in C}
                                       THEN "sending" ELSE batchStatus[n]]
      /\ units' = [units EXCEPT ![d] =
           {[ids |-> G[n], batch |-> IF grouped THEN FirstOf(G[n]) ELSE NoBatch] : n \in C}]
  BY <1>1 DEF Claims
<1>7. \A n \in Ids : batch[n] # NoBatch => /\ batch[n] \in Ids /\ batch[batch[n]] = batch[n]
                                          /\ n \notin C /\ batch[n] \notin C
  <2>1. \A n \in Ids : batch[n] # NoBatch => batch[n] \in Ids /\ batch[batch[n]] = batch[n]
    BY DEF IInv, TypeOK, Unclaimed
  <2>2. QED
    BY <1>3, <2>1
<1>8. TypeOK'
  <2>1. \A n \in C : [ids |-> G[n], batch |-> IF grouped THEN FirstOf(G[n]) ELSE NoBatch] \in Unit
    BY <1>3 DEF Unit
  <2>2. units' \in [Dispatchers -> SUBSET Unit]
    BY <1>6, <2>1 DEF IInv, TypeOK
  <2>3. status' \in [Ids -> RowStatuses] /\ batchStatus' \in [Ids -> BatchStatuses]
    BY <1>6 DEF IInv, TypeOK, RowStatuses, BatchStatuses
  <2>4. batch' \in [Ids -> Ids \cup {NoBatch}]
    BY <1>3, <1>6 DEF IInv, TypeOK
  <2>5. kinds' \in [Dispatchers -> Seq(Modes)]
    BY <1>2 DEF IInv, TypeOK
  <2>6. QED
    BY <1>2, <2>2, <2>3, <2>4, <2>5 DEF IInv, TypeOK, wire, bounds
<1>9. LockDiscipline'
  BY <1>2 DEF IInv, TypeOK, LockDiscipline
<1>10. InOrder'
  <2>1. Written' = Written
    BY <1>3, <1>6 DEF Written
  <2>2. QED
    BY <2>1 DEF IInv, InOrder
<1>11. Unclaimed'
  <2> SUFFICES ASSUME NEW n \in Ids
               PROVE  /\ status'[n] \in {"absent", "pending"} =>
                           posts'[n] = 0 /\ accepted'[n] = 0 /\ batch'[n] = NoBatch
                      /\ status'[n] \in {"sent", "batched"} => accepted'[n] = 1
                      /\ batch'[n] # NoBatch => batch'[batch'[n]] = batch'[n]
    BY DEF Unclaimed
  <2>1. CASE n \in C
    <3>1. status'[n] = "sending"
      BY <1>6, <2>1
    <3>2. CASE grouped
      <4>1. batch'[n] = FirstOf(G[n]) /\ FirstOf(G[n]) \in C /\ G[FirstOf(G[n])] = G[n]
        BY <1>3, <1>5, <1>6, <2>1, <3>2
      <4>2. batch'[FirstOf(G[n])] = FirstOf(G[FirstOf(G[n])])
        BY <1>6, <3>2, <4>1
      <4>3. QED
        BY <3>1, <4>1, <4>2
    <3>3. CASE ~grouped
      BY <1>3, <1>6, <2>1, <3>1, <3>3
    <3>4. QED
      BY <3>2, <3>3
  <2>2. CASE n \notin C
    BY <1>2, <1>6, <1>7, <2>2 DEF IInv, Unclaimed, wire
  <2>3. QED
    BY <2>1, <2>2
<1>12. BatchAgrees'
  <2> SUFFICES ASSUME NEW n \in Ids, batch'[n] # NoBatch
               PROVE  status'[n] = IF batchStatus'[batch'[n]] = "sent" THEN "batched"
                                   ELSE batchStatus'[batch'[n]]
    BY DEF BatchAgrees
  <2>1. CASE n \in C
    <3>1. grouped /\ batch'[n] = FirstOf(G[n]) /\ FirstOf(G[n]) \in Ids
      BY <1>3, <1>6, <2>1
    <3>2. batchStatus'[FirstOf(G[n])] = "sending"
      BY <1>6, <2>1, <3>1
    <3>3. QED
      BY <1>6, <2>1, <3>1, <3>2
  <2>2. CASE n \notin C
    <3>1. batch'[n] = batch[n] /\ batch[n] \in Ids /\ batch[n] \notin C
      BY <1>6, <1>7, <2>2
    <3>2. batch[n] \notin {FirstOf(G[m]) : m \in C}
      BY <1>3, <3>1
    <3>3. batchStatus'[batch[n]] = batchStatus[batch[n]] /\ status'[n] = status[n]
      BY <1>6, <2>2, <3>1, <3>2
    <3>4. QED
      BY <3>1, <3>3 DEF IInv, BatchAgrees
  <2>3. QED
    BY <2>1, <2>2
<1>13. Hands'
  <2>1. \A e \in Dispatchers : e # d => units'[e] = {}
    BY <1>2, <1>6 DEF IInv, TypeOK, LockDiscipline, Hands
  <2>2. stage'[d] = "send"
    BY <1>2 DEF IInv, TypeOK
  <2>3. units'[d] = {[ids |-> G[n], batch |-> IF grouped THEN FirstOf(G[n]) ELSE NoBatch] : n \in C}
    BY <1>6 DEF IInv, TypeOK
  <2>4. ASSUME NEW u \in units'[d] PROVE Whole(u)' /\ Fresh(u)'
    <3>1. PICK n \in C : u.ids = G[n] /\ u.batch = IF grouped THEN FirstOf(G[n]) ELSE NoBatch
      BY <2>3, <2>4
    <3>2. \A m \in G[n] : m \in C /\ m \in Ids /\ FirstOf(G[m]) = FirstOf(G[n])
      BY <1>5
    <3>3. \A m \in G[n] : /\ status'[m] = "sending" /\ batch'[m] = u.batch
                          /\ row'[m].job \notin excluded'
                          /\ posts'[m] = 0 /\ accepted'[m] = 0
      BY <1>2, <1>3, <1>6, <3>1, <3>2 DEF wire
    <3>4. ASSUME u.batch # NoBatch, NEW m \in Ids, batch'[m] = u.batch
          PROVE  m \in G[n]
      <4>1. grouped /\ u.batch = FirstOf(G[n]) /\ u.batch \in G[n] /\ u.batch \in C
        BY <1>3, <3>1, <3>2, <3>4
      <4>2. CASE m \in C
        <5>1. FirstOf(G[m]) \in G[m] /\ FirstOf(G[m]) = u.batch
          BY <1>3, <1>6, <3>4, <4>1, <4>2
        <5>2. G[m] = G[n]
          BY <1>4, <4>1, <4>2, <5>1
        <5>3. QED
          BY <1>3, <4>2, <5>2
      <4>3. CASE m \notin C
        BY <1>6, <1>7, <3>4, <4>1, <4>3
      <4>4. QED
        BY <4>2, <4>3
    <3>5. u.batch # NoBatch => u.batch \in G[n]
      BY <1>3, <3>1
    <3>6. G[n] # {}
      BY <1>3
    <3>7. QED
      BY <3>1, <3>3, <3>4, <3>5, <3>6 DEF Whole, Fresh
  <2>5. ASSUME NEW u \in units'[d], NEW w \in units'[d], u.ids \cap w.ids # {}
        PROVE  u = w
    <3>1. PICK n \in C : u = [ids |-> G[n], batch |-> IF grouped THEN FirstOf(G[n]) ELSE NoBatch]
      BY <2>3, <2>5
    <3>2. PICK m \in C : w = [ids |-> G[m], batch |-> IF grouped THEN FirstOf(G[m]) ELSE NoBatch]
      BY <2>3, <2>5
    <3>3. G[n] = G[m]
      BY <1>4, <2>5, <3>1, <3>2
    <3>4. QED
      BY <3>1, <3>2, <3>3
  <2>6. QED
    BY <2>1, <2>2, <2>4, <2>5 DEF Hands
<1>14. QED
  BY <1>8, <1>9, <1>10, <1>11, <1>12, <1>13 DEF IInv

-----------------------------------------------------------------------------
(* A post: the unit in hand goes out at most once, and what the dispatcher *)
(* then believes of it is so.                                              *)
Posted(d, u) ==
    /\ InHand(d, u)
    /\ posts' \in {posts, Plus(posts, u.ids)}
    /\ accepted' \in {accepted, Plus(accepted, u.ids)}
    /\ posts' = posts => accepted' = accepted
    /\ result' \in [Dispatchers -> Results]
    /\ \A e \in Dispatchers : e # d => result'[e] = result[e]
    /\ result'[d] # "uncertain" =>
         /\ result'[d] = IF u.batch = NoBatch THEN "sent" ELSE "batched"
         /\ accepted' = Plus(accepted, u.ids)

LEMMA SendPosts ==
    ASSUME TypeOK, NEW d \in Dispatchers, Send(d)
    PROVE  \E u \in units[d] : Posted(d, u)
<1>1. PICK u \in units[d] :
        /\ InHand(d, u)
        /\ \/ /\ posts' = Plus(posts, u.ids) /\ accepted' = Plus(accepted, u.ids)
              /\ result' = [result EXCEPT ![d] = IF u.batch = NoBatch THEN "sent" ELSE "batched"]
           \/ /\ posts' = Plus(posts, u.ids) /\ accepted' \in {accepted, Plus(accepted, u.ids)}
              /\ result' = [result EXCEPT ![d] = "uncertain"]
           \/ /\ UNCHANGED wire
              /\ result' = [result EXCEPT ![d] = "uncertain"]
  BY DEF Send
<1>2. u.ids # {} /\ u.ids \in SUBSET Ids => Plus(posts, u.ids) # posts
  <2> SUFFICES ASSUME NEW n \in u.ids, n \in Ids PROVE Plus(posts, u.ids) # posts
    OBVIOUS
  <2>1. Plus(posts, u.ids)[n] = posts[n] + 1 /\ posts[n] \in Nat
    BY DEF Plus, TypeOK
  <2>2. QED
    BY <2>1
<1>3. u.ids = {} => Plus(posts, u.ids) = posts /\ Plus(accepted, u.ids) = accepted
  BY DEF Plus, TypeOK
<1>4. u.ids \in SUBSET Ids
  BY DEF TypeOK, Unit
<1>5. /\ result' \in [Dispatchers -> Results]
      /\ \A e \in Dispatchers : e # d => result'[e] = result[e]
  BY <1>1 DEF TypeOK, Results
<1>6. /\ posts' \in {posts, Plus(posts, u.ids)} /\ accepted' \in {accepted, Plus(accepted, u.ids)}
      /\ posts' = posts => accepted' = accepted
  BY <1>1, <1>2, <1>3, <1>4 DEF wire
<1>7. result'[d] # "uncertain" =>
        /\ result'[d] = IF u.batch = NoBatch THEN "sent" ELSE "batched"
        /\ accepted' = Plus(accepted, u.ids)
  BY <1>1 DEF TypeOK
<1>8. QED
  BY <1>1, <1>5, <1>6, <1>7 DEF Posted

LEMMA SendKeeps ==
    ASSUME IInv, NEW d \in Dispatchers, Send(d)
    PROVE  IInv'
<1>1. PICK u \in units[d] : Posted(d, u)
  BY SendPosts DEF IInv
<1>2. /\ stage[d] = "send" /\ stage' = [stage EXCEPT ![d] = "finish"]
      /\ UNCHANGED <<jobs, excluded, table, lock, kinds, forced, units, bounds>>
  BY DEF Send
<1>3. Whole(u) /\ Fresh(u) /\ u.ids \in SUBSET Ids
  BY <1>2 DEF IInv, TypeOK, Hands, Unit
<1>4. /\ \A n \in Ids \ u.ids : posts'[n] = posts[n] /\ accepted'[n] = accepted[n]
      /\ posts' \in [Ids -> Nat] /\ accepted' \in [Ids -> Nat]
  <2>1. ASSUME NEW f \in [Ids -> Nat], NEW S
        PROVE  Plus(f, S) \in [Ids -> Nat] /\ \A n \in Ids \ S : Plus(f, S)[n] = f[n]
    BY DEF Plus
  <2>2. posts \in [Ids -> Nat] /\ accepted \in [Ids -> Nat]
    BY DEF IInv, TypeOK
  <2>3. posts' \in {posts, Plus(posts, u.ids)} /\ accepted' \in {accepted, Plus(accepted, u.ids)}
    BY <1>1 DEF Posted
  <2>4. QED
    BY <2>1, <2>2, <2>3
<1>5. \A n \in u.ids : status[n] = "sending"
  BY <1>3 DEF Whole
<1>6. TypeOK'
  BY <1>1, <1>2, <1>4 DEF IInv, TypeOK, Posted, table, bounds
<1>7. LockDiscipline'
  BY <1>2 DEF IInv, TypeOK, LockDiscipline
<1>8. InOrder' /\ BatchAgrees'
  BY <1>2 DEF IInv, InOrder, Written, BatchAgrees, table
<1>9. Unclaimed'
  BY <1>2, <1>4, <1>5 DEF IInv, Unclaimed, table
<1>10. Hands'
  <2>1. \A e \in Dispatchers : e # d => units'[e] = {}
    BY <1>2 DEF IInv, LockDiscipline, Hands
  <2>2. stage'[d] = "finish" /\ units'[d] = units[d]
    BY <1>2 DEF IInv, TypeOK
  <2>3. \A w \in units[d] : Whole(w)' /\ (InHand(d, w)' <=> InHand(d, w))
    BY <1>2 DEF IInv, Hands, Whole, InHand, table
  <2>4. Known(d, u)'
    <3>1. \A n \in u.ids : accepted' = Plus(accepted, u.ids) => accepted'[n] = 1
      BY <1>3 DEF Fresh, Plus
    <3>2. QED
      BY <1>1, <3>1 DEF Posted, Known
  <2>5. ASSUME NEW w \in units[d], w # u PROVE ~InHand(d, w) /\ Fresh(w)'
    <3>1. ~InHand(d, w)
      BY <1>1, <2>5, OneInHand DEF IInv, Posted
    <3>2. Fresh(w) /\ w.ids \cap u.ids = {} /\ w.ids \in SUBSET Ids
      BY <1>2, <2>5 DEF IInv, Hands, TypeOK, Unit
    <3>3. QED
      BY <1>4, <3>1, <3>2 DEF Fresh
  <2>6. \A w \in units[d] : IF InHand(d, w)' THEN Known(d, w)' ELSE Fresh(w)'
    BY <1>1, <2>3, <2>4, <2>5 DEF Posted
  <2>7. QED
    BY <2>1, <2>2, <2>3, <2>6 DEF IInv, Hands
<1>11. QED
  BY <1>6, <1>7, <1>8, <1>9, <1>10 DEF IInv

(* Settling the unit in hand leaves the others as they were claimed.       *)
Settled(d, u) ==
    /\ InHand(d, u)
    /\ status' = [n \in Ids |->
          IF n \in u.ids /\ status[n] = "sending" THEN result[d] ELSE status[n]]
    /\ batchStatus' = IF u.batch = NoBatch THEN batchStatus
          ELSE [batchStatus EXCEPT ![u.batch] = IF result[d] = "batched" THEN "sent" ELSE result[d]]
    /\ units' = [units EXCEPT ![d] = @ \ {u}]

LEMMA FinishKeeps ==
    ASSUME IInv, NEW d \in Dispatchers, Finish(d)
    PROVE  IInv'
<1>1. PICK u \in units[d] : Settled(d, u)
  BY DEF Finish, Settled
<1>2. /\ stage[d] = "finish" /\ stage' = [stage EXCEPT ![d] = "send"]
      /\ UNCHANGED <<jobs, excluded, row, due, batch, lock, kinds, forced, result, wire, bounds>>
  BY DEF Finish
<1>3. Whole(u) /\ Known(d, u) /\ u.ids \in SUBSET Ids /\ u.batch \in Ids \cup {NoBatch}
  BY <1>1, <1>2 DEF IInv, TypeOK, Hands, Unit, Settled
<1>4. result[d] \in {"sent", "batched", "uncertain"}
  BY DEF IInv, TypeOK, Results
<1>5. /\ \A n \in u.ids : status'[n] = result[d]
      /\ \A n \in Ids \ u.ids : status'[n] = status[n]
  BY <1>1, <1>3 DEF Settled, Whole
<1>6. TypeOK'
  <2>1. status' \in [Ids -> RowStatuses]
    BY <1>1, <1>4 DEF Settled, IInv, TypeOK, RowStatuses
  <2>2. batchStatus' \in [Ids -> BatchStatuses]
    BY <1>1, <1>4 DEF Settled, IInv, TypeOK, BatchStatuses
  <2>3. units' \in [Dispatchers -> SUBSET Unit]
    BY <1>1 DEF Settled, IInv, TypeOK
  <2>4. QED
    BY <1>2, <2>1, <2>2, <2>3 DEF IInv, TypeOK, wire, bounds
<1>7. LockDiscipline'
  BY <1>2 DEF IInv, TypeOK, LockDiscipline
<1>8. InOrder'
  <2>1. \A n \in u.ids : status[n] # "absent" /\ status'[n] # "absent"
    BY <1>3, <1>4, <1>5 DEF Whole
  <2>2. Written' = Written
    BY <1>5, <2>1 DEF Written
  <2>3. QED
    BY <2>2 DEF IInv, InOrder
<1>9. Unclaimed'
  <2>1. \A n \in u.ids : result[d] # "uncertain" => accepted[n] = 1
    BY <1>3 DEF Known
  <2>2. QED
    BY <1>2, <1>4, <1>5, <2>1 DEF IInv, Unclaimed, wire
<1>10. BatchAgrees'
  <2> SUFFICES ASSUME NEW n \in Ids, batch[n] # NoBatch
               PROVE  status'[n] = IF batchStatus'[batch[n]] = "sent" THEN "batched"
                                   ELSE batchStatus'[batch[n]]
    BY <1>2 DEF BatchAgrees
  <2>1. CASE n \in u.ids
    <3>1. u.batch = batch[n] /\ u.batch \in Ids
      BY <1>3, <2>1 DEF Whole
    <3>2. result[d] # "sent"
      BY <1>3, <3>1 DEF Known
    <3>3. batchStatus'[batch[n]] = IF result[d] = "batched" THEN "sent" ELSE result[d]
      BY <1>1, <3>1 DEF Settled, IInv, TypeOK
    <3>4. QED
      BY <1>4, <1>5, <2>1, <3>2, <3>3
  <2>2. CASE n \notin u.ids
    <3>1. batch[n] # u.batch
      BY <1>3, <2>2 DEF Whole
    <3>2. batchStatus'[batch[n]] = batchStatus[batch[n]]
      BY <1>1, <3>1 DEF Settled, IInv, TypeOK
    <3>3. QED
      BY <1>5, <2>2, <3>2 DEF IInv, BatchAgrees
  <2>3. QED
    BY <2>1, <2>2
<1>11. Hands'
  <2>1. \A e \in Dispatchers : e # d => units'[e] = {}
    BY <1>1, <1>2 DEF IInv, TypeOK, LockDiscipline, Hands, Settled
  <2>2. stage'[d] = "send" /\ units'[d] = units[d] \ {u}
    BY <1>1, <1>2 DEF IInv, TypeOK, Settled
  <2>3. ASSUME NEW w \in units[d], w # u PROVE Whole(w)' /\ Fresh(w)'
    <3>1. ~InHand(d, w)
      BY <1>1, <2>3, OneInHand DEF IInv, Settled
    <3>2. Fresh(w) /\ Whole(w) /\ w.ids \cap u.ids = {} /\ w.ids \in SUBSET Ids
      BY <1>2, <2>3, <3>1 DEF IInv, Hands, TypeOK, Unit
    <3>3. QED
      BY <1>2, <1>5, <3>2 DEF Fresh, Whole, wire
  <2>4. QED
    BY <2>1, <2>2, <2>3 DEF IInv, Hands
<1>12. QED
  BY <1>6, <1>7, <1>8, <1>9, <1>10, <1>11 DEF IInv

-----------------------------------------------------------------------------
LEMMA Inductive == IInv /\ [Next]_vars => IInv'
<1> SUFFICES ASSUME IInv, [Next]_vars PROVE IInv'
  OBVIOUS
<1>1. ASSUME NEW j \in Jobs, JobProceeds(j) \/ \E v \in Verdicts : Complete(j, v) PROVE IInv'
  BY <1>1, JobProceedsKeeps, CompleteKeeps
<1>2. ASSUME NEW d \in Dispatchers, StartTracker(d) \/ StartManual(d) \/ Die(d) PROVE IInv'
  BY <1>2, StartKeeps, LeaveKeeps
<1>3. ASSUME NEW d \in Dispatchers, Advance(d) PROVE IInv'
  BY <1>3, RecoverKeeps, ClaimKeeps, SendKeeps, FinishKeeps, NextModeKeeps, LeaveKeeps DEF Advance
<1>4. CASE UNCHANGED vars
  <2>1. TypeOK' /\ LockDiscipline'
    BY <1>4 DEF IInv, TypeOK, LockDiscipline, vars, table, runs, wire, bounds
  <2>2. QED
    BY <1>4, <2>1, TableKept DEF vars, table, runs, wire
<1>5. QED
  BY <1>1, <1>2, <1>3, <1>4, WindowElapsesKeeps, FreezeKeeps DEF Next

LEMMA Invariance == Spec => []IInv
BY Initial, Inductive, PTL DEF Spec

(* Rows, batches and dispatchers keep to the statuses of                   *)
(* notify/dispatcher.py, and what a dispatcher has in hand is rows with    *)
(* their kind of delivery.                                                 *)
THEOREM TypeCorrect == Spec => []TypeOK
<1>1. IInv => TypeOK
  BY DEF IInv
<1>2. QED
  BY <1>1, Invariance, PTL

(* "sent" and "batched" rows were accepted by the receiver; "pending" ones *)
(* were never posted (feishu.py:256-273).                                  *)
THEOREM Truthful == Spec => []StatusTellsDelivery
<1>1. IInv => StatusTellsDelivery
  BY DEF IInv, Unclaimed, StatusTellsDelivery
<1>2. QED
  BY <1>1, Invariance, PTL

(* A summary card and its members never disagree (feishu.py:256-273,       *)
(* doctor.py).                                                             *)
THEOREM Agreed == Spec => []BatchAgrees
<1>1. IInv => BatchAgrees
  BY DEF IInv
<1>2. QED
  BY <1>1, Invariance, PTL

(* "no historical replay": a post carries rows of jobs that no freeze has  *)
(* excluded, whoever claimed them when (doctor.py, feishu.py).             *)
THEOREM NeverReplayed == Spec => NoReplay
<1> DEFINE Step == \A n \in Ids : posts'[n] # posts[n] => row[n].job \notin excluded
<1>1. ASSUME IInv, NEW d \in Dispatchers, Send(d) PROVE Step
  <2>1. PICK u \in units[d] : Posted(d, u)
    BY <1>1, SendPosts DEF IInv
  <2>2. \A n \in u.ids : row[n].job \notin excluded
    BY <1>1 DEF IInv, Hands, Whole
  <2>3. \A n \in Ids \ u.ids : posts'[n] = posts[n]
    BY <1>1, <2>1 DEF Posted, Plus, IInv, TypeOK
  <2>4. QED
    BY <2>2, <2>3
<1>2. UNCHANGED posts => Step
  OBVIOUS
<1>3. ASSUME NEW j \in Jobs, JobProceeds(j) \/ \E v \in Verdicts : Complete(j, v)
      PROVE  UNCHANGED posts
  BY <1>3 DEF JobProceeds, Complete, wire
<1>4. ASSUME NEW d \in Dispatchers,
             \/ StartTracker(d) \/ StartManual(d) \/ Die(d)
             \/ Recover(d) \/ Claim(d) \/ Finish(d) \/ NextMode(d) \/ Return(d)
      PROVE  UNCHANGED posts
  BY <1>4 DEF StartTracker, StartManual, Start, Die, Recover, Claim, Finish, NextMode, Return, wire
<1>5. /\ \A n \in Ids : WindowElapses(n) => UNCHANGED posts
      /\ FreezeHistory => UNCHANGED posts
      /\ UNCHANGED vars => UNCHANGED posts
  BY DEF WindowElapses, FreezeHistory, vars, wire
<1> HIDE DEF Step
<1>6. IInv /\ [Next]_vars => [Step]_vars
  BY <1>1, <1>2, <1>3, <1>4, <1>5 DEF Next, Advance
<1>7. QED
  BY <1>6, Invariance, PTL DEF Spec, NoReplay, Step

-----------------------------------------------------------------------------
PhaseOf(s) ==
    CASE s = "absent" -> "absent"
      [] s = "pending" -> "queued"
      [] s = "sending" -> "claimed"
      [] OTHER -> "closed"

LEMMA Phases ==
    /\ [n \in Ids |-> Phase(n)] = [n \in Ids |-> PhaseOf(status[n])]
    /\ [n \in Ids |-> Phase(n)]' = [n \in Ids |-> PhaseOf(status'[n])]
BY DEF Phase, PhaseOf

(* Steps of the table as steps of the promise.                             *)
LEMMA PhaseMoves ==
    ASSUME NEW S \in SUBSET Ids, NEW from, NEW to,
           \/ from = {"absent"} /\ to \in {"queued", "closed"}
           \/ from = {"queued"} /\ to = "claimed"
           \/ from = {"queued", "claimed"} /\ to = "closed",
           UNCHANGED wire,
           \A n \in S : PhaseOf(status[n]) \in from /\ PhaseOf(status'[n]) = to,
           \A n \in Ids \ S : PhaseOf(status'[n]) = PhaseOf(status[n])
    PROVE  [Promise!Next]_(Promise!deliveryVars)
<1>1. CASE S = {}
  <2>1. [n \in Ids |-> PhaseOf(status'[n])] = [n \in Ids |-> PhaseOf(status[n])]
    BY <1>1
  <2>2. QED
    BY <2>1, Phases DEF Promise!deliveryVars, wire
<1>2. CASE S # {}
  <2>1. [n \in Ids |-> PhaseOf(status'[n])]
          = [n \in Ids |-> IF n \in S THEN to ELSE PhaseOf(status[n])]
    OBVIOUS
  <2>2. \A n \in S : [m \in Ids |-> PhaseOf(status[m])][n] \in from
    OBVIOUS
  <2>3. Promise!Move(S, from, to)
    <3>1. [n \in Ids |-> IF n \in S THEN to ELSE [m \in Ids |-> PhaseOf(status[m])][n]]
            = [n \in Ids |-> IF n \in S THEN to ELSE PhaseOf(status[n])]
      OBVIOUS
    <3>2. QED
      BY <1>2, <2>1, <2>2, <3>1, Phases DEF Promise!Move, wire
  <2>4. QED
    BY <2>3 DEF Promise!Next
<1>3. QED
  BY <1>1, <1>2

LEMMA StepSimulates ==
    ASSUME IInv, [Next]_vars
    PROVE  [Promise!Next]_(Promise!deliveryVars)
<1>1. ASSUME UNCHANGED status, UNCHANGED wire
      PROVE  UNCHANGED Promise!deliveryVars
  BY <1>1 DEF Promise!deliveryVars, Phase, wire
<1>2. ASSUME NEW j \in Jobs, NEW v \in Verdicts, Complete(j, v)
      PROVE  [Promise!Next]_(Promise!deliveryVars)
  <2>1. PICK n \in Ids, s \in {"suppressed", "pending"} :
          /\ status[n] = "absent" /\ UNCHANGED wire /\ status' = [status EXCEPT ![n] = s]
    BY <1>2, NextRow DEF IInv, Complete
  <2>2. /\ \A m \in {n} : PhaseOf(status[m]) \in {"absent"}
        /\ \A m \in {n} : PhaseOf(status'[m]) = IF s = "pending" THEN "queued" ELSE "closed"
        /\ \A m \in Ids \ {n} : PhaseOf(status'[m]) = PhaseOf(status[m])
    BY <2>1 DEF IInv, TypeOK, PhaseOf
  <2> DEFINE to == IF s = "pending" THEN "queued" ELSE "closed"
  <2>3. to \in {"queued", "closed"} /\ {n} \in SUBSET Ids
    OBVIOUS
  <2>4. \A m \in {n} : PhaseOf(status[m]) \in {"absent"} /\ PhaseOf(status'[m]) = to
    BY <2>2
  <2> HIDE DEF to
  <2>5. QED
    BY <2>1, <2>2, <2>3, <2>4, PhaseMoves
<1>3. ASSUME NEW d \in Dispatchers, Claim(d)
      PROVE  [Promise!Next]_(Promise!deliveryVars)
  <2>1. PICK C \in SUBSET Ids :
        /\ \A n \in C : status[n] = "pending"
        /\ status' = [n \in Ids |-> IF n \in C THEN "sending" ELSE status[n]]
        /\ UNCHANGED wire
    <3> DEFINE D == Claimed(Head(kinds[d]), forced[d])
    <3>1. D \in SUBSET Ids /\ \A n \in D : status[n] = "pending"
      BY DEF Claimed, Selected, Candidates, Written
    <3>2. status' = [n \in Ids |-> IF n \in D THEN "sending" ELSE status[n]] /\ UNCHANGED wire
      BY <1>3 DEF Claim
    <3> HIDE DEF D
    <3>3. QED
      BY <3>1, <3>2
  <2>2. /\ \A n \in C : PhaseOf(status[n]) \in {"queued"} /\ PhaseOf(status'[n]) = "claimed"
        /\ \A n \in Ids \ C : PhaseOf(status'[n]) = PhaseOf(status[n])
    BY <2>1 DEF PhaseOf
  <2>3. QED
    BY <2>1, <2>2, PhaseMoves
<1>4. ASSUME NEW from \in SUBSET {"pending", "sending", "uncertain"},
             NEW to \in {"uncertain", "suppressed"}, UNCHANGED wire,
             status' = [n \in Ids |-> IF status[n] \in from THEN to ELSE status[n]]
      PROVE  [Promise!Next]_(Promise!deliveryVars)
  <2>0. PICK S \in SUBSET Ids : S = {n \in Ids : status[n] \in from \ {"uncertain"}}
    OBVIOUS
  <2>1. /\ \A n \in S : PhaseOf(status[n]) \in {"queued", "claimed"} /\ PhaseOf(status'[n]) = "closed"
        /\ \A n \in Ids \ S : PhaseOf(status'[n]) = PhaseOf(status[n])
    BY <1>4, <2>0 DEF PhaseOf
  <2>2. QED
    BY <1>4, <2>1, PhaseMoves
<1>5. ASSUME NEW d \in Dispatchers, Recover(d)
      PROVE  [Promise!Next]_(Promise!deliveryVars)
  <2>1. /\ status' = [n \in Ids |-> IF status[n] \in {"sending"} THEN "uncertain" ELSE status[n]]
        /\ UNCHANGED wire
    BY <1>5 DEF Recover
  <2>2. QED
    BY <1>4, <2>1
<1>6. ASSUME FreezeHistory
      PROVE  [Promise!Next]_(Promise!deliveryVars)
  <2>1. /\ status' = [n \in Ids |-> IF status[n] \in {"pending", "sending", "uncertain"}
                                     THEN "suppressed" ELSE status[n]]
        /\ UNCHANGED wire
    BY <1>6 DEF FreezeHistory
  <2>2. QED
    BY <1>4, <2>1
<1>7. ASSUME NEW d \in Dispatchers, Send(d)
      PROVE  [Promise!Next]_(Promise!deliveryVars)
  <2>1. PICK u \in units[d] : Posted(d, u)
    BY <1>7, SendPosts DEF IInv
  <2>2. /\ u.ids \in SUBSET Ids /\ u.ids # {}
        /\ \A n \in u.ids : status[n] = "sending" /\ posts[n] = 0
        /\ UNCHANGED status
    <3>1. stage[d] = "send" /\ UNCHANGED status
      BY <1>7 DEF Send, table
    <3>2. Whole(u) /\ Fresh(u) /\ u \in Unit
      BY <3>1 DEF IInv, TypeOK, Hands
    <3>3. QED
      BY <3>1, <3>2 DEF Unit, Whole, Fresh
  <2>3. CASE posts' = posts
    BY <1>1, <2>1, <2>2, <2>3 DEF Posted, wire
  <2>4. CASE posts' # posts
    <3>1. /\ posts' = [n \in Ids |-> IF n \in u.ids THEN posts[n] + 1 ELSE posts[n]]
          /\ accepted' \in {accepted,
                [n \in Ids |-> IF n \in u.ids THEN accepted[n] + 1 ELSE accepted[n]]}
      BY <2>1, <2>4 DEF Posted, Plus
    <3>2. /\ \A n \in u.ids : [m \in Ids |-> Phase(m)][n] = "claimed"
          /\ [n \in Ids |-> Phase(n)]' = [n \in Ids |-> Phase(n)]
      BY <2>2, Phases DEF PhaseOf
    <3>3. Promise!Post(u.ids)
      BY <2>2, <3>1, <3>2 DEF Promise!Post
    <3>4. QED
      BY <2>2, <3>3 DEF Promise!Next
  <2>5. QED
    BY <2>3, <2>4
<1>8. ASSUME NEW d \in Dispatchers, Finish(d)
      PROVE  [Promise!Next]_(Promise!deliveryVars)
  <2>1. PICK u \in units[d] : Settled(d, u)
    BY <1>8 DEF Finish, Settled
  <2>2. /\ u.ids \in SUBSET Ids /\ \A n \in u.ids : status[n] = "sending"
        /\ UNCHANGED wire /\ result[d] \in {"sent", "batched", "uncertain"}
    <3>1. Whole(u) /\ u \in Unit /\ result[d] \in Results
      BY DEF IInv, TypeOK, Hands
    <3>2. UNCHANGED wire
      BY <1>8 DEF Finish
    <3>3. QED
      BY <3>1, <3>2 DEF Unit, Results, Whole
  <2>3. /\ \A n \in u.ids : status'[n] = result[d]
        /\ \A n \in Ids \ u.ids : status'[n] = status[n]
    BY <2>1, <2>2 DEF Settled
  <2>4. /\ \A n \in u.ids : PhaseOf(status[n]) \in {"queued", "claimed"} /\ PhaseOf(status'[n]) = "closed"
        /\ \A n \in Ids \ u.ids : PhaseOf(status'[n]) = PhaseOf(status[n])
    BY <2>2, <2>3 DEF PhaseOf
  <2>5. u.ids \in SUBSET Ids /\ UNCHANGED wire
    BY <2>2
  <2>6. QED
    BY <2>4, <2>5, PhaseMoves
<1>9. ASSUME NEW d \in Dispatchers,
             StartTracker(d) \/ StartManual(d) \/ Die(d) \/ NextMode(d) \/ Return(d)
      PROVE  UNCHANGED status /\ UNCHANGED wire
  BY <1>9 DEF StartTracker, StartManual, Start, Die, NextMode, Return, table
<1>10. /\ \A j \in Jobs : JobProceeds(j) => UNCHANGED status /\ UNCHANGED wire
       /\ \A n \in Ids : WindowElapses(n) => UNCHANGED status /\ UNCHANGED wire
       /\ UNCHANGED vars => UNCHANGED status /\ UNCHANGED wire
  BY DEF JobProceeds, WindowElapses, vars, table
<1>11. CASE UNCHANGED vars
  BY <1>1, <1>10, <1>11
<1>12. CASE Next
  BY <1>1, <1>2, <1>3, <1>5, <1>6, <1>7, <1>8, <1>9, <1>10, <1>12 DEF Next, Advance
<1>13. QED
  BY <1>11, <1>12

(* A message is posted at most once, in spite of timeouts, crashes and     *)
(* concurrent dispatchers (docs/notifications.md:10-14).                   *)
THEOREM PostedOnce == Spec => AtMostOnce
<1>1. Init => Promise!Init
  BY DEF Init, Promise!Init, Phase
<1>2. QED
  BY <1>1, StepSimulates, Invariance, PTL DEF Spec, AtMostOnce, Promise!Spec
=============================================================================
