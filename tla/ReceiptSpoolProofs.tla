------------------------- MODULE ReceiptSpoolProofs -------------------------
(***************************************************************************)
(* What ReceiptSpool promises for any receipts, jobs, passes and bounds:   *)
(* importing implements the ledger, no receipt is lost, and work comes     *)
(* from submissions only.                                                  *)
(***************************************************************************)
EXTENDS ReceiptSpool, TLAPS

Refused == {"invalid", "unresolved"}

(* A pass about to commit holds a receipt that is not refused; one about   *)
(* to archive holds a refused one or has seen its commit.                  *)
Hands ==
    \A a \in Ingesters :
        /\ stage[a] \in {"commit", "archive"} => cur[a] \in Receipts
        /\ stage[a] = "commit" => content[cur[a]].form \notin Refused
        /\ stage[a] = "archive" =>
             content[cur[a]].form \in Refused \/ effects[cur[a]] = 1

AtMostOnce == \A r \in Receipts : effects[r] \in {0, 1}

(* NothingLost, and for files not yet published: none is filed.            *)
Filed ==
    /\ NothingLost
    /\ \A r \in Receipts : "ingested" \in archived[r] => effects[r] = 1

(* A row comes from a submission, which leaves work, or from a run.        *)
RowsHaveReceipts ==
    \A j \in Jobs :
        state[j] # "none" =>
          \/ j \in queued
          \/ \E r \in Receipts : /\ content[r].job = j /\ effects[r] > 0
                                 /\ content[r].form \in {"step", "local"}

IInv ==
    /\ TypeOK
    /\ LocalIdsAreUnique(content)
    /\ Hands
    /\ AtMostOnce
    /\ Filed
    /\ RowsHaveReceipts
    /\ WorkFollowsSubmission

-----------------------------------------------------------------------------
(* What the kind of a receipt says of its form.                            *)
LEMMA Forms ==
    ASSUME TypeOK, NEW r \in Receipts
    PROVE  /\ content[r].job \in Jobs
           /\ \/ /\ content[r].kind = "sbatch"
                 /\ content[r].form \in {"good", "opaque"} \cup Refused
              \/ /\ content[r].kind = "csrun"
                 /\ content[r].form \in {"step", "local", "opaque", "invalid"}
              \/ /\ content[r].kind = "scancel"
                 /\ content[r].form \in {"request", "other", "opaque", "invalid"}
<1>1. content[r] \in Content
  BY ConstantsAssumption DEF TypeOK
<1>2. CASE content[r] \in SubmissionContent
  BY <1>2 DEF SubmissionContent, Refused
<1>3. CASE content[r] \in RunContent
  BY <1>3 DEF RunContent
<1>4. CASE content[r] \in CancelContent
  BY <1>4 DEF CancelContent
<1>5. QED
  BY <1>1, <1>2, <1>3, <1>4 DEF Content

(* A commit is one step of the ledger, or none: the abstraction on which   *)
(* the rest of this module builds.                                         *)
LEMMA CommitApplies ==
    ASSUME IInv, NEW a \in Ingesters, Commit(a)
    PROVE  \/ Ledger!Apply(cur[a])
           \/ UNCHANGED db /\ effects[cur[a]] = 1
<1> DEFINE r == cur[a]
<1>1. /\ r \in Receipts /\ content[r].form \notin Refused \cup {"opaque"}
      /\ content' = content
  BY DEF IInv, Hands, Commit
<1>2. effects[r] \in {0, 1}
  BY <1>1 DEF IInv, AtMostOnce
<1>3. CASE effects[r] = 1
  BY <1>1, <1>3 DEF Commit, RecordSubmission, RecordRun, RecordCancel
<1>4. CASE effects[r] = 0
  <2>1. TypeOK
    BY DEF IInv
  <2>2. CASE content[r].kind = "sbatch"
    <3>1. content[r].form = "good"
      BY <1>1, <2>1, <2>2, Forms DEF Refused
    <3>2. RecordSubmission(r)
      BY <2>2 DEF Commit
    <3>3. QED
      BY <1>1, <1>4, <2>2, <3>1, <3>2
      DEF RecordSubmission, Once, Ledger!Apply, Ledger!Effect, Ledger!InsertedState
  <2>3. CASE content[r].kind = "csrun"
    <3>1. content[r].form \in {"step", "local"}
      BY <1>1, <2>1, <2>3, Forms DEF Refused
    <3>2. RecordRun(r)
      BY <2>3 DEF Commit
    <3>3. QED
      BY <1>1, <1>4, <2>3, <3>1, <3>2
      DEF RecordRun, Once, Ledger!Apply, Ledger!Effect, Ledger!InsertedState
  <2>4. CASE content[r].kind = "scancel"
    <3>1. RecordCancel(r)
      BY <2>4 DEF Commit
    <3>2. QED
      BY <1>1, <1>4, <2>4, <3>1
      DEF RecordCancel, Once, Ledger!Apply, Ledger!Effect, Ledger!InsertedState
  <2>5. QED
    BY <1>1, <2>1, <2>2, <2>3, <2>4, Forms
<1>5. QED
  BY <1>2, <1>3, <1>4

-----------------------------------------------------------------------------
LEMMA Initially == Init => IInv
<1> SUFFICES ASSUME Init PROVE IInv
  OBVIOUS
<1>1. TypeOK
  BY ConstantsAssumption DEF Init, TypeOK, JobStates
<1>2. QED
  BY <1>1 DEF Init, IInv, Hands, AtMostOnce, Filed, NothingLost,
              RowsHaveReceipts, WorkFollowsSubmission

(* Steps that leave the database alone keep what is said about it.         *)
LEMMA DatabaseKept ==
    ASSUME IInv, UNCHANGED <<content, db>>
    PROVE  /\ LocalIdsAreUnique(content)'
           /\ AtMostOnce'
           /\ RowsHaveReceipts'
           /\ WorkFollowsSubmission'
BY DEF IInv, db, LocalIdsAreUnique, AtMostOnce, RowsHaveReceipts,
       WorkFollowsSubmission

LEMMA PublishKeeps ==
    ASSUME IInv, NEW r \in Receipts, Publish(r)
    PROVE  IInv'
<1> USE DEF Publish, db, passes
<1>1. TypeOK'
  BY DEF IInv, TypeOK
<1>2. Hands'
  BY DEF IInv, Hands
<1>3. Filed'
  BY DEF IInv, Filed, NothingLost, TypeOK
<1>4. QED
  BY <1>1, <1>2, <1>3, DatabaseKept DEF IInv

LEMMA ReplayKeeps ==
    ASSUME IInv, NEW r \in Receipts, Replay(r)
    PROVE  IInv'
<1> USE DEF Replay, db, passes
<1>1. TypeOK'
  BY ConstantsAssumption DEF IInv, TypeOK
<1>2. Hands'
  BY DEF IInv, Hands
<1>3. Filed'
  BY DEF IInv, Filed, NothingLost, TypeOK
<1>4. QED
  BY <1>1, <1>2, <1>3, DatabaseKept DEF IInv

(* Accounting changes only rows that are there.                            *)
LEMMA ObserveKeeps ==
    ASSUME IInv, NEW j \in Jobs, Observe(j)
    PROVE  IInv'
<1> USE DEF Observe, files, passes
<1>1. TypeOK'
  BY DEF IInv, TypeOK, JobStates
<1>2. /\ LocalIdsAreUnique(content)' /\ Hands' /\ AtMostOnce' /\ Filed'
      /\ WorkFollowsSubmission'
  BY DEF IInv, LocalIdsAreUnique, Hands, AtMostOnce, Filed, NothingLost,
         WorkFollowsSubmission
<1>3. RowsHaveReceipts'
  <2>1. \A i \in Jobs : state'[i] # "none" => state[i] # "none"
    BY DEF IInv, TypeOK
  <2>2. QED
    BY <2>1 DEF IInv, RowsHaveReceipts
<1>4. QED
  BY <1>1, <1>2, <1>3 DEF IInv

-----------------------------------------------------------------------------
(* The steps of a pass around its commit.                                  *)
LEMMA BeginPassKeeps ==
    ASSUME IInv, NEW a \in Ingesters, BeginPass(a)
    PROVE  IInv'
<1> USE DEF BeginPass, db, files
<1>1. TypeOK'
  BY DEF IInv, TypeOK, Listed, Kinds
<1>2. Hands'
  BY DEF IInv, Hands, TypeOK
<1>3. Filed'
  BY DEF IInv, Filed, NothingLost
<1>4. QED
  BY <1>1, <1>2, <1>3, DatabaseKept DEF IInv

LEMMA BeginDirectKeeps ==
    ASSUME IInv, NEW a \in Ingesters, NEW r \in Receipts, BeginDirect(a, r)
    PROVE  IInv'
<1> USE DEF BeginDirect, db
<1>1. TypeOK'
  BY DEF IInv, TypeOK
<1>2. Hands'
  BY DEF IInv, Hands, TypeOK
<1>3. Filed'
  BY DEF IInv, Filed, NothingLost, TypeOK
<1>4. QED
  BY <1>1, <1>2, <1>3, DatabaseKept DEF IInv

LEMMA NextSpoolKeeps ==
    ASSUME IInv, NEW a \in Ingesters, NextSpool(a)
    PROVE  IInv'
<1> USE DEF NextSpool, db, files
<1>1. TypeOK'
  <2>1. later[a] \in Seq(Kinds) /\ spool \subseteq Receipts
    BY DEF IInv, TypeOK
  <2>2. CASE later[a] = <<>>
    BY <2>2 DEF IInv, TypeOK
  <2>3. CASE later[a] # <<>>
    <3>1. Tail(later[a]) \in Seq(Kinds)
      BY <2>1, <2>3
    <3>2. Listed(Head(later[a])) \subseteq Receipts
      BY <2>1 DEF Listed
    <3>3. QED
      BY <2>3, <3>1, <3>2 DEF IInv, TypeOK
  <2>4. QED
    BY <2>2, <2>3
<1>2. Hands'
  BY DEF IInv, Hands, TypeOK
<1>3. Filed'
  BY DEF IInv, Filed, NothingLost
<1>4. QED
  BY <1>1, <1>2, <1>3, DatabaseKept DEF IInv

LEMMA TakeKeeps ==
    ASSUME IInv, NEW a \in Ingesters, Take(a)
    PROVE  IInv'
<1> USE DEF Take, db, files
<1>1. TypeOK'
  <2>1. todo[a] \subseteq Receipts
    BY DEF IInv, TypeOK
  <2>2. PICK r \in todo[a] :
          /\ todo' = [todo EXCEPT ![a] = @ \ {r}]
          /\ \/ UNCHANGED <<stage, cur>>
             \/ /\ cur' = [cur EXCEPT ![a] = r]
                /\ \/ stage' = [stage EXCEPT ![a] = "archive"]
                   \/ stage' = [stage EXCEPT ![a] = "commit"]
    OBVIOUS
  <2>3. /\ stage' \in [Ingesters -> {"idle", "next", "commit", "archive"}]
        /\ cur' \in [Ingesters -> Receipts \cup {NoReceipt}]
        /\ todo' \in [Ingesters -> SUBSET Receipts]
    <3>1. /\ stage \in [Ingesters -> {"idle", "next", "commit", "archive"}]
          /\ cur \in [Ingesters -> Receipts \cup {NoReceipt}]
          /\ todo \in [Ingesters -> SUBSET Receipts]
          /\ r \in Receipts
      BY <2>1, <2>2 DEF IInv, TypeOK
    <3> HIDE DEF Take
    <3>2. QED
      BY <2>1, <2>2, <3>1
  <2>4. QED
    BY <2>3 DEF IInv, TypeOK
<1>2. Hands'
  <2>1. PICK r \in todo[a] :
          IF r \notin spool THEN UNCHANGED <<stage, cur>>
          ELSE /\ cur' = [cur EXCEPT ![a] = r]
               /\ stage' = [stage EXCEPT ![a] =
                     IF content[r].form \in Refused THEN "archive" ELSE "commit"]
    BY DEF Refused
  <2>2. r \in Receipts /\ UNCHANGED <<content, effects>>
    BY DEF IInv, TypeOK
  <2>3. CASE r \notin spool
    BY <2>1, <2>2, <2>3 DEF IInv, Hands
  <2>4. CASE r \in spool
    <3>1. /\ cur'[a] = r
          /\ stage'[a] = IF content[r].form \in Refused THEN "archive" ELSE "commit"
          /\ \A b \in Ingesters \ {a} : stage'[b] = stage[b] /\ cur'[b] = cur[b]
      BY <2>1, <2>4 DEF IInv, TypeOK
    <3>2. QED
      BY <2>2, <3>1 DEF IInv, Hands
  <2>5. QED
    BY <2>3, <2>4
<1>3. Filed'
  BY DEF IInv, Filed, NothingLost
<1>4. QED
  BY <1>1, <1>2, <1>3, DatabaseKept DEF IInv

(* A pass that ends, for whatever reason, leaves files and database.       *)
LEMMA EndPassKeeps ==
    ASSUME IInv, NEW a \in Ingesters, EndPass(a),
           UNCHANGED <<content, files, db, replays>>,
           faults' \in 0..MaxFaults
    PROVE  IInv'
<1> USE DEF EndPass, db, files
<1>1. TypeOK'
  BY DEF IInv, TypeOK
<1>2. Hands'
  BY DEF IInv, Hands, TypeOK
<1>3. Filed'
  BY DEF IInv, Filed, NothingLost
<1>4. QED
  BY <1>1, <1>2, <1>3, DatabaseKept DEF IInv

LEMMA ArchiveKeeps ==
    ASSUME IInv, NEW a \in Ingesters, Archive(a)
    PROVE  IInv'
<1> USE DEF Archive, db
<1> DEFINE r == cur[a]
<1>1. r \in Receipts /\ (content[r].form \in Refused \/ effects[r] = 1)
  BY DEF IInv, Hands
<1>2. Category(r) \in Categories
  BY DEF Category, Categories
<1>3. TypeOK'
  BY <1>1, <1>2 DEF IInv, TypeOK
<1>4. Hands'
  BY DEF IInv, Hands, TypeOK
<1>5. Filed'
  <2>1. \A q \in Receipts : \/ archived'[q] = archived[q]
                            \/ q = r /\ archived'[q] = archived[q] \cup {Category(r)}
    BY <1>1 DEF IInv, TypeOK
  <2>2. r \in spool => archived'[r] = archived[r] \cup {Category(r)}
    BY <1>1 DEF IInv, TypeOK
  <2>3. Category(r) = "ingested" => effects[r] = 1
    BY <1>1 DEF Category, Refused
  <2>4. \A q \in Receipts : "ingested" \in archived'[q] => effects'[q] = 1
    BY <2>1, <2>3 DEF IInv, Filed
  <2>5. \A q \in published' : q \in spool' \/ archived'[q] # {}
    <3> SUFFICES ASSUME NEW q \in published'
                 PROVE  q \in spool' \/ archived'[q] # {}
      OBVIOUS
    <3>1. q \in Receipts /\ (q \in spool \/ archived[q] # {})
      BY DEF IInv, Filed, NothingLost, TypeOK
    <3>2. CASE q = r /\ r \in spool
      BY <2>2, <3>2
    <3>3. CASE ~(q = r /\ r \in spool)
      BY <2>1, <3>1, <3>3
    <3>4. QED
      BY <3>2, <3>3
  <2>6. \A q \in published' :
           effects'[q] = 0 /\ content'[q].form \in
               {"good", "step", "local", "request", "other", "opaque"}
             => q \in spool'
    BY <1>1 DEF IInv, Filed, NothingLost, Refused
  <2>7. QED
    BY <2>4, <2>5, <2>6 DEF IInv, TypeOK, Filed, NothingLost
<1>6. QED
  BY <1>3, <1>4, <1>5, DatabaseKept DEF IInv

-----------------------------------------------------------------------------
(* A step of the ledger keeps what is said about the database.             *)
LEMMA EffectOnce ==
    ASSUME IInv, NEW r \in Receipts, Ledger!Apply(r)
    PROVE  /\ effects'[r] = 1 /\ effects[r] = 0
           /\ \A q \in Receipts : q # r => effects'[q] = effects[q]
BY DEF IInv, TypeOK, Ledger!Apply, Ledger!Effect

LEMMA EffectKeepsRows ==
    ASSUME IInv, NEW r \in Receipts, Ledger!Apply(r),
           content[r].form \notin Refused \cup {"opaque"}
    PROVE  RowsHaveReceipts' /\ WorkFollowsSubmission'
<1> DEFINE c == content[r]
<1>1. TypeOK /\ c.job \in Jobs /\ content' = content
  BY Forms DEF IInv, Ledger!Apply, Ledger!Effect
<1>2. /\ queued \subseteq queued'
      /\ \A j \in Jobs : j # c.job => /\ state'[j] = state[j]
                                      /\ j \in queued' => j \in queued
  BY <1>1 DEF TypeOK, Ledger!Apply, Ledger!Effect
<1>3. \A q \in Receipts : effects[q] > 0 => effects'[q] > 0
  BY EffectOnce DEF IInv, AtMostOnce
<1>4. c.kind \in {"sbatch", "csrun"} /\ state[c.job] = "none"
        => c.form \in {"good", "step", "local"}
  BY <1>1, Forms DEF Refused
<1>5. state[c.job] = "none" /\ c.kind = "sbatch" => c.job \in queued'
  BY <1>1 DEF Ledger!Apply, Ledger!Effect
<1>6. state'[c.job] # "none" /\ state[c.job] = "none"
        => c.kind \in {"sbatch", "csrun"}
  BY <1>1, Forms DEF TypeOK, Ledger!Apply, Ledger!Effect
<1>7. RowsHaveReceipts'
  <2> SUFFICES ASSUME NEW j \in Jobs, state'[j] # "none", j \notin queued'
               PROVE  \E q \in Receipts :
                        /\ content[q].job = j /\ effects'[q] > 0
                        /\ content[q].form \in {"step", "local"}
    BY <1>1 DEF RowsHaveReceipts
  <2>1. CASE state[j] # "none"
    BY <1>2, <1>3, <2>1 DEF IInv, RowsHaveReceipts
  <2>2. CASE state[j] = "none"
    <3>1. j = c.job /\ c.kind = "csrun"
      BY <1>2, <1>5, <1>6, <2>2
    <3>2. c.form \in {"step", "local"}
      BY <1>1, <3>1, Forms DEF Refused
    <3>3. QED
      BY <3>1, <3>2, EffectOnce
  <2>3. QED
    BY <2>1, <2>2
<1>8. WorkFollowsSubmission'
  <2> SUFFICES ASSUME NEW j \in Jobs
               PROVE  LET recorded(form) == \E q \in Receipts :
                              content[q].job = j /\ content[q].form = form
                              /\ effects'[q] > 0
                      IN  /\ j \in queued' => recorded("good")
                          /\ recorded("good") => j \in queued' \/ recorded("step")
    BY <1>1 DEF WorkFollowsSubmission
  <2> DEFINE Recorded(form) == \E q \in Receipts :
               content[q].job = j /\ content[q].form = form /\ effects'[q] > 0
  <2>1. ASSUME j \in queued' PROVE Recorded("good")
    <3>1. CASE j \in queued
      BY <1>3, <3>1 DEF IInv, WorkFollowsSubmission
    <3>2. CASE j \notin queued
      <4>1. j = c.job /\ c.kind = "sbatch"
        BY <2>1, <1>1, <1>2, <3>2 DEF Ledger!Apply, Ledger!Effect
      <4>2. c.form = "good"
        BY <1>1, <4>1, Forms DEF Refused
      <4>3. QED
        BY <4>1, <4>2, EffectOnce
    <3>3. QED
      BY <3>1, <3>2
  <2>2. ASSUME Recorded("good"), j \notin queued' PROVE Recorded("step")
    <3>1. PICK q \in Receipts : /\ content[q].job = j /\ content[q].form = "good"
                                /\ effects'[q] > 0
      BY <2>2
    <3>2. CASE effects[q] > 0
      BY <1>2, <1>3, <2>2, <3>1, <3>2 DEF IInv, WorkFollowsSubmission
    <3>3. CASE effects[q] = 0
      <4>1. q = r
        BY <3>1, <3>3, EffectOnce
      <4>2. c.kind = "sbatch"
        BY <1>1, <3>1, <4>1, Forms DEF Refused
      <4>3. state[j] # "none" /\ j \notin queued
        BY <1>2, <1>5, <2>2, <3>1, <4>1, <4>2
      <4>4. PICK p \in Receipts : /\ content[p].job = j /\ effects[p] > 0
                                  /\ content[p].form \in {"step", "local"}
        BY <4>3 DEF IInv, RowsHaveReceipts
      <4>5. content[p].form # "local"
        BY <3>1, <4>4 DEF IInv, LocalIdsAreUnique
      <4>6. QED
        BY <1>3, <4>4, <4>5
    <3>4. QED
      BY <3>1, <3>2, <3>3 DEF IInv, AtMostOnce
  <2>3. QED
    BY <2>1, <2>2
<1>9. QED
  BY <1>7, <1>8

LEMMA CommitKeeps ==
    ASSUME IInv, NEW a \in Ingesters, Commit(a)
    PROVE  IInv'
<1> DEFINE r == cur[a]
<1>1. /\ TypeOK /\ r \in Receipts
      /\ content[r].form \notin Refused \cup {"opaque"}
      /\ stage' = [stage EXCEPT ![a] = "archive"]
      /\ UNCHANGED <<content, files, todo, later, cur, faults, replays>>
  BY DEF IInv, Hands, Commit
<1>2. content[r].job \in Jobs
  BY <1>1, Forms
<1>3. effects'[r] = 1
  BY <1>1, CommitApplies, EffectOnce DEF db
<1>4. \A q \in Receipts : q # r => effects'[q] = effects[q]
  BY <1>1, CommitApplies, EffectOnce DEF db
<1>5. TypeOK'
  <2>1. /\ state' \in [Jobs -> JobStates] /\ queued' \subseteq Jobs
        /\ cancelled' \subseteq Jobs /\ effects' \in [Receipts -> Nat]
    <3>1. CASE Ledger!Apply(r)
      BY <1>1, <1>2, <3>1
      DEF TypeOK, JobStates, Ledger!Apply, Ledger!Effect, Ledger!InsertedState
    <3>2. CASE UNCHANGED db
      BY <1>1, <3>2 DEF TypeOK, db
    <3>3. QED
      BY <3>1, <3>2, CommitApplies
  <2>2. QED
    BY <1>1, <2>1 DEF TypeOK, files
<1>6. Hands'
  BY <1>1, <1>3, <1>4 DEF IInv, Hands, TypeOK
<1>7. AtMostOnce'
  BY <1>3, <1>4 DEF IInv, AtMostOnce
<1>8. Filed'
  BY <1>1, <1>3, <1>4 DEF IInv, Filed, NothingLost, TypeOK, files
<1>9. RowsHaveReceipts' /\ WorkFollowsSubmission'
  BY <1>1, CommitApplies, EffectKeepsRows, DatabaseKept
<1>10. QED
  BY <1>1, <1>5, <1>6, <1>7, <1>8, <1>9 DEF IInv, LocalIdsAreUnique

-----------------------------------------------------------------------------
LEMMA Inductive == IInv /\ [Next]_vars => IInv'
<1> SUFFICES ASSUME IInv, [Next]_vars PROVE IInv'
  OBVIOUS
<1>1. ASSUME NEW r \in Receipts, Publish(r) \/ Replay(r) PROVE IInv'
  BY <1>1, PublishKeeps, ReplayKeeps
<1>2. ASSUME NEW j \in Jobs, Observe(j) PROVE IInv'
  BY <1>2, ObserveKeeps
<1>3. ASSUME NEW a \in Ingesters, BeginPass(a) PROVE IInv'
  BY <1>3, BeginPassKeeps
<1>4. ASSUME NEW a \in Ingesters, NEW r \in Receipts, BeginDirect(a, r)
      PROVE  IInv'
  BY <1>4, BeginDirectKeeps
<1>5. ASSUME NEW a \in Ingesters, Advance(a) PROVE IInv'
  <2>1. CASE NextSpool(a)
    BY <2>1, NextSpoolKeeps
  <2>2. CASE Take(a)
    BY <2>2, TakeKeeps
  <2>3. CASE Commit(a)
    BY <2>3, CommitKeeps
  <2>4. CASE RaiseOpaque(a)
    BY <2>4, EndPassKeeps DEF RaiseOpaque, IInv, TypeOK
  <2>5. CASE Archive(a)
    BY <2>5, ArchiveKeeps
  <2>6. QED
    BY <1>5, <2>1, <2>2, <2>3, <2>4, <2>5 DEF Advance
<1>6. ASSUME NEW a \in Ingesters, Abort(a) PROVE IInv'
  <2>1. faults' \in 0..MaxFaults
    BY <1>6, ConstantsAssumption DEF IInv, TypeOK, Abort
  <2>2. QED
    BY <1>6, <2>1, EndPassKeeps DEF Abort
<1>7. CASE UNCHANGED vars
  <2>1. UNCHANGED <<content, db, files, passes, faults, replays>>
    BY <1>7 DEF vars
  <2>2. TypeOK' /\ Hands' /\ Filed'
    BY <2>1 DEF IInv, TypeOK, Hands, Filed, NothingLost, db, files, passes
  <2>3. QED
    BY <2>1, <2>2, DatabaseKept DEF IInv
<1>8. QED
  BY <1>1, <1>2, <1>3, <1>4, <1>5, <1>6, <1>7 DEF Next

LEMMA Invariance == Spec => []IInv
BY Initially, Inductive, PTL DEF Spec

(* Every value of the variables is of the kind their comments say.         *)
THEOREM TypeCorrect == Spec => []TypeOK
<1>1. IInv => TypeOK
  BY DEF IInv
<1>2. QED
  BY <1>1, Invariance, PTL

(* A published receipt waits in its spool until it is archived, and is     *)
(* filed as ingested only with its effects committed, however passes       *)
(* overlap and wherever they are cut short (receipts.py, submissions.py).  *)
THEOREM Kept == Spec => []NothingLost
<1>1. IInv => NothingLost
  BY DEF IInv, Filed
<1>2. QED
  BY <1>1, Invariance, PTL

(* Work comes from the job's own submission, and only a step recorded      *)
(* before it can keep a submission from leaving work.                      *)
THEOREM Worked == Spec => []WorkFollowsSubmission
<1>1. IInv => WorkFollowsSubmission
  BY DEF IInv
<1>2. QED
  BY <1>1, Invariance, PTL

(* Files, passes, crashes and replays come to the ledger: each receipt     *)
(* acts once, in one step, and only accounting changes a row.              *)
LEMMA StepsOfLedger == IInv /\ [Next]_vars => [Ledger!Next]_(Ledger!ledgerVars)
<1> SUFFICES ASSUME IInv, [Next]_vars PROVE [Ledger!Next]_(Ledger!ledgerVars)
  OBVIOUS
<1>1. ASSUME UNCHANGED <<content, db>>
      PROVE  [Ledger!Next]_(Ledger!ledgerVars)
  BY <1>1 DEF db, Ledger!ledgerVars
<1>2. ASSUME NEW j \in Jobs, Observe(j)
      PROVE  [Ledger!Next]_(Ledger!ledgerVars)
  BY <1>2 DEF Observe, Ledger!Next, Ledger!Observe
<1>3. ASSUME NEW a \in Ingesters, Commit(a)
      PROVE  [Ledger!Next]_(Ledger!ledgerVars)
  <2>1. cur[a] \in Receipts /\ content' = content
    BY <1>3 DEF IInv, Hands, Commit
  <2>2. CASE Ledger!Apply(cur[a])
    BY <2>1, <2>2 DEF Ledger!Next
  <2>3. CASE UNCHANGED db
    BY <1>1, <2>1, <2>3
  <2>4. QED
    BY <1>3, <2>2, <2>3, CommitApplies
<1>4. CASE UNCHANGED vars
  BY <1>1, <1>4 DEF vars
<1>5. ASSUME NEW r \in Receipts, Publish(r) \/ Replay(r)
      PROVE  UNCHANGED <<content, db>>
  BY <1>5 DEF Publish, Replay
<1>6. ASSUME NEW a \in Ingesters,
             \/ BeginPass(a) \/ NextSpool(a) \/ Take(a) \/ RaiseOpaque(a)
             \/ Archive(a) \/ Abort(a)
             \/ \E r \in Receipts : BeginDirect(a, r)
      PROVE  UNCHANGED <<content, db>>
  BY <1>6 DEF BeginPass, NextSpool, Take, RaiseOpaque, Archive, Abort,
              BeginDirect
<1>7. QED
  BY <1>1, <1>2, <1>3, <1>4, <1>5, <1>6 DEF Next, Advance

(* Importing receipts implements the ledger the rest of the program sees.  *)
THEOREM Implements == Spec => ImplementsLedger
<1>1. Init => Ledger!Init
  BY DEF Init, Ledger!Init
<1>2. QED
  BY <1>1, Invariance, StepsOfLedger, PTL DEF Spec, ImplementsLedger, Ledger!Spec
=============================================================================
