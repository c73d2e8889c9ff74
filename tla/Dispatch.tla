------------------------------ MODULE Dispatch ------------------------------
(***************************************************************************)
(* Notifications from the recorded end of a job to the webhook: completion *)
(* work writes a row (notify/dispatcher.py), dispatchers claim rows, post  *)
(* them outside any transaction and settle them (notify/feishu.py), and    *)
(* "cdoctor freeze-history" draws a line under the past (doctor.py).       *)
(* Dispatchers exclude each other by a flock on dispatch.lock.             *)
(***************************************************************************)
EXTENDS Naturals, Sequences, FiniteSets

CONSTANTS
    Jobs,         \* job ids
    Verdicts,     \* what analyses may conclude, see Verdict
    MaxRows,      \* bound: notifications ever written
    Dispatchers,  \* slots for processes running dispatch_pending()
    Threshold,    \* immediate messages that are grouped (10 by default)
    Limit,        \* bound: rows one claim looks at, see limit
    MaxIncidents, \* bound: dispatchers that die and "cnotify dispatch" runs
    MaxFreezes,   \* bound: freeze-history runs in one behaviour
    NoOne         \* nobody holds dispatch.lock

Modes == {"immediate", "batch", "digest"}

(* status and category make the dedupe key of a job's notification, the    *)
(* category is also the group, the mode decides when it is sent.           *)
Verdict == [status : STRING, category : STRING, mode : Modes]

ASSUME ConstantsAssumption ==
    /\ Verdicts \subseteq Verdict
    /\ MaxRows \in Nat
    /\ Threshold \in Nat \ {0}
    /\ Limit \in Nat \ {0}
    /\ MaxIncidents \in Nat
    /\ MaxFreezes \in Nat
    /\ NoOne \notin Dispatchers

Ids == 1..MaxRows
NoBatch == 0
Row == [job : Jobs, verdict : Verdicts]
NoRow == [absent |-> TRUE]
RowStatuses == {"absent", "pending", "sending", "sent", "batched", "uncertain", "suppressed"}
BatchStatuses == {"absent", "sending", "sent", "uncertain", "suppressed"}
Unit == [ids : SUBSET Ids, batch : Ids \cup {NoBatch}]
Results == {"sent", "batched", "uncertain"}

VARIABLES
    jobs,         \* jobs.state: "none", "UNKNOWN", "active" or "ended"
    excluded,     \* notification_exclusions
    row,          \* [Ids -> Row or NoRow], what a notification is about
    status,       \* notifications.status, "absent" before the row exists
    due,          \* created_at is a window ago
    batch,        \* the batch a row was claimed in, known by its first row
    batchStatus,  \* notification_batches.status by that row
    lock,         \* the dispatcher holding dispatch.lock
    stage,        \* per dispatcher: "off", "recover", "claim", "send", "finish"
    kinds,        \* per dispatcher: modes still to claim
    forced,       \* per dispatcher: --force
    units,        \* per dispatcher: claimed units not settled yet
    result,       \* per dispatcher: outcome of the unit in hand, in "finish"
    posts,        \* history: POST requests that carried the row
    accepted,     \* history: those the receiver accepted
    limit,        \* rows one claim looks at (500; cnotify -n), fixed for a behaviour
    incidents, freezes  \* bounds, see the constants

table == <<row, status, due, batch, batchStatus>>
runs == <<lock, stage, kinds, forced, units, result>>
wire == <<posts, accepted>>
bounds == <<limit, incidents, freezes>>
vars == <<jobs, excluded, table, runs, wire, bounds>>

TypeOK ==
    /\ jobs \in [Jobs -> {"none", "UNKNOWN", "active", "ended"}]
    /\ excluded \in SUBSET Jobs
    /\ row \in [Ids -> Row \cup {NoRow}]
    /\ status \in [Ids -> RowStatuses]
    /\ due \in [Ids -> BOOLEAN]
    /\ batch \in [Ids -> Ids \cup {NoBatch}]
    /\ batchStatus \in [Ids -> BatchStatuses]
    /\ lock \in Dispatchers \cup {NoOne}
    /\ stage \in [Dispatchers -> {"off", "recover", "claim", "send", "finish"}]
    /\ kinds \in [Dispatchers -> Seq(Modes)]
    /\ forced \in [Dispatchers -> BOOLEAN]
    /\ units \in [Dispatchers -> SUBSET Unit]
    /\ result \in [Dispatchers -> Results]
    /\ posts \in [Ids -> Nat]
    /\ accepted \in [Ids -> Nat]
    /\ limit \in 1..Limit
    /\ incidents \in 0..MaxIncidents
    /\ freezes \in 0..MaxFreezes

Init ==
    /\ jobs = [j \in Jobs |-> "none"]
    /\ excluded = {}
    /\ row = [n \in Ids |-> NoRow]
    /\ status = [n \in Ids |-> "absent"]
    /\ due = [n \in Ids |-> FALSE]
    /\ batch = [n \in Ids |-> NoBatch]
    /\ batchStatus = [n \in Ids |-> "absent"]
    /\ lock = NoOne
    /\ stage = [d \in Dispatchers |-> "off"]
    /\ kinds = [d \in Dispatchers |-> <<>>]
    /\ forced = [d \in Dispatchers |-> FALSE]
    /\ units = [d \in Dispatchers |-> {}]
    /\ result = [d \in Dispatchers |-> "uncertain"]
    /\ posts = [n \in Ids |-> 0]
    /\ accepted = [n \in Ids |-> 0]
    /\ limit \in 1..Limit
    /\ incidents = 0 /\ freezes = 0

-----------------------------------------------------------------------------
(* Jobs and their completion *)

(* Receipts insert a job, the tracker follows it to its end.               *)
JobProceeds(j) ==
    /\ \/ jobs[j] = "none" /\ j = (CHOOSE i \in Jobs : jobs[i] = "none") /\ jobs' = [jobs EXCEPT ![j] = "UNKNOWN"]
       \/ jobs[j] = "UNKNOWN" /\ jobs' = [jobs EXCEPT ![j] = "active"]
       \/ jobs[j] \in {"UNKNOWN", "active"} /\ jobs' = [jobs EXCEPT ![j] = "ended"]
    /\ UNCHANGED <<excluded, table, runs, wire, bounds>>

Written == {n \in Ids : status[n] # "absent"}

SameKey(n, j, v) ==
    row[n].job = j /\ row[n].verdict.status = v.status /\ row[n].verdict.category = v.category

(* The transaction of a completion handler, which may run again and then   *)
(* conclude something else: a row unless the dedupe key has one already.   *)
Complete(j, v) ==
    LET n == Cardinality(Written) + 1
    IN  /\ jobs[j] = "ended"
        /\ n \in Ids
        /\ \A m \in Written : ~SameKey(m, j, v)
        /\ row' = [row EXCEPT ![n] = [job |-> j, verdict |-> v]]
        /\ status' = [status EXCEPT ![n] = IF j \in excluded THEN "suppressed" ELSE "pending"]
        /\ UNCHANGED <<jobs, excluded, due, batch, batchStatus, runs, wire, bounds>>

(* Time passes: older rows leave the window first.                         *)
WindowElapses(n) ==
    /\ status[n] = "pending" /\ ~due[n]
    /\ \A m \in Written : m < n => due[m] \/ status[m] # "pending"
    /\ due' = [due EXCEPT ![n] = TRUE]
    /\ UNCHANGED <<jobs, excluded, row, status, batch, batchStatus, runs, wire, bounds>>

-----------------------------------------------------------------------------
(* dispatch_pending() *)

(* With dispatch.lock held by another process it returns at once.          *)
Start(d, modes, force) ==
    /\ stage[d] = "off" /\ d = CHOOSE e \in Dispatchers : stage[e] = "off"
    /\ lock = NoOne
    /\ lock' = d
    /\ stage' = [stage EXCEPT ![d] = "recover"]
    /\ kinds' = [kinds EXCEPT ![d] = modes]
    /\ forced' = [forced EXCEPT ![d] = force]
    /\ UNCHANGED <<jobs, excluded, table, units, result, wire, limit, freezes>>

AllModes == <<"immediate", "batch", "digest">>

(* The end of every tracker pass.                                          *)
StartTracker(d) == Start(d, AllModes, FALSE) /\ UNCHANGED incidents

(* cnotify dispatch [--mode M] [--force]                                   *)
StartManual(d) ==
    /\ incidents < MaxIncidents
    /\ incidents' = incidents + 1
    /\ \E modes \in {<<m>> : m \in Modes} \cup {AllModes}, force \in BOOLEAN : Start(d, modes, force)

(* Mutants: interrupted messages are queued again; batches are forgotten.  *)
RecoverForResend(d) ==
    /\ stage[d] = "recover"
    /\ status' = [n \in Ids |-> IF status[n] = "sending" THEN "pending" ELSE status[n]]
    /\ stage' = [stage EXCEPT ![d] = "claim"]
    /\ UNCHANGED <<jobs, excluded, row, due, batch, batchStatus, lock, kinds, forced, units, result, wire, bounds>>
RecoverRowsOnly(d) ==
    /\ stage[d] = "recover"
    /\ status' = [n \in Ids |-> IF status[n] = "sending" THEN "uncertain" ELSE status[n]]
    /\ stage' = [stage EXCEPT ![d] = "claim"]
    /\ UNCHANGED <<jobs, excluded, row, due, batch, batchStatus, lock, kinds, forced, units, result, wire, bounds>>

(* What is still "sending" belongs to a dispatcher that died.              *)
Recover(d) ==
    /\ stage[d] = "recover"
    /\ status' = [n \in Ids |-> IF status[n] = "sending" THEN "uncertain" ELSE status[n]]
    /\ batchStatus' = [n \in Ids |-> IF batchStatus[n] = "sending" THEN "uncertain" ELSE batchStatus[n]]
    /\ stage' = [stage EXCEPT ![d] = "claim"]
    /\ UNCHANGED <<jobs, excluded, row, due, batch, lock, kinds, forced, units, result, wire, bounds>>

Candidates(mode) ==
    {n \in Written : status[n] = "pending" /\ row[n].verdict.mode = mode /\ row[n].job \notin excluded}

(* order by id limit ?                                                     *)
Selected(mode) ==
    {n \in Candidates(mode) : Cardinality({m \in Candidates(mode) : m < n}) < limit}

Grouped(mode) == mode # "immediate" \/ Cardinality(Selected(mode)) >= Threshold

Claimed(mode, force) ==
    {n \in Selected(mode) : mode = "immediate" \/ force \/ due[n]}

(* The rows delivered together with row n.                                 *)
GroupOf(n, mode, force) ==
    IF Grouped(mode)
    THEN {m \in Claimed(mode, force) : row[m].verdict.category = row[n].verdict.category}
    ELSE {n}

FirstOf(S) == CHOOSE n \in S : \A m \in S : n <= m

(* _claim(): all units of one mode become "sending" in one transaction.    *)
Claim(d) ==
    LET mode == Head(kinds[d])
        claimed == Claimed(mode, forced[d])
        groups == {GroupOf(n, mode, forced[d]) : n \in claimed}
        firsts == {FirstOf(g) : g \in groups}
    IN  /\ stage[d] = "claim" /\ kinds[d] # <<>>
        /\ status' = [n \in Ids |-> IF n \in claimed THEN "sending" ELSE status[n]]
        /\ IF Grouped(mode)
           THEN /\ batch' = [n \in Ids |->
                      IF n \in claimed THEN FirstOf(GroupOf(n, mode, forced[d])) ELSE batch[n]]
                /\ batchStatus' = [n \in Ids |-> IF n \in firsts THEN "sending" ELSE batchStatus[n]]
           ELSE UNCHANGED <<batch, batchStatus>>
        /\ units' = [units EXCEPT ![d] =
              {[ids |-> g, batch |-> IF Grouped(mode) THEN FirstOf(g) ELSE NoBatch] : g \in groups}]
        /\ kinds' = [kinds EXCEPT ![d] = Tail(@)]
        /\ stage' = [stage EXCEPT ![d] = "send"]
        /\ UNCHANGED <<jobs, excluded, row, due, lock, forced, result, wire, bounds>>

(* Units go out in the order of their first rows.                          *)
InHand(d, u) ==
    /\ u \in units[d]
    /\ \A w \in units[d] : FirstOf(u.ids) <= FirstOf(w.ids)

Plus(f, S) == [n \in Ids |-> IF n \in S THEN f[n] + 1 ELSE f[n]]

(* Mutant: a timeout counts as delivered.                                  *)
SendOptimistic(d) ==
    /\ stage[d] = "send"
    /\ \E u \in units[d] :
        /\ InHand(d, u)
        /\ posts' = Plus(posts, u.ids) /\ accepted' \in {accepted, Plus(accepted, u.ids)}
        /\ result' = [result EXCEPT ![d] = IF u.batch = NoBatch THEN "sent" ELSE "batched"]
    /\ stage' = [stage EXCEPT ![d] = "finish"]
    /\ UNCHANGED <<jobs, excluded, table, lock, kinds, forced, units, bounds>>

(* One POST, no retry.  Delivered and confirmed; perhaps delivered but not *)
(* confirmed; or the message could not even be built.                      *)
Send(d) ==
    /\ stage[d] = "send"
    /\ \E u \in units[d] :
        /\ InHand(d, u)
        /\ \/ /\ posts' = Plus(posts, u.ids) /\ accepted' = Plus(accepted, u.ids)
              /\ result' = [result EXCEPT ![d] = IF u.batch = NoBatch THEN "sent" ELSE "batched"]
           \/ /\ posts' = Plus(posts, u.ids) /\ accepted' \in {accepted, Plus(accepted, u.ids)}
              /\ result' = [result EXCEPT ![d] = "uncertain"]
           \/ /\ UNCHANGED wire
              /\ result' = [result EXCEPT ![d] = "uncertain"]
    /\ stage' = [stage EXCEPT ![d] = "finish"]
    /\ UNCHANGED <<jobs, excluded, table, lock, kinds, forced, units, bounds>>

(* _finish(): rows only if they are still "sending", the batch always.     *)
Finish(d) ==
    /\ stage[d] = "finish"
    /\ \E u \in units[d] :
        /\ InHand(d, u)
        /\ status' = [n \in Ids |->
              IF n \in u.ids /\ status[n] = "sending" THEN result[d] ELSE status[n]]
        /\ batchStatus' = IF u.batch = NoBatch THEN batchStatus
              ELSE [batchStatus EXCEPT ![u.batch] = IF result[d] = "batched" THEN "sent" ELSE result[d]]
        /\ units' = [units EXCEPT ![d] = @ \ {u}]
    /\ stage' = [stage EXCEPT ![d] = "send"]
    /\ UNCHANGED <<jobs, excluded, row, due, batch, lock, kinds, forced, result, wire, bounds>>

(* Mutant: "return sent" one level too deep.                               *)
NextModeNever(d) ==
    /\ stage[d] = "send" /\ units[d] = {}
    /\ stage' = [stage EXCEPT ![d] = "claim"]
    /\ kinds' = [kinds EXCEPT ![d] = <<>>]
    /\ UNCHANGED <<jobs, excluded, table, lock, forced, units, result, wire, bounds>>

NextMode(d) ==
    /\ stage[d] = "send" /\ units[d] = {}
    /\ stage' = [stage EXCEPT ![d] = "claim"]
    /\ UNCHANGED <<jobs, excluded, table, lock, kinds, forced, units, result, wire, bounds>>

Leave(d) ==
    /\ stage' = [stage EXCEPT ![d] = "off"]
    /\ lock' = IF lock = d THEN NoOne ELSE lock
    /\ kinds' = [kinds EXCEPT ![d] = <<>>]
    /\ units' = [units EXCEPT ![d] = {}]

Return(d) ==
    /\ stage[d] = "claim" /\ kinds[d] = <<>>
    /\ Leave(d)
    /\ UNCHANGED <<jobs, excluded, table, forced, result, wire, bounds>>

(* The process dies, or a transaction fails past the retry deadline and    *)
(* its exception leaves dispatch_pending().                                *)
Die(d) ==
    /\ incidents < MaxIncidents
    /\ stage[d] # "off"
    /\ Leave(d)
    /\ incidents' = incidents + 1
    /\ UNCHANGED <<jobs, excluded, table, forced, result, wire, limit, freezes>>

-----------------------------------------------------------------------------
(* Mutant: the boundary is drawn under a running dispatcher.               *)
FreezeHistoryUnlocked ==
    /\ freezes < MaxFreezes
    /\ excluded' = excluded \cup {j \in Jobs : jobs[j] \in {"UNKNOWN", "ended"}}
    /\ status' = [n \in Ids |->
          IF status[n] \in {"pending", "sending", "uncertain"} THEN "suppressed" ELSE status[n]]
    /\ batchStatus' = [n \in Ids |->
          IF batchStatus[n] \in {"sending", "uncertain"} THEN "suppressed" ELSE batchStatus[n]]
    /\ freezes' = freezes + 1
    /\ UNCHANGED <<jobs, row, due, batch, runs, wire, limit, incidents>>

(* freeze_history(): needs the idle dispatch.lock (and the tracker's and   *)
(* the workers' locks); one transaction.                                   *)
FreezeHistory ==
    /\ freezes < MaxFreezes
    /\ lock = NoOne
    /\ excluded' = excluded \cup {j \in Jobs : jobs[j] \in {"UNKNOWN", "ended"}}
    /\ status' = [n \in Ids |->
          IF status[n] \in {"pending", "sending", "uncertain"} THEN "suppressed" ELSE status[n]]
    /\ batchStatus' = [n \in Ids |->
          IF batchStatus[n] \in {"sending", "uncertain"} THEN "suppressed" ELSE batchStatus[n]]
    /\ freezes' = freezes + 1
    /\ UNCHANGED <<jobs, row, due, batch, runs, wire, limit, incidents>>

-----------------------------------------------------------------------------
Advance(d) == Recover(d) \/ Claim(d) \/ Send(d) \/ Finish(d) \/ NextMode(d) \/ Return(d)

Next ==
    \/ \E j \in Jobs : JobProceeds(j) \/ \E v \in Verdicts : Complete(j, v)
    \/ \E n \in Ids : WindowElapses(n)
    \/ \E d \in Dispatchers : StartTracker(d) \/ StartManual(d) \/ Advance(d) \/ Die(d)
    \/ FreezeHistory

Spec == Init /\ [][Next]_vars

(* cron runs a tracker pass every minute, and one that gets past sacct and *)
(* its writes ends with a dispatcher; a started dispatcher goes on (a POST *)
(* times out); time passes.                                                *)
Fairness ==
    /\ WF_vars(\E d \in Dispatchers : StartTracker(d))
    /\ \A d \in Dispatchers : WF_vars(Advance(d))
    /\ \A n \in Ids : WF_vars(WindowElapses(n))

FairSpec == Spec /\ Fairness

-----------------------------------------------------------------------------
(* Properties *)

(* What the table says of a delivery is what happened: "sent" and          *)
(* "batched" only after the receiver accepted it, "pending" only if it was *)
(* never posted, so nothing that may have arrived can be posted again      *)
(* (feishu.py:256-273).                                                    *)
StatusTellsDelivery ==
    \A n \in Ids :
        /\ status[n] \in {"sent", "batched"} => accepted[n] = 1
        /\ status[n] \in {"absent", "pending"} => posts[n] = 0

(* A summary card and its members never disagree, whoever died or froze in *)
(* between (rows and batches are updated by different conditions).         *)
BatchAgrees ==
    \A n \in Ids :
        batch[n] # NoBatch =>
            status[n] = IF batchStatus[batch[n]] = "sent" THEN "batched" ELSE batchStatus[batch[n]]

(* "no historical replay" (docs/operations.md:65): a job excluded by a     *)
(* freeze is never written about again, even by a dispatcher that claimed  *)
(* before or a completion handled after.                                   *)
NoReplay ==
    [][\A n \in Ids : posts'[n] # posts[n] => row[n].job \notin excluded]_vars

(* With cron alive a notification does not stay pending.                   *)
EventuallyAttempted ==
    \A n \in Ids : status[n] = "pending" ~> status[n] # "pending"

Phase(n) ==
    CASE status[n] = "absent" -> "absent"
      [] status[n] = "pending" -> "queued"
      [] status[n] = "sending" -> "claimed"
      [] OTHER -> "closed"

Promise == INSTANCE Delivery WITH phase <- [n \in Ids |-> Phase(n)]

(* A message is posted at most once, in spite of timeouts, crashes and     *)
(* concurrent dispatchers (docs/notifications.md:10-14).                   *)
AtMostOnce == Promise!Spec
=============================================================================
