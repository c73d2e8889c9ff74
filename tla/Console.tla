------------------------------- MODULE Console -------------------------------
(***************************************************************************)
(* Web consoles on one CSLURM_ROOT: cweb itself and the helpers that SSH   *)
(* connections start (src/src/cslurm/web/operations.py, settings.py).      *)
(* A console runs one child process at a time in a worker thread, keeps    *)
(* the last results, and edits config.toml under a revision.  Consoles     *)
(* meet each other, cron and the user's editor in two files: ctrack.lock   *)
(* and config.toml with its config.lock.                                   *)
(***************************************************************************)
EXTENDS Naturals, Sequences, SequencesExt

CONSTANTS
    Consoles,    \* console processes
    Modes,       \* what consoles may do: "read", "write", "cancel"
    Keep,        \* results a console keeps (50 in the code)
    MaxOps,      \* bound: operations started
    MaxSaves,    \* bound: saves begun
    MaxEdits,    \* bound: edits of config.toml outside the consoles
    MaxKills,    \* bound: consoles that die without closing
    NoOne        \* a free lock; also the author of an edit outside

Kinds == {"refresh", "cancel", "other"}

ASSUME ConstantsAssumption ==
    /\ Modes \subseteq {"read", "write", "cancel"}
    /\ Keep \in Nat \ {0}
    /\ {MaxOps, MaxSaves, MaxEdits, MaxKills} \subseteq Nat
    /\ {NoOne, "cron"} \cap Consoles = {}

VARIABLES
    life,        \* per console: "off", "up", "stopping", "terminated", "gone", "killed"
    mode,        \* per console: read_only and allow_cancel
    items,       \* per console: Operations.items, oldest first
    active,      \* per console: id of the active operation, 0 if none
    worker,      \* per console: where _run() is, see Stages
    outcome,     \* per console: status _run() is about to record
    child,       \* per console: the child: "none", "running", exited "ok" or "bad"
    victim,      \* per console: whether close() found a child to terminate
    trackLock,   \* who holds ctrack.lock
    started,     \* operations started so far; the last id given out
    config,      \* config.toml: its version and who wrote it
    configLock,  \* who holds config.lock
    page,        \* per console: the version its browser page was loaded from
    saver,       \* per console: where settings.save() is; it holds ops.lock
    shown,       \* per console: the version the save under way says its page showed
    overtaken,   \* history, per console: an outside edit since that save's second look
    saves, edits, kills  \* bounds: see MaxSaves, MaxEdits, MaxKills

Stages == {"idle", "lock", "spawn", "wait", "release", "settle"}

ops == <<items, active, worker, outcome, child>>
server == <<life, mode, victim, kills>>
save == <<saver, shown, overtaken, saves>>
settings == <<config, configLock, page, save, edits>>
consoleVars == <<server, ops, trackLock, started, settings>>

TypeOK ==
    /\ life \in [Consoles -> {"off", "up", "stopping", "terminated", "gone", "killed"}]
    /\ mode \in [Consoles -> {"read", "write", "cancel"}]
    /\ items \in [Consoles ->
           Seq([id : Nat, kind : Kinds, status : {"running", "succeeded", "failed"}])]
    /\ active \in [Consoles -> Nat]
    /\ worker \in [Consoles -> Stages]
    /\ outcome \in [Consoles -> {"none", "succeeded", "failed"}]
    /\ child \in [Consoles -> {"none", "running", "ok", "bad"}]
    /\ victim \in [Consoles -> BOOLEAN]
    /\ trackLock \in Consoles \cup {"cron", NoOne}
    /\ started \in 0..MaxOps
    /\ config \in [n : Nat, by : Consoles \cup {NoOne}]
    /\ configLock \in Consoles \cup {NoOne}
    /\ page \in [Consoles -> Nat]
    /\ saver \in [Consoles -> {"no", "waiting", "checked", "rechecked"}]
    /\ shown \in [Consoles -> Nat]
    /\ overtaken \in [Consoles -> BOOLEAN]
    /\ saves \in 0..MaxSaves /\ edits \in 0..MaxEdits /\ kills \in 0..MaxKills

Init ==
    /\ life = [c \in Consoles |-> "off"]
    /\ mode = [c \in Consoles |-> "read"]
    /\ items = [c \in Consoles |-> <<>>]
    /\ active = [c \in Consoles |-> 0]
    /\ worker = [c \in Consoles |-> "idle"]
    /\ outcome = [c \in Consoles |-> "none"]
    /\ child = [c \in Consoles |-> "none"]
    /\ victim = [c \in Consoles |-> FALSE]
    /\ trackLock = NoOne
    /\ started = 0
    /\ config = [n |-> 0, by |-> NoOne]
    /\ configLock = NoOne
    /\ page = [c \in Consoles |-> 0]
    /\ saver = [c \in Consoles |-> "no"]
    /\ shown = [c \in Consoles |-> 0]
    /\ overtaken = [c \in Consoles |-> FALSE]
    /\ saves = 0 /\ edits = 0 /\ kills = 0

(* The process runs its threads.                                           *)
Alive(c) == life[c] \in {"up", "stopping", "terminated"}

(* Nobody holds ops.lock for longer than a step.                           *)
OpsFree(c) == saver[c] = "no"

-----------------------------------------------------------------------------
(* Operations *)

Permitted(c, kind) == mode[c] = "cancel" \/ (mode[c] = "write" /\ kind # "cancel")

(* start(): refused while stopping or busy; the oldest results make room.  *)
StartOp(c, kind) ==
    /\ started < MaxOps
    /\ life[c] = "up" /\ OpsFree(c)
    /\ Permitted(c, kind)
    /\ active[c] = 0
    /\ started' = started + 1
    /\ LET kept == SubSeq(items[c], Len(items[c]) - (Keep - 2), Len(items[c]))
       IN  items' = [items EXCEPT ![c] = Append(IF Len(items[c]) < Keep THEN items[c] ELSE kept,
                        [id |-> started', kind |-> kind, status |-> "running"])]
    /\ active' = [active EXCEPT ![c] = started']
    /\ worker' = [worker EXCEPT ![c] = IF kind = "refresh" THEN "lock" ELSE "spawn"]
    /\ UNCHANGED <<server, outcome, child, trackLock, settings>>

To(c, stage, result) ==
    /\ worker' = [worker EXCEPT ![c] = stage]
    /\ outcome' = [outcome EXCEPT ![c] = result]

(* Mutant: the lock is opened and not taken.                               *)
LockTrackingNot(c) ==
    /\ Alive(c) /\ worker[c] = "lock"
    /\ To(c, "spawn", "none")
    /\ UNCHANGED <<server, items, active, child, trackLock, started, settings>>

(* A refresh takes ctrack.lock or gives up at once.                        *)
LockTracking(c) ==
    /\ Alive(c) /\ worker[c] = "lock"
    /\ IF trackLock = NoOne
       THEN trackLock' = c /\ To(c, "spawn", "none")
       ELSE UNCHANGED trackLock /\ To(c, "release", "failed")
    /\ UNCHANGED <<server, items, active, child, started, settings>>

(* Mutant: the server may be stopping.                                     *)
SpawnAnyway(c) ==
    /\ Alive(c) /\ worker[c] = "spawn" /\ OpsFree(c)
    /\ child' = [child EXCEPT ![c] = "running"]
    /\ To(c, "wait", "none")
    /\ UNCHANGED <<server, items, active, trackLock, started, settings>>

(* Refused while stopping; the process may also fail to start.             *)
Spawn(c) ==
    /\ Alive(c) /\ worker[c] = "spawn" /\ OpsFree(c)
    /\ \/ life[c] = "up" /\ child' = [child EXCEPT ![c] = "running"] /\ To(c, "wait", "none")
       \/ UNCHANGED child /\ To(c, "release", "failed")
    /\ UNCHANGED <<server, items, active, trackLock, started, settings>>

(* The child ends by itself, also after its console died.                  *)
ChildExits(c) ==
    /\ child[c] = "running"
    /\ \E code \in {"ok", "bad"} : child' = [child EXCEPT ![c] = code]
    /\ UNCHANGED <<server, items, active, worker, outcome, trackLock, started, settings>>

Collect(c) ==
    /\ Alive(c) /\ worker[c] = "wait" /\ child[c] \in {"ok", "bad"}
    /\ To(c, "release", IF child[c] = "ok" THEN "succeeded" ELSE "failed")
    /\ UNCHANGED <<server, items, active, child, trackLock, started, settings>>

(* 300 s (60 s for a probe) are over: the process group is terminated.     *)
Deadline(c) ==
    /\ Alive(c) /\ worker[c] = "wait"
    /\ child' = [child EXCEPT ![c] = IF @ = "running" THEN "bad" ELSE @]
    /\ To(c, "release", "failed")
    /\ UNCHANGED <<server, items, active, trackLock, started, settings>>

Release(c) ==
    /\ Alive(c) /\ worker[c] = "release"
    /\ trackLock' = IF trackLock = c THEN NoOne ELSE trackLock
    /\ To(c, "settle", outcome[c])
    /\ UNCHANGED <<server, items, active, child, started, settings>>

(* Mutant: a failure leaves without the bookkeeping of "finally".          *)
SettleSuccess(c) ==
    /\ Alive(c) /\ worker[c] = "settle" /\ OpsFree(c)
    /\ items' = [items EXCEPT ![c][Len(items[c])].status = outcome[c]]
    /\ active' = IF outcome[c] = "failed" THEN active ELSE [active EXCEPT ![c] = 0]
    /\ child' = [child EXCEPT ![c] = "none"]
    /\ To(c, "idle", "none")
    /\ UNCHANGED <<server, trackLock, started, settings>>

(* The active operation is the youngest item.                              *)
Settle(c) ==
    /\ Alive(c) /\ worker[c] = "settle" /\ OpsFree(c)
    /\ items' = [items EXCEPT ![c][Len(items[c])].status = outcome[c]]
    /\ active' = [active EXCEPT ![c] = 0]
    /\ child' = [child EXCEPT ![c] = "none"]
    /\ To(c, "idle", "none")
    /\ UNCHANGED <<server, trackLock, started, settings>>

-----------------------------------------------------------------------------
(* The life of a console *)

Open(c, m) ==
    /\ life[c] = "off"
    /\ life' = [life EXCEPT ![c] = "up"]
    /\ mode' = [mode EXCEPT ![c] = m]
    /\ UNCHANGED <<victim, kills, ops, trackLock, started, settings>>

(* close(): no further child is started; a running one is remembered ...   *)
CloseAsk(c) ==
    /\ life[c] = "up" /\ OpsFree(c)
    /\ life' = [life EXCEPT ![c] = "stopping"]
    /\ victim' = [victim EXCEPT ![c] = worker[c] \in {"wait", "release", "settle"} /\ child[c] # "none"]
    /\ UNCHANGED <<mode, kills, ops, trackLock, started, settings>>

(* ... and terminated ...                                                  *)
CloseTerminate(c) ==
    /\ life[c] = "stopping"
    /\ life' = [life EXCEPT ![c] = "terminated"]
    /\ child' = [child EXCEPT ![c] = IF victim[c] /\ @ = "running" THEN "bad" ELSE @]
    /\ UNCHANGED <<mode, victim, kills, items, active, worker, outcome,
                   trackLock, started, settings>>

(* A save is over, with its locks.                                         *)
SaveEnds(c) ==
    /\ saver' = [saver EXCEPT ![c] = "no"]
    /\ shown' = [shown EXCEPT ![c] = 0]
    /\ overtaken' = [overtaken EXCEPT ![c] = FALSE]
    /\ configLock' = IF configLock = c THEN NoOne ELSE configLock

(* The process ends: its locks are dropped, its threads and its results    *)
(* are gone, an unfinished save has replaced nothing.                      *)
Exit(c) ==
    /\ trackLock' = IF trackLock = c THEN NoOne ELSE trackLock
    /\ SaveEnds(c)
    /\ items' = [items EXCEPT ![c] = <<>>]
    /\ active' = [active EXCEPT ![c] = 0]
    /\ To(c, "idle", "none")
    /\ victim' = [victim EXCEPT ![c] = FALSE]
    /\ page' = [page EXCEPT ![c] = 0]
    /\ UNCHANGED <<mode, child, started, config, saves, edits>>

(* ... and its worker awaited, for 8 s at most.                            *)
CloseJoin(c) ==
    /\ life[c] = "terminated"
    /\ life' = [life EXCEPT ![c] = "gone"]
    /\ Exit(c)
    /\ UNCHANGED kills

(* A console is killed; the child, in a session of its own, lives on.      *)
Kill(c) ==
    /\ kills < MaxKills
    /\ Alive(c)
    /\ life' = [life EXCEPT ![c] = "killed"]
    /\ kills' = kills + 1
    /\ Exit(c)

(* The tracker that cron starts, see Tracker.                              *)
CronTracks ==
    /\ trackLock = NoOne /\ trackLock' = "cron"
    /\ UNCHANGED <<server, ops, started, settings>>

CronEnds ==
    /\ trackLock = "cron" /\ trackLock' = NoOne
    /\ UNCHANGED <<server, ops, started, settings>>

-----------------------------------------------------------------------------
(* Settings *)

LoadPage(c) ==
    /\ Alive(c)
    /\ page' = [page EXCEPT ![c] = config.n]
    /\ UNCHANGED <<server, ops, trackLock, started, config, configLock, save, edits>>

(* POST /api/settings carries the revision of the page, which may be       *)
(* loaded again meanwhile; it holds ops.lock until the save is over.       *)
BeginSave(c) ==
    /\ saves < MaxSaves
    /\ life[c] = "up" /\ OpsFree(c) /\ active[c] = 0
    /\ mode[c] # "read"
    /\ saver' = [saver EXCEPT ![c] = "waiting"]
    /\ shown' = [shown EXCEPT ![c] = page[c]]
    /\ saves' = saves + 1
    /\ UNCHANGED <<server, ops, trackLock, started, config, configLock, page, overtaken, edits>>

(* Under config.lock: the page must show the file as it is.                *)
CheckRevision(c) ==
    /\ saver[c] = "waiting" /\ Alive(c)
    /\ configLock = NoOne
    /\ IF shown[c] = config.n
       THEN /\ configLock' = c
            /\ saver' = [saver EXCEPT ![c] = "checked"]
            /\ UNCHANGED <<shown, overtaken>>
       ELSE SaveEnds(c)
    /\ UNCHANGED <<server, ops, trackLock, started, config, page, saves, edits>>

(* Mutant: the file is not read again.                                     *)
RecheckNot(c) ==
    /\ saver[c] = "checked" /\ Alive(c)
    /\ saver' = [saver EXCEPT ![c] = "rechecked"]
    /\ UNCHANGED <<server, ops, trackLock, started, config, configLock, page, shown, overtaken,
                   saves, edits>>

(* The backup and the new file are written; then the file is read again.   *)
Recheck(c) ==
    /\ saver[c] = "checked" /\ Alive(c)
    /\ IF shown[c] = config.n
       THEN saver' = [saver EXCEPT ![c] = "rechecked"] /\ UNCHANGED <<configLock, shown, overtaken>>
       ELSE SaveEnds(c)
    /\ UNCHANGED <<server, ops, trackLock, started, config, page, saves, edits>>

(* os.replace(); the answer carries the new revision.                      *)
Replace(c) ==
    /\ saver[c] = "rechecked" /\ Alive(c)
    /\ config' = [n |-> config.n + 1, by |-> c]
    /\ page' = [page EXCEPT ![c] = config'.n]
    /\ SaveEnds(c)
    /\ UNCHANGED <<server, ops, trackLock, started, saves, edits>>

(* Values are refused, or the disk is full: nothing is replaced.           *)
SaveFails(c) ==
    /\ saver[c] \in {"checked", "rechecked"} /\ Alive(c)
    /\ SaveEnds(c)
    /\ UNCHANGED <<server, ops, trackLock, started, config, page, saves, edits>>

(* The user's editor knows no lock.                                        *)
OutsideEdit ==
    /\ edits < MaxEdits
    /\ edits' = edits + 1
    /\ config' = [n |-> config.n + 1, by |-> NoOne]
    /\ overtaken' = [c \in Consoles |-> saver[c] = "rechecked"]
    /\ UNCHANGED <<server, ops, trackLock, started, configLock, page, saver, shown, saves>>

-----------------------------------------------------------------------------
Work(c) == LockTracking(c) \/ Spawn(c) \/ Collect(c) \/ Deadline(c) \/ Release(c) \/ Settle(c)
Closing(c) == CloseTerminate(c) \/ CloseJoin(c)
Saving(c) == CheckRevision(c) \/ Recheck(c) \/ Replace(c) \/ SaveFails(c)

Next ==
    \/ \E c \in Consoles :
        \/ \E m \in Modes : Open(c, m)
        \/ CloseAsk(c) \/ Closing(c) \/ Kill(c)
        \/ \E kind \in Kinds : StartOp(c, kind)
        \/ Work(c) \/ ChildExits(c)
        \/ LoadPage(c) \/ BeginSave(c) \/ Saving(c)
    \/ CronTracks \/ CronEnds \/ OutsideEdit

Spec == Init /\ [][Next]_consoleVars

-----------------------------------------------------------------------------
(* Properties *)

(* At most one tracker pass runs at a time, whether cron or a console      *)
(* started it, as long as no console dies under its pass: the lock covers  *)
(* the child from before its start to after its end (operations.py:130-168,*)
(* tests/test_web.py:285).                                                 *)
Tracking(c) == child[c] = "running" /\ Last(items[c]).kind = "refresh"

OneTracker ==
    LET tracking == {c \in Consoles : life[c] # "killed" /\ Tracking(c)}
    IN  /\ \A c, d \in tracking : c = d
        /\ tracking # {} => trackLock # "cron"

(* A console that closed leaves no child behind, even if it was asked to   *)
(* close just before a child was started (operations.py:117-124, 141-143). *)
NoneLeftBehind ==
    \A c \in Consoles : life[c] \in {"terminated", "gone"} => child[c] # "running"

(* A save replaces the version its page showed, or what an editor that     *)
(* takes no lock wrote after the second look: it overwrites no other       *)
(* console and no earlier edit (settings.py:186-243).                      *)
SavesSurvive ==
    [][LET author == config'.by
       IN  config' # config /\ author # NoOne
               => shown[author] = config.n \/ overtaken[author]]_consoleVars

=============================================================================
