------------------------------ MODULE Backups ------------------------------
(***************************************************************************)
(* Copies of the database: `cdoctor backup' and `cdoctor restore', while   *)
(* runs of ModelCalls commit to it.  A copy is made step by step, without  *)
(* holding the database's lock between the steps; here it has two steps,   *)
(* one for the summaries and one for the events.  SQLite starts a copy     *)
(* over when another connection changed its source in between.             *)
(***************************************************************************)
EXTENDS ModelCalls

CONSTANTS Copiers,    \* processes that back up or restore, one by one
          Paths,      \* where copies are put: backups and restored roots
          Database    \* the path of the database that is in use

ASSUME BackupAssumptions == Database \notin Paths

VARIABLES
  file,    \* what is at each of Paths
  copy,    \* what each copier is doing
  good     \* the paths a backup or restore reported as verified

copyVars == <<file, copy, good>>
vars == <<callVars, copyVars>>

(* A path holds nothing, a file that was created and never completed       *)
(* (empty, or with a journal that a reader may not play back), or a        *)
(* database.                                                               *)
None == [is |-> "none"]
Partial == [is |-> "partial"]
Whole(d) == [is |-> "database", holds |-> d]

Verified(f) == f.is = "database"

(* What a copier is at: the step it does next, from and to which path, and *)
(* the half it has, stale once another connection changed the source.      *)
Job(at, from, to, half, stale) ==
  [at |-> at, from |-> from, to |-> to, half |-> half, stale |-> stale]

Resting == Job("rest", Database, Database, <<>>, FALSE)

Source(p) == IF p = Database THEN db ELSE file[p].holds

Init ==
  /\ InitCalls
  /\ file = [p \in Paths |-> None]
  /\ copy = [b \in Copiers |-> Resting]
  /\ good = {}

-----------------------------------------------------------------------------
Does(b, job) == copy' = [copy EXCEPT ![b] = job]

(* A backup reads the database, a restore a file it verified first.        *)
Begin(b, from, to) ==
  /\ copy[b].at = "rest"
  /\ tasks < MaxTasks
  /\ from \in {Database} \cup {p \in Paths : Verified(file[p])}
  /\ tasks' = tasks + 1
  /\ Does(b, Job("create", from, to, <<>>, FALSE))
  /\ UNCHANGED <<call, db, file, good>>

(* As Create, truncating what is there.                                    *)
CreateOver(b) ==
  LET to == copy[b].to IN
  /\ copy[b].at = "create"
  /\ file' = [file EXCEPT ![to] = Partial]
  /\ Does(b, Job("copy", copy[b].from, to, <<>>, FALSE))
  /\ UNCHANGED <<callVars, good>>

(* The file, or the directory of a restored root, must not exist.          *)
Create(b) ==
  LET to == copy[b].to IN
  /\ copy[b].at = "create"
  /\ IF file[to] = None
       THEN /\ file' = [file EXCEPT ![to] = Partial]
            /\ Does(b, Job("copy", copy[b].from, to, <<>>, FALSE))
       ELSE /\ Does(b, Resting)
            /\ UNCHANGED file
  /\ UNCHANGED <<callVars, good>>

CopyBegins(b) ==
  /\ copy[b].at = "copy"
  /\ Does(b, Job("more", copy[b].from, copy[b].to,
                 Source(copy[b].from).summary, FALSE))
  /\ UNCHANGED <<callVars, file, good>>

(* As CopyEnds, copying the file and not through the backup interface.     *)
CopyEndsRegardless(b) ==
  LET job == copy[b] IN
  /\ job.at = "more"
  /\ Does(b, Job("verify", job.from, job.to, <<>>, FALSE))
  /\ file' = [file EXCEPT ![job.to] =
                Whole([summary |-> job.half,
                       events |-> Source(job.from).events])]
  /\ UNCHANGED <<callVars, good>>

CopyEnds(b) ==
  LET job == copy[b] IN
  /\ job.at = "more"
  /\ IF job.stale
       THEN /\ Does(b, Job("copy", job.from, job.to, <<>>, FALSE))
            /\ UNCHANGED file
       ELSE /\ Does(b, Job("verify", job.from, job.to, <<>>, FALSE))
            /\ file' = [file EXCEPT ![job.to] =
                          Whole([summary |-> job.half,
                                 events |-> Source(job.from).events])]
  /\ UNCHANGED <<callVars, good>>

Verify(b) ==
  LET to == copy[b].to IN
  /\ copy[b].at = "verify"
  /\ good' = IF Verified(file[to]) THEN good \cup {to} ELSE good
  /\ Does(b, Resting)
  /\ UNCHANGED <<callVars, file>>

(* An error or a kill; what was created stays as it is.                    *)
CopyFails(b) ==
  /\ copy[b].at \notin {"rest", "create"}
  /\ Does(b, Resting)
  /\ UNCHANGED <<callVars, file, good>>

(* A commit makes the copies of the database that are under way stale.     *)
Commit ==
  /\ CallsStep
  /\ copy' = [b \in Copiers |->
                LET job == copy[b] IN
                IF db' # db /\ job.from = Database /\ job.at = "more"
                  THEN Job("more", job.from, job.to, job.half, TRUE)
                  ELSE job]
  /\ UNCHANGED <<file, good>>

Copying(b) ==
  \/ Create(b) \/ CopyBegins(b) \/ CopyEnds(b) \/ Verify(b) \/ CopyFails(b)

(* Nothing is left to do within the bounds.                                *)
Done ==
  /\ tasks = MaxTasks
  /\ \A c \in Callers : call[c].at = "off"
  /\ \A b \in Copiers : copy[b].at = "rest"
  /\ UNCHANGED vars

(* Destinations to tell apart: one that is free, and those that are not.   *)
Free == {p \in Paths : file[p] = None}

Destinations ==
  (Paths \ Free) \cup (IF Free = {} THEN {} ELSE {CHOOSE p \in Free : TRUE})

Next ==
  \/ Done
  \/ Commit
  \/ \E b \in Copiers :
       \/ \E from \in Paths \cup {Database}, to \in Destinations :
            Begin(b, from, to)
       \/ Copying(b)

Spec == Init /\ [][Next]_vars

FairSpec == Spec /\ CallsFairness

-----------------------------------------------------------------------------
(* Whatever a path holds as a database, and so every verified backup and   *)
(* every restored root, is a state the database committed: its summaries   *)
(* agree with its events, and its events are the first of the database's   *)
(* (doctor.backup while runs of ModelCalls commit).                        *)
BackupsAgree ==
  /\ \A p \in Paths :
       Verified(file[p]) => /\ Agrees(file[p].holds)
                            /\ IsPrefix(file[p].holds.events, db.events)
  /\ \A p \in good : Verified(file[p])

(* A file that can be verified is never changed again, by no later backup, *)
(* restore, failure or kill, and a file once created never disappears      *)
(* (doctor.py refuses existing files and keeps partial ones).              *)
BackupsStand ==
  [][\A p \in Paths : /\ Verified(file[p]) => file'[p] = file[p]
                      /\ file[p] = Partial => file'[p] # None]_vars
=============================================================================
