------------------------------ MODULE Crontab ------------------------------
(***************************************************************************)
(* The user's crontab and the block in it that runs the tracker: `ctrack   *)
(* auto on' and `off', the command in the block, which removes the block   *)
(* once the package is gone, and the user with an editor.  Everybody reads *)
(* the whole crontab and later installs a whole one; nothing locks it.     *)
(*                                                                         *)
(* A line is the begin or the end marker, the managed line, or one of the  *)
(* user's entries; blank lines and comments are left out.                  *)
(***************************************************************************)
EXTENDS Naturals, FiniteSets, Sequences, SequencesExt

CONSTANTS Commands,  \* processes of `ctrack auto'
          Ticks,     \* runs of the managed line that cron starts
          Entries,   \* of the user, each put in at most once
          MaxUses    \* bound on commands, edits and failing reads, together

ASSUME CrontabAssumptions ==
  /\ MaxUses \in Nat
  /\ Entries \cap {"begin", "tracker", "end"} = {}
  /\ "user" \notin Commands \cup Ticks

User == "user"
Writers == Commands \cup Ticks \cup {User}

VARIABLES
  crontab,  \* its lines
  package,  \* what the managed line finds when it runs
  writer,   \* what each writer is doing, and the text it read
  uses      \* commands, edits and failing reads so far

vars == <<crontab, package, writer, uses>>

Packages == {"importable", "not importable", "no directory"}

Idle == [does |-> "nothing", text |-> <<>>]

Block == <<"begin", "tracker", "end">>

(* The lines of a text that are among `lines', in their order.             *)
Among(text, lines) ==
  FoldLeft(LAMBDA some, line : IF line \in lines THEN Append(some, line)
                               ELSE some, <<>>, text)

Init ==
  /\ crontab = <<>>
  /\ package = "importable"
  /\ writer = [w \in Writers |-> Idle]
  /\ uses = 0

-----------------------------------------------------------------------------
(* As Scan, taking all that follows the begin marker for the block.        *)
ScanToTheEnd(seen, line) ==
  CASE line = "begin" -> [seen EXCEPT !.inside = TRUE]
    [] line = "end"   -> seen
    [] OTHER -> IF seen.inside THEN seen
                ELSE [seen EXCEPT !.kept = Append(@, line)]

(* _strip_managed_block: everything from a begin marker to the next end    *)
(* marker goes, and end markers; the awk script of the managed line does   *)
(* the same.                                                               *)
Scan(seen, line) ==
  CASE line = "begin" -> [seen EXCEPT !.inside = TRUE]
    [] line = "end"   -> [seen EXCEPT !.inside = FALSE]
    [] OTHER -> IF seen.inside THEN seen
                ELSE [seen EXCEPT !.kept = Append(@, line)]

Strip(text) == FoldLeft(Scan, [kept |-> <<>>, inside |-> FALSE], text).kept

(* _managed_line: a command between a begin marker and what ends the block.*)
Managed(text) ==
  \E i \in 1..(Len(text) - 1) : text[i] = "begin" /\ text[i + 1] # "end"

(* As Updated, where `on' looks for a block and adds one if there is none. *)
UpdatedIfClosed(does, text) ==
  IF does # "on" THEN Strip(text)
  ELSE IF "end" \in ToSet(text) THEN text ELSE text \o Block

(* What a writer installs after reading `text'.                            *)
Updated(does, text) ==
  IF does = "on" THEN Strip(text) \o Block ELSE Strip(text)

(* A writer reads the crontab.  A `crontab -l' that fails for any reason,  *)
(* a time-out excepted, reads as an empty crontab.                         *)
Reads(w, does, fails) ==
  LET text == IF fails THEN <<>> ELSE crontab IN
  /\ writer[w] = Idle
  /\ writer' = IF does = "off" /\ ~Managed(text) THEN writer
               ELSE [writer EXCEPT ![w] = [does |-> does, text |-> text]]
  /\ UNCHANGED <<crontab, package>>

Uses(n) == uses + n =< MaxUses /\ uses' = uses + n

CommandReads(w, does, fails) ==
  /\ package = "importable"
  /\ Uses(IF fails THEN 2 ELSE 1)
  /\ Reads(w, does, fails)

(* As MustCleanUp, where a failing cd only ends the line.                  *)
MustCleanUpPackage == package = "not importable"

(* cron runs the managed line, which finds nothing to run: the cd or the   *)
(* import fails.                                                           *)
MustCleanUp == package # "importable"

TickReads(w, fails) ==
  /\ "tracker" \in ToSet(crontab)
  /\ MustCleanUp
  /\ Uses(IF fails THEN 1 ELSE 0)
  /\ Reads(w, "cleanup", fails)

(* `crontab -' replaces the whole crontab.                                 *)
Install(w) ==
  /\ w # User
  /\ writer[w] # Idle
  /\ crontab' = Updated(writer[w].does, writer[w].text)
  /\ writer' = [writer EXCEPT ![w] = Idle]
  /\ UNCHANGED <<package, uses>>

(* A writer is killed, `crontab -' fails, the editor is left.              *)
GivesUp(w) ==
  /\ writer[w] # Idle
  /\ writer' = [writer EXCEPT ![w] = Idle]
  /\ UNCHANGED <<crontab, package, uses>>

-----------------------------------------------------------------------------
(* The user edits what `crontab -e' showed: an entry more, before or after *)
(* everything else, an entry less, or the end marker lost.                 *)
Without(text, line) == Among(text, ToSet(text) \ {line})

Edited(text) ==
  {Without(text, line) : line \in (Entries \cap ToSet(text)) \cup {"end"}}
    \cup UNION {{<<e>> \o text, Append(text, e)} : e \in Entries \ ToSet(text)}

UserReads ==
  /\ Uses(1)
  /\ Reads(User, "edit", FALSE)

UserSaves ==
  /\ writer[User] # Idle
  /\ crontab' \in Edited(writer[User].text)
  /\ writer' = [writer EXCEPT ![User] = Idle]
  /\ UNCHANGED <<package, uses>>

(* The package or its directory comes and goes.                            *)
PackageChanges ==
  /\ package' \in Packages \ {package}
  /\ UNCHANGED <<crontab, writer, uses>>

Next ==
  \/ \E w \in Commands, does \in {"on", "off"}, fails \in BOOLEAN :
       CommandReads(w, does, fails)
  \/ \E w \in Ticks, fails \in BOOLEAN : TickReads(w, fails)
  \/ \E w \in Writers : Install(w) \/ GivesUp(w)
  \/ UserReads \/ UserSaves
  \/ PackageChanges

Spec == Init /\ [][Next]_vars

(* cron starts the line every minute, and what it or a command began ends; *)
(* a cleanup that is killed every time is excluded.                        *)
Fairness ==
  /\ \A w \in Ticks : WF_vars(TickReads(w, FALSE)) /\ SF_vars(Install(w))
  /\ \A w \in Writers : WF_vars(Install(w) \/ GivesUp(w))

FairSpec == Spec /\ Fairness

-----------------------------------------------------------------------------
(* There is never more than one tracker in the crontab, and it is always   *)
(* where `off' and the next `on' find it, whoever overwrites whom, fails   *)
(* or loses the end marker.                                                *)
OneBlock ==
  /\ \A line \in {"begin", "tracker"} :
       Cardinality({i \in DOMAIN crontab : crontab[i] = line}) =< 1
  /\ "tracker" \in ToSet(crontab) => Managed(crontab)

(* A command or a cleanup that could read the crontab, that nobody changed *)
(* since, and whose block is closed, leaves the user's entries as they     *)
(* are, in their order and wherever they stand (README: it only edits the  *)
(* marked block).                                                          *)
OwnLines(text) == Among(text, Entries)

Closed(text) ==
  \A i \in DOMAIN text :
     text[i] = "begin" => \E j \in i..Len(text) : text[j] = "end"

EntriesKept ==
  [][\A w \in Commands \cup Ticks :
       (/\ writer[w] # Idle /\ writer'[w] = Idle
        /\ writer[w].text = crontab
        /\ Closed(crontab))
       => OwnLines(crontab') = OwnLines(crontab)]_vars

(* Once the package or its directory is gone, cron removes the block,      *)
(* unless the package comes back first.                                    *)
LeftoverRemoved ==
  package # "importable" ~>
     package = "importable" \/ "tracker" \notin ToSet(crontab)
=============================================================================
