----------------------------- MODULE ModelCalls -----------------------------
(***************************************************************************)
(* The model client and the runs that use it: a summary of a submission or *)
(* of a completion (csummarize, the summary work item, the automatic       *)
(* summary) and a question about recent jobs.  A run asks its candidate    *)
(* models one after the other, first for a JSON object and, when that chat *)
(* fails, for a sentence, and commits a summary with its event.            *)
(*                                                                         *)
(* A revision of config.toml is what one client is built from (it is read  *)
(* once, under consistent_config): the configured models, in order, and    *)
(* whether the rest can be used at all.  A reply is what one request comes *)
(* to, by what the client does about it:                                   *)
(*   "object"       text that holds a JSON object                          *)
(*   "prose"        other text                                             *)
(*   "blank"        an empty answer                                        *)
(*   "busy"         HTTP 408, 409, 425, 429, 5xx, or a read that times out *)
(*   "unreachable"  no connection: DNS, TLS, refused, time-out             *)
(*   "refused"      any other HTTP status, an answer that is cut off or    *)
(*                  is not in the provider's form                          *)
(* The row a request leaves in model_calls decides nothing and is left out.*)
(***************************************************************************)
EXTENDS Naturals, FiniteSets, Sequences, SequencesExt

CONSTANTS Callers,     \* processes that make runs, one at a time each
          Unattended,  \* those that are the automatic summary
          Kinds,       \* runs made: "submission", "completion", "question"
          Revisions,   \* of config.toml: [models : Seq, usable : BOOLEAN]
          Replies,     \* what a request may come to, see above
          Retries,     \* request_retries
          MaxTasks     \* bound on what is begun: runs and, in Backups, copies

ASSUME CallAssumptions ==
  /\ Unattended \subseteq Callers
  /\ Kinds \subseteq {"submission", "completion", "question"}
  /\ Replies \subseteq {"object", "prose", "blank", "busy", "unreachable",
                        "refused"}
  /\ \A r \in Revisions : /\ r.models \in Seq(ToSet(r.models))
                          /\ r.usable => r.models # <<>>
  /\ Retries \in Nat
  /\ MaxTasks \in Nat

VARIABLES
  call,  \* what each caller is doing
  tasks, \* begun so far; a run is known by its number among them
  db     \* the summaries of one job and its AI_ events, as committed

callVars == <<call, tasks, db>>

Summaries == {"submission", "completion"}

(* The models of a revision, each once, in the order of first mention.     *)
CandidateModels(models) ==
  FoldLeft(LAMBDA seen, m : IF m \in ToSet(seen) THEN seen
                            ELSE Append(seen, m), <<>>, models)

(* A run as it goes on: where it is, whom it asks next, what it heard.     *)
At(run, at, left, tries, log) ==
  [at |-> at, kind |-> run.kind, mode |-> run.mode, models |-> run.models,
   left |-> left, tries |-> tries, log |-> log, run |-> run.run]

Off == [at |-> "off", kind |-> "none", mode |-> "none", models |-> <<>>,
        left |-> <<>>, tries |-> 0, log |-> <<>>, run |-> 0]

(* A run that begins to ask: `left' holds the candidates from the one that *)
(* is being asked on, `log' the requests of this chat and their replies.   *)
Chatting(kind, mode, models, n) ==
  [at |-> "ask", kind |-> kind, mode |-> mode, models |-> models,
   left |-> CandidateModels(models), tries |-> 0, log |-> <<>>, run |-> n]

(* How a run that raises goes on: only the automatic summary records it.   *)
Failing(c, run) ==
  IF run.kind = "submission" /\ c \in Unattended
    THEN At(run, "report", <<>>, 0, <<>>) ELSE Off

InitCalls ==
  /\ call = [c \in Callers |-> Off]
  /\ tasks = 0
  /\ db = [summary |-> [k \in Summaries |-> 0], events |-> <<>>]

-----------------------------------------------------------------------------
Goes(c, run) == call' = [call EXCEPT ![c] = run]

(* A summary starts with a JSON chat, a question with a plain one; without *)
(* key, endpoint or model the client is not even built.                    *)
Start(c, k, r) ==
  LET first == IF k = "question" THEN "text" ELSE "json"
      run   == Chatting(k, first, r.models, tasks + 1)
  IN /\ call[c].at = "off"
     /\ k = "submission" \/ c \notin Unattended
     /\ tasks < MaxTasks
     /\ tasks' = tasks + 1
     /\ Goes(c, IF r.usable THEN run ELSE Failing(c, run))
     /\ UNCHANGED db

Reply(run) == Last(run.log).reply

(* Text that ends a chat: a JSON chat needs an object.                     *)
Accepted(run) ==
  \/ Reply(run) = "object"
  \/ Reply(run) = "prose" /\ run.mode = "text"

Refused(run) == Reply(run) = "refused"

(* As AskedAgain, counting the requests from one.                          *)
AskedAgainOnceMore(run) == Reply(run) = "unreachable" /\ run.tries =< Retries

(* Only a failed connection is tried again with the same model.            *)
AskedAgain(run) == Reply(run) = "unreachable" /\ run.tries < Retries

Fruitless(run) == ~Accepted(run) /\ ~Refused(run) /\ ~AskedAgain(run)

(* The request to the first of the candidates left comes to an end.        *)
Asked(run, reply) ==
  At(run, run.at, run.left, run.tries,
     Append(run.log, [model |-> Head(run.left), reply |-> reply]))

Accept(c, reply) ==
  LET run == Asked(call[c], reply) IN
  /\ Accepted(run)
  /\ Goes(c, At(run, "answered", <<>>, 0, <<>>))
  /\ UNCHANGED <<tasks, db>>

AskAgain(c, reply) ==
  LET run == Asked(call[c], reply) IN
  /\ AskedAgain(run)
  /\ Goes(c, At(run, "ask", run.left, run.tries + 1, run.log))
  /\ UNCHANGED <<tasks, db>>

AskNext(c, reply) ==
  LET run == Asked(call[c], reply) IN
  /\ Fruitless(run)
  /\ Len(run.left) > 1
  /\ Goes(c, At(run, "ask", Tail(run.left), 0, run.log))
  /\ UNCHANGED <<tasks, db>>

ChatFails(c, reply) ==
  LET run == Asked(call[c], reply) IN
  /\ Refused(run) \/ (Fruitless(run) /\ Len(run.left) = 1)
  /\ Goes(c, At(run, "failed", run.left, run.tries, run.log))
  /\ UNCHANGED <<tasks, db>>

(* As GoOn, where either kind of chat falls back to the other one.         *)
GoOnAlternating(c) ==
  LET run == call[c] IN
  /\ run.at = "failed"
  /\ Goes(c, Chatting(run.kind, IF run.mode = "json" THEN "text" ELSE "json",
                      run.models, run.run))
  /\ UNCHANGED <<tasks, db>>

(* A JSON chat that fails, for whatever reason, is followed by a plain one *)
(* with every candidate again; when that fails a summary fails and a       *)
(* question is answered from the database.                                 *)
GoOn(c) ==
  LET run == call[c] IN
  /\ run.at = "failed"
  /\ Goes(c, CASE run.mode = "json" ->
                    Chatting(run.kind, "text", run.models, run.run)
               [] run.mode = "text" /\ run.kind = "question" -> Off
               [] OTHER -> Failing(c, run))
  /\ UNCHANGED <<tasks, db>>

AnswerQuestion(c) ==
  /\ call[c].at = "answered" /\ call[c].kind = "question"
  /\ Goes(c, Off)
  /\ UNCHANGED <<tasks, db>>

(* As Write, with the summary committed before its event is written.       *)
WriteInTwo(c) ==
  LET run == call[c] IN
  /\ run.at = "answered" /\ run.kind \in Summaries
  /\ \/ /\ db.summary[run.kind] # run.run
        /\ db' = [db EXCEPT !.summary[run.kind] = run.run]
        /\ UNCHANGED call
     \/ /\ db.summary[run.kind] = run.run
        /\ db' = [db EXCEPT !.events =
                    Append(@, [type |-> run.kind, run |-> run.run])]
        /\ Goes(c, Off)
  /\ UNCHANGED tasks

(* The summary column and its event are one transaction.                   *)
Write(c) ==
  LET run == call[c] IN
  /\ run.at = "answered" /\ run.kind \in Summaries
  /\ db' = [summary |-> [db.summary EXCEPT ![run.kind] = run.run],
            events |-> Append(db.events,
                              [type |-> run.kind, run |-> run.run])]
  /\ Goes(c, Off)
  /\ UNCHANGED tasks

(* The database stays locked for longer than the busy time-out.            *)
WriteFails(c) ==
  /\ call[c].at = "answered" /\ call[c].kind \in Summaries
  /\ Goes(c, Failing(c, call[c]))
  /\ UNCHANGED <<tasks, db>>

RecordFailure(c) ==
  /\ call[c].at = "report"
  /\ db' = [summary |-> db.summary,
            events |-> Append(db.events,
                              [type |-> "failed", run |-> call[c].run])]
  /\ Goes(c, Off)
  /\ UNCHANGED tasks

(* The process is killed, or fails where nothing catches it: recording a   *)
(* failure gives up after its own deadline.                                *)
Die(c) ==
  /\ call[c].at # "off"
  /\ Goes(c, Off)
  /\ UNCHANGED <<tasks, db>>

Act(c) ==
  \/ /\ call[c].at = "ask"
     /\ \E r \in Replies :
          Accept(c, r) \/ AskAgain(c, r) \/ AskNext(c, r) \/ ChatFails(c, r)
  \/ GoOn(c) \/ AnswerQuestion(c)
  \/ Write(c) \/ WriteFails(c) \/ RecordFailure(c)

CallsStep ==
  \E c \in Callers :
     \/ \E k \in Kinds, r \in Revisions : Start(c, k, r)
     \/ Act(c)
     \/ Die(c)

(* Every request ends (timeout bounds each read) and a process goes on     *)
(* until its run is over.                                                  *)
CallsFairness == \A c \in Callers : WF_callVars(Act(c))

-----------------------------------------------------------------------------
(* What a database holds agrees: each summary is that of the last event    *)
(* that reports one, and no run is reported twice.                         *)
IsLastCreated(events, k, n) ==
  IF n = 0 THEN \A i \in DOMAIN events : events[i].type # k
  ELSE \E i \in DOMAIN events :
         /\ events[i].type = k /\ events[i].run = n
         /\ \A j \in DOMAIN events : j > i => events[j].type # k

Agrees(d) ==
  /\ \A k \in Summaries : IsLastCreated(d.events, k, d.summary[k])
  /\ \A i, j \in DOMAIN d.events : d.events[i].run = d.events[j].run => i = j

(* A stored summary is the one its last "created" event reports, and no    *)
(* run both created a summary and failed, whichever runs overlap, fail or  *)
(* are killed (summarize.py commits the column and the event together).    *)
SummaryMatchesEvent == Agrees(db)

(* The requests of a chat to one model, and whether they were all it gets. *)
Requests(run, m) == {i \in DOMAIN run.log : run.log[i].model = m}

Exhausted(run, m) ==
  LET asked == Requests(run, m) IN
  IF \A i \in asked : run.log[i].reply = "unreachable"
    THEN Cardinality(asked) = Retries + 1
    ELSE Cardinality(asked) =< Retries + 1

Conclusive(run, reply) ==
  \/ reply \in {"object", "refused"}
  \/ reply = "prose" /\ run.mode = "text"

(* Requests stop: after an answer or a refusal a chat asks nobody else; a  *)
(* model is asked again only while it cannot be reached, request_retries   *)
(* times at most; and a chat that fails had a refusal or gave every        *)
(* configured model its turn (_chat_with_fallback).                        *)
ChatEndsRight(run) ==
  /\ \A i \in 1..(Len(run.log) - 1) : ~Conclusive(run, run.log[i].reply)
  /\ \A m \in ToSet(run.models) :
       /\ Cardinality(Requests(run, m)) =< Retries + 1
       /\ \A i, j \in Requests(run, m) :
            i < j => run.log[i].reply = "unreachable"
  /\ run.at = "failed" => \/ Reply(run) = "refused"
                          \/ \A m \in ToSet(run.models) : Exhausted(run, m)

ChatsEndRight == \A c \in Callers : ChatEndsRight(call[c])

(* Every run comes to an end: retries and fallbacks are finite, and every  *)
(* failure leads somewhere.                                                *)
RunsEnd == \A c \in Callers : call[c].at # "off" ~> call[c].at = "off"
=============================================================================
