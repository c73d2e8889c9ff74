------------------------------- MODULE Remotes -------------------------------
(***************************************************************************)
(* Remote servers (src/src/cslurm/web/remotes.py, remote_bridge.py): the   *)
(* cweb "here" keeps one bridge to a registered server, that is an ssh     *)
(* process with a helper at its far end, and the helper is a console of    *)
(* its own (Console).  Requests of several browser tabs take turns on the  *)
(* bridge; connecting, editing and removing go through one lock.  The      *)
(* registry file is shared with another cweb, "there".                     *)
(* One server is modelled; ids are never used again.                       *)
(***************************************************************************)
EXTENDS Console

CONSTANTS
    Tabs,          \* threads that relay requests
    Profiles,      \* what a registered server can be: host, root, read_only
    ReadOnly,      \* those of them with read_only set
    MaxRequests,   \* bound: no request is relayed after so many messages
    MaxActions,    \* bound: actions on the server list
    MaxChanges,    \* bound: changes by the other cweb
    MaxBreaks,     \* bound: SSH connections that break
    NoServer       \* the registry without the server

ASSUME RemotesAssumption ==
    /\ ReadOnly \subseteq Profiles
    /\ {MaxRequests, MaxActions, MaxChanges, MaxBreaks} \subseteq Nat
    /\ NoServer \notin [p : Profiles, python : {"given", "venv"}]
    /\ {NoOne, "here"} \cap Tabs = {}
    /\ NoOne \notin {"here", "there", "installer"}

VARIABLES
    registry,    \* servers.json
    regLock,     \* servers.lock: NoOne, "here", "there" or "installer"
    form,        \* what the pages here and there were loaded from
    manager,     \* RemoteManager.lock: NoOne, "here" or "installer"
    step,        \* where action() is, see ActionSteps
    doing,       \* [action, profile]: what it does
    bridge,      \* bridges[id]: a helper, or NoOne
    status,      \* states[id]
    installer,   \* where _install() is: "no", "running", "saving", "writing"
    revision,    \* the list _install() has read before it saves
    target,      \* per helper: the profile it was started for
    closed,      \* per helper: Bridge.closed here
    holder,      \* per helper: Bridge.lock: a tab, "here" or NoOne
    inbox,       \* per helper: requests on their way
    outbox,      \* per helper: answers on their way
    broken,      \* per helper: the SSH connection is lost
    reading,     \* per helper: it still reads requests
    request,     \* per tab: [at, on, id, kind]
    asked, actions, changes, breaks  \* bounds; asked is the last request id

ActionSteps == {"idle", "drop", "asked", "act", "shake", "write"}
Registered == [p : Profiles, python : {"given", "venv"}]

list == <<registry, regLock, form, changes>>
acting == <<manager, step, doing, actions>>
install == <<installer, revision, status>>
link == <<target, closed, holder, inbox, outbox, broken, breaks>>
remotes == <<list, acting, install, bridge, link, reading, request, asked>>
vars == <<consoleVars, remotes>>

Idle == [at |-> "idle", on |-> NoOne, id |-> 0, kind |-> "read"]
Message == [id : Nat, kind : {"read", "start", "overview"}]
Answer == [id : Nat, ok : BOOLEAN, busy : BOOLEAN]

RemotesTypeOK ==
    /\ TypeOK
    /\ registry \in Registered \cup {NoServer}
    /\ regLock \in {NoOne, "here", "there", "installer"}
    /\ form \in [{"here", "there", "installer"} -> Registered \cup {NoServer}]
    /\ manager \in {NoOne, "here", "installer"}
    /\ step \in ActionSteps
    /\ doing \in [action : {"none", "save", "remove", "connect", "disconnect"},
                  profile : Registered \cup {NoServer}]
    /\ bridge \in Consoles \cup {NoOne}
    /\ status \in {"disconnected", "connected", "not_installed", "error",
                   "installing", "installed", "install_failed"}
    /\ installer \in {"no", "running", "saving", "writing"}
    /\ revision \in Registered \cup {NoServer}
    /\ target \in [Consoles -> Registered \cup {NoServer}]
    /\ closed \in [Consoles -> BOOLEAN]
    /\ holder \in [Consoles -> Tabs \cup {"here", NoOne}]
    /\ inbox \in [Consoles -> Seq(Message)]
    /\ outbox \in [Consoles -> Seq(Answer)]
    /\ broken \in [Consoles -> BOOLEAN]
    /\ reading \in [Consoles -> BOOLEAN]
    /\ request \in [Tabs -> [at : {"idle", "got", "sent", "failed"},
                             on : Consoles \cup {NoOne}, id : Nat, kind : {"read", "start"}]]
    /\ asked \in Nat /\ actions \in 0..MaxActions
    /\ changes \in 0..MaxChanges /\ breaks \in 0..MaxBreaks

RemotesInit ==
    /\ Init
    /\ \E p \in Profiles : registry = [p |-> p, python |-> "given"]
    /\ regLock = NoOne
    /\ form = [w \in {"here", "there", "installer"} |-> registry]
    /\ manager = NoOne
    /\ step = "idle"
    /\ doing = [action |-> "none", profile |-> NoServer]
    /\ bridge = NoOne
    /\ status = "disconnected"
    /\ installer = "no"
    /\ revision = NoServer
    /\ target = [c \in Consoles |-> NoServer]
    /\ closed = [c \in Consoles |-> TRUE]
    /\ holder = [c \in Consoles |-> NoOne]
    /\ inbox = [c \in Consoles |-> <<>>]
    /\ outbox = [c \in Consoles |-> <<>>]
    /\ broken = [c \in Consoles |-> FALSE]
    /\ reading = [c \in Consoles |-> FALSE]
    /\ request = [t \in Tabs |-> Idle]
    /\ asked = 0 /\ actions = 0 /\ changes = 0 /\ breaks = 0

-----------------------------------------------------------------------------
(* The two ends of a bridge *)

(* Bridge.request() writes a message once it has Bridge.lock.              *)
Transmit(c, owner, kind) ==
    /\ holder' = [holder EXCEPT ![c] = owner]
    /\ asked' = asked + 1
    /\ inbox' = [inbox EXCEPT ![c] = Append(@, [id |-> asked', kind |-> kind])]
    /\ UNCHANGED <<target, closed, outbox, broken, breaks>>

(* The next line is taken for the answer.                                  *)
TakeAnswer(c) ==
    /\ outbox' = [outbox EXCEPT ![c] = Tail(@)]
    /\ holder' = [holder EXCEPT ![c] = NoOne]
    /\ UNCHANGED <<target, closed, inbox, broken, breaks>>

(* Mutant: a request that timed out leaves the bridge open.                *)
KeepOpen(c) ==
    /\ holder' = [holder EXCEPT ![c] = NoOne]
    /\ UNCHANGED <<target, closed, inbox, outbox, broken, breaks>>

(* 70 s pass, or ssh ends: the bridge is closed, nothing more is read.     *)
GiveUp(c) ==
    /\ closed' = [closed EXCEPT ![c] = TRUE]
    /\ holder' = [holder EXCEPT ![c] = NoOne]
    /\ outbox' = [outbox EXCEPT ![c] = <<>>]
    /\ UNCHANGED <<target, inbox, broken, breaks>>

Reply(c, id, ok, busy) ==
    /\ inbox' = [inbox EXCEPT ![c] = Tail(@)]
    /\ outbox' = IF closed[c] THEN outbox
                 ELSE [outbox EXCEPT ![c] = Append(@, [id |-> id, ok |-> ok, busy |-> busy])]
    /\ UNCHANGED <<target, closed, holder, broken, breaks>>

Serving(c) == life[c] = "up" /\ reading[c] /\ ~broken[c] /\ inbox[c] # <<>>
FarEnd == <<list, acting, install, bridge, reading, request, asked>>

(* The helper passes the request to its own console.                       *)
ServeStart(c) ==
    /\ Serving(c) /\ Head(inbox[c]).kind = "start"
    /\ \E kind \in Kinds :
        /\ StartOp(c, kind)
        /\ Reply(c, Head(inbox[c]).id, TRUE, FALSE)
    /\ UNCHANGED FarEnd

ServeRead(c) ==
    /\ Serving(c) /\ Head(inbox[c]).kind \in {"read", "overview"}
    /\ Reply(c, Head(inbox[c]).id, TRUE, active[c] # 0)
    /\ UNCHANGED <<consoleVars, FarEnd>>

(* Refused: busy, not allowed, not valid.  Or the console did not answer,  *)
(* or too much: status 502.  (That the answer to a start is lost behind    *)
(* its effect is ServeStart: only an overview is looked into.)             *)
ServeFails(c) ==
    /\ Serving(c)
    /\ Reply(c, Head(inbox[c]).id, FALSE, FALSE)
    /\ UNCHANGED <<consoleVars, FarEnd>>

(* End of input; what was still on its way is lost.                        *)
HelperEof(c) ==
    /\ life[c] = "up" /\ reading[c]
    /\ closed[c] \/ broken[c]
    /\ reading' = [reading EXCEPT ![c] = FALSE]
    /\ inbox' = [inbox EXCEPT ![c] = <<>>]
    /\ UNCHANGED <<consoleVars, list, acting, install, bridge, target, closed, holder,
                   outbox, broken, breaks, request, asked>>

(* What was accepted is finished first: 310 s are longer than a deadline   *)
(* of 300 s with its termination.                                          *)
HelperStops(c) ==
    /\ life[c] = "up" /\ ~reading[c]
    /\ active[c] = 0
    /\ CloseAsk(c)
    /\ UNCHANGED remotes

LinkBreaks(c) ==
    /\ breaks < MaxBreaks
    /\ Alive(c) /\ ~broken[c]
    /\ broken' = [broken EXCEPT ![c] = TRUE]
    /\ breaks' = breaks + 1
    /\ UNCHANGED <<consoleVars, list, acting, install, bridge, target, closed, holder,
                   inbox, outbox, reading, request, asked>>

-----------------------------------------------------------------------------
(* Requests of the tabs *)

ForTab == <<consoleVars, list, acting, install, bridge, reading>>

(* request(): the bridge is looked up under the lock and used after it.    *)
(* A read-only bridge refuses what carries a body.                         *)
LookUp(t, kind) ==
    /\ asked < MaxRequests
    /\ request[t].at = "idle"
    /\ manager = NoOne
    /\ registry # NoServer
    /\ bridge # NoOne /\ ~closed[bridge]
    /\ kind = "start" => mode[bridge] # "read"
    /\ request' = [request EXCEPT ![t] = [at |-> "got", on |-> bridge, id |-> 0, kind |-> kind]]
    /\ UNCHANGED <<ForTab, link, asked>>

Send(t) ==
    LET c == request[t].on
    IN  /\ request[t].at = "got"
        /\ holder[c] = NoOne /\ ~closed[c]
        /\ Transmit(c, t, request[t].kind)
        /\ request' = [request EXCEPT ![t].at = "sent", ![t].id = asked']
        /\ UNCHANGED ForTab

(* The bridge was closed meanwhile.                                        *)
FindClosed(t) ==
    LET c == request[t].on
    IN  /\ request[t].at = "got"
        /\ holder[c] = NoOne /\ closed[c]
        /\ request' = [request EXCEPT ![t].at = "failed"]
        /\ UNCHANGED <<ForTab, link, asked>>

Receive(t) ==
    LET c == request[t].on
    IN  /\ request[t].at = "sent"
        /\ outbox[c] # <<>>
        /\ TakeAnswer(c)
        /\ request' = [request EXCEPT ![t] = Idle]
        /\ UNCHANGED <<ForTab, asked>>

(* Mutant: see KeepOpen.                                                   *)
TimeOutOpen(t) ==
    /\ request[t].at = "sent"
    /\ KeepOpen(request[t].on)
    /\ request' = [request EXCEPT ![t].at = "failed"]
    /\ UNCHANGED <<ForTab, asked>>

TimeOut(t) ==
    /\ request[t].at = "sent"
    /\ GiveUp(request[t].on)
    /\ request' = [request EXCEPT ![t].at = "failed"]
    /\ UNCHANGED <<ForTab, asked>>

(* The state shown becomes "error", whatever bridge there is by now.       *)
ShowError(t) ==
    /\ request[t].at = "failed"
    /\ manager = NoOne
    /\ status' = "error"
    /\ request' = [request EXCEPT ![t] = Idle]
    /\ UNCHANGED <<consoleVars, list, acting, installer, revision, bridge, link, reading, asked>>

-----------------------------------------------------------------------------
(* Actions on the server list *)

ForAction == <<consoleVars, request>>

LoadForm(w) ==
    /\ w = "here" => step = "idle"
    /\ form' = [form EXCEPT ![w] = registry]
    /\ UNCHANGED <<consoleVars, registry, regLock, changes, acting, install, bridge, link,
                   reading, request, asked>>

(* action(): refused during an installation and from an outdated page.     *)
Begin(action, p) ==
    /\ actions < MaxActions
    /\ manager = NoOne
    /\ installer = "no"
    /\ registry # NoServer
    /\ action \in {"save", "remove"} => form["here"] = registry
    /\ manager' = "here"
    /\ step' = "drop"
    /\ doing' = [action |-> action,
                 profile |-> IF action = "save" THEN [p |-> p, python |-> "given"] ELSE registry]
    /\ actions' = actions + 1
    /\ UNCHANGED <<ForAction, list, install, bridge, link, reading, asked>>

Leave ==
    /\ manager' = NoOne
    /\ step' = "idle"
    /\ doing' = [action |-> "none", profile |-> NoServer]
    /\ UNCHANGED actions

Go(s) == step' = s /\ UNCHANGED <<manager, doing, actions>>

Forget == bridge' = NoOne /\ status' = "disconnected" /\ UNCHANGED <<installer, revision>>

(* _disconnect(): nothing to close ...                                     *)
DropNothing ==
    /\ step = "drop"
    /\ bridge # NoOne => holder[bridge] = NoOne /\ closed[bridge]
    /\ Forget /\ Go("act")
    /\ UNCHANGED <<ForAction, list, link, reading, asked>>

(* Mutant: the bridge is closed without a question.                        *)
DropUnasked ==
    /\ step = "drop"
    /\ bridge # NoOne /\ holder[bridge] = NoOne /\ ~closed[bridge]
    /\ GiveUp(bridge) /\ Forget /\ Go("act")
    /\ UNCHANGED <<ForAction, list, reading, asked>>

(* ... or the helper is asked, under the bridge's lock, what it runs.      *)
DropAsk ==
    /\ step = "drop"
    /\ bridge # NoOne /\ holder[bridge] = NoOne /\ ~closed[bridge]
    /\ Transmit(bridge, "here", "overview")
    /\ Go("asked")
    /\ UNCHANGED <<ForAction, list, install, bridge, reading>>

DropConfirmed ==
    /\ step = "asked" /\ outbox[bridge] # <<>>
    /\ Head(outbox[bridge]).ok /\ ~Head(outbox[bridge]).busy
    /\ GiveUp(bridge) /\ Forget /\ Go("act")
    /\ UNCHANGED <<ForAction, list, reading, asked>>

DropRefused ==
    /\ step = "asked" /\ outbox[bridge] # <<>>
    /\ ~Head(outbox[bridge]).ok \/ Head(outbox[bridge]).busy
    /\ TakeAnswer(bridge) /\ Leave
    /\ UNCHANGED <<ForAction, list, install, bridge, reading, asked>>

(* No answer: the request closes the bridge and the action ends there.     *)
DropBreaks ==
    /\ step = "asked"
    /\ GiveUp(bridge) /\ Leave
    /\ UNCHANGED <<ForAction, list, install, bridge, reading, asked>>

(* What the helper may do: a read-only console has no other Modes.         *)
BridgeMode(registered) ==
    IF registered.p \in ReadOnly \/ Modes = {"read"} THEN "read"
    ELSE IF "cancel" \in Modes THEN "cancel" ELSE "write"

(* Bridge(): ssh starts a new helper, which will shake hands.              *)
New(c) == c = CHOOSE d \in Consoles : life[d] = "off"

ConnectSpawn(c) ==
    /\ step = "act" /\ doing.action = "connect"
    /\ Open(c, BridgeMode(doing.profile)) /\ New(c)
    /\ target' = [target EXCEPT ![c] = doing.profile]
    /\ closed' = [closed EXCEPT ![c] = FALSE]
    /\ reading' = [reading EXCEPT ![c] = TRUE]
    /\ bridge' = c
    /\ Go("shake")
    /\ UNCHANGED <<list, install, holder, inbox, outbox, broken, breaks, request, asked>>

ConnectDone ==
    /\ step = "shake" /\ ~broken[bridge]
    /\ status' = "connected" /\ UNCHANGED <<installer, revision>>
    /\ Leave
    /\ UNCHANGED <<ForAction, list, bridge, link, reading, asked>>

(* Mutant: a bridge without a handshake is left to itself.                 *)
ConnectFailsOpen ==
    /\ step = "shake"
    /\ bridge' = NoOne
    /\ status' = "error" /\ UNCHANGED <<installer, revision>>
    /\ Leave
    /\ UNCHANGED <<ForAction, list, link, reading, asked>>

(* No handshake within 18 s, or none that is understood.                   *)
ConnectFails ==
    /\ step = "shake"
    /\ GiveUp(bridge)
    /\ bridge' = NoOne
    /\ status' = "error" /\ UNCHANGED <<installer, revision>>
    /\ Leave
    /\ UNCHANGED <<ForAction, list, reading, asked>>

(* ssh cannot be reached, or Python has no package.                        *)
ConnectNothing ==
    /\ step = "act" /\ doing.action = "connect"
    /\ status' \in {"error", "not_installed"} /\ UNCHANGED <<installer, revision>>
    /\ Leave
    /\ UNCHANGED <<ForAction, list, bridge, link, reading, asked>>

Disconnected ==
    /\ step = "act" /\ doing.action = "disconnect"
    /\ Leave
    /\ UNCHANGED <<ForAction, list, install, bridge, link, reading, asked>>

(* Mutant: the list is not compared again under the file lock.             *)
ChangeListBlindly ==
    /\ step = "act" /\ doing.action \in {"save", "remove"}
    /\ regLock = NoOne
    /\ regLock' = "here" /\ Go("write")
    /\ UNCHANGED <<ForAction, registry, form, changes, install, bridge, link, reading, asked>>

(* _change(): the list must still be the one the page was loaded from.     *)
ChangeList ==
    /\ step = "act" /\ doing.action \in {"save", "remove"}
    /\ regLock = NoOne
    /\ IF form["here"] = registry
       THEN regLock' = "here" /\ Go("write")
       ELSE UNCHANGED regLock /\ Leave
    /\ UNCHANGED <<ForAction, registry, form, changes, install, bridge, link, reading, asked>>

WriteList ==
    /\ step = "write"
    /\ registry' = IF doing.action = "save" THEN doing.profile ELSE NoServer
    /\ regLock' = NoOne
    /\ form' = [form EXCEPT !["here"] = registry']
    /\ Leave
    /\ UNCHANGED <<ForAction, changes, install, bridge, link, reading, asked>>

(* The other cweb, with a page of its own.                                 *)
ThereLocks ==
    /\ changes < MaxChanges
    /\ regLock = NoOne
    /\ registry # NoServer /\ form["there"] = registry
    /\ regLock' = "there"
    /\ changes' = changes + 1
    /\ UNCHANGED <<ForAction, registry, form, acting, install, bridge, link, reading, asked>>

ThereWrites ==
    /\ regLock = "there"
    /\ registry' \in [p : Profiles, python : {"given"}] \cup {NoServer}
    /\ regLock' = NoOne
    /\ form' = [form EXCEPT !["there"] = registry']
    /\ UNCHANGED <<ForAction, changes, acting, install, bridge, link, reading, asked>>

-----------------------------------------------------------------------------
(* Installation *)

ForInstall == <<consoleVars, request, bridge, link, reading, asked, acting>>

BeginInstall ==
    /\ manager = NoOne /\ installer = "no"
    /\ registry # NoServer /\ status = "not_installed"
    /\ installer' = "running" /\ status' = "installing"
    /\ form' = [form EXCEPT !["installer"] = registry]
    /\ UNCHANGED <<ForInstall, registry, regLock, changes, revision>>

InstallEnds(s) ==
    /\ installer' = "no" /\ status' = s
    /\ revision' = NoServer

(* The wheel is not built, ssh fails, or 300 s are over.                   *)
InstallFails ==
    /\ installer = "running" /\ manager = NoOne
    /\ InstallEnds("install_failed")
    /\ UNCHANGED <<ForInstall, list>>

(* Installed: the new interpreter is saved if the profile is still the     *)
(* one it was installed for.                                               *)
Installed ==
    /\ installer = "running" /\ manager = NoOne
    /\ IF registry = NoServer
       THEN InstallEnds("install_failed") /\ UNCHANGED manager
       ELSE IF registry # form["installer"]
       THEN InstallEnds("installed") /\ UNCHANGED manager
       ELSE /\ installer' = "saving" /\ revision' = registry /\ UNCHANGED status
            /\ manager' = "installer"
    /\ UNCHANGED <<consoleVars, request, bridge, link, reading, asked, step, doing, actions, list>>

InstallLocks ==
    /\ installer = "saving"
    /\ regLock = NoOne
    /\ IF registry = revision
       THEN /\ regLock' = "installer" /\ installer' = "writing"
            /\ UNCHANGED <<revision, status, manager>>
       ELSE UNCHANGED regLock /\ InstallEnds("install_failed") /\ manager' = NoOne
    /\ UNCHANGED <<consoleVars, request, bridge, link, reading, asked, step, doing, actions,
                   registry, form, changes>>

InstallWrites ==
    /\ installer = "writing"
    /\ registry' = [form["installer"] EXCEPT !.python = "venv"]
    /\ regLock' = NoOne
    /\ InstallEnds("installed")
    /\ manager' = NoOne
    /\ UNCHANGED <<consoleVars, request, bridge, link, reading, asked, step, doing, actions,
                   form, changes>>

-----------------------------------------------------------------------------
Drop == DropNothing \/ DropAsk \/ DropConfirmed \/ DropRefused \/ DropBreaks
Connect == ConnectDone \/ ConnectFails \/ ConnectNothing \/ \E c \in Consoles : ConnectSpawn(c)
Act == Drop \/ Connect \/ Disconnected \/ ChangeList \/ WriteList
Relay(t) == Send(t) \/ FindClosed(t) \/ Receive(t) \/ TimeOut(t) \/ ShowError(t)
Install == InstallFails \/ Installed \/ InstallLocks \/ InstallWrites
Serve(c) == ServeStart(c) \/ ServeRead(c) \/ ServeFails(c)
Helper(c) ==
    \/ Serve(c) \/ HelperEof(c) \/ HelperStops(c)
    \/ (Work(c) \/ Closing(c)) /\ UNCHANGED remotes

RemotesNext ==
    \/ \E t \in Tabs : Relay(t) \/ \E kind \in {"read", "start"} : LookUp(t, kind)
    \/ \E w \in {"here", "there"} : LoadForm(w)
    \/ \E p \in Profiles, action \in {"save", "remove", "connect", "disconnect"} : Begin(action, p)
    \/ Act \/ BeginInstall \/ Install
    \/ ThereLocks \/ ThereWrites
    \/ \E c \in Consoles : Helper(c) \/ LinkBreaks(c)
    \/ \E c \in Consoles : ChildExits(c) /\ UNCHANGED remotes

RemotesSpec == RemotesInit /\ [][RemotesNext]_vars

(* A helper that is not killed reads its input and runs its threads.       *)
(* Nothing is assumed of browsers, actions or the other cweb.              *)
RemotesFairness == \A c \in Consoles : WF_vars(Helper(c))

RemotesFairSpec == RemotesSpec /\ RemotesFairness

-----------------------------------------------------------------------------
(* Properties *)

(* The answer a caller is about to read is the one to its own request,     *)
(* whatever timed out before it (remotes.py:185-197).                      *)
OwnAnswers ==
    /\ \A t \in Tabs :
           LET r == request[t]
           IN  r.at = "sent" /\ outbox[r.on] # <<>> => Head(outbox[r.on]).id = r.id
    /\ step = "asked" /\ outbox[bridge] # <<>> => Head(outbox[bridge]).id = asked

(* An action on the list never closes a bridge behind which an operation   *)
(* runs or may still start, whatever other tabs are doing                  *)
(* (remotes.py:239-251, "must be indivisible with respect to another       *)
(* browser tab starting a remote operation").                              *)
DisconnectSpares ==
    [][\A c \in Consoles :
           step # "shake" /\ bridge = c /\ bridge' = NoOne /\ ~closed[c]
               => active[c] = 0 /\ inbox[c] = <<>>]_vars

(* No ssh process is forgotten: an open bridge is the one requests use     *)
(* (remotes.py:149-157, 239-251, 287-293).                                 *)
NoForgottenBridge == \A c \in Consoles : ~closed[c] => bridge = c

(* Nobody's change of the server list is overwritten unseen: a change here *)
(* replaces what its page showed, the installer's what it was started for  *)
(* (remotes.py:72-88, 318-322).                                            *)
EditsSurvive ==
    [][registry' # registry /\ regLock # "there" => registry = form[regLock]]_vars

(* A helper whose bridge is closed finishes what it runs and ends          *)
(* (remote_bridge.py:66-72).                                               *)
HelperLeaves == \A c \in Consoles : closed[c] /\ life[c] = "up" ~> ~Alive(c)

=============================================================================
