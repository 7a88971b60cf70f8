------------------------------ MODULE Executor ------------------------------
(***************************************************************************)
(* The client of an executor: CppClient (backend/src/cpp/client.ts) over   *)
(* RpcClient (backend/src/core/rpc.ts), the process it spawns and one that *)
(* somebody has started by hand.                                           *)
(*                                                                         *)
(* start(), attach() and the timers of both classes all call connect(), and*)
(* the handlers of a socket do not ask whether it still is the client's.   *)
(***************************************************************************)
EXTENDS Integers, FiniteSets

CONSTANTS
  Socks,       \* WebSocket objects, used again once they are closed
  MaxCommands, \* bound on starts, stops, restarts and edits of the port
  MaxFaults    \* bound on processes that end by themselves and on lost links

None  == "none"
Any   == "any"     \* what awaitOpen() waits for
Never == "never"   \* a promise nobody will settle

ASSUME ExecutorAssumption ==
  /\ Socks \cap {None, Any, Never} = {}
  /\ MaxCommands \in Nat /\ MaxFaults \in Nat

VARIABLES
  procs,      \* the child of this service and a process started by hand
  child,      \* child: none, live, or exited with its `exit' still to come
  status,     \* status
  told,       \* lastEmittedStatus, lastEmittedConnected
  port,       \* config.ipcPort
  tasks,      \* start(), an attach() by a caller, an attach() by its timer
  stopping,   \* where stop() and restart() are
  ws, socks,  \* ws, and all sockets
  connecting, manual, rtimer, atimer, beating, \* connecting, manualClose, timers
  commands, faults, \* how often the bounded things have happened
  cuts        \* how often close() was called

proc == <<procs, child>>
rpc  == <<ws, socks, connecting, manual, rtimer, beating>>
cpp  == <<status, told, tasks, atimer>>
vars == <<proc, cpp, rpc, port, stopping, commands, faults, cuts>>
bounds == <<commands, faults, cuts>>

Procs  == {"own", "other"}
Tasks  == {"start", "attach", "retry"}
NoProc == [st |-> None, port |-> 0]
NoSock == [st |-> None, peer |-> None, port |-> 0]
Idle   == [at |-> "idle", on |-> None]

\* dialing.  open.  ended: the other side is gone, `close' is to come.
\* mute: the other side is gone and nothing says so.  closing: close() was called.
SockStates == {None, "dialing", "open", "ended", "mute", "closing"}
\* deaf: it runs, but its port was taken.  ending: it has been asked to end.
ProcStates == {None, "loading", "up", "deaf", "ending"}

Connected == ws # None /\ socks[ws].st \in {"open", "ended", "mute"}
Listens(p, a) == procs[p].st \in {"up", "ending"} /\ procs[p].port = a
PortOpen == \E p \in Procs : Listens(p, port)

\* What emitState() tells with status s.
State(s, c) == [status |-> IF c THEN "running" ELSE s, connected |-> c]

-----------------------------------------------------------------------------
(* RpcClient.  The operators take the socket table they start from.        *)

\* connect() for task t: at once, with the dial under way, or a dial of its own.
Dial(t) ==
  IF Connected
    THEN /\ tasks' = IF t = None THEN tasks ELSE [tasks EXCEPT ![t] = Idle]
         /\ UNCHANGED <<ws, socks, connecting, manual>>
    ELSE IF connecting
    THEN /\ tasks' = IF t = None THEN tasks ELSE [tasks EXCEPT ![t] = [at |-> "dial", on |-> Any]]
         /\ UNCHANGED <<ws, socks, connecting, manual>>
    ELSE \E s \in Socks :
         /\ socks[s].st = None
         /\ socks' = [socks EXCEPT ![s] = [st |-> "dialing", peer |-> None, port |-> port]]
         /\ tasks' = IF t = None THEN tasks ELSE [tasks EXCEPT ![t] = [at |-> "dial", on |-> s]]
         /\ ws' = s /\ connecting' = TRUE /\ manual' = FALSE

\* `open': whoever waits for this socket or for any is served, the hooks run.
Opens(s) ==
  /\ socks[s].st = "dialing"
  /\ \E p \in Procs :
       /\ Listens(p, socks[s].port)
       /\ socks' = [socks EXCEPT ![s].st = "open", ![s].peer = p]
  /\ connecting' = FALSE /\ rtimer' = FALSE /\ beating' = TRUE
  /\ status' = "running" /\ atimer' = FALSE
  /\ told' = State("running", ws # None /\ (ws = s \/ Connected))
  /\ tasks' = [t \in Tasks |-> IF tasks[t].on \in {s, Any} THEN Idle ELSE tasks[t]]
  /\ UNCHANGED <<proc, ws, manual, port, stopping, bounds>>

\* A dial fails: `error' rejects whoever waits for it if the client is still
\* `connecting'.  If it is not, start() waits for ever, and everybody who
\* joins it; what else waited is forgotten.
Rejected(s) ==
  [t \in Tasks |->
     IF tasks[t].on # s THEN tasks[t]
     ELSE IF t = "start" /\ ~connecting THEN [tasks[t] EXCEPT !.on = Never]
     ELSE Idle]

\* Slip: a closed link is dialed again by no one.
ClosedForGood(s) ==
  /\ connecting' = FALSE /\ beating' = FALSE
  /\ UNCHANGED rtimer
  /\ ws' = IF ws = s THEN None ELSE ws
  /\ socks' = [socks EXCEPT ![s] = NoSock]

\* The handler of `close', whichever socket s is.
Closed(s) ==
  /\ connecting' = FALSE /\ beating' = FALSE
  /\ rtimer' = (rtimer \/ ~manual)
  /\ ws' = IF ws = s THEN None ELSE ws
  /\ socks' = [socks EXCEPT ![s] = NoSock]

\* Slip: nobody is told.
DisconnectedSilently(s) ==
  /\ status' = IF child # None THEN "starting" ELSE "stopped"
  /\ UNCHANGED told

\* `disconnected'.
Disconnected(s) ==
  /\ status' = IF child # None THEN "starting" ELSE "stopped"
  /\ told' = State(status', Connected /\ ws # s)

\* The attach() that dialed s learns that it has failed.
AttachFails(s) == connecting /\ \E t \in {"attach", "retry"} : tasks[t].on = s

\* A rejected attach() says so and sets its timer; a rejected start() is over.
DialFails(s) ==
  /\ socks[s].st = "dialing"
  /\ ~\E p \in Procs : procs[p].st = "up" /\ procs[p].port = socks[s].port
  /\ tasks' = Rejected(s)
  /\ atimer' = (atimer \/ (AttachFails(s) /\ ~(Connected /\ ws # s)))
  /\ Closed(s)
  /\ IF AttachFails(s)
       THEN status' = "stopped" /\ told' = State("stopped", Connected /\ ws # s)
       ELSE Disconnected(s)
  /\ UNCHANGED <<proc, manual, port, stopping, bounds>>

Closes(s) ==
  /\ socks[s].st \in {"ended", "closing"}
  /\ Closed(s) /\ Disconnected(s)
  /\ UNCHANGED <<proc, tasks, manual, atimer, port, stopping, bounds>>

Mute == ws # None /\ socks[ws].st = "mute"

\* Two beats of the heartbeat without a pong: terminate() waits for nobody, and
\* `close' comes in the same turn of the event loop.
HeartbeatCuts ==
  /\ beating /\ Mute
  /\ Closed(ws) /\ Disconnected(ws)
  /\ UNCHANGED <<proc, tasks, manual, atimer, port, stopping, bounds>>

Reconnect ==
  /\ rtimer /\ rtimer' = FALSE
  /\ Dial(None)
  /\ UNCHANGED <<proc, status, told, atimer, beating, port, stopping, bounds>>

\* awaitOpen() waits for five seconds.
AwaitTimeout(t) ==
  /\ tasks[t].on = Any /\ tasks' = [tasks EXCEPT ![t] = Idle]
  /\ IF t = "start" THEN UNCHANGED <<status, told, atimer>>
     ELSE /\ status' = "stopped" /\ told' = State("stopped", Connected)
          /\ atimer' = (atimer \/ ~Connected)
  /\ UNCHANGED <<proc, rpc, port, stopping, bounds>>

-----------------------------------------------------------------------------
(* CppClient.                                                              *)

Command == commands < MaxCommands /\ commands' = commands + 1

\* start(): a start under way is joined.
Begin == IF tasks["start"].at = "idle" /\ ~Connected
           THEN [tasks EXCEPT !["start"] = [at |-> "probe", on |-> None]] ELSE tasks

Start ==
  /\ Command /\ tasks' = Begin
  /\ UNCHANGED <<proc, status, told, atimer, rpc, port, stopping, faults, cuts>>

Attach(t) ==
  /\ tasks[t].at = "idle" /\ ~Connected
  /\ tasks' = [tasks EXCEPT ![t] = [at |-> "probe", on |-> None]]

\* The attach() at the start of the service, and that of the timer.
Boot  == Command /\ Attach("attach")
         /\ UNCHANGED <<proc, status, told, atimer, rpc, port, stopping, faults, cuts>>
Retry == /\ atimer /\ atimer' = FALSE
         /\ Attach("retry") \/ (Connected /\ UNCHANGED tasks)
         /\ UNCHANGED <<proc, status, told, rpc, port, stopping, bounds>>

\* attach() after its look at the port.
AttachProbe(t) ==
  /\ t # "start" /\ tasks[t].at = "probe"
  /\ IF PortOpen
       THEN status' = "starting" /\ Dial(t) /\ UNCHANGED atimer
       ELSE /\ tasks' = [tasks EXCEPT ![t] = Idle] /\ atimer' = (atimer \/ ~Connected)
            /\ UNCHANGED <<status, ws, socks, connecting, manual>>
  /\ UNCHANGED <<proc, told, rtimer, beating, port, stopping, bounds>>

\* A process is gone: its links end.
Without(p) == [s \in Socks |->
                 IF socks[s].peer = p /\ socks[s].st = "open"
                   THEN [st |-> "ended", peer |-> None, port |-> socks[s].port] ELSE socks[s]]

\* doStart() after its look at the port: connect, or clear away an old child
\* and spawn.  The spawn itself may fail.
StartProbe ==
  /\ tasks["start"].at = "probe"
  /\ status' = "starting"
  /\ IF PortOpen
       THEN Dial("start") /\ UNCHANGED <<proc, told>>
       ELSE /\ tasks' = [tasks EXCEPT !["start"] = [at |-> "poll", on |-> None]]
            /\ socks' = Without("own")
            /\ procs' = [procs EXCEPT !["own"] = [st |-> "loading", port |-> port]]
            /\ child' = "live"
            /\ UNCHANGED <<told, ws, connecting, manual>>
  /\ UNCHANGED <<rtimer, beating, atimer, port, stopping, bounds>>

SpawnFails ==
  /\ procs["own"].st = "loading" /\ child = "live"
  /\ procs' = [procs EXCEPT !["own"] = NoProc] /\ child' = None
  /\ status' = "error" /\ told' = State("error", Connected)
  /\ UNCHANGED <<tasks, atimer, rpc, port, stopping, bounds>>

Poll ==
  /\ tasks["start"].at = "poll" /\ PortOpen
  /\ Dial("start")
  /\ UNCHANGED <<proc, status, told, atimer, rtimer, beating, port, stopping, bounds>>

StartTimeout ==
  /\ tasks["start"].at = "poll" /\ tasks' = [tasks EXCEPT !["start"] = Idle]
  /\ status' = "error" /\ told' = State("error", Connected)
  /\ UNCHANGED <<proc, atimer, rpc, port, stopping, bounds>>

\* `exit' of the child: a start that was waiting for it has failed.
Exit ==
  /\ child = "exited" /\ child' = None
  /\ status' = IF status = "starting" THEN "error" ELSE "stopped"
  /\ told' = State(status', Connected)
  /\ UNCHANGED <<procs, tasks, atimer, rpc, port, stopping, bounds>>

\* close(), with what becomes of the socket: a dial is aborted, which rejects.
Cut(k) ==
  [s \in Socks |->
     IF s # ws THEN k[s]
     ELSE IF k[s].st = "dialing" THEN NoSock
     ELSE [st |-> "closing", peer |-> None, port |-> k[s].port]]

\* Slip: the child is forgotten and not killed.
EndStopForgets(c) ==
  /\ child' = None /\ socks' = Cut(socks)
  /\ ws' = None /\ manual' = TRUE /\ rtimer' = FALSE /\ beating' = FALSE
  /\ status' = "stopped" /\ told' = State("stopped", FALSE)
  /\ UNCHANGED <<procs, connecting, tasks, atimer>>

\* The rest of stop(): the child is killed, the link is closed.  restart() goes
\* on with start(), which joins a start that is about to be rejected.
EndStop(c) ==
  /\ procs' = IF child # None THEN [procs EXCEPT !["own"] = NoProc] ELSE procs
  /\ child' = None
  /\ socks' = Cut(IF child # None THEN Without("own") ELSE socks)
  /\ ws' = None /\ manual' = TRUE /\ rtimer' = FALSE /\ beating' = FALSE
  /\ status' = "stopped" /\ told' = State("stopped", FALSE)
  /\ LET aborted == ws # None /\ socks[ws].st = "dialing"
         left    == IF aborted THEN Rejected(ws) ELSE tasks IN
     /\ connecting' = (connecting /\ ~aborted)
     /\ atimer' = (atimer \/ (aborted /\ AttachFails(ws)))
     /\ tasks' = IF c = "restart" /\ tasks["start"].at = "idle"
                   THEN [left EXCEPT !["start"] = [at |-> "probe", on |-> None]] ELSE left

\* stop() and restart(): the executor is asked to end if it can be asked.
Stop(c) ==
  /\ stopping = None /\ Command
  /\ IF Connected
       THEN /\ stopping' = c
            /\ procs' = [p \in Procs |->
                 IF socks[ws].st = "open" /\ socks[ws].peer = p /\ procs[p].st = "up"
                   THEN [procs[p] EXCEPT !.st = "ending"] ELSE procs[p]]
            /\ UNCHANGED <<child, cpp, rpc, cuts>>
       ELSE EndStop(c) /\ cuts' = cuts + 1 /\ UNCHANGED stopping
  /\ UNCHANGED <<port, faults>>

\* The answer or two seconds later.
StopRest ==
  /\ stopping # None /\ stopping' = None
  /\ EndStop(stopping) /\ cuts' = cuts + 1
  /\ UNCHANGED <<port, commands, faults>>

\* setConfig() with another port.
SetConfig ==
  /\ Command /\ port' = 3 - port
  /\ IF Connected
       THEN /\ tasks["attach"].at = "idle"
            /\ tasks' = [tasks EXCEPT !["attach"] = [at |-> "probe", on |-> None]]
            /\ socks' = Cut(socks) /\ ws' = None
            /\ manual' = TRUE /\ rtimer' = FALSE /\ beating' = FALSE
            /\ status' = "stopped" /\ cuts' = cuts + 1
       ELSE UNCHANGED <<cuts, tasks, socks, ws, manual, rtimer, beating, status>>
  /\ UNCHANGED <<proc, told, atimer, connecting, stopping, faults>>

-----------------------------------------------------------------------------
(* The processes.                                                          *)

\* A process has loaded and listens.  A port that another one has may be shared
\* with it, or is refused: the thread that should listen ends, the process stays.
Loaded(p) ==
  /\ procs[p].st = "loading"
  /\ \E h \in {"up", "deaf"} :
       /\ h = "deaf" => \E q \in Procs : Listens(q, procs[p].port)
       /\ procs' = [procs EXCEPT ![p].st = h]
  /\ UNCHANGED <<child, cpp, rpc, port, stopping, bounds>>

\* Told to end, or by a crash, a closed window, or because it cannot load.
Ends(p) ==
  /\ procs[p].st # None
  /\ IF procs[p].st = "ending" THEN UNCHANGED faults
     ELSE faults < MaxFaults /\ faults' = faults + 1
  /\ procs' = [procs EXCEPT ![p] = NoProc]
  /\ child' = IF p = "own" THEN "exited" ELSE child
  /\ socks' = Without(p)
  /\ UNCHANGED <<cpp, ws, connecting, manual, rtimer, beating, port, stopping, commands, cuts>>

\* Somebody starts an executor by hand.
ByHand ==
  /\ procs["other"] = NoProc /\ Command
  /\ \E a \in {1, 2} : procs' = [procs EXCEPT !["other"] = [st |-> "loading", port |-> a]]
  /\ UNCHANGED <<child, cpp, rpc, port, stopping, faults, cuts>>

\* A link may end without either side being told.
GoesMute ==
  /\ faults < MaxFaults /\ faults' = faults + 1
  /\ \E s \in Socks : /\ socks[s].st = "open"
                      /\ socks' = [socks EXCEPT ![s].st = "mute", ![s].peer = None]
  /\ UNCHANGED <<proc, cpp, ws, connecting, manual, rtimer, beating, port, stopping, commands, cuts>>

-----------------------------------------------------------------------------
Init ==
  /\ procs = [p \in Procs |-> NoProc] /\ child = None
  /\ status = "stopped" /\ told = State("stopped", FALSE) /\ port = 1
  /\ tasks = [t \in Tasks |-> Idle] /\ stopping = None
  /\ ws = None /\ socks = [s \in Socks |-> NoSock]
  /\ connecting = FALSE /\ manual = FALSE
  /\ rtimer = FALSE /\ atimer = FALSE /\ beating = FALSE
  /\ commands = 0 /\ faults = 0 /\ cuts = 0

Next ==
  \/ Reconnect \/ HeartbeatCuts \/ Retry \/ Boot \/ Start \/ StartProbe
  \/ SpawnFails \/ Poll \/ StartTimeout \/ Exit \/ StopRest \/ SetConfig
  \/ ByHand \/ GoesMute
  \/ \E c \in {"stop", "restart"} : Stop(c)
  \/ \E t \in Tasks : AttachProbe(t) \/ AwaitTimeout(t)
  \/ \E s \in Socks : Opens(s) \/ DialFails(s) \/ Closes(s)
  \/ \E p \in Procs : Loaded(p) \/ Ends(p)

Spec == Init /\ [][Next]_vars

\* Timers fire, a look at the port ends, dials end, a closed socket says so and
\* a process loads.  One told to end may stay: audio-executor.exe posts its end
\* to the thread that has taken the request, not to the one that waits for it.
Fairness ==
  /\ WF_vars(Reconnect) /\ WF_vars(Retry) /\ WF_vars(HeartbeatCuts)
  /\ WF_vars(StartProbe \/ Poll \/ StartTimeout) /\ WF_vars(Exit) /\ WF_vars(StopRest)
  /\ \A t \in Tasks : WF_vars(AttachProbe(t) \/ AwaitTimeout(t))
  /\ \A s \in Socks : WF_vars(Opens(s) \/ DialFails(s) \/ Closes(s))
  /\ \A p \in Procs : WF_vars(Loaded(p))

FairSpec == Spec /\ Fairness

-----------------------------------------------------------------------------
(* Properties.                                                             *)

\* Every variable has its type.
TypeOK ==
  /\ procs \in [Procs -> [st : ProcStates, port : 0..2]]
  /\ child \in {None, "live", "exited"}
  /\ status \in {"stopped", "starting", "running", "error"}
  /\ told \in [status : {"stopped", "starting", "running", "error"}, connected : BOOLEAN]
  /\ tasks \in [Tasks -> [at : {"idle", "probe", "poll", "dial"}, on : Socks \cup {None, Any, Never}]]
  /\ stopping \in {None, "stop", "restart"} /\ ws \in Socks \cup {None} /\ port \in {1, 2}
  /\ socks \in [Socks -> [st : SockStates, peer : Procs \cup {None}, port : 0..2]]
  /\ {connecting, manual, rtimer, atimer, beating} \subseteq BOOLEAN
  /\ commands \in 0..MaxCommands /\ faults \in 0..MaxFaults /\ cuts \in 0..2 * MaxCommands

\* A process the service has spawned and that still runs is the child it can
\* kill, however stops, restarts and starts meet (doStart(), stop(), `exit').
NoOrphan == procs["own"].st # None => child = "live"

Quiet ==
  /\ \A t \in Tasks : tasks[t].at = "idle"
  /\ stopping = None /\ child # "exited"
  /\ \A s \in Socks : socks[s].st \in {None, "open"}

\* When nothing is under way the badge of the page shows the truth: the last
\* thing emitState() told is the state now.
BadgeTrue == Quiet => told = State(status, Connected)

\* What holds of the client in every state: the service can end what it has
\* started, and its badge is true.
ExecutorSafe == TypeOK /\ NoOrphan /\ BadgeTrue

Up == \E p \in Procs : procs[p].st = "up" /\ procs[p].port = port
Linked == ws # None /\ socks[ws].st = "open"

\* As long as nobody calls close(), a service that has once tried to attach,
\* or has been connected, gets its link to an executor that stays up; and a
\* start() ends: it connects or says that it could not.
Recovers ==
  /\ Up /\ (Connected \/ atimer \/ tasks["attach"].at # "idle") ~> Linked \/ ~Up \/ cuts > 0
  /\ tasks["start"].at # "idle" ~> tasks["start"].at = "idle" \/ cuts > 0
=============================================================================
