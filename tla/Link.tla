-------------------------------- MODULE Link --------------------------------
(***************************************************************************)
(* How an event of the live room gets from the Koishi plugin to the        *)
(* backend: EventBridge (src/event-bridge.ts) over BackendClient           *)
(* (src/backend-client.ts), and the commands that stop and start the       *)
(* backend (src/index.ts).                                                 *)
(*                                                                         *)
(* A socket outlives its role: after disconnect() its `close' event comes  *)
(* when the backend has answered, maybe after another socket has opened,   *)
(* and the handler does not ask which socket it speaks of.                 *)
(***************************************************************************)
EXTENDS Integers, Sequences, FiniteSets, SequencesExt

CONSTANTS
  Socks,      \* WebSocket objects, used again once nothing refers to them
  MaxKept,    \* DISCONNECT_QUEUE_MAX
  MaxEvents,  \* bound on the events
  MaxCuts,    \* bound on the commands that stop or restart the backend
  MaxFaults   \* bound on crashes, lost connections and dials that time out

NoSock == "none"

ASSUME LinkAssumption ==
  /\ NoSock \notin Socks /\ MaxKept \in Nat
  /\ MaxEvents \in Nat /\ MaxCuts \in Nat /\ MaxFaults \in Nat

VARIABLES
  made,       \* events of the room so far, numbered in order
  kept,       \* disconnectQueue
  ws,         \* ws
  connected, manual,  \* connected, manualClose
  timer,      \* reconnectTimer
  socks,      \* the state of each socket, and the events on their way in it
  up, ending, \* the backend listens; it was told to end
  got,        \* the events the backend has read, in order
  cmd,        \* what the plugin or an operator's command is at
  cuts, faults  \* how often the bounded things have happened

vars == <<made, kept, ws, connected, manual, timer, socks, up, ending, got, cmd, cuts, faults>>
backend == <<up, ending, got>>
command == <<cmd, cuts>>

\* dialing: the handshake is under way.  open.  dead: open for the plugin,
\* gone for the backend.  closing: close() was called.  left: no event will
\* come from it, but the backend may still read what was sent.
States == {"none", "dialing", "open", "dead", "closing", "left"}
Gone   == [st |-> "none", out |-> <<>>]

\* The request that ends the backend, among the events it reads in order.
Shutdown == 0

Dialing == \E s \in Socks : socks[s].st = "dialing"

-----------------------------------------------------------------------------
(* The event bridge.                                                       *)

\* Slips: one event too many; an event that comes while the client dials is
\* not kept.
KeepOneMore(e) == kept' = IF Len(kept) <= MaxKept THEN Append(kept, e) ELSE kept
KeepUnlessDialing(e) ==
  kept' = IF Len(kept) < MaxKept /\ ~Dialing THEN Append(kept, e) ELSE kept

\* Without a connection the event is kept, or dropped when too many are.
Keep(e) == kept' = IF Len(kept) < MaxKept THEN Append(kept, e) ELSE kept

\* An event of the room.  What is sent into a dead connection is lost, and
\* no one tries again.
Event ==
  /\ made < MaxEvents
  /\ made' = made + 1
  /\ IF connected
       THEN /\ socks' = IF ws # NoSock /\ socks[ws].st = "open"
                          THEN [socks EXCEPT ![ws].out = Append(@, made + 1)] ELSE socks
            /\ UNCHANGED kept
       ELSE Keep(made + 1) /\ UNCHANGED socks
  /\ UNCHANGED <<ws, connected, manual, timer, backend, command, faults>>

-----------------------------------------------------------------------------
(* BackendClient.                                                          *)

\* Slip: the old socket is not terminated.
DialBeside(t) ==
  IF connected \/ Dialing
    THEN timer' = t /\ UNCHANGED <<ws, manual, socks>>
    ELSE /\ manual' = FALSE
         /\ timer' = t
         /\ \E s \in Socks :
              /\ socks[s].st \in {"none", "left"}
              /\ ws' = s
              /\ socks' = [socks EXCEPT ![s] = [st |-> "dialing", out |-> <<>>]]

\* connect() up to the handshake.  A socket that still is the client's is
\* terminated, and its close handler sets the reconnect timer; what it has
\* not sent may be lost (s = ws) or not.
Dial(t) ==
  IF connected \/ Dialing
    THEN timer' = t /\ UNCHANGED <<ws, manual, socks>>
    ELSE /\ manual' = FALSE
         /\ timer' = (t \/ ws # NoSock)
         /\ \E s \in Socks :
              /\ socks[s].st \in {"none", "left"} \/ s = ws
              /\ ws' = s
              /\ socks' = [k \in Socks |->
                   CASE k = s -> [st |-> "dialing", out |-> <<>>]
                     [] k = ws /\ k # s -> [socks[k] EXCEPT !.st = "left"]
                     [] OTHER -> socks[k]]

\* Slips: what was kept is sent and stays; it is sent with the newest first.
OpensKeeping(s) ==
  /\ socks[s].st = "dialing" /\ up
  /\ connected' = TRUE
  /\ socks' = [socks EXCEPT ![s] = [st |-> "open", out |-> kept]]
  /\ UNCHANGED <<made, kept, ws, manual, timer, backend, command, faults>>
OpensNewestFirst(s) ==
  /\ socks[s].st = "dialing" /\ up
  /\ connected' = TRUE
  /\ socks' = [socks EXCEPT ![s] = [st |-> "open", out |-> Reverse(kept)]]
  /\ kept' = <<>>
  /\ UNCHANGED <<made, ws, manual, timer, backend, command, faults>>

\* `open': what was kept is sent before anything else.
Opens(s) ==
  /\ socks[s].st = "dialing" /\ up
  /\ connected' = TRUE
  /\ socks' = [socks EXCEPT ![s] = [st |-> "open", out |-> kept]]
  /\ kept' = <<>>
  /\ UNCHANGED <<made, ws, manual, timer, backend, command, faults>>

\* Slip: only a connection that was open is dialed again.
ClosedOnceOpen(s, left) ==
  /\ connected' = FALSE
  /\ timer' = (timer \/ (~manual /\ connected))
  /\ ws' = IF ws = s THEN NoSock ELSE ws
  /\ socks' = [socks EXCEPT ![s] = left]

\* The handler of `close', whatever socket s it is.
Closed(s, left) ==
  /\ connected' = FALSE
  /\ timer' = (timer \/ ~manual)
  /\ ws' = IF ws = s THEN NoSock ELSE ws
  /\ socks' = [socks EXCEPT ![s] = left]

\* The dial fails, or times out and is terminated: `error', then `close'.
DialFails(s) ==
  /\ socks[s].st = "dialing"
  /\ \/ ~up /\ UNCHANGED faults
     \/ up /\ faults < MaxFaults /\ faults' = faults + 1
  /\ Closed(s, Gone)
  /\ UNCHANGED <<made, kept, manual, backend, command>>

\* `close' of a connection that ended, or of one the client closed.
Closes(s) ==
  /\ socks[s].st \in {"dead", "closing"}
  /\ Closed(s, IF socks[s].out = <<>> THEN Gone ELSE [socks[s] EXCEPT !.st = "left"])
  /\ UNCHANGED <<made, kept, manual, backend, command, faults>>

\* The reconnect timer.
Redial ==
  /\ timer
  /\ IF manual THEN timer' = FALSE /\ UNCHANGED <<ws, manual, socks>> ELSE Dial(FALSE)
  /\ UNCHANGED <<made, kept, connected, backend, command, faults>>

\* disconnect().
Cut ==
  /\ manual' = TRUE /\ timer' = FALSE /\ connected' = FALSE /\ ws' = NoSock
  /\ socks' = [s \in Socks |->
       CASE s = ws /\ socks[s].st = "dialing" -> Gone
         [] s = ws /\ socks[s].st \in {"open", "dead"} -> [socks[s] EXCEPT !.st = "closing"]
         [] OTHER -> socks[s]]

-----------------------------------------------------------------------------
(* The backend and the network.                                            *)

\* The backend reads what a socket carries, in the order it was sent.
Deliver(s) ==
  /\ up /\ socks[s].st \in {"open", "closing", "left"} /\ socks[s].out # <<>>
  /\ LET e == Head(socks[s].out) IN
       IF e = Shutdown THEN ending' = TRUE /\ UNCHANGED got
                       ELSE got' = Append(got, e) /\ UNCHANGED ending
  /\ socks' = [socks EXCEPT ![s] = IF @.st = "left" /\ Len(@.out) = 1
                 THEN Gone ELSE [st |-> @.st, out |-> Tail(@.out)]]
  /\ UNCHANGED <<made, kept, ws, connected, manual, timer, up, command, faults>>

\* The backend ends, as it was told to or by a crash; what it has not read is lost.
BackendEnds ==
  /\ up
  /\ \/ ending /\ UNCHANGED faults
     \/ ~ending /\ faults < MaxFaults /\ faults' = faults + 1
  /\ up' = FALSE /\ ending' = FALSE
  /\ socks' = [s \in Socks |->
       CASE socks[s].st = "open" -> [st |-> "dead", out |-> <<>>]
         [] socks[s].st = "left" -> Gone
         [] OTHER -> [socks[s] EXCEPT !.out = <<>>]]
  /\ UNCHANGED <<made, kept, ws, connected, manual, timer, got, command>>

\* It is started, by the plugin or by hand.
BackendUp ==
  /\ ~up /\ up' = TRUE
  /\ UNCHANGED <<made, kept, ws, connected, manual, timer, socks, ending, got, command, faults>>

\* A connection is lost, with what was on its way in it.
LinkLost(s) ==
  /\ socks[s].st = "open" /\ faults < MaxFaults /\ faults' = faults + 1
  /\ socks' = [socks EXCEPT ![s] = [st |-> "dead", out |-> <<>>]]
  /\ UNCHANGED <<made, kept, ws, connected, manual, timer, backend, command>>

-----------------------------------------------------------------------------
(* The plugin's start and its commands, one at a time.                     *)

\* start() of the process manager is over, and so is what it waits for: the
\* backend listens, or the plugin connects all the same.
Boot ==
  /\ cmd = "boot" /\ cmd' = "none"
  /\ Dial(timer)
  /\ UNCHANGED <<made, kept, connected, backend, cuts, faults>>

\* vtuber.stop and vtuber.restart ask the backend to end, if they can.
StopCommand(c) ==
  /\ cmd = "none" /\ cuts < MaxCuts /\ cuts' = cuts + 1
  /\ cmd' = c
  /\ socks' = IF connected /\ ws # NoSock /\ socks[ws].st = "open"
                THEN [socks EXCEPT ![ws].out = Append(@, Shutdown)] ELSE socks
  /\ UNCHANGED <<made, kept, ws, connected, manual, timer, backend, faults>>

\* The port is closed, or ten seconds are over: the plugin disconnects and
\* kills the backend if it is its own child.  A restart ends here if the
\* port is still open.
StopDone ==
  /\ cmd \in {"stop", "restart"}
  /\ Cut
  /\ ending' \in {ending, up}
  /\ cmd' = IF cmd = "restart" /\ ~up THEN "start" ELSE "none"
  /\ UNCHANGED <<made, kept, up, got, cuts, faults>>

StartCommand ==
  /\ cmd = "none" /\ cmd' = "start"
  /\ UNCHANGED <<made, kept, ws, connected, manual, timer, socks, backend, cuts, faults>>

\* start() of the process manager has found the port open, or has given up.
StartDone ==
  /\ cmd = "start" /\ cmd' = "none"
  /\ IF up THEN Dial(timer) ELSE UNCHANGED <<ws, manual, timer, socks>>
  /\ UNCHANGED <<made, kept, connected, backend, cuts, faults>>

-----------------------------------------------------------------------------
Init ==
  /\ made = 0 /\ kept = <<>> /\ ws = NoSock
  /\ connected = FALSE /\ manual = FALSE /\ timer = FALSE
  /\ socks = [s \in Socks |-> Gone]
  /\ up \in BOOLEAN /\ ending = FALSE /\ got = <<>>
  /\ cmd = "boot" /\ cuts = 0 /\ faults = 0

Next ==
  \/ Event \/ Redial \/ BackendEnds \/ BackendUp
  \/ Boot \/ StopDone \/ StartCommand \/ StartDone
  \/ \E c \in {"stop", "restart"} : StopCommand(c)
  \/ \E s \in Socks : Opens(s) \/ DialFails(s) \/ Closes(s) \/ Deliver(s) \/ LinkLost(s)

Spec == Init /\ [][Next]_vars

\* Timers fire, a dial ends, a socket that is over says so, what is sent is
\* read while the backend lives, and a command comes to its end: it polls
\* the port until a deadline.
Fairness ==
  /\ WF_vars(Redial) /\ WF_vars(Boot) /\ WF_vars(StopDone) /\ WF_vars(StartDone)
  /\ \A s \in Socks :
       /\ WF_vars(Opens(s) \/ DialFails(s)) /\ WF_vars(Closes(s)) /\ WF_vars(Deliver(s))

FairSpec == Spec /\ Fairness

-----------------------------------------------------------------------------
(* Properties.                                                             *)

Kept(e) == \E i \in DOMAIN kept : kept[i] = e
Got(e)  == \E i \in DOMAIN got : got[i] = e
Sent(e) == \E s \in Socks : \E i \in DOMAIN socks[s].out : socks[s].out[i] = e

\* The types of the variables; the queue is never longer than its limit, and
\* nothing is on its way in a socket that is not connected.
TypeOK ==
  /\ made \in 0..MaxEvents /\ kept \in Seq(1..MaxEvents) /\ Len(kept) <= MaxKept
  /\ ws \in Socks \cup {NoSock} /\ {connected, manual, timer, up, ending} \subseteq BOOLEAN
  /\ \A s \in Socks :
       /\ socks[s].st \in States /\ socks[s].out \in Seq(0..MaxEvents)
       /\ socks[s].st \in {"none", "dialing", "dead"} => socks[s].out = <<>>
  /\ got \in Seq(1..MaxEvents)
  /\ cmd \in {"boot", "none", "stop", "restart", "start"}
  /\ cuts \in 0..MaxCuts /\ faults \in 0..MaxFaults

\* The plugin has one connection that it has not closed: when it believes
\* that it is connected its socket is that one, whatever handlers of older
\* sockets have run (doConnect() terminates, close handler).
OneLink ==
  /\ connected => ws # NoSock /\ socks[ws].st \in {"open", "dead"}
  /\ Cardinality({s \in Socks : socks[s].st \in {"dialing", "open", "dead"}}) <= 1

\* What holds of the plugin in every state, its one connection before all.
LinkSafe == TypeOK /\ OneLink

\* What the room sees of all this is a Channel: what the backend reads is
\* what the room made, each event at most once and, until an operator stops
\* the backend, in order, whatever connections replace one another; and no
\* event is lost but to a fault, a command or a full queue.
Ch == INSTANCE Channel WITH
  Holds   <- MaxKept,
  inside  <- {e \in 1..made : Kept(e) \/ Sent(e)},
  faulty  <- faults + cuts > 0,
  stopped <- cuts > 0
ImplementsChannel == Ch!Spec

\* An event that is kept is read in the end, or the backend goes away, or
\* the operator's last word was to disconnect, or it was sent into a link
\* that a fault or a command took away: the client never stops trying.
KeptArrives ==
  \A e \in 1..MaxEvents :
    Kept(e) ~> \/ Got(e) \/ ~up \/ ending
               \/ manual /\ cmd = "none"
               \/ ~Kept(e) /\ cuts + faults > 0
=============================================================================
