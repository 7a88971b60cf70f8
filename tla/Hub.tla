-------------------------------- MODULE Hub --------------------------------
(***************************************************************************)
(* The WebSocket server and its peers (server/ws.ts, the dispatcher of     *)
(* core/rpc.ts, renderer/assets/js/rpc-client.js): a page that connects,   *)
(* declares itself, calls and connects again, other peers, the tables in   *)
(* which the server keeps them, and the heartbeat that finds connections   *)
(* which have died without a word.                                         *)
(***************************************************************************)
EXTENDS Naturals, Sequences, FiniteSets

CONSTANTS
  Pages, Others,   \* sockets of the page, of other peers: used again when nothing is left of one
  Calls            \* calls of the page, likewise

Conns == Pages \cup Others
None  == "none"
HubAssumption ==
  /\ IsFiniteSet(Conns) /\ IsFiniteSet(Calls)
  /\ None \notin Conns /\ Pages \cap Others = {} /\ Calls \cap {"webui", "plugin"} = {}

VARIABLES
  net,      \* each socket: "none", "connecting", "open", "half" (open), "closed"
  peers,    \* the kind the server has for it, or "none"
  byKind,   \* kind -> connections
  alive,    \* alivePeers
  inbox,    \* what has been sent to the server
  serving,  \* the calls whose handler runs, with their socket
  outbox,   \* what has been sent back
  cur, left,                  \* the page: its socket, those it replaced before their onclose()
  declaring,                  \* the sockets whose onopen() waits for the declaration
  declared, connected, timer, \* two flags, the retry
  call,     \* each call: "idle", "waits" for the page to be ready, "pending"
  up        \* the server listens

net_  == <<net, inbox, outbox>>
srv   == <<peers, byKind, alive, serving>>
page  == <<cur, left, declaring, declared, connected, timer, call>>
vars  == <<net_, srv, page, up>>

Kinds == {"webui", "plugin"}
Unused(c) ==
  /\ net[c] \in {"none", "closed"} /\ peers[c] = "none" /\ c \notin {cur} \cup left \cup declaring
  /\ inbox[c] = <<>> /\ outbox[c] = {} /\ \A s \in serving : s[1] # c

-----------------------------------------------------------------------------
(* The server.                                                             *)

\* handleConnection(): a page, until it says otherwise.
Joins(c) ==
  /\ peers' = [peers EXCEPT ![c] = "webui"] /\ byKind' = [byKind EXCEPT !["webui"] = @ \cup {c}]
  /\ alive' = alive \cup {c}

\* removePeer() of some.
Leave(cs) ==
  /\ peers' = [c \in Conns |-> IF c \in cs THEN "none" ELSE peers[c]]
  /\ byKind' = [k \in Kinds |-> byKind[k] \ cs]

\* Slip: the connection stays among those of its old kind.
DeclaresBoth(c, kind) ==
  /\ peers' = [peers EXCEPT ![c] = kind]
  /\ byKind' = [k \in Kinds |-> IF k = kind THEN byKind[k] \cup {c} ELSE byKind[k]]

\* peer.declare
Declares(c, kind) ==
  /\ peers' = [peers EXCEPT ![c] = kind]
  /\ byKind' = [k \in Kinds |-> IF k = kind THEN byKind[k] \cup {c} ELSE byKind[k] \ {c}]

\* A message comes, which shows that the sender lives.  A request is
\* dispatched; its handler may take its time.  A declaration is confirmed at
\* once: see DeclareEnds.
Message(c) ==
  /\ net[c] = "open" /\ peers[c] # "none" /\ inbox[c] # <<>>
  /\ LET msg == Head(inbox[c])
     IN IF msg \in Kinds THEN Declares(c, msg) /\ UNCHANGED serving
        ELSE serving' = serving \cup {<<c, msg>>} /\ UNCHANGED <<peers, byKind>>
  /\ inbox' = [inbox EXCEPT ![c] = Tail(@)] /\ alive' = alive \cup {c}
  /\ UNCHANGED <<net, outbox, page, up>>

\* dispatch() ends, with a result or an error, which is sent if the socket of
\* the request is still open.
Reply(s) ==
  /\ s \in serving /\ serving' = serving \ {s}
  /\ outbox' = IF net[s[1]] = "open" /\ peers[s[1]] # "none"
                 THEN [outbox EXCEPT ![s[1]] = @ \cup {s[2]}] ELSE outbox
  /\ UNCHANGED <<net, inbox, peers, byKind, alive, page, up>>

\* The close or error event; what its requests return goes nowhere.
ServerCloses(c) ==
  /\ net[c] = "closed" /\ peers[c] # "none" /\ Leave({c}) /\ alive' = alive \ {c}
  /\ inbox' = [inbox EXCEPT ![c] = <<>>] /\ serving' = {s \in serving : s[1] # c}
  /\ UNCHANGED <<net, outbox, page, up>>

\* Slip: whoever is not alive is asked again.
HeartbeatPatient ==
  /\ up /\ \E c \in Conns : peers[c] # "none"
  /\ alive' = {} /\ UNCHANGED <<net_, peers, byKind, serving, page, up>>

\* Every thirty seconds: who has given no sign since the last time is
\* terminated, of which a close event follows; the others are asked.
Heartbeat ==
  /\ up /\ \E c \in Conns : peers[c] # "none"
  /\ net' = [c \in Conns |-> IF peers[c] # "none" /\ c \notin alive THEN "closed" ELSE net[c]]
  /\ alive' = {}
  /\ UNCHANGED <<inbox, outbox, peers, byKind, serving, page, up>>

\* Whoever has not been heard of since has been pinged.
Pong(c) ==
  /\ peers[c] # "none" /\ net[c] = "open" /\ c \notin alive /\ alive' = alive \cup {c}
  /\ UNCHANGED <<net_, peers, byKind, serving, page, up>>

\* stop() terminates everybody and ends whether they answer or not.
Stop ==
  /\ up /\ up' = FALSE
  /\ net' = [c \in Conns |-> IF net[c] \in {"open", "half"} THEN "closed" ELSE net[c]]
  /\ Leave(Conns) /\ alive' = {} /\ serving' = {}
  /\ inbox' = [c \in Conns |-> <<>>] /\ UNCHANGED <<outbox, page>>

Restart == ~up /\ up' = TRUE /\ UNCHANGED <<net_, srv, page>>

-----------------------------------------------------------------------------
(* The page.                                                               *)

IsOpen == cur # None /\ net[cur] = "open"

\* connect(): not while there is a socket that is open or opens.  One that is
\* closing is replaced, and still has its onclose() to come.
Connects ==
  IF IsOpen \/ (cur # None /\ net[cur] = "connecting") THEN UNCHANGED <<net, cur, left>>
  ELSE \E c \in Pages :
         /\ Unused(c) /\ cur' = c /\ net' = [net EXCEPT ![c] = "connecting"]
         /\ left' = left \cup ({cur} \ {None})

\* The retry, three seconds after a close.
Retry ==
  /\ timer /\ timer' = FALSE /\ Connects
  /\ UNCHANGED <<inbox, outbox, srv, declaring, declared, connected, call, up>>

Sent(c, k) == inbox' = [inbox EXCEPT ![c] = Append(@, k)]

\* call(): at once if the page is ready, else after whenReady().
Call(k) ==
  /\ call[k] = "idle"
  /\ \A c \in Pages : k \notin outbox[c] /\ <<c, k>> \notin serving /\ \A i \in DOMAIN inbox[c] : inbox[c][i] # k
  /\ IF IsOpen /\ declared
       THEN Sent(cur, k) /\ call' = [call EXCEPT ![k] = "pending"] /\ UNCHANGED <<net, cur, left>>
       ELSE Connects /\ call' = [call EXCEPT ![k] = "waits"] /\ UNCHANGED inbox
  /\ UNCHANGED <<outbox, srv, declaring, declared, connected, timer, up>>

\* onopen() with the declaration, for which the page waits 800 ms at most.
Opens ==
  /\ cur # None /\ net[cur] = "connecting" /\ up /\ net' = [net EXCEPT ![cur] = "open"] /\ Joins(cur)
  /\ Sent(cur, "webui") /\ declaring' = declaring \cup {cur}
  /\ UNCHANGED <<outbox, serving, cur, left, declared, connected, timer, call, up>>

Listed(S) == CHOOSE s \in [1..Cardinality(S) -> S] : {s[i] : i \in DOMAIN s} = S

\* The rest of onopen(), of whichever socket: whoever waited (now the calls are
\* as in cs) goes on, in vain if the page has no open socket by now.
Ready(cs) ==
  /\ declared' = TRUE /\ connected' = TRUE
  /\ LET waiting == {k \in Calls : cs[k] = "waits"}
     IN /\ call' = [k \in Calls |-> IF k \notin waiting THEN cs[k] ELSE IF IsOpen THEN "pending" ELSE "idle"]
        /\ inbox' = IF IsOpen THEN [inbox EXCEPT ![cur] = @ \o Listed(waiting)] ELSE inbox

\* The answer to the declaration comes, or its timer goes off.
DeclareEnds(c) ==
  /\ c \in declaring /\ declaring' = declaring \ {c} /\ Ready(call)
  /\ UNCHANGED <<net, outbox, srv, cur, left, timer, up>>

\* Slip: what was asked is left unanswered.
ClosesOnly ==
  /\ cur # None /\ (net[cur] = "closed" \/ (net[cur] = "connecting" /\ ~up)) /\ cur' = None
  /\ net' = [net EXCEPT ![cur] = "closed"] /\ timer' = TRUE
  /\ outbox' = [outbox EXCEPT ![cur] = {}] /\ declaring' = {} /\ declared' = FALSE /\ connected' = FALSE
  /\ UNCHANGED <<inbox, srv, left, call, up>>

\* onclose() of whichever socket: all that was asked fails.  A declaration that
\* was under way fails as well, and with that the rest of onopen() runs after
\* all: the page calls itself connected until the retry.
Onclose ==
  /\ timer' = TRUE /\ declaring' = {}
  /\ LET failed == [k \in Calls |-> IF call[k] = "pending" THEN "idle" ELSE call[k]]
     IN IF declaring # {} THEN Ready(failed)
        ELSE declared' = FALSE /\ connected' = FALSE /\ call' = failed /\ UNCHANGED inbox

Closes ==
  /\ cur # None /\ (net[cur] = "closed" \/ (net[cur] = "connecting" /\ ~up)) /\ cur' = None
  /\ net' = [net EXCEPT ![cur] = "closed"] /\ timer' = TRUE
  /\ outbox' = [outbox EXCEPT ![cur] = {}] /\ Onclose
  /\ UNCHANGED <<srv, left, up>>

\* The onclose() of a socket that whenReady() has replaced meanwhile: it does
\* not ask whether it still is the page's.
LateClose(c) ==
  /\ c \in left /\ left' = left \ {c}
  /\ outbox' = [outbox EXCEPT ![c] = {}] /\ Onclose
  /\ UNCHANGED <<net, srv, cur, up>>

\* handleMessage(): an answer to a call that has ended is nobody's.
Answer(k) ==
  /\ cur # None /\ net[cur] = "open" /\ k \in outbox[cur]
  /\ outbox' = [outbox EXCEPT ![cur] = @ \ {k}]
  /\ call' = [call EXCEPT ![k] = "idle"]
  /\ UNCHANGED <<net, inbox, srv, cur, left, declaring, declared, connected, timer, up>>

\* Ten seconds for an answer, fifteen for the page to be ready.
TimesOut(k) ==
  /\ call[k] # "idle" /\ call' = [call EXCEPT ![k] = "idle"]
  /\ UNCHANGED <<net_, srv, cur, left, declaring, declared, connected, timer, up>>

-----------------------------------------------------------------------------
(* Other peers, and the net.                                               *)

PeerConnects(c) ==
  /\ up /\ c \in Others /\ Unused(c) /\ net' = [net EXCEPT ![c] = "open"] /\ Joins(c) /\ Sent(c, "plugin")
  /\ UNCHANGED <<outbox, serving, page, up>>

\* A socket closes, or dies without a word if its peer is on another machine
\* than the service, which the page is not; what was on its way is lost.
Breaks(c) ==
  /\ net[c] \in {"open", "half"}
  /\ \E how \in {"half", "closed"} : how # net[c] /\ (how = "half" => c \in Others) /\ net' = [net EXCEPT ![c] = how]
  /\ inbox' = [inbox EXCEPT ![c] = <<>>] /\ outbox' = [outbox EXCEPT ![c] = {}]
  /\ UNCHANGED <<srv, page, up>>

Init ==
  /\ net = [c \in Conns |-> "none"] /\ peers = [c \in Conns |-> "none"] /\ byKind = [k \in Kinds |-> {}]
  /\ alive = {} /\ inbox = [c \in Conns |-> <<>>] /\ serving = {} /\ outbox = [c \in Conns |-> {}]
  /\ cur = None /\ left = {} /\ declaring = {} /\ declared = FALSE /\ connected = FALSE /\ timer = TRUE
  /\ call = [k \in Calls |-> "idle"] /\ up = TRUE

Next ==
  \/ Heartbeat \/ Stop \/ Restart \/ Retry \/ Opens \/ Closes
  \/ \E c \in Conns :
       \/ Message(c) \/ ServerCloses(c) \/ Pong(c) \/ PeerConnects(c) \/ Breaks(c)
       \/ DeclareEnds(c) \/ LateClose(c)
       \/ \E k \in Calls : Reply(<<c, k>>)
  \/ \E k \in Calls : Call(k) \/ TimesOut(k) \/ Answer(k)

\* The timers of the heartbeat and of the retry go off and sockets that have
\* closed say so; handlers, calls, peers and the net may do what they like.
Fairness ==
  /\ WF_vars(Heartbeat) /\ WF_vars(Opens \/ Closes) /\ WF_vars(Retry)
  /\ \A c \in Conns : WF_vars(ServerCloses(c))

Spec == Init /\ [][Next]_vars /\ Fairness

-----------------------------------------------------------------------------
(* Properties.                                                             *)

UnderWay(k) ==
  (\E i \in DOMAIN inbox[cur] : inbox[cur][i] = k) \/ <<cur, k>> \in serving \/ k \in outbox[cur]

TypeOK ==
  /\ \A c \in Conns : net[c] \in {"none", "connecting", "open", "half", "closed"} /\ peers[c] \in Kinds \cup {"none"}
  /\ {alive, left, declaring} \subseteq SUBSET Conns /\ cur \in Conns \cup {None}
  /\ call \in [Calls -> {"idle", "waits", "pending"}]

\* The server has every connection under one kind, the one it declared last,
\* and no other: what is broadcast to a kind reaches each of its connections
\* once.  No call waits in vain: while its page has an open socket, the request
\* or its answer is under way on that one, or the onclose() of an earlier socket
\* is to come, which fails it.
OneKind ==
  /\ \A c \in Conns, k \in Kinds : c \in byKind[k] <=> peers[c] = k
  /\ \A k \in Calls : call[k] = "pending" => cur # None /\ (IsOpen /\ left = {} => UnderWay(k))

\* A connection that is dead leaves the tables, and the page does not call
\* itself connected for good without a connection.
DeadOnesLeave ==
  /\ \A c \in Conns : (peers[c] # "none" /\ net[c] \in {"half", "closed"}) ~> (peers[c] = "none" \/ net[c] = "open")
  /\ (connected /\ ~IsOpen) ~> (~connected \/ IsOpen)

=============================================================================
