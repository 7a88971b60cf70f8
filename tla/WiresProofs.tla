---------------------------- MODULE WiresProofs ----------------------------
(***************************************************************************)
(* Theorems about Executor for every set of sockets and every number of    *)
(* commands and faults: no process is orphaned, the badge tells the truth. *)
(* And about Hub, for all pages, peers and calls: each connection is in    *)
(* one table, and no call waits in vain.                                   *)
(***************************************************************************)
EXTENDS MCWires, Sequences, FiniteSetTheorems, TLAPS

-----------------------------------------------------------------------------
(* The inductive invariant.                                                *)

Statuses == {"stopped", "starting", "running", "error"}
Sock     == [st : SockStates, peer : Procs \cup {None}, port : 0..2]
Task     == [at : {"idle", "probe", "poll"}, on : {None}]
            \cup [at : {"dial"}, on : Socks \cup {Any, Never}]
TasksOK  == tasks \in [Tasks -> Task]

\* Every close() belongs to a command, one under way has still to come.
CutsPaidFor == cuts <= commands /\ (stopping # None => cuts < commands)

\* While the client believes that it is connecting, a dial is under way.
DialUnderWay == connecting => \E s \in Socks : socks[s].st = "dialing"

\* The badge is true, or something is under way that will tell: a dial, a
\* close, or a start that waits for its process.
Pending  == \E s \in Socks : socks[s].st \in {"dialing", "closing"}
WillTell == Pending \/ (~Connected /\ tasks["start"].at = "poll")
Told     == told = State(status, Connected)

IInv == TypeOK /\ TasksOK /\ NoOrphan /\ CutsPaidFor /\ DialUnderWay /\ (Told \/ WillTell)

-----------------------------------------------------------------------------
(* Lemmas about sockets and tasks.                                         *)

SocksOK == socks \in [Socks -> Sock]
WsOK    == ws \in Socks \cup {None}

\* What is left of a type is typed.
LEMMA TypeParts ==
  TypeOK /\ TasksOK <=>
  /\ procs \in [Procs -> [st : ProcStates, port : 0..2]]
  /\ child \in {None, "live", "exited"}
  /\ status \in Statuses /\ told \in [status : Statuses, connected : BOOLEAN]
  /\ TasksOK /\ SocksOK /\ WsOK
  /\ stopping \in {None, "stop", "restart"} /\ port \in {1, 2}
  /\ {connecting, manual, rtimer, atimer, beating} \subseteq BOOLEAN
  /\ commands \in 0..MaxCommands /\ faults \in 0..MaxFaults /\ cuts \in 0..2 * MaxCommands
<1>1. Task \subseteq [at : {"idle", "probe", "poll", "dial"}, on : Socks \cup {None, Any, Never}]
      BY DEF Task
<1>2. TasksOK => tasks \in [Tasks -> [at : {"idle", "probe", "poll", "dial"}, on : Socks \cup {None, Any, Never}]]
      BY <1>1 DEF TasksOK
<1> QED BY <1>2 DEF TypeOK, Statuses, Sock, SocksOK, WsOK

LEMMA NamesDiffer == ExecutorAssumption => None \notin Socks /\ Any \notin Socks /\ Never \notin Socks
BY DEF ExecutorAssumption

LEMMA NullsTyped ==
  /\ NoSock \in Sock /\ NoSock.st = None /\ Idle \in Task /\ Idle.at = "idle" /\ Idle.on = None
  /\ NoProc \in [st : ProcStates, port : 0..2] /\ NoProc.st = None
BY DEF NoSock, Sock, SockStates, Idle, Task, NoProc, ProcStates

LEMMA StateIs ==
  ASSUME NEW s, NEW c \in BOOLEAN
  PROVE  State(s, c) = IF c THEN State("running", TRUE) ELSE State(s, FALSE)
BY DEF State

LEMMA StateTyped ==
  ASSUME NEW s \in Statuses, NEW c \in BOOLEAN
  PROVE  State(s, c) \in [status : Statuses, connected : BOOLEAN]
BY DEF State, Statuses

LEMMA SockMoved ==
  ASSUME NEW k \in Sock, NEW h \in SockStates, NEW p \in Procs \cup {None}
  PROVE  LET m == [st |-> h, peer |-> p, port |-> k.port] IN m \in Sock /\ m.st = h
BY DEF Sock

\* A close cuts the client's own socket and no other.
LEMMA CutIs ==
  ASSUME NEW k \in [Socks -> Sock]
  PROVE  /\ Cut(k) \in [Socks -> Sock]
         /\ \A s \in Socks : s # ws => Cut(k)[s] = k[s]
         /\ \A s \in Socks : s = ws => Cut(k)[s].st = IF k[s].st = "dialing" THEN None ELSE "closing"
<1>1. ASSUME NEW s \in Socks
      PROVE  /\ Cut(k)[s] \in Sock /\ (s # ws => Cut(k)[s] = k[s])
             /\ s = ws => Cut(k)[s].st = IF k[s].st = "dialing" THEN None ELSE "closing"
  <2>1. CASE s # ws
    <3>1. Cut(k)[s] = k[s]
          BY <2>1 DEF Cut
    <3> QED BY <2>1, <3>1
  <2>2. CASE s = ws /\ k[s].st = "dialing"
    <3>1. Cut(k)[s] = NoSock
          BY <2>2 DEF Cut
    <3> QED BY <2>2, <3>1, NullsTyped
  <2>3. CASE s = ws /\ k[s].st # "dialing"
    <3>1. Cut(k)[s] = [st |-> "closing", peer |-> None, port |-> k[s].port]
          BY <2>3 DEF Cut
    <3>2. k[s] \in Sock /\ "closing" \in SockStates /\ None \in Procs \cup {None}
          BY DEF SockStates
    <3>3. Cut(k)[s] \in Sock /\ Cut(k)[s].st = "closing"
          BY <3>1, <3>2, SockMoved
    <3> QED BY <2>3, <3>3
  <2> QED BY <2>1, <2>2, <2>3
<1>2. Cut(k) = [s \in Socks |-> Cut(k)[s]]
      BY DEF Cut
<1> QED BY <1>1, <1>2

\* A process that is gone ends links and nothing else.
LEMMA WithoutIs ==
  ASSUME SocksOK, NEW p
  PROVE  /\ Without(p) \in [Socks -> Sock]
         /\ \A s \in Socks : \/ Without(p)[s].st = socks[s].st
                             \/ socks[s].st = "open" /\ Without(p)[s].st = "ended"
<1>1. ASSUME NEW s \in Socks
      PROVE  /\ Without(p)[s] \in Sock
             /\ \/ Without(p)[s].st = socks[s].st
                \/ socks[s].st = "open" /\ Without(p)[s].st = "ended"
  <2>1. CASE socks[s].peer = p /\ socks[s].st = "open"
    <3>1. Without(p)[s] = [st |-> "ended", peer |-> None, port |-> socks[s].port]
          BY <2>1 DEF Without
    <3>2. "ended" \in SockStates /\ socks[s] \in Sock /\ None \in Procs \cup {None}
          BY DEF SockStates, SocksOK
    <3>3. Without(p)[s] \in Sock /\ Without(p)[s].st = "ended"
          BY <3>1, <3>2, SockMoved
    <3> QED BY <2>1, <3>3
  <2>2. CASE ~(socks[s].peer = p /\ socks[s].st = "open")
        BY <2>2 DEF Without, SocksOK
  <2> QED BY <2>1, <2>2
<1>2. Without(p) = [s \in Socks |-> Without(p)[s]]
      BY DEF Without
<1> QED BY <1>1, <1>2

LEMMA RejectedTyped ==
  ASSUME ExecutorAssumption, TasksOK, NEW s \in Socks
  PROVE  /\ Rejected(s) \in [Tasks -> Task]
         /\ \A t \in Tasks : tasks[t].at = "poll" => Rejected(s)[t] = tasks[t]
<1>1. ASSUME NEW t \in Tasks
      PROVE  /\ Rejected(s)[t] \in Task
             /\ tasks[t].at = "poll" => Rejected(s)[t] = tasks[t]
  <2>1. tasks[t] \in Task
        BY DEF TasksOK
  <2>2. CASE tasks[t].on # s
        BY <2>1, <2>2 DEF Rejected
  <2>3. CASE tasks[t].on = s
    <3>1. tasks[t].at = "dial"
          BY <2>1, <2>3, NamesDiffer DEF Task
    <3>2. [tasks[t] EXCEPT !.on = Never] \in Task
          BY <2>1, <3>1 DEF Task
    <3>3. Rejected(s)[t] \in {[tasks[t] EXCEPT !.on = Never], Idle}
          BY <2>3 DEF Rejected
    <3> QED BY <3>1, <3>2, <3>3, NullsTyped
  <2> QED BY <2>2, <2>3
<1>2. Rejected(s) = [t \in Tasks |-> Rejected(s)[t]]
      BY DEF Rejected
<1> QED BY <1>1, <1>2

\* connect(): tasks and sockets keep their types; a client that was not
\* connected is not yet, and a dial is under way.
LEMMA DialIs ==
  ASSUME ExecutorAssumption, SocksOK, TasksOK, WsOK, port \in {1, 2}, DialUnderWay,
         NEW t \in Tasks \cup {None}, Dial(t)
  PROVE  /\ SocksOK' /\ TasksOK' /\ WsOK' /\ DialUnderWay'
         /\ Connected' <=> Connected
         /\ Pending => Pending'
         /\ Connected \/ Pending'
         /\ connecting' \in {connecting, TRUE} /\ manual' \in {manual, FALSE}
<1>1. CASE Connected
  <2>1. /\ UNCHANGED <<ws, socks, connecting, manual>>
        /\ tasks' = IF t = None THEN tasks ELSE [tasks EXCEPT ![t] = Idle]
        BY <1>1 DEF Dial
  <2>2. TasksOK'
        BY <2>1, NullsTyped DEF TasksOK
  <2> QED BY <1>1, <2>1, <2>2 DEF SocksOK, WsOK, DialUnderWay, Connected, Pending
<1>2. CASE ~Connected /\ connecting
  <2>1. /\ UNCHANGED <<ws, socks, connecting, manual>>
        /\ tasks' = IF t = None THEN tasks ELSE [tasks EXCEPT ![t] = [at |-> "dial", on |-> Any]]
        BY <1>2 DEF Dial
  <2>2. [at |-> "dial", on |-> Any] \in Task
        BY DEF Task
  <2>3. TasksOK'
        BY <2>1, <2>2 DEF TasksOK
  <2>4. Pending
        BY <1>2 DEF DialUnderWay, Pending
  <2> QED BY <1>2, <2>1, <2>3, <2>4 DEF SocksOK, WsOK, DialUnderWay, Connected, Pending
<1>3. CASE ~Connected /\ ~connecting
  <2> DEFINE d == [st |-> "dialing", peer |-> None, port |-> port]
  <2>1. PICK s \in Socks :
         /\ socks[s].st = None
         /\ socks' = [socks EXCEPT ![s] = d]
         /\ tasks' = IF t = None THEN tasks ELSE [tasks EXCEPT ![t] = [at |-> "dial", on |-> s]]
         /\ ws' = s /\ connecting' = TRUE /\ manual' = FALSE
        BY <1>3 DEF Dial
  <2>2. d \in Sock /\ d.st = "dialing"
        BY DEF Sock, SockStates
  <2> HIDE DEF d
  <2>3. [at |-> "dial", on |-> s] \in Task
        BY DEF Task
  <2>4. SocksOK' /\ socks'[s].st = "dialing" /\ \A r \in Socks \ {s} : socks'[r] = socks[r]
        BY <2>1, <2>2 DEF SocksOK
  <2>5. TasksOK'
        BY <2>1, <2>3 DEF TasksOK
  <2>6. ~Connected' /\ Pending' /\ DialUnderWay' /\ WsOK'
        BY <2>1, <2>4 DEF Connected, Pending, DialUnderWay, WsOK
  <2> QED BY <1>3, <2>1, <2>4, <2>5, <2>6
<1> QED BY <1>1, <1>2, <1>3

-----------------------------------------------------------------------------
(* The close() of stop() and the `close' of a socket.                      *)

\* The handler of `close': the client is as connected as without that socket.
LEMMA ClosedIs ==
  ASSUME SocksOK, WsOK, ExecutorAssumption, NEW s \in Socks, Closed(s)
  PROVE  /\ SocksOK' /\ WsOK' /\ DialUnderWay'
         /\ Connected' <=> (Connected /\ ws # s)
<1>1. /\ connecting' = FALSE /\ ws' = IF ws = s THEN None ELSE ws
      /\ socks' = [socks EXCEPT ![s] = NoSock]
      BY DEF Closed
<1>2. SocksOK' /\ socks'[s] = NoSock /\ \A r \in Socks \ {s} : socks'[r] = socks[r]
      BY <1>1, NullsTyped DEF SocksOK
<1>3. Connected' <=> (Connected /\ ws # s)
      BY <1>1, <1>2, NamesDiffer DEF Connected, WsOK
<1> QED BY <1>1, <1>2, <1>3 DEF WsOK, DialUnderWay

\* Whoever tells Connected /\ ws # s while s closes tells the truth.
LEMMA ToldOnClose ==
  ASSUME SocksOK, WsOK, ExecutorAssumption, NEW s \in Socks, Closed(s), NEW u,
         status' = u, told' = State(u, Connected /\ ws # s)
  PROVE  Told'
<1>1. Connected' <=> (Connected /\ ws # s)
      BY ClosedIs
<1>2. Connected' \in BOOLEAN /\ (Connected /\ ws # s) \in BOOLEAN
      BY DEF Connected
<1>3. State(u, Connected') = State(u, Connected /\ ws # s)
      BY <1>1, <1>2, StateIs
<1> QED BY <1>3 DEF Told

LEMMA ToldOfState ==
  ASSUME NEW c \in BOOLEAN, Connected' <=> c, told' = State(status', c)
  PROVE  Told'
<1>1. Connected' \in BOOLEAN
      BY DEF Connected
<1>2. State(status', Connected') = State(status', c)
      BY <1>1, StateIs
<1> QED BY <1>2 DEF Told

\* What a connected client has told stays true whatever its status becomes.
LEMMA ToldConnected ==
  ASSUME Connected, Connected', Told, told' = told
  PROVE  Told'
<1>1. Connected \in BOOLEAN /\ Connected' \in BOOLEAN
      BY DEF Connected
<1>2. State(status, Connected) = State(status', Connected')
      BY <1>1, StateIs
<1> QED BY <1>2 DEF Told

\* The end of stop(): whatever was there, the client is cut off and says so.
LEMMA EndStopIs ==
  ASSUME TypeOK, TasksOK, ExecutorAssumption, DialUnderWay, NEW c, EndStop(c)
  PROVE  /\ SocksOK' /\ TasksOK' /\ WsOK' /\ DialUnderWay' /\ Told'
         /\ procs' \in [Procs -> [st : ProcStates, port : 0..2]] /\ child' = None
         /\ NoOrphan => procs'["own"].st = None
<1>1. /\ procs \in [Procs -> [st : ProcStates, port : 0..2]] /\ TasksOK /\ SocksOK /\ WsOK
      BY TypeParts
<1>2. /\ procs' = IF child # None THEN [procs EXCEPT !["own"] = NoProc] ELSE procs
      /\ child' = None /\ ws' = None /\ status' = "stopped" /\ told' = State("stopped", FALSE)
      /\ socks' = Cut(IF child # None THEN Without("own") ELSE socks)
      BY DEF EndStop
<1> DEFINE k == IF child # None THEN Without("own") ELSE socks
           aborted == ws # None /\ socks[ws].st = "dialing"
           rest == IF aborted THEN Rejected(ws) ELSE tasks
<1>3. /\ connecting' = (connecting /\ ~aborted)
      /\ tasks' = IF c = "restart" /\ tasks["start"].at = "idle"
                    THEN [rest EXCEPT !["start"] = [at |-> "probe", on |-> None]] ELSE rest
      BY DEF EndStop
<1>4. /\ k \in [Socks -> Sock]
      /\ \A s \in Socks : socks[s].st = "dialing" => k[s].st = "dialing"
      BY <1>1, WithoutIs DEF SocksOK
<1> HIDE DEF k
<1>5. /\ socks' \in [Socks -> Sock]
      /\ \A s \in Socks : s # ws => socks'[s] = k[s]
      BY <1>2, <1>4, CutIs DEF k
<1>6. rest \in [Tasks -> Task] /\ [at |-> "probe", on |-> None] \in Task
  <2>1. aborted => Rejected(ws) \in [Tasks -> Task]
        BY <1>1, RejectedTyped DEF WsOK
  <2> QED BY <1>1, <2>1 DEF TasksOK, Task
<1>7. tasks' \in [Tasks -> Task]
  <2> HIDE DEF rest
  <2> QED BY <1>3, <1>6
<1>8. DialUnderWay'
  <2>1. SUFFICES ASSUME connecting, ~aborted PROVE \E s \in Socks : socks'[s].st = "dialing"
        BY <1>3 DEF DialUnderWay
  <2>2. PICK s \in Socks : socks[s].st = "dialing"
        BY <2>1 DEF DialUnderWay
  <2>3. s # ws
        BY <1>1, <2>1, <2>2, NamesDiffer DEF WsOK
  <2> QED BY <1>4, <1>5, <2>2, <2>3
<1>9. Told'
  <2>1. ~Connected'
        BY <1>2 DEF Connected
  <2> QED BY <1>2, <2>1, ToldOfState
<1>10. procs' \in [Procs -> [st : ProcStates, port : 0..2]]
       BY <1>1, <1>2, NullsTyped
<1>11. NoOrphan => procs'["own"].st = None
  <2>1. "own" \in Procs
        BY DEF Procs
  <2> QED BY <1>1, <1>2, <2>1, NullsTyped DEF NoOrphan, None
<1> QED BY <1>2, <1>5, <1>7, <1>8, <1>9, <1>10, <1>11 DEF SocksOK, TasksOK, WsOK

-----------------------------------------------------------------------------
(* The processes.                                                          *)

ProcOK ==
  /\ procs \in [Procs -> [st : ProcStates, port : 0..2]]
  /\ child \in {None, "live", "exited"}
  /\ NoOrphan

LEMMA ProcOKStep ==
  ASSUME TypeOK, TasksOK, ExecutorAssumption, DialUnderWay, NoOrphan, [Next]_vars
  PROVE  ProcOK'
<1>0. /\ procs \in [Procs -> [st : ProcStates, port : 0..2]]
      /\ child \in {None, "live", "exited"} /\ port \in {1, 2}
      /\ "own" \in Procs /\ "other" \in Procs
      BY TypeParts DEF Procs
<1>1. ASSUME UNCHANGED proc PROVE ProcOK'
      BY <1>0, <1>1 DEF ProcOK, proc, NoOrphan
<1>2. ASSUME NEW c, EndStop(c) PROVE ProcOK'
  <2>1. procs' \in [Procs -> [st : ProcStates, port : 0..2]] /\ child' = None /\ procs'["own"].st = None
        BY <1>2, EndStopIs
  <2> QED BY <2>1 DEF ProcOK, NoOrphan
<1>3. ASSUME NEW p \in Procs, procs' = [procs EXCEPT ![p] = NoProc],
             child' = IF p = "own" THEN "exited" ELSE child
      PROVE  ProcOK'
      BY <1>0, <1>3, NullsTyped DEF ProcOK, NoOrphan
<1>4. CASE StartProbe
  <2>1. CASE PortOpen
        BY <1>1, <1>4, <2>1 DEF StartProbe
  <2>2. CASE ~PortOpen
    <3> DEFINE n == [st |-> "loading", port |-> port]
    <3>1. procs' = [procs EXCEPT !["own"] = n] /\ child' = "live"
          BY <1>4, <2>2 DEF StartProbe
    <3>2. n \in [st : ProcStates, port : 0..2]
          BY <1>0 DEF ProcStates
    <3> HIDE DEF n
    <3> QED BY <1>0, <3>1, <3>2 DEF ProcOK, NoOrphan
  <2> QED BY <2>1, <2>2
<1>5. CASE SpawnFails
  <2>1. procs' = [procs EXCEPT !["own"] = NoProc] /\ child' = None
        BY <1>5 DEF SpawnFails
  <2> QED BY <1>0, <2>1, NullsTyped DEF ProcOK, NoOrphan
<1>6. CASE Exit
  <2>1. child = "exited" /\ child' = None /\ procs' = procs
        BY <1>6 DEF Exit
  <2> QED BY <1>0, <2>1 DEF ProcOK, NoOrphan
<1>7. CASE StopRest
      BY <1>2, <1>7 DEF StopRest
<1>8. ASSUME NEW c \in {"stop", "restart"}, Stop(c) PROVE ProcOK'
  <2>1. CASE Connected
    <3>1. /\ child' = child
          /\ procs' = [p \in Procs |->
                 IF socks[ws].st = "open" /\ socks[ws].peer = p /\ procs[p].st = "up"
                   THEN [procs[p] EXCEPT !.st = "ending"] ELSE procs[p]]
          BY <1>8, <2>1 DEF Stop
    <3>2. ASSUME NEW p \in Procs PROVE /\ procs'[p] \in [st : ProcStates, port : 0..2]
                                       /\ procs'[p].st = None => procs[p].st = None
                                       /\ procs[p].st = None => procs'[p].st = None
          BY <1>0, <3>1 DEF ProcStates, None
    <3>3. procs' \in [Procs -> [st : ProcStates, port : 0..2]]
          BY <3>1, <3>2
    <3> QED BY <1>0, <3>1, <3>2, <3>3 DEF ProcOK, NoOrphan
  <2>2. CASE ~Connected
        BY <1>2, <1>8, <2>2 DEF Stop
  <2> QED BY <2>1, <2>2
<1>9. ASSUME NEW p \in Procs, Loaded(p) PROVE ProcOK'
  <2>1. PICK h \in {"up", "deaf"} : procs' = [procs EXCEPT ![p].st = h]
        BY <1>9 DEF Loaded
  <2>2. child' = child /\ procs[p].st = "loading" /\ h \in ProcStates
        BY <1>9 DEF Loaded, ProcStates
  <2>3. procs' \in [Procs -> [st : ProcStates, port : 0..2]]
        BY <1>0, <2>1, <2>2
  <2>4. procs'["own"].st # None => procs["own"].st # None
        BY <1>0, <2>1, <2>2 DEF None
  <2> QED BY <1>0, <2>2, <2>3, <2>4 DEF ProcOK, NoOrphan
<1>10. ASSUME NEW p \in Procs, Ends(p) PROVE ProcOK'
       BY <1>3, <1>10 DEF Ends
<1>11. CASE ByHand
  <2>1. PICK a \in {1, 2} : procs' = [procs EXCEPT !["other"] = [st |-> "loading", port |-> a]] /\ child' = child
        BY <1>11 DEF ByHand
  <2>2. [st |-> "loading", port |-> a] \in [st : ProcStates, port : 0..2]
        BY DEF ProcStates
  <2> QED BY <1>0, <2>1, <2>2 DEF ProcOK, NoOrphan
<1>12. ASSUME NEW s \in Socks, Opens(s) \/ DialFails(s) \/ Closes(s) PROVE ProcOK'
       BY <1>1, <1>12 DEF Opens, DialFails, Closes
<1>13. ASSUME NEW t \in Tasks, AttachProbe(t) \/ AwaitTimeout(t) PROVE ProcOK'
       BY <1>1, <1>13 DEF AttachProbe, AwaitTimeout
<1>14. CASE \/ Reconnect \/ HeartbeatCuts \/ Retry \/ Boot \/ Start \/ Poll \/ StartTimeout
            \/ SetConfig \/ GoesMute \/ UNCHANGED vars
       BY <1>1, <1>14 DEF Reconnect, HeartbeatCuts, Retry, Boot, Start, Poll, StartTimeout, SetConfig,
          GoesMute, vars
<1> QED BY <1>4, <1>5, <1>6, <1>7, <1>8, <1>9, <1>10, <1>11, <1>12, <1>13, <1>14 DEF Next

-----------------------------------------------------------------------------
(* The links, and what has been told of them.                              *)

LinkOK == SocksOK /\ TasksOK /\ WsOK /\ DialUnderWay /\ (Told \/ WillTell)

\* What a step must not disturb for the links to be as they were.
LEMMA LinkRests ==
  ASSUME LinkOK, UNCHANGED <<status, told, tasks, ws, socks, connecting>>
  PROVE  LinkOK'
BY DEF LinkOK, SocksOK, TasksOK, WsOK, DialUnderWay, Told, WillTell, Pending, Connected, State

LEMMA ToldSame ==
  ASSUME Connected' <=> Connected, UNCHANGED <<status, told>>, Told
  PROVE  Told'
<1>1. Connected \in BOOLEAN /\ Connected' \in BOOLEAN
      BY DEF Connected
<1>2. State(status, Connected) = State(status', Connected')
      BY <1>1, StateIs
<1> QED BY <1>2 DEF Told

LEMMA DialLink ==
  ASSUME LinkOK, ExecutorAssumption, port \in {1, 2}, NEW t \in Tasks \cup {None}, Dial(t), told' = told
  PROVE  LinkOK'
<1>1. /\ SocksOK' /\ TasksOK' /\ WsOK' /\ DialUnderWay' /\ (Connected' <=> Connected)
      /\ Connected \/ Pending'
      /\ Pending => Pending'
      BY DialIs DEF LinkOK
<1>2. CASE Pending'
      BY <1>1, <1>2 DEF LinkOK, WillTell
<1>3. CASE ~Pending'
  <2>1. Connected /\ Connected' /\ ~Pending
        BY <1>1, <1>3
  <2>3. Told
        BY <2>1 DEF LinkOK, WillTell
  <2>2. Told'
        BY <2>1, <2>3, ToldConnected
  <2> QED BY <1>1, <2>2 DEF LinkOK
<1> QED BY <1>2, <1>3

\* Tasks change, but a start that waits for its process still does.
LEMMA TasksLink ==
  ASSUME LinkOK, UNCHANGED <<ws, socks, connecting>>, TasksOK',
         \/ UNCHANGED <<status, told>> /\ (tasks["start"].at = "poll" => tasks'["start"].at = "poll")
         \/ told' = State(status', Connected)
  PROVE  LinkOK'
<1>1. Connected' <=> Connected
      BY DEF Connected
<1>2. SocksOK' /\ WsOK' /\ DialUnderWay' /\ (Pending => Pending')
      BY DEF LinkOK, SocksOK, WsOK, DialUnderWay, Pending
<1>3. CASE UNCHANGED <<status, told>> /\ (tasks["start"].at = "poll" => tasks'["start"].at = "poll")
  <2>1. Told => Told'
        BY <1>1, <1>3, ToldSame
  <2>2. WillTell => WillTell'
        BY <1>1, <1>2, <1>3 DEF WillTell
  <2> QED BY <1>2, <2>1, <2>2 DEF LinkOK
<1>4. CASE told' = State(status', Connected)
  <2>1. Connected \in BOOLEAN
        BY DEF Connected
  <2>2. Told'
        BY <1>1, <1>4, <2>1, ToldOfState
  <2> QED BY <1>2, <2>2 DEF LinkOK
<1> QED BY <1>3, <1>4

\* Open links end or go mute: the client does not know.
LEMMA LinksEnd ==
  ASSUME LinkOK, ExecutorAssumption, SocksOK', UNCHANGED <<ws, connecting>>, TasksOK', told' = told,
         \A s \in Socks : \/ socks'[s].st = socks[s].st
                          \/ socks[s].st = "open" /\ socks'[s].st \in {"ended", "mute"},
         \/ status' = status /\ tasks' = tasks
         \/ tasks'["start"].at = "poll"
  PROVE  LinkOK'
<1>1. Connected' <=> Connected
      BY DEF Connected, LinkOK, WsOK
<1>2. WsOK' /\ DialUnderWay' /\ (Pending => Pending')
      BY DEF LinkOK, WsOK, DialUnderWay, Pending
<1>3. CASE Pending'
      BY <1>2, <1>3 DEF LinkOK, WillTell
<1>4. CASE ~Pending' /\ status' = status /\ tasks' = tasks
  <2>1. Told => Told'
        BY <1>1, <1>4, ToldSame
  <2> QED BY <1>1, <1>2, <1>4, <2>1 DEF LinkOK, WillTell
<1>5. CASE ~Pending' /\ tasks'["start"].at = "poll" /\ Connected
  <2>1. Told
        BY <1>2, <1>5 DEF LinkOK, WillTell
  <2>2. Told'
        BY <1>1, <1>5, <2>1, ToldConnected
  <2> QED BY <1>2, <2>2 DEF LinkOK
<1>6. CASE tasks'["start"].at = "poll" /\ ~Connected
      BY <1>1, <1>2, <1>6 DEF LinkOK, WillTell
<1> QED BY <1>3, <1>4, <1>5, <1>6

LEMMA OpensLink ==
  ASSUME LinkOK, ExecutorAssumption, NEW s \in Socks, Opens(s)
  PROVE  LinkOK'
<1>1. PICK p \in Procs : socks' = [socks EXCEPT ![s].st = "open", ![s].peer = p]
      BY DEF Opens
<1>2. /\ connecting' = FALSE /\ ws' = ws /\ status' = "running"
      /\ told' = State("running", ws # None /\ (ws = s \/ Connected))
      /\ tasks' = [t \in Tasks |-> IF tasks[t].on \in {s, Any} THEN Idle ELSE tasks[t]]
      BY DEF Opens
<1>3. SocksOK' /\ socks'[s].st = "open" /\ \A r \in Socks \ {s} : socks'[r] = socks[r]
  <2>1. socks[s] \in Sock /\ "open" \in SockStates
        BY DEF LinkOK, SocksOK, SockStates
  <2>2. socks' \in [Socks -> Sock] /\ socks'[s].st = "open"
        BY <1>1, <2>1 DEF LinkOK, SocksOK, Sock
  <2> QED BY <1>1, <2>2 DEF LinkOK, SocksOK
<1>4. TasksOK'
      BY <1>2, NullsTyped DEF LinkOK, TasksOK
<1>5. Connected' <=> (ws # None /\ (ws = s \/ Connected))
      BY <1>2, <1>3 DEF Connected, LinkOK, WsOK
<1>6. (ws # None /\ (ws = s \/ Connected)) \in BOOLEAN
      OBVIOUS
<1>7. Told'
      BY <1>2, <1>5, <1>6, ToldOfState
<1> QED BY <1>2, <1>3, <1>4, <1>7 DEF LinkOK, WsOK, DialUnderWay

LEMMA ClosedLink ==
  ASSUME LinkOK, ExecutorAssumption, NEW s \in Socks, Closed(s), TasksOK',
         \/ Disconnected(s)
         \/ status' = "stopped" /\ told' = State("stopped", Connected /\ ws # s)
  PROVE  LinkOK'
<1>1. SocksOK' /\ WsOK' /\ DialUnderWay'
      BY ClosedIs DEF LinkOK
<1>2. told' = State(status', Connected /\ ws # s)
      BY DEF Disconnected
<1>3. Told'
      BY <1>2, ToldOnClose DEF LinkOK
<1> QED BY <1>1, <1>3 DEF LinkOK

LEMMA LinkStep ==
  ASSUME LinkOK, TypeOK, ExecutorAssumption, [Next]_vars
  PROVE  LinkOK'
<1>0. /\ port \in {1, 2} /\ TasksOK /\ SocksOK /\ WsOK /\ DialUnderWay
      /\ "start" \in Tasks /\ "attach" \in Tasks /\ "retry" \in Tasks
      BY DEF LinkOK, TypeOK, Tasks
<1>1. /\ [at |-> "probe", on |-> None] \in Task /\ [at |-> "poll", on |-> None] \in Task
      /\ Idle \in Task
      BY NullsTyped DEF Task
<1>2. CASE Reconnect
      BY <1>0, <1>2, DialLink DEF Reconnect
<1>3. CASE HeartbeatCuts
  <2>1. ws \in Socks /\ Closed(ws) /\ Disconnected(ws) /\ tasks' = tasks
        BY <1>0, <1>3 DEF HeartbeatCuts, Mute, WsOK
  <2>2. TasksOK'
        BY <1>0, <2>1 DEF TasksOK
  <2> QED BY <2>1, <2>2, ClosedLink
<1>4. ASSUME NEW t \in {"attach", "retry"}, tasks' = [tasks EXCEPT ![t] = [at |-> "probe", on |-> None]],
             UNCHANGED <<status, told, ws, socks, connecting>>
      PROVE  LinkOK'
  <2>1. TasksOK' /\ tasks'["start"] = tasks["start"]
        BY <1>0, <1>1, <1>4 DEF TasksOK
  <2> QED BY <1>4, <2>1, TasksLink
<1>5. CASE Retry
      BY <1>4, <1>5, LinkRests DEF Retry, Attach, rpc
<1>6. CASE Boot
      BY <1>4, <1>6 DEF Boot, Attach, rpc
<1>7. CASE Start
  <2>1. tasks' = Begin /\ UNCHANGED <<status, told, ws, socks, connecting>>
        BY <1>7 DEF Start, rpc
  <2>2. Begin = tasks \/ (tasks["start"].at = "idle" /\ Begin = [tasks EXCEPT !["start"] = [at |-> "probe", on |-> None]])
        BY DEF Begin
  <2>3. TasksOK'
        BY <1>0, <1>1, <2>1, <2>2 DEF TasksOK
  <2>4. tasks["start"].at = "poll" => tasks'["start"].at = "poll"
        BY <2>1, <2>2
  <2> QED BY <2>1, <2>3, <2>4, TasksLink
<1>8. CASE StartProbe
  <2>1. CASE PortOpen
        BY <1>0, <1>8, <2>1, DialLink DEF StartProbe
  <2>2. CASE ~PortOpen
    <3>1. /\ tasks' = [tasks EXCEPT !["start"] = [at |-> "poll", on |-> None]]
          /\ socks' = Without("own") /\ UNCHANGED <<told, ws, connecting>>
          BY <1>8, <2>2 DEF StartProbe
    <3>2. TasksOK' /\ tasks'["start"].at = "poll"
          BY <1>0, <1>1, <3>1 DEF TasksOK
    <3>3. /\ SocksOK'
          /\ \A s \in Socks : \/ socks'[s].st = socks[s].st
                              \/ socks[s].st = "open" /\ socks'[s].st \in {"ended", "mute"}
          BY <1>0, <3>1, WithoutIs DEF SocksOK
    <3> QED BY <3>1, <3>2, <3>3, LinksEnd
  <2> QED BY <2>1, <2>2
<1>9. ASSUME UNCHANGED <<tasks, ws, socks, connecting>>, told' = State(status', Connected)
      PROVE  LinkOK'
  <2>1. TasksOK'
        BY <1>0, <1>9 DEF TasksOK
  <2> QED BY <1>9, <2>1, TasksLink
<1>10. CASE SpawnFails
  <2>1. UNCHANGED <<tasks, ws, socks, connecting>> /\ told' = State(status', Connected)
        BY <1>10 DEF SpawnFails, rpc
  <2> QED BY <1>9, <2>1
<1>11. CASE Poll
       BY <1>0, <1>11, DialLink DEF Poll
<1>12. CASE StartTimeout
  <2>1. /\ tasks' = [tasks EXCEPT !["start"] = Idle] /\ UNCHANGED <<ws, socks, connecting>>
        /\ told' = State(status', Connected)
        BY <1>12 DEF StartTimeout, rpc
  <2>2. TasksOK'
        BY <1>0, <1>1, <2>1 DEF TasksOK
  <2> QED BY <2>1, <2>2, TasksLink
<1>13. CASE Exit
  <2>1. UNCHANGED <<tasks, ws, socks, connecting>> /\ told' = State(status', Connected)
        BY <1>13 DEF Exit, rpc
  <2> QED BY <1>9, <2>1
<1>14. ASSUME NEW c, EndStop(c) PROVE LinkOK'
       BY <1>0, <1>14, EndStopIs DEF LinkOK
<1>15. CASE StopRest
       BY <1>14, <1>15 DEF StopRest
<1>16. ASSUME NEW c \in {"stop", "restart"}, Stop(c) PROVE LinkOK'
       BY <1>14, <1>16, LinkRests DEF Stop, cpp, rpc
<1>17. CASE SetConfig
  <2>1. CASE Connected
    <3>1. /\ tasks' = [tasks EXCEPT !["attach"] = [at |-> "probe", on |-> None]]
          /\ socks' = Cut(socks) /\ ws' = None /\ connecting' = connecting
          BY <1>17, <2>1 DEF SetConfig
    <3>2. ws \in Socks /\ socks[ws].st # "dialing"
          BY <1>0, <2>1 DEF Connected, WsOK
    <3>3. /\ socks' \in [Socks -> Sock] /\ socks'[ws].st = "closing"
          /\ \A s \in Socks : s # ws => socks'[s] = socks[s]
          BY <1>0, <3>1, <3>2, CutIs DEF SocksOK
    <3>4. Pending'
          BY <3>2, <3>3 DEF Pending
    <3>5. DialUnderWay'
          BY <1>0, <3>1, <3>2, <3>3 DEF DialUnderWay
    <3>6. TasksOK'
          BY <1>0, <1>1, <3>1 DEF TasksOK
    <3> QED BY <3>1, <3>3, <3>4, <3>5, <3>6 DEF LinkOK, SocksOK, WsOK, WillTell
  <2>2. CASE ~Connected
        BY <1>17, <2>2, LinkRests DEF SetConfig
  <2> QED BY <2>1, <2>2
<1>18. ASSUME NEW t \in Tasks, AttachProbe(t) PROVE LinkOK'
  <2>1. CASE PortOpen
        BY <1>0, <1>18, <2>1, DialLink DEF AttachProbe
  <2>2. CASE ~PortOpen
    <3>1. /\ tasks' = [tasks EXCEPT ![t] = Idle] /\ t # "start"
          /\ UNCHANGED <<status, told, ws, socks, connecting>>
          BY <1>18, <2>2 DEF AttachProbe
    <3>2. TasksOK' /\ tasks'["start"] = tasks["start"]
          BY <1>0, <1>1, <3>1 DEF TasksOK
    <3> QED BY <3>1, <3>2, TasksLink
  <2> QED BY <2>1, <2>2
<1>19. ASSUME NEW t \in Tasks, AwaitTimeout(t) PROVE LinkOK'
  <2>1. /\ tasks[t].on = Any /\ tasks' = [tasks EXCEPT ![t] = Idle] /\ UNCHANGED <<ws, socks, connecting>>
        BY <1>19 DEF AwaitTimeout, rpc
  <2>2. TasksOK'
        BY <1>0, <1>1, <2>1 DEF TasksOK
  <2>3. CASE t = "start"
    <3>1. tasks["start"] \in Task /\ Any # None
          BY <1>0 DEF TasksOK, Any, None
    <3>2. tasks["start"].at # "poll"
          BY <2>1, <2>3, <3>1 DEF Task
    <3> QED BY <1>19, <2>1, <2>2, <2>3, <3>2, TasksLink DEF AwaitTimeout
  <2>4. CASE t # "start"
    <3>1. told' = State(status', Connected)
          BY <1>19, <2>4 DEF AwaitTimeout
    <3> QED BY <2>1, <2>2, <3>1, TasksLink
  <2> QED BY <2>3, <2>4
<1>20. ASSUME NEW s \in Socks, Opens(s) PROVE LinkOK'
       BY <1>20, OpensLink
<1>21. ASSUME NEW s \in Socks, DialFails(s) PROVE LinkOK'
  <2>1. TasksOK'
        BY <1>0, <1>21, RejectedTyped DEF DialFails, TasksOK
  <2>2. Closed(s) /\ (Disconnected(s) \/ (status' = "stopped" /\ told' = State("stopped", Connected /\ ws # s)))
        BY <1>21 DEF DialFails
  <2> QED BY <2>1, <2>2, ClosedLink
<1>22. ASSUME NEW s \in Socks, Closes(s) PROVE LinkOK'
  <2>1. TasksOK' /\ Closed(s) /\ Disconnected(s)
        BY <1>0, <1>22 DEF Closes, TasksOK
  <2> QED BY <2>1, ClosedLink
<1>23. ASSUME NEW p \in Procs, Loaded(p) PROVE LinkOK'
       BY <1>23, LinkRests DEF Loaded, cpp, rpc
<1>24. ASSUME NEW p \in Procs, Ends(p) PROVE LinkOK'
  <2>1. socks' = Without(p) /\ UNCHANGED <<status, told, tasks, ws, connecting>>
        BY <1>24 DEF Ends, cpp
  <2>2. /\ SocksOK' /\ TasksOK'
        /\ \A s \in Socks : \/ socks'[s].st = socks[s].st
                            \/ socks[s].st = "open" /\ socks'[s].st \in {"ended", "mute"}
        BY <1>0, <2>1, WithoutIs DEF SocksOK, TasksOK
  <2> QED BY <2>1, <2>2, LinksEnd
<1>25. CASE ByHand
       BY <1>25, LinkRests DEF ByHand, cpp, rpc
<1>26. CASE GoesMute
  <2>1. PICK s \in Socks : /\ socks[s].st = "open"
                           /\ socks' = [socks EXCEPT ![s].st = "mute", ![s].peer = None]
        BY <1>26 DEF GoesMute
  <2>2. UNCHANGED <<status, told, tasks, ws, connecting>>
        BY <1>26 DEF GoesMute, cpp
  <2>3. socks[s] \in Sock /\ "mute" \in SockStates
        BY <1>0 DEF SocksOK, SockStates
  <2>4. socks' \in [Socks -> Sock] /\ socks'[s].st = "mute" /\ \A r \in Socks \ {s} : socks'[r] = socks[r]
        BY <1>0, <2>1, <2>3 DEF SocksOK, Sock
  <2>5. TasksOK'
        BY <1>0, <2>2 DEF TasksOK
  <2> QED BY <2>1, <2>2, <2>4, <2>5, LinksEnd DEF SocksOK
<1>27. CASE UNCHANGED vars
       BY <1>27, LinkRests DEF vars, cpp, rpc
<1> QED BY <1>2, <1>3, <1>5, <1>6, <1>7, <1>8, <1>10, <1>11, <1>12, <1>13, <1>15, <1>16, <1>17,
           <1>18, <1>19, <1>20, <1>21, <1>22, <1>23, <1>24, <1>25, <1>26, <1>27 DEF Next

-----------------------------------------------------------------------------
(* The rest of the types, and the bounds.                                  *)

RestOK ==
  /\ status \in Statuses /\ told \in [status : Statuses, connected : BOOLEAN]
  /\ stopping \in {None, "stop", "restart"} /\ port \in {1, 2}

LEMMA RestStep ==
  ASSUME TypeOK, TasksOK, ExecutorAssumption, [Next]_vars
  PROVE  RestOK'
<1>0. /\ status \in Statuses /\ told \in [status : Statuses, connected : BOOLEAN]
      /\ stopping \in {None, "stop", "restart"} /\ port \in {1, 2}
      BY TypeParts
<1>1. \A b \in BOOLEAN, u \in Statuses : State(u, b) \in [status : Statuses, connected : BOOLEAN]
      BY StateTyped
<1>2. "running" \in Statuses /\ "stopped" \in Statuses /\ "error" \in Statuses /\ "starting" \in Statuses
      BY DEF Statuses
<1>3. Connected \in BOOLEAN
      BY DEF Connected
<1>4. ASSUME UNCHANGED <<status, told, stopping, port>> PROVE RestOK'
      BY <1>0, <1>4 DEF RestOK
<1>5. ASSUME NEW b \in BOOLEAN, status' \in Statuses, told' = State(status', b), UNCHANGED <<stopping, port>>
      PROVE  RestOK'
      BY <1>0, <1>1, <1>5 DEF RestOK
<1>6. ASSUME NEW s, Disconnected(s), UNCHANGED <<stopping, port>> PROVE RestOK'
  <2>1. (Connected /\ ws # s) \in BOOLEAN
        BY <1>3
  <2>2. status' \in Statuses /\ told' = State(status', Connected /\ ws # s)
        BY <1>2, <1>6 DEF Disconnected
  <2> QED BY <1>5, <1>6, <2>1, <2>2
<1>7. ASSUME NEW c, EndStop(c), port' = port, stopping' \in {stopping, None} PROVE RestOK'
  <2>1. status' = "stopped" /\ told' = State("stopped", FALSE)
        BY <1>7 DEF EndStop
  <2> QED BY <1>0, <1>1, <1>2, <1>7, <2>1 DEF RestOK
<1>8. ASSUME told' = told, status' \in Statuses, UNCHANGED <<stopping>>, port' \in {1, 2} PROVE RestOK'
      BY <1>0, <1>8 DEF RestOK
<1>9. CASE \/ Reconnect \/ Retry \/ Boot \/ Start \/ Poll \/ ByHand \/ GoesMute \/ UNCHANGED vars
           \/ \E p \in Procs : Loaded(p) \/ Ends(p)
      BY <1>4, <1>9 DEF Reconnect, Retry, Boot, Start, Poll, ByHand, GoesMute, Loaded, Ends, vars, cpp
<1>10. CASE HeartbeatCuts \/ \E s \in Socks : Closes(s)
       BY <1>6, <1>10 DEF HeartbeatCuts, Closes
<1>11. CASE SpawnFails \/ StartTimeout \/ Exit
       BY <1>2, <1>3, <1>5, <1>11 DEF SpawnFails, StartTimeout, Exit
<1>12. CASE StartProbe
  <2>1. told' = told /\ status' = "starting" /\ UNCHANGED <<stopping, port>>
        BY <1>12 DEF StartProbe
  <2> QED BY <1>0, <1>2, <1>8, <2>1
<1>13. CASE StopRest
       BY <1>7, <1>13 DEF StopRest
<1>14. ASSUME NEW c \in {"stop", "restart"}, Stop(c) PROVE RestOK'
  <2>1. CASE Connected
        BY <1>0, <1>14, <2>1 DEF Stop, cpp, RestOK
  <2>2. CASE ~Connected
        BY <1>7, <1>14, <2>2 DEF Stop
  <2> QED BY <2>1, <2>2
<1>15. CASE SetConfig
  <2>1. told' = told /\ status' \in {status, "stopped"} /\ stopping' = stopping
        BY <1>15 DEF SetConfig
  <2>2. port' \in {1, 2}
        BY <1>0, <1>15 DEF SetConfig
  <2> QED BY <1>0, <1>2, <1>8, <2>1, <2>2
<1>16. ASSUME NEW t \in Tasks, AttachProbe(t) PROVE RestOK'
  <2>1. told' = told /\ status' \in {status, "starting"} /\ UNCHANGED <<stopping, port>>
        BY <1>16 DEF AttachProbe
  <2> QED BY <1>0, <1>2, <1>8, <2>1
<1>17. ASSUME NEW t \in Tasks, AwaitTimeout(t) PROVE RestOK'
       BY <1>2, <1>3, <1>4, <1>5, <1>17 DEF AwaitTimeout
<1>18. ASSUME NEW s \in Socks, Opens(s) PROVE RestOK'
  <2>1. (ws # None /\ (ws = s \/ Connected)) \in BOOLEAN
        OBVIOUS
  <2>2. /\ status' = "running" /\ UNCHANGED <<stopping, port>>
        /\ told' = State("running", ws # None /\ (ws = s \/ Connected))
        BY <1>18 DEF Opens
  <2> QED BY <1>2, <1>5, <2>1, <2>2
<1>19. ASSUME NEW s \in Socks, DialFails(s) PROVE RestOK'
  <2>1. CASE AttachFails(s)
    <3>1. /\ status' = "stopped" /\ told' = State("stopped", Connected /\ ws # s)
          /\ UNCHANGED <<stopping, port>>
          BY <1>19, <2>1 DEF DialFails
    <3>2. (Connected /\ ws # s) \in BOOLEAN
          BY <1>3
    <3> QED BY <1>2, <1>5, <3>1, <3>2
  <2>2. CASE ~AttachFails(s)
        BY <1>6, <1>19, <2>2 DEF DialFails
  <2> QED BY <2>1, <2>2
<1> QED BY <1>9, <1>10, <1>11, <1>12, <1>13, <1>14, <1>15, <1>16, <1>17, <1>18, <1>19 DEF Next

FlagsOK == {connecting, manual, rtimer, atimer, beating} \subseteq BOOLEAN

LEMMA FlagsStep ==
  ASSUME TypeOK, [Next]_vars
  PROVE  FlagsOK'
<1>0. /\ connecting \in BOOLEAN /\ manual \in BOOLEAN /\ rtimer \in BOOLEAN
      /\ atimer \in BOOLEAN /\ beating \in BOOLEAN
      BY DEF TypeOK
<1>1. SUFFICES /\ connecting' \in BOOLEAN /\ manual' \in BOOLEAN /\ rtimer' \in BOOLEAN
               /\ atimer' \in BOOLEAN /\ beating' \in BOOLEAN
      BY DEF FlagsOK
<1>2. ASSUME NEW t, Dial(t) PROVE connecting' \in BOOLEAN /\ manual' \in BOOLEAN
      BY <1>0, <1>2 DEF Dial
<1>3. ASSUME NEW s, Closed(s) PROVE connecting' \in BOOLEAN /\ rtimer' \in BOOLEAN /\ beating' \in BOOLEAN
      BY <1>0, <1>3 DEF Closed
<1>4. ASSUME NEW c, EndStop(c)
      PROVE  /\ connecting' \in BOOLEAN /\ manual' \in BOOLEAN /\ rtimer' \in BOOLEAN
             /\ atimer' \in BOOLEAN /\ beating' \in BOOLEAN
      BY <1>0, <1>4 DEF EndStop
<1>5. CASE \/ Boot \/ Start \/ SpawnFails \/ StartTimeout \/ Exit \/ ByHand \/ GoesMute
           \/ UNCHANGED vars \/ \E p \in Procs : Loaded(p) \/ Ends(p)
      BY <1>0, <1>5 DEF Boot, Start, SpawnFails, StartTimeout, Exit, ByHand, GoesMute, Loaded, Ends, vars, cpp, rpc
<1>6. CASE Reconnect \/ Poll \/ \E t \in Tasks : AttachProbe(t)
      BY <1>0, <1>2, <1>6 DEF Reconnect, Poll, AttachProbe
<1>7. CASE StartProbe
      BY <1>0, <1>2, <1>7 DEF StartProbe
<1>8. CASE Retry
      BY <1>0, <1>8 DEF Retry, rpc
<1>9. CASE HeartbeatCuts
      BY <1>0, <1>3, <1>9 DEF HeartbeatCuts
<1>10. ASSUME NEW s \in Socks, Opens(s)
       PROVE  /\ connecting' \in BOOLEAN /\ manual' \in BOOLEAN /\ rtimer' \in BOOLEAN
              /\ atimer' \in BOOLEAN /\ beating' \in BOOLEAN
       BY <1>0, <1>10 DEF Opens
<1>11. ASSUME NEW s \in Socks, DialFails(s) \/ Closes(s)
       PROVE  /\ connecting' \in BOOLEAN /\ manual' \in BOOLEAN /\ rtimer' \in BOOLEAN
              /\ atimer' \in BOOLEAN /\ beating' \in BOOLEAN
       BY <1>0, <1>3, <1>11 DEF DialFails, Closes
<1>12. CASE StopRest \/ \E c \in {"stop", "restart"} : Stop(c)
       BY <1>0, <1>4, <1>12 DEF StopRest, Stop, cpp, rpc
<1>13. CASE SetConfig
       BY <1>0, <1>13 DEF SetConfig
<1>14. ASSUME NEW t \in Tasks, AwaitTimeout(t)
       PROVE  /\ connecting' \in BOOLEAN /\ manual' \in BOOLEAN /\ rtimer' \in BOOLEAN
              /\ atimer' \in BOOLEAN /\ beating' \in BOOLEAN
       BY <1>0, <1>14 DEF AwaitTimeout, rpc
<1> QED BY <1>5, <1>6, <1>7, <1>8, <1>9, <1>10, <1>11, <1>12, <1>13, <1>14 DEF Next

BoundsOK ==
  /\ commands \in 0..MaxCommands /\ faults \in 0..MaxFaults /\ cuts \in 0..2 * MaxCommands
  /\ CutsPaidFor

LEMMA BoundsStep ==
  ASSUME TypeOK, CutsPaidFor, ExecutorAssumption, [Next]_vars
  PROVE  BoundsOK'
<1>0. /\ commands \in 0..MaxCommands /\ faults \in 0..MaxFaults /\ cuts \in Nat
      /\ MaxCommands \in Nat /\ MaxFaults \in Nat /\ stopping \in {None, "stop", "restart"}
      /\ cuts <= commands /\ (stopping # None => cuts < commands)
      BY DEF TypeOK, CutsPaidFor, ExecutorAssumption
<1>1. ASSUME NEW c \in Nat, NEW d \in Nat, c \in 0..MaxCommands, d <= c PROVE d \in 0..2 * MaxCommands
      BY <1>0, <1>1
<1>2. ASSUME commands' \in 0..MaxCommands, faults' \in 0..MaxFaults, cuts' \in Nat, cuts' <= commands',
             stopping' # None => cuts' < commands'
      PROVE  BoundsOK'
  <2>1. cuts' \in 0..2 * MaxCommands
        BY <1>1, <1>2
  <2> QED BY <1>2, <2>1 DEF BoundsOK, CutsPaidFor
<1>3. ASSUME UNCHANGED <<stopping, commands, cuts>>, faults' \in 0..MaxFaults PROVE BoundsOK'
      BY <1>0, <1>2, <1>3
<1>4. ASSUME Command, UNCHANGED <<faults, stopping>>, cuts' \in {cuts, cuts + 1} PROVE BoundsOK'
  <2>1. commands' = commands + 1 /\ commands' \in 0..MaxCommands
        BY <1>0, <1>4 DEF Command
  <2>2. cuts' \in Nat /\ cuts' <= commands' /\ (stopping # None => cuts' < commands')
        BY <1>0, <1>4, <2>1
  <2> QED BY <1>0, <1>2, <1>4, <2>1, <2>2
<1>5. CASE \/ Reconnect \/ HeartbeatCuts \/ Retry \/ StartProbe \/ SpawnFails \/ Poll \/ StartTimeout \/ Exit
           \/ UNCHANGED vars
      BY <1>0, <1>3, <1>5 DEF Reconnect, HeartbeatCuts, Retry, StartProbe, SpawnFails, Poll, StartTimeout, Exit,
         vars, bounds
<1>6. CASE Boot \/ Start \/ ByHand
      BY <1>4, <1>6 DEF Boot, Start, ByHand
<1>7. CASE SetConfig
      BY <1>4, <1>7 DEF SetConfig
<1>8. CASE StopRest
  <2>1. /\ stopping # None /\ stopping' = None /\ cuts' = cuts + 1 /\ commands' = commands /\ faults' = faults
        BY <1>8 DEF StopRest
  <2>2. cuts' \in Nat /\ cuts' <= commands'
        BY <1>0, <2>1
  <2> QED BY <1>0, <1>2, <2>1, <2>2
<1>9. ASSUME NEW c \in {"stop", "restart"}, Stop(c) PROVE BoundsOK'
  <2>1. CASE Connected
    <3>1. stopping = None /\ Command /\ cuts' = cuts /\ faults' = faults
          BY <1>9, <2>1 DEF Stop
    <3>2. commands' = commands + 1 /\ commands' \in 0..MaxCommands
          BY <1>0, <3>1 DEF Command
    <3>3. cuts' < commands' /\ cuts' <= commands' /\ cuts' \in Nat
          BY <1>0, <3>1, <3>2
    <3> QED BY <1>0, <1>2, <3>1, <3>2, <3>3
  <2>2. CASE ~Connected
        BY <1>4, <1>9, <2>2 DEF Stop
  <2> QED BY <2>1, <2>2
<1>10. CASE GoesMute
  <2>1. faults' = faults + 1 /\ faults < MaxFaults
        BY <1>10 DEF GoesMute
  <2>2. faults' \in 0..MaxFaults
        BY <1>0, <2>1
  <2> QED BY <1>3, <1>10, <2>2 DEF GoesMute
<1>11. ASSUME NEW p \in Procs, Loaded(p) PROVE BoundsOK'
       BY <1>0, <1>3, <1>11 DEF Loaded, bounds
<1>12. ASSUME NEW p \in Procs, Ends(p) PROVE BoundsOK'
  <2>1. faults' = faults \/ (faults' = faults + 1 /\ faults < MaxFaults)
        BY <1>12 DEF Ends
  <2>2. faults' \in 0..MaxFaults
        BY <1>0, <2>1
  <2> QED BY <1>3, <1>12, <2>2 DEF Ends
<1>13. ASSUME NEW t \in Tasks, AttachProbe(t) \/ AwaitTimeout(t) PROVE BoundsOK'
       BY <1>0, <1>3, <1>13 DEF AttachProbe, AwaitTimeout, bounds
<1>14. ASSUME NEW s \in Socks, Opens(s) \/ DialFails(s) \/ Closes(s) PROVE BoundsOK'
       BY <1>0, <1>3, <1>14 DEF Opens, DialFails, Closes, bounds
<1> QED BY <1>5, <1>6, <1>7, <1>8, <1>9, <1>10, <1>11, <1>12, <1>13, <1>14 DEF Next

-----------------------------------------------------------------------------
(* The theorems.                                                           *)

LEMMA InvIsParts ==
  IInv <=> ProcOK /\ LinkOK /\ RestOK /\ FlagsOK /\ BoundsOK
BY TypeParts DEF IInv, ProcOK, LinkOK, RestOK, FlagsOK, BoundsOK

LEMMA InitIsInv == ASSUME ExecutorAssumption, Init PROVE IInv
<1>1. ProcOK
  <2>1. procs \in [Procs -> [st : ProcStates, port : 0..2]] /\ procs["own"].st = None /\ child = None
        BY NullsTyped DEF Init, Procs
  <2> QED BY <2>1 DEF ProcOK, NoOrphan
<1>2. LinkOK
  <2>1. SocksOK /\ TasksOK /\ WsOK /\ DialUnderWay
        BY NullsTyped DEF Init, SocksOK, TasksOK, WsOK, DialUnderWay
  <2>2. status = "stopped" /\ ~Connected /\ told = State("stopped", FALSE)
        BY DEF Init, Connected
  <2>3. Connected \in BOOLEAN
        BY DEF Connected
  <2>4. State(status, Connected) = State("stopped", FALSE)
        BY <2>2, <2>3, StateIs
  <2>5. Told
        BY <2>2, <2>4 DEF Told
  <2> QED BY <2>1, <2>5 DEF LinkOK
<1>3. RestOK
  <2>1. "stopped" \in Statuses
        BY DEF Statuses
  <2> QED BY <2>1, StateTyped DEF Init, RestOK
<1>4. FlagsOK
      BY DEF Init, FlagsOK
<1>5. BoundsOK
      BY DEF Init, BoundsOK, CutsPaidFor, ExecutorAssumption
<1> QED BY <1>1, <1>2, <1>3, <1>4, <1>5, InvIsParts

LEMMA StepKeepsInv == ASSUME ExecutorAssumption, IInv, [Next]_vars PROVE IInv'
<1>1. TypeOK /\ TasksOK /\ NoOrphan /\ CutsPaidFor /\ DialUnderWay /\ LinkOK
      BY InvIsParts DEF IInv
<1>2. ProcOK' /\ LinkOK' /\ RestOK' /\ FlagsOK' /\ BoundsOK'
      BY <1>1, ProcOKStep, LinkStep, RestStep, FlagsStep, BoundsStep
<1>3. TypeOK' /\ TasksOK'
      BY <1>2, TypeParts, PTL DEF ProcOK, LinkOK, RestOK, FlagsOK, BoundsOK
<1> QED BY <1>2, <1>3 DEF IInv, ProcOK, LinkOK, BoundsOK

\* The inductive invariant holds in every state of the client of an executor
\* (cpp/client.ts, core/rpc.ts), whoever starts, stops and ends what.
THEOREM Invariance == Spec => []IInv
<1>1. Init => IInv
      BY ExecutorAssumption, InitIsInv
<1>2. IInv /\ [Next]_vars => IInv'
      BY ExecutorAssumption, StepKeepsInv
<1> QED BY <1>1, <1>2, PTL DEF Spec

LEMMA InvIsSafe == IInv => ExecutorSafe
<1> SUFFICES ASSUME IInv PROVE ExecutorSafe
    OBVIOUS
<1>1. TypeOK /\ NoOrphan
      BY DEF IInv
<1>2. BadgeTrue
  <2>1. SUFFICES ASSUME Quiet PROVE Told
        BY DEF BadgeTrue, Told
  <2>2. ~Pending
        BY <2>1 DEF Quiet, Pending, None
  <2>3. tasks["start"].at # "poll"
        BY <2>1 DEF Quiet, Tasks
  <2> QED BY <2>2, <2>3 DEF IInv, WillTell
<1> QED BY <1>1, <1>2 DEF ExecutorSafe

\* However stops, restarts, starts and attaches meet with dials, exits and
\* timers: a process the service has spawned is the child it can kill
\* (doStart(), stop(), `exit'), and when nothing is under way the badge of the
\* page is what emitState() would tell now.
THEOREM ExecutorCorrect == Spec => []ExecutorSafe
BY Invariance, InvIsSafe, PTL
-----------------------------------------------------------------------------
(* The server of the pages.  Its inductive invariant: the tables.          *)

NetStates == {"none", "connecting", "open", "half", "closed"}
NetOK     == net \in [H!Conns -> NetStates]
TablesOK  ==
  /\ peers \in [H!Conns -> H!Kinds \cup {"none"}] /\ byKind \in [H!Kinds -> SUBSET H!Conns]
  /\ \A c \in H!Conns, k \in H!Kinds : c \in byKind[k] <=> peers[c] = k
SignsOK   == alive \subseteq H!Conns

\* Nobody is in the tables before it has joined, and whoever is connected is.
Entered == \A c \in H!Conns : /\ net[c] \in {"none", "connecting"} => peers[c] = "none"
                              /\ net[c] = "open" => peers[c] # "none"

ServerOK == NetOK /\ TablesOK /\ SignsOK /\ Entered

LEMMA KindsAre == H!Kinds = {"webui", "plugin"} /\ "none" \notin H!Kinds
BY DEF H!Kinds

\* Joining and leaving keep the tables in step, and move nobody else.
LEMMA JoinsKeeps ==
  ASSUME TablesOK, SignsOK, NEW c \in H!Conns, peers[c] = "none", H!Joins(c)
  PROVE  /\ TablesOK' /\ SignsOK' /\ peers'[c] # "none"
         /\ \A d \in H!Conns \ {c} : peers'[d] = peers[d]
<1>1. /\ peers' = [peers EXCEPT ![c] = "webui"]
      /\ byKind' = [byKind EXCEPT !["webui"] = @ \cup {c}]
      BY DEF H!Joins
<1>2. /\ peers' \in [H!Conns -> H!Kinds \cup {"none"}] /\ peers'[c] = "webui"
      /\ \A d \in H!Conns \ {c} : peers'[d] = peers[d]
      BY <1>1, KindsAre DEF TablesOK
<1>3. /\ byKind' \in [H!Kinds -> SUBSET H!Conns] /\ byKind'["webui"] = byKind["webui"] \cup {c}
      /\ byKind'["plugin"] = byKind["plugin"]
      BY <1>1, KindsAre DEF TablesOK
<1>4. \A d \in H!Conns, k \in H!Kinds : d \in byKind'[k] <=> peers'[d] = k
      BY <1>2, <1>3, KindsAre DEF TablesOK
<1>5. SignsOK'
      BY DEF H!Joins, SignsOK
<1> QED BY <1>2, <1>3, <1>4, <1>5 DEF TablesOK

LEMMA LeaveKeeps ==
  ASSUME TablesOK, NEW cs \in SUBSET H!Conns, H!Leave(cs)
  PROVE  TablesOK' /\ \A d \in H!Conns : peers'[d] = IF d \in cs THEN "none" ELSE peers[d]
<1>1. /\ peers' = [c \in H!Conns |-> IF c \in cs THEN "none" ELSE peers[c]]
      /\ byKind' = [k \in H!Kinds |-> byKind[k] \ cs]
      BY DEF H!Leave
<1>2. peers' \in [H!Conns -> H!Kinds \cup {"none"}] /\ byKind' \in [H!Kinds -> SUBSET H!Conns]
      BY <1>1 DEF TablesOK
<1>3. \A d \in H!Conns, k \in H!Kinds : d \in byKind'[k] <=> peers'[d] = k
      BY <1>1, KindsAre DEF TablesOK
<1> QED BY <1>1, <1>2, <1>3 DEF TablesOK

LEMMA DeclaresKeeps ==
  ASSUME TablesOK, NEW c \in H!Conns, NEW kind \in H!Kinds, H!Declares(c, kind)
  PROVE  TablesOK' /\ peers'[c] = kind /\ \A d \in H!Conns \ {c} : peers'[d] = peers[d]
<1>1. /\ peers' = [peers EXCEPT ![c] = kind]
      /\ byKind' = [k \in H!Kinds |-> IF k = kind THEN byKind[k] \cup {c} ELSE byKind[k] \ {c}]
      BY DEF H!Declares
<1>2. /\ peers' \in [H!Conns -> H!Kinds \cup {"none"}] /\ byKind' \in [H!Kinds -> SUBSET H!Conns]
      /\ peers'[c] = kind /\ \A d \in H!Conns \ {c} : peers'[d] = peers[d]
      BY <1>1 DEF TablesOK
<1>3. \A d \in H!Conns, k \in H!Kinds : d \in byKind'[k] <=> peers'[d] = k
      BY <1>1 DEF TablesOK
<1> QED BY <1>1, <1>2, <1>3 DEF TablesOK

\* What connect() does to a socket.
LEMMA ConnectsDials ==
  ASSUME NetOK, H!Connects
  PROVE  /\ NetOK'
         /\ \/ UNCHANGED <<net, cur, left>>
            \/ \E c \in Pages : /\ peers[c] = "none" /\ cur' = c /\ net'[c] = "connecting"
                                /\ left' = left \cup ({cur} \ {None})
                                /\ \A d \in H!Conns \ {c} : net'[d] = net[d]
                                /\ ~H!IsOpen /\ (cur = None \/ net[cur] # "connecting")
<1>1. CASE UNCHANGED <<net, cur, left>>
      BY <1>1 DEF NetOK
<1>2. CASE ~(UNCHANGED <<net, cur, left>>)
  <2>1. /\ ~H!IsOpen /\ (cur = None \/ net[cur] # "connecting")
        /\ left' = left \cup ({cur} \ {None})
        /\ \E c \in Pages : H!Unused(c) /\ cur' = c /\ net' = [net EXCEPT ![c] = "connecting"]
        BY <1>2 DEF H!Connects, None, H!None
  <2>2. PICK c \in Pages : H!Unused(c) /\ cur' = c /\ net' = [net EXCEPT ![c] = "connecting"]
        BY <2>1
  <2>3. c \in H!Conns /\ peers[c] = "none"
        BY <2>2 DEF H!Unused, H!Conns
  <2> QED BY <2>1, <2>2, <2>3 DEF NetOK, NetStates
<1> QED BY <1>1, <1>2

-----------------------------------------------------------------------------
(* The page, and what is under way between it and the server.              *)

CallsOK == call \in [Calls -> {"idle", "waits", "pending"}]
\* Where the page is; it is on the machine of the service.
PlaceOK ==
  /\ cur \in Pages \cup {None} /\ left \subseteq Pages /\ declaring \subseteq Pages
  /\ \A c \in H!Conns : net[c] = "half" => c \in Others
  /\ cur # None => net[cur] # "none"
BoxesOK ==
  /\ inbox \in [H!Conns -> Seq(H!Kinds \cup Calls)] /\ outbox \in [H!Conns -> SUBSET Calls]

\* What a call waits for, on the socket c: an answer that can come.
Lies(k, q)  == \E i \in DOMAIN q : q[i] = k
OnWay(k, c) == Lies(k, inbox[c]) \/ <<c, k>> \in serving \/ k \in outbox[c]

\* A call that waits has its request under way on the open socket of the page,
\* or the `close' of that socket or of an earlier one is to come.
Awaited(k) == cur # None /\ (left # {} \/ net[cur] = "closed" \/ (net[cur] = "open" /\ OnWay(k, cur)))
Served     == \A k \in Calls : call[k] = "pending" => Awaited(k)

PageOK == CallsOK /\ PlaceOK /\ Served
HubInv == ServerOK /\ BoxesOK /\ PageOK

\* What Hub counts with is what the library counts with.
LEMMA SameCounting ==
  ASSUME NEW S
  PROVE  H!Cardinality(S) = Cardinality(S) /\ (H!IsFiniteSet(S) => IsFiniteSet(S))
<1>1. H!Cardinality(S) = Cardinality(S)
      BY DEF H!Cardinality, Cardinality
<1>2. H!IsFiniteSet(S) => IsFiniteSet(S)
      BY DEF H!IsFiniteSet, IsFiniteSet
<1> QED BY <1>1, <1>2

LEMMA PageSockets ==
  H!HubAssumption =>
    /\ None \notin H!Conns /\ H!None = None
    /\ Pages \subseteq H!Conns /\ Others \subseteq H!Conns /\ Pages \cap Others = {}
    /\ Calls \cap H!Kinds = {} /\ IsFiniteSet(Calls)
<1>1. H!HubAssumption => Calls \cap H!Kinds = {} /\ IsFiniteSet(Calls)
  <2>1. H!HubAssumption => Calls \cap {"webui", "plugin"} = {} /\ IsFiniteSet(Calls)
        BY SameCounting DEF H!HubAssumption
  <2> QED BY <2>1 DEF H!Kinds
<1>2. H!HubAssumption => None \notin H!Conns /\ Pages \cap Others = {}
      BY DEF H!HubAssumption, H!None, None
<1>3. H!None = None /\ Pages \subseteq H!Conns /\ Others \subseteq H!Conns
      BY DEF H!Conns, H!None, None
<1> QED BY <1>1, <1>2, <1>3

\* What lies in a queue stays there until it is taken from the head.
LEMMA QueueKeeps ==
  ASSUME NEW X, NEW q \in Seq(X), NEW k
  PROVE  /\ \A v \in X : Lies(k, q) \/ v = k => Lies(k, Append(q, v))
         /\ \A r \in Seq(X) : Lies(k, q) \/ Lies(k, r) => Lies(k, q \o r)
         /\ q # <<>> /\ Head(q) # k /\ Lies(k, q) => Lies(k, Tail(q))
<1>1. ASSUME NEW v \in X, Lies(k, q) \/ v = k PROVE Lies(k, Append(q, v))
  <2>1. CASE v = k
    <3>1. Len(q) + 1 \in DOMAIN Append(q, v) /\ Append(q, v)[Len(q) + 1] = v
          OBVIOUS
    <3> QED BY <2>1, <3>1 DEF Lies
  <2>2. CASE Lies(k, q)
    <3>1. PICK i \in DOMAIN q : q[i] = k
          BY <2>2 DEF Lies
    <3>2. i \in DOMAIN Append(q, v) /\ Append(q, v)[i] = k
          BY <3>1
    <3> QED BY <3>2 DEF Lies
  <2> QED BY <1>1, <2>1, <2>2
<1>2. ASSUME NEW r \in Seq(X), Lies(k, q) \/ Lies(k, r) PROVE Lies(k, q \o r)
  <2>1. CASE Lies(k, q)
    <3>1. PICK i \in DOMAIN q : q[i] = k
          BY <2>1 DEF Lies
    <3>2. i \in DOMAIN (q \o r) /\ (q \o r)[i] = k
          BY <3>1
    <3> QED BY <3>2 DEF Lies
  <2>2. CASE Lies(k, r)
    <3>1. PICK i \in DOMAIN r : r[i] = k
          BY <2>2 DEF Lies
    <3>2. Len(q) + i \in DOMAIN (q \o r) /\ (q \o r)[Len(q) + i] = k
          BY <3>1
    <3> QED BY <3>2 DEF Lies
  <2> QED BY <1>2, <2>1, <2>2
<1>3. ASSUME q # <<>>, Head(q) # k, Lies(k, q) PROVE Lies(k, Tail(q))
  <2>1. PICK i \in DOMAIN q : q[i] = k
        BY <1>3 DEF Lies
  <2>2. i # 1 /\ i \in Nat /\ i >= 1
        BY <1>3, <2>1
  <2>3. i - 1 \in DOMAIN Tail(q) /\ Tail(q)[i - 1] = k
        BY <1>3, <2>1, <2>2
  <2> QED BY <2>3 DEF Lies
<1> QED BY <1>1, <1>2, <1>3

\* Those who waited are asked for one after the other, all of them.
LEMMA ListedAll ==
  ASSUME NEW S, IsFiniteSet(S)
  PROVE  H!Listed(S) \in Seq(S) /\ \A k \in S : Lies(k, H!Listed(S))
<1>1. Cardinality(S) \in Nat
      BY FS_CardinalityType
<1>2. PICK n \in Nat : ExistsBijection(1..n, S)
      BY FS_NatBijection
<1>3. n = Cardinality(S)
      BY <1>2, FS_CountingElements
<1>4. PICK f \in Bijection(1..Cardinality(S), S) : TRUE
      BY <1>2, <1>3 DEF ExistsBijection
<1>5. f \in [1..Cardinality(S) -> S] /\ \A k \in S : \E i \in 1..Cardinality(S) : f[i] = k
      BY <1>4 DEF Bijection, Injection, Surjection
<1>6. DOMAIN f = 1..Cardinality(S)
      BY <1>5
<1>7. {f[i] : i \in DOMAIN f} = S
      BY <1>5, <1>6
<1>8. /\ H!Listed(S) \in [1..Cardinality(S) -> S]
      /\ {H!Listed(S)[i] : i \in DOMAIN H!Listed(S)} = S
  <2>1. \E s \in [1..Cardinality(S) -> S] : {s[i] : i \in DOMAIN s} = S
        BY <1>5, <1>7
  <2>2. H!Cardinality(S) = Cardinality(S)
        BY SameCounting
  <2> QED BY <2>1, <2>2 DEF H!Listed
<1>9. H!Listed(S) \in Seq(S)
      BY <1>1, <1>8
<1> QED BY <1>8, <1>9 DEF Lies

LEMMA ServerRests ==
  ASSUME ServerOK, UNCHANGED <<net, peers, byKind>>, SignsOK'
  PROVE  ServerOK'
BY DEF ServerOK, NetOK, TablesOK, Entered

LEMMA ServerStep ==
  ASSUME ServerOK, PlaceOK, H!HubAssumption, H!Next \/ UNCHANGED hub
  PROVE  ServerOK'
<1>0. /\ NetOK /\ TablesOK /\ SignsOK /\ Entered
      /\ None \notin H!Conns /\ Pages \subseteq H!Conns /\ Others \subseteq H!Conns
      BY PageSockets DEF ServerOK
<1>1. CASE H!Heartbeat
  <2>1. SignsOK'
        BY <1>0, <1>1 DEF H!Heartbeat, SignsOK
  <2>2. TablesOK' /\ UNCHANGED peers
        BY <1>0, <1>1 DEF H!Heartbeat, TablesOK
  <2>3. NetOK' /\ \A c \in H!Conns : net'[c] \in {net[c], "closed"}
        BY <1>0, <1>1 DEF H!Heartbeat, NetOK, NetStates
  <2> QED BY <1>0, <2>1, <2>2, <2>3 DEF ServerOK, Entered
<1>2. CASE H!Stop
  <2>1. H!Leave(H!Conns) /\ alive' = {}
        BY <1>2 DEF H!Stop
  <2>2. /\ TablesOK' /\ SignsOK' /\ \A d \in H!Conns : peers'[d] = "none"
        BY <1>0, <2>1, LeaveKeeps DEF SignsOK
  <2>3. NetOK' /\ \A c \in H!Conns : net'[c] # "open"
        BY <1>0, <1>2 DEF H!Stop, NetOK, NetStates
  <2> QED BY <1>0, <2>2, <2>3 DEF ServerOK, Entered
<1>3. CASE \/ H!Restart \/ UNCHANGED hub \/ \E k \in Calls : H!TimesOut(k) \/ H!Answer(k)
           \/ \E c \in H!Conns : H!DeclareEnds(c) \/ H!LateClose(c)
  <2>1. UNCHANGED <<net, peers, byKind, alive>>
        BY <1>3 DEF H!Restart, H!DeclareEnds, H!LateClose, hub, H!TimesOut, H!Answer, H!net_, H!srv
  <2> QED BY <1>0, <2>1, ServerRests DEF SignsOK
<1>4. ASSUME H!Connects \/ UNCHANGED net, UNCHANGED H!srv PROVE ServerOK'
  <2>1. TablesOK' /\ SignsOK' /\ UNCHANGED peers
        BY <1>0, <1>4 DEF H!srv, TablesOK, SignsOK
  <2>2. CASE H!Connects
        BY <1>0, <2>1, <2>2, ConnectsDials DEF ServerOK, Entered
  <2>3. CASE UNCHANGED net
        BY <1>0, <2>1, <2>3 DEF ServerOK, Entered, NetOK
  <2> QED BY <1>4, <2>2, <2>3
<1>5. CASE H!Retry
      BY <1>4, <1>5 DEF H!Retry
<1>6. ASSUME NEW k \in Calls, H!Call(k) PROVE ServerOK'
      BY <1>4, <1>6 DEF H!Call
<1>7. CASE H!Opens
  <2>1. cur \in H!Conns /\ net[cur] = "connecting" /\ net' = [net EXCEPT ![cur] = "open"] /\ H!Joins(cur)
        BY <1>0, <1>7 DEF H!Opens, PlaceOK, H!None, None
  <2>2. peers[cur] = "none"
        BY <1>0, <2>1 DEF Entered
  <2>3. TablesOK' /\ SignsOK' /\ peers'[cur] # "none" /\ \A d \in H!Conns \ {cur} : peers'[d] = peers[d]
        BY <1>0, <2>1, <2>2, JoinsKeeps
  <2>4. NetOK' /\ net'[cur] = "open" /\ \A d \in H!Conns \ {cur} : net'[d] = net[d]
        BY <1>0, <2>1 DEF NetOK, NetStates
  <2> QED BY <1>0, <2>1, <2>3, <2>4 DEF ServerOK, Entered
<1>8. CASE H!Closes
  <2>1. cur \in H!Conns /\ net' = [net EXCEPT ![cur] = "closed"] /\ UNCHANGED H!srv
        BY <1>0, <1>8 DEF H!Closes, PlaceOK, H!None, None
  <2>2. NetOK' /\ \A c \in H!Conns : net'[c] \in {net[c], "closed"}
        BY <1>0, <2>1 DEF NetOK, NetStates
  <2>3. TablesOK' /\ SignsOK' /\ UNCHANGED peers
        BY <1>0, <2>1 DEF H!srv, TablesOK, SignsOK
  <2> QED BY <1>0, <2>2, <2>3 DEF ServerOK, Entered
<1>9. ASSUME NEW c \in H!Conns, H!Message(c) PROVE ServerOK'
  <2>1. net[c] = "open" /\ net' = net /\ alive' = alive \cup {c}
        BY <1>9 DEF H!Message
  <2>2. CASE UNCHANGED <<peers, byKind>>
        BY <1>0, <2>1, <2>2, ServerRests DEF SignsOK
  <2>3. CASE \E kind \in H!Kinds : H!Declares(c, kind)
    <3>1. TablesOK' /\ peers'[c] # "none" /\ \A d \in H!Conns \ {c} : peers'[d] = peers[d]
          BY <1>0, <2>3, DeclaresKeeps, KindsAre
    <3> QED BY <1>0, <2>1, <3>1 DEF ServerOK, NetOK, SignsOK, Entered
  <2> QED BY <1>9, <2>2, <2>3 DEF H!Message
<1>10. ASSUME NEW c \in H!Conns, H!ServerCloses(c) PROVE ServerOK'
  <2>1. H!Leave({c}) /\ alive' = alive \ {c} /\ net' = net /\ net[c] = "closed"
        BY <1>10 DEF H!ServerCloses
  <2>2. /\ TablesOK' /\ \A d \in H!Conns : peers'[d] = IF d \in {c} THEN "none" ELSE peers[d]
        BY <1>0, <2>1, LeaveKeeps
  <2> QED BY <1>0, <2>1, <2>2 DEF ServerOK, NetOK, SignsOK, Entered
<1>11. ASSUME NEW c \in H!Conns, H!Pong(c) PROVE ServerOK'
       BY <1>0, <1>11, ServerRests DEF H!Pong, H!net_, SignsOK
<1>12. ASSUME NEW c \in H!Conns, H!PeerConnects(c) PROVE ServerOK'
  <2>1. peers[c] = "none" /\ net' = [net EXCEPT ![c] = "open"] /\ H!Joins(c)
        BY <1>12 DEF H!PeerConnects, H!Unused
  <2>2. TablesOK' /\ SignsOK' /\ peers'[c] # "none" /\ \A d \in H!Conns \ {c} : peers'[d] = peers[d]
        BY <1>0, <2>1, JoinsKeeps
  <2>3. NetOK' /\ net'[c] = "open" /\ \A d \in H!Conns \ {c} : net'[d] = net[d]
        BY <1>0, <2>1 DEF NetOK, NetStates
  <2> QED BY <1>0, <2>2, <2>3 DEF ServerOK, Entered
<1>13. ASSUME NEW c \in H!Conns, H!Breaks(c) PROVE ServerOK'
  <2>1. TablesOK' /\ SignsOK' /\ UNCHANGED peers
        BY <1>0, <1>13 DEF H!Breaks, H!srv, TablesOK, SignsOK
  <2>2. \E how \in {"half", "closed"} : net' = [net EXCEPT ![c] = how]
        BY <1>13 DEF H!Breaks
  <2>3. NetOK' /\ \A d \in H!Conns : net'[d] \in {net[d], "half", "closed"}
        BY <1>0, <2>2 DEF NetOK, NetStates
  <2> QED BY <1>0, <2>1, <2>3 DEF ServerOK, Entered
<1>14. ASSUME NEW s, H!Reply(s) PROVE ServerOK'
       BY <1>0, <1>14, ServerRests DEF H!Reply, SignsOK
<1> QED BY <1>1, <1>2, <1>3, <1>5, <1>6, <1>7, <1>8, <1>9, <1>10, <1>11, <1>12, <1>13, <1>14 DEF H!Next

\* The rest of onopen(): who waited is asked for on the open socket, if any.
LEMMA ReadyIs ==
  ASSUME H!HubAssumption, BoxesOK, PlaceOK, NEW cs \in [Calls -> {"idle", "waits", "pending"}], H!Ready(cs)
  PROVE  /\ CallsOK' /\ inbox' \in [H!Conns -> Seq(H!Kinds \cup Calls)]
         /\ \A k \in Calls : call'[k] = "pending" => cs[k] = "pending" \/ (H!IsOpen /\ Lies(k, inbox'[cur]))
         /\ \A k \in Calls : H!IsOpen /\ Lies(k, inbox[cur]) => Lies(k, inbox'[cur])
<1> DEFINE waiting == {k \in Calls : cs[k] = "waits"}
           to == H!Listed(waiting)
<1>1. /\ call' = [k \in Calls |-> IF k \notin waiting THEN cs[k] ELSE IF H!IsOpen THEN "pending" ELSE "idle"]
      /\ inbox' = IF H!IsOpen THEN [inbox EXCEPT ![cur] = @ \o to] ELSE inbox
      BY DEF H!Ready
<1>2. waiting \subseteq Calls /\ IsFiniteSet(waiting)
      BY PageSockets, FS_Subset
<1>3. to \in Seq(waiting) /\ \A k \in waiting : Lies(k, to)
  <2> HIDE DEF waiting
  <2> QED BY <1>2, ListedAll
<1>4. to \in Seq(H!Kinds \cup Calls)
  <2>1. waiting \subseteq H!Kinds \cup Calls
        BY <1>2
  <2> HIDE DEF waiting, to
  <2> QED BY <1>3, <2>1
<1>5. CallsOK'
      BY <1>1 DEF CallsOK
<1>6. CASE ~H!IsOpen
  <2>1. inbox' = inbox
        BY <1>1, <1>6
  <2>2. \A k \in Calls : call'[k] = "pending" => cs[k] = "pending"
        BY <1>1, <1>6
  <2> QED BY <1>5, <1>6, <2>1, <2>2 DEF BoxesOK
<1>7. CASE H!IsOpen
  <2>1. cur \in H!Conns
        BY <1>7, PageSockets DEF H!IsOpen, PlaceOK
  <2>2. inbox[cur] \in Seq(H!Kinds \cup Calls)
        BY <2>1 DEF BoxesOK
  <2>3. inbox' = [inbox EXCEPT ![cur] = inbox[cur] \o to]
        BY <1>1, <1>7
  <2>4. inbox[cur] \o to \in Seq(H!Kinds \cup Calls)
    <3> HIDE DEF to
    <3> QED BY <1>4, <2>2
  <2>5. inbox' \in [H!Conns -> Seq(H!Kinds \cup Calls)] /\ inbox'[cur] = inbox[cur] \o to
    <3> HIDE DEF to
    <3> QED BY <2>1, <2>3, <2>4 DEF BoxesOK
  <2>6. \A k \in Calls : Lies(k, inbox[cur]) \/ Lies(k, to) => Lies(k, inbox'[cur])
    <3>1. ASSUME NEW k \in Calls, Lies(k, inbox[cur]) \/ Lies(k, to) PROVE Lies(k, inbox[cur] \o to)
      <4> HIDE DEF to
      <4> QED BY <1>4, <2>2, <3>1, QueueKeeps
    <3> QED BY <2>5, <3>1
  <2>7. \A k \in Calls : call'[k] = "pending" => cs[k] = "pending" \/ k \in waiting
        BY <1>1
  <2> QED BY <1>3, <1>5, <1>7, <2>5, <2>6, <2>7
<1> QED BY <1>6, <1>7

\* onclose(): who waits afterwards has been asked for anew.
LEMMA OncloseIs ==
  ASSUME H!HubAssumption, BoxesOK, PlaceOK, CallsOK, H!Onclose
  PROVE  /\ CallsOK' /\ inbox' \in [H!Conns -> Seq(H!Kinds \cup Calls)] /\ declaring' = {}
         /\ \A k \in Calls : call'[k] = "pending" => H!IsOpen /\ Lies(k, inbox'[cur])
<1> DEFINE failed == [k \in Calls |-> IF call[k] = "pending" THEN "idle" ELSE call[k]]
<1>1. declaring' = {} /\ (H!Ready(failed) \/ (call' = failed /\ inbox' = inbox))
      BY DEF H!Onclose
<1>2. failed \in [Calls -> {"idle", "waits", "pending"}] /\ \A k \in Calls : failed[k] # "pending"
      BY DEF CallsOK
<1> HIDE DEF failed
<1>3. CASE H!Ready(failed)
      BY <1>1, <1>2, <1>3, ReadyIs
<1>4. CASE call' = failed /\ inbox' = inbox
      BY <1>1, <1>2, <1>4 DEF CallsOK, BoxesOK
<1> QED BY <1>1, <1>3, <1>4

LEMMA BoxesStep ==
  ASSUME BoxesOK, CallsOK, PlaceOK, H!HubAssumption, H!Next \/ UNCHANGED hub
  PROVE  BoxesOK'
<1>0. /\ inbox \in [H!Conns -> Seq(H!Kinds \cup Calls)] /\ outbox \in [H!Conns -> SUBSET Calls]
      /\ None \notin H!Conns /\ Pages \subseteq H!Conns /\ Others \subseteq H!Conns /\ H!None = None
      BY PageSockets DEF BoxesOK
<1>1. ASSUME UNCHANGED outbox, UNCHANGED inbox PROVE BoxesOK'
      BY <1>0, <1>1 DEF BoxesOK
<1>2. ASSUME NEW c \in H!Conns, NEW v \in H!Kinds \cup Calls, inbox' = [inbox EXCEPT ![c] = Append(@, v)], UNCHANGED outbox
      PROVE  BoxesOK'
  <2>1. Append(inbox[c], v) \in Seq(H!Kinds \cup Calls)
        BY <1>0
  <2>2. inbox' = [inbox EXCEPT ![c] = Append(inbox[c], v)]
        BY <1>2
  <2> QED BY <1>0, <1>2, <2>1, <2>2 DEF BoxesOK
<1>3. <<>> \in Seq(H!Kinds \cup Calls)
      OBVIOUS
<1>4. CASE H!Heartbeat \/ H!Restart \/ H!Retry \/ UNCHANGED hub
      BY <1>1, <1>4 DEF H!Heartbeat, H!Restart, H!Retry, hub, H!net_
<1>5. CASE H!Stop
      BY <1>0, <1>3, <1>5 DEF H!Stop, BoxesOK
<1>6. CASE H!Opens
  <2>1. cur \in H!Conns /\ "webui" \in H!Kinds \cup Calls
        BY <1>0, <1>6, KindsAre DEF H!Opens, PlaceOK
  <2> QED BY <1>2, <1>6, <2>1 DEF H!Opens, H!Sent
<1>7. CASE H!Closes
  <2>1. cur \in H!Conns /\ H!Onclose /\ outbox' = [outbox EXCEPT ![cur] = {}]
        BY <1>0, <1>7 DEF H!Closes, PlaceOK
  <2>2. inbox' \in [H!Conns -> Seq(H!Kinds \cup Calls)]
        BY <2>1, OncloseIs
  <2> QED BY <1>0, <2>1, <2>2 DEF BoxesOK
<1>8. ASSUME NEW c \in H!Conns, H!LateClose(c) PROVE BoxesOK'
  <2>1. H!Onclose /\ outbox' = [outbox EXCEPT ![c] = {}]
        BY <1>8 DEF H!LateClose
  <2>2. inbox' \in [H!Conns -> Seq(H!Kinds \cup Calls)]
        BY <2>1, OncloseIs
  <2> QED BY <1>0, <2>1, <2>2 DEF BoxesOK
<1>9. ASSUME NEW c \in H!Conns, H!DeclareEnds(c) PROVE BoxesOK'
  <2>1. H!Ready(call) /\ UNCHANGED outbox
        BY <1>9 DEF H!DeclareEnds
  <2>2. inbox' \in [H!Conns -> Seq(H!Kinds \cup Calls)]
        BY <2>1, ReadyIs DEF CallsOK
  <2> QED BY <1>0, <2>1, <2>2 DEF BoxesOK
<1>10. ASSUME NEW c \in H!Conns, H!Message(c) PROVE BoxesOK'
  <2>1. inbox[c] # <<>> /\ inbox' = [inbox EXCEPT ![c] = Tail(inbox[c])] /\ UNCHANGED outbox
        BY <1>10 DEF H!Message
  <2>2. Tail(inbox[c]) \in Seq(H!Kinds \cup Calls)
        BY <1>0, <2>1
  <2> QED BY <1>0, <2>1, <2>2 DEF BoxesOK
<1>11. ASSUME NEW c \in H!Conns, H!ServerCloses(c) \/ H!Pong(c) \/ H!Breaks(c) PROVE BoxesOK'
       BY <1>0, <1>3, <1>11 DEF H!ServerCloses, H!Pong, H!Breaks, H!net_, BoxesOK
<1>12. ASSUME NEW c \in H!Conns, H!PeerConnects(c) PROVE BoxesOK'
  <2>1. "plugin" \in H!Kinds \cup Calls
        BY KindsAre
  <2> QED BY <1>2, <1>12, <2>1 DEF H!PeerConnects, H!Sent
<1>13. ASSUME NEW c \in H!Conns, NEW k \in Calls, H!Reply(<<c, k>>) PROVE BoxesOK'
  <2>1. outbox' \in {outbox, [outbox EXCEPT ![c] = outbox[c] \cup {k}]} /\ UNCHANGED inbox
        BY <1>13 DEF H!Reply
  <2> QED BY <1>0, <2>1 DEF BoxesOK
<1>14. ASSUME NEW k \in Calls, H!Call(k) PROVE BoxesOK'
  <2>1. CASE H!IsOpen /\ H!Sent(cur, k)
    <3>1. cur \in H!Conns
          BY <1>0, <2>1 DEF H!IsOpen, PlaceOK
    <3> QED BY <1>2, <1>14, <2>1, <3>1 DEF H!Call, H!Sent
  <2>2. CASE UNCHANGED inbox
        BY <1>1, <1>14, <2>2 DEF H!Call
  <2> QED BY <1>14, <2>1, <2>2 DEF H!Call
<1>15. ASSUME NEW k \in Calls, H!TimesOut(k) \/ H!Answer(k) PROVE BoxesOK'
  <2>1. CASE H!TimesOut(k)
        BY <1>1, <2>1 DEF H!TimesOut, H!net_
  <2>2. CASE H!Answer(k)
    <3>1. cur \in H!Conns /\ outbox' = [outbox EXCEPT ![cur] = outbox[cur] \ {k}] /\ UNCHANGED inbox
          BY <1>0, <2>2 DEF H!Answer, PlaceOK
    <3> QED BY <1>0, <3>1 DEF BoxesOK
  <2> QED BY <1>15, <2>1, <2>2
<1> QED BY <1>4, <1>5, <1>6, <1>7, <1>8, <1>9, <1>10, <1>11, <1>12, <1>13, <1>14, <1>15 DEF H!Next

\* A page that keeps its socket, for whose calls nothing under way is lost while
\* that socket is open.
LEMMA PageRests ==
  ASSUME PageOK, H!HubAssumption, UNCHANGED <<cur, left>>, declaring' \subseteq Pages, CallsOK',
         \A c \in H!Conns : net'[c] \in {net[c], "closed"},
         \A k \in Calls : call'[k] = "pending" => call[k] = "pending",
         \A k \in Calls : call'[k] = "pending" /\ cur # None /\ net'[cur] = "open" /\ OnWay(k, cur)
                          => Lies(k, inbox'[cur]) \/ <<cur, k>> \in serving' \/ k \in outbox'[cur]
  PROVE  PageOK'
<1>0. Pages \subseteq H!Conns /\ None \notin H!Conns
      BY PageSockets
<1>1. PlaceOK'
      BY <1>0 DEF PageOK, PlaceOK
<1>2. ASSUME NEW k \in Calls, call'[k] = "pending" PROVE Awaited(k)'
  <2>1. Awaited(k) /\ cur' = cur /\ left' = left
        BY <1>2 DEF PageOK, Served
  <2>2. cur # None /\ cur \in H!Conns
        BY <1>0, <2>1 DEF Awaited, PageOK, PlaceOK
  <2>3. net'[cur] \in {net[cur], "closed"}
        BY <2>2
  <2>4. CASE left # {} \/ net'[cur] = "closed"
        BY <2>1, <2>2, <2>4 DEF Awaited
  <2>5. CASE left = {} /\ net'[cur] = net[cur] /\ net[cur] # "closed"
    <3>1. net'[cur] = "open" /\ OnWay(k, cur)
          BY <2>1, <2>5 DEF Awaited
    <3>2. Lies(k, inbox'[cur]) \/ <<cur, k>> \in serving' \/ k \in outbox'[cur]
          BY <1>2, <2>2, <3>1
    <3> QED BY <2>1, <2>2, <3>1, <3>2 DEF Awaited, OnWay
  <2> QED BY <2>3, <2>4, <2>5
<1> QED BY <1>1, <1>2 DEF PageOK, Served

LEMMA PageStep ==
  ASSUME HubInv, H!HubAssumption, H!Next \/ UNCHANGED hub
  PROVE  PageOK'
<1>0. /\ NetOK /\ Entered /\ BoxesOK /\ PageOK /\ CallsOK /\ PlaceOK /\ Served
      /\ None \notin H!Conns /\ Pages \subseteq H!Conns /\ Others \subseteq H!Conns /\ Pages \cap Others = {}
      /\ H!None = None /\ Calls \cap H!Kinds = {}
      BY PageSockets DEF HubInv, ServerOK, PageOK
<1>1. ASSUME UNCHANGED <<cur, left, declaring, call>>, \A c \in H!Conns : net'[c] \in {net[c], "closed"},
             \A k \in Calls : call[k] = "pending" /\ cur # None /\ net'[cur] = "open" /\ OnWay(k, cur)
                              => Lies(k, inbox'[cur]) \/ <<cur, k>> \in serving' \/ k \in outbox'[cur]
      PROVE  PageOK'
  <2>1. CallsOK' /\ declaring' \subseteq Pages
        BY <1>0, <1>1 DEF CallsOK, PlaceOK
  <2>2. \A k \in Calls : call'[k] = "pending" => call[k] = "pending"
        BY <1>1
  <2>3. \A k \in Calls : call'[k] = "pending" /\ cur # None /\ net'[cur] = "open" /\ OnWay(k, cur)
                              => Lies(k, inbox'[cur]) \/ <<cur, k>> \in serving' \/ k \in outbox'[cur]
        BY <1>1
  <2> QED BY <1>0, <1>1, <2>1, <2>2, <2>3, PageRests
<1>2. ASSUME UNCHANGED <<cur, left, declaring, call, inbox, serving, outbox>>,
             \A c \in H!Conns : net'[c] \in {net[c], "closed"}
      PROVE  PageOK'
      BY <1>1, <1>2 DEF OnWay
<1>3. CASE H!Heartbeat \/ H!Restart \/ UNCHANGED hub \/ \E c \in H!Conns : H!Pong(c)
  <2>1. /\ UNCHANGED <<cur, left, declaring, call, inbox, serving, outbox>>
        /\ \A c \in H!Conns : net'[c] \in {net[c], "closed"}
        BY <1>0, <1>3 DEF H!Heartbeat, H!Restart, H!Pong, hub, H!page, H!net_, H!srv, NetOK
  <2> QED BY <1>2, <2>1
<1>4. CASE H!Stop
  <2>1. /\ UNCHANGED <<cur, left, declaring, call>>
        /\ net' = [c \in H!Conns |-> IF net[c] \in {"open", "half"} THEN "closed" ELSE net[c]]
        BY <1>4 DEF H!Stop, H!page
  <2>2. \A c \in H!Conns : net'[c] \in {net[c], "closed"} /\ net'[c] # "open"
        BY <1>0, <2>1 DEF NetOK
  <2>3. cur # None => net'[cur] # "open"
        BY <1>0, <2>2 DEF PlaceOK
  <2> QED BY <1>1, <2>1, <2>2, <2>3
\* A request is taken from the queue and served.
<1>5. ASSUME NEW c \in H!Conns, H!Message(c) PROVE PageOK'
  <2>1. /\ UNCHANGED <<cur, left, declaring, call, net, outbox>>
        /\ inbox[c] # <<>> /\ inbox' = [inbox EXCEPT ![c] = Tail(inbox[c])]
        /\ \/ Head(inbox[c]) \in H!Kinds /\ serving' = serving
           \/ serving' = serving \cup {<<c, Head(inbox[c])>>}
        BY <1>5 DEF H!Message, H!page
  <2>2. ASSUME NEW k \in Calls, cur # None, OnWay(k, cur)
        PROVE  Lies(k, inbox'[cur]) \/ <<cur, k>> \in serving' \/ k \in outbox'[cur]
    <3>1. CASE cur = c /\ Lies(k, inbox[c])
      <4>1. CASE Head(inbox[c]) = k
        <5>1. <<c, k>> \in serving'
              BY <1>0, <2>1, <4>1
        <5> QED BY <3>1, <5>1
      <4>2. CASE Head(inbox[c]) # k
        <5>1. inbox[c] \in Seq(H!Kinds \cup Calls)
              BY <1>0 DEF BoxesOK
        <5>2. Lies(k, Tail(inbox[c]))
              BY <2>1, <3>1, <4>2, <5>1, QueueKeeps
        <5>3. inbox'[c] = Tail(inbox[c])
              BY <1>0, <2>1 DEF BoxesOK
        <5> QED BY <3>1, <5>2, <5>3
      <4> QED BY <4>1, <4>2
    <3>2. CASE cur # c
      <4>1. inbox'[cur] = inbox[cur]
            BY <1>0, <2>1, <2>2, <3>2 DEF BoxesOK, PlaceOK
      <4> QED BY <2>1, <2>2, <4>1 DEF OnWay
    <3>3. CASE cur = c /\ ~Lies(k, inbox[c])
          BY <2>1, <2>2, <3>3 DEF OnWay
    <3> QED BY <3>1, <3>2, <3>3
  <2>3. \A k \in Calls : call[k] = "pending" /\ cur # None /\ net'[cur] = "open" /\ OnWay(k, cur)
                              => Lies(k, inbox'[cur]) \/ <<cur, k>> \in serving' \/ k \in outbox'[cur]
        BY <2>2
  <2>4. \A d \in H!Conns : net'[d] \in {net[d], "closed"}
        BY <2>1
  <2> QED BY <1>1, <2>1, <2>3, <2>4
\* A reply goes out on a socket that is open.
<1>6. ASSUME NEW c \in H!Conns, NEW r \in Calls, H!Reply(<<c, r>>) PROVE PageOK'
  <2>1. /\ UNCHANGED <<cur, left, declaring, call, net, inbox>>
        /\ serving' = serving \ {<<c, r>>}
        /\ outbox' = IF net[c] = "open" /\ peers[c] # "none" THEN [outbox EXCEPT ![c] = outbox[c] \cup {r}] ELSE outbox
        BY <1>6 DEF H!Reply, H!page
  <2>2. ASSUME NEW k \in Calls, cur # None, net'[cur] = "open", OnWay(k, cur)
        PROVE  Lies(k, inbox'[cur]) \/ <<cur, k>> \in serving' \/ k \in outbox'[cur]
    <3>1. cur \in H!Conns /\ net[cur] = "open" /\ peers[cur] # "none"
          BY <1>0, <2>1, <2>2 DEF PlaceOK, Entered
    <3>2. outbox[cur] \subseteq outbox'[cur]
          BY <1>0, <2>1, <3>1 DEF BoxesOK
    <3>3. CASE c = cur /\ k = r
      <4>1. k \in outbox'[cur]
            BY <1>0, <2>1, <3>1, <3>3 DEF BoxesOK
      <4> QED BY <4>1
    <3>4. CASE ~(c = cur /\ k = r)
      <4>1. <<cur, k>> \in serving => <<cur, k>> \in serving'
            BY <2>1, <3>4
      <4> QED BY <2>1, <2>2, <3>2, <4>1 DEF OnWay
    <3> QED BY <3>3, <3>4
  <2>3. \A k \in Calls : call[k] = "pending" /\ cur # None /\ net'[cur] = "open" /\ OnWay(k, cur)
                              => Lies(k, inbox'[cur]) \/ <<cur, k>> \in serving' \/ k \in outbox'[cur]
        BY <2>2
  <2>4. \A d \in H!Conns : net'[d] \in {net[d], "closed"}
        BY <2>1
  <2> QED BY <1>1, <2>1, <2>3, <2>4
<1>7. ASSUME NEW c \in H!Conns, H!ServerCloses(c) PROVE PageOK'
  <2>1. /\ UNCHANGED <<cur, left, declaring, call, net, outbox>> /\ net[c] = "closed"
        /\ inbox' = [inbox EXCEPT ![c] = <<>>] /\ serving' = {s \in serving : s[1] # c}
        BY <1>7 DEF H!ServerCloses, H!page
  <2>2. ASSUME NEW k \in Calls, cur # None, net'[cur] = "open", OnWay(k, cur)
        PROVE  Lies(k, inbox'[cur]) \/ <<cur, k>> \in serving' \/ k \in outbox'[cur]
    <3>1. cur \in H!Conns /\ cur # c
          BY <1>0, <2>1, <2>2 DEF PlaceOK
    <3>2. inbox'[cur] = inbox[cur] /\ outbox'[cur] = outbox[cur]
          BY <1>0, <2>1, <3>1 DEF BoxesOK
    <3>3. <<cur, k>> \in serving => <<cur, k>> \in serving'
          BY <2>1, <3>1
    <3> QED BY <2>2, <3>2, <3>3 DEF OnWay
  <2>3. \A k \in Calls : call[k] = "pending" /\ cur # None /\ net'[cur] = "open" /\ OnWay(k, cur)
                              => Lies(k, inbox'[cur]) \/ <<cur, k>> \in serving' \/ k \in outbox'[cur]
        BY <2>2
  <2>4. \A d \in H!Conns : net'[d] \in {net[d], "closed"}
        BY <2>1
  <2> QED BY <1>1, <2>1, <2>3, <2>4
<1>8. ASSUME NEW r \in Calls, H!TimesOut(r) \/ H!Answer(r) PROVE PageOK'
  <2>1. /\ UNCHANGED <<net, cur, left, declaring, inbox, serving>> /\ call' = [call EXCEPT ![r] = "idle"]
        /\ outbox' = outbox \/ (cur # None /\ outbox' = [outbox EXCEPT ![cur] = outbox[cur] \ {r}])
        BY <1>0, <1>8 DEF H!TimesOut, H!Answer, H!net_, H!srv
  <2>2. CallsOK' /\ declaring' \subseteq Pages /\ \A k \in Calls : call'[k] = "pending" => call[k] = "pending" /\ k # r
        BY <1>0, <2>1 DEF CallsOK, PlaceOK
  <2>3. ASSUME NEW k \in Calls, call'[k] = "pending", cur # None, OnWay(k, cur)
        PROVE  Lies(k, inbox'[cur]) \/ <<cur, k>> \in serving' \/ k \in outbox'[cur]
    <3>1. k # r
          BY <2>2, <2>3
    <3>2. cur \in H!Conns
          BY <1>0, <2>3 DEF PlaceOK
    <3>3. k \in outbox[cur] => k \in outbox'[cur]
          BY <1>0, <2>1, <3>1, <3>2 DEF BoxesOK
    <3> QED BY <2>1, <2>3, <3>3 DEF OnWay
  <2>4. \A k \in Calls : call'[k] = "pending" /\ cur # None /\ net'[cur] = "open" /\ OnWay(k, cur)
                              => Lies(k, inbox'[cur]) \/ <<cur, k>> \in serving' \/ k \in outbox'[cur]
        BY <2>3
  <2>5. \A d \in H!Conns : net'[d] \in {net[d], "closed"}
        BY <2>1
  <2>6. \A k \in Calls : call'[k] = "pending" => call[k] = "pending"
        BY <2>2
  <2> QED BY <1>0, <2>1, <2>2, <2>4, <2>5, <2>6, PageRests
\* A socket that opens for another peer is none of the page.
<1>9. ASSUME NEW c \in H!Conns, H!PeerConnects(c) PROVE PageOK'
  <2>1. /\ c \in Others /\ c # cur /\ UNCHANGED <<cur, left, declaring, call, serving, outbox>>
        /\ net' = [net EXCEPT ![c] = "open"] /\ inbox' = [inbox EXCEPT ![c] = Append(@, "plugin")]
        BY <1>9 DEF H!PeerConnects, H!Unused, H!page, H!Sent
  <2>2. CallsOK'
        BY <1>0, <2>1 DEF CallsOK
  <2>3. PlaceOK'
        BY <1>0, <2>1 DEF NetOK, PlaceOK
  <2>4. cur # None => net'[cur] = net[cur] /\ inbox'[cur] = inbox[cur]
        BY <1>0, <2>1 DEF NetOK, BoxesOK, PlaceOK
  <2>5. Served'
        BY <1>0, <2>1, <2>4 DEF Served, Awaited, OnWay
  <2> QED BY <2>2, <2>3, <2>5 DEF PageOK
\* A page's socket that breaks has closed.
<1>10. ASSUME NEW c \in H!Conns, H!Breaks(c) PROVE PageOK'
  <2>1. PICK how \in {"half", "closed"} :
             net[c] \in {"open", "half"} /\ (how = "half" => c \in Others) /\ net' = [net EXCEPT ![c] = how]
        BY <1>10 DEF H!Breaks
  <2>2. /\ UNCHANGED <<cur, left, declaring, call, serving>>
        /\ inbox' = [inbox EXCEPT ![c] = <<>>] /\ outbox' = [outbox EXCEPT ![c] = {}]
        BY <1>10 DEF H!Breaks, H!page, H!srv
  <2>3. CallsOK'
        BY <1>0, <2>2 DEF CallsOK
  <2>4. PlaceOK'
        BY <1>0, <2>1, <2>2 DEF NetOK, PlaceOK
  <2>5. Served'
    <3>1. ASSUME NEW k \in Calls, call'[k] = "pending" PROVE Awaited(k)'
      <4>1. Awaited(k) /\ cur' = cur /\ left' = left
            BY <1>0, <2>2, <3>1 DEF Served
      <4>2. cur # None /\ cur \in H!Conns /\ cur \in Pages /\ cur \notin Others
            BY <1>0, <4>1 DEF Awaited, PlaceOK
      <4>3. CASE cur = c
        <5>1. net'[cur] = "closed"
              BY <1>0, <2>1, <4>2, <4>3 DEF NetOK
        <5> QED BY <4>1, <4>2, <5>1 DEF Awaited
      <4>4. CASE cur # c
        <5>1. net'[cur] = net[cur] /\ inbox'[cur] = inbox[cur] /\ outbox'[cur] = outbox[cur]
              BY <1>0, <2>1, <2>2, <4>2, <4>4 DEF NetOK, BoxesOK
        <5> QED BY <2>2, <4>1, <5>1 DEF Awaited, OnWay
      <4> QED BY <4>3, <4>4
    <3> QED BY <3>1 DEF Served
  <2> QED BY <2>3, <2>4, <2>5 DEF PageOK
\* A page that dials anew has lost its socket, whose `close' is to come.
<1>11. ASSUME H!Connects, UNCHANGED <<declaring, inbox, serving, outbox>>
       PROVE  PlaceOK' /\ \A k \in Calls : Awaited(k) => Awaited(k)'
  <2>1. CASE UNCHANGED <<net, cur, left>>
        BY <1>0, <1>11, <2>1 DEF PlaceOK, Awaited, OnWay
  <2>2. ASSUME NEW c \in Pages, cur' = c, net'[c] = "connecting", left' = left \cup ({cur} \ {None}),
               \A d \in H!Conns \ {c} : net'[d] = net[d]
        PROVE  PlaceOK' /\ \A k \in Calls : Awaited(k) => Awaited(k)'
    <3>1. \A d \in H!Conns : net'[d] = "half" => d \in Others
          BY <1>0, <2>2 DEF PlaceOK
    <3>2. PlaceOK'
          BY <1>0, <1>11, <2>2, <3>1 DEF PlaceOK
    <3>3. ASSUME NEW k \in Calls, Awaited(k) PROVE Awaited(k)'
      <4>1. cur # None /\ cur' # None
            BY <1>0, <2>2, <3>3 DEF Awaited
      <4>2. left' # {}
            BY <2>2, <4>1
      <4> QED BY <4>1, <4>2 DEF Awaited
    <3> QED BY <3>2, <3>3
  <2> QED BY <1>0, <1>11, <2>1, <2>2, ConnectsDials
<1>12. CASE H!Retry
  <2>1. H!Connects /\ UNCHANGED <<declaring, inbox, serving, outbox, call>>
        BY <1>12 DEF H!Retry, H!srv
  <2>2. PlaceOK' /\ \A k \in Calls : Awaited(k) => Awaited(k)'
        BY <1>11, <2>1
  <2> QED BY <1>0, <2>1, <2>2 DEF PageOK, CallsOK, Served
<1>13. ASSUME NEW r \in Calls, H!Call(r) PROVE PageOK'
  <2>1. CASE H!IsOpen /\ H!Sent(cur, r) /\ call' = [call EXCEPT ![r] = "pending"] /\ UNCHANGED <<net, cur, left>>
    <3>1. UNCHANGED <<declaring, serving, outbox>> /\ cur # None /\ cur \in H!Conns /\ net[cur] = "open"
          BY <1>0, <1>13, <2>1 DEF H!Call, H!IsOpen, PlaceOK, H!srv
    <3>2. inbox' = [inbox EXCEPT ![cur] = Append(inbox[cur], r)] /\ inbox[cur] \in Seq(H!Kinds \cup Calls)
          BY <1>0, <2>1, <3>1 DEF H!Sent, BoxesOK
    <3>3. inbox'[cur] = Append(inbox[cur], r)
          BY <1>0, <3>1, <3>2 DEF BoxesOK
    <3>4. \A k \in Calls : Lies(k, inbox[cur]) \/ r = k => Lies(k, inbox'[cur])
          BY <3>2, <3>3, QueueKeeps
    <3>5. CallsOK' /\ \A k \in Calls : call'[k] = "pending" => k = r \/ call[k] = "pending"
          BY <1>0, <2>1 DEF CallsOK
    <3>6. ASSUME NEW k \in Calls, call'[k] = "pending" PROVE Awaited(k)'
      <4>1. k = r \/ Awaited(k)
            BY <1>0, <3>5, <3>6 DEF Served
      <4>2. left # {} \/ k = r \/ OnWay(k, cur)
            BY <3>1, <4>1 DEF Awaited
      <4>3. left # {} \/ Lies(k, inbox'[cur]) \/ <<cur, k>> \in serving \/ k \in outbox[cur]
            BY <3>4, <4>2 DEF OnWay
      <4> QED BY <2>1, <3>1, <4>3 DEF Awaited, OnWay
    <3>7. PlaceOK'
          BY <1>0, <2>1, <3>1 DEF PlaceOK
    <3> QED BY <3>5, <3>6, <3>7 DEF PageOK, Served
  <2>2. CASE H!Connects /\ call' = [call EXCEPT ![r] = "waits"] /\ UNCHANGED inbox
    <3>1. UNCHANGED <<declaring, inbox, serving, outbox>>
          BY <1>13, <2>2 DEF H!Call, H!srv
    <3>2. PlaceOK' /\ \A k \in Calls : Awaited(k) => Awaited(k)'
          BY <1>11, <2>2, <3>1
    <3>3. CallsOK' /\ \A k \in Calls : call'[k] = "pending" => call[k] = "pending"
          BY <1>0, <2>2 DEF CallsOK
    <3> QED BY <1>0, <3>2, <3>3 DEF PageOK, Served
  <2> QED BY <1>13, <2>1, <2>2 DEF H!Call
\* While the socket opens, who waits has the `close' of an earlier one to come.
<1>14. CASE H!Opens
  <2>1. /\ cur # None /\ cur \in H!Conns /\ cur \in Pages /\ net[cur] = "connecting" /\ net' = [net EXCEPT ![cur] = "open"]
        /\ declaring' = declaring \cup {cur} /\ UNCHANGED <<cur, left, call>>
        BY <1>0, <1>14 DEF H!Opens, PlaceOK
  <2>2. PlaceOK'
        BY <1>0, <2>1 DEF NetOK, PlaceOK
  <2>3. \A k \in Calls : Awaited(k) => left # {}
        BY <2>1 DEF Awaited
  <2>4. Served'
        BY <1>0, <2>1, <2>3 DEF Served, Awaited
  <2> QED BY <1>0, <2>1, <2>2, <2>4 DEF PageOK, CallsOK
\* Who waited is asked for on the socket of the page.
<1>15. ASSUME NEW c \in H!Conns, H!DeclareEnds(c) PROVE PageOK'
  <2>1. H!Ready(call) /\ declaring' = declaring \ {c} /\ UNCHANGED <<net, cur, left, serving, outbox>>
        BY <1>15 DEF H!DeclareEnds, H!srv
  <2>2. /\ CallsOK'
        /\ \A k \in Calls : call'[k] = "pending" => call[k] = "pending" \/ (H!IsOpen /\ Lies(k, inbox'[cur]))
        /\ \A k \in Calls : H!IsOpen /\ Lies(k, inbox[cur]) => Lies(k, inbox'[cur])
        BY <1>0, <2>1, ReadyIs DEF CallsOK
  <2>3. PlaceOK'
        BY <1>0, <2>1 DEF PlaceOK
  <2>4. ASSUME NEW k \in Calls, call'[k] = "pending" PROVE Awaited(k)'
    <3>1. CASE H!IsOpen /\ Lies(k, inbox'[cur])
          BY <1>0, <2>1, <3>1 DEF Awaited, OnWay, H!IsOpen
    <3>2. CASE call[k] = "pending"
      <4>1. Awaited(k)
            BY <1>0, <3>2 DEF Served
      <4>2. net[cur] = "open" /\ Lies(k, inbox[cur]) => Lies(k, inbox'[cur])
            BY <1>0, <2>2, <4>1 DEF Awaited, H!IsOpen
      <4> QED BY <2>1, <4>1, <4>2 DEF Awaited, OnWay
    <3> QED BY <2>2, <2>4, <3>1, <3>2
  <2> QED BY <2>2, <2>3, <2>4 DEF PageOK, Served
<1>16. CASE H!Closes
  <2>1. /\ cur # None /\ cur' = None /\ net' = [net EXCEPT ![cur] = "closed"] /\ UNCHANGED left /\ H!Onclose
        /\ net[cur] \in {"closed", "connecting"}
        BY <1>0, <1>16 DEF H!Closes
  <2>2. CallsOK' /\ declaring' = {} /\ \A k \in Calls : call'[k] = "pending" => H!IsOpen
        BY <1>0, <2>1, OncloseIs
  <2>3. ~H!IsOpen
        BY <2>1 DEF H!IsOpen
  <2>4. PlaceOK'
        BY <1>0, <2>1, <2>2 DEF NetOK, PlaceOK
  <2> QED BY <2>2, <2>3, <2>4 DEF PageOK, Served
<1>17. ASSUME NEW c \in H!Conns, H!LateClose(c) PROVE PageOK'
  <2>1. UNCHANGED <<net, cur>> /\ left' = left \ {c} /\ H!Onclose
        BY <1>17 DEF H!LateClose
  <2>2. /\ CallsOK' /\ declaring' = {}
        /\ \A k \in Calls : call'[k] = "pending" => H!IsOpen /\ Lies(k, inbox'[cur])
        BY <1>0, <2>1, OncloseIs
  <2>3. PlaceOK'
        BY <1>0, <2>1, <2>2 DEF PlaceOK
  <2>4. Served'
        BY <1>0, <2>1, <2>2 DEF Served, Awaited, OnWay, H!IsOpen
  <2> QED BY <2>2, <2>3, <2>4 DEF PageOK
<1> QED BY <1>3, <1>4, <1>5, <1>6, <1>7, <1>8, <1>9, <1>10, <1>12, <1>13, <1>14, <1>15, <1>16, <1>17 DEF H!Next

LEMMA HubInitIsInv == ASSUME H!HubAssumption, H!Init PROVE HubInv
<1>1. None \notin H!Conns /\ H!None = None
      BY PageSockets
<1>2. ServerOK
      BY KindsAre DEF H!Init, ServerOK, NetOK, NetStates, TablesOK, SignsOK, Entered
<1>3. BoxesOK
  <2>1. <<>> \in Seq(H!Kinds \cup Calls)
        OBVIOUS
  <2> QED BY <2>1 DEF H!Init, BoxesOK
<1>4. PageOK
      BY <1>1 DEF H!Init, PageOK, CallsOK, PlaceOK, Served
<1> QED BY <1>2, <1>3, <1>4 DEF HubInv

LEMMA HubInvIsSafe == ASSUME HubInv, H!HubAssumption PROVE H!TypeOK /\ H!OneKind
<1>1. /\ NetOK /\ TablesOK /\ SignsOK /\ CallsOK /\ PlaceOK /\ Served
      /\ H!None = None /\ Pages \subseteq H!Conns
      BY PageSockets DEF HubInv, ServerOK, PageOK
<1>2. H!TypeOK
      BY <1>1 DEF H!TypeOK, NetOK, NetStates, TablesOK, SignsOK, CallsOK, PlaceOK
<1>3. ASSUME NEW k \in Calls, call[k] = "pending" PROVE cur # H!None /\ (H!IsOpen /\ left = {} => H!UnderWay(k))
  <2>1. Awaited(k)
        BY <1>1, <1>3 DEF Served
  <2> QED BY <1>1, <2>1 DEF Awaited, OnWay, Lies, H!IsOpen, H!UnderWay
<1>4. H!OneKind
      BY <1>1, <1>3 DEF H!OneKind, TablesOK
<1> QED BY <1>2, <1>4

\* The invariant of the server and its pages, in the behaviours that are theirs.
THEOREM HubInvariance == WiresSpec => [](part = "hub" => HubInv)
<1>1. WiresInit => (part = "hub" => HubInv)
      BY WiresAssumption, HubInitIsInv DEF WiresInit
<1>2. (part = "hub" => HubInv) /\ [WiresNext]_<<part, vars, hub>> => (part = "hub" => HubInv)'
  <2>1. ASSUME part = "hub" => HubInv, [WiresNext]_<<part, vars, hub>>, part' = "hub"
        PROVE  HubInv'
    <3>1. part = "hub" /\ (H!Next \/ UNCHANGED hub)
          BY <2>1 DEF WiresNext
    <3> QED BY <2>1, <3>1, WiresAssumption, ServerStep, BoxesStep, PageStep DEF HubInv, PageOK
  <2> QED BY <2>1
<1> QED BY <1>1, <1>2, PTL DEF WiresSpec

\* However pages and other peers connect, declare themselves and are lost, and
\* whenever the server stops: each connection is in the table of the kind that
\* it has declared last and in no other (Registry, server/ws.ts), and no call
\* of a page waits in vain (rpc-client.js): its request or answer is under way
\* on the page's open socket, or a `close' is to come that fails it.
THEOREM HubCorrect == WiresSpec => []HubSafe
<1>1. (part = "hub" => HubInv) => HubSafe
      BY WiresAssumption, HubInvIsSafe DEF HubSafe
<1> QED BY <1>1, HubInvariance, PTL
=============================================================================
