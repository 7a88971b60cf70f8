-------------------------------- MODULE Mcp --------------------------------
(***************************************************************************)
(* The MCP servers of the service: McpManager (backend/src/mcp/manager.ts) *)
(* with its two clients (mcp/client.ts for a process, mcp/http-client.ts), *)
(* the requests that edit the configuration (modules/mcp.ts and the page's *)
(* config.update) and the tools they put into the registry (core/tools.ts).*)
(*                                                                         *)
(* Connections, removals and refreshes run one after the other on a chain; *)
(* edits of the configuration, processes that exit and servers that change *)
(* their tools do not wait for it.                                         *)
(***************************************************************************)
EXTENDS Integers, Sequences, FiniteSets, SequencesExt

CONSTANTS
  Names,      \* names of servers
  Http,       \* endpoints reached over HTTP
  Stdio,      \* commands that start a process
  MaxEdits,   \* bound on requests of users
  MaxChanges, \* bound on changes of a server's tools
  MaxFails    \* bound on requests that fail, processes and streams that end

None == "none"
Targets == Http \cup Stdio

\* A name is no endpoint, and an endpoint is reached in one way.
ASSUME McpAssumption ==
  /\ IsFiniteSet(Names) /\ Http \cap Stdio = {} /\ None \notin Names \cup Targets
  /\ MaxEdits \in Nat /\ MaxChanges \in Nat /\ MaxFails \in Nat

VARIABLES
  config,   \* llm.mcpServers
  baseline, \* lastMcpJson
  chain,    \* the jobs that wait, the first one running
  at,       \* what the running job waits for, for whom, and what was answered
  entries,  \* entries: the client of each server and its tools
  tools,    \* the registry: server, tool and the client its handler calls
  server,   \* what each server offers, as the number of its changes
  failed,   \* servers whose last connection has failed
  missed,   \* servers whose last change nobody has heard of
  edits, fails

vars == <<config, baseline, chain, at, entries, tools, server, failed, missed, edits, fails>>

Configs  == [target : Targets, on : BOOLEAN]
NoConfig == [target |-> None, on |-> FALSE]
Clients  == 1..Cardinality(Names)
NoEntry  == [client |-> 0, target |-> None, st |-> None, tools |-> {}, stream |-> None]

\* A job and those it still has to connect, with the configuration it took.
Job(op, n, todo, cfg) == [op |-> op, name |-> n, todo |-> todo, cfg |-> cfg]
NoConfigs == [n \in Names |-> NoConfig]
Wait(a, n, cfg, got) == [at |-> a, name |-> n, cfg |-> cfg, got |-> got]
NoWait    == Wait("next", None, NoConfig, 0)

\* sameTarget() and the check of `enabled'.
Stale(n, target) == config[n].target # target \/ ~config[n].on

Edit == edits < MaxEdits /\ edits' = edits + 1
Fault == fails < MaxFails /\ fails' = fails + 1

-----------------------------------------------------------------------------
(* Requests.                                                               *)

\* mcp.server.add, and mcp.server.update of a server that exists: saveConfig()
\* at once, the connection in its turn.
Upsert(n, c) ==
  /\ Edit /\ (c.on \/ config[n] # NoConfig)
  /\ config' = [config EXCEPT ![n] = c] /\ baseline' = config'
  /\ chain' = Append(chain, Job("connect", None, {n}, [NoConfigs EXCEPT ![n] = c]))
  /\ UNCHANGED <<at, entries, tools, server, failed, missed, fails>>

\* mcp.server.remove and mcp.refresh.
RemoveServer(n) ==
  /\ Edit /\ chain' = Append(chain, Job("remove", n, {}, NoConfigs))
  /\ UNCHANGED <<config, baseline, at, entries, tools, server, failed, missed, fails>>
Refresh ==
  /\ Edit /\ chain' = Append(chain, Job("all", None, {}, NoConfigs))
  /\ UNCHANGED <<config, baseline, at, entries, tools, server, failed, missed, fails>>

\* config.update: everything is connected anew if it has changed.
UpdateConfig ==
  /\ Edit
  /\ \E n \in Names, c \in Configs \cup {NoConfig} : config' = [config EXCEPT ![n] = c]
  /\ baseline' = config'
  /\ chain' = IF config' # baseline THEN Append(chain, Job("all", None, {}, NoConfigs)) ELSE chain
  /\ UNCHANGED <<at, entries, tools, server, failed, missed, fails>>

-----------------------------------------------------------------------------
(* The chain.                                                              *)

\* disconnectServer(), from tables e of entries and t of tools.
Dropped(e, N) == [n \in Names |-> IF n \in N THEN NoEntry ELSE e[n]]
Unregistered(t, e, N) == {x \in t : ~(x.server \in N /\ x.tool \in e[x.server].tools)}
Registered(t, n, c, v) == {x \in t : x.server # n \/ x.tool # v} \cup {[server |-> n, tool |-> v, client |-> c]}

Disconnect(N) == entries' = Dropped(entries, N) /\ tools' = Unregistered(tools, entries, N)

\* The chain without n: its job is over when nobody is left to do.
Without(n) ==
  LET j == Head(chain) IN
  IF j.todo \ {n} = {} THEN Tail(chain)
  ELSE [chain EXCEPT ![1] = Job(j.op, j.name, j.todo \ {n}, j.cfg)]

\* Slip: the job that is over is still waited for.
DoneKeeping(n) == at' = at /\ chain' = Without(n)

\* The job is over, for n.
Done(n) == at' = NoWait /\ chain' = Without(n)

\* connectServerLocked(n, c) up to its first wait.
Connect(n, c) ==
  LET free == CHOOSE i \in Clients : \A k \in Names : k = n \/ entries[k].client # i IN
  /\ tools' = Unregistered(tools, entries, {n})
  /\ IF c.on
       THEN /\ entries' = [entries EXCEPT ![n] =
                 [client |-> free, target |-> c.target, st |-> "connecting", tools |-> {}, stream |-> None]]
            /\ at' = Wait("init", n, c, 0)
            /\ failed' = failed \ {n} /\ UNCHANGED chain
       ELSE entries' = Dropped(entries, {n}) /\ Done(n) /\ UNCHANGED failed

Running(op) == chain # <<>> /\ at.at = "next" /\ Head(chain).op = op

BeginConnect ==
  /\ Running("connect")
  /\ \E n \in Head(chain).todo : Connect(n, Head(chain).cfg[n])
  /\ UNCHANGED <<config, baseline, server, missed, edits, fails>>

BeginRemove ==
  /\ Running("remove")
  /\ LET n == Head(chain).name IN
     IF config[n] = NoConfig THEN UNCHANGED <<config, baseline, entries, tools>>
     ELSE /\ config' = [config EXCEPT ![n] = NoConfig] /\ baseline' = config'
          /\ Disconnect({n})
  /\ Done(None)
  /\ UNCHANGED <<server, failed, missed, edits, fails>>

\* Slip: servers the configuration no longer names stay.
BeginAllKeeping ==
  /\ Running("all")
  /\ LET named == {n \in Names : config[n] # NoConfig} IN
     chain' = IF named = {} THEN Tail(chain) ELSE [chain EXCEPT ![1] = Job("connect", None, named, config)]
  /\ UNCHANGED <<config, baseline, at, entries, tools, server, failed, missed, edits, fails>>

\* reconnectAll(): servers the configuration no longer names go first; it holds
\* on to the configuration of this moment.
BeginAll ==
  /\ Running("all")
  /\ LET named == {n \in Names : config[n] # NoConfig} IN
     /\ Disconnect(Names \ named)
     /\ chain' = IF named = {} THEN Tail(chain) ELSE [chain EXCEPT ![1] = Job("connect", None, named, config)]
  /\ UNCHANGED <<config, baseline, at, server, failed, missed, edits, fails>>

BeginRefresh ==
  /\ Running("refresh")
  /\ LET n == Head(chain).name IN
     IF entries[n].st = "connected"
       THEN at' = Wait("ask", n, NoConfig, 0) /\ UNCHANGED chain
       ELSE Done(None)
  /\ UNCHANGED <<config, baseline, entries, tools, server, failed, missed, edits, fails>>

Moved(e, st, stream) ==
  [client |-> e.client, target |-> e.target, st |-> st, tools |-> e.tools, stream |-> stream]

\* connect() of the client: initialize, the version, initialized; it may hear of
\* changes at once, or opens a stream for them.
Initialized(stream) ==
  /\ at' = Wait("ask", at.name, at.cfg, 0)
  /\ entries' = [entries EXCEPT ![at.name] = Moved(@, "connected", stream)]
  /\ UNCHANGED <<config, baseline, chain, tools, server, failed, missed, edits, fails>>
InitializedStdio == at.at = "init" /\ at.cfg.target \in Stdio /\ Initialized("open")
InitializedHttp  == at.at = "init" /\ at.cfg.target \in Http /\ Initialized("opening")

\* The server takes up tools/list; its answer is on its way.
Asked ==
  /\ at.at = "ask" /\ at' = Wait("answer", at.name, at.cfg, server[entries[at.name].target])
  /\ missed' = missed \ {at.name}
  /\ UNCHANGED <<config, baseline, chain, entries, tools, server, failed, edits, fails>>

\* Slip: what the server no longer offers stays registered.
AnsweredAdding ==
  /\ at.at = "answer"
  /\ LET n == at.name IN
     IF at.cfg # NoConfig /\ Stale(n, at.cfg.target)
       THEN Disconnect({n})
       ELSE /\ entries' = [entries EXCEPT ![n].tools = {at.got}]
            /\ tools' = Registered(tools, n, entries[n].client, at.got)
  /\ Done(at.name)
  /\ UNCHANGED <<config, baseline, server, failed, missed, edits, fails>>

\* The answer to tools/list: of a connection, unless its configuration has been
\* changed meanwhile, or of a refresh.
Answered ==
  /\ at.at = "answer"
  /\ LET n == at.name IN
     IF at.cfg # NoConfig /\ Stale(n, at.cfg.target)
       THEN Disconnect({n})
       ELSE /\ entries' = [entries EXCEPT ![n].tools = {at.got}]
            /\ tools' = Registered(Unregistered(tools, entries, {n}), n, entries[n].client, at.got)
  /\ Done(at.name)
  /\ UNCHANGED <<config, baseline, server, failed, missed, edits, fails>>

\* The catch of connectServerLocked() and that of a refresh, which keeps its tools.
GivesUp ==
  /\ IF at.cfg # NoConfig
       THEN /\ entries' = Dropped(entries, {at.name}) /\ failed' = failed \cup {at.name}
            /\ UNCHANGED missed
       ELSE missed' = missed \cup {at.name} /\ UNCHANGED <<entries, failed>>
  /\ Done(at.name)

\* A refused, failed or late answer.
Fails(by) ==
  /\ at.at # "next" /\ entries[at.name].target \in by /\ Fault /\ GivesUp
  /\ UNCHANGED <<config, baseline, tools, server, edits>>
FailsStdio == Fails(Stdio)
FailsHttp  == Fails(Http)

-----------------------------------------------------------------------------
(* The servers.                                                            *)

\* A process exits: whoever waits for it fails; its entry and tools stay.
Exit(n) ==
  /\ entries[n].target \in Stdio /\ entries[n].st # "disconnected" /\ Fault
  /\ IF at.name = n
       THEN IF at.cfg # NoConfig THEN GivesUp
            ELSE /\ entries' = [entries EXCEPT ![n] = Moved(@, "disconnected", None)]
                 /\ missed' = missed \cup {n} /\ Done(n) /\ UNCHANGED failed
       ELSE /\ entries' = [entries EXCEPT ![n] = Moved(@, "disconnected", None)]
            /\ UNCHANGED <<failed, missed, at, chain>>
  /\ UNCHANGED <<config, baseline, tools, server, edits>>

\* Slip: the callback is set when the connection is complete.
HearsLate(n) == entries[n].stream = "open" /\ at.name # n

\* onToolsChanged() is called for what comes over an open stream.
Hears(n) == entries[n].stream = "open"

\* A server changes its tools and says so to the clients that hear it, in some
\* order.
Change(t) ==
  /\ server[t] < MaxChanges /\ server' = [server EXCEPT ![t] = @ + 1]
  /\ LET of == {n \in Names : entries[n].target = t /\ entries[n].st = "connected"} IN
     /\ \E q \in SetToSeqs({n \in of : Hears(n)}) :
          chain' = chain \o [i \in DOMAIN q |-> Job("refresh", q[i], {}, NoConfigs)]
     /\ missed' = missed \cup {n \in of : entries[n].stream # "open"}
  /\ UNCHANGED <<config, baseline, at, entries, tools, failed, edits, fails>>

\* openEventStream() and scheduleStreamRetry(): the stream opens or is refused,
\* which is for good; a broken one is opened again, one the server ends is not.
StreamOpens(n) ==
  /\ entries[n].stream \in {"opening", "retry"}
  /\ \E s \in {"open", "ended"} : entries' = [entries EXCEPT ![n].stream = s]
  /\ UNCHANGED <<config, baseline, chain, at, tools, server, failed, missed, edits, fails>>
StreamEnds(n) ==
  /\ entries[n].target \in Http /\ entries[n].stream \in {"opening", "open"} /\ Fault
  /\ \E s \in {"ended", "retry"} : entries' = [entries EXCEPT ![n].stream = s]
  /\ UNCHANGED <<config, baseline, chain, at, tools, server, failed, missed, edits>>

-----------------------------------------------------------------------------
Init ==
  /\ config \in [Names -> {NoConfig} \cup {c \in Configs : c.on}] /\ baseline = config
  /\ chain = <<Job("all", None, {}, NoConfigs)>> /\ at = NoWait
  /\ entries = [n \in Names |-> NoEntry] /\ tools = {}
  /\ server = [t \in Targets |-> 0] /\ failed = {} /\ missed = {}
  /\ edits = 0 /\ fails = 0

Next ==
  \/ BeginConnect \/ BeginRemove \/ BeginAll \/ BeginRefresh
  \/ InitializedStdio \/ InitializedHttp \/ Asked \/ Answered \/ FailsStdio \/ FailsHttp \/ Refresh \/ UpdateConfig
  \/ \E n \in Names : \/ RemoveServer(n) \/ Exit(n) \/ StreamOpens(n) \/ StreamEnds(n)
                      \/ \E c \in Configs : Upsert(n, c)
  \/ \E t \in Targets : Change(t)

Spec == Init /\ [][Next]_vars

-----------------------------------------------------------------------------
(* Properties.                                                             *)

\* The state has its type, and what is waited for belongs to a job of the chain.
TypeOK ==
  /\ config \in [Names -> Configs \cup {NoConfig}] /\ baseline = config
  /\ \A i \in 1..Len(chain) :
       /\ chain[i].op \in {"connect", "remove", "all", "refresh"}
       /\ chain[i].name \in Names \cup {None} /\ chain[i].todo \subseteq Names
  /\ at.at \in {"next", "init", "ask", "answer"} /\ (at.at # "next" => chain # <<>>)
  /\ entries \in [Names -> [client : Clients \cup {0}, target : Targets \cup {None},
       st : {None, "connecting", "connected", "disconnected"}, tools : SUBSET (0..MaxChanges),
       stream : {None, "opening", "open", "retry", "ended"}]]
  /\ tools \subseteq [server : Names, tool : 0..MaxChanges, client : Clients]
  /\ server \in [Targets -> 0..MaxChanges]
  /\ failed \subseteq Names /\ missed \subseteq Names
  /\ edits \in 0..MaxEdits /\ fails \in 0..MaxFails

\* The registry holds exactly the tools of the servers that are entered, each
\* with the client of its server.
RegistryIsEntries ==
  tools = UNION {{[server |-> n, tool |-> v, client |-> entries[n].client] : v \in entries[n].tools} : n \in Names}

\* What holds of the tools in every state (registerTools(), unregisterTools()).
Tools == TypeOK /\ RegistryIsEntries

\* When the chain is empty the servers entered are those the configuration
\* names and enables, at the place it gives; one that is missing has failed.
Applied ==
  chain = <<>> => \A n \in Names :
    /\ entries[n] # NoEntry => config[n] = [target |-> entries[n].target, on |-> TRUE]
    /\ config[n].on => entries[n] # NoEntry \/ n \in failed

\* When the chain is empty the tools of a connected server are those it offers
\* now, unless it could not say that they have changed.
Fresh ==
  chain = <<>> => \A n \in Names :
    entries[n].st = "connected" /\ n \notin missed => entries[n].tools = {server[entries[n].target]}

=============================================================================
