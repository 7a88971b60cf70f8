---------------------------- MODULE TablesProofs ----------------------------
(***************************************************************************)
(* Theorems about the tables of the service.  Mcp, for every set of        *)
(* servers and every number of edits, changes and failures: the registry   *)
(* holds the tools of the servers that are entered, and when the chain is  *)
(* empty these are the configured ones with the tools they offer now.      *)
(* Login, for every number of pages, codes and requests: what is saved was *)
(* accepted and is what the provider uses.  Records, for every number of   *)
(* events, refusals and crashes: history, viewers, rows, old records and   *)
(* feed agree on what has come.                                            *)
(***************************************************************************)
EXTENDS MCTables, SequenceTheorems, FiniteSetTheorems, WellFoundedInduction, TLAPS

-----------------------------------------------------------------------------
(* The inductive invariant.                                                *)

Entry ==
  {NoEntry} \cup
  [client : Clients, target : Targets, st : {"connecting", "connected", "disconnected"},
   tools : SUBSET (0..MaxChanges), stream : {None, "opening", "open", "retry", "ended"}]

Table == [Names -> Configs \cup {NoConfig}]

\* A job to connect names servers and has their configuration, the others
\* name at most one.
Jobs ==
  {j \in [op : {"connect", "remove", "all", "refresh"}, name : Names \cup {None},
          todo : SUBSET Names, cfg : Table] :
     /\ j.op = "connect" => j.todo # {} /\ \A n \in j.todo : j.cfg[n] \in Configs
     /\ j.op # "connect" => j.todo = {}
     /\ j.op \in {"remove", "refresh"} => j.name \in Names}

Typed ==
  /\ config \in Table /\ baseline = config /\ chain \in Seq(Jobs)
  /\ entries \in [Names -> Entry]
  /\ server \in [Targets -> 0..MaxChanges]
  /\ failed \subseteq Names /\ missed \subseteq Names
  /\ edits \in 0..MaxEdits /\ fails \in 0..MaxFails

\* What is waited for is a request of the job at the head of the chain: that
\* of a connection under its own configuration, or that of a refresh.
Awaits ==
  /\ at \in [at : {"init", "ask", "answer"}, name : Names, cfg : Configs \cup {NoConfig}, got : 0..MaxChanges]
  /\ chain # <<>>
  /\ entries[at.name].st = IF at.at = "init" THEN "connecting" ELSE "connected"
  /\ IF at.cfg = NoConfig
       THEN Head(chain).op = "refresh" /\ Head(chain).name = at.name /\ at.at # "init"
       ELSE /\ Head(chain).op = "connect" /\ at.name \in Head(chain).todo
            /\ at.cfg = Head(chain).cfg[at.name] /\ at.cfg.on
            /\ entries[at.name].target = at.cfg.target /\ entries[at.name].tools = {}
Waits == at = NoWait \/ Awaits

\* Nobody has tools its server has never offered, and an answer is no older
\* than what it replaces.
Offered ==
  /\ \A n \in Names : \A v \in entries[n].tools : v <= server[entries[n].target]
  /\ at.at = "answer" =>
       at.got <= server[entries[at.name].target] /\ \A v \in entries[at.name].tools : v <= at.got

\* The entry of n is what the configuration wants, or could not be had.
Right(n) ==
  /\ entries[n] # NoEntry => config[n] = [target |-> entries[n].target, on |-> TRUE]
  /\ config[n].on => entries[n] # NoEntry \/ n \in failed

\* The job j makes the entry of n right.
Serves(j, n) ==
  \/ j.op = "all"
  \/ j.op = "connect" /\ n \in j.todo /\ (config[n].on => j.cfg[n] = config[n])

\* A job whose configuration is no longer that of n is followed by one that
\* makes its work good.
Overtaken ==
  \A i \in DOMAIN chain, n \in Names :
    chain[i].op = "connect" /\ n \in chain[i].todo /\ ~Serves(chain[i], n) =>
      \E k \in DOMAIN chain : k > i /\ Serves(chain[k], n)

WillApply == \A n \in Names : Right(n) \/ \E i \in DOMAIN chain : Serves(chain[i], n)

\* The entry of n has the tools its server offers now, or will be given them:
\* by the answer awaited or by a refresh that has still to ask.
Informed(n) ==
  \/ entries[n].tools = {server[entries[n].target]}
  \/ at.name = n /\ at.at = "ask"
  \/ at.name = n /\ at.at = "answer" /\ at.got = server[entries[n].target]
  \/ \E i \in DOMAIN chain : chain[i].op = "refresh" /\ chain[i].name = n /\ (i = 1 => at.at = "next")

WillFresh == \A n \in Names : entries[n].st = "connected" /\ n \notin missed => Informed(n)

IInv == Typed /\ Waits /\ RegistryIsEntries /\ Offered /\ Overtaken /\ WillApply /\ WillFresh

-----------------------------------------------------------------------------
(* The constants and the types.                                            *)

LEMMA Constants ==
  /\ None \notin Names /\ None \notin Targets /\ Http \cap Stdio = {}
  /\ NoConfig \notin Configs /\ ~NoConfig.on
  /\ NoEntry.st = None /\ NoEntry.tools = {} /\ NoEntry.target = None
  /\ NoConfigs \in Table /\ NoWait.at = "next" /\ NoWait.name = None
BY McpAssumption DEF McpAssumption, Configs, NoConfig, Targets, NoEntry, NoConfigs, Table, NoWait, Wait

LEMMA EntryFields ==
  ASSUME NEW e \in Entry
  PROVE  /\ e.st \in {None, "connecting", "connected", "disconnected"}
         /\ e.tools \in SUBSET (0..MaxChanges)
         /\ e # NoEntry => e.client \in Clients /\ e.target \in Targets /\ e.st # None
         /\ e.st = None => e = NoEntry
         /\ e.target \in Targets \cup {None} /\ (e.target \in Targets => e # NoEntry)
         /\ e.client \in Clients \cup {0}
         /\ e.stream \in {None, "opening", "open", "retry", "ended"}
BY Constants DEF Entry, NoEntry, None

LEMMA EntryMade ==
  ASSUME NEW c \in Clients, NEW t \in Targets, NEW s \in {"connecting", "connected", "disconnected"},
         NEW v \in SUBSET (0..MaxChanges), NEW r \in {None, "opening", "open", "retry", "ended"}
  PROVE  [client |-> c, target |-> t, st |-> s, tools |-> v, stream |-> r] \in Entry
BY DEF Entry

LEMMA JobFields ==
  ASSUME NEW j \in Jobs
  PROVE  /\ j.op \in {"connect", "remove", "all", "refresh"}
         /\ j.todo \in SUBSET Names /\ j.cfg \in Table /\ j.name \in Names \cup {None}
         /\ j.op = "connect" => j.todo # {} /\ \A n \in j.todo : j.cfg[n] \in Configs
         /\ j.op # "connect" => j.todo = {}
         /\ j.op \in {"remove", "refresh"} => j.name \in Names
BY DEF Jobs

LEMMA JobMade ==
  ASSUME NEW op \in {"connect", "remove", "all", "refresh"}, NEW n \in Names \cup {None},
         NEW t \in SUBSET Names, NEW c \in Table,
         op = "connect" => t # {} /\ \A m \in t : c[m] \in Configs,
         op # "connect" => t = {},
         op \in {"remove", "refresh"} => n \in Names
  PROVE  /\ Job(op, n, t, c) \in Jobs /\ Job(op, n, t, c).op = op /\ Job(op, n, t, c).name = n
         /\ Job(op, n, t, c).todo = t /\ Job(op, n, t, c).cfg = c
BY DEF Job, Jobs

\* There is a client for another server: fewer than all names have one.
LEMMA FreeClient ==
  ASSUME NEW e \in [Names -> Entry], NEW n \in Names
  PROVE  \E i \in Clients : \A k \in Names : k = n \/ e[k].client # i
<1> DEFINE others == Names \ {n}
           f == [k \in others |-> e[k].client]
           T == {f[k] : k \in others}
<1>1. IsFiniteSet(Names) /\ Cardinality(Names) \in Nat
  BY McpAssumption, FS_CardinalityType DEF McpAssumption
<1>2. IsFiniteSet(others) /\ Cardinality(others) = Cardinality(Names) - 1
  BY <1>1, FS_RemoveElement
<1>3. f \in Surjection(others, T)
  BY DEF Surjection
<1> HIDE DEF f, others
<1>4. IsFiniteSet(T) /\ Cardinality(T) <= Cardinality(Names) - 1 /\ Cardinality(T) \in Nat
  BY <1>2, <1>3, FS_Surjection, FS_CardinalityType
<1>5. Cardinality(Clients) = Cardinality(Names)
  BY <1>1, FS_Interval DEF Clients
<1>6. ~(Clients \subseteq T)
  <2> HIDE DEF T
  <2> QED BY <1>1, <1>4, <1>5, FS_Subset
<1>7. PICK i \in Clients : i \notin T
  BY <1>6
<1>8. \A k \in Names : k = n \/ e[k].client # i
  BY <1>7 DEF T, f, others
<1> QED BY <1>8

-----------------------------------------------------------------------------
(* The chain.                                                              *)

Served(n)      == \E i \in DOMAIN chain : Serves(chain[i], n)
ServedLater(n) == \E i \in DOMAIN chain : i > 1 /\ Serves(chain[i], n)
Asking(n)      == \E i \in DOMAIN chain : chain[i].op = "refresh" /\ chain[i].name = n
AskingLater(n) == \E i \in DOMAIN chain : i > 1 /\ chain[i].op = "refresh" /\ chain[i].name = n

\* A step keeps the jobs behind the head, which move up by r.
Behind(r) == \A i \in DOMAIN chain : i > 1 => i - r \in DOMAIN chain' /\ chain'[i - r] = chain[i]

\* Jobs serve as before where the configuration is as before or is off.
Milder == \A n \in Names : config'[n] = config[n] \/ ~config'[n].on

LEMMA ServesStill ==
  ASSUME NEW n \in Names, Milder, NEW i, NEW k, chain'[k] = chain[i], Serves(chain[i], n)
  PROVE  Serves(chain[k], n)'
BY DEF Serves, Milder

LEMMA ChainFields ==
  ASSUME chain \in Seq(Jobs)
  PROVE  /\ Len(chain) \in Nat /\ DOMAIN chain = 1..Len(chain)
         /\ \A i \in DOMAIN chain : chain[i] \in Jobs
         /\ chain # <<>> => 1 \in DOMAIN chain /\ Head(chain) = chain[1] /\ Head(chain) \in Jobs
         /\ chain # <<>> => /\ Tail(chain) \in Seq(Jobs) /\ Len(Tail(chain)) = Len(chain) - 1
                            /\ DOMAIN Tail(chain) = 1..Len(chain) - 1
                            /\ \A i \in 1..Len(chain) - 1 : Tail(chain)[i] = chain[i + 1]
<1>1. /\ Len(chain) \in Nat /\ DOMAIN chain = 1..Len(chain)
      /\ \A i \in DOMAIN chain : chain[i] \in Jobs
  BY LenProperties, ElementOfSeq
<1>2. ASSUME chain # <<>>
      PROVE  /\ 1 \in DOMAIN chain /\ Head(chain) = chain[1] /\ Head(chain) \in Jobs
             /\ Tail(chain) \in Seq(Jobs) /\ Len(Tail(chain)) = Len(chain) - 1
             /\ DOMAIN Tail(chain) = 1..Len(chain) - 1
             /\ \A i \in 1..Len(chain) - 1 : Tail(chain)[i] = chain[i + 1]
  BY <1>1, <1>2, HeadTailProperties, LenProperties, EmptySeq
<1> QED BY <1>1, <1>2

\* When the head is done with for n the jobs behind it move up, or it stays
\* for the others.
LEMMA WithoutIs ==
  ASSUME chain \in Seq(Jobs), chain # <<>>, NEW n, chain' = Without(n)
  PROVE  /\ chain' \in Seq(Jobs)
         /\ \/ /\ chain' = Tail(chain) /\ Behind(1) /\ chain[1].todo \subseteq {n}
               /\ \A i \in DOMAIN chain' : i + 1 \in DOMAIN chain /\ chain'[i] = chain[i + 1]
            \/ /\ Behind(0) /\ DOMAIN chain' = DOMAIN chain /\ chain' # <<>>
               /\ \A i \in DOMAIN chain' : i # 1 => chain'[i] = chain[i]
               /\ chain[1].op = "connect" /\ chain'[1].op = "connect"
               /\ chain'[1].cfg = chain[1].cfg /\ chain'[1].todo = chain[1].todo \ {n}
<1> DEFINE j == Head(chain)
           l == Job(j.op, j.name, j.todo \ {n}, j.cfg)
<1>1. /\ j \in Jobs /\ j = chain[1] /\ 1 \in 1..Len(chain) /\ Len(chain) \in Nat
      /\ DOMAIN chain = 1..Len(chain) /\ \A i \in DOMAIN chain : chain[i] \in Jobs
  BY ChainFields
<1>2. CASE j.todo \ {n} = {}
  <2>1. chain' = Tail(chain)
    BY <1>2 DEF Without
  <2>2. chain' \in Seq(Jobs) /\ DOMAIN chain' = 1..Len(chain) - 1
        /\ \A i \in DOMAIN chain' : chain'[i] = chain[i + 1]
    BY <2>1, ChainFields
  <2>3. \A i \in 1..Len(chain) : i > 1 => i - 1 \in 1..Len(chain) - 1 /\ (i - 1) + 1 = i
    BY <1>1
  <2>4. Behind(1)
    BY <1>1, <2>2, <2>3 DEF Behind
  <2>5. \A i \in DOMAIN chain' : i + 1 \in DOMAIN chain /\ chain'[i] = chain[i + 1]
    BY <1>1, <2>2
  <2> QED BY <1>1, <1>2, <2>1, <2>2, <2>4, <2>5
<1>3. CASE j.todo \ {n} # {}
  <2>1. j.op = "connect"
    BY <1>1, <1>3, JobFields
  <2>2. l \in Jobs /\ l.op = "connect" /\ l.cfg = j.cfg /\ l.todo = j.todo \ {n}
    <3>1. /\ j.op = "connect" /\ j.name \in Names \cup {None} /\ j.cfg \in Table
          /\ j.todo \ {n} \in SUBSET Names /\ \A m \in j.todo \ {n} : j.cfg[m] \in Configs
      BY <1>1, <2>1, JobFields
    <3>2. l = Job("connect", j.name, j.todo \ {n}, j.cfg)
      BY <3>1
    <3> HIDE DEF l
    <3> QED BY <1>3, <3>1, <3>2, JobMade
  <2> HIDE DEF l
  <2>3. chain' = [chain EXCEPT ![1] = l]
    BY <1>3 DEF Without, l
  <2>4. /\ chain' \in Seq(Jobs) /\ Len(chain') = Len(chain)
        /\ \A i \in 1..Len(chain) : chain'[i] = IF i = 1 THEN l ELSE chain[i]
    BY <1>1, <2>2, <2>3, ExceptSeq
  <2>5. DOMAIN chain' = DOMAIN chain /\ chain' # <<>>
    BY <1>1, <2>4, LenProperties, EmptySeq
  <2>6. Behind(0)
    BY <1>1, <2>4, <2>5 DEF Behind
  <2> QED BY <1>1, <2>1, <2>2, <2>4, <2>5, <2>6
<1> QED BY <1>2, <1>3

\* What the step that ends the head's work for n leaves to the others.
LEMMA DoneServes ==
  ASSUME chain \in Seq(Jobs), chain # <<>>, NEW n, chain' = Without(n), Milder, Overtaken
  PROVE  /\ Overtaken'
         /\ \A m \in Names : ServedLater(m) => Served(m)'
         /\ \A m \in Names : m # n /\ chain[1].op = "connect" /\ Serves(chain[1], m) => Served(m)'
         /\ \A m \in Names : AskingLater(m) => Asking(m)'
<1>1. PICK r \in {0, 1} :
        /\ Behind(r)
        /\ \A i \in DOMAIN chain' : i + r \in DOMAIN chain /\ (i + r # 1 => chain'[i] = chain[i + r])
        /\ r = 1 => chain[1].todo \subseteq {n}
        /\ r = 0 => /\ 1 \in DOMAIN chain'
                    /\ chain[1].op = "connect" /\ chain'[1].op = "connect"
                    /\ chain'[1].cfg = chain[1].cfg /\ chain'[1].todo = chain[1].todo \ {n}
  <2>1. chain' \in Seq(Jobs) /\ DOMAIN chain' \subseteq Nat /\ DOMAIN chain \subseteq Nat \ {0}
    BY WithoutIs, ChainFields, LenProperties
  <2>2. CASE chain' = Tail(chain) /\ Behind(1) /\ chain[1].todo \subseteq {n}
             /\ \A i \in DOMAIN chain' : i + 1 \in DOMAIN chain /\ chain'[i] = chain[i + 1]
    BY <2>2
  <2>3. CASE /\ Behind(0) /\ DOMAIN chain' = DOMAIN chain /\ chain' # <<>>
             /\ \A i \in DOMAIN chain' : i # 1 => chain'[i] = chain[i]
             /\ chain[1].op = "connect" /\ chain'[1].op = "connect"
             /\ chain'[1].cfg = chain[1].cfg /\ chain'[1].todo = chain[1].todo \ {n}
    <3>1. 1 \in DOMAIN chain
      BY ChainFields
    <3>2. \A i \in DOMAIN chain' : i + 0 \in DOMAIN chain /\ (i + 0 # 1 => chain'[i] = chain[i + 0])
      BY <2>1, <2>3
    <3> QED BY <2>3, <3>1, <3>2
  <2> QED BY <2>2, <2>3, WithoutIs
<1>2. DOMAIN chain \subseteq Nat \ {0} /\ DOMAIN chain' \subseteq Nat \ {0}
  BY WithoutIs, ChainFields, LenProperties
<1>3. ASSUME NEW m \in Names, NEW i \in DOMAIN chain, i > 1, Serves(chain[i], m)
      PROVE  i - r \in DOMAIN chain' /\ Serves(chain[i - r], m)'
  <2>1. i - r \in DOMAIN chain' /\ chain'[i - r] = chain[i]
    BY <1>1, <1>3 DEF Behind
  <2> QED BY <1>3, <2>1, ServesStill
<1>4. \A m \in Names : ServedLater(m) => Served(m)'
  BY <1>3 DEF ServedLater, Served
<1>5. ASSUME NEW m \in Names, m # n, chain[1].op = "connect", Serves(chain[1], m)
      PROVE  Served(m)'
  <2>1. m \in chain[1].todo
    BY <1>5 DEF Serves
  <2>2. r = 0 /\ 1 \in DOMAIN chain' /\ chain'[1].op = "connect" /\ m \in chain'[1].todo
    BY <1>1, <1>5, <2>1
  <2>3. Serves(chain[1], m)'
    BY <1>1, <1>5, <2>1, <2>2 DEF Serves, Milder
  <2> QED BY <2>2, <2>3 DEF Served
<1>6. \A m \in Names : AskingLater(m) => Asking(m)'
  BY <1>1 DEF AskingLater, Asking, Behind
<1>7. Overtaken'
  <2> SUFFICES ASSUME NEW i \in DOMAIN chain', NEW m \in Names,
                      chain'[i].op = "connect", m \in chain'[i].todo, ~Serves(chain[i], m)'
               PROVE  \E k \in DOMAIN chain' : k > i /\ Serves(chain[k], m)'
    BY DEF Overtaken
  <2>1. i + r \in DOMAIN chain /\ chain[i + r].op = "connect" /\ m \in chain[i + r].todo
        /\ chain'[i].cfg = chain[i + r].cfg
    BY <1>1, <1>2
  <2>2. ~Serves(chain[i + r], m)
    BY <2>1 DEF Serves, Milder
  <2>3. PICK k \in DOMAIN chain : k > i + r /\ Serves(chain[k], m)
    BY <2>1, <2>2 DEF Overtaken
  <2>4. k > 1 /\ k - r > i
    BY <1>2, <2>3
  <2> QED BY <1>3, <2>3, <2>4
<1> QED BY <1>4, <1>5, <1>6, <1>7

LEMMA Appended ==
  ASSUME chain \in Seq(Jobs), NEW j \in Jobs, chain' = Append(chain, j)
  PROVE  /\ chain' \in Seq(Jobs) /\ chain' # <<>>
         /\ Len(chain) + 1 \in DOMAIN chain' /\ chain'[Len(chain) + 1] = j
         /\ \A i \in DOMAIN chain : i \in DOMAIN chain' /\ chain'[i] = chain[i] /\ i < Len(chain) + 1
         /\ \A i \in DOMAIN chain' : i \in DOMAIN chain \/ i = Len(chain) + 1
         /\ chain # <<>> => Head(chain') = Head(chain)
<1>1. /\ chain' \in Seq(Jobs) /\ chain' # <<>> /\ Len(chain') = Len(chain) + 1
      /\ \A i \in 1..Len(chain) : chain'[i] = chain[i]
      /\ chain'[Len(chain) + 1] = j
  BY AppendProperties
<1>2. Len(chain) \in Nat /\ DOMAIN chain = 1..Len(chain) /\ DOMAIN chain' = 1..Len(chain')
  BY <1>1, LenProperties
<1>3. chain # <<>> => Head(chain') = Head(chain)
  BY HeadTailAppend
<1> QED BY <1>1, <1>2, <1>3

-----------------------------------------------------------------------------
(* Steps that leave the work under way alone.                              *)

LEMMA InitHolds == Init => IInv
<1> SUFFICES ASSUME Init PROVE IInv
  OBVIOUS
<1> DEFINE j == Job("all", None, {}, NoConfigs)
<1>1. j \in Jobs /\ j.op = "all"
  BY Constants, JobMade
<1> HIDE DEF j
<1>2. chain = <<j>> /\ chain \in Seq(Jobs) /\ 1 \in DOMAIN chain /\ chain[1] = j /\ DOMAIN chain = {1}
  BY <1>1 DEF Init, j
<1>3. Typed
  <2>1. config \in Table /\ entries \in [Names -> Entry]
    BY DEF Init, Table, Entry
  <2>2. 0 \in 0..MaxEdits /\ 0 \in 0..MaxFails /\ 0 \in 0..MaxChanges
    BY McpAssumption DEF McpAssumption
  <2> QED BY <1>2, <2>1, <2>2 DEF Init, Typed
<1>4. \A n \in Names : entries[n] = NoEntry
  BY DEF Init
<1>5. at = NoWait /\ tools = {}
  BY DEF Init
<1>6. RegistryIsEntries
  BY <1>4, <1>5, Constants DEF RegistryIsEntries
<1>7. Offered /\ Waits
  BY <1>4, <1>5, Constants DEF Offered, Waits
<1>8. Overtaken /\ WillApply
  BY <1>1, <1>2 DEF Overtaken, WillApply, Serves
<1>9. WillFresh
  BY <1>4, Constants DEF WillFresh, None
<1> QED BY <1>3, <1>6, <1>7, <1>8, <1>9 DEF IInv

\* An edit changes the configuration and gives the chain a job that serves
\* whatever it has changed.
LEMMA EditKeeps ==
  ASSUME IInv, NEW j \in Jobs, edits' \in 0..MaxEdits, config' \in Table, baseline' = config',
         UNCHANGED <<at, entries, tools, server, failed, missed, fails>>,
         \/ /\ chain' = Append(chain, j)
            /\ \A m \in Names : j.op = "connect" /\ m \in j.todo => j.cfg[m] = config'[m]
            /\ \A m \in Names : config'[m] = config[m] \/ j.op = "all" \/ (j.op = "connect" /\ m \in j.todo)
         \/ chain' = chain /\ config' = config
  PROVE  IInv'
<1> USE DEF IInv
<1>1. CASE chain' = chain /\ config' = config
  <2>1. Typed'
    BY <1>1 DEF Typed
  <2>2. Waits' /\ RegistryIsEntries' /\ Offered'
    BY <1>1 DEF Waits, Awaits, RegistryIsEntries, Offered
  <2>3. Overtaken' /\ WillApply'
    BY <1>1 DEF Overtaken, WillApply, Serves, Right
  <2>4. WillFresh'
    BY <1>1 DEF WillFresh, Informed
  <2> QED BY <2>1, <2>2, <2>3, <2>4
<1>2. CASE /\ chain' = Append(chain, j)
           /\ \A m \in Names : j.op = "connect" /\ m \in j.todo => j.cfg[m] = config'[m]
           /\ \A m \in Names : config'[m] = config[m] \/ j.op = "all" \/ (j.op = "connect" /\ m \in j.todo)
  <2>l. PICK l : l = Len(chain) + 1
    OBVIOUS
  <2>0. chain \in Seq(Jobs)
    BY DEF Typed
  <2>1. /\ chain' \in Seq(Jobs) /\ chain' # <<>> /\ l \in DOMAIN chain' /\ chain'[l] = j
        /\ \A i \in DOMAIN chain : i \in DOMAIN chain' /\ chain'[i] = chain[i] /\ i < l
        /\ \A i \in DOMAIN chain' : i \in DOMAIN chain \/ i = l
        /\ chain # <<>> => Head(chain') = Head(chain)
    BY <1>2, <2>0, <2>l, Appended
  <2>2. Typed'
    BY <2>1 DEF Typed
  <2>3. Waits'
    BY <2>1 DEF Waits, Awaits
  <2>4. RegistryIsEntries' /\ Offered'
    BY DEF RegistryIsEntries, Offered
  <2>5. ASSUME NEW m \in Names, config'[m] # config[m]
        PROVE  Serves(chain[l], m)'
    BY <1>2, <2>1, <2>5 DEF Serves
  <2>6. ASSUME NEW m \in Names, config'[m] = config[m], NEW i \in DOMAIN chain
        PROVE  Serves(chain[i], m)' <=> Serves(chain[i], m)
    BY <2>1, <2>6 DEF Serves
  <2>7. Overtaken'
    <3> SUFFICES ASSUME NEW i \in DOMAIN chain', NEW m \in Names,
                        chain'[i].op = "connect", m \in chain'[i].todo, ~Serves(chain[i], m)'
                 PROVE  \E k \in DOMAIN chain' : k > i /\ Serves(chain[k], m)'
      BY DEF Overtaken
    <3>1. i # l
      BY <1>2, <2>1 DEF Serves
    <3>2. i \in DOMAIN chain /\ i < l
      BY <2>1, <3>1
    <3>3. CASE config'[m] = config[m]
      <4>1. PICK k \in DOMAIN chain : k > i /\ Serves(chain[k], m)
        BY <2>1, <2>6, <3>2, <3>3 DEF Overtaken
      <4> QED BY <2>1, <2>6, <3>3, <4>1
    <3>4. CASE config'[m] # config[m]
      <4>1. l > i
        BY <2>0, <2>l, <3>2, ChainFields
      <4> QED BY <2>1, <2>5, <3>4, <4>1
    <3> QED BY <3>3, <3>4
  <2>8. WillApply'
    <3> SUFFICES ASSUME NEW m \in Names
                 PROVE  Right(m)' \/ \E k \in DOMAIN chain' : Serves(chain[k], m)'
      BY DEF WillApply
    <3>1. CASE config'[m] = config[m]
      <4>1. Right(m) => Right(m)'
        BY <3>1 DEF Right
      <4> QED BY <2>1, <2>6, <3>1, <4>1 DEF WillApply
    <3>2. CASE config'[m] # config[m]
      BY <2>1, <2>5, <3>2
    <3> QED BY <3>1, <3>2
  <2>9. WillFresh'
    <3> SUFFICES ASSUME NEW m \in Names, Informed(m) PROVE Informed(m)'
      BY DEF WillFresh
    <3> QED BY <2>1 DEF Informed
  <2> QED BY <2>2, <2>3, <2>4, <2>7, <2>8, <2>9
<1> QED BY <1>1, <1>2

LEMMA UpsertKeeps ==
  ASSUME IInv, NEW n \in Names, NEW c \in Configs, Upsert(n, c)
  PROVE  IInv'
<1> DEFINE t == [NoConfigs EXCEPT ![n] = c]
           j == Job("connect", None, {n}, t)
<1>1. t \in Table /\ t[n] = c
  BY Constants DEF Table
<1> HIDE DEF t
<1>2. j \in Jobs /\ j.op = "connect" /\ j.todo = {n} /\ j.cfg[n] = c
  BY <1>1, JobMade
<1>3. /\ config' \in Table /\ config'[n] = c /\ \A m \in Names : m # n => config'[m] = config[m]
      /\ edits' \in 0..MaxEdits
  BY McpAssumption DEF Upsert, Edit, IInv, Typed, Table, McpAssumption
<1> HIDE DEF j
<1>4. chain' = Append(chain, j) /\ baseline' = config'
      /\ UNCHANGED <<at, entries, tools, server, failed, missed, fails>>
  BY DEF Upsert, j, t
<1>5. /\ \A m \in Names : j.op = "connect" /\ m \in j.todo => j.cfg[m] = config'[m]
      /\ \A m \in Names : config'[m] = config[m] \/ j.op = "all" \/ (j.op = "connect" /\ m \in j.todo)
  BY <1>2, <1>3
<1> QED BY <1>2, <1>3, <1>4, <1>5, EditKeeps

LEMMA RemoveServerKeeps ==
  ASSUME IInv, NEW n \in Names, RemoveServer(n)
  PROVE  IInv'
<1> DEFINE j == Job("remove", n, {}, NoConfigs)
<1>1. j \in Jobs /\ j.op = "remove"
  BY Constants, JobMade
<1>2. edits' \in 0..MaxEdits /\ config' \in Table /\ baseline' = config'
  BY McpAssumption DEF RemoveServer, Edit, IInv, Typed, McpAssumption
<1> HIDE DEF j
<1>3. chain' = Append(chain, j) /\ config' = config
      /\ UNCHANGED <<at, entries, tools, server, failed, missed, fails>>
  BY DEF RemoveServer, j
<1> QED BY <1>1, <1>2, <1>3, EditKeeps

LEMMA AllIsJob == Job("all", None, {}, NoConfigs) \in Jobs /\ Job("all", None, {}, NoConfigs).op = "all"
BY Constants, JobMade

LEMMA RefreshKeeps ==
  ASSUME IInv, Refresh
  PROVE  IInv'
<1> DEFINE j == Job("all", None, {}, NoConfigs)
<1>1. j \in Jobs /\ j.op = "all"
  BY AllIsJob
<1>2. edits' \in 0..MaxEdits /\ config' \in Table /\ baseline' = config'
  BY McpAssumption DEF Refresh, Edit, IInv, Typed, McpAssumption
<1> HIDE DEF j
<1>3. chain' = Append(chain, j) /\ config' = config
      /\ UNCHANGED <<at, entries, tools, server, failed, missed, fails>>
  BY DEF Refresh, j
<1> QED BY <1>1, <1>2, <1>3, EditKeeps

LEMMA UpdateConfigKeeps ==
  ASSUME IInv, UpdateConfig
  PROVE  IInv'
<1> DEFINE j == Job("all", None, {}, NoConfigs)
<1>1. j \in Jobs /\ j.op = "all"
  BY AllIsJob
<1>2. edits' \in 0..MaxEdits /\ config' \in Table /\ baseline' = config' /\ baseline = config
  BY McpAssumption DEF UpdateConfig, Edit, IInv, Typed, Table, McpAssumption
<1> HIDE DEF j
<1>3. chain' = (IF config' # config THEN Append(chain, j) ELSE chain)
      /\ UNCHANGED <<at, entries, tools, server, failed, missed, fails>>
  BY <1>2 DEF UpdateConfig, j
<1>4. CASE config' = config
  BY <1>1, <1>2, <1>3, <1>4, EditKeeps
<1>5. CASE config' # config
  <2>1. chain' = Append(chain, j)
    BY <1>3, <1>5
  <2> QED BY <1>1, <1>2, <1>3, <2>1, EditKeeps
<1> QED BY <1>4, <1>5

-----------------------------------------------------------------------------
(* The registry.                                                           *)

\* What the registry holds, one tool at a time.
LEMMA RegistryPoints ==
  RegistryIsEntries <=>
    \A x : x \in tools <=> \E n \in Names : \E v \in entries[n].tools :
                             x = [server |-> n, tool |-> v, client |-> entries[n].client]
BY DEF RegistryIsEntries

LEMMA UnregisteredIs ==
  ASSUME RegistryIsEntries, NEW N \in SUBSET Names
  PROVE  \A x : x \in Unregistered(tools, entries, N) <=> x \in tools /\ x.server \notin N
<1>1. \A x \in tools : x.tool \in entries[x.server].tools
  BY RegistryPoints
<1> QED BY <1>1 DEF Unregistered

\* The servers N are entered anew, all others stay.
LEMMA RegistryMoves ==
  ASSUME RegistryIsEntries, NEW N \in SUBSET Names,
         \A m \in Names \ N : entries'[m].tools = entries[m].tools /\ entries'[m].client = entries[m].client,
         \A x : x \in tools' <=>
           \/ x \in tools /\ x.server \notin N
           \/ \E n \in N : \E v \in entries'[n].tools :
                x = [server |-> n, tool |-> v, client |-> entries'[n].client]
  PROVE  RegistryIsEntries'
<1> SUFFICES ASSUME NEW x
             PROVE  x \in tools' <=> \E n \in Names : \E v \in entries'[n].tools :
                             x = [server |-> n, tool |-> v, client |-> entries'[n].client]
  BY DEF RegistryIsEntries
<1>1. x \in tools /\ x.server \notin N <=>
        \E n \in Names \ N : \E v \in entries[n].tools :
          x = [server |-> n, tool |-> v, client |-> entries[n].client]
  BY RegistryPoints
<1>2. x \in tools /\ x.server \notin N <=>
        \E n \in Names \ N : \E v \in entries'[n].tools :
          x = [server |-> n, tool |-> v, client |-> entries'[n].client]
  BY <1>1
<1> QED BY <1>2

\* disconnectServer()
LEMMA DropKeeps ==
  ASSUME entries \in [Names -> Entry], RegistryIsEntries, NEW N \in SUBSET Names,
         entries' = Dropped(entries, N),
         tools' = Unregistered(tools, entries, N) \/ (tools' = tools /\ \A n \in N : entries[n].tools = {})
  PROVE  /\ entries' \in [Names -> Entry] /\ RegistryIsEntries'
         /\ \A m \in Names : entries'[m] = IF m \in N THEN NoEntry ELSE entries[m]
<1>1. \A m \in Names : entries'[m] = IF m \in N THEN NoEntry ELSE entries[m]
  BY DEF Dropped
<1>2. entries' \in [Names -> Entry]
  BY DEF Dropped, Entry
<1>3. \A x : x \in tools' <=> x \in tools /\ x.server \notin N
  <2>1. CASE tools' = Unregistered(tools, entries, N)
    BY <2>1, UnregisteredIs
  <2>2. CASE tools' = tools /\ \A n \in N : entries[n].tools = {}
    <3>1. \A x \in tools : x.server \in Names /\ entries[x.server].tools # {}
      BY RegistryPoints
    <3> QED BY <2>2, <3>1
  <2> QED BY <2>1, <2>2
<1>4. \A n \in N : entries'[n].tools = {}
  BY <1>1, Constants
<1> QED BY <1>1, <1>2, <1>3, <1>4, RegistryMoves

\* registerTools()
LEMMA RegisterKeeps ==
  ASSUME entries \in [Names -> Entry], RegistryIsEntries, NEW n \in Names, NEW v \in 0..MaxChanges,
         entries[n] # NoEntry,
         entries' = [entries EXCEPT ![n].tools = {v}],
         tools' = Registered(Unregistered(tools, entries, {n}), n, entries[n].client, v)
  PROVE  /\ entries' \in [Names -> Entry] /\ RegistryIsEntries'
         /\ \A m \in Names : m # n => entries'[m] = entries[m]
         /\ entries'[n].tools = {v} /\ entries'[n].target = entries[n].target
         /\ entries'[n].st = entries[n].st /\ entries'[n] # NoEntry
<1> DEFINE e == entries[n]
           f == [client |-> e.client, target |-> e.target, st |-> e.st, tools |-> {v}, stream |-> e.stream]
<1>1. e \in Entry /\ e \in [client : Clients, target : Targets, st : {"connecting", "connected", "disconnected"},
          tools : SUBSET (0..MaxChanges), stream : {None, "opening", "open", "retry", "ended"}]
  BY DEF Entry
<1>2. [e EXCEPT !.tools = {v}] = f
  BY <1>1
<1>3. f \in Entry /\ f # NoEntry
  BY <1>1, Constants DEF Entry, NoEntry
<1>4. entries' = [entries EXCEPT ![n] = f]
  BY <1>2
<1>5. f.tools = {v} /\ f.target = e.target /\ f.st = e.st /\ f.client = e.client
  OBVIOUS
<1> HIDE DEF f
<1>6. entries' \in [Names -> Entry] /\ entries'[n] = f /\ \A m \in Names : m # n => entries'[m] = entries[m]
  BY <1>3, <1>4
<1>7. \A x : x \in tools' <=>
        \/ x \in tools /\ x.server \notin {n}
        \/ x = [server |-> n, tool |-> v, client |-> e.client]
  <2>1. \A x : x \in Unregistered(tools, entries, {n}) <=> x \in tools /\ x.server \notin {n}
    BY UnregisteredIs
  <2> QED BY <2>1 DEF Registered
<1>8. RegistryIsEntries'
  <2>1. \A x : x \in tools' <=>
           \/ x \in tools /\ x.server \notin {n}
           \/ \E k \in {n} : \E w \in entries'[k].tools :
                x = [server |-> k, tool |-> w, client |-> entries'[k].client]
    BY <1>5, <1>6, <1>7
  <2>2. \A m \in Names \ {n} : entries'[m].tools = entries[m].tools /\ entries'[m].client = entries[m].client
    BY <1>6
  <2> QED BY <2>1, <2>2, RegistryMoves
<1> QED BY <1>3, <1>5, <1>6, <1>8

\* The state of a connection or of its stream changes, and no tools.
LEMMA MoveKeeps ==
  ASSUME entries \in [Names -> Entry], RegistryIsEntries, NEW n \in Names, entries[n] # NoEntry,
         NEW st \in {"connecting", "connected", "disconnected"},
         NEW stream \in {None, "opening", "open", "retry", "ended"},
         \/ entries' = [entries EXCEPT ![n] = Moved(@, st, stream)]
         \/ entries' = [entries EXCEPT ![n].stream = stream] /\ st = entries[n].st,
         tools' = tools
  PROVE  /\ entries' \in [Names -> Entry] /\ RegistryIsEntries'
         /\ \A m \in Names : m # n => entries'[m] = entries[m]
         /\ entries'[n].tools = entries[n].tools /\ entries'[n].target = entries[n].target
         /\ entries'[n].st = st /\ entries'[n] # NoEntry
<1> DEFINE e == entries[n]
           f == Moved(e, st, stream)
<1>1. e \in [client : Clients, target : Targets, st : {"connecting", "connected", "disconnected"},
          tools : SUBSET (0..MaxChanges), stream : {None, "opening", "open", "retry", "ended"}]
  BY DEF Entry
<1>2. st = e.st => [e EXCEPT !.stream = stream] = f
  BY <1>1 DEF Moved
<1>3. f \in Entry /\ f # NoEntry
  BY <1>1, Constants DEF Entry, NoEntry, Moved
<1>4. entries' = [entries EXCEPT ![n] = f]
  BY <1>2
<1>5. f.tools = e.tools /\ f.target = e.target /\ f.st = st /\ f.client = e.client
  BY DEF Moved
<1> HIDE DEF f
<1>6. entries' \in [Names -> Entry] /\ entries'[n] = f /\ \A m \in Names : m # n => entries'[m] = entries[m]
  BY <1>3, <1>4
<1>7. \A m \in Names : entries'[m].tools = entries[m].tools /\ entries'[m].client = entries[m].client
  BY <1>5, <1>6
<1>8. RegistryIsEntries'
  <2>1. {} \in SUBSET Names
    OBVIOUS
  <2>2. \A x : x \in tools' <=>
           \/ x \in tools /\ x.server \notin {}
           \/ \E k \in {} : \E w \in entries'[k].tools :
                x = [server |-> k, tool |-> w, client |-> entries'[k].client]
    OBVIOUS
  <2> QED BY <1>7, <2>1, <2>2, RegistryMoves
<1> QED BY <1>3, <1>5, <1>6, <1>8

-----------------------------------------------------------------------------
(* Steps of the work under way.                                            *)

\* The head is done with for n, and with it the entry of x has changed or
\* that of nobody.
LEMMA DoneKeeps ==
  ASSUME IInv, chain # <<>>, NEW n, NEW x, Done(n), chain[1].op # "all",
         config' \in Table, baseline' = config', Milder, server' = server,
         failed' \subseteq Names, missed' \subseteq Names, edits' \in 0..MaxEdits, fails' \in 0..MaxFails,
         entries' \in [Names -> Entry], RegistryIsEntries',
         \A m \in Names : \A v \in entries'[m].tools : v <= server[entries'[m].target],
         \A m \in Names : m # x =>
           /\ entries'[m] = entries[m] /\ config'[m] = config[m]
           /\ (m \in failed <=> m \in failed') /\ (m \in missed <=> m \in missed'),
         at = NoWait \/ at.name = x,
         chain[1].op = "connect" => n = x,
         chain[1].op = "refresh" => chain[1].name = x,
         x \in Names => Right(x)' \/ ServedLater(x),
         x \in Names /\ entries'[x].st = "connected" /\ x \notin missed' =>
           entries'[x].tools = {server[entries'[x].target]} \/ AskingLater(x)
  PROVE  IInv'
<1> USE DEF IInv
<1>1. at' = NoWait /\ chain' = Without(n) /\ chain \in Seq(Jobs)
  BY DEF Done, Typed
<1>2. Typed'
  <2>1. chain' \in Seq(Jobs)
    BY <1>1, WithoutIs
  <2> QED BY <2>1 DEF Typed
<1>3. Waits' /\ Offered'
  BY <1>1, Constants DEF Waits, Offered
<1>4. /\ Overtaken'
      /\ \A m \in Names : ServedLater(m) => Served(m)'
      /\ \A m \in Names : m # n /\ chain[1].op = "connect" /\ Serves(chain[1], m) => Served(m)'
      /\ \A m \in Names : AskingLater(m) => Asking(m)'
  BY <1>1, DoneServes
<1>5. \A m \in Names : Served(m) => ServedLater(m) \/ (chain[1].op = "connect" /\ Serves(chain[1], m))
  <2>1. \A i \in DOMAIN chain : i > 1 \/ i = 1
    BY <1>1, ChainFields
  <2>2. chain[1] \in Jobs
    BY <1>1, ChainFields
  <2> QED BY <2>1, <2>2, JobFields DEF Served, ServedLater, Serves
<1>6. WillApply'
  <2> SUFFICES ASSUME NEW m \in Names PROVE Right(m)' \/ Served(m)'
    BY DEF WillApply, Served
  <2>1. CASE m = x
    BY <1>4, <2>1
  <2>2. CASE m # x
    <3>1. Right(m) => Right(m)'
      BY <2>2 DEF Right
    <3>2. Right(m) \/ Served(m)
      BY DEF WillApply, Served
    <3> QED BY <1>4, <1>5, <2>2, <3>1, <3>2
  <2> QED BY <2>1, <2>2
<1>7. WillFresh'
  <2> SUFFICES ASSUME NEW m \in Names, entries'[m].st = "connected", m \notin missed'
               PROVE  entries'[m].tools = {server[entries'[m].target]} \/ Asking(m)'
    BY <1>1, Constants DEF WillFresh, Informed, Asking
  <2>1. CASE m = x
    BY <1>4, <2>1
  <2>2. CASE m # x
    <3>1. Informed(m)
      BY <2>2 DEF WillFresh
    <3>2. at.name # m
      BY <2>2, Constants
    <3>3. ASSUME NEW i \in DOMAIN chain, chain[i].op = "refresh", chain[i].name = m
          PROVE  AskingLater(m)
      <4>1. i # 1
        BY <2>2, <3>3
      <4> QED BY <1>1, <3>3, <4>1, ChainFields DEF AskingLater
    <3> QED BY <1>4, <2>2, <3>1, <3>2, <3>3 DEF Informed
  <2> QED BY <2>1, <2>2
<1> QED BY <1>2, <1>3, <1>4, <1>6, <1>7

\* The chain stays as it is, and so does the configuration; only the entry of
\* x changes, or that of nobody.
LEMMA StayKeeps ==
  ASSUME IInv, NEW x, UNCHANGED <<config, baseline, chain, server>>,
         failed' \subseteq Names, missed' \subseteq Names, edits' \in 0..MaxEdits, fails' \in 0..MaxFails,
         entries' \in [Names -> Entry], RegistryIsEntries', Waits',
         \A m \in Names : \A v \in entries'[m].tools : v <= server[entries'[m].target],
         at'.at = "answer" => /\ at'.got <= server[entries'[at'.name].target]
                              /\ \A v \in entries'[at'.name].tools : v <= at'.got,
         \A m \in Names : m # x =>
           /\ entries'[m] = entries[m]
           /\ (m \in failed <=> m \in failed') /\ (m \in missed <=> m \in missed'),
         at' = at \/ ((at = NoWait \/ at.name = x) /\ at'.name = x),
         chain # <<>> /\ chain[1].op = "refresh" => chain[1].name = x \/ at' = at,
         x \in Names => Right(x)' \/ Served(x),
         x \in Names /\ entries'[x].st = "connected" /\ x \notin missed' => Informed(x)'
  PROVE  IInv'
<1> USE DEF IInv
<1>1. chain \in Seq(Jobs)
  BY DEF Typed
<1>2. Typed'
  BY DEF Typed
<1>3. Offered'
  BY DEF Offered
<1>4. Overtaken'
  BY DEF Overtaken, Serves
<1>5. WillApply'
  <2> SUFFICES ASSUME NEW m \in Names PROVE Right(m)' \/ Served(m)'
    BY DEF WillApply, Served
  <2>1. Served(m) => Served(m)'
    BY DEF Served, Serves
  <2>2. m # x /\ Right(m) => Right(m)'
    BY DEF Right
  <2>3. Right(m) \/ Served(m)
    BY DEF WillApply, Served
  <2> QED BY <2>1, <2>2, <2>3
<1>6. WillFresh'
  <2> SUFFICES ASSUME NEW m \in Names, entries'[m].st = "connected", m \notin missed', m # x
               PROVE  Informed(m)'
    BY DEF WillFresh
  <2>1. Informed(m)
    BY DEF WillFresh
  <2>2. CASE at' = at
    BY <2>1, <2>2 DEF Informed
  <2>3. CASE at' # at
    <3>1. at.name # m
      BY <2>3, Constants
    <3>2. ASSUME NEW i \in DOMAIN chain, chain[i].op = "refresh", chain[i].name = m
          PROVE  i # 1
      <4>1. chain # <<>>
        BY <1>1, <3>2, ChainFields
      <4> QED BY <2>3, <3>2, <4>1
    <3> QED BY <2>1, <3>1, <3>2 DEF Informed
  <2> QED BY <2>2, <2>3
<1> QED BY <1>2, <1>3, <1>4, <1>5, <1>6

LEMMA WaitsCases ==
  ASSUME IInv
  PROVE  /\ at.at = "next" => at = NoWait
         /\ at.at # "next" => Awaits
         /\ at.at = "init" \/ at.at = "ask" \/ at.at = "answer" \/ at.name \in Names => Awaits
BY Constants DEF IInv, Waits, Awaits

LEMMA HeadFields ==
  ASSUME IInv, chain # <<>>
  PROVE  /\ chain \in Seq(Jobs) /\ 1 \in DOMAIN chain /\ Head(chain) = chain[1] /\ chain[1] \in Jobs
         /\ DOMAIN chain \subseteq Nat \ {0}
BY ChainFields DEF IInv, Typed

\* A connection under a configuration that is not that of now is made good
\* by a later job.
LEMMA ConnectServed ==
  ASSUME IInv, chain # <<>>, NEW n \in Names, chain[1].op = "connect", n \in chain[1].todo
  PROVE  /\ Served(n)
         /\ config[n].on /\ chain[1].cfg[n] # config[n] => ServedLater(n)
<1>1. 1 \in DOMAIN chain
  BY HeadFields
<1>2. CASE Serves(chain[1], n)
  BY <1>1, <1>2 DEF Serves, Served
<1>3. CASE ~Serves(chain[1], n)
  <2>1. PICK k \in DOMAIN chain : k > 1 /\ Serves(chain[k], n)
    BY <1>1, <1>3 DEF IInv, Overtaken
  <2> QED BY <2>1 DEF Served, ServedLater
<1> QED BY <1>2, <1>3 DEF Serves

LEMMA OthersServed ==
  ASSUME IInv, chain # <<>>, chain[1].op \in {"remove", "refresh"}, NEW n \in Names
  PROVE  Right(n) \/ ServedLater(n)
<1>1. \A i \in DOMAIN chain : i > 1 \/ i = 1
  BY HeadFields
<1> QED BY <1>1 DEF IInv, WillApply, ServedLater, Serves

LEMMA SameRight ==
  ASSUME NEW n \in Names, Right(n), UNCHANGED <<config, failed>>,
         entries'[n] # NoEntry <=> entries[n] # NoEntry, entries'[n].target = entries[n].target
  PROVE  Right(n)'
BY DEF Right

LEMMA BeginConnectKeeps ==
  ASSUME IInv, BeginConnect
  PROVE  IInv'
<1> DEFINE c(n) == Head(chain).cfg[n]
<1>1. /\ chain # <<>> /\ at = NoWait /\ chain[1].op = "connect" /\ Head(chain) = chain[1]
      /\ 1 \in DOMAIN chain /\ chain[1] \in Jobs
  BY WaitsCases, HeadFields DEF BeginConnect, Running
<1>2. PICK n \in chain[1].todo : Connect(n, chain[1].cfg[n])
  BY <1>1 DEF BeginConnect
<1>3. n \in Names /\ chain[1].cfg[n] \in Configs
  BY <1>1, <1>2, JobFields
<1>4. PICK t \in Targets : chain[1].cfg[n].target = t
  BY <1>3 DEF Configs
<1>5. UNCHANGED <<config, baseline, server, missed, edits, fails>>
  BY DEF BeginConnect
<1>6. entries \in [Names -> Entry] /\ RegistryIsEntries /\ config \in Table /\ baseline = config
      /\ failed \subseteq Names /\ missed \subseteq Names /\ edits \in 0..MaxEdits /\ fails \in 0..MaxFails
  BY DEF IInv, Typed
<1>7. \A m \in Names : \A v \in entries[m].tools : v <= server[entries[m].target]
  BY DEF IInv, Offered
<1>8. CASE chain[1].cfg[n].on
  <2> DEFINE free == CHOOSE i \in Clients : \A k \in Names : k = n \/ entries[k].client # i
             e == [client |-> free, target |-> t, st |-> "connecting", tools |-> {}, stream |-> None]
  <2>1. free \in Clients
    BY <1>3, <1>6, FreeClient
  <2> HIDE DEF free
  <2>2. e \in Entry /\ e.st = "connecting" /\ e.tools = {} /\ e.target = t
    BY <2>1, EntryMade
  <2>3. /\ entries' = [entries EXCEPT ![n] = e] /\ tools' = Unregistered(tools, entries, {n})
        /\ at' = Wait("init", n, chain[1].cfg[n], 0) /\ failed' = failed \ {n} /\ chain' = chain
    BY <1>2, <1>4, <1>8 DEF Connect, free
  <2> HIDE DEF e
  <2>4. /\ entries' \in [Names -> Entry] /\ entries'[n] = e
        /\ \A m \in Names : m # n => entries'[m] = entries[m]
    BY <1>3, <1>6, <2>2, <2>3
  <2>5. RegistryIsEntries'
    <3>1. \A x : x \in tools' <=> x \in tools /\ x.server \notin {n}
      BY <1>3, <1>6, <2>3, UnregisteredIs
    <3> QED BY <1>3, <1>6, <2>2, <2>4, <3>1, RegistryMoves
  <2>6. /\ at'.at = "init" /\ at'.name = n /\ at'.cfg = chain[1].cfg[n] /\ at'.cfg # NoConfig
        /\ at' \in [at : {"init", "ask", "answer"}, name : Names, cfg : Configs \cup {NoConfig}, got : 0..MaxChanges]
    <3>1. 0 \in 0..MaxChanges
      BY McpAssumption DEF McpAssumption
    <3> QED BY <1>3, <2>3, <3>1, Constants DEF Wait
  <2>7. Waits'
    BY <1>1, <1>2, <1>4, <1>8, <2>2, <2>3, <2>4, <2>6 DEF Waits, Awaits
  <2>8. Served(n)
    BY <1>1, <1>2, <1>3, ConnectServed
  <2>9. \A m \in Names : \A v \in entries'[m].tools : v <= server[entries'[m].target]
    BY <1>7, <2>2, <2>4
  <2>10. /\ failed' \subseteq Names /\ missed' \subseteq Names /\ edits' \in 0..MaxEdits /\ fails' \in 0..MaxFails
         /\ \A m \in Names : m # n => (m \in failed <=> m \in failed') /\ (m \in missed <=> m \in missed')
    BY <1>5, <1>6, <2>3
  <2> QED BY <1>1, <1>5, <2>2, <2>3, <2>4, <2>5, <2>6, <2>7, <2>8, <2>9, <2>10, StayKeeps
<1>9. CASE ~chain[1].cfg[n].on
  <2>1. /\ entries' = Dropped(entries, {n}) /\ tools' = Unregistered(tools, entries, {n})
        /\ Done(n) /\ failed' = failed
    BY <1>2, <1>9 DEF Connect
  <2>2. /\ entries' \in [Names -> Entry] /\ RegistryIsEntries'
        /\ \A m \in Names : entries'[m] = IF m \in {n} THEN NoEntry ELSE entries[m]
    BY <1>3, <1>6, <2>1, DropKeeps
  <2>3. Right(n)' \/ ServedLater(n)
    <3>1. CASE config[n].on
      BY <1>1, <1>2, <1>3, <1>9, <3>1, ConnectServed
    <3>2. CASE ~config[n].on
      BY <1>3, <1>5, <2>2, <3>2 DEF Right
    <3> QED BY <3>1, <3>2
  <2>4. \A m \in Names : \A v \in entries'[m].tools : v <= server[entries'[m].target]
    BY <1>7, <2>2, Constants
  <2>5. Milder /\ config' \in Table /\ baseline' = config'
    BY <1>5, <1>6 DEF Milder
  <2>6. entries'[n].st # "connected" /\ \A m \in Names : m # n => entries'[m] = entries[m]
    BY <1>3, <2>2, Constants DEF None
  <2> QED BY <1>1, <1>3, <1>5, <1>6, <2>1, <2>2, <2>3, <2>4, <2>5, <2>6, DoneKeeps
<1> QED BY <1>8, <1>9

LEMMA BeginRemoveKeeps ==
  ASSUME IInv, BeginRemove
  PROVE  IInv'
<1>0. /\ chain # <<>> /\ at = NoWait /\ chain[1].op = "remove" /\ Head(chain) = chain[1]
      /\ 1 \in DOMAIN chain /\ chain[1] \in Jobs
  BY WaitsCases, HeadFields DEF BeginRemove, Running
<1>1. PICK n \in Names : n = chain[1].name
  BY <1>0, JobFields
<1>2. UNCHANGED <<server, failed, missed, edits, fails>> /\ Done(None)
  BY DEF BeginRemove
<1>3. entries \in [Names -> Entry] /\ RegistryIsEntries /\ config \in Table /\ baseline = config
      /\ failed \subseteq Names /\ missed \subseteq Names /\ edits \in 0..MaxEdits /\ fails \in 0..MaxFails
  BY DEF IInv, Typed
<1>4. \A m \in Names : \A v \in entries[m].tools : v <= server[entries[m].target]
  BY DEF IInv, Offered
<1>5. CASE config[n] = NoConfig
  <2>1. UNCHANGED <<config, baseline, entries, tools>>
    BY <1>0, <1>1, <1>5 DEF BeginRemove
  <2>2. RegistryIsEntries' /\ Milder
    BY <1>3, <2>1 DEF RegistryIsEntries, Milder
  <2>3. None \notin Names
    BY Constants
  <2> QED BY <1>0, <1>1, <1>2, <1>3, <1>4, <2>1, <2>2, <2>3, DoneKeeps
<1>6. CASE config[n] # NoConfig
  <2>1. /\ config' = [config EXCEPT ![n] = NoConfig] /\ baseline' = config'
        /\ entries' = Dropped(entries, {n}) /\ tools' = Unregistered(tools, entries, {n})
    BY <1>0, <1>1, <1>6 DEF BeginRemove, Disconnect
  <2>2. /\ entries' \in [Names -> Entry] /\ RegistryIsEntries'
        /\ \A m \in Names : entries'[m] = IF m \in {n} THEN NoEntry ELSE entries[m]
    BY <1>1, <1>3, <2>1, DropKeeps
  <2>3. /\ config' \in Table /\ config'[n] = NoConfig
        /\ \A m \in Names : m # n => config'[m] = config[m]
    BY <1>1, <1>3, <2>1 DEF Table
  <2>4. Milder /\ Right(n)'
    BY <1>1, <2>2, <2>3, Constants DEF Milder, Right
  <2>5. \A m \in Names : \A v \in entries'[m].tools : v <= server[entries'[m].target]
    BY <1>4, <2>2, Constants
  <2>6. entries'[n].st # "connected" /\ \A m \in Names : m # n => entries'[m] = entries[m]
    BY <1>1, <2>2, Constants DEF None
  <2> QED BY <1>0, <1>1, <1>2, <1>3, <2>1, <2>2, <2>3, <2>4, <2>5, <2>6, DoneKeeps
<1> QED BY <1>5, <1>6

LEMMA BeginRefreshKeeps ==
  ASSUME IInv, BeginRefresh
  PROVE  IInv'
<1>1. /\ chain # <<>> /\ at = NoWait /\ chain[1].op = "refresh" /\ Head(chain) = chain[1]
      /\ 1 \in DOMAIN chain /\ chain[1] \in Jobs
  BY WaitsCases, HeadFields DEF BeginRefresh, Running
<1>2. PICK n \in Names : n = chain[1].name
  BY <1>1, JobFields
<1>3. UNCHANGED <<config, baseline, entries, tools, server, failed, missed, edits, fails>>
  BY DEF BeginRefresh
<1>4. entries \in [Names -> Entry] /\ RegistryIsEntries /\ config \in Table /\ baseline = config
      /\ failed \subseteq Names /\ missed \subseteq Names /\ edits \in 0..MaxEdits /\ fails \in 0..MaxFails
  BY DEF IInv, Typed
<1>5. \A m \in Names : \A v \in entries'[m].tools : v <= server[entries'[m].target]
  BY <1>3 DEF IInv, Offered
<1>6. RegistryIsEntries' /\ Milder
  BY <1>3, <1>4 DEF RegistryIsEntries, Milder
<1>7. Right(n) \/ ServedLater(n)
  BY <1>1, OthersServed
<1>8. Right(n) => Right(n)'
  BY <1>3 DEF Right
<1>9. CASE entries[n].st = "connected"
  <2>1. at' = Wait("ask", n, NoConfig, 0) /\ chain' = chain
    BY <1>1, <1>2, <1>9 DEF BeginRefresh
  <2>2. /\ at'.at = "ask" /\ at'.name = n /\ at'.cfg = NoConfig
        /\ at' \in [at : {"init", "ask", "answer"}, name : Names, cfg : Configs \cup {NoConfig}, got : 0..MaxChanges]
    <3>1. 0 \in 0..MaxChanges
      BY McpAssumption DEF McpAssumption
    <3> QED BY <2>1, <3>1 DEF Wait
  <2>3. Waits'
    BY <1>1, <1>2, <1>3, <1>9, <2>1, <2>2 DEF Waits, Awaits
  <2>4. Informed(n)'
    BY <2>2 DEF Informed
  <2>5. ServedLater(n) => Served(n)
    BY DEF ServedLater, Served
  <2> QED BY <1>1, <1>2, <1>3, <1>4, <1>5, <1>6, <1>7, <1>8, <2>1, <2>2, <2>3, <2>4, <2>5, StayKeeps
<1>10. CASE entries[n].st # "connected"
  <2>1. Done(None)
    BY <1>1, <1>2, <1>10 DEF BeginRefresh
  <2> QED BY <1>1, <1>2, <1>3, <1>4, <1>5, <1>6, <1>7, <1>8, <1>10, <2>1, DoneKeeps
<1> QED BY <1>9, <1>10

LEMMA BeginAllKeeps ==
  ASSUME IInv, BeginAll
  PROVE  IInv'
<1> DEFINE N == {n \in Names : config[n] # NoConfig}
<1>1. /\ chain # <<>> /\ at = NoWait /\ chain[1].op = "all" /\ Head(chain) = chain[1]
      /\ 1 \in DOMAIN chain /\ chain[1] \in Jobs /\ chain \in Seq(Jobs) /\ DOMAIN chain \subseteq Nat \ {0}
  BY WaitsCases, HeadFields DEF BeginAll, Running
<1>2. UNCHANGED <<config, baseline, at, server, failed, missed, edits, fails>>
  BY DEF BeginAll
<1>3. PICK named \in SUBSET Names : named = N
  OBVIOUS
<1>4. /\ entries' = Dropped(entries, Names \ named) /\ tools' = Unregistered(tools, entries, Names \ named)
      /\ chain' = IF named = {} THEN Tail(chain) ELSE [chain EXCEPT ![1] = Job("connect", None, named, config)]
  BY <1>3 DEF BeginAll, Disconnect
<1>5. \A n \in Names : n \in named <=> config[n] # NoConfig
  BY <1>3
<1> HIDE DEF N
<1>6. entries \in [Names -> Entry] /\ RegistryIsEntries /\ config \in Table
  BY DEF IInv, Typed
<1>7. /\ entries' \in [Names -> Entry] /\ RegistryIsEntries'
      /\ \A m \in Names : entries'[m] = IF m \in Names \ named THEN NoEntry ELSE entries[m]
  BY <1>4, <1>6, DropKeeps
<1>8. \E r \in {0, 1} :
        /\ chain' \in Seq(Jobs) /\ Behind(r)
        /\ \A i \in DOMAIN chain' : i + r \in DOMAIN chain /\ (i + r # 1 => chain'[i] = chain[i + r])
        /\ r = 1 => named = {}
        /\ r = 0 => /\ 1 \in DOMAIN chain' /\ chain'[1].op = "connect"
                    /\ chain'[1].cfg = config /\ chain'[1].todo = named
  <2>1. Len(chain) \in Nat /\ DOMAIN chain = 1..Len(chain)
    BY <1>1, ChainFields
  <2>2. CASE named = {}
    <3>1. /\ chain' \in Seq(Jobs) /\ DOMAIN chain' = 1..Len(chain) - 1
          /\ \A i \in 1..Len(chain) - 1 : chain'[i] = chain[i + 1]
      BY <1>1, <1>4, <2>2, ChainFields
    <3>2. \A i \in 1..Len(chain) : i > 1 => i - 1 \in 1..Len(chain) - 1 /\ (i - 1) + 1 = i
      BY <2>1
    <3>3. Behind(1)
      BY <2>1, <3>1, <3>2 DEF Behind
    <3>4. \A i \in DOMAIN chain' : i + 1 \in DOMAIN chain /\ chain'[i] = chain[i + 1]
      BY <2>1, <3>1
    <3> QED BY <2>2, <3>1, <3>3, <3>4
  <2>3. CASE named # {}
    <3>0. PICK j, c : c = config /\ j = Job("connect", None, named, c)
      OBVIOUS
    <3>1. c \in Table /\ \A n \in named : c[n] \in Configs
      BY <1>3, <1>5, <1>6, <3>0 DEF Table
    <3>2. j \in Jobs /\ j.op = "connect" /\ j.cfg = config /\ j.todo = named
      <4>1. Job("connect", None, named, c) \in Jobs
        BY <2>3, <3>1, JobMade
      <4> QED BY <3>0, <4>1 DEF Job
    <3>3. chain' = [chain EXCEPT ![1] = j]
      BY <1>4, <2>3, <3>0
    <3>4. /\ chain' \in Seq(Jobs) /\ Len(chain') = Len(chain)
          /\ \A i \in 1..Len(chain) : chain'[i] = IF i = 1 THEN j ELSE chain[i]
      BY <1>1, <2>1, <3>2, <3>3, ExceptSeq
    <3>5. DOMAIN chain' = DOMAIN chain
      BY <2>1, <3>4, LenProperties
    <3>6. Behind(0)
      BY <2>1, <3>4, <3>5 DEF Behind
    <3>7. \A i \in DOMAIN chain' : i + 0 \in DOMAIN chain /\ (i + 0 # 1 => chain'[i] = chain[i + 0])
      BY <2>1, <3>4, <3>5
    <3> QED BY <1>1, <3>2, <3>4, <3>5, <3>6, <3>7
  <2> QED BY <2>2, <2>3
<1>9. PICK r \in {0, 1} :
        /\ chain' \in Seq(Jobs) /\ Behind(r)
        /\ \A i \in DOMAIN chain' : i + r \in DOMAIN chain /\ (i + r # 1 => chain'[i] = chain[i + r])
        /\ r = 1 => named = {}
        /\ r = 0 => /\ 1 \in DOMAIN chain' /\ chain'[1].op = "connect"
                    /\ chain'[1].cfg = config /\ chain'[1].todo = named
  BY <1>8
<1>10. Typed'
  BY <1>2, <1>7, <1>9 DEF Typed, IInv
<1>11. Waits' /\ Offered'
  <2>1. \A m \in Names : \A v \in entries'[m].tools : v <= server[entries'[m].target]
    BY <1>7, Constants DEF IInv, Offered
  <2> QED BY <1>1, <1>2, <2>1, Constants DEF Waits, Offered
<1>12. Milder
  BY <1>2 DEF Milder
<1>13. Overtaken'
  <2> SUFFICES ASSUME NEW i \in DOMAIN chain', NEW m \in Names,
                      chain'[i].op = "connect", m \in chain'[i].todo, ~Serves(chain[i], m)'
               PROVE  \E k \in DOMAIN chain' : k > i /\ Serves(chain[k], m)'
    BY DEF Overtaken
  <2>1. i + r # 1
    BY <1>1, <1>2, <1>9 DEF Serves
  <2>2. i + r \in DOMAIN chain /\ chain'[i] = chain[i + r] /\ ~Serves(chain[i + r], m)
    BY <1>2, <1>9, <2>1 DEF Serves
  <2>3. PICK k \in DOMAIN chain : k > i + r /\ Serves(chain[k], m)
    BY <2>2 DEF IInv, Overtaken
  <2>4. k > 1 /\ k - r > i /\ k - r \in DOMAIN chain' /\ chain'[k - r] = chain[k]
    BY <1>1, <1>9, <2>2, <2>3 DEF Behind
  <2> QED BY <1>12, <2>3, <2>4, ServesStill
<1>14. WillApply'
  <2> SUFFICES ASSUME NEW m \in Names PROVE Right(m)' \/ \E i \in DOMAIN chain' : Serves(chain[i], m)'
    BY DEF WillApply
  <2>1. CASE m \in named
    BY <1>2, <1>9, <2>1 DEF Serves
  <2>2. CASE m \notin named
    BY <1>2, <1>5, <1>7, <2>2, Constants DEF Right
  <2> QED BY <2>1, <2>2
<1>15. WillFresh'
  <2> SUFFICES ASSUME NEW m \in Names, entries'[m].st = "connected", m \notin missed'
               PROVE  Informed(m)'
    BY DEF WillFresh
  <2>1. entries'[m] = entries[m]
    BY <1>7, Constants DEF None
  <2>2. Informed(m) /\ at.name # m
    BY <1>1, <1>2, <2>1, Constants DEF IInv, WillFresh
  <2>3. ASSUME NEW i \in DOMAIN chain, chain[i].op = "refresh", chain[i].name = m
        PROVE  i - r \in DOMAIN chain' /\ chain'[i - r] = chain[i]
    BY <1>1, <1>9, <2>3 DEF Behind
  <2> QED BY <1>1, <1>2, <2>1, <2>2, <2>3, Constants DEF Informed
<1> QED BY <1>7, <1>10, <1>11, <1>13, <1>14, <1>15 DEF IInv

\* What a step finds when a request is awaited.
LEMMA AwaitsFields ==
  ASSUME IInv, Awaits
  PROVE  /\ chain # <<>> /\ at.name \in Names /\ at.got \in 0..MaxChanges /\ chain[1] \in Jobs
         /\ Head(chain) = chain[1] /\ at.at \in {"init", "ask", "answer"}
         /\ entries \in [Names -> Entry] /\ entries[at.name] # NoEntry
         /\ RegistryIsEntries /\ config \in Table /\ baseline = config
         /\ failed \subseteq Names /\ missed \subseteq Names /\ edits \in 0..MaxEdits /\ fails \in 0..MaxFails
         /\ entries[at.name].target \in Targets /\ server \in [Targets -> 0..MaxChanges]
         /\ \A m \in Names : \A v \in entries[m].tools : v <= server[entries[m].target]
         /\ at.cfg # NoConfig => /\ chain[1].op = "connect" /\ at.name \in chain[1].todo
                                 /\ at.cfg = chain[1].cfg[at.name] /\ at.cfg.on /\ at.cfg \in Configs
                                 /\ entries[at.name].target = at.cfg.target /\ entries[at.name].tools = {}
         /\ at.cfg = NoConfig => /\ chain[1].op = "refresh" /\ chain[1].name = at.name
                                 /\ at.at # "init" /\ entries[at.name].st = "connected"
<1>1. /\ chain # <<>> /\ at.name \in Names /\ at.got \in 0..MaxChanges /\ at.at \in {"init", "ask", "answer"}
      /\ at.cfg \in Configs \cup {NoConfig}
  BY DEF Awaits
<1>2. chain[1] \in Jobs /\ Head(chain) = chain[1]
  BY <1>1, HeadFields
<1>3. entries \in [Names -> Entry] /\ entries[at.name].st \in {"connecting", "connected"}
  BY DEF IInv, Typed, Awaits
<1>4. entries[at.name] # NoEntry /\ entries[at.name].target \in Targets
  BY <1>1, <1>3, EntryFields, Constants DEF None
<1>5. /\ RegistryIsEntries /\ config \in Table /\ baseline = config
      /\ failed \subseteq Names /\ missed \subseteq Names /\ edits \in 0..MaxEdits /\ fails \in 0..MaxFails
      /\ server \in [Targets -> 0..MaxChanges]
      /\ \A m \in Names : \A v \in entries[m].tools : v <= server[entries[m].target]
  BY DEF IInv, Typed, Offered
<1>6. /\ at.cfg # NoConfig => /\ chain[1].op = "connect" /\ at.name \in chain[1].todo
                              /\ at.cfg = chain[1].cfg[at.name] /\ at.cfg.on
                              /\ entries[at.name].target = at.cfg.target /\ entries[at.name].tools = {}
      /\ at.cfg = NoConfig => /\ chain[1].op = "refresh" /\ chain[1].name = at.name
                              /\ at.at # "init" /\ entries[at.name].st = "connected"
  BY <1>2 DEF Awaits
<1> QED BY <1>1, <1>2, <1>3, <1>4, <1>5, <1>6

LEMMA InitializedKeeps ==
  ASSUME IInv, InitializedStdio \/ InitializedHttp
  PROVE  IInv'
<1>1. Awaits /\ at.at = "init"
  BY WaitsCases DEF InitializedStdio, InitializedHttp
<1>2. PICK stream \in {"open", "opening"} : Initialized(stream)
  BY DEF InitializedStdio, InitializedHttp
<1>3. PICK n \in Names : n = at.name
  BY <1>1, AwaitsFields
<1>4. /\ at' = Wait("ask", n, at.cfg, 0) /\ entries' = [entries EXCEPT ![n] = Moved(@, "connected", stream)]
      /\ UNCHANGED <<config, baseline, chain, tools, server, failed, missed, edits, fails>>
  BY <1>2, <1>3 DEF Initialized
<1>5. /\ entries' \in [Names -> Entry] /\ RegistryIsEntries'
      /\ \A m \in Names : m # n => entries'[m] = entries[m]
      /\ entries'[n].tools = entries[n].tools /\ entries'[n].target = entries[n].target
      /\ entries'[n].st = "connected" /\ entries'[n] # NoEntry
  BY <1>1, <1>3, <1>4, AwaitsFields, MoveKeeps
<1>6. /\ at'.at = "ask" /\ at'.name = n /\ at'.cfg = at.cfg /\ at.cfg # NoConfig
      /\ at' \in [at : {"init", "ask", "answer"}, name : Names, cfg : Configs \cup {NoConfig}, got : 0..MaxChanges]
  <2>1. 0 \in 0..MaxChanges /\ at.cfg \in Configs \cup {NoConfig} /\ at.cfg # NoConfig
    BY <1>1, McpAssumption, AwaitsFields DEF McpAssumption, Awaits
  <2> QED BY <1>4, <2>1 DEF Wait
<1>7. Waits'
  BY <1>1, <1>3, <1>4, <1>5, <1>6, AwaitsFields DEF Waits, Awaits
<1>8. Served(n) /\ Informed(n)'
  BY <1>1, <1>3, <1>6, AwaitsFields, ConnectServed DEF Informed
<1>9. \A m \in Names : \A v \in entries'[m].tools : v <= server[entries'[m].target]
  BY <1>1, <1>5, AwaitsFields
<1>10. chain[1].op = "connect"
  BY <1>1, <1>6, AwaitsFields
<1> QED BY <1>1, <1>3, <1>4, <1>5, <1>6, <1>7, <1>8, <1>9, <1>10, AwaitsFields, StayKeeps

LEMMA AskedKeeps ==
  ASSUME IInv, Asked
  PROVE  IInv'
<1>1. Awaits /\ at.at = "ask"
  BY WaitsCases DEF Asked
<1>2. PICK n \in Names : n = at.name
  BY <1>1, AwaitsFields
<1>3. PICK v \in 0..MaxChanges : v = server[entries[n].target]
  BY <1>1, <1>2, AwaitsFields
<1>4. /\ at' = Wait("answer", n, at.cfg, v) /\ missed' = missed \ {n}
      /\ UNCHANGED <<config, baseline, chain, entries, tools, server, failed, edits, fails>>
  BY <1>2, <1>3 DEF Asked
<1>5. /\ at'.at = "answer" /\ at'.name = n /\ at'.cfg = at.cfg /\ at'.got = v
      /\ at' \in [at : {"init", "ask", "answer"}, name : Names, cfg : Configs \cup {NoConfig}, got : 0..MaxChanges]
  <2>1. at.cfg \in Configs \cup {NoConfig}
    BY <1>1 DEF Awaits
  <2> QED BY <1>4, <2>1 DEF Wait
<1>6. Waits'
  BY <1>1, <1>2, <1>4, <1>5 DEF Waits, Awaits
<1>7. Right(n)' \/ Served(n)
  <2>1. Right(n) => Right(n)'
    BY <1>4 DEF Right
  <2> QED BY <2>1 DEF IInv, WillApply, Served
<1>8. Informed(n)' /\ RegistryIsEntries'
  BY <1>1, <1>3, <1>4, <1>5, AwaitsFields DEF Informed, RegistryIsEntries
<1>9. /\ \A m \in Names : \A w \in entries'[m].tools : w <= server[entries'[m].target]
      /\ at'.got <= server[entries'[at'.name].target] /\ \A w \in entries'[at'.name].tools : w <= at'.got
  <2>1. \A m \in Names : \A w \in entries'[m].tools : w <= server[entries'[m].target]
    BY <1>1, <1>4, AwaitsFields
  <2>2. v <= v /\ at'.got = v /\ server[entries'[n].target] = v /\ at'.name = n
    BY <1>3, <1>4, <1>5
  <2> QED BY <2>1, <2>2
<1>10. /\ failed' \subseteq Names /\ missed' \subseteq Names /\ edits' \in 0..MaxEdits /\ fails' \in 0..MaxFails
       /\ entries' \in [Names -> Entry]
       /\ chain[1].op = "refresh" => chain[1].name = n
  BY <1>1, <1>2, <1>4, AwaitsFields
<1> QED BY <1>1, <1>2, <1>4, <1>5, <1>6, <1>7, <1>8, <1>9, <1>10, StayKeeps

LEMMA AnsweredKeeps ==
  ASSUME IInv, Answered
  PROVE  IInv'
<1>1. Awaits /\ at.at = "answer"
  BY WaitsCases DEF Answered
<1>2. PICK n \in Names : n = at.name
  BY <1>1, AwaitsFields
<1>3. PICK v \in 0..MaxChanges : v = at.got
  BY <1>1, AwaitsFields
<1>4. UNCHANGED <<config, baseline, server, failed, missed, edits, fails>> /\ Done(n)
  BY <1>2 DEF Answered
<1>5. /\ chain # <<>> /\ chain[1].op # "all" /\ Milder
      /\ chain[1].op = "refresh" => chain[1].name = n
      /\ config' \in Table /\ baseline' = config' /\ failed' \subseteq Names /\ missed' \subseteq Names
      /\ edits' \in 0..MaxEdits /\ fails' \in 0..MaxFails
  BY <1>1, <1>2, <1>4, AwaitsFields DEF Milder
<1>6. CASE at.cfg # NoConfig /\ Stale(n, at.cfg.target)
  <2>1. entries' = Dropped(entries, {n}) /\ tools' = Unregistered(tools, entries, {n})
    BY <1>2, <1>6 DEF Answered, Disconnect
  <2>2. /\ entries' \in [Names -> Entry] /\ RegistryIsEntries'
        /\ \A m \in Names : entries'[m] = IF m \in {n} THEN NoEntry ELSE entries[m]
    <3>1. entries \in [Names -> Entry] /\ RegistryIsEntries /\ {n} \in SUBSET Names
      BY <1>1, AwaitsFields
    <3> QED BY <2>1, <3>1, DropKeeps
  <2>3. Right(n)' \/ ServedLater(n)
    <3>1. CASE config[n].on
      <4>1. chain[1].cfg[n] # config[n]
        BY <1>1, <1>2, <1>6, <3>1, AwaitsFields DEF Stale
      <4> QED BY <1>1, <1>2, <1>6, <3>1, <4>1, AwaitsFields, ConnectServed
    <3>2. CASE ~config[n].on
      BY <1>4, <2>2, <3>2 DEF Right
    <3> QED BY <3>1, <3>2
  <2>4. \A m \in Names : \A w \in entries'[m].tools : w <= server[entries'[m].target]
    BY <1>1, <2>2, AwaitsFields, Constants
  <2>5. entries'[n].st # "connected" /\ \A m \in Names : m # n => entries'[m] = entries[m]
    BY <2>2, Constants DEF None
  <2> QED BY <1>2, <1>4, <1>5, <2>2, <2>3, <2>4, <2>5, DoneKeeps
<1>7. CASE ~(at.cfg # NoConfig /\ Stale(n, at.cfg.target))
  <2>1. /\ entries' = [entries EXCEPT ![n].tools = {v}]
        /\ tools' = Registered(Unregistered(tools, entries, {n}), n, entries[n].client, v)
    BY <1>2, <1>3, <1>7 DEF Answered
  <2>2. /\ entries' \in [Names -> Entry] /\ RegistryIsEntries'
        /\ \A m \in Names : m # n => entries'[m] = entries[m]
        /\ entries'[n].tools = {v} /\ entries'[n].target = entries[n].target
        /\ entries'[n].st = entries[n].st /\ entries'[n] # NoEntry /\ entries[n] # NoEntry
    BY <1>1, <1>2, <2>1, AwaitsFields, RegisterKeeps
  <2>3. Right(n)' \/ ServedLater(n)
    <3>1. CASE at.cfg # NoConfig
      <4>1. config[n].on /\ config[n].target = entries[n].target
        BY <1>1, <1>2, <1>7, <3>1, AwaitsFields DEF Stale
      <4>2. config[n] \in Configs
        BY <1>1, <4>1, AwaitsFields, Constants DEF Table
      <4>3. config[n] = [target |-> entries[n].target, on |-> TRUE]
        BY <4>1, <4>2 DEF Configs
      <4> QED BY <1>4, <2>2, <4>3 DEF Right
    <3>2. CASE at.cfg = NoConfig
      <4>1. Right(n) => Right(n)'
        BY <1>4, <2>2, SameRight
      <4> QED BY <1>1, <1>5, <3>2, <4>1, AwaitsFields, OthersServed
    <3> QED BY <3>1, <3>2
  <2>4. v <= server[entries[n].target] /\ \A w \in entries[n].tools : w <= v
    BY <1>1, <1>2, <1>3 DEF IInv, Offered
  <2>5. \A m \in Names : \A w \in entries'[m].tools : w <= server[entries'[m].target]
    BY <1>1, <2>2, <2>4, AwaitsFields
  <2>6. ASSUME entries'[n].st = "connected", n \notin missed'
        PROVE  entries'[n].tools = {server[entries'[n].target]} \/ AskingLater(n)
    <3>1. Informed(n)
      BY <1>4, <2>2, <2>6 DEF IInv, WillFresh
    <3>2. CASE entries[n].tools = {server[entries[n].target]}
      <4>1. server[entries[n].target] <= v /\ server[entries[n].target] \in 0..MaxChanges
        BY <1>1, <1>2, <2>4, <3>2, AwaitsFields
      <4>2. server[entries[n].target] = v
        BY <2>4, <4>1
      <4> QED BY <2>2, <4>2
    <3>3. CASE at.got = server[entries[n].target]
      BY <1>3, <2>2, <3>3
    <3>4. ASSUME NEW i \in DOMAIN chain, chain[i].op = "refresh", chain[i].name = n, i = 1 => at.at = "next"
          PROVE  AskingLater(n)
      BY <1>1, <1>5, <3>4, HeadFields DEF AskingLater
    <3> QED BY <1>1, <3>1, <3>2, <3>3, <3>4 DEF Informed
  <2> QED BY <1>2, <1>4, <1>5, <2>2, <2>3, <2>5, <2>6, DoneKeeps
<1> QED BY <1>6, <1>7

LEMMA GivesUpKeeps ==
  ASSUME IInv, Awaits, GivesUp, Fault, UNCHANGED <<config, baseline, tools, server, edits>>
  PROVE  IInv'
<1>1. PICK n \in Names : n = at.name
  BY AwaitsFields
<1>2. /\ chain # <<>> /\ chain[1].op # "all" /\ Milder /\ Done(n)
      /\ chain[1].op = "refresh" => chain[1].name = n
  BY <1>1, AwaitsFields DEF Milder, GivesUp
<1>3. fails' \in 0..MaxFails /\ config' \in Table /\ baseline' = config' /\ edits' \in 0..MaxEdits
  BY McpAssumption, AwaitsFields DEF Fault, McpAssumption
<1>4. CASE at.cfg # NoConfig
  <2>1. entries' = Dropped(entries, {n}) /\ failed' = failed \cup {n} /\ missed' = missed
    BY <1>1, <1>4 DEF GivesUp
  <2>2. /\ entries' \in [Names -> Entry] /\ RegistryIsEntries'
        /\ \A m \in Names : entries'[m] = IF m \in {n} THEN NoEntry ELSE entries[m]
    <3>1. entries \in [Names -> Entry] /\ RegistryIsEntries /\ tools' = tools
      BY AwaitsFields
    <3>2. \A m \in {n} : entries[m].tools = {}
      BY <1>1, <1>4, AwaitsFields
    <3> QED BY <2>1, <3>1, <3>2, DropKeeps
  <2>3. Right(n)'
    BY <2>1, <2>2 DEF Right
  <2>4. \A m \in Names : \A w \in entries'[m].tools : w <= server[entries'[m].target]
    BY <2>2, AwaitsFields, Constants
  <2>5. entries'[n].st # "connected" /\ \A m \in Names : m # n => entries'[m] = entries[m]
    BY <2>2, Constants DEF None
  <2>6. failed' \subseteq Names /\ missed' \subseteq Names
    BY <2>1, AwaitsFields
  <2>7. \A m \in Names : m # n => (m \in failed <=> m \in failed')
    BY <2>1
  <2> QED BY <1>1, <1>2, <1>3, <2>1, <2>2, <2>3, <2>4, <2>5, <2>6, <2>7, DoneKeeps
<1>5. CASE at.cfg = NoConfig
  <2>1. missed' = missed \cup {n} /\ entries' = entries /\ failed' = failed
    BY <1>1, <1>5 DEF GivesUp
  <2>2. RegistryIsEntries' /\ missed' \subseteq Names /\ n \in missed'
    BY <2>1, AwaitsFields DEF RegistryIsEntries
  <2>3. Right(n)' \/ ServedLater(n)
    <3>1. Right(n) => Right(n)'
      BY <2>1 DEF Right
    <3> QED BY <1>1, <1>2, <1>5, <3>1, AwaitsFields, OthersServed
  <2>4. \A m \in Names : m # n => (m \in missed <=> m \in missed')
    BY <2>1
  <2> QED BY <1>1, <1>2, <1>3, <2>1, <2>2, <2>3, <2>4, AwaitsFields, DoneKeeps
<1> QED BY <1>4, <1>5

LEMMA FailsKeeps ==
  ASSUME IInv, FailsStdio \/ FailsHttp
  PROVE  IInv'
<1>1. at.at # "next" /\ Fault /\ GivesUp /\ UNCHANGED <<config, baseline, tools, server, edits>>
  BY DEF FailsStdio, FailsHttp, Fails
<1> QED BY <1>1, WaitsCases, GivesUpKeeps

\* The entry of n, which nothing is awaited for or whose stream it is, moves.
LEMMA EntryMoves ==
  ASSUME IInv, NEW n \in Names, entries[n] # NoEntry,
         entries' \in [Names -> Entry], RegistryIsEntries',
         \A m \in Names : m # n => entries'[m] = entries[m],
         entries'[n].tools = entries[n].tools, entries'[n].target = entries[n].target, entries'[n] # NoEntry,
         entries'[n].st = entries[n].st \/ (at.name # n /\ entries'[n].st = "disconnected"),
         fails' \in 0..MaxFails,
         UNCHANGED <<config, baseline, chain, at, tools, server, failed, missed, edits>>
  PROVE  IInv'
<1>1. Waits'
  <2>1. CASE at = NoWait
    BY <2>1 DEF Waits
  <2>2. CASE Awaits
    <3>1. entries'[at.name].st = entries[at.name].st /\ entries'[at.name].tools = entries[at.name].tools
          /\ entries'[at.name].target = entries[at.name].target
      BY <2>2, AwaitsFields
    <3> QED BY <2>2, <3>1 DEF Waits, Awaits
  <2> QED BY <2>1, <2>2 DEF IInv, Waits
<1>2. \A m \in Names : \A v \in entries'[m].tools : v <= server[entries'[m].target]
  BY DEF IInv, Offered
<1>3. at'.at = "answer" => at'.got <= server[entries'[at'.name].target] /\ \A v \in entries'[at'.name].tools : v <= at'.got
  <2> SUFFICES ASSUME at.at = "answer"
               PROVE  at.got <= server[entries'[at.name].target] /\ \A v \in entries'[at.name].tools : v <= at.got
    OBVIOUS
  <2>1. at.name \in Names
    BY WaitsCases, AwaitsFields
  <2>2. entries'[at.name].tools = entries[at.name].tools /\ entries'[at.name].target = entries[at.name].target
    BY <2>1
  <2> QED BY <2>2 DEF IInv, Offered
<1>4. Right(n)' \/ Served(n)
  <2>1. Right(n) => Right(n)'
    BY SameRight
  <2> QED BY <2>1 DEF IInv, WillApply, Served
<1>5. entries'[n].st = "connected" /\ n \notin missed' => Informed(n)'
  <2> SUFFICES ASSUME entries'[n].st = "connected", n \notin missed PROVE Informed(n)'
    OBVIOUS
  <2>1. Informed(n)
    BY DEF IInv, WillFresh
  <2> QED BY <2>1 DEF Informed
<1>6. failed' \subseteq Names /\ missed' \subseteq Names /\ edits' \in 0..MaxEdits
  BY DEF IInv, Typed
<1> QED BY <1>1, <1>2, <1>3, <1>4, <1>5, <1>6, StayKeeps

LEMMA ExitKeeps ==
  ASSUME IInv, NEW n \in Names, Exit(n)
  PROVE  IInv'
<1>1. /\ entries[n].target \in Stdio /\ Fault /\ UNCHANGED <<config, baseline, tools, server, edits>>
  BY DEF Exit
<1>2. entries \in [Names -> Entry] /\ RegistryIsEntries /\ entries[n] # NoEntry
  BY <1>1, Constants DEF IInv, Typed, Targets
<1>3. fails' \in 0..MaxFails
  BY <1>1, McpAssumption DEF Fault, IInv, Typed, McpAssumption
<1>4. ASSUME entries' = [entries EXCEPT ![n] = Moved(@, "disconnected", None)]
      PROVE  /\ entries' \in [Names -> Entry] /\ RegistryIsEntries'
             /\ \A m \in Names : m # n => entries'[m] = entries[m]
             /\ entries'[n].tools = entries[n].tools /\ entries'[n].target = entries[n].target
             /\ entries'[n].st = "disconnected" /\ entries'[n] # NoEntry
  BY <1>1, <1>2, <1>4, MoveKeeps
<1>5. CASE at.name = n /\ at.cfg # NoConfig
  <2>1. Awaits /\ GivesUp
    BY <1>5, WaitsCases DEF Exit
  <2> QED BY <1>1, <2>1, GivesUpKeeps
<1>6. CASE at.name = n /\ at.cfg = NoConfig
  <2>1. Awaits
    BY <1>6, WaitsCases
  <2>2. /\ entries' = [entries EXCEPT ![n] = Moved(@, "disconnected", None)]
        /\ missed' = missed \cup {n} /\ Done(n) /\ failed' = failed
    BY <1>6 DEF Exit
  <2>3. Right(n)' \/ ServedLater(n)
    <3>1. Right(n) => Right(n)'
      BY <1>1, <1>2, <1>4, <2>2, SameRight
    <3> QED BY <1>6, <2>1, <3>1, AwaitsFields, OthersServed
  <2>4. Milder /\ missed' \subseteq Names /\ \A m \in Names : m # n => (m \in missed <=> m \in missed')
    BY <1>1, <2>1, <2>2, AwaitsFields DEF Milder
  <2>5. \A m \in Names : \A w \in entries'[m].tools : w <= server[entries'[m].target]
    BY <1>4, <2>1, <2>2, AwaitsFields
  <2> QED BY <1>1, <1>3, <1>4, <1>6, <2>1, <2>2, <2>3, <2>4, <2>5, AwaitsFields, DoneKeeps
<1>7. CASE at.name # n
  <2>1. /\ entries' = [entries EXCEPT ![n] = Moved(@, "disconnected", None)]
        /\ UNCHANGED <<failed, missed, at, chain>>
    BY <1>7 DEF Exit
  <2> QED BY <1>1, <1>2, <1>3, <1>4, <1>7, <2>1, EntryMoves
<1> QED BY <1>5, <1>6, <1>7

LEMMA StreamKeeps ==
  ASSUME IInv, NEW n \in Names, StreamOpens(n) \/ StreamEnds(n)
  PROVE  IInv'
<1>1. PICK s \in {"open", "ended", "retry"} : entries' = [entries EXCEPT ![n].stream = s]
  BY DEF StreamOpens, StreamEnds
<1>2. UNCHANGED <<config, baseline, chain, at, tools, server, failed, missed, edits>>
  BY DEF StreamOpens, StreamEnds
<1>3. entries \in [Names -> Entry] /\ RegistryIsEntries /\ entries[n].stream # None
  BY DEF IInv, Typed, StreamOpens, StreamEnds, None
<1>4. entries[n] # NoEntry
  BY <1>3 DEF NoEntry
<1>5. PICK st \in {"connecting", "connected", "disconnected"} : st = entries[n].st
  BY <1>3, <1>4, EntryFields DEF Entry
<1>6. /\ entries' \in [Names -> Entry] /\ RegistryIsEntries'
      /\ \A m \in Names : m # n => entries'[m] = entries[m]
      /\ entries'[n].tools = entries[n].tools /\ entries'[n].target = entries[n].target
      /\ entries'[n].st = st /\ entries'[n] # NoEntry
  BY <1>1, <1>2, <1>3, <1>4, <1>5, MoveKeeps
<1>7. fails' \in 0..MaxFails
  BY McpAssumption DEF Fault, IInv, Typed, McpAssumption, StreamOpens, StreamEnds
<1> QED BY <1>2, <1>4, <1>5, <1>6, <1>7, EntryMoves

LEMMA Concatenated ==
  ASSUME chain \in Seq(Jobs), NEW w \in Seq(Jobs), chain' = chain \o w
  PROVE  /\ chain' \in Seq(Jobs)
         /\ \A i \in DOMAIN chain : i \in DOMAIN chain' /\ chain'[i] = chain[i]
         /\ \A i \in DOMAIN w : Len(chain) + i \in DOMAIN chain' /\ chain'[Len(chain) + i] = w[i]
         /\ \A i \in DOMAIN chain' : i \in DOMAIN chain \/ \E k \in DOMAIN w : chain'[i] = w[k]
         /\ chain # <<>> => chain' # <<>> /\ Head(chain') = Head(chain)
<1>1. /\ chain' \in Seq(Jobs) /\ Len(chain') = Len(chain) + Len(w)
      /\ \A i \in 1..Len(chain) + Len(w) :
           chain'[i] = IF i <= Len(chain) THEN chain[i] ELSE w[i - Len(chain)]
  BY ConcatProperties
<1>2. /\ Len(chain) \in Nat /\ DOMAIN chain = 1..Len(chain) /\ Len(w) \in Nat /\ DOMAIN w = 1..Len(w)
      /\ DOMAIN chain' = 1..Len(chain) + Len(w)
  BY <1>1, LenProperties
<1>3. \A i \in DOMAIN chain : i \in DOMAIN chain' /\ chain'[i] = chain[i]
  BY <1>1, <1>2
<1>4. \A i \in DOMAIN w : Len(chain) + i \in DOMAIN chain' /\ chain'[Len(chain) + i] = w[i]
  BY <1>1, <1>2
<1>5. ASSUME NEW i \in DOMAIN chain', i \notin DOMAIN chain
      PROVE  i - Len(chain) \in DOMAIN w /\ chain'[i] = w[i - Len(chain)]
  BY <1>1, <1>2, <1>5
<1>6. ASSUME chain # <<>>
      PROVE  chain' # <<>> /\ Head(chain') = Head(chain)
  <2>1. 1 \in DOMAIN chain /\ Head(chain) = chain[1]
    BY <1>6, ChainFields
  <2>2. chain' # <<>>
    BY <1>1, <1>2, <2>1, EmptySeq
  <2>3. Head(chain') = chain'[1]
    BY <1>1, <2>2
  <2> QED BY <1>3, <2>1, <2>2, <2>3
<1> QED BY <1>1, <1>3, <1>4, <1>5, <1>6

\* The clients that hear of a change each ask anew.
LEMMA HeardAll ==
  ASSUME NEW S \in SUBSET Names, NEW q \in SetToSeqs(S)
  PROVE  LET w == [i \in DOMAIN q |-> Job("refresh", q[i], {}, NoConfigs)] IN
         /\ w \in Seq(Jobs)
         /\ \A i \in DOMAIN w : w[i].op = "refresh"
         /\ \A n \in S : \E i \in DOMAIN w : i >= 1 /\ i \in Nat /\ w[i].name = n
<1>1. IsFiniteSet(S) /\ Cardinality(S) \in Nat
  BY McpAssumption, FS_Subset, FS_CardinalityType DEF McpAssumption
<1>2. PICK k \in Nat : k = Cardinality(S)
  BY <1>1
<1>3. q \in [1..k -> S] /\ \A i, j \in 1..k : i # j => q[i] # q[j]
  BY <1>2 DEF SetToSeqs
<1>4. q \in Injection(1..k, S)
  BY <1>3 DEF Injection, IsInjective
<1>5. IsFiniteSet(1..k) /\ Cardinality(1..k) = k
  BY FS_Interval
<1>6. q \in Surjection(1..k, S)
  BY <1>1, <1>2, <1>4, <1>5, FS_Injection
<1>7. \A n \in S : \E i \in 1..k : q[i] = n
  BY <1>6 DEF Surjection
<1>8. \A n \in Names : /\ Job("refresh", n, {}, NoConfigs) \in Jobs
                       /\ Job("refresh", n, {}, NoConfigs).op = "refresh"
                       /\ Job("refresh", n, {}, NoConfigs).name = n
  BY Constants, JobMade
<1> DEFINE w == [i \in DOMAIN q |-> Job("refresh", q[i], {}, NoConfigs)]
<1>9. DOMAIN q = 1..k
  BY <1>3
<1>10. \A i \in 1..k : w[i] \in Jobs /\ w[i].op = "refresh" /\ w[i].name = q[i]
  BY <1>3, <1>8, <1>9
<1>11. w \in [1..k -> Jobs] /\ DOMAIN w = 1..k
  BY <1>9, <1>10
<1> HIDE DEF w
<1>12. w \in Seq(Jobs)
  BY <1>11, SeqDef
<1>13. \A n \in S : \E i \in DOMAIN w : i >= 1 /\ i \in Nat /\ w[i].name = n
  BY <1>7, <1>10, <1>11
<1> QED BY <1>10, <1>11, <1>12, <1>13 DEF w

LEMMA ChangeKeeps ==
  ASSUME IInv, NEW t \in Targets, Change(t)
  PROVE  IInv'
<1> DEFINE of == {n \in Names : entries[n].target = t /\ entries[n].st = "connected"}
<1>1. PICK S \in SUBSET Names : S = {n \in of : Hears(n)}
  OBVIOUS
<1>2. PICK q \in SetToSeqs(S) : chain' = chain \o [i \in DOMAIN q |-> Job("refresh", q[i], {}, NoConfigs)]
  BY <1>1 DEF Change
<1>3. PICK w \in Seq(Jobs) :
        /\ chain' = chain \o w
        /\ \A i \in DOMAIN w : w[i].op = "refresh"
        /\ \A n \in S : \E i \in DOMAIN w : i >= 1 /\ i \in Nat /\ w[i].name = n
  BY <1>2, HeardAll
<1>4. /\ server[t] < MaxChanges /\ server' = [server EXCEPT ![t] = @ + 1]
      /\ missed' = missed \cup {n \in of : entries[n].stream # "open"}
      /\ UNCHANGED <<config, baseline, at, entries, tools, failed, edits, fails>>
  BY DEF Change
<1>5. /\ chain \in Seq(Jobs) /\ server \in [Targets -> 0..MaxChanges] /\ entries \in [Names -> Entry]
      /\ missed \subseteq Names
  BY DEF IInv, Typed
<1>6. /\ chain' \in Seq(Jobs)
      /\ \A i \in DOMAIN chain : i \in DOMAIN chain' /\ chain'[i] = chain[i]
      /\ \A i \in DOMAIN w : Len(chain) + i \in DOMAIN chain' /\ chain'[Len(chain) + i] = w[i]
      /\ \A i \in DOMAIN chain' : i \in DOMAIN chain \/ \E k \in DOMAIN w : chain'[i] = w[k]
      /\ chain # <<>> => chain' # <<>> /\ Head(chain') = Head(chain)
  BY <1>3, <1>5, Concatenated
<1>7. /\ server' \in [Targets -> 0..MaxChanges]
      /\ \A u \in Targets : u # t => server'[u] = server[u]
      /\ \A u \in Targets, v \in Nat : v <= server[u] => v <= server'[u]
  BY <1>4, <1>5, McpAssumption DEF McpAssumption
<1>8. Typed'
  BY <1>4, <1>5, <1>6, <1>7 DEF IInv, Typed
<1>9. Waits'
  BY <1>4, <1>6 DEF IInv, Waits, Awaits
<1>10. RegistryIsEntries'
  BY <1>4 DEF IInv, RegistryIsEntries
<1>11. Offered'
  <2>1. ASSUME NEW n \in Names, NEW v \in entries[n].tools
        PROVE  v <= server'[entries[n].target]
    <3>1. entries[n].target \in Targets /\ v \in Nat
      BY <1>5, <2>1, EntryFields, Constants
    <3> QED BY <1>7, <2>1, <3>1 DEF IInv, Offered
  <2>2. ASSUME at.at = "answer"
        PROVE  at.got <= server'[entries[at.name].target] /\ \A v \in entries[at.name].tools : v <= at.got
    <3>1. entries[at.name].target \in Targets /\ at.got \in 0..MaxChanges
      BY <2>2, WaitsCases, AwaitsFields
    <3> QED BY <1>7, <2>2, <3>1 DEF IInv, Offered
  <2> QED BY <1>4, <2>1, <2>2 DEF Offered
<1>12. \A i \in DOMAIN chain, n \in Names : Serves(chain[i], n) => Serves(chain[i], n)'
  BY <1>4, <1>6 DEF Serves
<1>13. Overtaken'
  <2> SUFFICES ASSUME NEW i \in DOMAIN chain', NEW m \in Names,
                      chain'[i].op = "connect", m \in chain'[i].todo, ~Serves(chain[i], m)'
               PROVE  \E k \in DOMAIN chain' : k > i /\ Serves(chain[k], m)'
    BY DEF Overtaken
  <2>1. i \in DOMAIN chain /\ chain'[i] = chain[i]
    BY <1>3, <1>6
  <2>2. PICK k \in DOMAIN chain : k > i /\ Serves(chain[k], m)
    BY <1>12, <2>1 DEF IInv, Overtaken
  <2> QED BY <1>6, <1>12, <2>2
<1>14. WillApply'
  <2> SUFFICES ASSUME NEW m \in Names PROVE Right(m)' \/ \E i \in DOMAIN chain' : Serves(chain[i], m)'
    BY DEF WillApply
  <2>1. Right(m) => Right(m)'
    BY <1>4 DEF Right
  <2> QED BY <1>6, <1>12, <2>1 DEF IInv, WillApply
<1>15. WillFresh'
  <2> SUFFICES ASSUME NEW m \in Names, entries[m].st = "connected", m \notin missed'
               PROVE  Informed(m)'
    BY <1>4 DEF WillFresh
  <2>1. Informed(m)
    BY <1>4 DEF IInv, WillFresh
  <2>2. CASE entries[m].target = t
    <3>1. m \in S
      BY <1>1, <1>4, <2>2 DEF Hears
    <3>2. PICK i \in DOMAIN w : i >= 1 /\ i \in Nat /\ w[i].name = m
      BY <1>3, <3>1
    <3>3. Len(chain) \in Nat /\ (Len(chain) + i = 1 => chain = <<>>)
      BY <1>5, <3>2, EmptySeq
    <3>4. Len(chain) + i = 1 => at'.at = "next"
      BY <1>4, <3>3, WaitsCases, AwaitsFields
    <3>5. PICK k \in DOMAIN chain' : k = Len(chain) + i /\ chain'[k].op = "refresh" /\ chain'[k].name = m
      BY <1>3, <1>6, <3>2
    <3> QED BY <3>4, <3>5 DEF Informed
  <2>3. CASE entries[m].target # t
    <3>1. entries[m].target \in Targets
      BY <1>5, EntryFields, Constants DEF None
    <3>2. server'[entries[m].target] = server[entries[m].target]
      BY <1>7, <2>3, <3>1
    <3>3. (\E i \in DOMAIN chain : chain[i].op = "refresh" /\ chain[i].name = m /\ (i = 1 => at.at = "next"))
          => \E i \in DOMAIN chain' : chain'[i].op = "refresh" /\ chain'[i].name = m /\ (i = 1 => at'.at = "next")
      BY <1>4, <1>6
    <3> QED BY <1>4, <2>1, <3>2, <3>3 DEF Informed
  <2> QED BY <2>2, <2>3
<1> QED BY <1>8, <1>9, <1>10, <1>11, <1>13, <1>14, <1>15 DEF IInv

-----------------------------------------------------------------------------
(* The theorems.                                                           *)

LEMMA NextHolds == IInv /\ [Next]_vars => IInv'
<1> SUFFICES ASSUME IInv, [Next]_vars PROVE IInv'
  OBVIOUS
<1>1. CASE Next
  <2>1. CASE BeginConnect \/ BeginRemove \/ BeginAll \/ BeginRefresh
    BY <2>1, BeginConnectKeeps, BeginRemoveKeeps, BeginAllKeeps, BeginRefreshKeeps
  <2>2. CASE InitializedStdio \/ InitializedHttp \/ Asked \/ Answered \/ FailsStdio \/ FailsHttp
    BY <2>2, InitializedKeeps, AskedKeeps, AnsweredKeeps, FailsKeeps
  <2>3. CASE Refresh \/ UpdateConfig
    BY <2>3, RefreshKeeps, UpdateConfigKeeps
  <2>4. CASE \E n \in Names : \/ RemoveServer(n) \/ Exit(n) \/ StreamOpens(n) \/ StreamEnds(n)
                              \/ \E c \in Configs : Upsert(n, c)
    BY <2>4, RemoveServerKeeps, ExitKeeps, StreamKeeps, UpsertKeeps
  <2>5. CASE \E t \in Targets : Change(t)
    BY <2>5, ChangeKeeps
  <2> QED BY <1>1, <2>1, <2>2, <2>3, <2>4, <2>5 DEF Next
<1>2. CASE UNCHANGED vars
  <2>1. UNCHANGED <<config, baseline, chain, at, entries, tools, server, failed, missed, edits, fails>>
    BY <1>2 DEF vars
  <2>2. Typed' /\ Waits' /\ RegistryIsEntries' /\ Offered'
    BY <2>1 DEF IInv, Typed, Waits, Awaits, RegistryIsEntries, Offered
  <2>3. Overtaken' /\ WillApply' /\ WillFresh'
    BY <2>1 DEF IInv, Overtaken, WillApply, Serves, Right, WillFresh, Informed
  <2> QED BY <2>2, <2>3 DEF IInv
<1> QED BY <1>1, <1>2

\* The inductive invariant holds in every state of the MCP manager
\* (mcp/manager.ts), whoever edits the configuration and whatever fails.
THEOREM Invariance == Spec => []IInv
<1>1. Init => IInv
  BY InitHolds
<1>2. IInv /\ [Next]_vars => IInv'
  BY NextHolds
<1> QED BY <1>1, <1>2, PTL DEF Spec

LEMMA InvIsTools == IInv => Tools
<1> SUFFICES ASSUME IInv PROVE TypeOK
  BY DEF IInv, Tools
<1>1. Typed /\ chain \in Seq(Jobs) /\ entries \in [Names -> Entry] /\ RegistryIsEntries
  BY DEF IInv, Typed
<1>2. \A i \in 1..Len(chain) :
        /\ chain[i].op \in {"connect", "remove", "all", "refresh"}
        /\ chain[i].name \in Names \cup {None} /\ chain[i].todo \subseteq Names
  BY <1>1, ElementOfSeq, JobFields
<1>3. at.at \in {"next", "init", "ask", "answer"} /\ (at.at # "next" => chain # <<>>)
  BY WaitsCases, AwaitsFields
<1>4. Entry \subseteq [client : Clients \cup {0}, target : Targets \cup {None},
       st : {None, "connecting", "connected", "disconnected"}, tools : SUBSET (0..MaxChanges),
       stream : {None, "opening", "open", "retry", "ended"}]
  BY DEF Entry, NoEntry
<1>5. entries \in [Names -> [client : Clients \cup {0}, target : Targets \cup {None},
       st : {None, "connecting", "connected", "disconnected"}, tools : SUBSET (0..MaxChanges),
       stream : {None, "opening", "open", "retry", "ended"}]]
  BY <1>1, <1>4
<1>6. tools \subseteq [server : Names, tool : 0..MaxChanges, client : Clients]
  <2> SUFFICES ASSUME NEW x \in tools PROVE x \in [server : Names, tool : 0..MaxChanges, client : Clients]
    OBVIOUS
  <2>1. PICK n \in Names : \E v \in entries[n].tools : x = [server |-> n, tool |-> v, client |-> entries[n].client]
    BY <1>1, RegistryPoints
  <2>2. PICK v \in entries[n].tools : x = [server |-> n, tool |-> v, client |-> entries[n].client]
    BY <2>1
  <2>3. entries[n].client \in Clients /\ v \in 0..MaxChanges
    BY <1>1, <2>2, EntryFields, Constants
  <2> QED BY <2>2, <2>3
<1> QED BY <1>1, <1>2, <1>3, <1>5, <1>6 DEF TypeOK, Typed, Table

\* However servers are edited, removed, refreshed and lost, and however they
\* change their tools: the registry holds the tools of the servers entered and
\* no others, each with the client of its server (registerTools(),
\* unregisterTools()).
THEOREM RegistryCorrect == Spec => []Tools
BY Invariance, InvIsTools, PTL

\* When the last job of the chain is done the servers entered are those that
\* the configuration names and enables (upsertServer(), reconnectAll(),
\* sameTarget()), whatever was edited while they were being connected.
THEOREM ConfigurationApplied == Spec => []Applied
<1>1. IInv => Applied
  <2> SUFFICES ASSUME IInv, chain = <<>>, NEW n \in Names PROVE Right(n)
    BY DEF Applied, Right
  <2>1. DOMAIN chain = {}
    OBVIOUS
  <2> QED BY <2>1 DEF IInv, WillApply
<1> QED BY <1>1, Invariance, PTL

\* When the last job of the chain is done the tools of a connected server are
\* those it offers now, unless it could not say that they have changed
\* (onToolsChanged(), refreshServerTools()).
THEOREM ToolsAreFresh == Spec => []Fresh
<1>1. IInv => Fresh
  <2> SUFFICES ASSUME IInv, chain = <<>>, NEW n \in Names, entries[n].st = "connected", n \notin missed
               PROVE  entries[n].tools = {server[entries[n].target]}
    BY DEF Fresh
  <2>1. DOMAIN chain = {} /\ at = NoWait
    BY WaitsCases, AwaitsFields
  <2>2. Informed(n) /\ at.name # n
    BY <2>1, Constants DEF IInv, WillFresh
  <2> QED BY <2>1, <2>2 DEF Informed
<1> QED BY <1>1, Invariance, PTL

-----------------------------------------------------------------------------
(* The logins: the inductive invariant.                                    *)

Session == [p : L!Loginables, cred : L!Creds, via : L!Creds]

\* What a request that waits has asked for, and with what.
CallOK(k) ==
  /\ k \in [op : {"none", "create", "poll", "exchange", "set", "confirm", "ask", "renew"},
            p : L!Loginables \cup {"none"}, cred : L!Creds, via : L!Creds]
  /\ k.op = "none" <=> k = L!NoCall
  /\ k.op # "none" => k.p \in L!Loginables
  /\ k.op \in {"poll", "exchange"} => k.cred # L!Bad
  /\ k.op \in {"ask", "renew", "exchange", "confirm"} => k.p = "qq"
  /\ k.op = "set" => L!Validates(k.p)

LoginTyped ==
  /\ cred \in [L!Loginables -> L!Creds] /\ saved \in [L!Loginables -> L!Creds]
  /\ qr \in [L!Loginables -> 0..MaxCodes]
  /\ DOMAIN calls = Callers /\ \A c \in Callers : CallOK(calls[c])
  /\ restores \in Seq(Seq(Session)) /\ restores # <<>>
  /\ codes \in 0..MaxCodes /\ ops \in 0..MaxOps /\ contested \subseteq L!Loginables /\ misled \subseteq {"qq"}

\* The request of c tries a credential for p, or waits for a login; a
\* restoration has p somewhere.
Wants(c, p) == calls[c].p = p /\ calls[c].op \in {"set", "confirm", "ask", "renew"}
Logs(c, p)  == calls[c].p = p /\ calls[c].op \in {"poll", "exchange"}
InRestore(p) == \E i \in 1..Len(restores) : \E j \in 1..Len(restores[i]) : restores[i][j].p = p

OneCall(p) == \A c, d \in Callers : Wants(c, p) /\ Wants(d, p) => c = d
OneRestore(p) ==
  \A i, k \in 1..Len(restores) : \A j \in 1..Len(restores[i]), l \in 1..Len(restores[k]) :
    restores[i][j].p = p /\ restores[k][l].p = p => i = k /\ j = l
Untried(p) == ~InRestore(p) /\ \A c \in Callers : ~Wants(c, p)

\* One at a time tries a credential for p, while nobody logs in.
Alone(p) ==
  /\ OneCall(p) /\ OneRestore(p) /\ ~(InRestore(p) /\ \E c \in Callers : Wants(c, p))
  /\ Untried(p) \/ \A c \in Callers : ~Logs(c, p)

Good(p) == {saved[p], 0}
RestoresSaved(p) ==
  \A i \in 1..Len(restores) : \A j \in 1..Len(restores[i]) :
    restores[i][j].p = p => restores[i][j].cred = saved[p] /\ restores[i][j].via \in Good(p)
Sets(c, p) == Wants(c, p) /\ calls[c].op \in {"set", "confirm"}
Fit(c, p) ==
  /\ Sets(c, p) => cred[p] = calls[c].cred /\ (calls[c].op = "confirm" => calls[c].via = calls[c].cred)
  /\ Wants(c, p) /\ calls[c].op = "renew" => calls[c].cred \in Good(p)
CallsFit(p) == \A c \in Callers : Fit(c, p)

\* The provider uses the saved credential or none, or one that is being tried
\* for a page; who tries one without a page holds the saved one too.
Settled(p) ==
  /\ RestoresSaved(p) /\ CallsFit(p)
  /\ (\A c \in Callers : ~Sets(c, p)) => cred[p] \in Good(p)

InOrder(p) ==
  /\ saved[p] = L!Bad => ~L!Validates(p) \/ p \in misled
  /\ p \notin contested => Alone(p) /\ Settled(p)
LoginInv == LoginTyped /\ \A p \in L!Loginables : InOrder(p)

-----------------------------------------------------------------------------
(* Lemmas.                                                                 *)

LEMMA LoginConstants ==
  ASSUME L!LoginAssumption
  PROVE  /\ L!Bad \in L!Creds /\ 0 \in L!Creds /\ 0..MaxCodes \subseteq L!Creds /\ 0 \in 0..MaxCodes /\ 0 # L!Bad
         /\ \A k \in 0..MaxCodes : k # L!Bad
         /\ {"netease", "kugou", "qq"} = L!Loginables /\ "none" \notin L!Loginables
BY DEF L!LoginAssumption, L!Bad, L!Creds, L!Loginables

LEMMA RestOf ==
  ASSUME NEW T, NEW q \in Seq(T), q # <<>>
  PROVE  /\ Tail(q) \in Seq(T) /\ Len(Tail(q)) + 1 = Len(q) /\ \A j \in 1..Len(Tail(q)) : Tail(q)[j] = q[j + 1]
         /\ Head(q) = q[1] /\ q[1] \in T /\ 1 \in 1..Len(q)
OBVIOUS

LEMMA NoCallOK == ASSUME L!LoginAssumption PROVE CallOK(L!NoCall)
BY LoginConstants DEF CallOK, L!NoCall

LEMMA NoneCalls == ASSUME NEW p, NEW c, calls[c] = L!NoCall PROVE ~Wants(c, p) /\ ~Logs(c, p)
BY DEF Wants, Logs, L!NoCall

LEMMA NotTried ==
  ASSUME LoginTyped, NEW p \in L!Loginables, ~L!Tries(p)
  PROVE  Untried(p)
<1>1. ~InRestore(p)
  <2> SUFFICES ASSUME NEW i \in 1..Len(restores), NEW j \in 1..Len(restores[i]), restores[i][j].p = p PROVE FALSE
      BY DEF InRestore
  <2>1. PICK q \in Seq(Seq(Session)) : q = restores
      BY DEF LoginTyped
  <2>2. i \in DOMAIN restores /\ restores[i] \in Seq(Session)
      BY <2>1
  <2>3. j \in DOMAIN restores[i]
      BY <2>2
  <2> QED BY <2>2, <2>3 DEF L!Tries
<1>2. ASSUME NEW c \in Callers, Wants(c, p) PROVE FALSE
      BY <1>2 DEF L!Tries, Wants
<1> QED BY <1>1, <1>2 DEF Untried

LEMMA NotPolled == ASSUME NEW p, ~L!Polls(p), NEW c \in Callers PROVE ~Logs(c, p)
BY DEF L!Polls, Logs

\* Nobody tries a credential for p.
LEMMA Free ==
  ASSUME NEW p, Untried(p)', (cred[p] \in Good(p))'
  PROVE  Alone(p)' /\ Settled(p)'
BY DEF Untried, InRestore, Alone, OneCall, OneRestore, Settled, RestoresSaved, CallsFit, Fit, Sets

\* The request of c alone does.
LEMMA Mine ==
  ASSUME NEW p, NEW c \in Callers, ~InRestore(p)', \A d \in Callers \ {c} : ~Wants(d, p)',
         \A d \in Callers : ~Logs(d, p)', Fit(c, p)', Sets(c, p)' \/ (cred[p] \in Good(p))'
  PROVE  Alone(p)' /\ Settled(p)'
<1>1. OneCall(p)' /\ CallsFit(p)'
      BY DEF OneCall, CallsFit, Fit, Sets
<1>2. OneRestore(p)' /\ RestoresSaved(p)'
      BY DEF InRestore, OneRestore, RestoresSaved
<1>3. (\A d \in Callers : ~Sets(d, p))' => (cred[p] \in Good(p))'
      OBVIOUS
<1> QED BY <1>1, <1>2, <1>3 DEF Alone, Settled

\* Nothing changes for p: requests that come or go do not try its credential,
\* nor do those that come log in.
LEMMA Elsewhere ==
  ASSUME NEW p, Alone(p), Settled(p), UNCHANGED restores, cred'[p] = cred[p], saved'[p] = saved[p],
         \A c \in Callers : calls'[c] = calls[c] \/ (~Wants(c, p) /\ ~Wants(c, p)' /\ ~Logs(c, p)')
  PROVE  Alone(p)' /\ Settled(p)'
<1>1. \A c \in Callers : (Wants(c, p)' <=> Wants(c, p)) /\ (Logs(c, p)' => Logs(c, p))
      BY DEF Wants, Logs
<1>2. \A c \in Callers : (Sets(c, p)' <=> Sets(c, p)) /\ (Wants(c, p)' => calls'[c] = calls[c])
      BY <1>1 DEF Sets, Wants
<1>3. InRestore(p)' = InRestore(p) /\ OneRestore(p)' = OneRestore(p)
      BY DEF InRestore, OneRestore
<1>4. Good(p)' = Good(p)
      BY DEF Good
<1>5. Alone(p)'
      BY <1>1, <1>3 DEF Alone, OneCall, Untried
<1>6. RestoresSaved(p)'
      BY <1>4 DEF Settled, RestoresSaved
<1>7. CallsFit(p)'
  <2> SUFFICES ASSUME NEW c \in Callers PROVE Fit(c, p)'
      BY DEF CallsFit
  <2>1. Fit(c, p)
      BY DEF Settled, CallsFit
  <2>2. CASE Wants(c, p)
    <3>1. calls'[c] = calls[c]
        BY <1>1, <1>2, <2>2
    <3> QED BY <2>1, <3>1, <1>4 DEF Fit, Sets, Wants
  <2>3. CASE ~Wants(c, p)
        BY <1>1, <2>3 DEF Fit, Sets
  <2> QED BY <2>2, <2>3
<1> QED BY <1>2, <1>4, <1>5, <1>6, <1>7 DEF Settled

LEMMA Others ==
  ASSUME LoginInv, NEW p \in L!Loginables, UNCHANGED restores,
         \A d \in Callers : calls'[d] = calls[d] \/ (~Wants(d, p) /\ ~Wants(d, p)' /\ ~Logs(d, p)'),
         p \in contested => p \in contested', p \in misled => p \in misled',
         cred'[p] = cred[p], saved'[p] = saved[p]
  PROVE  InOrder(p)'
<1>1. InOrder(p)
      BY DEF LoginInv
<1>2. p \notin contested' => Alone(p)' /\ Settled(p)'
      BY <1>1, Elsewhere DEF InOrder
<1> QED BY <1>1, <1>2 DEF InOrder

-----------------------------------------------------------------------------
(* Requests.                                                               *)

LEMMA CallsSet ==
  ASSUME LoginTyped, NEW c \in Callers, NEW k, CallOK(k), calls' = [calls EXCEPT ![c] = k]
  PROVE  /\ DOMAIN calls' = Callers /\ \A d \in Callers : CallOK(calls'[d])
         /\ calls'[c] = k /\ \A d \in Callers \ {c} : calls'[d] = calls[d]
BY DEF LoginTyped

\* p gets the credential that is saved, or none, while nobody tries one for it;
\* or it is contested.
LEMMA Lone ==
  ASSUME LoginInv, LoginTyped', NEW p \in L!Loginables, UNCHANGED restores,
         \A q \in L!Loginables \ {p} : /\ cred'[q] = cred[q] /\ saved'[q] = saved[q]
                                       /\ q \in contested => q \in contested'
                                       /\ q \in misled => q \in misled',
         \A d \in Callers : \/ calls'[d] = calls[d]
                            \/ \A q \in L!Loginables : ~Wants(d, q) /\ ~Wants(d, q)' /\ (q # p => ~Logs(d, q)'),
         saved'[p] = L!Bad => ~L!Validates(p) \/ p \in misled',
         p \notin contested' => Untried(p) /\ cred'[p] \in Good(p)'
  PROVE  LoginInv'
<1>1. ASSUME NEW q \in L!Loginables, q # p PROVE InOrder(q)'
      BY <1>1, Others
<1>2. InOrder(p)'
  <2>1. p \notin contested' => Alone(p)' /\ Settled(p)'
    <3> SUFFICES ASSUME p \notin contested' PROVE Alone(p)' /\ Settled(p)'
        OBVIOUS
    <3>1. \A d \in Callers : ~Wants(d, p)'
        BY DEF Untried, Wants
    <3>2. ~InRestore(p)'
        BY DEF Untried, InRestore
    <3> QED BY <3>1, <3>2, Free DEF Untried
  <2> QED BY <2>1 DEF InOrder
<1> QED BY <1>1, <1>2 DEF LoginInv

\* An answer for c, which tries a credential for p: it goes, or asks again.
LEMMA Answers ==
  ASSUME L!LoginAssumption, LoginInv, NEW c \in Callers, NEW p \in L!Loginables, Wants(c, p),
         NEW k, k = L!NoCall \/ (CallOK(k) /\ k.p = p /\ k.op \notin {"poll", "exchange"}),
         calls' = [calls EXCEPT ![c] = k], UNCHANGED <<qr, restores, codes, ops>>,
         cred' \in [L!Loginables -> L!Creds], saved' \in [L!Loginables -> L!Creds],
         \A q \in L!Loginables \ {p} : cred'[q] = cred[q] /\ saved'[q] = saved[q] /\ (q \in misled => q \in misled'),
         contested \subseteq contested', contested' \subseteq L!Loginables, misled' \subseteq {"qq"},
         saved'[p] = L!Bad => ~L!Validates(p) \/ p \in misled',
         p \notin contested' => Fit(c, p)' /\ (Sets(c, p)' \/ cred'[p] \in Good(p)')
  PROVE  LoginInv'
<1>1. CallOK(k) /\ (k # L!NoCall => k.p = p /\ k.op \notin {"poll", "exchange"})
      BY NoCallOK
<1>2. /\ DOMAIN calls' = Callers /\ \A d \in Callers : CallOK(calls'[d])
      /\ calls'[c] = k /\ \A d \in Callers \ {c} : calls'[d] = calls[d]
      BY <1>1, CallsSet DEF LoginInv
<1>3. LoginTyped'
      BY <1>2 DEF LoginInv, LoginTyped
<1>4. ASSUME NEW q \in L!Loginables, q # p PROVE InOrder(q)'
  <2>1. ~Wants(c, q) /\ ~Wants(c, q)' /\ ~Logs(c, q)'
      BY <1>1, <1>2, <1>4, LoginConstants DEF Wants, Logs, L!NoCall
  <2> QED BY <1>2, <1>4, <2>1, Others
<1>5. InOrder(p)'
  <2>1. p \notin contested' => Alone(p)' /\ Settled(p)'
    <3> SUFFICES ASSUME p \notin contested' PROVE Alone(p)' /\ Settled(p)'
        OBVIOUS
    <3>1. Alone(p)
        BY DEF LoginInv, InOrder
    <3>2. ~InRestore(p) /\ (\A d \in Callers \ {c} : ~Wants(d, p)) /\ \A d \in Callers : ~Logs(d, p)
        BY <3>1 DEF Alone, OneCall, Untried
    <3>3. ~InRestore(p)' /\ \A d \in Callers \ {c} : ~Wants(d, p)' /\ ~Logs(d, p)'
        BY <3>2, <1>2 DEF InRestore, Wants, Logs
    <3>4. ~Logs(c, p)'
        BY <1>1, <1>2 DEF Logs, L!NoCall
    <3> QED BY <3>3, <3>4, Mine
  <2> QED BY <2>1 DEF InOrder
<1> QED BY <1>3, <1>4, <1>5 DEF LoginInv

\* A request of c that tries a credential for p from now on.
LEMMA Asks ==
  ASSUME L!LoginAssumption, LoginInv, NEW c \in Callers, NEW p \in L!Loginables,
         NEW k, CallOK(k), k.p = p, k.op \in {"set", "ask"}, L!Idle(c),
         calls' = [calls EXCEPT ![c] = k], UNCHANGED <<saved, qr, restores, codes, misled>>, ops' \in 0..MaxOps,
         cred' \in [L!Loginables -> L!Creds], contested' \subseteq L!Loginables,
         \A q \in L!Loginables \ {p} : cred'[q] = cred[q] /\ (q \in contested => q \in contested'),
         p \notin contested' => ~L!Tries(p) /\ ~L!Polls(p),
         IF k.op = "set" THEN cred'[p] = k.cred
                         ELSE cred'[p] = cred[p] /\ (p \in contested => p \in contested')
  PROVE  LoginInv'
<1>1. /\ DOMAIN calls' = Callers /\ \A d \in Callers : CallOK(calls'[d])
      /\ calls'[c] = k /\ \A d \in Callers \ {c} : calls'[d] = calls[d]
      BY CallsSet DEF LoginInv
<1>2. LoginTyped'
      BY <1>1 DEF LoginInv, LoginTyped
<1>3. ASSUME NEW q \in L!Loginables, q # p PROVE InOrder(q)'
  <2>1. ~Wants(c, q)
      BY NoneCalls DEF L!Idle
  <2>2. ~Wants(c, q)' /\ ~Logs(c, q)'
      BY <1>1, <1>3 DEF Wants, Logs
  <2> QED BY <1>1, <1>3, <2>1, <2>2, Others
<1>4. InOrder(p)'
  <2>1. p \notin contested' => Alone(p)' /\ Settled(p)'
    <3> SUFFICES ASSUME p \notin contested' PROVE Alone(p)' /\ Settled(p)'
        OBVIOUS
    <3>1. Untried(p) /\ \A d \in Callers : ~Logs(d, p)
        BY NotTried, NotPolled DEF LoginInv
    <3>2. ~InRestore(p)' /\ \A d \in Callers \ {c} : ~Wants(d, p)' /\ ~Logs(d, p)'
        BY <3>1, <1>1 DEF Untried, InRestore, Wants, Logs
    <3>3. ~Logs(c, p)'
        BY <1>1 DEF Logs
    <3>4. k.op = "ask" => cred'[p] \in Good(p)'
        BY <3>1 DEF LoginInv, InOrder, Settled, Sets, Untried, Good
    <3>5. Sets(c, p)' \/ cred'[p] \in Good(p)'
        BY <3>4, <1>1 DEF Sets, Wants
    <3>6. Fit(c, p)'
        BY <1>1 DEF Fit, Sets, Wants
    <3> QED BY <3>2, <3>3, <3>5, <3>6, Mine
  <2> QED BY <2>1 DEF InOrder, LoginInv
<1> QED BY <1>2, <1>3, <1>4 DEF LoginInv

LEMMA OpsCount == ASSUME LoginInv, L!LoginAssumption, ops < MaxOps, ops' = ops + 1 PROVE ops' \in 0..MaxOps
BY DEF LoginInv, LoginTyped, L!LoginAssumption

LEMMA LoginFields ==
  ASSUME LoginInv, NEW c \in Callers
  PROVE  /\ CallOK(calls[c]) /\ calls[c].cred \in L!Creds /\ calls[c].via \in L!Creds
         /\ (calls[c].op \notin {"none", "create"} => calls[c].p \in L!Loginables)
         /\ cred \in [L!Loginables -> L!Creds] /\ saved \in [L!Loginables -> L!Creds]
         /\ qr \in [L!Loginables -> 0..MaxCodes] /\ contested \subseteq L!Loginables /\ misled \subseteq {"qq"}
         /\ codes \in 0..MaxCodes /\ ops \in 0..MaxOps
BY DEF LoginInv, LoginTyped, CallOK

LEMMA UnlessIs ==
  ASSUME LoginInv, NEW p \in L!Loginables, NEW b, L!Unless(p, b)
  PROVE  /\ contested' \subseteq L!Loginables /\ (p \notin contested' => ~b)
         /\ \A q \in L!Loginables \ {p} : q \in contested => q \in contested'
BY DEF L!Unless, LoginInv, LoginTyped

LEMMA CreateKeeps ==
  ASSUME L!LoginAssumption, LoginInv, NEW c \in Callers, (\E p \in L!Loginables : L!Create(c, p)) \/ L!Created(c)
  PROVE  LoginInv'
<1>1. /\ UNCHANGED <<cred, saved, restores, contested, misled>> /\ ops' \in 0..MaxOps
      /\ codes' \in 0..MaxCodes /\ qr' \in [L!Loginables -> 0..MaxCodes]
  <2>1. CASE \E p \in L!Loginables : L!Create(c, p)
        BY <2>1, OpsCount, LoginFields DEF L!Create, L!Op
  <2>2. CASE L!Created(c)
    <3>1. calls[c].p \in L!Loginables
          BY <2>2 DEF L!Created, LoginInv, LoginTyped, CallOK
    <3> QED BY <2>2, <3>1, LoginFields DEF L!Created, L!LoginAssumption
  <2> QED BY <2>1, <2>2
<1>2. PICK k : /\ CallOK(k) /\ k.op \in {"none", "create"} /\ calls' = [calls EXCEPT ![c] = k]
               /\ calls[c].op \in {"none", "create"}
  <2>1. CASE L!Created(c)
        BY <2>1, NoCallOK DEF L!Created, L!Returns, L!NoCall
  <2>2. CASE \E p \in L!Loginables : L!Create(c, p)
    <3>1. PICK p \in L!Loginables : L!Create(c, p)
          BY <2>2
    <3>2. PICK k : k = [op |-> "create", p |-> p, cred |-> 0, via |-> 0]
          OBVIOUS
    <3>3. CallOK(k) /\ k.op = "create"
          BY <3>2, LoginConstants DEF CallOK, L!NoCall
    <3>4. calls' = [calls EXCEPT ![c] = k] /\ calls[c].op = "none"
          BY <3>1, <3>2 DEF L!Create, L!Waits, L!Idle, L!NoCall
    <3> QED BY <3>3, <3>4
  <2> QED BY <2>1, <2>2
<1>3. /\ DOMAIN calls' = Callers /\ \A d \in Callers : CallOK(calls'[d])
      /\ calls'[c] = k /\ \A d \in Callers \ {c} : calls'[d] = calls[d]
      BY <1>2, CallsSet DEF LoginInv
<1>4. LoginTyped'
      BY <1>1, <1>3 DEF LoginInv, LoginTyped
<1>5. ASSUME NEW p \in L!Loginables PROVE InOrder(p)'
  <2>1. ~Wants(c, p) /\ ~Wants(c, p)' /\ ~Logs(c, p)'
      BY <1>2, <1>3 DEF Wants, Logs
  <2> QED BY <1>1, <1>3, <2>1, Others
<1> QED BY <1>4, <1>5 DEF LoginInv

LEMMA PollKeeps ==
  ASSUME L!LoginAssumption, LoginInv, NEW c \in Callers, NEW p \in L!Loginables, L!Poll(c, p)
  PROVE  LoginInv'
<1>1. PICK k : k = [op |-> "poll", p |-> p, cred |-> qr[p], via |-> 0]
      OBVIOUS
<1>2. qr[p] \in L!Creds /\ qr[p] # L!Bad
      BY LoginConstants, LoginFields
<1>3. CallOK(k) /\ k.op = "poll" /\ k.p = p
      BY <1>1, <1>2, LoginConstants DEF CallOK, L!NoCall
<1>4. calls' = [calls EXCEPT ![c] = k] /\ calls[c] = L!NoCall /\ ops' \in 0..MaxOps
      /\ contested' = contested \cup {q \in {p} : L!Tries(q)} /\ UNCHANGED <<cred, saved, qr, restores, codes, misled>>
      BY <1>1, OpsCount DEF L!Poll, L!Waits, L!Op, L!Contests, L!Idle
<1>5. /\ DOMAIN calls' = Callers /\ \A d \in Callers : CallOK(calls'[d])
      /\ calls'[c] = k /\ \A d \in Callers \ {c} : calls'[d] = calls[d]
      BY <1>3, <1>4, CallsSet DEF LoginInv
<1>6. LoginTyped'
      BY <1>4, <1>5 DEF LoginInv, LoginTyped
<1>7. \A q \in L!Loginables : ~Wants(c, q) /\ ~Wants(c, q)' /\ (q # p => ~Logs(c, q)')
  <2> SUFFICES ASSUME NEW q \in L!Loginables PROVE ~Wants(c, q) /\ ~Wants(c, q)' /\ (q # p => ~Logs(c, q)')
      OBVIOUS
  <2>1. ~Wants(c, q)
      BY <1>4, NoneCalls
  <2> QED BY <2>1, <1>3, <1>5 DEF Wants, Logs
<1>8. p \notin contested' => p \notin contested /\ Untried(p)
      BY <1>4, NotTried DEF LoginInv
<1>9. InOrder(p)
      BY DEF LoginInv
<1>10. p \notin contested' => cred'[p] \in Good(p)'
      BY <1>4, <1>8, <1>9 DEF InOrder, Settled, Sets, Untried, Good
<1> QED BY <1>4, <1>5, <1>6, <1>7, <1>8, <1>9, <1>10, Lone DEF InOrder

\* The answers to a poll, and of exchangeCode().
LEMMA PolledKeeps ==
  ASSUME L!LoginAssumption, LoginInv, NEW c \in Callers,
         L!PolledNetease(c) \/ L!PolledKugou(c) \/ L!PolledQq(c) \/ L!Exchanged(c)
  PROVE  LoginInv'
<1>1. calls[c].op \in {"poll", "exchange"} /\ UNCHANGED <<restores, codes, ops>>
      BY DEF L!PolledNetease, L!PolledKugou, L!PolledQq, L!Exchanged
<1>2. PICK p \in L!Loginables : calls[c].p = p
      BY <1>1, LoginFields
<1>3. calls[c].cred \in L!Creds /\ calls[c].cred # L!Bad /\ InOrder(p) /\ Logs(c, p)
      /\ (calls[c].op = "exchange" => p = "qq")
      BY <1>1, <1>2, LoginFields DEF CallOK, LoginInv, Logs
<1>4. \/ calls' = [calls EXCEPT ![c] = L!NoCall]
      \/ p = "qq" /\ calls' = [calls EXCEPT ![c] = [op |-> "exchange", p |-> "qq", cred |-> calls[c].cred, via |-> 0]]
      BY <1>1, <1>2 DEF L!PolledNetease, L!PolledKugou, L!PolledQq, L!Exchanged, L!Returns, L!Waits
<1>5. PICK k : /\ k = L!NoCall \/ (CallOK(k) /\ k.p = p /\ k.op = "exchange")
               /\ calls' = [calls EXCEPT ![c] = k]
  <2>1. p = "qq" => CallOK([op |-> "exchange", p |-> "qq", cred |-> calls[c].cred, via |-> 0])
        BY <1>3, LoginConstants DEF CallOK, L!NoCall
  <2> QED BY <1>4, <2>1
<1>6. \/ UNCHANGED <<cred, saved, contested, misled>> /\ (qr' = qr \/ qr' = [qr EXCEPT ![p] = 0])
      \/ L!LogsIn(p, calls[c].cred)
      \/ /\ cred' = [cred EXCEPT ![p] = 0] /\ UNCHANGED <<saved, contested, misled>>
         /\ qr' = qr \/ qr' = [qr EXCEPT ![p] = 0]
      BY <1>1, <1>2, <1>3 DEF L!PolledNetease, L!PolledKugou, L!PolledQq, L!Exchanged, L!NoLogin, L!Refused
<1>7. /\ cred' \in [L!Loginables -> L!Creds] /\ saved' \in [L!Loginables -> L!Creds]
      /\ qr' \in [L!Loginables -> 0..MaxCodes] /\ misled' \subseteq {"qq"}
      /\ \A q \in L!Loginables \ {p} : cred'[q] = cred[q] /\ saved'[q] = saved[q] /\ (q \in misled => q \in misled')
      /\ \/ cred'[p] = cred[p] /\ saved'[p] = saved[p] /\ UNCHANGED <<contested, misled>>
         \/ cred'[p] = calls[c].cred /\ saved'[p] = calls[c].cred /\ L!Unless(p, L!Tries(p))
         \/ cred'[p] = 0 /\ saved'[p] = saved[p] /\ UNCHANGED <<contested, misled>>
      BY <1>3, <1>6, LoginFields, LoginConstants DEF L!LogsIn
<1>8. /\ contested' \subseteq L!Loginables /\ \A q \in L!Loginables \ {p} : q \in contested => q \in contested'
      /\ p \notin contested' => p \notin contested \/ (~L!Tries(p) /\ cred'[p] = saved'[p])
      BY <1>7, UnlessIs, LoginFields
<1>9. saved'[p] = L!Bad => ~L!Validates(p) \/ p \in misled'
      BY <1>3, <1>7 DEF InOrder
<1>10. p \notin contested' => Untried(p) /\ cred'[p] \in Good(p)'
  <2> SUFFICES ASSUME p \notin contested' PROVE Untried(p) /\ cred'[p] \in Good(p)'
      OBVIOUS
  <2>1. CASE ~L!Tries(p) /\ cred'[p] = saved'[p]
        BY <2>1, NotTried DEF LoginInv, Good
  <2>2. CASE p \notin contested
    <3>1. Untried(p)
          BY <1>3, <2>2 DEF InOrder, Alone
    <3>2. cred[p] \in Good(p)
          BY <1>3, <2>2, <3>1 DEF InOrder, Settled, Sets, Untried
    <3> QED BY <3>1, <3>2, <1>7 DEF Good
  <2> QED BY <1>8, <2>1, <2>2
<1>11. /\ DOMAIN calls' = Callers /\ \A d \in Callers : CallOK(calls'[d])
       /\ calls'[c] = k /\ \A d \in Callers \ {c} : calls'[d] = calls[d]
      BY <1>5, CallsSet, NoCallOK DEF LoginInv
<1>12. LoginTyped'
      BY <1>1, <1>7, <1>8, <1>11 DEF LoginInv, LoginTyped
<1>13. \A q \in L!Loginables : ~Wants(c, q) /\ ~Wants(c, q)' /\ (q # p => ~Logs(c, q)')
      BY <1>1, <1>5, <1>11 DEF Wants, Logs, L!NoCall
<1> QED BY <1>1, <1>7, <1>8, <1>9, <1>10, <1>11, <1>12, <1>13, Lone

\* Logout, and a session that is put without a question.
LEMMA PutKeeps ==
  ASSUME L!LoginAssumption, LoginInv, NEW p \in L!Loginables, NEW k \in {0, L!Bad} \cup 1..codes,
         (k = 0 /\ L!Logout(p)) \/ L!SessionPut(p, k)
  PROVE  LoginInv'
<1>1. k \in L!Creds /\ 0 \in L!Creds
      BY LoginFields, LoginConstants DEF L!LoginAssumption, L!Creds, L!Bad, LoginInv, LoginTyped
<1>2. UNCHANGED <<calls, restores, codes>> /\ ops' \in 0..MaxOps /\ L!Unless(p, L!Tries(p))
      BY OpsCount DEF L!Logout, L!SessionPut, L!Op
<1>3. qr' \in [L!Loginables -> 0..MaxCodes]
      BY LoginConstants DEF L!Logout, L!SessionPut, LoginInv, LoginTyped
<1>4. \/ cred' = [cred EXCEPT ![p] = k] /\ saved' = [saved EXCEPT ![p] = k] /\ misled' = misled \ {p}
         /\ (k = 0 \/ ~L!Validates(p))
      \/ cred' = [cred EXCEPT ![p] = 0] /\ UNCHANGED <<saved, misled>>
      BY DEF L!Logout, L!SessionPut
<1>5. /\ cred' \in [L!Loginables -> L!Creds] /\ saved' \in [L!Loginables -> L!Creds] /\ misled' \subseteq {"qq"}
      /\ \A q \in L!Loginables \ {p} : cred'[q] = cred[q] /\ saved'[q] = saved[q] /\ (q \in misled => q \in misled')
      /\ cred'[p] \in {saved'[p], 0}
      /\ (saved'[p] = k /\ (k = 0 \/ ~L!Validates(p))) \/ (saved'[p] = saved[p] /\ misled' = misled)
      BY <1>1, <1>4 DEF LoginInv, LoginTyped
<1>6. saved'[p] = L!Bad => ~L!Validates(p) \/ p \in misled'
      BY <1>5, LoginConstants DEF LoginInv, InOrder
<1>7. /\ contested' \subseteq L!Loginables /\ (p \notin contested' => Untried(p))
      /\ \A q \in L!Loginables \ {p} : q \in contested => q \in contested'
      BY <1>2, UnlessIs, NotTried DEF LoginInv
<1>8. LoginTyped'
      BY <1>2, <1>3, <1>5, <1>7 DEF LoginInv, LoginTyped
<1>9. cred'[p] \in Good(p)'
      BY <1>5 DEF Good
<1> QED BY <1>2, <1>5, <1>6, <1>7, <1>8, <1>9, Lone

LEMMA SessionSetKeeps ==
  ASSUME L!LoginAssumption, LoginInv, NEW c \in Callers, NEW p \in L!Loginables,
         NEW k \in {L!Bad} \cup 1..codes, L!SessionSet(c, p, k)
  PROVE  LoginInv'
<1>1. k \in L!Creds
      BY LoginFields, LoginConstants DEF L!LoginAssumption, L!Creds, L!Bad
<1>2. PICK m : m = [op |-> "set", p |-> p, cred |-> k, via |-> 0]
      OBVIOUS
<1>3. CallOK(m)
      BY <1>1, <1>2, LoginConstants DEF CallOK, L!NoCall, L!SessionSet
<1>4. /\ calls' = [calls EXCEPT ![c] = m] /\ m.p = p /\ m.op = "set" /\ m.cred = k /\ L!Idle(c)
      /\ UNCHANGED <<saved, qr, restores, codes, misled>> /\ cred' = [cred EXCEPT ![p] = k]
      BY <1>2 DEF L!SessionSet, L!Waits
<1>5. ops' \in 0..MaxOps
      BY OpsCount DEF L!SessionSet, L!Op
<1>6. cred' \in [L!Loginables -> L!Creds] /\ cred'[p] = k /\ \A q \in L!Loginables \ {p} : cred'[q] = cred[q]
      BY <1>1, <1>4 DEF LoginInv, LoginTyped
<1>7. /\ contested' \subseteq L!Loginables /\ (p \notin contested' => ~L!Tries(p) /\ ~L!Polls(p))
      /\ \A q \in L!Loginables \ {p} : q \in contested => q \in contested'
      BY UnlessIs DEF L!SessionSet
<1> QED BY <1>3, <1>4, <1>5, <1>6, <1>7, Asks

\* What the service says of a session that is tried.
LEMMA SessionCheckedKeeps ==
  ASSUME L!LoginAssumption, LoginInv, NEW c \in Callers, L!SessionChecked(c)
  PROVE  LoginInv'
<1>1. calls[c].op = "set" /\ UNCHANGED <<qr, restores, codes, ops>>
      BY DEF L!SessionChecked
<1>2. PICK p \in L!Loginables : calls[c].p = p /\ Wants(c, p)
      BY <1>1, LoginFields DEF Wants
<1>3. PICK k : k = L!NoCall /\ calls' = [calls EXCEPT ![c] = k]
      BY DEF L!SessionChecked, L!Returns
<1>4. InOrder(p) /\ calls[c].cred \in L!Creds /\ calls'[c] = L!NoCall
      BY <1>3, LoginFields DEF LoginInv, LoginTyped
<1>5. Fit(c, p)'
      BY <1>4 DEF Fit, Sets, Wants, L!NoCall
<1>6. CASE /\ calls[c].cred # L!Bad /\ saved' = [saved EXCEPT ![p] = calls[c].cred]
           /\ misled' = misled \ {p} /\ UNCHANGED <<cred, contested>>
  <2>1. /\ saved' \in [L!Loginables -> L!Creds] /\ saved'[p] = calls[c].cred /\ misled' \subseteq {"qq"}
        /\ \A q \in L!Loginables \ {p} : saved'[q] = saved[q] /\ (q \in misled => q \in misled')
        BY <1>4, <1>6, LoginFields
  <2>2. p \notin contested' => cred'[p] \in Good(p)'
        BY <1>1, <1>2, <1>4, <1>6, <2>1 DEF Good, InOrder, Settled, CallsFit, Fit, Sets
  <2> QED BY <1>1, <1>2, <1>3, <1>5, <1>6, <2>1, <2>2, Answers, LoginFields
<1>7. CASE UNCHANGED <<saved, misled>> /\ contested' = contested \cup {p} /\ IF p = "qq" THEN L!Refused ELSE UNCHANGED cred
  <2>1. cred' \in [L!Loginables -> L!Creds] /\ \A q \in L!Loginables \ {p} : cred'[q] = cred[q]
        BY <1>7, LoginFields, LoginConstants DEF L!Refused
  <2>2. p \in contested' /\ contested \subseteq contested' /\ contested' \subseteq L!Loginables
        /\ (saved'[p] = L!Bad => ~L!Validates(p) \/ p \in misled')
        BY <1>4, <1>7, LoginFields DEF InOrder
  <2> QED BY <1>1, <1>2, <1>3, <1>7, <2>1, <2>2, Answers, LoginFields
<1> QED BY <1>2, <1>6, <1>7 DEF L!SessionChecked, L!Contests

LEMMA SessionDoubtedKeeps ==
  ASSUME L!LoginAssumption, LoginInv, NEW c \in Callers, L!SessionDoubted(c)
  PROVE  LoginInv'
<1>1. calls[c].op = "set" /\ UNCHANGED <<cred, saved, qr, restores, codes, ops, contested, misled>>
      BY DEF L!SessionDoubted
<1>2. PICK p \in L!Loginables : calls[c].p = p /\ Wants(c, p) /\ p = "qq"
      BY <1>1, LoginFields DEF Wants, L!SessionDoubted
<1>3. PICK k : k = [calls[c] EXCEPT !.op = "confirm", !.via = cred["qq"]]
      OBVIOUS
<1>4. calls' = [calls EXCEPT ![c] = k] /\ calls'[c] = k
      BY <1>3 DEF L!SessionDoubted, LoginInv, LoginTyped
<1>5. /\ calls[c] \in [op : {"none", "create", "poll", "exchange", "set", "confirm", "ask", "renew"},
                       p : L!Loginables \cup {"none"}, cred : L!Creds, via : L!Creds]
      /\ cred["qq"] \in L!Creds /\ calls[c].p = "qq"
      BY <1>2, LoginFields DEF CallOK
<1>6. /\ k \in [op : {"none", "create", "poll", "exchange", "set", "confirm", "ask", "renew"},
                p : L!Loginables \cup {"none"}, cred : L!Creds, via : L!Creds]
      /\ k.op = "confirm" /\ k.p = "qq" /\ k.cred = calls[c].cred /\ k.via = cred["qq"]
      BY <1>3, <1>5
<1>7. CallOK(k)
      BY <1>2, <1>6 DEF CallOK, L!NoCall
<1>8. InOrder(p)
      BY DEF LoginInv
<1>9. p \notin contested' => cred[p] = calls[c].cred
      BY <1>1, <1>2, <1>8 DEF InOrder, Settled, CallsFit, Fit, Sets
<1>10. Sets(c, p)' /\ (p \notin contested' => Fit(c, p)')
      BY <1>1, <1>2, <1>4, <1>6, <1>9 DEF Fit, Sets, Wants
<1>11. saved'[p] = L!Bad => ~L!Validates(p) \/ p \in misled'
      BY <1>1, <1>8 DEF InOrder
<1> QED BY <1>1, <1>2, <1>4, <1>6, <1>7, <1>10, <1>11, Answers, LoginFields

LEMMA SessionConfirmedKeeps ==
  ASSUME L!LoginAssumption, LoginInv, NEW c \in Callers, L!SessionConfirmed(c)
  PROVE  LoginInv'
<1>1. calls[c].op = "confirm" /\ UNCHANGED <<qr, restores, codes, ops>>
      BY DEF L!SessionConfirmed
<1>2. PICK p \in L!Loginables : calls[c].p = p /\ Wants(c, p) /\ p = "qq"
      BY <1>1, LoginFields DEF Wants, CallOK
<1>3. PICK k : k = L!NoCall /\ calls' = [calls EXCEPT ![c] = k]
      BY DEF L!SessionConfirmed, L!Returns
<1>4. /\ InOrder(p) /\ calls[c].cred \in L!Creds /\ calls[c].via \in L!Creds /\ calls'[c] = L!NoCall
      BY <1>3, LoginFields DEF LoginInv, LoginTyped
<1>5. Fit(c, p)'
      BY <1>4 DEF Fit, Sets, Wants, L!NoCall
<1>6. CASE /\ calls[c].via # L!Bad /\ cred' = [cred EXCEPT ![p] = calls[c].via]
           /\ saved' = [saved EXCEPT ![p] = calls[c].cred]
           /\ misled' = IF p \in contested THEN misled \cup {p} ELSE misled \ {p}
           /\ UNCHANGED contested
  <2>1. /\ cred' \in [L!Loginables -> L!Creds] /\ saved' \in [L!Loginables -> L!Creds]
        /\ cred'[p] = calls[c].via /\ saved'[p] = calls[c].cred
        /\ \A q \in L!Loginables \ {p} : cred'[q] = cred[q] /\ saved'[q] = saved[q]
        BY <1>4, <1>6, LoginFields
  <2>2. misled' \subseteq {"qq"} /\ (p \in contested => p \in misled') /\ \A q \in L!Loginables \ {p} : q \in misled => q \in misled'
        BY <1>2, <1>6, LoginFields
  <2>3. p \notin contested => calls[c].via = calls[c].cred
        BY <1>1, <1>2, <1>4 DEF InOrder, Settled, CallsFit, Fit, Sets
  <2>4. p \notin contested' => cred'[p] \in Good(p)'
        BY <1>6, <2>1, <2>3 DEF Good
  <2>5. saved'[p] = L!Bad => ~L!Validates(p) \/ p \in misled'
        BY <1>6, <2>1, <2>2, <2>3
  <2> QED BY <1>1, <1>2, <1>3, <1>5, <1>6, <2>1, <2>2, <2>4, <2>5, Answers, LoginFields
<1>7. CASE UNCHANGED <<saved, misled>> /\ contested' = contested \cup {p} /\ L!Refused
  <2>1. cred' \in [L!Loginables -> L!Creds] /\ \A q \in L!Loginables \ {p} : cred'[q] = cred[q]
        BY <1>2, <1>7, LoginFields, LoginConstants DEF L!Refused
  <2>2. p \in contested' /\ contested \subseteq contested' /\ contested' \subseteq L!Loginables
        /\ (saved'[p] = L!Bad => ~L!Validates(p) \/ p \in misled')
        BY <1>4, <1>7, LoginFields DEF InOrder
  <2> QED BY <1>1, <1>2, <1>3, <1>7, <2>1, <2>2, Answers, LoginFields
<1> QED BY <1>2, <1>6, <1>7 DEF L!SessionConfirmed, L!Contests

LEMMA AskKeeps ==
  ASSUME L!LoginAssumption, LoginInv, NEW c \in Callers, L!Ask(c)
  PROVE  LoginInv'
<1>0. PICK p \in L!Loginables : p = "qq"
      BY LoginConstants
<1>1. PICK k : k = [op |-> "ask", p |-> p, cred |-> cred[p], via |-> 0]
      OBVIOUS
<1>2. CallOK(k)
      BY <1>0, <1>1, LoginConstants, LoginFields DEF CallOK, L!NoCall
<1>3. /\ calls' = [calls EXCEPT ![c] = k] /\ k.p = p /\ k.op = "ask" /\ L!Idle(c) /\ ops' \in 0..MaxOps
      /\ UNCHANGED <<cred, saved, qr, restores, codes, misled>>
      /\ contested' = contested \cup {q \in {p} : L!Tries(q) \/ L!Polls(q)}
      BY <1>0, <1>1, OpsCount DEF L!Ask, L!Waits, L!Op, L!Contests
<1>4. contested' \subseteq L!Loginables /\ contested \subseteq contested' /\ (p \notin contested' => ~L!Tries(p) /\ ~L!Polls(p))
      BY <1>3, LoginFields
<1> QED BY <1>2, <1>3, <1>4, Asks, LoginFields

\* isLogin() and refreshLogin() of qq.
LEMMA QqAskedKeeps ==
  ASSUME L!LoginAssumption, LoginInv, NEW c \in Callers, L!Asked(c) \/ L!Renewed(c)
  PROVE  LoginInv'
<1>1. calls[c].op \in {"ask", "renew"} /\ UNCHANGED <<saved, qr, restores, codes, ops, contested, misled>>
      BY DEF L!Asked, L!Renewed
<1>2. PICK p \in L!Loginables : calls[c].p = p /\ Wants(c, p) /\ p = "qq"
      BY <1>1, LoginFields DEF CallOK, Wants
<1>3. calls[c].cred \in L!Creds /\ InOrder(p) /\ cred[p] \in L!Creds
      BY <1>1, LoginFields DEF LoginInv
<1>4. p \notin contested => cred[p] \in Good(p) /\ (calls[c].op = "renew" => calls[c].cred \in Good(p))
      BY <1>1, <1>2, <1>3 DEF InOrder, Alone, OneCall, Settled, CallsFit, Fit, Sets
<1>5. PICK k : /\ k = L!NoCall \/ (k = [op |-> "renew", p |-> "qq", cred |-> cred[p], via |-> 0] /\ UNCHANGED cred)
               /\ calls' = [calls EXCEPT ![c] = k]
      BY <1>2 DEF L!Asked, L!Renewed, L!Returns, L!Waits
<1>6. k = L!NoCall \/ (CallOK(k) /\ k.p = p /\ k.op \notin {"poll", "exchange"})
      BY <1>2, <1>3, <1>5, LoginConstants DEF CallOK, L!NoCall
<1>7. cred' = cred \/ cred' = [cred EXCEPT ![p] = 0] \/ (calls[c].op = "renew" /\ cred' = [cred EXCEPT ![p] = calls[c].cred])
      BY <1>2 DEF L!Asked, L!Renewed, L!Refused
<1>8. /\ cred' \in [L!Loginables -> L!Creds] /\ \A q \in L!Loginables \ {p} : cred'[q] = cred[q]
      /\ cred'[p] \in {cred[p], 0} \/ (calls[c].op = "renew" /\ cred'[p] = calls[c].cred)
      BY <1>3, <1>7, LoginFields, LoginConstants
<1>9. p \notin contested' => Fit(c, p)' /\ cred'[p] \in Good(p)'
  <2> SUFFICES ASSUME p \notin contested' PROVE Fit(c, p)' /\ cred'[p] \in Good(p)'
      OBVIOUS
  <2>1. Good(p)' = Good(p) /\ 0 \in Good(p) /\ p \notin contested
      BY <1>1 DEF Good
  <2>2. calls'[c] = k
      BY <1>5 DEF LoginInv, LoginTyped
  <2>3. k.op \notin {"set", "confirm"} /\ (k.op = "renew" => k.cred = cred[p])
      BY <1>5 DEF L!NoCall
  <2> QED BY <2>1, <2>2, <2>3, <1>4, <1>8 DEF Fit, Sets
<1>10. saved'[p] = L!Bad => ~L!Validates(p) \/ p \in misled'
      BY <1>1, <1>3 DEF InOrder
<1> QED BY <1>1, <1>2, <1>5, <1>6, <1>8, <1>9, <1>10, Answers, LoginFields

-----------------------------------------------------------------------------
(* Restorations.                                                           *)

LEMMA LeftIs ==
  ASSUME NEW q \in Seq(Session)
  PROVE  L!Left(q) \in Seq(Session) /\
         \E n \in {0, 1} : \A j \in 1..Len(L!Left(q)) : j + n \in 1..Len(q) /\ L!Left(q)[j] = q[j + n]
<1>1. CASE q # <<>> /\ ~L!Validates(Head(q).p)
  <2>1. L!Left(q) = Tail(q)
        BY <1>1 DEF L!Left
  <2>2. Tail(q) \in Seq(Session) /\ Len(Tail(q)) = Len(q) - 1 /\ \A j \in 1..Len(Tail(q)) : Tail(q)[j] = q[j + 1]
        BY <1>1
  <2>3. \A j \in 1..Len(L!Left(q)) : j + 1 \in 1..Len(q) /\ L!Left(q)[j] = q[j + 1]
        BY <2>1, <2>2
  <2> QED BY <2>1, <2>2, <2>3
<1>2. CASE ~(q # <<>> /\ ~L!Validates(Head(q).p))
  <2>1. L!Left(q) = q
        BY <1>2 DEF L!Left
  <2>2. \A j \in 1..Len(L!Left(q)) : j + 0 \in 1..Len(q) /\ L!Left(q)[j] = q[j + 0]
        BY <2>1
  <2> QED BY <2>1, <2>2
<1> QED BY <1>1, <1>2

\* A provider has what the snapshot has for it, or what it had.
LEMMA TakingIs ==
  ASSUME NEW q \in Seq(Session), NEW old \in [L!Loginables -> L!Creds]
  PROVE  /\ L!Taking(old, q) \in [L!Loginables -> L!Creds]
         /\ \A p \in L!Loginables :
              \/ L!Taking(old, q)[p] = old[p]
              \/ \E j \in 1..Len(q) : q[j].p = p /\ L!Taking(old, q)[p] = q[j].cred
<1> SUFFICES ASSUME NEW p \in L!Loginables
             PROVE  /\ L!Taking(old, q)[p] \in L!Creds
                    /\ \/ L!Taking(old, q)[p] = old[p]
                       \/ \E j \in 1..Len(q) : q[j].p = p /\ L!Taking(old, q)[p] = q[j].cred
    BY DEF L!Taking
<1>1. CASE \E i \in L!UpToWait(q) : q[i].p = p
  <2>1. PICK j : j = CHOOSE i \in L!UpToWait(q) : q[i].p = p
        OBVIOUS
  <2>2. j \in L!UpToWait(q) /\ q[j].p = p
        BY <1>1, <2>1
  <2>3. j \in 1..Len(q)
        BY <2>2 DEF L!UpToWait
  <2>4. L!Taking(old, q)[p] = q[j].cred
        BY <1>1, <2>1 DEF L!Taking
  <2>5. q[j] \in Session
        BY <2>3
  <2> QED BY <2>2, <2>3, <2>4, <2>5 DEF Session
<1>2. CASE ~\E i \in L!UpToWait(q) : q[i].p = p
      BY <1>2 DEF L!Taking
<1> QED BY <1>1, <1>2

\* A snapshot holds each saved session once.
LEMMA SnapshotIs ==
  ASSUME LoginTyped, L!LoginAssumption, NEW s \in L!Snapshots
  PROVE  /\ s \in Seq(Session)
         /\ \A i \in 1..Len(s) : s[i].cred = saved[s[i].p] /\ saved[s[i].p] # 0 /\ s[i].via = 0
         /\ \A i, j \in 1..Len(s) : s[i].p = s[j].p => i = j
<1>0. PICK there : there = {p \in L!Loginables : saved[p] # 0}
      OBVIOUS
<1>1. PICK q \in L!SetToSeqs(there) : s = [i \in DOMAIN q |-> [p |-> q[i], cred |-> saved[q[i]], via |-> 0]]
      BY <1>0 DEF L!Snapshots
<1>2. IsFiniteSet(L!Loginables)
  <2>1. PICK a, b, c : a = "netease" /\ b = "kugou" /\ c = "qq"
        OBVIOUS
  <2>2. IsFiniteSet({a}) /\ IsFiniteSet({b}) /\ IsFiniteSet({c})
        BY FS_Singleton
  <2>3. IsFiniteSet(({a} \cup {b}) \cup {c})
        BY <2>2, FS_Union
  <2>4. L!Loginables = ({a} \cup {b}) \cup {c}
        BY <2>1 DEF L!Loginables
  <2> QED BY <2>3, <2>4
<1>3. Cardinality(there) \in Nat
      BY <1>0, <1>2, FS_Subset, FS_CardinalityType
<1>4. PICK n \in Nat : n = Cardinality(there)
      BY <1>3
<1>5. q \in [1..n -> there] /\ \A i, j \in 1..n : i # j => q[i] # q[j]
  <2>1. L!Cardinality(there) = Cardinality(there)
        BY DEF L!Cardinality, Cardinality
  <2> QED BY <1>1, <1>4, <2>1 DEF L!SetToSeqs
<1>6. s = [i \in 1..n |-> [p |-> q[i], cred |-> saved[q[i]], via |-> 0]]
      BY <1>1, <1>5
<1>7. \A i \in 1..n : s[i] = [p |-> q[i], cred |-> saved[q[i]], via |-> 0] /\ q[i] \in L!Loginables /\ saved[q[i]] # 0
      BY <1>0, <1>5, <1>6
<1>8. \A i \in 1..n : s[i] \in Session
  <2>1. \A p \in L!Loginables : saved[p] \in L!Creds
        BY DEF LoginTyped
  <2> SUFFICES ASSUME NEW i \in 1..n PROVE s[i] \in Session
      OBVIOUS
  <2>2. s[i] = [p |-> q[i], cred |-> saved[q[i]], via |-> 0] /\ q[i] \in L!Loginables /\ saved[q[i]] \in L!Creds
        BY <1>7, <2>1
  <2> QED BY <2>2, LoginConstants DEF Session
<1>9. s \in [1..n -> Session]
      BY <1>6, <1>8
<1>10. s \in Seq(Session) /\ Len(s) = n
      BY <1>9
<1> QED BY <1>5, <1>7, <1>10

LEMMA ReloadKeeps ==
  ASSUME L!LoginAssumption, LoginInv, L!Edit
  PROVE  LoginInv'
<1>0. LoginTyped
      BY DEF LoginInv
<1>1. PICK s \in L!Snapshots : cred' = L!Taking(cred, s) /\ restores' = Append(restores, L!Left(s))
      BY DEF L!Edit
<1>2. /\ s \in Seq(Session) /\ \A i \in 1..Len(s) : s[i].cred = saved[s[i].p] /\ saved[s[i].p] # 0 /\ s[i].via = 0
      /\ \A i, j \in 1..Len(s) : s[i].p = s[j].p => i = j
      BY <1>0, SnapshotIs
<1>3. PICK l \in Seq(Session), n \in {0, 1} :
        l = L!Left(s) /\ \A j \in 1..Len(l) : j + n \in 1..Len(s) /\ l[j] = s[j + n]
      BY <1>2, LeftIs
<1>4. /\ cred' \in [L!Loginables -> L!Creds]
      /\ \A p \in L!Loginables : cred'[p] = cred[p] \/ \E j \in 1..Len(s) : s[j].p = p /\ cred'[p] = s[j].cred
  <2>1. PICK old \in [L!Loginables -> L!Creds] : old = cred
        BY <1>0 DEF LoginTyped
  <2> QED BY <1>1, <1>2, <2>1, TakingIs
<1>5. UNCHANGED <<saved, qr, calls, codes, misled>> /\ ops' \in 0..MaxOps
      /\ contested' = contested \cup {p \in L!Loginables : saved[p] # 0 /\ (L!Tries(p) \/ L!Polls(p))}
      BY OpsCount DEF L!Edit, L!Op, L!Contests
<1>6. PICK m \in Nat : m = Len(restores)
      BY <1>0 DEF LoginTyped
<1>7. /\ restores' \in Seq(Seq(Session)) /\ Len(restores') = m + 1 /\ restores' # <<>>
      /\ restores'[m + 1] = l /\ \A i \in 1..m : restores'[i] = restores[i]
  <2>1. PICK q \in Seq(Seq(Session)) : q = restores
        BY <1>0 DEF LoginTyped
  <2>2. Len(q) = m /\ restores' = Append(q, l)
        BY <1>1, <1>3, <1>6, <2>1
  <2>3. /\ Append(q, l) \in Seq(Seq(Session)) /\ Len(Append(q, l)) = Len(q) + 1
        /\ Append(q, l)[Len(q) + 1] = l /\ \A i \in 1..Len(q) : Append(q, l)[i] = q[i]
        BY AppendProperties
  <2>4. restores' # <<>>
        BY <1>6, <2>2, <2>3
  <2> QED BY <2>1, <2>2, <2>3, <2>4
<1>8. LoginTyped'
      BY <1>0, <1>4, <1>5, <1>7 DEF LoginTyped
<1>9. ASSUME NEW p \in L!Loginables, p \notin contested' PROVE Alone(p)' /\ Settled(p)'
  <2>1. InOrder(p) /\ Alone(p) /\ Settled(p)
        BY <1>5, <1>9 DEF LoginInv, InOrder
  <2>2. \A c \in Callers : (Wants(c, p)' <=> Wants(c, p)) /\ (Sets(c, p)' <=> Sets(c, p)) /\ (Logs(c, p)' <=> Logs(c, p))
        BY <1>5 DEF Wants, Sets, Logs
  <2>3. Good(p)' = Good(p)
        BY <1>5 DEF Good
  <2>4. CASE saved[p] = 0
    <3>1. \A j \in 1..Len(s) : s[j].p # p
          BY <1>2, <2>4
    <3>2. cred'[p] = cred[p] /\ \A j \in 1..Len(l) : l[j].p # p
          BY <1>3, <1>4, <3>1
    <3>0. \A i \in 1..m + 1 : \A j \in 1..Len(restores'[i]) : restores'[i][j].p = p => i \in 1..m /\ restores'[i] = restores[i]
      <4> SUFFICES ASSUME NEW i \in 1..m + 1, NEW j \in 1..Len(restores'[i]), restores'[i][j].p = p
                   PROVE  i \in 1..m /\ restores'[i] = restores[i]
          OBVIOUS
      <4>1. i = m + 1 \/ i \in 1..m
          OBVIOUS
      <4> QED BY <1>7, <3>2, <4>1
    <3>3. InRestore(p)' => InRestore(p)
          BY <1>6, <1>7, <3>0 DEF InRestore
    <3>4. OneRestore(p)'
          BY <1>6, <1>7, <3>0, <2>1 DEF Alone, OneRestore
    <3>5. RestoresSaved(p)'
      <4>1. RestoresSaved(p)
          BY <2>1 DEF Settled
      <4>2. \A i \in 1..m + 1 : \A j \in 1..Len(restores'[i]) : restores'[i][j].p = p => restores'[i][j].cred = saved[p] /\ restores'[i][j].via \in Good(p)
          BY <1>6, <3>0, <4>1 DEF RestoresSaved
      <4> QED BY <1>5, <1>7, <2>3, <4>2 DEF RestoresSaved
    <3>6. OneCall(p)' /\ Alone(p)'
          BY <2>1, <2>2, <3>3, <3>4 DEF Alone, OneCall, Untried
    <3>7. CallsFit(p)'
          BY <1>5, <2>1, <2>2, <2>3, <3>2 DEF Settled, CallsFit, Fit, Sets, Wants
    <3> QED BY <2>1, <2>2, <2>3, <3>2, <3>5, <3>6, <3>7 DEF Settled
  <2>5. CASE saved[p] # 0
    <3>1. ~InRestore(p) /\ \A c \in Callers : ~Wants(c, p) /\ ~Logs(c, p)
          BY <1>0, <1>5, <1>9, <2>5, NotTried, NotPolled DEF Untried
    <3>2. cred'[p] \in Good(p)
          BY <1>2, <1>4, <2>1, <3>1 DEF Settled, Sets, Good
    <3>3. \A i \in 1..m : \A j \in 1..Len(restores'[i]) : restores'[i][j].p # p
          BY <1>6, <1>7, <3>1 DEF InRestore
    <3>4. \A j, k \in 1..Len(l) : l[j].p = l[k].p => j = k
      <4> SUFFICES ASSUME NEW j \in 1..Len(l), NEW k \in 1..Len(l), l[j].p = l[k].p PROVE j = k
          OBVIOUS
      <4>1. j + n = k + n
          BY <1>2, <1>3
      <4> QED BY <4>1
    <3>5. OneRestore(p)'
      <4>1. \A i \in 1..Len(restores') : i = m + 1 \/ i \in 1..m
          BY <1>7
      <4> QED BY <4>1, <1>7, <3>3, <3>4 DEF OneRestore
    <3>6. RestoresSaved(p)'
      <4>1. \A i \in 1..Len(restores') : i = m + 1 \/ i \in 1..m
          BY <1>7
      <4>2. \A j \in 1..Len(l) : l[j].p = p => l[j].cred = saved[p] /\ l[j].via \in Good(p)
          BY <1>2, <1>3 DEF Good
      <4> QED BY <4>1, <4>2, <1>5, <1>7, <2>3, <3>3 DEF RestoresSaved
    <3>7. Alone(p)' /\ CallsFit(p)'
          BY <2>2, <3>1, <3>5 DEF Alone, OneCall, CallsFit, Fit, Sets
    <3> QED BY <2>3, <3>2, <3>6, <3>7 DEF Settled
  <2> QED BY <2>4, <2>5
<1>10. ASSUME NEW p \in L!Loginables PROVE InOrder(p)'
      BY <1>5, <1>9 DEF LoginInv, InOrder
<1> QED BY <1>8, <1>10 DEF LoginInv

LEMMA RestartKeeps ==
  ASSUME L!LoginAssumption, LoginInv, L!Restart
  PROVE  LoginInv'
<1>0. LoginTyped
      BY DEF LoginInv
<1>1. PICK old \in [L!Loginables -> L!Creds] : old = [p \in L!Loginables |-> 0]
      BY LoginConstants
<1>2. PICK s \in L!Snapshots : cred' = L!Taking(old, s) /\ restores' = <<L!Left(s)>>
      BY <1>1 DEF L!Restart
<1>3. /\ s \in Seq(Session) /\ \A i \in 1..Len(s) : s[i].cred = saved[s[i].p] /\ saved[s[i].p] # 0 /\ s[i].via = 0
      /\ \A i, j \in 1..Len(s) : s[i].p = s[j].p => i = j
      BY <1>0, SnapshotIs
<1>4. PICK l \in Seq(Session), n \in {0, 1} :
        l = L!Left(s) /\ \A j \in 1..Len(l) : j + n \in 1..Len(s) /\ l[j] = s[j + n]
      BY <1>3, LeftIs
<1>5. /\ cred' \in [L!Loginables -> L!Creds]
      /\ \A p \in L!Loginables : cred'[p] = 0 \/ \E j \in 1..Len(s) : s[j].p = p /\ cred'[p] = s[j].cred
      BY <1>1, <1>2, <1>3, TakingIs
<1>6. UNCHANGED <<saved, codes, misled>> /\ ops' \in 0..MaxOps /\ contested' = {}
      /\ qr' \in [L!Loginables -> 0..MaxCodes] /\ calls' = [c \in Callers |-> L!NoCall]
      BY OpsCount, LoginConstants DEF L!Restart
<1>7. restores' = <<l>> /\ Len(restores') = 1 /\ restores'[1] = l /\ restores' # <<>> /\ restores' \in Seq(Seq(Session))
      BY <1>2, <1>4
<1>8. LoginTyped'
      BY <1>0, <1>5, <1>6, <1>7, NoCallOK DEF LoginTyped
<1>9. ASSUME NEW p \in L!Loginables PROVE Alone(p)' /\ Settled(p)'
  <2>1. \A c \in Callers : ~Wants(c, p)' /\ ~Logs(c, p)'
        BY <1>6 DEF Wants, Logs, L!NoCall
  <2>2. \A j, k \in 1..Len(l) : l[j].p = l[k].p => j = k
    <3> SUFFICES ASSUME NEW j \in 1..Len(l), NEW k \in 1..Len(l), l[j].p = l[k].p PROVE j = k
        OBVIOUS
    <3>1. PICK a \in 1..Len(s), b \in 1..Len(s) : a = j + n /\ b = k + n /\ l[j] = s[a] /\ l[k] = s[b]
        BY <1>4
    <3>2. a = b
        BY <1>3, <3>1
    <3> QED BY <3>1, <3>2
  <2>3. \A j \in 1..Len(l) : l[j].p = p => l[j].cred = saved[p] /\ l[j].via = 0
    <3> SUFFICES ASSUME NEW j \in 1..Len(l), l[j].p = p PROVE l[j].cred = saved[p] /\ l[j].via = 0
        OBVIOUS
    <3>1. PICK i \in 1..Len(s) : l[j] = s[i]
        BY <1>4
    <3> QED BY <1>3, <3>1
  <2>4. OneRestore(p)' /\ RestoresSaved(p)'
        BY <1>6, <1>7, <2>2, <2>3 DEF OneRestore, RestoresSaved, Good
  <2>5. cred'[p] \in Good(p)'
    <3>1. cred'[p] = 0 \/ cred'[p] = saved[p]
        BY <1>3, <1>5
    <3> QED BY <1>6, <3>1 DEF Good
  <2> QED BY <2>1, <2>4, <2>5 DEF Alone, OneCall, Settled, CallsFit, Fit, Sets
<1>10. ASSUME NEW p \in L!Loginables PROVE InOrder(p)'
      BY <1>6, <1>9 DEF LoginInv, InOrder
<1> QED BY <1>8, <1>10 DEF LoginInv

\* The service has answered the head of the restoration r.
LEMMA RestoredKeeps ==
  ASSUME L!LoginAssumption, LoginInv, NEW r \in DOMAIN restores, L!Restored(r)
  PROVE  LoginInv'
<1>0. LoginTyped
      BY DEF LoginInv
<1>1. PICK m \in Nat : m = Len(restores) /\ r \in 1..m /\ restores[r] \in Seq(Session)
  <2>1. PICK q \in Seq(Seq(Session)) : q = restores
        BY <1>0 DEF LoginTyped
  <2> QED BY <2>1
<1>2. PICK q \in Seq(Session) : q = restores[r] /\ q # <<>>
      BY <1>1 DEF L!Restored
<1>3. PICK t \in Seq(Session) : /\ t = Tail(q) /\ Len(t) + 1 = Len(q) /\ \A j \in 1..Len(t) : t[j] = q[j + 1]
                                /\ Head(q) = q[1] /\ q[1] \in Session /\ 1 \in 1..Len(q)
      BY <1>2, RestOf
<1>4. PICK l \in Seq(Session), n \in {0, 1} :
        l = L!Left(t) /\ \A j \in 1..Len(l) : j + n \in 1..Len(t) /\ l[j] = t[j + n]
      BY LeftIs
<1>5. PICK old : /\ cred' = L!Taking(old, t)
                 /\ \/ old = cred
                    \/ q[1].p = "qq" /\ \E k \in {0, q[1].via} : old = [cred EXCEPT !["qq"] = k]
      BY <1>2, <1>3 DEF L!Restored
<1>6. /\ old \in [L!Loginables -> L!Creds]
      /\ \A p \in L!Loginables : old[p] = cred[p] \/ (p = q[1].p /\ old[p] \in {0, q[1].via})
  <2>1. q[1].via \in L!Creds /\ cred \in [L!Loginables -> L!Creds]
        BY <1>0, <1>3 DEF LoginTyped, Session
  <2> QED BY <1>5, <2>1, LoginConstants
<1>7. /\ cred' \in [L!Loginables -> L!Creds]
      /\ \A p \in L!Loginables : cred'[p] = old[p] \/ \E j \in 1..Len(t) : t[j].p = p /\ cred'[p] = t[j].cred
      BY <1>5, <1>6, TakingIs
<1>8. \A p \in L!Loginables : cred'[p] \in {cred[p], 0} \/ \E j \in 1..Len(q) : q[j].p = p /\ cred'[p] \in {q[j].cred, q[j].via}
      BY <1>3, <1>6, <1>7
<1>9. UNCHANGED <<saved, qr, calls, codes, ops, contested, misled>>
      BY DEF L!Restored
<1>10. /\ restores' \in Seq(Seq(Session)) /\ Len(restores') = m /\ restores' # <<>>
       /\ restores'[r] = l /\ \A i \in 1..m : i # r => restores'[i] = restores[i]
  <2>1. restores' = [restores EXCEPT ![r] = l]
        BY <1>2, <1>3, <1>4 DEF L!Restored
  <2> QED BY <1>0, <1>1, <2>1 DEF LoginTyped
<1>11. \A j \in 1..Len(l) : j + n + 1 \in 1..Len(q) /\ l[j] = q[j + n + 1]
      BY <1>3, <1>4
<1>12. LoginTyped'
      BY <1>0, <1>7, <1>9, <1>10 DEF LoginTyped
<1>13. ASSUME NEW p \in L!Loginables, p \notin contested' PROVE Alone(p)' /\ Settled(p)'
  <2>1. InOrder(p) /\ Alone(p) /\ Settled(p)
        BY <1>9, <1>13 DEF LoginInv, InOrder
  <2>2. \A c \in Callers : (Wants(c, p)' <=> Wants(c, p)) /\ (Sets(c, p)' <=> Sets(c, p)) /\ (Logs(c, p)' <=> Logs(c, p))
        BY <1>9 DEF Wants, Sets, Logs
  <2>3. Good(p)' = Good(p)
        BY <1>9 DEF Good
  <2>4. InRestore(p)' => InRestore(p)
    <3> SUFFICES ASSUME NEW i \in 1..m, NEW j \in 1..Len(restores'[i]), restores'[i][j].p = p PROVE InRestore(p)
        BY <1>10 DEF InRestore
    <3>1. CASE i = r
          BY <3>1, <1>1, <1>2, <1>10, <1>11 DEF InRestore
    <3>2. CASE i # r
          BY <3>2, <1>1, <1>10 DEF InRestore
    <3> QED BY <3>1, <3>2
  <2>5. OneRestore(p)'
    <3> SUFFICES ASSUME NEW i \in 1..m, NEW k \in 1..m, NEW j \in 1..Len(restores'[i]), NEW x \in 1..Len(restores'[k]),
                        restores'[i][j].p = p, restores'[k][x].p = p
                 PROVE  i = k /\ j = x
        BY <1>10 DEF OneRestore
    <3>1. OneRestore(p)
        BY <2>1 DEF Alone
    <3>2. PICK a \in 1..Len(restores[i]) : restores[i][a].p = p /\ (a = IF i = r THEN j + n + 1 ELSE j)
        BY <1>1, <1>2, <1>10, <1>11
    <3>3. PICK b \in 1..Len(restores[k]) : restores[k][b].p = p /\ (b = IF k = r THEN x + n + 1 ELSE x)
        BY <1>1, <1>2, <1>10, <1>11
    <3>4. i = k /\ a = b
        BY <1>1, <3>1, <3>2, <3>3 DEF OneRestore
    <3>5. j \in Nat /\ x \in Nat /\ n \in Nat
        BY <1>10, <1>12, <1>4 DEF LoginTyped
    <3> QED BY <3>2, <3>3, <3>4, <3>5
  <2>6. RestoresSaved(p)'
    <3> SUFFICES ASSUME NEW i \in 1..m, NEW j \in 1..Len(restores'[i]), restores'[i][j].p = p
                 PROVE  restores'[i][j].cred = saved[p] /\ restores'[i][j].via \in Good(p)
        BY <1>9, <1>10, <2>3 DEF RestoresSaved
    <3>1. RestoresSaved(p)
        BY <2>1 DEF Settled
    <3>2. PICK a \in 1..Len(restores[i]) : restores'[i][j] = restores[i][a]
        BY <1>1, <1>2, <1>10, <1>11
    <3> QED BY <1>1, <3>1, <3>2 DEF RestoresSaved
  <2>7. cred'[p] = cred[p] \/ (cred'[p] \in Good(p) /\ \A c \in Callers : ~Wants(c, p))
    <3>1. CASE \E j \in 1..Len(q) : q[j].p = p
      <4>1. InRestore(p)
          BY <3>1, <1>1, <1>2 DEF InRestore
      <4>2. \A c \in Callers : ~Wants(c, p)
          BY <4>1, <2>1 DEF Alone
      <4>3. cred[p] \in Good(p)
          BY <4>2, <2>1 DEF Settled, Sets
      <4>4. \A j \in 1..Len(q) : q[j].p = p => q[j].cred = saved[p] /\ q[j].via \in Good(p)
          BY <1>1, <1>2, <2>1 DEF Settled, RestoresSaved
      <4> QED BY <1>8, <4>2, <4>3, <4>4 DEF Good
    <3>2. CASE ~\E j \in 1..Len(q) : q[j].p = p
      <4>1. q[1].p # p
          BY <1>3, <3>2
      <4>2. \A j \in 1..Len(t) : t[j].p # p
          BY <1>3, <3>2
      <4> QED BY <1>6, <1>7, <4>1, <4>2
    <3> QED BY <3>1, <3>2
  <2>8. Alone(p)'
        BY <2>1, <2>2, <2>4, <2>5 DEF Alone, OneCall, Untried
  <2>9. CallsFit(p)'
        BY <1>9, <2>1, <2>2, <2>3, <2>7 DEF Settled, CallsFit, Fit, Sets, Wants
  <2>10. (\A c \in Callers : ~Sets(c, p)') => cred'[p] \in Good(p)'
        BY <2>1, <2>2, <2>3, <2>7 DEF Settled
  <2> QED BY <2>6, <2>8, <2>9, <2>10 DEF Settled
<1>14. ASSUME NEW p \in L!Loginables PROVE InOrder(p)'
      BY <1>9, <1>13 DEF LoginInv, InOrder
<1> QED BY <1>12, <1>14 DEF LoginInv

\* The head of the restoration r waits a second time, with the credential of now.
LEMMA RestoreDoubtedKeeps ==
  ASSUME L!LoginAssumption, LoginInv, NEW r \in DOMAIN restores, L!RestoreDoubted(r)
  PROVE  LoginInv'
<1>0. LoginTyped
      BY DEF LoginInv
<1>1. PICK m \in Nat : m = Len(restores) /\ r \in 1..m /\ restores[r] \in Seq(Session)
  <2>1. PICK q \in Seq(Seq(Session)) : q = restores
        BY <1>0 DEF LoginTyped
  <2> QED BY <2>1
<1>2. PICK q \in Seq(Session) : q = restores[r] /\ q # <<>>
      BY <1>1 DEF L!RestoreDoubted
<1>3. Head(q) = q[1] /\ q[1] \in Session /\ 1 \in 1..Len(q)
      BY <1>2, RestOf
<1>4. PICK k \in L!Creds : k = cred["qq"]
      BY <1>0, LoginConstants DEF LoginTyped
<1>5. PICK h : h = [q[1] EXCEPT !.via = k]
      OBVIOUS
<1>6. h \in Session /\ h.p = q[1].p /\ h.cred = q[1].cred /\ h.via = k
      BY <1>3, <1>5 DEF Session
<1>7. PICK l : l = [q EXCEPT ![1] = h]
      OBVIOUS
<1>8. l \in Seq(Session) /\ Len(l) = Len(q) /\ l[1] = h /\ \A j \in 1..Len(q) : j # 1 => l[j] = q[j]
      BY <1>3, <1>6, <1>7
<1>9. restores' = [restores EXCEPT ![r] = l] /\ q[1].p = "qq"
      /\ UNCHANGED <<cred, saved, qr, calls, codes, ops, contested, misled>>
  <2>1. restores' = [restores EXCEPT ![r] = L!Again(restores[r], cred["qq"])]
        BY DEF L!RestoreDoubted
  <2>2. L!Again(restores[r], cred["qq"]) = l
        BY <1>2, <1>4, <1>5, <1>7 DEF L!Again
  <2>3. Head(restores[r]).p = "qq" /\ UNCHANGED <<cred, saved, qr, calls, codes, ops, contested, misled>>
        BY DEF L!RestoreDoubted
  <2> QED BY <1>2, <1>3, <2>1, <2>2, <2>3
<1>10. /\ restores' \in Seq(Seq(Session)) /\ Len(restores') = m /\ restores' # <<>>
       /\ restores'[r] = l /\ \A i \in 1..m : i # r => restores'[i] = restores[i]
      BY <1>0, <1>1, <1>8, <1>9 DEF LoginTyped
<1>11. \A i \in 1..m : /\ Len(restores'[i]) = Len(restores[i])
                       /\ \A j \in 1..Len(restores[i]) : /\ restores'[i][j].p = restores[i][j].p
                                                         /\ restores'[i][j].cred = restores[i][j].cred
                                                         /\ \/ restores'[i][j].via = restores[i][j].via
                                                            \/ restores[i][j].p = "qq" /\ restores'[i][j].via = k
      BY <1>2, <1>6, <1>8, <1>9, <1>10
<1>12. LoginTyped'
      BY <1>0, <1>9, <1>10 DEF LoginTyped
<1>13. ASSUME NEW p \in L!Loginables, p \notin contested' PROVE Alone(p)' /\ Settled(p)'
  <2>1. InOrder(p) /\ Alone(p) /\ Settled(p)
        BY <1>9, <1>13 DEF LoginInv, InOrder
  <2>2. \A c \in Callers : (Wants(c, p)' <=> Wants(c, p)) /\ (Sets(c, p)' <=> Sets(c, p)) /\ (Logs(c, p)' <=> Logs(c, p))
        BY <1>9 DEF Wants, Sets, Logs
  <2>3. Good(p)' = Good(p)
        BY <1>9 DEF Good
  <2>4. InRestore(p)' => InRestore(p)
    <3> SUFFICES ASSUME NEW i \in 1..m, NEW j \in 1..Len(restores'[i]), restores'[i][j].p = p PROVE InRestore(p)
        BY <1>10 DEF InRestore
    <3>1. j \in 1..Len(restores[i]) /\ restores[i][j].p = p
        BY <1>11
    <3> QED BY <1>1, <3>1 DEF InRestore
  <2>5. OneRestore(p)'
    <3> SUFFICES ASSUME NEW i \in 1..m, NEW k1 \in 1..m, NEW j \in 1..Len(restores'[i]), NEW x \in 1..Len(restores'[k1]),
                        restores'[i][j].p = p, restores'[k1][x].p = p
                 PROVE  i = k1 /\ j = x
        BY <1>10 DEF OneRestore
    <3>1. OneRestore(p)
        BY <2>1 DEF Alone
    <3>2. j \in 1..Len(restores[i]) /\ restores[i][j].p = p
        BY <1>11
    <3>3. x \in 1..Len(restores[k1]) /\ restores[k1][x].p = p
        BY <1>11
    <3> QED BY <1>1, <3>1, <3>2, <3>3 DEF OneRestore
  <2>6. RestoresSaved(p)'
    <3> SUFFICES ASSUME NEW i \in 1..m, NEW j \in 1..Len(restores[i]), restores[i][j].p = p
                 PROVE  restores'[i][j].cred = saved[p] /\ restores'[i][j].via \in Good(p)
        BY <1>9, <1>10, <1>11, <2>3 DEF RestoresSaved
    <3>1. restores[i][j].cred = saved[p] /\ restores[i][j].via \in Good(p)
        BY <1>1, <2>1 DEF Settled, RestoresSaved
    <3>2. CASE restores[i][j].p = "qq" /\ restores'[i][j].via = k
      <4>1. InRestore(p)
          BY <1>1 DEF InRestore
      <4>2. cred[p] \in Good(p)
          BY <4>1, <2>1 DEF Alone, Settled, Sets
      <4> QED BY <3>1, <3>2, <4>2, <1>4, <1>11
    <3> QED BY <1>11, <3>1, <3>2
  <2>7. Alone(p)'
        BY <2>1, <2>2, <2>4, <2>5 DEF Alone, OneCall, Untried
  <2>8. CallsFit(p)'
        BY <1>9, <2>1, <2>2, <2>3 DEF Settled, CallsFit, Fit, Sets, Wants
  <2> QED BY <1>9, <2>1, <2>2, <2>3, <2>6, <2>7, <2>8 DEF Settled
<1>14. ASSUME NEW p \in L!Loginables PROVE InOrder(p)'
      BY <1>9, <1>13 DEF LoginInv, InOrder
<1> QED BY <1>12, <1>14 DEF LoginInv

-----------------------------------------------------------------------------
(* The theorems about the logins.                                          *)

LEMMA LoginInitHolds == ASSUME L!LoginAssumption, L!Init PROVE LoginInv
<1>1. restores = <<<<>>>> /\ Len(restores) = 1 /\ restores[1] = <<>> /\ restores # <<>>
      BY DEF L!Init
<1>2. <<>> \in Seq(Session)
      OBVIOUS
<1>3. restores \in Seq(Seq(Session))
      BY <1>1, <1>2
<1>4. LoginTyped
      BY <1>1, <1>3, NoCallOK, LoginConstants DEF L!Init, LoginTyped, L!LoginAssumption
<1>5. ASSUME NEW p \in L!Loginables PROVE InOrder(p)
  <2>1. \A c \in Callers : ~Wants(c, p)
        BY DEF L!Init, Wants, L!NoCall
  <2>2. Len(restores[1]) = 0
        BY <1>1
  <2>3. \A i \in 1..Len(restores) : i = 1
        BY <1>1
  <2>4. \A i \in 1..Len(restores) : \A j \in 1..Len(restores[i]) : FALSE
        BY <2>2, <2>3
  <2>5. ~InRestore(p) /\ OneRestore(p) /\ RestoresSaved(p)
        BY <2>4 DEF InRestore, OneRestore, RestoresSaved
  <2>6. cred[p] = saved[p] /\ saved[p] = 0
        BY DEF L!Init
  <2> QED BY <2>1, <2>5, <2>6, LoginConstants DEF InOrder, Alone, OneCall, Untried, Settled, CallsFit, Fit, Sets, Good
<1> QED BY <1>4, <1>5 DEF LoginInv

LEMMA LoginNextHolds == ASSUME L!LoginAssumption, LoginInv, L!Next PROVE LoginInv'
BY ReloadKeeps, RestartKeeps, RestoredKeeps, RestoreDoubtedKeeps, PutKeeps, AskKeeps, QqAskedKeeps, CreateKeeps,
   PolledKeeps, SessionCheckedKeeps, SessionDoubtedKeeps, SessionConfirmedKeeps, PollKeeps, SessionSetKeeps DEF L!Next

\* The inductive invariant of the logins, in the behaviours that are theirs.
THEOREM LoginInvariance == TablesSpec => [](part = "login" => LoginInv)
<1>1. TablesInit => (part = "login" => LoginInv)
      BY TablesAssumption, LoginInitHolds DEF TablesInit
<1>2. (part = "login" => LoginInv) /\ [TablesNext]_<<part, vars, login, records>> => (part = "login" => LoginInv)'
  <2> SUFFICES ASSUME part = "login" => LoginInv, [TablesNext]_<<part, vars, login, records>>, part' = "login"
               PROVE  LoginInv'
      OBVIOUS
  <2>1. CASE L!Next /\ part = "login"
        BY <2>1, TablesAssumption, LoginNextHolds
  <2>2. CASE UNCHANGED login /\ part = "login"
    <3>1. LoginTyped' = LoginTyped
          BY <2>2 DEF login, LoginTyped
    <3>2. \A p \in L!Loginables : Good(p)' = Good(p) /\ InRestore(p)' = InRestore(p) /\ OneRestore(p)' = OneRestore(p)
          BY <2>2 DEF login, Good, InRestore, OneRestore
    <3>3. \A p \in L!Loginables : OneCall(p)' = OneCall(p) /\ Untried(p)' = Untried(p) /\ Alone(p)' = Alone(p)
          BY <2>2, <3>2 DEF login, OneCall, Untried, Alone, Wants, Logs
    <3>4. \A p \in L!Loginables : Settled(p)' = Settled(p)
          BY <2>2, <3>2 DEF login, Settled, RestoresSaved, CallsFit, Fit, Sets, Wants, Good
    <3>5. \A p \in L!Loginables : InOrder(p) => InOrder(p)'
          BY <2>2, <3>3, <3>4 DEF login, InOrder
    <3> QED BY <2>2, <3>1, <3>5 DEF LoginInv
  <2> QED BY <2>1, <2>2 DEF TablesNext
<1> QED BY <1>1, <1>2, PTL DEF TablesSpec

\* Whatever logins, logouts, sessions set by hand, look-ups, restorations and
\* restarts come together: a session that its service does not accept is saved
\* only for kugou, which does not ask, or for qq when another was after its
\* credential in the two waits of isLogin() (login-manager.ts, qq.ts); and a
\* provider for which nobody tries a credential uses the saved one or none,
\* unless one that was tried was refused or was met by another request, and no
\* lone request or restart has come since.
THEOREM LoginCorrect == TablesSpec => []Sessions
<1>1. (part = "login" => LoginInv) => Sessions
  <2> SUFFICES ASSUME LoginInv PROVE L!TypeOK /\ L!Sessions
      BY DEF Sessions
  <2>1. \A c \in Callers : (L!Idle(c) \/ calls[c].p \in L!Loginables) /\ {calls[c].cred, calls[c].via} \subseteq L!Creds
        BY DEF LoginInv, LoginTyped, CallOK, L!Idle
  <2>2. L!TypeOK
        BY <2>1 DEF L!TypeOK, LoginInv, LoginTyped
  <2>3. ASSUME NEW p \in L!Loginables, ~L!Tries(p), p \notin contested PROVE cred[p] \in {saved[p], 0}
    <3>1. \A c \in Callers : ~Sets(c, p)
          BY <2>3, NotTried DEF LoginInv, Sets, Untried
    <3> QED BY <2>3, <3>1 DEF LoginInv, InOrder, Settled, Good
  <2> QED BY <2>2, <2>3 DEF L!Sessions, LoginInv, InOrder
<1> QED BY <1>1, LoginInvariance, PTL

-----------------------------------------------------------------------------
(* The records: what the proofs need of numbers, sets and sequences.       *)

\* A set of numbers has a least one.
LEMMA Least == ASSUME NEW S \in SUBSET Nat, S # {} PROVE \E m \in S : \A k \in S : m <= k
<1>1. PICK less : less = OpToRel(<, Nat)
      OBVIOUS
<1>2. IsWellFoundedOn(less, Nat)
      BY <1>1, NatLessThanWellFounded
<1>3. less = {ss \in Nat \X Nat : ss[1] < ss[2]}
      BY <1>1 DEF OpToRel
<1>4. PICK x \in S : \A y \in S : ~(<<y, x>> \in less)
      BY <1>2, WFMin
<1>5. ASSUME NEW y \in S PROVE x <= y
  <2>1. x \in Nat /\ y \in Nat
        OBVIOUS
  <2>2. <<y, x>> \in Nat \X Nat /\ <<y, x>>[1] = y /\ <<y, x>>[2] = x
        BY <2>1
  <2>3. ~(y < x)
        BY <1>3, <1>4, <2>2
  <2> QED BY <2>1, <2>3
<1> QED BY <1>5

\* Records counts as this module does.
LEMMA SameCount == ASSUME NEW S PROVE R!Cardinality(S) = Cardinality(S)
BY DEF R!Cardinality, Cardinality

RecordsConstants ==
  /\ MaxHistory \in Nat /\ MaxViewers \in Nat /\ FeedLines \in Nat /\ Pool \in Nat
  /\ MaxHistory > 0 /\ MaxViewers > 0 /\ FeedLines > 0 /\ FeedLines <= Pool

LEMMA RecordsConstantsHold == ASSUME R!RecordsAssumption PROVE RecordsConstants
BY DEF R!RecordsAssumption, RecordsConstants

\* What Latest() keeps.
LEMMA LatestIs ==
  ASSUME NEW T, NEW s \in Seq(T), NEW n \in Nat, n > 0
  PROVE  /\ R!Latest(s, n) \in Seq(T)
         /\ Len(R!Latest(s, n)) = IF Len(s) <= n THEN Len(s) ELSE n
         /\ \A i \in 1..Len(R!Latest(s, n)) : R!Latest(s, n)[i] = s[i + Len(s) - Len(R!Latest(s, n))]
<1>1. Len(s) \in Nat /\ \A i \in 1..Len(s) : s[i] \in T
      BY ElementOfSeq
<1>2. CASE Len(s) <= n
      BY <1>1, <1>2 DEF R!Latest
<1>3. CASE ~(Len(s) <= n)
  <2>1. PICK a \in Nat : a = Len(s) - n + 1
        BY <1>1, <1>3
  <2>2. PICK b \in Nat : b = Len(s)
        BY <1>1
  <2>3. R!Latest(s, n) = SubSeq(s, a, b)
        BY <1>3, <2>1, <2>2 DEF R!Latest
  <2>4. a <= b /\ b - a + 1 = n /\ \A i \in a..b : s[i] \in T
        BY <1>1, <1>3, <2>1, <2>2
  <2>5. /\ SubSeq(s, a, b) \in Seq(T) /\ Len(SubSeq(s, a, b)) = n
        /\ \A i \in 1..n : SubSeq(s, a, b)[i] = s[a + i - 1]
        BY <2>4, SubSeqProperties
  <2>6. \A i \in 1..n : a + i - 1 = i + Len(s) - n
        BY <2>1, <1>1
  <2> QED BY <1>3, <2>3, <2>5, <2>6
<1> QED BY <1>2, <1>3

\* It makes no difference to forget early what will be forgotten.
LEMMA LatestOfMore ==
  ASSUME NEW T, NEW s \in Seq(T), NEW e \in T, NEW n \in Nat, n > 0
  PROVE  R!Latest(Append(R!Latest(s, n), e), n) = R!Latest(Append(s, e), n)
<1>1. PICK t : t = R!Latest(s, n)
      OBVIOUS
<1>2. /\ t \in Seq(T) /\ Len(t) = IF Len(s) <= n THEN Len(s) ELSE n
      /\ \A i \in 1..Len(t) : t[i] = s[i + Len(s) - Len(t)]
      BY <1>1, LatestIs
<1>3. PICK u, v : u = Append(t, e) /\ v = Append(s, e)
      OBVIOUS
<1>10. u \in Seq(T) /\ v \in Seq(T)
      BY <1>2, <1>3
<1>4. /\ Len(u) = Len(t) + 1 /\ \A i \in 1..Len(u) : u[i] = IF i = Len(t) + 1 THEN e ELSE t[i]
      /\ Len(v) = Len(s) + 1 /\ \A i \in 1..Len(v) : v[i] = IF i = Len(s) + 1 THEN e ELSE s[i]
      BY <1>2, <1>3
<1>5. PICK x \in Seq(T) : /\ x = R!Latest(u, n) /\ Len(x) = IF Len(u) <= n THEN Len(u) ELSE n
                          /\ \A i \in 1..Len(x) : x[i] = u[i + Len(u) - Len(x)]
      BY <1>10, LatestIs
<1>6. PICK y \in Seq(T) : /\ y = R!Latest(v, n) /\ Len(y) = IF Len(v) <= n THEN Len(v) ELSE n
                          /\ \A i \in 1..Len(y) : y[i] = v[i + Len(v) - Len(y)]
      BY <1>10, LatestIs
<1>7. Len(s) \in Nat /\ Len(t) \in Nat /\ Len(x) = Len(y) /\ Len(x) \in Nat
      BY <1>2, <1>4, <1>5, <1>6
<1>8. ASSUME NEW i \in 1..Len(x) PROVE x[i] = y[i]
  <2>6. i \in Nat /\ i >= 1 /\ i <= Len(x) /\ Len(x) <= Len(u) /\ Len(y) <= Len(v) /\ Len(u) \in Nat /\ Len(v) \in Nat
        BY <1>4, <1>5, <1>6, <1>7
  <2>1. PICK a \in 1..Len(u) : a = i + Len(u) - Len(x) /\ x[i] = u[a]
    <3>1. PICK a : a = i + Len(u) - Len(x)
          OBVIOUS
    <3>2. a \in 1..Len(u)
          BY <2>6, <3>1, <1>7
    <3> QED BY <3>1, <3>2, <1>5
  <2>2. PICK b \in 1..Len(v) : b = i + Len(v) - Len(y) /\ y[i] = v[b]
    <3>1. PICK b : b = i + Len(v) - Len(y)
          OBVIOUS
    <3>2. b \in 1..Len(v)
          BY <2>6, <3>1, <1>7
    <3> QED BY <3>1, <3>2, <1>6, <1>7
  <2>3. b = a + Len(s) - Len(t)
        BY <1>4, <1>7, <2>1, <2>2
  <2>4. CASE a = Len(t) + 1
        BY <1>4, <1>7, <2>1, <2>2, <2>3, <2>4
  <2>5. CASE a # Len(t) + 1
    <3>1. a \in 1..Len(t) /\ b # Len(s) + 1
          BY <1>4, <1>7, <2>1, <2>3, <2>5
    <3>2. t[a] = s[b]
          BY <1>2, <1>7, <2>3, <3>1
    <3> QED BY <1>4, <2>1, <2>2, <2>5, <3>1, <3>2
  <2> QED BY <2>4, <2>5
<1>9. x = y
      BY <1>7, <1>8, SeqEqual
<1> QED BY <1>1, <1>3, <1>5, <1>6, <1>9

-----------------------------------------------------------------------------
(* The records: the inductive invariant.                                   *)

Event == [n : Nat, type : R!Types \cup {"system"}, user : Users \cup {"nobody"}, day : Nat, at : Nat]
Viewer == [seen : Nat, danmaku : Nat]

\* Whoever is in a table; in a log, the live events, those since the last end
\* of a stream, and who was seen in them.
In(t)       == {u \in Users : t[u] # R!Absent}
Live(s)     == {i \in DOMAIN s : s[i].type # "system"}
SinceEnd(s) == {i \in Live(s) : \A j \in DOMAIN s : s[j].type = "liveEnd" => j < i}
SeenIn(s)   == {s[i].user : i \in SinceEnd(s)}

\* u was seen last at i of the log s, which is what the table t has of it; u
\* was seen after v.
LastAt(s, t, u, i) ==
  s[i].user = u /\ s[i].at = t[u].seen /\ \A j \in SinceEnd(s) : s[j].user = u => j <= i
Later(s, u, v) == \E i \in SinceEnd(s) : s[i].user = u /\ \A j \in SinceEnd(s) : s[j].user = v => j < i

Rising(s) == \A i, j \in DOMAIN s : i < j => s[i].at < s[j].at
Follows(s, t) ==
  /\ \A u \in In(t) : \E i \in SinceEnd(s) : LastAt(s, t, u, i)
  /\ \A u \in In(t), v \in SeenIn(s) \ In(t) : Later(s, u, v)
  /\ In(t) # SeenIn(s) => Cardinality(In(t)) = MaxViewers

TableOK(t) == t \in [Users -> Viewer] /\ IsFiniteSet(In(t)) /\ Cardinality(In(t)) <= MaxViewers

\* Of a table the last of whose entries is of now, with perhaps one too many,
\* prune() takes the one seen before all others.
LEMMA PrunedIs ==
  ASSUME RecordsConstants, NEW t \in [Users -> Viewer], IsFiniteSet(In(t))
  PROVE  \/ R!Pruned(t) = t /\ Cardinality(In(t)) <= MaxViewers
         \/ \E out \in In(t) : /\ \A v \in In(t) : t[out].seen <= t[v].seen
                               /\ R!Pruned(t) = [t EXCEPT ![out] = R!Absent]
                               /\ Cardinality(In(t)) > MaxViewers
<1>1. PICK there : there = In(t)
      OBVIOUS
<1>2. there = {u \in Users : t[u] # R!Absent} /\ R!Cardinality(there) = Cardinality(there) /\ Cardinality(there) \in Nat
      BY <1>1, SameCount, FS_CardinalityType DEF In
<1>3. R!Pruned(t) = IF R!Cardinality(there) <= MaxViewers THEN t
                    ELSE [t EXCEPT ![CHOOSE u \in there : \A v \in there : t[u].seen <= t[v].seen] = R!Absent]
      BY <1>2 DEF R!Pruned
<1>4. CASE Cardinality(there) <= MaxViewers
      BY <1>1, <1>2, <1>3, <1>4
<1>5. CASE ~(Cardinality(there) <= MaxViewers)
  <2>1. there # {}
        BY <1>2, <1>5, FS_EmptySet DEF RecordsConstants
  <2>2. PICK S : S = {t[u].seen : u \in there}
        OBVIOUS
  <2>3. S \in SUBSET Nat /\ S # {}
        BY <1>2, <2>1, <2>2 DEF Viewer
  <2>4. PICK m \in S : \A k \in S : m <= k
        BY <2>3, Least
  <2>5. \E u \in there : \A v \in there : t[u].seen <= t[v].seen
        BY <2>2, <2>4
  <2>6. PICK out : out = CHOOSE u \in there : \A v \in there : t[u].seen <= t[v].seen
        OBVIOUS
  <2>7. out \in there /\ \A v \in there : t[out].seen <= t[v].seen
        BY <2>5, <2>6
  <2>8. R!Pruned(t) = [t EXCEPT ![out] = R!Absent] /\ Cardinality(there) > MaxViewers
        BY <1>2, <1>3, <1>5, <2>6 DEF RecordsConstants
  <2> QED BY <1>1, <2>7, <2>8
<1> QED BY <1>4, <1>5

\* Whom a table has after one entry was taken away, and after one was written.
LEMMA Removed ==
  ASSUME NEW t \in [Users -> Viewer], NEW out \in Users
  PROVE  In([t EXCEPT ![out] = R!Absent]) = In(t) \ {out} /\ [t EXCEPT ![out] = R!Absent] \in [Users -> Viewer]
BY DEF In, R!Absent, R!Nobody, Viewer

LEMMA Written ==
  ASSUME NEW t \in [Users -> Viewer], NEW u \in Users, NEW k \in Viewer, k.seen # 0
  PROVE  In([t EXCEPT ![u] = k]) = In(t) \cup {u} /\ [t EXCEPT ![u] = k] \in [Users -> Viewer]
BY DEF In, R!Absent, R!Nobody

\* The table stays within its size.
LEMMA PrunedFits ==
  ASSUME RecordsConstants, NEW t, TableOK(t), NEW u \in Users, NEW k \in Viewer, k.seen # 0
  PROVE  TableOK(R!Pruned([t EXCEPT ![u] = k]))
<1>1. PICK w : w = [t EXCEPT ![u] = k]
      OBVIOUS
<1>2. w \in [Users -> Viewer] /\ In(w) = In(t) \cup {u}
      BY <1>1, Written DEF TableOK
<1>3. IsFiniteSet(In(w)) /\ Cardinality(In(w)) \in Nat /\ Cardinality(In(w)) <= MaxViewers + 1
  <2>1. PICK S : S = In(t) /\ IsFiniteSet(S) /\ Cardinality(S) <= MaxViewers
        BY DEF TableOK
  <2>2. IsFiniteSet(S \cup {u}) /\ Cardinality(S \cup {u}) \in {Cardinality(S), Cardinality(S) + 1} /\ Cardinality(S) \in Nat
        BY <2>1, FS_AddElement, FS_CardinalityType
  <2> QED BY <1>2, <2>1, <2>2 DEF RecordsConstants
<1>4. CASE R!Pruned(w) = w /\ Cardinality(In(w)) <= MaxViewers
      BY <1>1, <1>2, <1>3, <1>4 DEF TableOK
<1>5. CASE \E out \in In(w) : R!Pruned(w) = [w EXCEPT ![out] = R!Absent]
  <2>1. PICK out \in In(w) : R!Pruned(w) = [w EXCEPT ![out] = R!Absent]
        BY <1>5
  <2>2. out \in Users
        BY DEF In
  <2>3. In(R!Pruned(w)) = In(w) \ {out} /\ R!Pruned(w) \in [Users -> Viewer]
        BY <1>2, <2>1, <2>2, Removed
  <2>4. IsFiniteSet(In(w) \ {out}) /\ Cardinality(In(w) \ {out}) = Cardinality(In(w)) - 1
        BY <1>3, FS_RemoveElement
  <2>5. Cardinality(In(w) \ {out}) <= MaxViewers
        BY <1>3, <2>4 DEF RecordsConstants
  <2> QED BY <1>1, <2>3, <2>4, <2>5 DEF TableOK
<1> QED BY <1>2, <1>3, <1>4, <1>5, PrunedIs

\* The log with one more event.
LEMMA LogAppend ==
  ASSUME NEW s \in Seq(Event), NEW e \in Event
  PROVE  /\ Append(s, e) \in Seq(Event) /\ Len(s) \in Nat /\ Len(Append(s, e)) = Len(s) + 1
         /\ DOMAIN s = 1..Len(s) /\ DOMAIN Append(s, e) = 1..(Len(s) + 1)
         /\ Append(s, e)[Len(s) + 1] = e /\ \A i \in DOMAIN s : Append(s, e)[i] = s[i]
OBVIOUS

LEMMA Logged == ASSUME NEW s \in Seq(Event), NEW i \in DOMAIN s PROVE s[i] \in Event /\ s[i].at \in Nat /\ s[i].day \in Nat
<1>1. s[i] \in Event
      BY ElementOfSeq
<1> QED BY <1>1 DEF Event

LEMMA RisingAppend ==
  ASSUME NEW s \in Seq(Event), NEW e \in Event, Rising(s), \A i \in DOMAIN s : s[i].at < e.at
  PROVE  Rising(Append(s, e))
<1>1. PICK z : z = Append(s, e)
      OBVIOUS
<1>2. ASSUME NEW i \in DOMAIN z, NEW j \in DOMAIN z, i < j PROVE z[i].at < z[j].at
  <2>1. i \in DOMAIN s
        BY <1>1, <1>2, LogAppend
  <2>2. j \in DOMAIN s \/ z[j] = e
        BY <1>1, <1>2, LogAppend
  <2> QED BY <1>1, <1>2, <2>1, <2>2, LogAppend DEF Rising
<1> QED BY <1>1, <1>2 DEF Rising

\* What an event adds to those since the last end.
LEMMA SinceAppend ==
  ASSUME NEW s \in Seq(Event), NEW e \in Event
  PROVE  SinceEnd(Append(s, e)) = IF e.type = "system" THEN SinceEnd(s)
                                  ELSE IF e.type = "liveEnd" THEN {} ELSE SinceEnd(s) \cup {Len(s) + 1}
<1>1. PICK z, n : z = Append(s, e) /\ n = Len(s) + 1
      OBVIOUS
<1>2. /\ n \in Nat /\ z[n] = e /\ DOMAIN z = DOMAIN s \cup {n} /\ n \notin DOMAIN s
      /\ \A i \in DOMAIN s : z[i] = s[i] /\ i < n /\ ~(n < i)
      BY <1>1, LogAppend
<1>3. Live(z) = IF e.type = "system" THEN Live(s) ELSE Live(s) \cup {n}
      BY <1>2 DEF Live
<1>4. Live(s) \subseteq DOMAIN s /\ n \notin Live(s) /\ ~(n < n)
      BY <1>2 DEF Live
<1>5. CASE e.type = "system"
      BY <1>1, <1>2, <1>3, <1>4, <1>5 DEF SinceEnd
<1>6. CASE e.type = "liveEnd"
      BY <1>1, <1>2, <1>3, <1>4, <1>6 DEF SinceEnd
<1>7. CASE e.type # "system" /\ e.type # "liveEnd"
      BY <1>1, <1>2, <1>3, <1>4, <1>7 DEF SinceEnd
<1> QED BY <1>5, <1>6, <1>7

\* A table that follows the log follows it when a viewer comes: whoever goes
\* was seen before all who stay.
LEMMA FollowsMore ==
  ASSUME RecordsConstants, NEW s \in Seq(Event), NEW t, TableOK(t), NEW e \in Event, e.type \notin {"system", "liveEnd"},
         e.user \in Users, NEW k \in Viewer, k.seen = e.at, e.at # 0,
         Rising(s), Follows(s, t), \A i \in DOMAIN s : s[i].at < e.at
  PROVE  Follows(Append(s, e), R!Pruned([t EXCEPT ![e.user] = k]))
<1>1. PICK z, n, new, w : z = Append(s, e) /\ n = Len(s) + 1 /\ new = e.user /\ w = [t EXCEPT ![e.user] = k]
      OBVIOUS
<1>2. /\ SinceEnd(z) = SinceEnd(s) \cup {n} /\ z[n] = e /\ n \in Nat
      /\ \A i \in SinceEnd(s) : z[i] = s[i] /\ i \in Nat /\ i < n /\ s[i].at < e.at /\ i \in DOMAIN s /\ s[i].at \in Nat
  <2>1. SinceEnd(s) \subseteq DOMAIN s
        BY DEF SinceEnd, Live
  <2>2. \A i \in DOMAIN s : s[i] \in Event
        BY ElementOfSeq
  <2>3. SinceEnd(z) = SinceEnd(s) \cup {n}
        BY <1>1, SinceAppend
  <2>4. z[n] = e /\ n \in Nat /\ \A i \in DOMAIN s : z[i] = s[i] /\ i \in Nat /\ i < n
        BY <1>1, LogAppend
  <2>5. \A i \in DOMAIN s : s[i].at \in Nat
        BY <2>2 DEF Event
  <2> QED BY <2>1, <2>3, <2>4, <2>5
<1>3. SeenIn(z) = SeenIn(s) \cup {new}
      BY <1>1, <1>2 DEF SeenIn
<1>4. /\ w \in [Users -> Viewer] /\ In(w) = In(t) \cup {new} /\ new \in Users
      /\ w[new].seen = e.at /\ \A u \in Users \ {new} : w[u] = t[u]
      BY <1>1, Written DEF TableOK
<1>5. ASSUME NEW u \in In(w) PROVE \E i \in SinceEnd(z) : LastAt(z, w, u, i)
  <2>1. CASE u = new
        BY <1>1, <1>2, <1>4, <2>1 DEF LastAt
  <2>2. CASE u # new
    <3>1. u \in In(t) /\ u \in Users
          BY <1>4, <2>2 DEF In
    <3>2. PICK i \in SinceEnd(s) : LastAt(s, t, u, i)
          BY <3>1 DEF Follows
    <3> QED BY <1>1, <1>2, <1>4, <2>2, <3>1, <3>2 DEF LastAt
  <2> QED BY <2>1, <2>2
<1>6. ASSUME NEW v \in SeenIn(z), v # new PROVE Later(z, new, v)
      BY <1>1, <1>2, <1>6 DEF Later
<1>7. ASSUME NEW u \in In(w), u # new, NEW v, v # new, Later(s, u, v) PROVE Later(z, u, v)
  <2>1. PICK i \in SinceEnd(s) : s[i].user = u /\ \A j \in SinceEnd(s) : s[j].user = v => j < i
        BY <1>7 DEF Later
  <2> QED BY <1>1, <1>2, <1>7, <2>1 DEF Later
<1>8. ASSUME NEW u \in In(w), NEW v \in SeenIn(z) \ In(w) PROVE Later(z, u, v)
  <2>1. v # new /\ v \in SeenIn(s) \ In(t)
        BY <1>3, <1>4
  <2>2. CASE u = new
        BY <1>6, <2>1, <2>2
  <2>3. CASE u # new
    <3>1. Later(s, u, v)
          BY <1>4, <2>1, <2>3 DEF Follows
    <3> QED BY <1>7, <2>1, <2>3, <3>1
  <2> QED BY <2>2, <2>3
<1>9. PICK S : S = In(t) /\ IsFiniteSet(S) /\ Cardinality(S) \in Nat /\ Cardinality(S) <= MaxViewers
      BY FS_CardinalityType DEF TableOK
<1>10. Cardinality(S \cup {new}) = IF new \in S THEN Cardinality(S) ELSE Cardinality(S) + 1
      BY <1>9, FS_AddElement
<1>11. CASE R!Pruned(w) = w /\ Cardinality(In(w)) <= MaxViewers
  <2>1. ASSUME In(w) # SeenIn(z) PROVE Cardinality(In(w)) = MaxViewers
    <3>1. In(t) # SeenIn(s)
          BY <1>3, <1>4, <2>1
    <3>2. Cardinality(S) = MaxViewers
          BY <1>9, <3>1 DEF Follows
    <3> QED BY <1>4, <1>9, <1>10, <1>11, <3>2 DEF RecordsConstants
  <2>2. Follows(z, w)
        BY <1>5, <1>8, <2>1 DEF Follows
  <2> QED BY <1>1, <1>11, <2>2
<1>12. CASE \E out \in In(w) : /\ \A v \in In(w) : w[out].seen <= w[v].seen
                               /\ R!Pruned(w) = [w EXCEPT ![out] = R!Absent] /\ Cardinality(In(w)) > MaxViewers
  <2>1. PICK out \in In(w) : /\ \A v \in In(w) : w[out].seen <= w[v].seen
                             /\ R!Pruned(w) = [w EXCEPT ![out] = R!Absent] /\ Cardinality(In(w)) > MaxViewers
        BY <1>12
  <2>2. new \notin S /\ Cardinality(S) = MaxViewers
        BY <1>4, <1>9, <1>10, <2>1 DEF RecordsConstants
  <2>3. out # new
    <3>1. S # {}
          BY <1>9, <2>2, FS_EmptySet DEF RecordsConstants
    <3>2. PICK v \in S : TRUE
          BY <3>1
    <3>3. PICK i \in SinceEnd(s) : LastAt(s, t, v, i)
          BY <1>9, <3>2 DEF Follows
    <3>4. v \in In(w) /\ v # new /\ v \in Users
          BY <1>4, <1>9, <2>2, <3>2 DEF In
    <3>5. w[v].seen = s[i].at /\ s[i].at < e.at /\ s[i].at \in Nat /\ e.at \in Nat
          BY <1>2, <1>4, <3>3, <3>4 DEF LastAt, Event
    <3> QED BY <1>4, <2>1, <3>4, <3>5
  <2>4. PICK x : x = R!Pruned(w) /\ In(x) = In(w) \ {out} /\ \A u \in In(x) : x[u] = w[u]
    <3>1. out \in Users
          BY DEF In
    <3> QED BY <1>4, <2>1, <3>1, Removed DEF In
  <2>5. ASSUME NEW u \in In(x) PROVE \E i \in SinceEnd(z) : LastAt(z, x, u, i)
        BY <1>5, <2>4 DEF LastAt
  <2>6. Cardinality(In(x)) = MaxViewers
    <3>1. Cardinality(In(w)) = MaxViewers + 1 /\ IsFiniteSet(In(w))
          BY <1>4, <1>9, <1>10, <2>2, FS_AddElement
    <3>2. Cardinality(In(w) \ {out}) = Cardinality(In(w)) - 1
          BY <3>1, FS_RemoveElement
    <3> QED BY <2>4, <3>1, <3>2 DEF RecordsConstants
  <2>7. ASSUME NEW u \in In(x), u # new PROVE Later(z, u, out)
    <3>1. u \in In(t) /\ out \in In(t) /\ u \in Users /\ out \in Users /\ u # out /\ w[out].seen <= w[u].seen
          BY <1>4, <2>1, <2>3, <2>4, <2>7 DEF In
    <3>2. PICK i \in SinceEnd(s) : LastAt(s, t, u, i)
          BY <3>1 DEF Follows
    <3>3. PICK j \in SinceEnd(s) : LastAt(s, t, out, j)
          BY <3>1 DEF Follows
    <3>4. s[j].at <= s[i].at /\ i # j
          BY <1>4, <2>3, <2>7, <3>1, <3>2, <3>3 DEF LastAt
    <3>5. ~(i < j)
          BY <1>2, <3>4 DEF Rising
    <3>6. j < i
          BY <1>2, <3>4, <3>5
    <3>7. \A l \in SinceEnd(s) : s[l].user = out => l < i
          BY <1>2, <3>3, <3>6 DEF LastAt
    <3>8. Later(s, u, out)
          BY <3>2, <3>7 DEF LastAt, Later
    <3> QED BY <1>7, <2>3, <2>4, <2>7, <3>8
  <2>8. ASSUME NEW u \in In(x), NEW v \in SeenIn(z) \ In(x) PROVE Later(z, u, v)
    <3>1. new \in In(x) /\ u \in In(w) /\ v # new
          BY <1>4, <2>3, <2>4
    <3>2. CASE v = out
          BY <1>6, <2>7, <3>1, <3>2
    <3>3. CASE v # out
          BY <1>8, <2>4, <3>1, <3>3
    <3> QED BY <3>2, <3>3
  <2> QED BY <1>1, <2>4, <2>5, <2>6, <2>8 DEF Follows
<1> QED
  <2>1. IsFiniteSet(In(w))
        BY <1>4, <1>9, FS_AddElement
  <2> QED BY <1>4, <1>11, <1>12, <2>1, PrunedIs

\* The log, the history that is its end, and how many live events there were.
LogOK ==
  /\ log \in Seq(Event) /\ history = R!Latest(log, MaxHistory) /\ dispatched = Cardinality(Live(log))
  /\ total \in Nat /\ \A i \in DOMAIN log : log[i].at <= total + 1

\* The rows: what is not old is there, unless the database refused it.
RowsOK ==
  /\ rows \in SUBSET Event /\ day \in Nat /\ day > 0 /\ switches \in R!Configs \cup {R!Default}
  /\ \A e \in rows : e.at <= total + 1
  /\ \A i \in DOMAIN log : log[i].day + 1 >= day => log[i] \in rows \/ log[i].n \in refused

\* The old records, and how far the start has got: once, unless a start ended
\* between the copy and the rename.
OnceOnly(r) ==
  /\ play[r] <= 1
  /\ up \in {"runs", "closed"} => r \notin json
  /\ up \in {"down", "opened"} /\ r \in json => play[r] = 0
MovedOK ==
  /\ up \in {"down", "opened", "copied", "runs", "closed"} /\ json \subseteq OldRecords
  /\ play \in [OldRecords -> Nat] /\ twice \in BOOLEAN
  /\ \A r \in OldRecords : (r \in json \/ play[r] > 0) /\ (~twice => OnceOnly(r))

ViewersOK == late \in BOOLEAN /\ TableOK(viewers) /\ (~late => Rising(log) /\ Follows(log, viewers))

RecordsInv == LogOK /\ RowsOK /\ MovedOK /\ ViewersOK

-----------------------------------------------------------------------------
(* The start and the end.                                                  *)

LEMMA KeptIs == ASSUME RowsOK PROVE R!Kept \subseteq rows /\ \A e \in rows : e.day + 1 >= day => e \in R!Kept
<1>1. switches.days \in {0, 1}
      BY DEF RowsOK, R!Configs, R!Default
<1>2. \A e \in rows : e.day \in Nat
      BY DEF RowsOK, Event
<1> QED BY <1>1, <1>2 DEF R!Kept, RowsOK

\* A sweep, or a day, that moves nothing else.
LEMMA SweptRows ==
  ASSUME RowsOK, rows' = rows \/ rows' = R!Kept, UNCHANGED <<day, switches, total, log, refused>>
  PROVE  RowsOK'
<1>1. rows' \subseteq rows /\ \A e \in rows : e.day + 1 >= day => e \in rows'
      BY KeptIs
<1> QED BY <1>1 DEF RowsOK

LEMMA LogStays ==
  ASSUME LogOK, ViewersOK, UNCHANGED <<log, history, dispatched, total, late, viewers>>
  PROVE  LogOK' /\ ViewersOK'
<1>1. LogOK'
      BY DEF LogOK, Live
<1>2. ViewersOK'
      BY DEF ViewersOK, TableOK, Follows, Rising, Live, SinceEnd, SeenIn, LastAt, Later, In
<1> QED BY <1>1, <1>2

LEMMA MovedStays == ASSUME MovedOK, UNCHANGED <<up, json, play, twice>> PROVE MovedOK'
BY DEF MovedOK, OnceOnly

LEMMA OpenKeeps == ASSUME RecordsConstants, RecordsInv, R!Open PROVE RecordsInv'
<1>1. LogOK' /\ ViewersOK'
      BY LogStays DEF R!Open, RecordsInv
<1>2. RowsOK'
      BY DEF R!Open, RecordsInv, RowsOK
<1>3. MovedOK'
      BY DEF R!Open, RecordsInv, MovedOK, OnceOnly
<1> QED BY <1>1, <1>2, <1>3 DEF RecordsInv

LEMMA CopyKeeps == ASSUME RecordsConstants, RecordsInv, R!Copy PROVE RecordsInv'
<1>1. LogOK' /\ ViewersOK'
      BY LogStays DEF R!Copy, RecordsInv
<1>3. RowsOK'
      BY DEF R!Copy, RecordsInv, RowsOK
<1>2. MovedOK'
      BY DEF R!Copy, RecordsInv, MovedOK, OnceOnly
<1> QED BY <1>1, <1>2, <1>3 DEF RecordsInv

LEMMA StartKeeps == ASSUME RecordsConstants, RecordsInv, R!Start PROVE RecordsInv'
<1>1. LogOK' /\ ViewersOK'
      BY LogStays DEF R!Start, RecordsInv
<1>2. RowsOK'
      BY SweptRows DEF R!Start, RecordsInv
<1>3. MovedOK'
      BY DEF R!Start, RecordsInv, MovedOK, OnceOnly
<1> QED BY <1>1, <1>2, <1>3 DEF RecordsInv

LEMMA StopKeeps == ASSUME RecordsConstants, RecordsInv, R!Stop PROVE RecordsInv'
<1>1. LogOK' /\ ViewersOK'
      BY LogStays DEF R!Stop, RecordsInv
<1>2. RowsOK'
      BY SweptRows DEF R!Stop, RecordsInv
<1>3. MovedOK'
      BY DEF R!Stop, RecordsInv, MovedOK, OnceOnly
<1> QED BY <1>1, <1>2, <1>3 DEF RecordsInv

LEMMA SweepKeeps == ASSUME RecordsConstants, RecordsInv, R!Sweep PROVE RecordsInv'
<1>1. LogOK' /\ ViewersOK' /\ MovedOK'
      BY LogStays, MovedStays DEF R!Sweep, RecordsInv
<1>2. RowsOK'
      BY SweptRows DEF R!Sweep, RecordsInv
<1> QED BY <1>1, <1>2 DEF RecordsInv

LEMMA TomorrowKeeps == ASSUME RecordsConstants, RecordsInv, R!Tomorrow PROVE RecordsInv'
<1>1. LogOK' /\ ViewersOK' /\ MovedOK'
      BY LogStays, MovedStays DEF R!Tomorrow, RecordsInv
<1>2. RowsOK'
  <2>1. \A i \in DOMAIN log : log[i].day \in Nat
    <3>1. \A i \in 1..Len(log) : log[i] \in Event
          BY ElementOfSeq DEF RecordsInv, LogOK
    <3> QED BY <3>1 DEF RecordsInv, LogOK, Event
  <2> QED BY <2>1 DEF R!Tomorrow, RecordsInv, RowsOK
<1> QED BY <1>1, <1>2 DEF RecordsInv

LEMMA SwitchKeeps == ASSUME RecordsConstants, RecordsInv, NEW c \in R!Configs, R!Edit(c) PROVE RecordsInv'
<1>1. LogOK' /\ ViewersOK' /\ MovedOK'
      BY LogStays, MovedStays DEF R!Edit, RecordsInv
<1>2. RowsOK'
      BY DEF R!Edit, RecordsInv, RowsOK
<1> QED BY <1>1, <1>2 DEF RecordsInv

\* Before anything has come.
LEMMA NothingYet == LET nobody == [u \in Users |-> R!Absent]
                    IN RecordsConstants => TableOK(nobody) /\ Rising(<<>>) /\ Follows(<<>>, nobody) /\ Live(<<>>) = {}
<1> SUFFICES ASSUME RecordsConstants, NEW t, t = [u \in Users |-> R!Absent], NEW s, s = <<>>
             PROVE  TableOK(t) /\ Rising(s) /\ Follows(s, t) /\ Live(s) = {}
    OBVIOUS
<1>1. In(t) = {} /\ t \in [Users -> Viewer]
      BY DEF In, R!Absent, R!Nobody, Viewer
<1>2. DOMAIN s = {}
      OBVIOUS
<1>3. Live(s) = {} /\ SinceEnd(s) = {} /\ SeenIn(s) = {} /\ Rising(s)
      BY <1>2 DEF Live, SinceEnd, SeenIn, Rising
<1>4. IsFiniteSet({}) /\ Cardinality({}) = 0
      BY FS_EmptySet
<1>6. IsFiniteSet(In(t)) /\ Cardinality(In(t)) = 0
      BY <1>1, <1>4
<1>5. TableOK(t)
      BY <1>1, <1>6 DEF TableOK, RecordsConstants
<1> QED BY <1>1, <1>3, <1>5 DEF Follows

LEMMA ForgottenLog ==
  ASSUME RecordsConstants, log' = <<>>, history' = <<>>, dispatched' = 0, total' \in Nat, late' = FALSE,
         viewers' = [u \in Users |-> R!Absent]
  PROVE  LogOK' /\ ViewersOK'
<1>0. <<>> \in Seq(Event)
      OBVIOUS
<1>4. PICK s : s = <<>>
      OBVIOUS
<1>5. Len(s) = 0 /\ DOMAIN s = {}
      BY <1>4
<1>1. s = <<>> /\ s \in Seq(Event) /\ Len(s) = 0 /\ DOMAIN s = {}
      BY <1>0, <1>4, <1>5
<1>2. R!Latest(s, MaxHistory) = s
      BY <1>1 DEF R!Latest, RecordsConstants
<1>3. Cardinality(Live(s)) = 0
      BY <1>1, NothingYet, FS_EmptySet
<1> QED BY <1>1, <1>2, <1>3, NothingYet DEF LogOK, ViewersOK

LEMMA CrashKeeps == ASSUME RecordsConstants, RecordsInv, R!Crash PROVE RecordsInv'
<1>1. LogOK' /\ ViewersOK'
      BY ForgottenLog DEF R!Crash, RecordsInv, LogOK
<1>2. RowsOK'
      BY DEF R!Crash, RecordsInv, RowsOK
<1>3. MovedOK'
      BY DEF R!Crash, RecordsInv, MovedOK, OnceOnly
<1> QED BY <1>1, <1>2, <1>3 DEF RecordsInv

-----------------------------------------------------------------------------
(* Events.                                                                 *)

LEMMA LogMore ==
  ASSUME RecordsConstants, LogOK, NEW e \in Event, history' = R!Pushed(e), log' = Append(log, e), total' = total + 1,
         e.at <= total' + 1, dispatched' = IF e.type = "system" THEN dispatched ELSE dispatched + 1
  PROVE  LogOK'
<1>1. PICK s \in Seq(Event) : s = log
      BY DEF LogOK
<1>2. PICK z, n : z = Append(s, e) /\ n = Len(s) + 1
      OBVIOUS
<1>3. /\ z \in Seq(Event) /\ DOMAIN z = DOMAIN s \cup {n} /\ n \notin DOMAIN s /\ DOMAIN s = 1..Len(s) /\ Len(s) \in Nat
      /\ z[n] = e /\ \A i \in DOMAIN s : z[i] = s[i]
      BY <1>2, LogAppend
<1>4. history' = R!Latest(z, MaxHistory)
      BY <1>1, <1>2, LatestOfMore DEF LogOK, R!Pushed, RecordsConstants
<1>5. Live(z) = IF e.type = "system" THEN Live(s) ELSE Live(s) \cup {n}
      BY <1>3 DEF Live
<1>6. IsFiniteSet(Live(s)) /\ n \notin Live(s)
  <2>1. IsFiniteSet(1..Len(s)) /\ Live(s) \in SUBSET (1..Len(s))
        BY <1>3, FS_Interval DEF Live
  <2> QED BY <1>3, <2>1, FS_Subset
<1>7. Cardinality(Live(s) \cup {n}) = Cardinality(Live(s)) + 1
      BY <1>6, FS_AddElement
<1>8. dispatched' = Cardinality(Live(z))
      BY <1>1, <1>5, <1>7 DEF LogOK
<1>9. \A i \in DOMAIN z : z[i].at <= total' + 1
  <2>1. \A i \in DOMAIN s : s[i].at \in Nat /\ s[i].at <= total + 1
        BY <1>1, Logged DEF LogOK
  <2> QED BY <1>3, <2>1 DEF LogOK
<1> QED BY <1>1, <1>2, <1>3, <1>4, <1>8, <1>9 DEF LogOK

LEMMA RowsMore ==
  ASSUME RowsOK, LogOK, NEW e \in Event, log' = Append(log, e), total' = total + 1, e.at <= total' + 1,
         UNCHANGED <<day, switches>>,
         \/ rows' = rows \cup {e} /\ UNCHANGED refused
         \/ rows' = rows /\ refused' = refused \cup {e.n}
  PROVE  RowsOK'
<1>1. PICK s \in Seq(Event) : s = log
      BY DEF LogOK
<1>2. PICK z, n : z = Append(s, e) /\ n = Len(s) + 1
      OBVIOUS
<1>3. DOMAIN z = DOMAIN s \cup {n} /\ z[n] = e /\ \A i \in DOMAIN s : z[i] = s[i]
      BY <1>2, LogAppend
<1>4. rows' \in SUBSET Event /\ rows \subseteq rows' /\ refused \subseteq refused' /\ (e \in rows' \/ e.n \in refused')
      BY DEF RowsOK
<1>5. \A f \in rows' : f.at <= total' + 1
  <2>1. \A f \in rows : f.at \in Nat /\ f.at <= total + 1
        BY DEF RowsOK, Event
  <2> QED BY <2>1 DEF LogOK
<1>6. \A i \in DOMAIN z : z[i].day + 1 >= day => z[i] \in rows' \/ z[i].n \in refused'
      BY <1>1, <1>3, <1>4 DEF RowsOK
<1> QED BY <1>1, <1>2, <1>4, <1>5, <1>6 DEF RowsOK

LEMMA SystemKeeps == ASSUME RecordsConstants, RecordsInv, R!EmitSystem PROVE RecordsInv'
<1>1. PICK e : e = [n |-> total + 1, type |-> "system", user |-> "nobody", day |-> day, at |-> total + 2]
      OBVIOUS
<1>2. total \in Nat /\ total' = total + 1
      BY DEF R!EmitSystem, RecordsInv, LogOK
<1>3. e \in Event /\ e.type = "system" /\ e.at = total' + 1 /\ e.n = total'
      BY <1>1, <1>2 DEF RecordsInv, RowsOK, Event
<1>4. e = [n |-> total', type |-> "system", user |-> "nobody", day |-> day, at |-> total' + 1]
      BY <1>1, <1>2
<1>5. history' = R!Pushed(e) /\ log' = Append(log, e)
      BY <1>4 DEF R!EmitSystem
<1>6. \/ rows' = rows \cup {e} /\ UNCHANGED refused
      \/ rows' = rows /\ refused' = refused \cup {e.n}
      BY <1>4 DEF R!EmitSystem
<1>7. LogOK'
      BY <1>2, <1>3, <1>5, LogMore DEF R!EmitSystem, RecordsInv
<1>8. RowsOK'
      BY <1>2, <1>3, <1>5, <1>6, RowsMore DEF R!EmitSystem, RecordsInv
<1>9. MovedOK'
      BY MovedStays DEF R!EmitSystem, RecordsInv
<1>10. ViewersOK'
  <2>1. PICK s \in Seq(Event) : s = log
        BY DEF RecordsInv, LogOK
  <2>2. PICK z : z = Append(s, e) /\ SinceEnd(z) = SinceEnd(s)
        BY <1>3, SinceAppend
  <2>3. \A i \in SinceEnd(s) : z[i] = s[i]
        BY <1>3, <2>2, LogAppend DEF SinceEnd, Live
  <2>4. ASSUME NEW t, Follows(s, t) PROVE Follows(z, t)
    <3>1. SeenIn(z) = SeenIn(s)
          BY <2>2, <2>3 DEF SeenIn
    <3>2. ASSUME NEW u, NEW i \in SinceEnd(s), LastAt(s, t, u, i) PROVE LastAt(z, t, u, i)
          BY <2>2, <2>3, <3>2 DEF LastAt
    <3>3. ASSUME NEW u, NEW v, Later(s, u, v) PROVE Later(z, u, v)
          BY <2>2, <2>3, <3>3 DEF Later
    <3> QED BY <2>2, <2>4, <3>1, <3>2, <3>3 DEF Follows
  <2>5. ASSUME Rising(s) PROVE Rising(z)
    <3>1. \A i \in DOMAIN s : s[i].at \in Nat /\ s[i].at <= total + 1
          BY <2>1, Logged DEF RecordsInv, LogOK
    <3>2. \A i \in DOMAIN s : s[i].at < e.at
          BY <1>2, <1>3, <3>1
    <3> QED BY <1>3, <2>2, <2>5, <3>2, RisingAppend
  <2> QED BY <1>5, <2>1, <2>2, <2>4, <2>5 DEF R!EmitSystem, RecordsInv, ViewersOK
<1> QED BY <1>7, <1>8, <1>9, <1>10 DEF RecordsInv

LEMMA IngestKeeps ==
  ASSUME RecordsConstants, RecordsInv, NEW type \in R!Types, NEW user \in Users, NEW price, NEW behind \in {0, 1},
         R!Ingest(type, user, price, behind)
  PROVE  RecordsInv'
<1>1. PICK e : e = [n |-> total + 1, type |-> type, user |-> user, day |-> day - behind,
                    at |-> IF behind = 0 THEN total + 2 ELSE 1]
      OBVIOUS
<1>2. total \in Nat /\ total' = total + 1
      BY DEF R!Ingest, RecordsInv, LogOK
<1>3. /\ e \in Event /\ e.type = type /\ e.user = user /\ e.at <= total' + 1 /\ e.n = total' /\ e.at # 0
      /\ behind = 0 => e.at = total' + 1
  <2>1. day - behind \in Nat
        BY DEF RecordsInv, RowsOK
  <2>2. (IF behind = 0 THEN total + 2 ELSE 1) \in Nat
        BY <1>2
  <2> QED BY <1>1, <1>2, <2>1, <2>2 DEF Event
<1>4. e = [n |-> total', type |-> type, user |-> user, day |-> day - behind, at |-> IF behind = 0 THEN total' + 1 ELSE 1]
      BY <1>1, <1>2
<1>5. R!Accepted(e)
      BY <1>4 DEF R!Ingest
<1>6. late' = (late \/ behind # 0) /\ UNCHANGED <<switches, up, json, play, day, twice, changes>>
      BY DEF R!Ingest
<1>7. e.type # "system"
      BY <1>3 DEF R!Types
<1>8. LogOK'
      BY <1>2, <1>3, <1>5, <1>7, LogMore DEF R!Accepted, RecordsInv
<1>9. RowsOK'
      BY <1>2, <1>3, <1>5, <1>6, RowsMore DEF R!Accepted, RecordsInv
<1>10. MovedOK'
      BY <1>6, MovedStays DEF RecordsInv
<1>19. PICK s \in Seq(Event) : s = log
      BY DEF RecordsInv, LogOK
<1>11. PICK z, t : s = log /\ z = Append(s, e) /\ t = viewers
      BY <1>19
<1>12. ~late' => late = FALSE /\ behind = 0 /\ Rising(s) /\ Follows(s, t)
      BY <1>6, <1>11 DEF RecordsInv, ViewersOK
<1>13. \A i \in DOMAIN s : s[i].at \in Nat /\ s[i].at <= total + 1
      BY <1>11, Logged DEF RecordsInv, LogOK
<1>14. behind = 0 => \A i \in DOMAIN s : s[i].at < e.at
      BY <1>2, <1>3, <1>13
<1>15. ~late' => Rising(z)
      BY <1>3, <1>11, <1>12, <1>14, RisingAppend
<1>16. TableOK(t) /\ log' = z /\ viewers' = R!Touched(e) /\ late' \in BOOLEAN
      BY <1>5, <1>6, <1>11 DEF R!Accepted, RecordsInv, ViewersOK
<1>17. CASE type = "liveEnd"
  <2>1. PICK none : none = [u \in Users |-> R!Absent]
        OBVIOUS
  <2>2. viewers' = none
        BY <1>3, <1>16, <1>17, <2>1 DEF R!Touched
  <2>3. SinceEnd(z) = {} /\ SeenIn(z) = {}
        BY <1>3, <1>11, <1>17, SinceAppend DEF SeenIn
  <2>4. TableOK(none) /\ In(none) = {}
        BY <2>1, NothingYet DEF In
  <2>5. Follows(z, none)
        BY <2>3, <2>4 DEF Follows
  <2> QED BY <1>8, <1>9, <1>10, <1>15, <1>16, <2>2, <2>4, <2>5 DEF RecordsInv, ViewersOK
<1>18. CASE type # "liveEnd"
  <2>1. PICK k : k = [seen |-> e.at, danmaku |-> t[user].danmaku + (IF e.type = "danmaku" THEN 1 ELSE 0)]
        OBVIOUS
  <2>2. k \in Viewer /\ k.seen = e.at
        BY <1>3, <1>16, <2>1 DEF TableOK, Viewer, Event
  <2>3. viewers' = R!Pruned([t EXCEPT ![user] = k])
        BY <1>3, <1>11, <1>16, <1>18, <2>1 DEF R!Touched
  <2>4. PICK w : w = R!Pruned([t EXCEPT ![user] = k])
        OBVIOUS
  <2>5. TableOK(w)
        BY <1>3, <1>16, <2>2, <2>4, PrunedFits
  <2>6. ~late' => Follows(z, w)
        BY <1>3, <1>7, <1>11, <1>12, <1>14, <1>16, <1>18, <2>2, <2>4, FollowsMore
  <2> QED BY <1>8, <1>9, <1>10, <1>15, <1>16, <2>3, <2>4, <2>5, <2>6 DEF RecordsInv, ViewersOK
<1> QED BY <1>17, <1>18

LEMMA RecordsNextHolds == ASSUME R!RecordsAssumption, RecordsInv, R!Next PROVE RecordsInv'
<1>1. RecordsConstants /\ Givers \subseteq Users
      BY RecordsConstantsHold DEF R!RecordsAssumption
<1>2. "danmaku" \in R!Types /\ "gift" \in R!Types /\ "liveEnd" \in R!Types /\ 0 \in {0, 1}
      BY DEF R!Types
<1>3. ASSUME NEW u \in Users, NEW b \in {0, 1}, R!Ingest("danmaku", u, 0, b) PROVE RecordsInv'
      BY <1>1, <1>2, <1>3, IngestKeeps
<1>4. ASSUME NEW u \in Users, NEW p, R!Ingest("gift", u, p, 0) PROVE RecordsInv'
      BY <1>1, <1>2, <1>4, IngestKeeps
<1>5. ASSUME NEW u \in Users, R!Ingest("liveEnd", u, 0, 0) PROVE RecordsInv'
      BY <1>1, <1>2, <1>5, IngestKeeps
<1>6. ASSUME NEW c \in R!Configs, R!Edit(c) PROVE RecordsInv'
      BY <1>1, <1>6, SwitchKeeps
<1> QED BY <1>1, <1>3, <1>4, <1>5, <1>6, OpenKeeps, CopyKeeps, StartKeeps, StopKeeps, CrashKeeps, SystemKeeps,
           SweepKeeps, TomorrowKeeps DEF R!Next

-----------------------------------------------------------------------------
(* What is read.                                                           *)

\* The events of a sequence from the i-th on that are shown, for what is shown.
ShownFrom(s, i, include) == {j \in i..Len(s) : s[j].type \in include}

LEMMA ShownFinite ==
  ASSUME NEW T, NEW s \in Seq(T), NEW i \in Nat, NEW include
  PROVE  /\ IsFiniteSet(ShownFrom(s, i, include)) /\ Cardinality(ShownFrom(s, i, include)) \in Nat
         /\ R!Cardinality(ShownFrom(s, i, include)) = Cardinality(ShownFrom(s, i, include))
<1>1. Len(s) \in Nat
      OBVIOUS
<1>2. IsFiniteSet(i..Len(s)) /\ ShownFrom(s, i, include) \in SUBSET (i..Len(s))
      BY <1>1, FS_Interval DEF ShownFrom
<1>3. IsFiniteSet(ShownFrom(s, i, include))
      BY <1>2, FS_Subset
<1> QED BY <1>3, FS_CardinalityType, SameCount

\* Where a history that is the end of a log stands in it.
Ends(h, s, d) ==
  /\ d \in Nat /\ Len(s) = Len(h) + d /\ \A i \in 1..Len(h) : h[i] = s[i + d]
  /\ d > 0 => Len(h) = MaxHistory

LEMMA HistoryEnds ==
  ASSUME RecordsConstants, LogOK
  PROVE  history \in Seq(Event) /\ Len(history) \in Nat /\ Len(history) <= MaxHistory /\ \E d \in Nat : Ends(history, log, d)
<1>1. PICK s \in Seq(Event) : s = log
      BY DEF LogOK
<1>2. PICK h \in Seq(Event) : /\ h = history /\ Len(h) = IF Len(s) <= MaxHistory THEN Len(s) ELSE MaxHistory
                              /\ \A i \in 1..Len(h) : h[i] = s[i + Len(s) - Len(h)]
      BY <1>1, LatestIs DEF LogOK, RecordsConstants
<1>3. Len(s) \in Nat /\ Len(h) \in Nat
      OBVIOUS
<1>7. Len(h) <= Len(s)
      BY <1>2, <1>3 DEF RecordsConstants
<1>8. Len(s) - Len(h) \in Nat
      BY <1>3, <1>7
<1>4. PICK d \in Nat : d = Len(s) - Len(h)
      BY <1>8
<1>5. \A i \in 1..Len(h) : i + Len(s) - Len(h) = i + d
      BY <1>3, <1>4
<1>6. Ends(h, s, d)
      BY <1>2, <1>3, <1>4, <1>5 DEF Ends, RecordsConstants
<1> QED BY <1>1, <1>2, <1>3, <1>6 DEF RecordsConstants

\* As many are shown in the history from an event on as in the log.
LEMMA ShownMoves ==
  ASSUME NEW h \in Seq(Event), NEW s \in Seq(Event), NEW d, Ends(h, s, d), NEW i \in 1..Len(h), NEW include
  PROVE  Cardinality(ShownFrom(h, i, include)) <= Cardinality(ShownFrom(s, i + d, include))
<1>1. PICK S, T, f : S = ShownFrom(h, i, include) /\ T = ShownFrom(s, i + d, include) /\ f = [j \in S |-> j + d]
      OBVIOUS
<1>2. Len(h) \in Nat /\ Len(s) \in Nat /\ d \in Nat /\ i \in Nat
      BY DEF Ends
<1>3. ASSUME NEW j \in S PROVE j + d \in T /\ j \in Nat
  <2>1. j \in i..Len(h) /\ h[j].type \in include
        BY <1>1 DEF ShownFrom
  <2>2. j \in 1..Len(h) /\ j + d \in (i + d)..Len(s)
        BY <1>2, <2>1 DEF Ends
  <2>3. s[j + d] = h[j]
        BY <2>2 DEF Ends
  <2> QED BY <1>1, <2>1, <2>2, <2>3 DEF ShownFrom
<1>4. f \in [S -> T] /\ \A a, b \in S : f[a] = f[b] => a = b
      BY <1>1, <1>2, <1>3
<1>5. f \in Injection(S, T)
      BY <1>1, <1>4 DEF Injection, IsInjective
<1>6. IsFiniteSet(T)
      BY <1>1, <1>2, ShownFinite
<1> QED BY <1>1, <1>5, <1>6, FS_Injection

\* Of the history, the indices of what is in the feed.
FeedAt(h, include) ==
  {j \in DOMAIN h : j + Pool > Len(h) /\ h[j].type \in include /\ Cardinality(ShownFrom(h, j, include)) <= FeedLines}

LEMMA FeedIs == ASSUME LogOK, RecordsConstants PROVE R!Feed = {history[i] : i \in FeedAt(history, switches.include)}
<1>1. \A j \in DOMAIN history : j \in Nat /\ R!Shown(history, j) = ShownFrom(history, j, switches.include)
  <2>1. history \in Seq(Event)
        BY HistoryEnds
  <2> QED BY <2>1 DEF R!Shown, ShownFrom, R!InFeed
<1>2. \A j \in DOMAIN history : R!Cardinality(R!Shown(history, j)) = Cardinality(ShownFrom(history, j, switches.include))
      BY <1>1, SameCount
<1> QED BY <1>2 DEF R!Feed, R!InPool, R!InFeed, FeedAt

LEMMA FeedFits ==
  ASSUME RecordsConstants, NEW h \in Seq(Event), NEW include
  PROVE  Cardinality({h[i] : i \in FeedAt(h, include)}) <= FeedLines
<1>1. PICK K, F, f : K = FeedAt(h, include) /\ F = {h[i] : i \in K} /\ f = [i \in K |-> h[i]]
      OBVIOUS
<1>2. K \in SUBSET Nat /\ Len(h) \in Nat
      BY <1>1 DEF FeedAt
<1>3. CASE K = {}
  <2>1. F = {}
        BY <1>1, <1>3
  <2>2. Cardinality(F) = 0
        BY <2>1, FS_EmptySet
  <2> QED BY <1>1, <2>2 DEF RecordsConstants
<1>4. CASE K # {}
  <2>1. PICK m \in K : \A k \in K : m <= k
        BY <1>2, <1>4, Least
  <2>2. PICK S : S = ShownFrom(h, m, include) /\ Cardinality(S) <= FeedLines /\ m \in Nat
        BY <1>1, <1>2, <2>1 DEF FeedAt
  <2>3. K \in SUBSET S
        BY <1>1, <1>2, <2>1, <2>2 DEF FeedAt, ShownFrom
  <2>4. IsFiniteSet(S) /\ Cardinality(S) \in Nat
        BY <2>2, ShownFinite
  <2>5. IsFiniteSet(K) /\ Cardinality(K) <= Cardinality(S) /\ Cardinality(K) \in Nat
        BY <2>3, <2>4, FS_Subset, FS_CardinalityType
  <2>6. f \in Surjection(K, F)
        BY <1>1 DEF Surjection
  <2>7. IsFiniteSet(F) /\ Cardinality(F) <= Cardinality(K) /\ Cardinality(F) \in Nat
        BY <2>5, <2>6, FS_Surjection, FS_CardinalityType
  <2> QED BY <1>1, <2>2, <2>4, <2>5, <2>7 DEF RecordsConstants
<1> QED BY <1>3, <1>4

\* The feed holds the last events that are shown.
LEMMA FeedCloses ==
  ASSUME RecordsConstants, NEW h \in Seq(Event), NEW s \in Seq(Event), NEW d, Ends(h, s, d), NEW include,
         NEW i \in FeedAt(h, include)
  PROVE  /\ i + d \in DOMAIN s /\ s[i + d] = h[i] /\ h[i].type \in include
         /\ \A j \in ShownFrom(s, i + d, include) : \E k \in FeedAt(h, include) : s[j] = h[k]
<1>1. Len(h) \in Nat /\ Len(s) \in Nat /\ d \in Nat /\ DOMAIN h = 1..Len(h) /\ DOMAIN s = 1..Len(s)
      BY DEF Ends
<1>2. /\ i \in 1..Len(h) /\ i + Pool > Len(h) /\ h[i].type \in include
      /\ Cardinality(ShownFrom(h, i, include)) <= FeedLines
      BY <1>1 DEF FeedAt
<1>3. i + d \in 1..Len(s) /\ s[i + d] = h[i]
      BY <1>1, <1>2 DEF Ends
<1>4. ASSUME NEW j \in ShownFrom(s, i + d, include) PROVE \E k \in FeedAt(h, include) : s[j] = h[k]
  <2>1. j \in (i + d)..Len(s) /\ s[j].type \in include
        BY DEF ShownFrom
  <2>2. PICK k : k = j - d
        OBVIOUS
  <2>3. k \in 1..Len(h) /\ i <= k /\ j = k + d
        BY <1>1, <1>2, <2>1, <2>2 DEF Ends
  <2>4. h[k] = s[j]
        BY <2>3 DEF Ends
  <2>5. ShownFrom(h, k, include) \in SUBSET ShownFrom(h, i, include)
        BY <1>1, <1>2, <2>3 DEF ShownFrom
  <2>6. /\ IsFiniteSet(ShownFrom(h, i, include)) /\ Cardinality(ShownFrom(h, i, include)) \in Nat
        /\ Cardinality(ShownFrom(h, k, include)) \in Nat
        BY <1>2, <2>3, ShownFinite
  <2>7. Cardinality(ShownFrom(h, k, include)) <= Cardinality(ShownFrom(h, i, include))
        BY <2>5, <2>6, FS_Subset
  <2>8. Cardinality(ShownFrom(h, k, include)) <= FeedLines /\ k + Pool > Len(h)
        BY <1>1, <1>2, <2>3, <2>6, <2>7 DEF RecordsConstants
  <2> QED BY <1>1, <2>1, <2>3, <2>4, <2>8 DEF FeedAt
<1> QED BY <1>1, <1>2, <1>3, <1>4

\* If all of the pool is shown, what is not in the feed has enough behind it.
LEMMA FeedIsFull ==
  ASSUME RecordsConstants, NEW h \in Seq(Event), NEW s \in Seq(Event), NEW d, Ends(h, s, d), NEW include,
         \A j \in DOMAIN h : j + Pool > Len(h) => h[j].type \in include,
         NEW i \in DOMAIN s, s[i].type \in include, \A k \in FeedAt(h, include) : s[i] # h[k]
  PROVE  Cardinality(ShownFrom(s, i, include)) > R!Enough
<1>1. Len(h) \in Nat /\ Len(s) \in Nat /\ d \in Nat /\ DOMAIN h = 1..Len(h) /\ i \in 1..Len(s) /\ Len(s) = Len(h) + d
      BY DEF Ends
<1>2. PICK S : S = ShownFrom(s, i, include) /\ IsFiniteSet(S) /\ Cardinality(S) \in Nat
      BY <1>1, ShownFinite
<1>5. PICK some \in Nat : some = R!Enough /\ some > 0 /\ some <= FeedLines /\ some <= MaxHistory
      BY DEF R!Enough, RecordsConstants
<1>3. CASE i > d /\ (i - d) + Pool > Len(h)
  <2>1. PICK k : k = i - d
        OBVIOUS
  <2>2. k \in 1..Len(h) /\ i = k + d /\ k + Pool > Len(h)
        BY <1>1, <1>3, <2>1
  <2>3. h[k] = s[i]
        BY <2>2 DEF Ends
  <2>4. ~(Cardinality(ShownFrom(h, k, include)) <= FeedLines)
        BY <1>1, <2>2, <2>3 DEF FeedAt
  <2>5. Cardinality(ShownFrom(h, k, include)) \in Nat
        BY <2>2, ShownFinite
  <2>6. Cardinality(ShownFrom(h, k, include)) <= Cardinality(S)
        BY <1>2, <2>2, ShownMoves
  <2> QED BY <1>2, <1>5, <2>4, <2>5, <2>6 DEF RecordsConstants
<1>4. CASE ~(i > d /\ (i - d) + Pool > Len(h))
  <2>1. PICK a \in Nat : /\ a \in 1..(Len(h) + 1) /\ i < a + d /\ Len(h) - a + 1 >= some
                         /\ \A j \in a..Len(h) : j + Pool > Len(h)
    <3>1. CASE Len(h) <= Pool
      <4>1. i \in Nat /\ i >= 1 /\ i <= d /\ d > 0
            BY <1>1, <1>4, <3>1 DEF RecordsConstants
      <4>2. Len(h) = MaxHistory
            BY <4>1 DEF Ends
      <4>3. PICK a : a = 1
            OBVIOUS
      <4>4. a \in Nat /\ a \in 1..(Len(h) + 1) /\ i < a + d /\ Len(h) - a + 1 >= some
            BY <1>1, <1>5, <4>1, <4>2, <4>3 DEF RecordsConstants
      <4>5. \A j \in a..Len(h) : j + Pool > Len(h)
            BY <1>1, <3>1, <4>3 DEF RecordsConstants
      <4> QED BY <4>4, <4>5
    <3>2. CASE ~(Len(h) <= Pool)
      <4>1. PICK a : a = Len(h) - Pool + 1
            OBVIOUS
      <4>2. a \in Nat /\ a \in 1..(Len(h) + 1) /\ Len(h) - a + 1 >= some
            BY <1>1, <1>5, <3>2, <4>1 DEF RecordsConstants
      <4>3. i < a + d
            BY <1>1, <1>4, <3>2, <4>1 DEF RecordsConstants
      <4>4. \A j \in a..Len(h) : j + Pool > Len(h)
            BY <1>1, <3>2, <4>1 DEF RecordsConstants
      <4> QED BY <4>2, <4>3, <4>4
    <3> QED BY <3>1, <3>2
  <2>2. PICK b, n : b = a + d /\ n = Len(s) /\ b \in Nat /\ n \in Nat /\ n - b + 1 >= some /\ i < b /\ b <= n + 1
        BY <1>1, <2>1
  <2>3. b..n \in SUBSET S
    <3>1. ASSUME NEW j \in b..n PROVE j \in S
      <4>1. PICK k : k = j - d
            OBVIOUS
      <4>2. k \in a..Len(h) /\ k \in 1..Len(h) /\ j = k + d
            BY <1>1, <2>1, <2>2, <4>1
      <4>3. h[k] = s[j] /\ h[k].type \in include
            BY <1>1, <2>1, <4>2 DEF Ends
      <4> QED BY <1>1, <1>2, <2>2, <4>3 DEF ShownFrom
    <3> QED BY <3>1
  <2>4. i \in S /\ i \notin b..n
        BY <1>1, <1>2, <2>2 DEF ShownFrom
  <2>5. IsFiniteSet(b..n) /\ Cardinality(b..n) = n - b + 1
    <3>1. ~(b > n) /\ b \in Int /\ n \in Int
          BY <1>5, <2>2
    <3> QED BY <3>1, FS_Interval
  <2>9. Cardinality((b..n) \cup {i}) = Cardinality(b..n) + 1
        BY <2>4, <2>5, FS_AddElement
  <2>6. Cardinality((b..n) \cup {i}) = n - b + 2
        BY <2>2, <2>5, <2>9
  <2>7. (b..n) \cup {i} \in SUBSET S
        BY <2>3, <2>4
  <2>8. Cardinality((b..n) \cup {i}) <= Cardinality(S)
        BY <1>2, <2>7, FS_Subset
  <2> QED BY <1>2, <1>5, <2>2, <2>6, <2>8
<1> QED BY <1>3, <1>4

\* A page and the one before its last row.
LEMMA PagesDo == ASSUME RowsOK, LogOK PROVE R!PagesMeet
<1>1. \A e \in rows : e.at \in Nat
      BY DEF RowsOK, Event
<1>2. R!Cardinality({}) = 0
      BY SameCount, FS_EmptySet
<1>3. SUFFICES ASSUME NEW one \in R!Pages(2, total + 2), NEW l \in one, \A e \in one : e.at >= l.at, NEW two \in R!Pages(2, l.at)
               PROVE  /\ one \cap two = {}
                      /\ \A e \in rows \ (one \cup two) : (\A f \in two : e.at > f.at) => e.at = l.at
      BY DEF R!PagesMeet
<1>4. \A e \in rows : e.at < total + 2
      BY <1>1 DEF RowsOK, LogOK
<1>5. one \subseteq rows /\ \A e \in one, f \in rows \ one : e.at >= f.at
      BY <1>4 DEF R!Pages
<1>6. PICK older : older = {e \in rows : e.at < l.at}
      OBVIOUS
<1>7. /\ two \subseteq older /\ \A e \in two, f \in older \ two : e.at >= f.at
      /\ R!Cardinality(two) = 2 \/ two = older
      BY <1>6 DEF R!Pages
<1>8. one \cap two = {}
      BY <1>1, <1>3, <1>5, <1>6, <1>7
<1>9. ASSUME NEW e \in rows \ (one \cup two), \A f \in two : e.at > f.at PROVE e.at = l.at
  <2>1. l \in rows /\ e.at \in Nat /\ l.at \in Nat /\ l.at >= e.at
        BY <1>1, <1>5, <1>9
  <2>2. CASE e.at < l.at
    <3>1. e \in older \ two
          BY <1>6, <1>9, <2>2
    <3>2. two = {}
          BY <1>1, <1>6, <1>7, <1>9, <3>1
    <3> QED BY <1>2, <1>7, <3>1, <3>2
  <2> QED BY <2>1, <2>2
<1> QED BY <1>8, <1>9

LEMMA FeedDoes == ASSUME RecordsConstants, LogOK PROVE R!FeedIsTail
<1>1. PICK h \in Seq(Event), s \in Seq(Event), d \in Nat : h = history /\ s = log /\ Ends(h, s, d)
  <2>1. history \in Seq(Event) /\ log \in Seq(Event) /\ \E d \in Nat : Ends(history, log, d)
        BY HistoryEnds DEF LogOK
  <2> QED BY <2>1
<1>2. PICK include : include = switches.include
      OBVIOUS
<1>3. PICK F : F = R!Feed /\ F = {h[i] : i \in FeedAt(h, include)}
      BY <1>1, <1>2, FeedIs
<1>4. \A i \in DOMAIN s : i \in Nat /\ R!Shown(s, i) = ShownFrom(s, i, include)
      BY <1>2 DEF R!Shown, R!InFeed, ShownFrom
<1>5. R!Cardinality(F) <= FeedLines
      BY <1>3, FeedFits, SameCount
<1>6. ASSUME NEW e \in F
      PROVE  \E i \in DOMAIN s : s[i] = e /\ R!InFeed(e) /\ \A j \in R!Shown(s, i) : s[j] \in F
  <2>1. PICK i \in FeedAt(h, include) : e = h[i]
        BY <1>3
  <2>2. /\ i + d \in DOMAIN s /\ s[i + d] = h[i] /\ h[i].type \in include
        /\ \A j \in ShownFrom(s, i + d, include) : \E k \in FeedAt(h, include) : s[j] = h[k]
        BY <1>1, FeedCloses
  <2>3. PICK a : a = i + d
        OBVIOUS
  <2>4. a \in DOMAIN s /\ s[a] = e /\ R!InFeed(e) /\ \A j \in R!Shown(s, a) : s[j] \in F
        BY <1>2, <1>3, <1>4, <2>1, <2>2, <2>3 DEF R!InFeed
  <2> QED BY <2>4
<1>7. ASSUME \A i \in DOMAIN h : i + Pool > Len(h) => R!InPool(i), NEW i \in DOMAIN s, R!InFeed(s[i]), s[i] \notin F
      PROVE  R!Cardinality(R!Shown(s, i)) > R!Enough
  <2>1. \A j \in DOMAIN h : j + Pool > Len(h) => h[j].type \in include
        BY <1>1, <1>2, <1>7 DEF R!InPool, R!InFeed
  <2>2. s[i].type \in include /\ \A k \in FeedAt(h, include) : s[i] # h[k]
        BY <1>2, <1>3, <1>7 DEF R!InFeed
  <2>3. Cardinality(ShownFrom(s, i, include)) > R!Enough
        BY <1>1, <2>1, <2>2, FeedIsFull
  <2> QED BY <1>4, <2>3, SameCount
<1> QED BY <1>1, <1>3, <1>5, <1>6, <1>7 DEF R!FeedIsTail

LEMMA ViewersDo == ASSUME LogOK, ViewersOK PROVE R!ViewersAreLatest
<1>1. R!Since = SinceEnd(log) /\ R!There = In(viewers)
      BY DEF R!Since, R!There, SinceEnd, Live, In
<1>2. \A u, v : Later(log, u, v) => R!SeenAfter(u, v)
      BY <1>1 DEF Later, R!SeenAfter
<1>3. SUFFICES ASSUME ~late
               PROVE  /\ In(viewers) \subseteq SeenIn(log)
                      /\ \A u \in In(viewers), v \in SeenIn(log) \ In(viewers) : R!SeenAfter(u, v)
                      /\ In(viewers) # SeenIn(log) => R!Cardinality(In(viewers)) = MaxViewers
      BY <1>1 DEF R!ViewersAreLatest, SeenIn
<1>4. Follows(log, viewers)
      BY <1>3 DEF ViewersOK
<1>5. In(viewers) \subseteq SeenIn(log)
      BY <1>4 DEF Follows, SeenIn, LastAt
<1> QED BY <1>2, <1>4, <1>5, SameCount DEF Follows

-----------------------------------------------------------------------------
(* The theorems about the records.                                         *)

LEMMA RecordsInitHolds == ASSUME R!RecordsAssumption, R!Init PROVE RecordsInv
<1>1. RecordsConstants
      BY RecordsConstantsHold
<1>2. PICK s : s = <<>>
      OBVIOUS
<1>3. s \in Seq(Event) /\ Len(s) = 0 /\ DOMAIN s = {} /\ Live(s) = {} /\ Cardinality(Live(s)) = 0
  <2>1. <<>> \in Seq(Event)
        OBVIOUS
  <2>2. Len(s) = 0 /\ DOMAIN s = {}
        BY <1>2
  <2>3. Live(s) = {}
        BY <2>2 DEF Live
  <2> QED BY <1>2, <2>1, <2>2, <2>3, FS_EmptySet
<1>4. R!Latest(s, MaxHistory) = s
      BY <1>1, <1>3 DEF R!Latest, RecordsConstants
<1>5. log = s /\ history = s /\ dispatched = 0 /\ total = 0
      BY <1>2 DEF R!Init
<1>6. LogOK
      BY <1>3, <1>4, <1>5 DEF LogOK
<1>7. RowsOK
      BY <1>3, <1>5 DEF RowsOK, R!Init
<1>8. MovedOK
  <2>1. up = "down" /\ json = OldRecords /\ twice = FALSE /\ play \in [OldRecords -> Nat] /\ \A r \in OldRecords : play[r] = 0
        BY DEF R!Init
  <2>2. \A r \in OldRecords : OnceOnly(r)
        BY <2>1 DEF OnceOnly
  <2> QED BY <2>1, <2>2 DEF MovedOK
<1>9. ViewersOK
      BY <1>1, NothingYet DEF ViewersOK, R!Init
<1> QED BY <1>6, <1>7, <1>8, <1>9 DEF RecordsInv

\* The inductive invariant of the records, in the behaviours that are theirs.
THEOREM RecordsInvariance == TablesSpec => [](part = "records" => RecordsInv)
<1>1. TablesInit => (part = "records" => RecordsInv)
      BY TablesAssumption, RecordsInitHolds DEF TablesInit
<1>2. (part = "records" => RecordsInv) /\ [TablesNext]_<<part, vars, login, records>> => (part = "records" => RecordsInv)'
  <2> SUFFICES ASSUME part = "records" => RecordsInv, [TablesNext]_<<part, vars, login, records>>, part' = "records"
               PROVE  RecordsInv'
      OBVIOUS
  <2>1. CASE R!Next /\ part = "records"
        BY <2>1, TablesAssumption, RecordsNextHolds
  <2>2. CASE UNCHANGED records /\ part = "records"
    <3>1. LogOK' /\ ViewersOK'
          BY <2>2, LogStays DEF records, RecordsInv
    <3>2. MovedOK'
          BY <2>2, MovedStays DEF records, RecordsInv
    <3>3. RowsOK'
          BY <2>2, SweptRows DEF records, RecordsInv
    <3> QED BY <3>1, <3>2, <3>3 DEF RecordsInv
  <2> QED BY <2>1, <2>2 DEF TablesNext
<1> QED BY <1>1, <1>2, PTL DEF TablesSpec

\* Whatever the database refuses, and wherever the service crashes: the history
\* and the feed are the end of what was accepted (history.ts, context.ts), each
\* live event is dispatched and in a row (onEvent()), the viewers are those seen
\* last (viewers.ts), pages of rows meet (database.ts), and the old records are
\* moved once unless a start was cut off (migratePlayHistoryJson()).
THEOREM RecordsCorrect == TablesSpec => []Remembered
<1>1. (part = "records" => RecordsInv) => Remembered
  <2> SUFFICES ASSUME RecordsInv PROVE R!Remembered
      BY DEF Remembered
  <2>1. RecordsConstants /\ LogOK /\ RowsOK /\ MovedOK /\ ViewersOK
        BY TablesAssumption, RecordsConstantsHold DEF RecordsInv
  <2>2. R!Cardinality({u \in Users : viewers[u] # R!Absent}) <= MaxViewers
        BY <2>1, SameCount DEF ViewersOK, TableOK, In
  <2>3. R!TypeOK
        BY <2>1, <2>2, HistoryEnds DEF R!TypeOK, MovedOK
  <2>4. R!Recorded
        BY <2>1, SameCount DEF R!Recorded, LogOK, RowsOK, Live
  <2>5. R!Migrated
        BY <2>1 DEF R!Migrated, MovedOK, OnceOnly
  <2> QED BY <2>1, <2>3, <2>4, <2>5, PagesDo, FeedDoes, ViewersDo DEF R!Remembered
<1> QED BY <1>1, RecordsInvariance, PTL

=============================================================================
