----------------------------- MODULE RoomProofs -----------------------------
(***************************************************************************)
(* Theorems about what comes from the live room, for every value of the    *)
(* constants: of Link, for every number of sockets, events, commands and   *)
(* faults, that the plugin has one connection and that the link implements *)
(* Channel; of Commands, for every table of commands and every danmaku,    *)
(* that the danmaku goes to the command it belongs to; and of Rules, for   *)
(* all words and numbers, that a rule takes what its page says it takes.   *)
(***************************************************************************)
EXTENDS MCRoom, SequenceTheorems, FiniteSetTheorems, WellFoundedInduction, TLAPS

-----------------------------------------------------------------------------
(* Link: the inductive invariant.                                                *)

Events == 1..MaxEvents
Loads  == 0..MaxEvents
Links  == [st : States, out : Seq(Loads)]

\* The states in which a socket may still be the client's.
Active == {"dialing", "open", "dead"}

Flags ==
  /\ connected \in BOOLEAN /\ manual \in BOOLEAN /\ timer \in BOOLEAN
  /\ up \in BOOLEAN /\ ending \in BOOLEAN

Typed ==
  /\ made \in Nat /\ made <= MaxEvents
  /\ kept \in Seq(Events) /\ Len(kept) <= MaxKept
  /\ ws \in Socks \cup {NoSock}
  /\ socks \in [Socks -> Links]
  /\ got \in Seq(Events)
  /\ cmd \in {"boot", "none", "stop", "restart", "start"}
  /\ cuts \in 0..MaxCuts /\ faults \in 0..MaxFaults

\* ws is the one socket that is dialed or connected, and every such socket
\* is ws; a socket that is not connected carries nothing.
OneActive ==
  /\ \A s \in Socks : socks[s].st \in Active => ws = s
  /\ ws # NoSock => socks[ws].st \in Active
  /\ connected => ws # NoSock /\ socks[ws].st # "dialing" /\ kept = <<>>
  /\ \A s \in Socks : socks[s].st \in {"none", "dialing", "dead"} => socks[s].out = <<>>

In(q, e)  == \E i \in DOMAIN q : q[i] = e
Rising(q) == \A i, j \in DOMAIN q : i < j /\ q[i] # Shutdown /\ q[j] # Shutdown => q[i] < q[j]

\* What is kept or on its way was made, is in one place and there once.
EventsOnce ==
  /\ Rising(kept) /\ \A s \in Socks : Rising(socks[s].out)
  /\ \A e \in Events :
       /\ In(kept, e) => e <= made /\ \A s \in Socks : ~In(socks[s].out, e)
       /\ \A s \in Socks : In(socks[s].out, e) =>
            e <= made /\ \A t \in Socks : t # s => ~In(socks[t].out, e)

\* Before any command no connection but ws carries anything, and that only
\* while the client knows it; before any fault too none is dead.
NotCut ==
  cuts = 0 =>
    /\ cmd \notin {"stop", "restart"} /\ ~ending
    /\ ws # NoSock => socks[ws].st = "dialing" \/ connected
    /\ \A s \in Socks : /\ socks[s].st \notin {"closing", "left"}
                        /\ socks[s].st = "dead" => faults > 0
                        /\ ~In(socks[s].out, Shutdown)

IInv == Flags /\ Typed /\ OneActive /\ EventsOnce /\ NotCut

\* A step that takes no event up and hands none over loses one only after a
\* fault or a command.
Carried(e) == In(kept, e) \/ \E s \in Socks : In(socks[s].out, e)
Loses ==
  /\ UNCHANGED <<made, got>> /\ faults' >= faults /\ cuts' >= cuts
  /\ \A e \in Events : Carried(e)' => Carried(e)
  /\ faults' + cuts' = 0 => \A e \in Events : Carried(e) => Carried(e)'

\* An event of the room is put behind the others, or lost: because the queue
\* is full, or after a fault or a command.
Puts ==
  \/ \A x \in Events : Carried(x)' <=> Carried(x) \/ x = made + 1
  \/ /\ \A x \in Events : Carried(x)' <=> Carried(x)
     /\ Len(kept) = MaxKept \/ faults > 0 \/ cuts > 0

\* The backend reads an event, the oldest one if no command has come between.
Gets(e) ==
  /\ got' = Append(got, e) /\ Carried(e)
  /\ \A x \in Events : Carried(x)' <=> Carried(x) /\ x # e
  /\ cuts = 0 => \A x \in Events : Carried(x) => e <= x

-----------------------------------------------------------------------------
(* What is put at the end of a queue, and what remains of one.             *)

LEMMA SumOfNats ==
  ASSUME NEW m \in Nat, NEW n \in Nat
  PROVE  /\ m + n = 0 => m = 0 /\ n = 0
         /\ m + n > 0 \/ m + n = 0
         /\ m > 0 \/ n > 0 => m + n # 0
OBVIOUS

LEMMA EmptyQueue ==
  /\ \A e : ~In(<<>>, e)
  /\ Rising(<<>>)
  /\ \A S : <<>> \in Seq(S)
BY DEF In, Rising

LEMMA AppendQueue ==
  ASSUME NEW S, NEW q \in Seq(S), NEW x \in S
  PROVE  /\ Append(q, x) \in Seq(S) /\ Len(Append(q, x)) = Len(q) + 1
         /\ \A e : In(Append(q, x), e) <=> In(q, e) \/ e = x
<1>1. Append(q, x) \in Seq(S) /\ Len(Append(q, x)) = Len(q) + 1
  OBVIOUS
<1>2. Append(q, x)[Len(q) + 1] = x /\ \A i \in DOMAIN q : Append(q, x)[i] = q[i]
  OBVIOUS
<1>3. DOMAIN Append(q, x) = DOMAIN q \cup {Len(q) + 1}
  OBVIOUS
<1> QED BY <1>1, <1>2, <1>3 DEF In

LEMMA TailOfOne ==
  ASSUME NEW S, NEW q \in Seq(S), Len(q) = 1
  PROVE  Tail(q) = <<>>
<1>1. Tail(q) \in Seq(S) /\ Len(Tail(q)) = 0
  OBVIOUS
<1> QED BY <1>1, EmptySeq

LEMMA AppendRising ==
  ASSUME NEW q \in Seq(Loads), NEW x \in Loads, Rising(q),
         x = Shutdown \/ \A e \in Events : In(q, e) => e < x
  PROVE  Rising(Append(q, x))
<1>1. \A i \in DOMAIN q : q[i] \in Loads /\ In(q, q[i])
  BY DEF In
<1> QED BY <1>1, LinkAssumption DEF Rising, Shutdown, Events, Loads

LEMMA TailQueue ==
  ASSUME NEW q \in Seq(Loads), q # <<>>, Rising(q)
  PROVE  /\ Tail(q) \in Seq(Loads) /\ Head(q) \in Loads /\ In(q, Head(q))
         /\ Rising(Tail(q))
         /\ \A e : In(Tail(q), e) => In(q, e)
         /\ \A e \in Events : In(q, e) => In(Tail(q), e) \/ e = Head(q)
         /\ Head(q) # Shutdown => ~In(Tail(q), Head(q))
         /\ \A e \in Events : Head(q) # Shutdown /\ In(q, e) => Head(q) <= e
<1>1. Tail(q) \in Seq(Loads) /\ Head(q) \in Loads /\ In(q, Head(q))
  BY DEF In
<1>2. \A i \in DOMAIN Tail(q) : i \in Nat /\ i + 1 \in DOMAIN q /\ Tail(q)[i] = q[i + 1]
  OBVIOUS
<1>3. \A i \in DOMAIN q : i # 1 => i - 1 \in DOMAIN Tail(q) /\ Tail(q)[i - 1] = q[i]
  <2>1. \A i \in 1..Len(q) : i # 1 => i - 1 \in 1..(Len(q) - 1)
    OBVIOUS
  <2>2. DOMAIN Tail(q) = 1..(Len(q) - 1) /\ DOMAIN q = 1..Len(q)
    OBVIOUS
  <2>3. \A i \in 1..(Len(q) - 1) : Tail(q)[i] = q[i + 1]
    OBVIOUS
  <2>4. \A i \in 1..Len(q) : (i - 1) + 1 = i
    OBVIOUS
  <2> QED BY <2>1, <2>2, <2>3, <2>4
<1>4. Rising(Tail(q))
  BY <1>2 DEF Rising
<1>5. \A e : In(Tail(q), e) => In(q, e)
  BY <1>2 DEF In
<1>6. \A e \in Events : In(q, e) => In(Tail(q), e) \/ e = Head(q)
  BY <1>3, Head(q) = q[1] DEF In
<1>7. \A i \in DOMAIN Tail(q) : Head(q) # Shutdown /\ Tail(q)[i] # Shutdown => Head(q) < Tail(q)[i]
  BY <1>2 DEF Rising
<1>8. Head(q) # Shutdown => ~In(Tail(q), Head(q))
  BY <1>1, <1>7, LinkAssumption DEF In, Loads, Shutdown
<1>9. \A e \in Events : Head(q) # Shutdown /\ In(q, e) => Head(q) <= e
  <2>1. Shutdown \notin Events /\ Events \subseteq Nat /\ Head(q) \in Nat
    BY <1>1, LinkAssumption DEF Events, Shutdown, Loads
  <2>2. \A e \in Events : Head(q) # Shutdown /\ In(Tail(q), e) => Head(q) < e
    BY <1>7, <2>1 DEF In
  <2> QED BY <2>1, <2>2, <1>6
<1> QED BY <1>1, <1>4, <1>5, <1>6, <1>8, <1>9

LEMMA GoneIsLink == Gone \in Links /\ Gone.st = "none" /\ Gone.out = <<>>
BY LinkAssumption DEF Gone, Links, States

LEMMA EventNumbers == Events \subseteq Loads /\ Loads \subseteq Nat /\ Shutdown \in Loads /\ Shutdown \notin Events
BY LinkAssumption DEF Events, Loads, Shutdown

-----------------------------------------------------------------------------
(* Each step keeps the invariant.                                          *)

LEMMA InitHolds == Init => IInv
<1> SUFFICES ASSUME Init PROVE IInv
  OBVIOUS
<1>1. Flags
  BY DEF Init, Flags
<1>2. Typed
  BY LinkAssumption, GoneIsLink DEF Init, Typed
<1>3. OneActive
  BY GoneIsLink DEF Init, OneActive, Active
<1>4. EventsOnce
  BY GoneIsLink, EmptyQueue DEF Init, EventsOnce
<1>5. NotCut
  BY GoneIsLink, EmptyQueue DEF Init, NotCut
<1> QED BY <1>1, <1>2, <1>3, <1>4, <1>5 DEF IInv

\* Nothing is put anywhere: what is on its way stays or is lost.
LEMMA DropsKeep ==
  ASSUME EventsOnce, UNCHANGED <<made, kept>>,
         \A s \in Socks : socks'[s].out = socks[s].out \/ socks'[s].out = <<>>,
         faults' + cuts' = 0 => \A s \in Socks : socks'[s].out = socks[s].out,
         UNCHANGED got, faults' >= faults, cuts' >= cuts
  PROVE  EventsOnce' /\ Loses
BY EmptyQueue DEF EventsOnce, Loses, Carried

LEMMA OpensKeeps ==
  ASSUME IInv, NEW s \in Socks, Opens(s)
  PROVE  IInv' /\ Loses
<1> USE DEF Opens, backend, command
<1>1. Flags'
  BY DEF IInv, Flags
<1>o. [st |-> "open", out |-> kept] \in Links
  BY EventNumbers, LinkAssumption DEF IInv, Typed, Links, States, Events, Loads
<1>2. Typed'
  BY <1>o, EmptyQueue, LinkAssumption DEF IInv, Typed
<1>3. OneActive'
  <2>1. ws = s /\ s # NoSock
    BY LinkAssumption DEF IInv, OneActive, Active
  <2>2. /\ socks'[s].st = "open" /\ kept' = <<>>
        /\ \A k \in Socks : k # s => socks'[k] = socks[k]
    BY DEF IInv, Typed
  <2> QED BY <2>1, <2>2 DEF IInv, OneActive, Active
<1>4. EventsOnce'
  BY EmptyQueue DEF IInv, Typed, OneActive, EventsOnce
<1>5. NotCut'
  <2>1. ~In(kept, Shutdown)
    BY EventNumbers DEF IInv, Typed, In
  <2> QED BY <2>1 DEF IInv, Typed, OneActive, NotCut, Active
<1>6. Loses
  <2>1. socks[s].out = <<>> /\ socks'[s].out = kept /\ kept' = <<>>
        /\ \A k \in Socks : k # s => socks'[k] = socks[k]
    BY DEF IInv, Typed, OneActive
  <2>2. \A e : Carried(e)' <=> Carried(e)
    BY <2>1, EmptyQueue DEF Carried
  <2> QED BY <2>2, LinkAssumption DEF Loses, IInv, Typed
<1> QED BY <1>1, <1>2, <1>3, <1>4, <1>5, <1>6 DEF IInv

LEMMA EventKeeps ==
  ASSUME IInv, Event
  PROVE  IInv' /\ Puts
<1> DEFINE e == made + 1
<1>0. e \in Events /\ e \in Loads /\ made' = e /\ e > made /\ e \in Nat /\ e # Shutdown
      /\ made \in Nat /\ e <= MaxEvents
  BY LinkAssumption DEF IInv, Typed, Shutdown, Event, Events, Loads
<1>f. /\ \A x \in Events : In(kept, x) => x # e
      /\ \A s \in Socks, x \in Events : In(socks[s].out, x) => x # e
  BY <1>0 DEF IInv, EventsOnce
<1>l. \A x \in Events : x <= made => x <= e
  BY <1>0, EventNumbers
<1>1. CASE ~connected
  <2> DEFINE q == Append(kept, e)
  <2>a. UNCHANGED <<socks, ws, connected, manual, timer, up, ending, got, cmd, cuts, faults>>
    BY <1>1 DEF Event, backend, command
  <2>b. (kept' = q /\ Len(kept) < MaxKept) \/ kept' = kept
    BY <1>1 DEF Keep, Event
  <2> HIDE DEF e
  <2>q. q \in Seq(Events) /\ Len(q) = Len(kept) + 1 /\ \A x : In(q, x) <=> In(kept, x) \/ x = e
    BY <1>0, AppendQueue DEF IInv, Typed
  <2>r. Rising(q)
    <3>1. kept \in Seq(Loads)
      BY LinkAssumption DEF IInv, Typed, Events, Loads
    <3>2. Rising(kept) /\ \A x \in Events : In(kept, x) => x < e
      BY EventNumbers, <1>0 DEF IInv, EventsOnce
    <3> QED BY <1>0, <3>1, <3>2, AppendRising
  <2> HIDE DEF q
  <2>1. Flags'
    BY <2>a DEF IInv, Flags
  <2>2. Typed'
    BY <2>a, <2>b, <2>q, <1>0, LinkAssumption DEF IInv, Typed
  <2>3. OneActive'
    BY <2>a, <1>1 DEF IInv, OneActive
  <2>4. EventsOnce'
    BY <2>a, <2>b, <2>q, <2>r, <1>0, <1>f, <1>l DEF IInv, EventsOnce
  <2>5. NotCut'
    BY <2>a, <1>1 DEF IInv, NotCut
  <2>6. Puts
    <3>1. Len(kept) < MaxKept => kept' = q
      BY <1>1 DEF Event, Keep, q, e
    <3>2. ~(Len(kept) < MaxKept) => kept' = kept /\ Len(kept) = MaxKept
      BY <1>1, LinkAssumption DEF Event, Keep, IInv, Typed
    <3>3. CASE Len(kept) < MaxKept
      BY <2>a, <2>q, <3>1, <3>3 DEF Puts, Carried, e
    <3>4. CASE ~(Len(kept) < MaxKept)
      BY <2>a, <3>2, <3>4 DEF Puts, Carried
    <3> QED BY <3>3, <3>4
  <2> QED BY <2>1, <2>2, <2>3, <2>4, <2>5, <2>6 DEF IInv
<1>2. CASE connected /\ socks[ws].st = "open"
  <2> DEFINE q == Append(socks[ws].out, e)
  <2>w. ws \in Socks /\ socks[ws].out \in Seq(Loads) /\ socks[ws] \in Links
    BY <1>2 DEF IInv, OneActive, Typed, Links
  <2>a. /\ UNCHANGED <<kept, ws, connected, manual, timer, up, ending, got, cmd, cuts, faults>>
        /\ socks' = [socks EXCEPT ![ws].out = q]
    BY <1>2, <2>w, LinkAssumption DEF Event, backend, command
  <2> HIDE DEF e
  <2>q. q \in Seq(Loads) /\ \A x : In(q, x) <=> In(socks[ws].out, x) \/ x = e
    BY <1>0, <2>w, AppendQueue
  <2>r. Rising(q)
    <3>1. Rising(socks[ws].out) /\ \A x \in Events : In(socks[ws].out, x) => x < e
      BY EventNumbers, <1>0, <2>w, LinkAssumption DEF IInv, EventsOnce
    <3> QED BY <1>0, <3>1, <2>w, AppendRising
  <2> HIDE DEF q
  <2>s. /\ socks' \in [Socks -> Links] /\ socks'[ws].out = q
        /\ \A s \in Socks : socks'[s].st = socks[s].st /\ (s # ws => socks'[s] = socks[s])
    BY <2>a, <2>q, <2>w DEF IInv, Typed, Links
  <2>1. Flags'
    BY <2>a DEF IInv, Flags
  <2>2. Typed'
    BY <2>a, <2>s, <1>0, LinkAssumption DEF IInv, Typed
  <2>3. OneActive'
    BY <2>a, <2>s, <1>2 DEF IInv, OneActive
  <2>4. EventsOnce'
    BY <2>a, <2>s, <2>w, <2>q, <2>r, <1>0, <1>f, <1>l DEF IInv, EventsOnce
  <2>5. NotCut'
    BY <2>a, <2>s, <2>q, <1>0 DEF IInv, NotCut
  <2>6. Puts
    BY <2>a, <2>s, <2>q, <2>w DEF Puts, Carried, e
  <2> QED BY <2>1, <2>2, <2>3, <2>4, <2>5, <2>6 DEF IInv
<1>3. CASE connected /\ socks[ws].st # "open"
  <2>a. UNCHANGED <<kept, socks, ws, connected, manual, timer, up, ending, got, cmd, cuts, faults>>
    BY <1>3 DEF Event, backend, command
  <2> HIDE DEF e
  <2>1. Flags' /\ OneActive' /\ NotCut'
    BY <2>a DEF IInv, Flags, OneActive, NotCut
  <2>2. Typed'
    BY <2>a, <1>0, LinkAssumption DEF IInv, Typed
  <2>3. EventsOnce'
    BY <2>a, <1>0, <1>l DEF IInv, EventsOnce
  <2>4. Puts
    <3>1. ws \in Socks /\ socks[ws].st = "dead"
      BY <1>3 DEF IInv, OneActive, Active, Typed
    <3>2. faults > 0 \/ cuts > 0
      BY <3>1, LinkAssumption DEF IInv, NotCut, Typed
    <3> QED BY <2>a, <3>2 DEF Puts, Carried
  <2> QED BY <2>1, <2>2, <2>3, <2>4 DEF IInv
<1> QED BY <1>1, <1>2, <1>3

LEMMA DialKeeps ==
  ASSUME IInv, NEW t \in BOOLEAN, Dial(t),
         UNCHANGED <<made, kept, connected, up, ending, got, cuts, faults>>,
         cmd' = cmd \/ cmd' = "none"
  PROVE  IInv' /\ Loses
<1>1. CASE connected \/ Dialing
  <2>1. UNCHANGED <<ws, manual, socks>> /\ timer' = t
    BY <1>1 DEF Dial
  <2>2. Flags' /\ OneActive' /\ EventsOnce' /\ NotCut'
    BY <2>1 DEF IInv, Flags, OneActive, EventsOnce, NotCut
  <2>3. Typed'
    BY <2>1 DEF IInv, Typed
  <2>4. Loses
    BY <2>1, LinkAssumption DEF IInv, Typed, Loses, Carried
  <2> QED BY <2>2, <2>3, <2>4 DEF IInv
<1>2. CASE ~(connected \/ Dialing)
  <2>1. PICK s \in Socks :
          /\ socks[s].st \in {"none", "left"} \/ s = ws
          /\ ws' = s
          /\ socks' = [k \in Socks |->
               CASE k = s -> [st |-> "dialing", out |-> <<>>]
                 [] k = ws /\ k # s -> [socks[k] EXCEPT !.st = "left"]
                 [] OTHER -> socks[k]]
    BY <1>2 DEF Dial
  <2>2. manual' = FALSE /\ timer' = (t \/ ws # NoSock)
    BY <1>2 DEF Dial
  <2>3. [st |-> "dialing", out |-> <<>>] \in Links
    BY EmptyQueue DEF Links, States
  <2>4. \A k \in Socks : [socks[k] EXCEPT !.st = "left"] \in Links
    BY DEF IInv, Typed, Links, States
  <2>5. /\ socks' \in [Socks -> Links]
        /\ socks'[s].st = "dialing" /\ socks'[s].out = <<>>
        /\ \A k \in Socks : k # s /\ k = ws => socks'[k].st = "left" /\ socks'[k].out = socks[k].out
        /\ \A k \in Socks : k # s /\ k # ws => socks'[k] = socks[k]
    BY <2>1, <2>3, <2>4 DEF IInv, Typed, Links
  <2>6. Flags'
    BY <2>2 DEF IInv, Flags
  <2>7. Typed'
    BY <2>1, <2>5 DEF IInv, Typed
  <2>8. OneActive'
    BY <2>1, <2>5, <1>2, LinkAssumption DEF IInv, OneActive, Active
  <2>c. cuts = 0 => ws = NoSock
    BY <1>2 DEF IInv, NotCut, Typed, Dialing
  <2>9. EventsOnce' /\ Loses
    <3>1. \A k \in Socks : socks'[k].out = socks[k].out \/ socks'[k].out = <<>>
      BY <2>5
    <3>2. cuts = 0 => \A k \in Socks : socks'[k].out = socks[k].out
      BY <2>c, <2>1, <2>5, LinkAssumption DEF IInv, NotCut, OneActive
    <3>3. faults' + cuts' = 0 => cuts = 0
      BY LinkAssumption DEF IInv, Typed
    <3>4. faults' >= faults /\ cuts' >= cuts
      BY LinkAssumption DEF IInv, Typed
    <3> QED BY <3>1, <3>2, <3>3, <3>4, DropsKeep DEF IInv
  <2>10. NotCut'
    BY <2>5, <2>1, <2>c, EmptyQueue, LinkAssumption DEF IInv, NotCut
  <2> QED BY <2>6, <2>7, <2>8, <2>9, <2>10 DEF IInv
<1> QED BY <1>1, <1>2

LEMMA ClosedKeeps ==
  ASSUME IInv, NEW s \in Socks, NEW left \in Links, Closed(s, left),
         socks[s].st \in {"dialing", "dead", "closing"},
         left = Gone \/ (cuts > 0 /\ left.st = "left" /\ left.out = socks[s].out),
         UNCHANGED <<made, kept, manual, up, ending, got, cmd, cuts>>,
         faults' \in 0..MaxFaults, faults' >= faults
  PROVE  IInv' /\ Loses
<1>1. /\ connected' = FALSE /\ timer' = (timer \/ ~manual)
      /\ ws' = IF ws = s THEN NoSock ELSE ws
      /\ socks' \in [Socks -> Links] /\ socks'[s] = left
      /\ \A k \in Socks : k # s => socks'[k] = socks[k]
  BY DEF Closed, IInv, Typed
<1>2. Flags'
  BY <1>1 DEF IInv, Flags
<1>3. Typed'
  BY <1>1 DEF IInv, Typed
<1>4. OneActive'
  BY <1>1, GoneIsLink, LinkAssumption DEF IInv, OneActive, Active, Typed
<1>5. EventsOnce' /\ Loses
  <2>1. \A k \in Socks : socks'[k].out = socks[k].out \/ socks'[k].out = <<>>
    BY <1>1, GoneIsLink
  <2>2. cuts = 0 => \A k \in Socks : socks'[k].out = socks[k].out
    BY <1>1, GoneIsLink DEF IInv, NotCut, OneActive
  <2>n. cuts \in Nat /\ faults' \in Nat /\ cuts' = cuts
    BY LinkAssumption DEF IInv, Typed
  <2>3. cuts' >= cuts
    BY <2>n
  <2>4. faults' + cuts' = 0 => cuts = 0
    BY <2>n, SumOfNats
  <2> QED BY <2>1, <2>2, <2>3, <2>4, DropsKeep DEF IInv
<1>6. NotCut'
  <2>1. CASE cuts = 0
    <3>1. left = Gone /\ ws = s /\ cuts' = 0
      BY <2>1 DEF IInv, NotCut, OneActive, Active
    <3> QED BY <1>1, <2>1, <3>1, GoneIsLink, EmptyQueue, LinkAssumption DEF IInv, NotCut, Typed
  <2>2. CASE cuts # 0
    BY <2>2 DEF NotCut
  <2> QED BY <2>1, <2>2
<1> QED BY <1>2, <1>3, <1>4, <1>5, <1>6 DEF IInv

LEMMA DialFailsKeeps ==
  ASSUME IInv, NEW s \in Socks, DialFails(s)
  PROVE  IInv' /\ Loses
<1>1. faults' \in 0..MaxFaults /\ faults' >= faults
  BY LinkAssumption DEF DialFails, IInv, Typed
<1>2. /\ socks[s].st = "dialing" /\ Closed(s, Gone)
      /\ UNCHANGED <<made, kept, manual, up, ending, got, cmd, cuts>>
  BY DEF DialFails, backend, command
<1> DEFINE left == Gone
<1>3. Closed(s, left) /\ left \in Links /\ left = Gone
  BY <1>2, GoneIsLink
<1> HIDE DEF left
<1> QED BY <1>1, <1>2, <1>3, ClosedKeeps

LEMMA ClosesKeeps ==
  ASSUME IInv, NEW s \in Socks, Closes(s)
  PROVE  IInv' /\ Loses
<1> DEFINE left == IF socks[s].out = <<>> THEN Gone ELSE [socks[s] EXCEPT !.st = "left"]
<1>1. left \in Links
  BY GoneIsLink DEF IInv, Typed, Links, States
<1>2. left = Gone \/ (cuts > 0 /\ left.st = "left" /\ left.out = socks[s].out)
  <2>1. socks[s].out # <<>> => cuts > 0
    BY LinkAssumption DEF Closes, IInv, Typed, OneActive, NotCut
  <2>2. socks[s] \in Links
    BY DEF IInv, Typed
  <2>3. [socks[s] EXCEPT !.st = "left"].st = "left" /\ [socks[s] EXCEPT !.st = "left"].out = socks[s].out
    BY <2>2 DEF Links
  <2>4. CASE socks[s].out = <<>>
    <3>1. left = Gone
      BY <2>4
    <3> QED BY <3>1, Zenon
  <2>5. CASE socks[s].out # <<>>
    <3>1. left = [socks[s] EXCEPT !.st = "left"]
      BY <2>5
    <3> QED BY <2>1, <2>3, <2>5, <3>1, Zenon
  <2> QED BY <2>4, <2>5
<1>3. faults' \in 0..MaxFaults /\ faults' >= faults
  BY LinkAssumption DEF Closes, IInv, Typed
<1>4. Closed(s, left) /\ socks[s].st \in {"dead", "closing"}
  BY DEF Closes
<1> HIDE DEF left
<1> QED BY <1>1, <1>2, <1>3, <1>4, ClosedKeeps DEF Closes, backend, command

LEMMA RedialKeeps ==
  ASSUME IInv, Redial
  PROVE  IInv' /\ Loses
<1>1. CASE ~manual
  BY <1>1, DialKeeps DEF Redial, backend, command
<1>2. CASE manual
  <2>1. UNCHANGED <<made, kept, ws, connected, manual, socks, up, ending, got, cmd, cuts, faults>>
        /\ timer' = FALSE
    BY <1>2 DEF Redial, backend, command
  <2>2. IInv'
    BY <2>1 DEF IInv, Flags, Typed, OneActive, EventsOnce, NotCut
  <2>3. Loses
    BY <2>1, LinkAssumption DEF IInv, Typed, Loses, Carried
  <2> QED BY <2>2, <2>3
<1> QED BY <1>1, <1>2

LEMMA BootKeeps ==
  ASSUME IInv, Boot
  PROVE  IInv' /\ Loses
<1>1. timer \in BOOLEAN
  BY DEF IInv, Flags
<1> QED BY <1>1, DialKeeps DEF Boot, backend

LEMMA StartDoneKeeps ==
  ASSUME IInv, StartDone
  PROVE  IInv' /\ Loses
<1>1. CASE up
  <2>1. timer \in BOOLEAN
    BY DEF IInv, Flags
  <2> QED BY <1>1, <2>1, DialKeeps DEF StartDone, backend
<1>2. CASE ~up
  <2>1. UNCHANGED <<made, kept, ws, connected, manual, timer, socks, up, ending, got, cuts, faults>>
        /\ cmd' = "none"
    BY <1>2 DEF StartDone, backend
  <2>2. Flags' /\ OneActive' /\ EventsOnce' /\ NotCut'
    BY <2>1 DEF IInv, Flags, OneActive, EventsOnce, NotCut
  <2>3. Typed'
    BY <2>1 DEF IInv, Typed
  <2>4. Loses
    BY <2>1, LinkAssumption DEF IInv, Typed, Loses, Carried
  <2> QED BY <2>2, <2>3, <2>4 DEF IInv
<1> QED BY <1>1, <1>2

LEMMA StartCommandKeeps ==
  ASSUME IInv, StartCommand
  PROVE  IInv' /\ Loses
<1>1. UNCHANGED <<made, kept, ws, connected, manual, timer, socks, up, ending, got, cuts, faults>>
      /\ cmd' = "start"
  BY DEF StartCommand, backend
<1>2. Flags' /\ OneActive' /\ EventsOnce' /\ NotCut'
  BY <1>1 DEF IInv, Flags, OneActive, EventsOnce, NotCut
<1>3. Typed'
  BY <1>1 DEF IInv, Typed
<1>4. Loses
  BY <1>1, LinkAssumption DEF IInv, Typed, Loses, Carried
<1> QED BY <1>2, <1>3, <1>4 DEF IInv

LEMMA BackendUpKeeps ==
  ASSUME IInv, BackendUp
  PROVE  IInv' /\ Loses
<1>1. UNCHANGED <<made, kept, ws, connected, manual, timer, socks, ending, got, cmd, cuts, faults>>
      /\ up' = TRUE
  BY DEF BackendUp, command
<1>2. Flags' /\ OneActive' /\ EventsOnce' /\ NotCut'
  BY <1>1 DEF IInv, Flags, OneActive, EventsOnce, NotCut
<1>3. Typed'
  BY <1>1 DEF IInv, Typed
<1>4. Loses
  BY <1>1, LinkAssumption DEF IInv, Typed, Loses, Carried
<1> QED BY <1>2, <1>3, <1>4 DEF IInv

LEMMA BackendEndsKeeps ==
  ASSUME IInv, BackendEnds
  PROVE  IInv' /\ Loses
<1>1. /\ UNCHANGED <<made, kept, ws, connected, manual, timer, got, cmd, cuts>>
      /\ up' = FALSE /\ ending' = FALSE
      /\ faults' \in 0..MaxFaults /\ faults' >= faults /\ (cuts = 0 => faults' > 0)
  BY LinkAssumption DEF BackendEnds, command, IInv, Typed, NotCut
<1>2. /\ \A k \in Socks : socks[k].st = "open" => socks'[k] = [st |-> "dead", out |-> <<>>]
      /\ \A k \in Socks : socks[k].st = "left" => socks'[k] = Gone
      /\ \A k \in Socks : socks[k].st \notin {"open", "left"} => socks'[k] = [socks[k] EXCEPT !.out = <<>>]
  BY DEF BackendEnds
<1>3. [st |-> "dead", out |-> <<>>] \in Links /\ \A k \in Socks : [socks[k] EXCEPT !.out = <<>>] \in Links
  BY EmptyQueue DEF IInv, Typed, Links, States
<1>4. socks' \in [Socks -> Links]
  BY <1>2, <1>3, GoneIsLink DEF BackendEnds
<1>e. \A k \in Socks : /\ [socks[k] EXCEPT !.out = <<>>].out = <<>>
                       /\ [socks[k] EXCEPT !.out = <<>>].st = socks[k].st
  BY DEF IInv, Typed, Links
<1>5. \A k \in Socks :
        /\ socks'[k].out = <<>>
        /\ socks[k].st = "open" => socks'[k].st = "dead"
        /\ socks[k].st = "left" => socks'[k].st = "none"
        /\ socks[k].st \notin {"open", "left"} => socks'[k].st = socks[k].st
  <2> SUFFICES ASSUME NEW k \in Socks
               PROVE /\ socks'[k].out = <<>>
                     /\ socks[k].st = "open" => socks'[k].st = "dead"
                     /\ socks[k].st = "left" => socks'[k].st = "none"
                     /\ socks[k].st \notin {"open", "left"} => socks'[k].st = socks[k].st
    OBVIOUS
  <2>1. CASE socks[k].st = "open"
    <3>1. socks'[k] = [st |-> "dead", out |-> <<>>]
      BY <1>2, <2>1
    <3> QED BY <2>1, <3>1
  <2>2. CASE socks[k].st = "left"
    <3>1. socks'[k] = Gone
      BY <1>2, <2>2
    <3> QED BY <2>2, <3>1, GoneIsLink
  <2>3. CASE socks[k].st \notin {"open", "left"}
    <3>1. socks'[k] = [socks[k] EXCEPT !.out = <<>>]
      BY <1>2, <2>3
    <3> QED BY <2>3, <3>1, <1>e
  <2> QED BY <2>1, <2>2, <2>3
<1>7. Flags'
  BY <1>1 DEF IInv, Flags
<1>8. Typed'
  BY <1>1, <1>4 DEF IInv, Typed
<1>9. OneActive'
  BY <1>1, <1>5 DEF IInv, OneActive, Active, Typed
<1>10. EventsOnce' /\ Loses
  <2>n. cuts \in Nat /\ faults' \in Nat /\ cuts' = cuts
    BY <1>1, LinkAssumption DEF IInv, Typed
  <2>1. cuts' >= cuts
    BY <2>n
  <2>2. faults' # 0 \/ cuts' # 0
    BY <1>1, <2>n
  <2>3. faults' + cuts' # 0
    BY <2>2, <2>n, SumOfNats
  <2> QED BY <1>1, <1>5, <2>1, <2>3, DropsKeep DEF IInv
<1>11. NotCut'
  BY <1>1, <1>5, EmptyQueue DEF IInv, NotCut, Typed
<1> QED BY <1>7, <1>8, <1>9, <1>10, <1>11 DEF IInv

LEMMA LinkLostKeeps ==
  ASSUME IInv, NEW s \in Socks, LinkLost(s)
  PROVE  IInv' /\ Loses
<1>1. /\ UNCHANGED <<made, kept, ws, connected, manual, timer, up, ending, got, cmd, cuts>>
      /\ faults' \in 0..MaxFaults /\ faults' > 0
  BY LinkAssumption DEF LinkLost, backend, command, IInv, Typed
<1>2. [st |-> "dead", out |-> <<>>] \in Links
  BY EmptyQueue DEF Links, States
<1>3. /\ socks[s].st = "open" /\ socks' \in [Socks -> Links]
      /\ socks'[s].st = "dead" /\ socks'[s].out = <<>>
      /\ \A k \in Socks : k # s => socks'[k] = socks[k]
  BY <1>2 DEF LinkLost, IInv, Typed
<1>4. Flags'
  BY <1>1 DEF IInv, Flags
<1>5. Typed'
  BY <1>1, <1>3 DEF IInv, Typed
<1>6. OneActive'
  BY <1>1, <1>3 DEF IInv, OneActive, Active, Typed
<1>7. EventsOnce' /\ Loses
  <2>1. faults' + cuts' # 0 /\ cuts' >= cuts /\ faults' >= faults
    BY <1>1, LinkAssumption DEF IInv, Typed, LinkLost
  <2> QED BY <1>1, <1>3, <2>1, DropsKeep DEF IInv
<1>8. NotCut'
  BY <1>1, <1>3, EmptyQueue DEF IInv, NotCut, Typed
<1> QED BY <1>4, <1>5, <1>6, <1>7, <1>8 DEF IInv

LEMMA StopDoneKeeps ==
  ASSUME IInv, StopDone
  PROVE  IInv' /\ Loses
<1>1. /\ UNCHANGED <<made, kept, up, got, cuts, faults>> /\ cuts > 0
      /\ manual' = TRUE /\ timer' = FALSE /\ connected' = FALSE /\ ws' = NoSock
      /\ ending' \in BOOLEAN /\ cmd' \in {"start", "none"}
  BY LinkAssumption DEF StopDone, Cut, IInv, Flags, Typed, NotCut
<1>2. \A k \in Socks : socks'[k] = CASE k = ws /\ socks[k].st = "dialing" -> Gone
                                    [] k = ws /\ socks[k].st \in {"open", "dead"} -> [socks[k] EXCEPT !.st = "closing"]
                                    [] OTHER -> socks[k]
  BY DEF StopDone, Cut
<1>3. /\ socks' \in [Socks -> Links]
      /\ \A k \in Socks : socks'[k].out = socks[k].out \/ socks'[k].out = <<>>
      /\ \A k \in Socks : socks'[k].st \notin Active
      /\ \A k \in Socks : socks'[k].st = "none" => socks'[k].out = <<>>
  <2>1. socks' = [k \in Socks |-> socks'[k]]
    BY DEF StopDone, Cut
  <2>2. \A k \in Socks : [socks[k] EXCEPT !.st = "closing"] \in Links /\ socks[k] \in Links
    BY DEF IInv, Typed, Links, States
  <2>3. \A k \in Socks : socks'[k] \in Links
    BY <1>2, <2>2, GoneIsLink
  <2>4. socks' \in [Socks -> Links]
    BY <2>1, <2>3
  <2>5. \A k \in Socks : socks[k].st \in Active => k = ws
    BY DEF IInv, OneActive
  <2> QED BY <1>2, <2>2, <2>4, <2>5, GoneIsLink DEF IInv, OneActive, Active, Typed, Links
<1>4. Flags'
  BY <1>1 DEF IInv, Flags
<1>5. Typed'
  BY <1>1, <1>3 DEF IInv, Typed
<1>6. OneActive'
  BY <1>1, <1>3 DEF IInv, OneActive, Active, Typed
<1>7. EventsOnce' /\ Loses
  <2>1. faults' + cuts' # 0 /\ cuts' >= cuts /\ faults' >= faults
    BY <1>1, LinkAssumption DEF IInv, Typed
  <2> QED BY <1>1, <1>3, <2>1, DropsKeep DEF IInv
<1>8. NotCut'
  BY <1>1, LinkAssumption DEF IInv, NotCut, Typed
<1> QED BY <1>4, <1>5, <1>6, <1>7, <1>8 DEF IInv

LEMMA StopCommandKeeps ==
  ASSUME IInv, NEW c \in {"stop", "restart"}, StopCommand(c)
  PROVE  IInv' /\ Loses
<1>1. /\ UNCHANGED <<made, kept, ws, connected, manual, timer, up, ending, got, faults>>
      /\ cuts' \in 0..MaxCuts /\ cuts' > 0 /\ cmd' = c
  BY LinkAssumption DEF StopCommand, backend, IInv, Typed
<1>n. faults' + cuts' # 0 /\ faults' >= faults /\ cuts' >= cuts
  BY LinkAssumption DEF StopCommand, backend, IInv, Typed
<1>2. CASE connected /\ ws # NoSock /\ socks[ws].st = "open"
  <2> DEFINE q == Append(socks[ws].out, Shutdown)
  <2>w. ws \in Socks /\ socks[ws].out \in Seq(Loads) /\ Rising(socks[ws].out)
    BY <1>2 DEF IInv, OneActive, Typed, Links, EventsOnce
  <2>q. q \in Seq(Loads) /\ Rising(q) /\ \A x : In(q, x) <=> In(socks[ws].out, x) \/ x = Shutdown
    BY <2>w, AppendQueue, AppendRising, EventNumbers
  <2>a. socks' = [socks EXCEPT ![ws].out = q]
    BY <1>2 DEF StopCommand
  <2> HIDE DEF q
  <2>s. /\ socks' \in [Socks -> Links] /\ socks'[ws].out = q
        /\ \A s \in Socks : socks'[s].st = socks[s].st /\ (s # ws => socks'[s] = socks[s])
    BY <2>a, <2>q, <2>w DEF IInv, Typed, Links
  <2>1. Flags'
    BY <1>1 DEF IInv, Flags
  <2>2. Typed'
    BY <1>1, <2>s DEF IInv, Typed
  <2>3. OneActive'
    <3>1. \A s \in Socks : socks'[s].st = socks[s].st /\ (socks[s].st # "open" => socks'[s].out = socks[s].out)
      BY <2>s, <1>2
    <3>2. UNCHANGED <<ws, connected, kept>> /\ (ws # NoSock => ws \in Socks)
      BY <1>1, <2>w
    <3> QED BY <3>1, <3>2 DEF IInv, OneActive
  <2>4. EventsOnce'
    BY <1>1, <2>s, <2>w, <2>q, EventNumbers DEF IInv, EventsOnce
  <2>5. NotCut'
    BY <1>1, LinkAssumption DEF NotCut
  <2>6. Loses
    BY <1>1, <1>n, <2>s, <2>w, <2>q, EventNumbers DEF Loses, Carried
  <2> QED BY <2>1, <2>2, <2>3, <2>4, <2>5, <2>6 DEF IInv
<1>3. CASE ~(connected /\ ws # NoSock /\ socks[ws].st = "open")
  <2>1. UNCHANGED socks
    BY <1>3 DEF StopCommand
  <2>2. Flags' /\ OneActive' /\ EventsOnce'
    BY <1>1, <2>1 DEF IInv, Flags, OneActive, EventsOnce
  <2>3. Typed'
    BY <1>1, <2>1 DEF IInv, Typed
  <2>4. NotCut'
    BY <1>1, LinkAssumption DEF NotCut
  <2>5. Loses
    BY <1>1, <1>n, <2>1 DEF Loses, Carried
  <2> QED BY <2>2, <2>3, <2>4, <2>5 DEF IInv
<1> QED BY <1>2, <1>3

LEMMA DeliverKeeps ==
  ASSUME IInv, NEW s \in Socks, Deliver(s)
  PROVE  IInv' /\ (Loses \/ \E e \in Events : Gets(e))
<1> DEFINE q == socks[s].out
           rest == IF socks[s].st = "left" /\ Len(q) = 1 THEN Gone ELSE [st |-> socks[s].st, out |-> Tail(q)]
<1>1. /\ UNCHANGED <<made, kept, ws, connected, manual, timer, up, cmd, cuts, faults>>
      /\ socks[s].st \in {"open", "closing", "left"} /\ q # <<>>
  BY DEF Deliver, command
<1>u. socks' = [socks EXCEPT ![s] = rest]
  BY Zenon DEF Deliver
<1>2. q \in Seq(Loads) /\ Rising(q) /\ socks[s] \in Links
  BY DEF IInv, Typed, Links, EventsOnce
<1>3. /\ Tail(q) \in Seq(Loads) /\ Head(q) \in Loads /\ In(q, Head(q))
      /\ Rising(Tail(q)) /\ \A e : In(Tail(q), e) => In(q, e)
      /\ \A e \in Events : In(q, e) => In(Tail(q), e) \/ e = Head(q)
      /\ Head(q) # Shutdown => ~In(Tail(q), Head(q))
      /\ \A e \in Events : Head(q) # Shutdown /\ In(q, e) => Head(q) <= e
  BY <1>1, <1>2, TailQueue
<1>4. /\ rest \in Links
      /\ rest.out = Tail(q)
      /\ rest.st = socks[s].st \/ (socks[s].st = "left" /\ rest.st = "none" /\ rest.out = <<>>)
  <2>1. /\ [st |-> socks[s].st, out |-> Tail(q)] \in Links
        /\ [st |-> socks[s].st, out |-> Tail(q)].out = Tail(q)
        /\ [st |-> socks[s].st, out |-> Tail(q)].st = socks[s].st
    BY <1>2, <1>3 DEF Links
  <2>2. CASE socks[s].st = "left" /\ Len(q) = 1
    <3>1. rest = Gone
      BY <2>2
    <3>2. Tail(q) = <<>>
      BY <2>2, <1>2, TailOfOne
    <3> QED BY <2>2, <3>1, <3>2, GoneIsLink
  <2>3. CASE ~(socks[s].st = "left" /\ Len(q) = 1)
    <3>1. rest = [st |-> socks[s].st, out |-> Tail(q)]
      BY <2>3
    <3> QED BY <2>1, <3>1, Zenon
  <2> QED BY <2>2, <2>3
<1>5. /\ Head(q) = Shutdown => ending' = TRUE /\ got' = got
      /\ Head(q) # Shutdown => got' = Append(got, Head(q)) /\ ending' = ending
  BY DEF Deliver
<1> HIDE DEF q, rest
<1>6. Head(q) # Shutdown => Head(q) \in Events
  BY <1>3, LinkAssumption DEF Events, Loads, Shutdown
<1>7. got' \in Seq(Events)
  <2>1. got \in Seq(Events)
    BY DEF IInv, Typed
  <2>2. CASE Head(q) = Shutdown
    BY <1>5, <2>1, <2>2
  <2>3. CASE Head(q) # Shutdown
    BY <1>5, <1>6, <2>1, <2>3, AppendQueue
  <2> QED BY <2>2, <2>3
<1>8. /\ socks' \in [Socks -> Links] /\ socks'[s] = rest
      /\ \A k \in Socks : k # s => socks'[k] = socks[k]
  BY <1>u, <1>4 DEF IInv, Typed
<1>9. Rising(rest.out) /\ \A e : In(rest.out, e) => In(q, e)
  BY <1>3, <1>4, EmptyQueue
<1>10. Flags'
  BY <1>1, <1>5 DEF IInv, Flags
<1>11. Typed'
  BY <1>1, <1>7, <1>8 DEF IInv, Typed
<1>12. OneActive'
  BY <1>1, <1>4, <1>8 DEF IInv, OneActive, Active, Typed
<1>13. EventsOnce'
  BY <1>1, <1>8, <1>9 DEF IInv, EventsOnce, q
<1>14. NotCut'
  <2>1. cuts = 0 => Head(q) # Shutdown
    BY <1>3 DEF IInv, NotCut, q
  <2>2. CASE cuts = 0
    <3>1. cmd \notin {"stop", "restart"} /\ ~ending'
      BY <2>1, <2>2, <1>1, <1>5 DEF IInv, NotCut
    <3>2. \A k \in Socks : socks'[k].st = socks[k].st /\ (In(socks'[k].out, Shutdown) => In(socks[k].out, Shutdown))
      BY <2>2, <1>1, <1>4, <1>8, <1>9 DEF IInv, NotCut, q
    <3> QED BY <2>2, <3>1, <3>2, <1>1, LinkAssumption DEF IInv, NotCut, Typed
  <2>3. CASE cuts # 0
    BY <2>3, <1>1 DEF NotCut
  <2> QED BY <2>2, <2>3
<1>15. ASSUME Head(q) = Shutdown PROVE Loses
  <2>1. \A x \in Events : Carried(x)' <=> Carried(x)
    BY <1>1, <1>3, <1>4, <1>8, <1>15, EventNumbers DEF Carried, q
  <2>2. faults' >= faults /\ cuts' >= cuts
    BY <1>1, LinkAssumption DEF IInv, Typed
  <2>3. UNCHANGED <<made, got>>
    BY <1>1, <1>5, <1>15
  <2> QED BY <2>1, <2>2, <2>3, Zenon DEF Loses
<1>16. ASSUME Head(q) # Shutdown PROVE \E e \in Events : Gets(e)
  <2> DEFINE e == Head(q)
  <2> HIDE DEF e
  <2>1. e \in Events /\ Carried(e) /\ got' = Append(got, e)
    BY <1>3, <1>5, <1>6, <1>16 DEF Carried, q, e
  <2>2. \A t \in Socks : t # s => ~In(socks[t].out, e)
    BY <1>3, <2>1 DEF IInv, EventsOnce, q, e
  <2>3. ~In(kept, e)
    BY <1>3, <2>1 DEF IInv, EventsOnce, q, e
  <2>4. \A x \in Events : Carried(x)' <=> Carried(x) /\ x # e
    BY <1>1, <1>3, <1>4, <1>8, <1>16, <2>2, <2>3 DEF Carried, q, e
  <2>5. ASSUME cuts = 0, NEW x \in Events, Carried(x) PROVE e <= x
    <3>1. socks[s].st = "open"
      BY <1>1, <2>5 DEF IInv, NotCut
    <3>2. ws = s /\ connected /\ kept = <<>>
      BY <3>1, <2>5, LinkAssumption DEF IInv, NotCut, OneActive, Active
    <3>3. \A t \in Socks : t # s => socks[t].out = <<>>
      BY <3>2, <2>5 DEF IInv, Typed, Links, NotCut, OneActive, Active, States
    <3>4. In(q, x)
      BY <3>2, <3>3, <2>5, EmptyQueue DEF Carried, q
    <3> QED BY <1>3, <1>16, <3>4 DEF e
  <2>6. cuts = 0 => \A x \in Events : Carried(x) => e <= x
    BY <2>5
  <2>7. Gets(e)
    BY <2>1, <2>4, <2>6, Zenon DEF Gets
  <2> QED BY <2>1, <2>7
<1> QED BY <1>10, <1>11, <1>12, <1>13, <1>14, <1>15, <1>16 DEF IInv

-----------------------------------------------------------------------------
LEMMA NextHolds == IInv /\ [Next]_vars => IInv'
<1> SUFFICES ASSUME IInv, [Next]_vars PROVE IInv'
  OBVIOUS
<1>1. CASE Next
  BY <1>1, EventKeeps, RedialKeeps, BackendEndsKeeps, BackendUpKeeps, BootKeeps, StopDoneKeeps,
     StartCommandKeeps, StartDoneKeeps, StopCommandKeeps, OpensKeeps, DialFailsKeeps, ClosesKeeps,
     DeliverKeeps, LinkLostKeeps DEF Next
<1>2. CASE UNCHANGED vars
  BY <1>2 DEF vars, IInv, Flags, Typed, OneActive, EventsOnce, NotCut
<1> QED BY <1>1, <1>2

\* The inductive invariant holds.
THEOREM Invariance == Spec => []IInv
BY InitHolds, NextHolds, PTL DEF Spec

\* One connection at most, and the type of every variable: what the plugin
\* believes of its link is right.
LEMMA InvariantIsSafe == IInv => LinkSafe
<1> SUFFICES ASSUME IInv PROVE LinkSafe
  OBVIOUS
<1>1. TypeOK
  <2>1. {connected, manual, timer, up, ending} \subseteq BOOLEAN
    BY DEF IInv, Flags
  <2>2. \A s \in Socks :
           /\ socks[s].st \in States /\ socks[s].out \in Seq(0..MaxEvents)
           /\ socks[s].st \in {"none", "dialing", "dead"} => socks[s].out = <<>>
    BY DEF IInv, Typed, OneActive, Links, Loads
  <2>3. made \in 0..MaxEvents
    BY LinkAssumption DEF IInv, Typed
  <2> QED BY <2>1, <2>2, <2>3 DEF IInv, Typed, TypeOK, Events
<1>2. OneLink
  <2> DEFINE A == {s \in Socks : socks[s].st \in {"dialing", "open", "dead"}}
  <2>1. connected => ws # NoSock /\ socks[ws].st \in {"open", "dead"}
    BY DEF IInv, OneActive, Active
  <2>2. A \subseteq {ws}
    BY DEF IInv, OneActive, Active
  <2>3. Cardinality(A) <= 1
    <3>1. IsFiniteSet({ws}) /\ Cardinality({ws}) = 1
      BY FS_Singleton
    <3> QED BY <2>2, <3>1, FS_Subset, FS_CardinalityType
  <2> QED BY <2>1, <2>3 DEF OneLink
<1> QED BY <1>1, <1>2 DEF LinkSafe

\* However sockets come, close and linger (connect(), disconnect(), the handlers
\* of `close' and `open'): the plugin has one connection at most that it has not
\* closed, that of its own socket, and keeps no more events than it may
\* (disconnectQueue).
THEOREM LinkCorrect == Spec => []LinkSafe
BY Invariance, InvariantIsSafe, PTL

-----------------------------------------------------------------------------
(* The refinement of Channel: what is inside the channel is what is kept or *)
(* on its way in some socket.                                              *)

Inside == {e \in 1..made : Kept(e) \/ Sent(e)}

InsideKnown == \A e : e \in Inside <=> e \in Events /\ Carried(e)

LEMMA InsideIsCarried == IInv => InsideKnown
<1> SUFFICES ASSUME IInv PROVE InsideKnown
  OBVIOUS
<1>1. \A e \in Events : Carried(e) => e \in 1..made
  BY LinkAssumption DEF IInv, EventsOnce, Carried, Events, Typed
<1>2. 1..made \subseteq Events
  BY LinkAssumption DEF IInv, Typed, Events
<1>3. \A e : (Kept(e) \/ Sent(e)) <=> Carried(e)
  BY DEF Kept, Sent, Carried, In
<1> QED BY <1>1, <1>2, <1>3 DEF Inside, InsideKnown

LEMMA InsideStaysKnown == IInv' => InsideKnown'
BY InsideIsCarried, PTL

\* A step that loses at most is a failure of the channel, or none of its steps.
LEMMA LossIsFailure ==
  ASSUME IInv, IInv', Loses
  PROVE  [Ch!Next]_Ch!vars
<1>1. InsideKnown /\ InsideKnown'
  BY InsideIsCarried, InsideStaysKnown
<1>2. Inside' \subseteq Inside
  BY <1>1 DEF Loses, InsideKnown
<1>3. /\ cuts \in Nat /\ faults \in Nat /\ cuts' \in Nat /\ faults' \in Nat
      /\ made' = made /\ got' = got /\ faults' >= faults /\ cuts' >= cuts
  BY LinkAssumption DEF IInv, Typed, Loses
<1>4. CASE faults' + cuts' > 0
  <2>0. cuts' > 0 \/ cuts' = cuts
    BY <1>3
  <2>1. (faults' + cuts' > 0) = TRUE /\ (cuts' > 0) \in {cuts > 0, TRUE}
    BY <2>0, <1>4, Zenon
  <2>2. Ch!Fails
    BY <1>2, <1>3, <2>1 DEF Ch!Fails, Inside
  <2> QED BY <2>2 DEF Ch!Next
<1>5. CASE ~(faults' + cuts' > 0)
  <2>1. faults' + cuts' = 0 /\ faults' = faults /\ cuts' = cuts
    <3>1. faults' = 0 /\ cuts' = 0
      BY <1>3, <1>5, SumOfNats
    <3>2. faults = 0 /\ cuts = 0
      BY <1>3, <3>1
    <3> QED BY <3>1, <3>2
  <2>2. Inside' = Inside
    BY <2>1, <1>1, <1>2 DEF Loses, InsideKnown
  <2> QED BY <2>1, <2>2, <1>3 DEF Ch!vars, Inside
<1> QED BY <1>4, <1>5

\* The instance has its own name for the cardinality of a set.
LEMMA SameCardinality == ASSUME NEW S PROVE Ch!Cardinality(S) = Cardinality(S)
BY Zenon DEF Ch!Cardinality, Cardinality

LEMMA PutIsPut ==
  ASSUME IInv, IInv', Event, Puts
  PROVE  Ch!Put
<1>1. InsideKnown /\ InsideKnown'
  BY InsideIsCarried, InsideStaysKnown
<1>2. /\ made < MaxEvents /\ made' = made + 1 /\ made + 1 \in Events
      /\ UNCHANGED <<got, faults, cuts>>
  BY LinkAssumption DEF Event, backend, command, IInv, Typed, Events
<1>3. faults \in Nat /\ cuts \in Nat
  BY LinkAssumption DEF IInv, Typed
<1>4. ASSUME Len(kept) = MaxKept PROVE Cardinality(Inside) >= MaxKept
  <2>1. kept \in [1..MaxKept -> Inside]
    <3>1. \A i \in 1..MaxKept : kept[i] \in Events /\ Carried(kept[i])
      BY <1>4 DEF IInv, Typed, Carried, In
    <3>2. kept = [i \in 1..MaxKept |-> kept[i]]
      BY <1>4 DEF IInv, Typed
    <3>3. \A i \in 1..MaxKept : kept[i] \in Inside
      BY <1>1, <3>1 DEF InsideKnown
    <3> QED BY <3>2, <3>3
  <2>2. \A i, j \in 1..MaxKept : i # j => kept[i] # kept[j]
    <3>0. DOMAIN kept = 1..MaxKept /\ \A i \in 1..MaxKept : kept[i] \in Events
      BY <1>4 DEF IInv, Typed
    <3>1. \A i \in 1..MaxKept : kept[i] \in Nat /\ kept[i] # Shutdown
      BY <3>0, EventNumbers
    <3>2. \A i, j \in 1..MaxKept : i < j => kept[i] < kept[j]
      BY <3>0, <3>1 DEF IInv, EventsOnce, Rising
    <3> QED BY <3>1, <3>2
  <2>3. IsFiniteSet(1..MaxKept) /\ Cardinality(1..MaxKept) = MaxKept
    BY FS_Interval, LinkAssumption
  <2>4. IsFiniteSet(Inside)
    <3>1. IsFiniteSet(1..made)
      BY FS_Interval DEF IInv, Typed
    <3> QED BY <3>1, FS_Subset DEF Inside
  <2>5. Cardinality(Inside) \in Nat
    BY <2>4, FS_CardinalityType
  <2>6. ~(Cardinality(Inside) < Cardinality(1..MaxKept))
    BY <2>1, <2>2, <2>3, <2>4, FS_PigeonHole
  <2> QED BY <2>3, <2>5, <2>6, LinkAssumption
<1>5. CASE \A x \in Events : Carried(x)' <=> Carried(x) \/ x = made + 1
  <2>1. Inside' = Inside \cup {made + 1}
    BY <1>1, <1>2, <1>5 DEF InsideKnown
  <2> QED BY <1>2, <2>1 DEF Ch!Put, Inside
<1>6. CASE /\ \A x \in Events : Carried(x)' <=> Carried(x)
           /\ Len(kept) = MaxKept \/ faults > 0 \/ cuts > 0
  <2>1. Inside' = Inside
    BY <1>1, <1>6 DEF InsideKnown
  <2>2. faults + cuts > 0 \/ Cardinality(Inside) >= MaxKept
    BY <1>3, <1>4, <1>6
  <2>3. UNCHANGED <<got, faults + cuts > 0, cuts > 0>>
    BY <1>2
  <2>4. \/ Inside' = Inside \cup {made + 1}
        \/ (faults + cuts > 0 \/ Cardinality(Inside) >= MaxKept) /\ Inside' = Inside
    BY <2>1, <2>2
  <2> QED BY <1>2, <2>3, <2>4, SameCardinality DEF Ch!Put, Inside
<1> QED BY <1>5, <1>6 DEF Puts

LEMMA GetIsGet ==
  ASSUME IInv, IInv', NEW e \in Events, Gets(e), UNCHANGED <<made, faults, cuts>>
  PROVE  e \in Inside /\ Ch!Get(e)
<1>1. InsideKnown /\ InsideKnown'
  BY InsideIsCarried, InsideStaysKnown
<1>2. e \in Inside /\ Inside' = Inside \ {e}
  BY <1>1 DEF Gets, InsideKnown
<1>3. cuts \in Nat
  BY LinkAssumption DEF IInv, Typed
<1>4. ~(cuts > 0) => \A x \in Inside : e <= x
  BY <1>1, <1>3 DEF Gets, InsideKnown
<1> QED BY <1>2, <1>4 DEF Gets, Ch!Get, Inside

LEMMA StepIsStep == IInv /\ IInv' /\ [Next]_vars => [Ch!Next]_Ch!vars
<1> SUFFICES ASSUME IInv, IInv', [Next]_vars PROVE [Ch!Next]_Ch!vars
  OBVIOUS
<1>1. CASE Event
  BY <1>1, EventKeeps, PutIsPut DEF Ch!Next
<1>2. ASSUME NEW s \in Socks, Deliver(s) PROVE [Ch!Next]_Ch!vars
  <2>1. UNCHANGED <<made, faults, cuts>>
    BY <1>2 DEF Deliver, command
  <2>2. CASE Loses
    BY <2>2, LossIsFailure
  <2>3. ASSUME NEW e \in Events, Gets(e) PROVE [Ch!Next]_Ch!vars
    BY <2>1, <2>3, GetIsGet DEF Ch!Next, Inside
  <2> QED BY <1>2, <2>2, <2>3, DeliverKeeps
<1>3. CASE Redial \/ BackendEnds \/ BackendUp \/ Boot \/ StopDone \/ StartCommand \/ StartDone
  BY <1>3, LossIsFailure, RedialKeeps, BackendEndsKeeps, BackendUpKeeps, BootKeeps, StopDoneKeeps,
     StartCommandKeeps, StartDoneKeeps
<1>4. ASSUME NEW c \in {"stop", "restart"}, StopCommand(c) PROVE [Ch!Next]_Ch!vars
  BY <1>4, LossIsFailure, StopCommandKeeps
<1>5. ASSUME NEW s \in Socks, Opens(s) \/ DialFails(s) \/ Closes(s) \/ LinkLost(s) PROVE [Ch!Next]_Ch!vars
  BY <1>5, LossIsFailure, OpensKeeps, DialFailsKeeps, ClosesKeeps, LinkLostKeeps
<1>6. CASE UNCHANGED vars
  BY <1>6 DEF vars, Ch!vars, Kept, Sent
<1> QED BY <1>1, <1>2, <1>3, <1>4, <1>5, <1>6 DEF Next

LEMMA InitIsInit == Init => Ch!Init
<1> SUFFICES ASSUME Init PROVE Ch!Init
  OBVIOUS
<1>1. Inside = {}
  BY DEF Init, Inside
<1>2. ~(faults + cuts > 0) /\ ~(cuts > 0)
  BY DEF Init
<1> QED BY <1>1, <1>2 DEF Init, Ch!Init, Inside

\* The link implements the channel: whatever connections replace one another,
\* the backend reads each event at most once, in order until a command stops
\* it, and one is lost only to a fault, a command or a full queue.
THEOREM LinkImplementsChannel == Spec => ImplementsChannel
BY Invariance, InitIsInit, StepIsStep, PTL DEF Spec, ImplementsChannel, Ch!Spec

-----------------------------------------------------------------------------
(* Commands.                                                               *)

\* A set of natural numbers that is not empty has a least one.
LEMMA Least == ASSUME NEW S \in SUBSET Nat, S # {} PROVE \E m \in S : \A k \in S : m <= k
<1>1. PICK less : less = OpToRel(<, Nat)
      OBVIOUS
<1>2. IsWellFoundedOn(less, Nat)
      BY <1>1, NatLessThanWellFounded
<1>3. less = {ss \in Nat \X Nat : ss[1] < ss[2]}
      BY <1>1 DEF OpToRel
<1>4. PICK x \in S : \A y \in S : ~(<<y, x>> \in less)
      BY <1>2, WFMin
<1>5. ASSUME NEW y \in S PROVE x <= y
  <2>1. x \in Nat /\ y \in Nat
        OBVIOUS
  <2>2. <<y, x>> \in Nat \X Nat /\ <<y, x>>[1] = y /\ <<y, x>>[2] = x
        BY <2>1
  <2>3. ~(y < x)
        BY <1>3, <1>4, <2>2
  <2> QED BY <2>1, <2>3
<1> QED BY <1>5

LEMMA CommandsConstants ==
  ASSUME C!CommandsAssumption
  PROVE  /\ \A i \in C!Forms : /\ DOMAIN i.aliases \subseteq Nat
                               /\ \A m \in DOMAIN i.aliases : Len(i.aliases[m]) \in Nat
         /\ DOMAIN CommandItems \subseteq Nat /\ \A text \in Heard : Len(text) \in Nat
         /\ MaxAge \in Nat
BY DEF C!CommandsAssumption

\* An alias of a command that takes the danmaku, where p[1] is the command and
\* p[2] the alias.
Able(is, text, p) ==
  /\ p[1] \in DOMAIN is /\ p[2] \in DOMAIN is[p[1]].aliases
  /\ is[p[1]].enabled /\ is[p[1]].ability \notin Blocked
  /\ C!Takes(is[p[1]].ability, is[p[1]].aliases[p[2]], text)

\* What the list keeps of p.
Of(is, c, p) ==
  /\ c.at = p /\ c.alias = is[p[1]].aliases[p[2]]
  /\ c.item.id = is[p[1]].id /\ c.item.ability = is[p[1]].ability

LEMMA TableForms ==
  ASSUME NEW is \in C!Tables
  PROVE  /\ DOMAIN is = DOMAIN CommandItems
         /\ \A n \in DOMAIN is : is[n] \in C!Forms /\ is[n] \in CommandItems[n] /\ is[n].id \in C!Ids
<1>1. is \in [DOMAIN CommandItems -> C!Forms] /\ \A n \in DOMAIN CommandItems : is[n] \in CommandItems[n]
      BY DEF C!Tables
<1>2. \A n \in DOMAIN CommandItems : is[n].id \in C!Ids
      BY <1>1 DEF C!Ids
<1> QED BY <1>1, <1>2

LEMMA ListedIs ==
  ASSUME NEW is \in C!Tables, NEW c
  PROVE  c \in C!Listed(is) <=>
           \E n \in DOMAIN is : /\ is[n].enabled /\ is[n].ability \notin Blocked
                                /\ \E m \in DOMAIN is[n].aliases :
                                     c = [item |-> is[n], alias |-> is[n].aliases[m], at |-> <<n, m>>]
BY DEF C!Listed

\* The longest alias goes before every shorter one, and never is longer than
\* the danmaku it takes.
LEMMA TakesLength ==
  ASSUME NEW ability, NEW alias, NEW text, Len(alias) \in Nat, C!Takes(ability, alias, text)
  PROVE  Len(alias) <= Len(text)
<1>1. CASE ability = "jukebox_add_song"
      BY <1>1 DEF C!Takes, C!IsStrictPrefix, C!IsPrefix
<1>2. CASE ability # "jukebox_add_song"
      BY <1>2 DEF C!Takes
<1> QED BY <1>1, <1>2

\* The fields of a candidate that the sort compares.
Ranked(c) == /\ Len(c.alias) \in Nat
             /\ c.at[1] \in Nat /\ c.at[2] \in Nat

LEMMA FirstIs ==
  ASSUME NEW S, S # {}, NEW top \in Nat, \A c \in S : Ranked(c) /\ Len(c.alias) <= top
  PROVE  /\ C!First(S) \in S
         /\ \A d \in S : Len(d.alias) <= Len(C!First(S).alias)
<1>1. PICK room : room = [c \in S |-> top - Len(c.alias)]
      OBVIOUS
<1>2. \A c \in S : room[c] \in Nat /\ room[c] = top - Len(c.alias) /\ Len(c.alias) \in Nat
      BY <1>1 DEF Ranked
<1>3. PICK k \in {room[c] : c \in S} : \A j \in {room[c] : c \in S} : k <= j
  <2>1. {room[c] : c \in S} \in SUBSET Nat /\ {room[c] : c \in S} # {}
        BY <1>2
  <2> QED BY <2>1, Least
<1>4. PICK T : T = {c \in S : room[c] = k}
      OBVIOUS
<1>5. T # {} /\ \A c \in T : c.at[1] \in Nat /\ c.at[2] \in Nat
      BY <1>3, <1>4 DEF Ranked
<1>6. PICK n \in {c.at[1] : c \in T} : \A j \in {c.at[1] : c \in T} : n <= j
  <2>1. {c.at[1] : c \in T} \in SUBSET Nat /\ {c.at[1] : c \in T} # {}
        BY <1>5
  <2> QED BY <2>1, Least
<1>7. PICK V : V = {c \in T : c.at[1] = n}
      OBVIOUS
<1>8. V # {} /\ \A c \in V : c.at[2] \in Nat
      BY <1>5, <1>6, <1>7
<1>9. PICK m \in {c.at[2] : c \in V} : \A j \in {c.at[2] : c \in V} : m <= j
  <2>1. {c.at[2] : c \in V} \in SUBSET Nat /\ {c.at[2] : c \in V} # {}
        BY <1>8
  <2> QED BY <2>1, Least
<1>10. PICK c \in V : c.at[2] = m
      BY <1>9
<1>11. c \in S /\ room[c] = k /\ c.at[1] = n
      BY <1>4, <1>7, <1>10
<1>12. ASSUME NEW d \in S PROVE C!Before(c, d)
  <2>1. k <= room[d] /\ room[d] = top - Len(d.alias) /\ k = top - Len(c.alias)
        BY <1>2, <1>3, <1>11
  <2>2. Len(c.alias) \in Nat /\ Len(d.alias) \in Nat
        BY <1>2, <1>11
  <2>3. CASE room[d] # k
    <3>1. Len(c.alias) > Len(d.alias)
          BY <2>1, <2>2, <2>3, <1>2
    <3> QED BY <3>1 DEF C!Before
  <2>4. CASE room[d] = k
    <3>1. Len(c.alias) = Len(d.alias)
          BY <2>1, <2>2, <2>4
    <3>2. d \in T /\ d.at[1] \in Nat /\ n \in Nat /\ n <= d.at[1]
          BY <1>4, <1>5, <1>6, <2>4
    <3>3. CASE n < d.at[1]
          BY <3>1, <3>3, <1>11 DEF C!Before
    <3>4. CASE n = d.at[1]
      <4>1. d \in V
            BY <1>7, <3>2, <3>4
      <4>2. m <= d.at[2]
            BY <1>9, <4>1
      <4> QED BY <3>1, <3>4, <4>2, <1>10, <1>11 DEF C!Before
    <3> QED BY <3>2, <3>3, <3>4
  <2> QED BY <2>3, <2>4
<1>13. C!First(S) \in S /\ \A d \in S : C!Before(C!First(S), d)
      BY <1>11, <1>12 DEF C!First
<1>14. ASSUME NEW d \in S PROVE Len(d.alias) <= Len(C!First(S).alias)
  <2>1. PICK f \in S : f = C!First(S)
        BY <1>13
  <2>2. Len(f.alias) \in Nat /\ Len(d.alias) \in Nat
        BY <1>2
  <2>3. C!Before(f, d)
        BY <1>13, <2>1
  <2> QED BY <2>1, <2>2, <2>3 DEF C!Before
<1> QED BY <1>13, <1>14

\* A list made of commands with the same signature is as good as a new one.
LEMMA SameSignature ==
  ASSUME NEW is \in C!Tables, NEW js \in C!Tables, C!Signature(js) = C!Signature(is)
  PROVE  \A n \in DOMAIN is :
           /\ n \in DOMAIN js /\ js[n].id = is[n].id /\ js[n].enabled = is[n].enabled
           /\ js[n].ability = is[n].ability /\ js[n].aliases = is[n].aliases
<1>1. DOMAIN is = DOMAIN js
      BY TableForms
<1> SUFFICES ASSUME NEW n \in DOMAIN is
             PROVE  /\ js[n].id = is[n].id /\ js[n].enabled = is[n].enabled
                    /\ js[n].ability = is[n].ability /\ js[n].aliases = is[n].aliases
    BY <1>1
<1>2. C!Signature(is)[n] = <<is[n].id, is[n].enabled, is[n].ability, is[n].aliases>>
      BY DEF C!Signature
<1>3. C!Signature(js)[n] = <<js[n].id, js[n].enabled, js[n].ability, js[n].aliases>>
      BY <1>1 DEF C!Signature
<1>4. <<is[n].id, is[n].enabled, is[n].ability, is[n].aliases>> = <<js[n].id, js[n].enabled, js[n].ability, js[n].aliases>>
      BY <1>2, <1>3
<1> QED BY <1>4

LEMMA MatchingIs ==
  ASSUME NEW is \in C!Tables, NEW js \in C!Tables, C!Signature(js) = C!Signature(is), NEW text
  PROVE  /\ \A c \in C!Matching(C!Listed(js), text) :
              \E n \in DOMAIN is : \E m \in DOMAIN is[n].aliases :
                 Able(is, text, <<n, m>>) /\ Of(is, c, <<n, m>>) /\ c.item \in C!Forms /\ c.item.id \in C!Ids
         /\ \A n \in DOMAIN is : \A m \in DOMAIN is[n].aliases :
              Able(is, text, <<n, m>>) => \E c \in C!Matching(C!Listed(js), text) : Of(is, c, <<n, m>>)
<1>1. \A n \in DOMAIN is : /\ n \in DOMAIN js /\ js[n].id = is[n].id /\ js[n].enabled = is[n].enabled
                           /\ js[n].ability = is[n].ability /\ js[n].aliases = is[n].aliases
      BY SameSignature
<1>2. DOMAIN js = DOMAIN is /\ \A n \in DOMAIN js : js[n] \in C!Forms /\ js[n].id \in C!Ids
      BY TableForms
<1>3. ASSUME NEW c \in C!Matching(C!Listed(js), text)
      PROVE  \E n \in DOMAIN is : \E m \in DOMAIN is[n].aliases :
                 Able(is, text, <<n, m>>) /\ Of(is, c, <<n, m>>) /\ c.item \in C!Forms /\ c.item.id \in C!Ids
  <2>1. c \in C!Listed(js) /\ C!Takes(c.item.ability, c.alias, text)
        BY DEF C!Matching
  <2>2. PICK n \in DOMAIN js : /\ js[n].enabled /\ js[n].ability \notin Blocked
                               /\ \E m \in DOMAIN js[n].aliases :
                                    c = [item |-> js[n], alias |-> js[n].aliases[m], at |-> <<n, m>>]
        BY <2>1, ListedIs
  <2>3. PICK m \in DOMAIN js[n].aliases : c = [item |-> js[n], alias |-> js[n].aliases[m], at |-> <<n, m>>]
        BY <2>2
  <2>4. c.item = js[n] /\ c.alias = js[n].aliases[m] /\ c.at = <<n, m>>
        BY <2>3
  <2>5. /\ n \in DOMAIN is /\ js[n].id = is[n].id /\ js[n].enabled = is[n].enabled
        /\ js[n].ability = is[n].ability /\ js[n].aliases = is[n].aliases
        BY <1>1, <1>2
  <2>6. Able(is, text, <<n, m>>)
        BY <2>1, <2>2, <2>4, <2>5 DEF Able
  <2>7. Of(is, c, <<n, m>>)
        BY <2>4, <2>5 DEF Of
  <2> QED BY <2>4, <2>5, <2>6, <2>7, <1>2
<1>4. ASSUME NEW n \in DOMAIN is, NEW m \in DOMAIN is[n].aliases, Able(is, text, <<n, m>>)
      PROVE  \E c \in C!Matching(C!Listed(js), text) : Of(is, c, <<n, m>>)
  <2>1. PICK c : c = [item |-> js[n], alias |-> js[n].aliases[m], at |-> <<n, m>>]
        OBVIOUS
  <2>2. c.item = js[n] /\ c.alias = js[n].aliases[m] /\ c.at = <<n, m>>
        BY <2>1
  <2>3. /\ n \in DOMAIN js /\ js[n].id = is[n].id /\ js[n].enabled = is[n].enabled
        /\ js[n].ability = is[n].ability /\ js[n].aliases = is[n].aliases
        BY <1>1
  <2>4. is[n].enabled /\ is[n].ability \notin Blocked /\ C!Takes(is[n].ability, is[n].aliases[m], text)
        BY <1>4 DEF Able
  <2>5. js[n].enabled /\ js[n].ability \notin Blocked /\ m \in DOMAIN js[n].aliases
        BY <2>3, <2>4
  <2>6. c \in C!Listed(js)
        BY <2>1, <2>3, <2>5, ListedIs
  <2>7. c \in C!Matching(C!Listed(js), text)
        BY <2>2, <2>3, <2>4, <2>6 DEF C!Matching
  <2>8. Of(is, c, <<n, m>>)
        BY <2>2, <2>3 DEF Of
  <2> QED BY <2>7, <2>8
<1> QED BY <1>3, <1>4

\* The danmaku h belongs to the longest alias that takes it, in the commands is.
Rightly(is, h) ==
  \/ /\ h.id = "none" /\ ~h.ran
     /\ \A n \in DOMAIN is : \A m \in DOMAIN is[n].aliases : ~Able(is, h.text, <<n, m>>)
  \/ \E n \in DOMAIN is : \E m \in DOMAIN is[n].aliases :
       /\ Able(is, h.text, <<n, m>>) /\ is[n].id = h.id
       /\ \A j \in DOMAIN is : \A k \in DOMAIN is[j].aliases :
            Able(is, h.text, <<j, k>>) => Len(is[j].aliases[k]) <= Len(is[n].aliases[m])

\* The list that is kept was made of commands with the signature that is kept.
ListKept ==
  \/ signature = <<>> /\ candidates = {}
  \/ \E js \in C!Tables : signature = C!Signature(js) /\ candidates = C!Listed(js)

CommandsInv == C!TypeOK /\ ListKept /\ (hit = C!NoHit \/ Rightly(items, hit))

LEMMA RightlyDoes == ASSUME CommandsInv PROVE C!RightCommand
<1> DEFINE A == {p \in UNION {{n} \X DOMAIN items[n].aliases : n \in DOMAIN items} :
                   /\ items[p[1]].enabled /\ items[p[1]].ability \notin Blocked
                   /\ C!Takes(items[p[1]].ability, items[p[1]].aliases[p[2]], hit.text)}
<1> SUFFICES ASSUME hit # C!NoHit
             PROVE  IF A = {} THEN hit.id = "none" /\ ~hit.ran
                    ELSE \E p \in A : items[p[1]].id = hit.id /\
                           \A q \in A : Len(items[q[1]].aliases[q[2]]) <= Len(items[p[1]].aliases[p[2]])
    BY DEF C!RightCommand
<1>1. \A p \in A : \E n \in DOMAIN items : \E m \in DOMAIN items[n].aliases : p = <<n, m>> /\ Able(items, hit.text, <<n, m>>)
  <2> SUFFICES ASSUME NEW p \in A
               PROVE  \E n \in DOMAIN items : \E m \in DOMAIN items[n].aliases : p = <<n, m>> /\ Able(items, hit.text, <<n, m>>)
      OBVIOUS
  <2>1. PICK n \in DOMAIN items : p \in {n} \X DOMAIN items[n].aliases
        OBVIOUS
  <2>2. PICK m \in DOMAIN items[n].aliases : p = <<n, m>>
        BY <2>1
  <2> QED BY <2>2 DEF Able
<1>2. \A n \in DOMAIN items : \A m \in DOMAIN items[n].aliases : Able(items, hit.text, <<n, m>>) => <<n, m>> \in A
  <2> SUFFICES ASSUME NEW n \in DOMAIN items, NEW m \in DOMAIN items[n].aliases, Able(items, hit.text, <<n, m>>)
               PROVE  <<n, m>> \in A
      OBVIOUS
  <2>1. <<n, m>> \in UNION {{j} \X DOMAIN items[j].aliases : j \in DOMAIN items}
        OBVIOUS
  <2> QED BY <2>1 DEF Able
<1>3. Rightly(items, hit)
      BY DEF CommandsInv
<1>4. CASE /\ hit.id = "none" /\ ~hit.ran
           /\ \A n \in DOMAIN items : \A m \in DOMAIN items[n].aliases : ~Able(items, hit.text, <<n, m>>)
  <2>1. A = {}
        BY <1>1, <1>4
  <2> HIDE DEF A
  <2> QED BY <1>4, <2>1
<1>5. ASSUME NEW n \in DOMAIN items, NEW m \in DOMAIN items[n].aliases,
             Able(items, hit.text, <<n, m>>), items[n].id = hit.id,
             \A j \in DOMAIN items : \A k \in DOMAIN items[j].aliases :
                Able(items, hit.text, <<j, k>>) => Len(items[j].aliases[k]) <= Len(items[n].aliases[m])
      PROVE  \E p \in A : items[p[1]].id = hit.id /\
                \A q \in A : Len(items[q[1]].aliases[q[2]]) <= Len(items[p[1]].aliases[p[2]])
  <2>1. PICK p : p = <<n, m>>
        OBVIOUS
  <2>2. p \in A /\ p[1] = n /\ p[2] = m
        BY <1>2, <1>5, <2>1
  <2>3. ASSUME NEW q \in A PROVE Len(items[q[1]].aliases[q[2]]) <= Len(items[p[1]].aliases[p[2]])
    <3>1. PICK j \in DOMAIN items : \E k \in DOMAIN items[j].aliases : q = <<j, k>> /\ Able(items, hit.text, <<j, k>>)
          BY <1>1
    <3>2. PICK k \in DOMAIN items[j].aliases : q = <<j, k>> /\ Able(items, hit.text, <<j, k>>)
          BY <3>1
    <3>3. q[1] = j /\ q[2] = k
          BY <3>2
    <3> QED BY <1>5, <2>2, <3>2, <3>3
  <2> QED BY <1>5, <2>2, <2>3
<1>6. CASE \E n \in DOMAIN items : \E m \in DOMAIN items[n].aliases :
             /\ Able(items, hit.text, <<n, m>>) /\ items[n].id = hit.id
             /\ \A j \in DOMAIN items : \A k \in DOMAIN items[j].aliases :
                  Able(items, hit.text, <<j, k>>) => Len(items[j].aliases[k]) <= Len(items[n].aliases[m])
  <2>1. \E p \in A : items[p[1]].id = hit.id /\
                \A q \in A : Len(items[q[1]].aliases[q[2]]) <= Len(items[p[1]].aliases[p[2]])
        BY <1>5, <1>6
  <2> HIDE DEF A
  <2>2. A # {}
        BY <2>1
  <2> QED BY <2>1, <2>2
<1> QED BY <1>3, <1>4, <1>6 DEF Rightly

\* What the list gives for a danmaku.
LEMMA FitIs ==
  ASSUME C!CommandsAssumption, NEW is \in C!Tables, NEW js \in C!Tables, C!Signature(js) = C!Signature(is),
         NEW text \in Heard, NEW fit, fit = C!Matching(C!Listed(js), text), NEW it, it = C!First(fit).item, NEW h, 
         h.text = text, h.id = IF fit = {} THEN "none" ELSE it.id, fit = {} => ~h.ran
  PROVE  Rightly(is, h) /\ (fit # {} => it \in C!Forms /\ it.id \in C!Ids)
<1>1. \A c \in fit : \E n \in DOMAIN is : \E m \in DOMAIN is[n].aliases :
         Able(is, text, <<n, m>>) /\ Of(is, c, <<n, m>>) /\ c.item \in C!Forms /\ c.item.id \in C!Ids
      BY MatchingIs
<1>2. \A n \in DOMAIN is : \A m \in DOMAIN is[n].aliases :
        Able(is, text, <<n, m>>) => \E c \in fit : Of(is, c, <<n, m>>)
      BY MatchingIs
<1>3. CASE fit = {}
  <2>1. \A n \in DOMAIN is : \A m \in DOMAIN is[n].aliases : ~Able(is, text, <<n, m>>)
        BY <1>2, <1>3
  <2> QED BY <1>3, <2>1 DEF Rightly
<1>4. CASE fit # {}
  <2>1. Len(text) \in Nat
        BY CommandsConstants
  <2>2. ASSUME NEW c \in fit PROVE Ranked(c) /\ Len(c.alias) <= Len(text)
    <3>1. PICK n \in DOMAIN is : \E m \in DOMAIN is[n].aliases : Able(is, text, <<n, m>>) /\ Of(is, c, <<n, m>>)
          BY <1>1
    <3>2. PICK m \in DOMAIN is[n].aliases : Able(is, text, <<n, m>>) /\ Of(is, c, <<n, m>>)
          BY <3>1
    <3>3. c.at[1] = n /\ c.at[2] = m /\ c.alias = is[n].aliases[m]
          BY <3>2 DEF Of
    <3>4. is[n] \in C!Forms /\ n \in DOMAIN CommandItems
          BY TableForms
    <3>5. n \in Nat /\ m \in Nat /\ Len(is[n].aliases[m]) \in Nat
          BY <3>4, CommandsConstants
    <3>6. C!Takes(is[n].ability, is[n].aliases[m], text)
          BY <3>2 DEF Able
    <3>7. Len(is[n].aliases[m]) <= Len(text)
          BY <3>5, <3>6, TakesLength
    <3> QED BY <3>3, <3>5, <3>7 DEF Ranked
  <2>3. C!First(fit) \in fit /\ \A d \in fit : Len(d.alias) <= Len(C!First(fit).alias)
        BY <1>4, <2>1, <2>2, FirstIs
  <2>4. PICK c \in fit : c = C!First(fit)
        BY <2>3
  <2>5. PICK n \in DOMAIN is : \E m \in DOMAIN is[n].aliases :
          Able(is, text, <<n, m>>) /\ Of(is, c, <<n, m>>) /\ c.item \in C!Forms /\ c.item.id \in C!Ids
        BY <1>1
  <2>6. PICK m \in DOMAIN is[n].aliases :
          Able(is, text, <<n, m>>) /\ Of(is, c, <<n, m>>) /\ c.item \in C!Forms /\ c.item.id \in C!Ids
        BY <2>5
  <2>7. c.item = it /\ is[n].id = h.id /\ c.alias = is[n].aliases[m]
        BY <1>4, <2>4, <2>6 DEF Of
  <2>8. ASSUME NEW j \in DOMAIN is, NEW k \in DOMAIN is[j].aliases, Able(is, text, <<j, k>>)
        PROVE  Len(is[j].aliases[k]) <= Len(is[n].aliases[m])
    <3>1. PICK d \in fit : Of(is, d, <<j, k>>)
          BY <1>2, <2>8
    <3>2. d.alias = is[j].aliases[k]
          BY <3>1 DEF Of
    <3> QED BY <2>3, <2>4, <2>7, <3>1, <3>2
  <2> QED BY <2>6, <2>7, <2>8 DEF Rightly
<1> QED BY <1>3, <1>4

LEMMA NothingListed == ASSUME NEW is \in C!Tables, C!Signature(is) = <<>> PROVE C!Listed(is) = {}
<1>1. DOMAIN C!Signature(is) = DOMAIN is
      BY DEF C!Signature
<1>2. PICK s : s = C!Signature(is)
      OBVIOUS
<1>3. DOMAIN s = {}
  <2>1. s = <<>>
        BY <1>2
  <2> QED BY <2>1
<1>4. DOMAIN is = {}
      BY <1>1, <1>2, <1>3
<1>5. \A c : c \notin C!Listed(is)
      BY <1>4, ListedIs
<1> QED BY <1>5

LEMMA DanmakuStep ==
  ASSUME C!CommandsAssumption, CommandsInv, NEW text \in Heard, NEW user \in Senders \cup {C!Nobody},
         C!Danmaku(text, user)
  PROVE  CommandsInv'
<1>1. PICK cs : cs = IF C!Signature(items) = signature THEN candidates ELSE C!Listed(items)
      OBVIOUS
<1>2. PICK fit : fit = C!Matching(cs, text)
      OBVIOUS
<1>3. PICK it : it = C!First(fit).item
      OBVIOUS
<1>4. PICK ran : ran = (fit # {} /\ C!Has(it, user) /\ C!Cool(it, user))
      OBVIOUS
<1>5. /\ candidates' = cs /\ signature' = C!Signature(items)
      /\ hit' = [id |-> IF fit = {} THEN "none" ELSE it.id, text |-> text, user |-> user, ran |-> ran, owner |-> playing]
      /\ IF ran THEN C!Run(it, user) /\ C!Mark(it, user) ELSE UNCHANGED <<queue, playing, globalLast, userLast>>
      /\ items' = items
  BY <1>1, <1>2, <1>3, <1>4 DEF C!Danmaku
<1>6. items \in C!Tables
      BY DEF CommandsInv, C!TypeOK
<1>7. PICK is \in C!Tables : is = items
      BY <1>6
<1>8. \E js \in C!Tables : C!Signature(js) = C!Signature(is) /\ cs = C!Listed(js)
  <2>1. CASE C!Signature(items) # signature
        BY <1>1, <1>7, <2>1
  <2>2. CASE C!Signature(items) = signature /\ signature = <<>> /\ candidates = {}
        BY <1>1, <1>7, <2>2, NothingListed
  <2>3. CASE /\ C!Signature(items) = signature
             /\ \E js \in C!Tables : signature = C!Signature(js) /\ candidates = C!Listed(js)
        BY <1>1, <1>7, <2>3
  <2> QED BY <2>1, <2>2, <2>3 DEF CommandsInv, ListKept
<1>9. PICK js \in C!Tables : C!Signature(js) = C!Signature(is) /\ cs = C!Listed(js)
      BY <1>8
<1>10. PICK h : h = hit'
       OBVIOUS
<1>11. h.text = text /\ h.id = (IF fit = {} THEN "none" ELSE it.id) /\ h.ran = ran
       BY <1>5, <1>10
<1>12. Rightly(is, h) /\ (fit # {} => it \in C!Forms /\ it.id \in C!Ids)
       BY <1>2, <1>3, <1>4, <1>9, <1>11, FitIs
<1>13. Rightly(items, hit)'
       BY <1>5, <1>7, <1>10, <1>12
<1>14. ListKept'
  <2>1. signature' = C!Signature(js) /\ candidates' = C!Listed(js)
        BY <1>5, <1>7, <1>9
  <2> QED BY <2>1 DEF ListKept
<1>15. C!TypeOK'
  <2>1. CASE ~ran
        BY <1>5, <2>1 DEF CommandsInv, C!TypeOK
  <2>2. CASE ran
    <3>1. it.id \in C!Ids /\ C!Run(it, user) /\ C!Mark(it, user)
          BY <1>4, <1>5, <1>12, <2>2
    <3>2. /\ queue \in Seq(C!Uids \cup {"system"}) /\ playing \in C!Uids \cup {"system", "none"}
          /\ globalLast \in [C!Ids -> 0..MaxAge] /\ userLast \in [C!Ids \X C!Uids -> 0..MaxAge]
          BY DEF CommandsInv, C!TypeOK
    <3>3. queue' \in Seq(C!Uids \cup {"system"}) /\ playing' \in C!Uids \cup {"system", "none"}
      <4>1. CASE it.ability = "jukebox_add_song"
        <5>1. C!Order(C!Nobody, "none")
              BY <3>1, <4>1 DEF C!Run
        <5>2. (queue' = queue \/ queue' = Append(queue, "system")) /\ playing' = playing
              BY <5>1 DEF C!Order
        <5>3. PICK T : T = C!Uids \cup {"system"}
              OBVIOUS
        <5>4. "system" \in T /\ queue \in Seq(T)
              BY <3>2, <5>3
        <5>5. queue' \in Seq(T)
              BY <5>2, <5>4, AppendProperties
        <5> QED BY <3>2, <5>2, <5>3, <5>5
      <4>2. CASE it.ability # "jukebox_add_song"
        <5>1. C!Skip(C!Nobody, it.selfOnly)
              BY <3>1, <4>2 DEF C!Run
        <5>2. queue' = queue /\ (playing' = playing \/ playing' = "none")
              BY <5>1 DEF C!Skip
        <5> QED BY <3>2, <5>2
      <4> QED BY <4>1, <4>2
    <3>4. MaxAge \in Nat /\ 0 \in 0..MaxAge
          BY CommandsConstants
    <3>5. globalLast' \in [C!Ids -> 0..MaxAge]
          BY <3>1, <3>2, <3>4 DEF C!Mark
    <3>6. userLast' \in [C!Ids \X C!Uids -> 0..MaxAge]
      <4>1. CASE user = C!Nobody
            BY <3>1, <3>2, <4>1 DEF C!Mark
      <4>2. CASE user # C!Nobody
        <5>1. user.uid \in C!Uids
              BY <4>2 DEF C!Uids
        <5>2. PICK pair \in C!Ids \X C!Uids : pair = <<it.id, user.uid>>
              BY <3>1, <5>1
        <5>3. userLast' = [userLast EXCEPT ![pair] = 0]
              BY <3>1, <4>2, <5>2 DEF C!Mark
        <5> QED BY <3>2, <3>4, <5>3
      <4> QED BY <4>1, <4>2
    <3>7. items' \in C!Tables
          BY <1>5, <1>6
    <3> QED BY <3>3, <3>5, <3>6, <3>7 DEF C!TypeOK
  <2> QED BY <1>4, <2>1, <2>2
<1> QED BY <1>13, <1>14, <1>15 DEF CommandsInv

LEMMA OtherCommandsSteps ==
  ASSUME C!CommandsAssumption, CommandsInv,
         \/ \E n \in DOMAIN items : \E i \in CommandItems[n] : C!Edit(n, i)
         \/ \E given \in C!Uids \cup {"none"} : C!BrainOrders(given)
         \/ C!Plays \/ C!Tick
  PROVE  CommandsInv'
<1>1. /\ queue \in Seq(C!Uids \cup {"system"}) /\ playing \in C!Uids \cup {"system", "none"}
      /\ globalLast \in [C!Ids -> 0..MaxAge] /\ userLast \in [C!Ids \X C!Uids -> 0..MaxAge]
      /\ items \in C!Tables
  BY DEF CommandsInv, C!TypeOK
<1>2. hit' = C!NoHit /\ signature' = signature /\ candidates' = candidates
      BY DEF C!Edit, C!BrainOrders, C!Plays, C!Tick
<1>3. ListKept'
      BY <1>2 DEF CommandsInv, ListKept
<1>4. ASSUME NEW n \in DOMAIN items, NEW i \in CommandItems[n], C!Edit(n, i)
      PROVE  C!TypeOK'
  <2>1. items' = [items EXCEPT ![n] = i] /\ UNCHANGED <<queue, playing, globalLast, userLast>>
        BY <1>4 DEF C!Edit
  <2>2. items \in [DOMAIN CommandItems -> C!Forms] /\ \A m \in DOMAIN CommandItems : items[m] \in CommandItems[m]
        BY <1>1 DEF C!Tables
  <2>3. i \in C!Forms
        BY <2>2 DEF C!Forms
  <2>4. items' \in [DOMAIN CommandItems -> C!Forms] /\ \A m \in DOMAIN CommandItems : items'[m] \in CommandItems[m]
        BY <2>1, <2>2, <2>3
  <2>5. items' \in C!Tables
        BY <2>4 DEF C!Tables
  <2> QED BY <1>1, <2>1, <2>5 DEF C!TypeOK
<1>5. ASSUME NEW given \in C!Uids \cup {"none"}, C!BrainOrders(given)
      PROVE  C!TypeOK'
  <2>1. PICK T : T = C!Uids \cup {"system"}
        OBVIOUS
  <2>2. PICK who : who = IF given # "none" THEN given ELSE "system"
        OBVIOUS
  <2>3. who \in T /\ queue \in Seq(T)
        BY <1>1, <2>1, <2>2
  <2>4. queue' = queue \/ queue' = Append(queue, who)
        BY <1>5, <2>2 DEF C!BrainOrders, C!Order
  <2>5. queue' \in Seq(T)
        BY <2>3, <2>4, AppendProperties
  <2>6. UNCHANGED <<playing, items, globalLast, userLast>>
        BY <1>5 DEF C!BrainOrders, C!Order
  <2> QED BY <1>1, <2>1, <2>5, <2>6 DEF C!TypeOK
<1>6. ASSUME C!Plays PROVE C!TypeOK'
  <2>1. PICK T : T = C!Uids \cup {"system"}
        OBVIOUS
  <2>2. queue \in Seq(T) /\ queue # <<>>
        BY <1>1, <1>6, <2>1 DEF C!Plays
  <2>3. Head(queue) \in T /\ Tail(queue) \in Seq(T)
        BY <2>2, HeadTailProperties
  <2>4. playing' = Head(queue) /\ queue' = Tail(queue) /\ UNCHANGED <<items, globalLast, userLast>>
        BY <1>6 DEF C!Plays
  <2> QED BY <1>1, <2>1, <2>3, <2>4 DEF C!TypeOK
<1>7. ASSUME C!Tick PROVE C!TypeOK'
  <2>1. \A a \in 0..MaxAge : C!Older(a) \in 0..MaxAge
        BY CommandsConstants DEF C!Older
  <2>2. /\ globalLast' = [id \in C!Ids |-> C!Older(globalLast[id])]
        /\ userLast' = [p \in C!Ids \X C!Uids |-> C!Older(userLast[p])]
        /\ UNCHANGED <<items, queue, playing>>
        BY <1>7 DEF C!Tick
  <2>3. globalLast' \in [C!Ids -> 0..MaxAge]
        BY <1>1, <2>1, <2>2
  <2>4. userLast' \in [C!Ids \X C!Uids -> 0..MaxAge]
        BY <1>1, <2>1, <2>2
  <2> QED BY <1>1, <2>2, <2>3, <2>4 DEF C!TypeOK
<1>8. C!TypeOK'
      BY <1>4, <1>5, <1>6, <1>7
<1> QED BY <1>2, <1>3, <1>8 DEF CommandsInv

LEMMA CommandsInit == ASSUME C!CommandsAssumption, C!Init PROVE CommandsInv
<1>1. \A S : <<>> \in Seq(S)
      OBVIOUS
<1>2. MaxAge \in 0..MaxAge
      BY CommandsConstants
<1>3. C!TypeOK
      BY <1>1, <1>2 DEF C!Init, C!TypeOK
<1>4. hit = C!NoHit /\ ListKept
      BY DEF C!Init, ListKept
<1> QED BY <1>3, <1>4 DEF CommandsInv

\* The list of aliases is never worth less than the commands it was made of,
\* and the danmaku was given as they are.
THEOREM CommandsInvariance == RoomSpec => [](part = "commands" => CommandsInv)
<1>1. RoomInit => (part = "commands" => CommandsInv)
      BY RoomAssumption, CommandsInit DEF RoomInit
<1>2. (part = "commands" => CommandsInv) /\ [RoomNext]_<<part, vars, commands, rules>> => (part = "commands" => CommandsInv)'
  <2> SUFFICES ASSUME part = "commands" => CommandsInv, [RoomNext]_<<part, vars, commands, rules>>, part' = "commands"
               PROVE  CommandsInv'
      OBVIOUS
  <2>1. part = "commands"
        BY DEF RoomNext
  <2>2. CASE UNCHANGED commands
        BY <2>1, <2>2 DEF commands, CommandsInv, C!TypeOK, ListKept
  <2>3. CASE C!Next
    <3>1. CASE \E text \in Heard, user \in Senders \cup {C!Nobody} : C!Danmaku(text, user)
          BY <2>1, <3>1, RoomAssumption, DanmakuStep
    <3>2. CASE \/ \E n \in DOMAIN items : \E i \in CommandItems[n] : C!Edit(n, i)
               \/ \E given \in C!Uids \cup {"none"} : C!BrainOrders(given)
               \/ C!Plays \/ C!Tick
          BY <2>1, <3>2, RoomAssumption, OtherCommandsSteps
    <3> QED BY <2>3, <3>1, <3>2 DEF C!Next
  <2>4. C!Next \/ UNCHANGED commands
        BY <2>1 DEF RoomNext
  <2> QED BY <2>2, <2>3, <2>4
<1> QED BY <1>1, <1>2, PTL DEF RoomSpec

\* However the commands have been edited since the list was made, a danmaku
\* belongs to the command of the longest alias that takes it as they are now.
THEOREM CommandsCorrect == RoomSpec => []RightCommand
<1>1. (part = "commands" => CommandsInv) => RightCommand
      BY RightlyDoes DEF RightCommand, CommandsInv
<1> QED BY <1>1, CommandsInvariance, PTL

-----------------------------------------------------------------------------
(* Rules.                                                                  *)

\* The condition c of a rule for events of type t, and an event e of that type.
Offers(t, c) == DOMAIN c \subseteq U!Offered[t] /\ \A k \in DOMAIN c : c[k] \in U!Entries(k)
Gives(t, e)  == /\ e.type = t /\ e.user \in U!Viewers
                /\ DOMAIN e.data \subseteq U!Carried[t] /\ \A k \in DOMAIN e.data : e.data[k] \in U!Datum(k)

\* The event fulfils the field, which is about a text if there is one.
Fulfils(k, c, e) == k \in DOMAIN c => U!Meant(k, c[k], e) \/ (k = "keywords" /\ U!Text(e) = <<>>)

LEMMA RuleOffers ==
  ASSUME NEW t \in U!Types, NEW r \in U!Rules(t)
  PROVE  r.type = t /\ Offers(t, r.condition)
<1>1. CASE r = [type |-> t, condition |-> <<>>]
  <2>1. PICK s : s = <<>>
        OBVIOUS
  <2>2. DOMAIN s = {}
        BY <2>1
  <2> QED BY <1>1, <2>1, <2>2 DEF Offers
<1>2. CASE \E j, k \in U!Offered[t] : \E v \in U!Entries(j), w \in U!Entries(k) :
              r = [type |-> t, condition |-> U!Two(j, v, k, w)]
  <2>1. PICK j \in U!Offered[t] : \E k \in U!Offered[t] : \E v \in U!Entries(j), w \in U!Entries(k) :
              r = [type |-> t, condition |-> U!Two(j, v, k, w)]
        BY <1>2
  <2>2. PICK k \in U!Offered[t] : \E v \in U!Entries(j), w \in U!Entries(k) :
              r = [type |-> t, condition |-> U!Two(j, v, k, w)]
        BY <2>1
  <2>3. PICK v \in U!Entries(j) : \E w \in U!Entries(k) : r = [type |-> t, condition |-> U!Two(j, v, k, w)]
        BY <2>2
  <2>4. PICK w \in U!Entries(k) : r = [type |-> t, condition |-> U!Two(j, v, k, w)]
        BY <2>3
  <2>5. PICK c : c = [x \in {j, k} |-> IF x = j THEN v ELSE w]
        OBVIOUS
  <2>6. DOMAIN c = {j, k} /\ \A x \in {j, k} : c[x] = IF x = j THEN v ELSE w
        BY <2>5
  <2>7. r.type = t /\ r.condition = c
        BY <2>4, <2>5 DEF U!Two
  <2>8. \A x \in DOMAIN c : c[x] \in U!Entries(x)
        BY <2>6
  <2>9. DOMAIN c \subseteq U!Offered[t]
        BY <2>6
  <2> QED BY <2>7, <2>8, <2>9 DEF Offers
<1> QED BY <1>1, <1>2 DEF U!Rules

LEMMA DataGiven ==
  ASSUME NEW t \in U!Types, NEW f \in U!Data(t), NEW u \in U!Viewers, NEW e, e = [type |-> t, data |-> f, user |-> u]
  PROVE  Gives(t, e)
<1>1. e.type = t /\ e.data = f /\ e.user = u
      OBVIOUS
<1>2. DOMAIN f \subseteq U!Carried[t] /\ \A k \in DOMAIN f : f[k] \in U!Datum(k)
  <2>1. CASE f = <<>>
    <3>1. DOMAIN f = {}
          BY <2>1
    <3> QED BY <3>1
  <2>2. CASE \E j, k \in U!Carried[t] : \E v \in U!Datum(j), w \in U!Datum(k) : f = U!Two(j, v, k, w)
    <3>1. PICK j \in U!Carried[t] : \E k \in U!Carried[t] : \E v \in U!Datum(j), w \in U!Datum(k) : f = U!Two(j, v, k, w)
          BY <2>2
    <3>2. PICK k \in U!Carried[t] : \E v \in U!Datum(j), w \in U!Datum(k) : f = U!Two(j, v, k, w)
          BY <3>1
    <3>3. PICK v \in U!Datum(j) : \E w \in U!Datum(k) : f = U!Two(j, v, k, w)
          BY <3>2
    <3>4. PICK w \in U!Datum(k) : f = U!Two(j, v, k, w)
          BY <3>3
    <3>5. DOMAIN f = {j, k} /\ \A x \in {j, k} : f[x] = IF x = j THEN v ELSE w
          BY <3>4 DEF U!Two
    <3> QED BY <3>5
  <2> QED BY <2>1, <2>2 DEF U!Data
<1> QED BY <1>1, <1>2 DEF Gives

\* What a condition holds for its fields.
LEMMA EntriesAre ==
  /\ \A k \in U!Lists : U!Entries(k) \subseteq SUBSET (Words \cup {"("}) /\ {} \notin U!Entries(k)
  /\ \A k \in U!Lists \ {"regex"} : U!Entries(k) \subseteq SUBSET Words
  /\ \A k \in U!Mins : U!Entries(k) = Numbers \ {0}
  /\ \A k \in U!Flags : U!Entries(k) = BOOLEAN
  /\ U!Entries("uids") = {{"u"}}
  /\ U!Entries("guardLevels") = {{1}, {2, 3}}
<1>1. \A k \in U!Lists : U!Entries(k) \subseteq SUBSET (Words \cup {"("}) /\ {} \notin U!Entries(k)
      BY DEF U!Entries
<1>2. \A k \in U!Lists \ {"regex"} : U!Entries(k) \subseteq SUBSET Words
      BY DEF U!Entries
<1>3. \A k \in U!Mins : U!Entries(k) = Numbers \ {0}
      BY DEF U!Entries, U!Lists, U!Mins
<1>4. \A k \in U!Flags : U!Entries(k) = BOOLEAN
      BY DEF U!Entries, U!Lists, U!Mins, U!Flags
<1>5. U!Entries("uids") = {{"u"}}
      BY DEF U!Entries, U!Lists, U!Mins, U!Flags
<1>6. U!Entries("guardLevels") = {{1}, {2, 3}}
      BY DEF U!Entries, U!Lists, U!Mins, U!Flags
<1> QED BY <1>1, <1>2, <1>3, <1>4, <1>5, <1>6

\* What each field means.
LEMMA MeantIs ==
  ASSUME NEW v, NEW e
  PROVE  /\ \A k \in {"keywords", "regex"} : U!Meant(k, v, e) <=> \E n \in DOMAIN U!Text(e) : U!Text(e)[n] \in v
         /\ U!Meant("startsWith", v, e) <=> \E w \in v : U!IsPrefix(<<w>>, U!Text(e))
         /\ \A k \in {"giftName", "userName", "ability", "modelName"} :
              U!Meant(k, v, e) <=> \E w \in v : U!Name(k, e) = <<w>>
         /\ \A k \in {"giftNameContains", "titleContains", "byContains"} :
              U!Meant(k, v, e) <=> \E n \in DOMAIN U!Name(k, e) : U!Name(k, e)[n] \in v
         /\ U!Meant("maxPrice", v, e) <=> U!Number("maxPrice", e) <= v
         /\ \A k \in U!Mins \ {"maxPrice"} : U!Meant(k, v, e) <=> U!Number(k, e) >= v
         /\ U!Meant("guardLevels", v, e) <=> U!Number("guardLevels", e) \in v
         /\ U!Meant("uids", v, e) <=> "uid" \in DOMAIN e.user /\ e.user.uid \in v
<1>1. \A k \in {"keywords", "regex"} : U!Meant(k, v, e) <=> \E n \in DOMAIN U!Text(e) : U!Text(e)[n] \in v
      BY DEF U!Meant, U!Mins
<1>2. U!Meant("startsWith", v, e) <=> \E w \in v : U!IsPrefix(<<w>>, U!Text(e))
      BY DEF U!Meant, U!Mins
<1>3. \A k \in {"giftName", "userName", "ability", "modelName"} :
              U!Meant(k, v, e) <=> \E w \in v : U!Name(k, e) = <<w>>
      BY DEF U!Meant, U!Mins
<1>4. \A k \in {"giftNameContains", "titleContains", "byContains"} :
              U!Meant(k, v, e) <=> \E n \in DOMAIN U!Name(k, e) : U!Name(k, e)[n] \in v
      BY DEF U!Meant, U!Mins
<1>5. U!Meant("maxPrice", v, e) <=> U!Number("maxPrice", e) <= v
      BY DEF U!Meant, U!Mins
<1>6. \A k \in U!Mins \ {"maxPrice"} : U!Meant(k, v, e) <=> U!Number(k, e) >= v
      BY DEF U!Meant, U!Mins
<1>7. U!Meant("guardLevels", v, e) <=> U!Number("guardLevels", e) \in v
      BY DEF U!Meant, U!Mins
<1>8. U!Meant("uids", v, e) <=> "uid" \in DOMAIN e.user /\ e.user.uid \in v
      BY DEF U!Meant, U!Mins
<1> QED BY <1>1, <1>2, <1>3, <1>4, <1>5, <1>6, <1>7, <1>8

LEMMA FlagsMean ==
  ASSUME NEW v \in BOOLEAN, NEW e
  PROVE  /\ U!Meant("guardOnly", v, e) <=> (v = TRUE => U!Number("guardOnly", e) \in 1..3)
         /\ U!Meant("userRequestOnly", v, e) <=> (v = TRUE => U!Name("userRequestOnly", e) # <<>>)
         /\ U!Meant("okOnly", v, e) <=> (v = TRUE => U!Get(e.data, "ok", TRUE))
<1>1. U!Meant("guardOnly", v, e) <=> (v = TRUE => U!Number("guardOnly", e) \in 1..3)
      BY DEF U!Meant, U!Mins
<1>2. U!Meant("userRequestOnly", v, e) <=> (v = TRUE => U!Name("userRequestOnly", e) # <<>>)
      BY DEF U!Meant, U!Mins
<1>3. U!Meant("okOnly", v, e) <=> (v = TRUE => U!Get(e.data, "ok", TRUE))
      BY DEF U!Meant, U!Mins
<1> QED BY <1>1, <1>2, <1>3

\* The data the fields are about.
LEMMA NamesAre ==
  ASSUME NEW e
  PROVE  /\ U!Name("giftName", e) = U!Get(e.data, "giftName", <<>>)
         /\ U!Name("giftNameContains", e) = U!Get(e.data, "giftName", <<>>)
         /\ U!Name("titleContains", e) = U!Get(e.data, "title", <<>>)
         /\ U!Name("userName", e) = U!Get(e.data, "userName", <<>>)
         /\ U!Name("userRequestOnly", e) = U!Get(e.data, "userName", <<>>)
         /\ U!Name("byContains", e) = U!Get(e.data, "by", <<>>)
         /\ U!Name("ability", e) = U!Get(e.data, "command", <<>>)
         /\ U!Name("modelName", e) = U!Get(e.data, "model", <<>>)
BY DEF U!Name

LEMMA NumbersAre ==
  ASSUME NEW e
  PROVE  /\ U!Number("minPrice", e) = U!Get(e.data, "price", 0)
         /\ U!Number("maxPrice", e) = U!Get(e.data, "price", 0)
         /\ U!Number("minTotalPrice", e) = U!Get(e.data, "totalPrice", U!Get(e.data, "price", 0))
         /\ U!Number("minNum", e) = U!Get(e.data, "num", 1)
         /\ U!Number("minCount", e) = U!Get(e.data, "count", IF e.type = "like" THEN 1 ELSE 0)
         /\ U!Number("minPosition", e) = U!Get(e.data, "position", 0)
         /\ U!Number("minMedalLevel", e) = U!Get(e.user, "medal", 0)
         /\ U!Number("guardOnly", e) = U!Get(e.user, "guardLevel", 0)
         /\ U!Number("guardLevels", e) = U!Get(e.data, "guardLevel", U!Get(e.user, "guardLevel", 0))
BY DEF U!Number

\* A text is a sequence of words.
LEMMA TextsAre ==
  ASSUME NEW s \in U!Texts
  PROVE  /\ s \in Seq(Words) /\ Len(s) \in Nat /\ U!ToSet(s) = {s[n] : n \in DOMAIN s}
         /\ U!ToSet(s) \subseteq Words
         /\ \A w : U!IsPrefix(<<w>>, s) <=> s # <<>> /\ Head(s) = w
<1>1. s \in Seq(Words)
  <2>1. CASE s = <<>>
        BY <2>1
  <2>2. ASSUME NEW w \in Words, s = <<w>> PROVE s \in Seq(Words)
        BY <2>2
  <2>3. ASSUME NEW v \in Words, NEW w \in Words, s = <<v, w>> PROVE s \in Seq(Words)
        BY <2>3
  <2> QED BY <2>1, <2>2, <2>3 DEF U!Texts
<1>2. U!ToSet(s) = {s[n] : n \in DOMAIN s}
      BY DEF U!ToSet
<1>3. U!ToSet(s) \subseteq Words
      BY <1>1, <1>2
<1>4. ASSUME NEW w PROVE U!IsPrefix(<<w>>, s) <=> s # <<>> /\ Head(s) = w
  <2>1. PICK one : one = <<w>>
        OBVIOUS
  <2>2. Len(one) = 1 /\ one[1] = w /\ one \in Seq({w})
        BY <2>1
  <2>3. CASE s = <<>>
    <3>1. Len(s) = 0
          BY <2>3
    <3>2. ~(Len(one) <= Len(s))
          BY <2>2, <3>1
    <3>3. ~U!IsPrefix(one, s)
          BY <3>2 DEF U!IsPrefix
    <3> QED BY <2>1, <2>3, <3>3
  <2>4. CASE s # <<>>
    <3>1. Len(s) \in Nat /\ Len(s) >= 1 /\ Head(s) = s[1]
          BY <1>1, <2>4, EmptySeq
    <3>2. PICK a : a = SubSeq(one, 1, 1)
          OBVIOUS
    <3>3. PICK b : b = SubSeq(s, 1, 1)
          OBVIOUS
    <3>4. a \in Seq({w}) /\ Len(a) = 1 /\ a[1] = w
          BY <2>2, <3>2, SubSeqProperties
    <3>5. b \in Seq(Words) /\ Len(b) = 1 /\ b[1] = s[1]
          BY <1>1, <3>1, <3>3, SubSeqProperties
    <3>6. a = b <=> w = s[1]
      <4>1. a \in Seq(Words \cup {w}) /\ b \in Seq(Words \cup {w})
            BY <3>4, <3>5
      <4> QED BY <3>4, <3>5, <4>1, SeqEqual
    <3>7. U!IsPrefix(one, s) <=> a = b
          BY <2>2, <3>1, <3>2, <3>3 DEF U!IsPrefix
    <3> QED BY <2>1, <2>4, <3>1, <3>6, <3>7
  <2> QED BY <2>3, <2>4
<1> QED BY <1>1, <1>2, <1>3, <1>4

LEMMA TextIs ==
  ASSUME NEW t \in U!Types, NEW e, Gives(t, e)
  PROVE  /\ U!Text(e) \in U!Texts
         /\ \A k \in {"giftName", "title", "userName", "by", "command", "model"} : U!Get(e.data, k, <<>>) \in U!Texts
<1>1. \A k \in {"giftName", "title", "userName", "by", "command", "model", "content", "message"} : U!Datum(k) = U!Texts
      BY DEF U!Datum
<1>2. PICK none : none = <<>>
      OBVIOUS
<1>3. none \in U!Texts
      BY <1>2 DEF U!Texts
<1>4. \A k \in {"giftName", "title", "userName", "by", "command", "model", "content", "message"} :
         k \in DOMAIN e.data => e.data[k] \in U!Texts
      BY <1>1 DEF Gives
<1>5. \A k \in {"giftName", "title", "userName", "by", "command", "model"} : U!Get(e.data, k, none) \in U!Texts
      BY <1>3, <1>4 DEF U!Get
<1>6. U!Text(e) = U!Get(e.data, "content", U!Get(e.data, "message", none))
      BY <1>2 DEF U!Text
<1>7. U!Text(e) \in U!Texts
      BY <1>3, <1>4, <1>6 DEF U!Get
<1> QED BY <1>2, <1>5, <1>7

LEMMA ListGiven ==
  ASSUME NEW t, NEW c, Offers(t, c), NEW k \in U!Lists, k \in DOMAIN c
  PROVE  c[k] # {}
<1>1. c[k] \in U!Entries(k)
      BY DEF Offers
<1>2. {} \notin U!Entries(k)
      BY EntriesAre
<1> QED BY <1>1, <1>2

\* The test that matches() makes of a field is what the field means: for the
\* fields that are lists of texts,
LEMMA KeywordsField ==
  ASSUME NEW t \in U!Types, NEW c, NEW e, Offers(t, c), Gives(t, e)
  PROVE  (U!Text(e) # <<>> => U!OneIn(c, "keywords", U!Text(e))) <=> Fulfils("keywords", c, e)
<1>1. PICK s \in U!Texts : s = U!Text(e)
      BY TextIs
<1>2. U!ToSet(s) = {s[n] : n \in DOMAIN s}
      BY TextsAre
<1>3. CASE "keywords" \notin DOMAIN c
      BY <1>3 DEF U!OneIn, U!Values, U!Get, Fulfils
<1>4. CASE "keywords" \in DOMAIN c
  <2>1. c["keywords"] # {}
        BY <1>4, ListGiven DEF U!Lists
  <2>2. U!OneIn(c, "keywords", s) <=> \E w \in c["keywords"] : w \in U!ToSet(s)
        BY <1>4, <2>1 DEF U!OneIn, U!Values, U!Get
  <2>3. U!Meant("keywords", c["keywords"], e) <=> \E n \in DOMAIN s : s[n] \in c["keywords"]
        BY <1>1, MeantIs
  <2>4. U!OneIn(c, "keywords", s) <=> U!Meant("keywords", c["keywords"], e)
        BY <1>2, <2>2, <2>3
  <2> QED BY <1>1, <1>4, <2>4 DEF Fulfils
<1> QED BY <1>3, <1>4

LEMMA RegexField ==
  ASSUME U!RulesAssumption, NEW t \in U!Types, NEW c, NEW e, Offers(t, c), Gives(t, e)
  PROVE  U!RegexHits(c, e) <=> Fulfils("regex", c, e)
<1>1. PICK s \in U!Texts : s = U!Text(e)
      BY TextIs
<1>2. U!ToSet(s) = {s[n] : n \in DOMAIN s} /\ U!ToSet(s) \subseteq Words /\ "(" \notin Words
      BY TextsAre DEF U!RulesAssumption
<1>3. CASE "regex" \notin DOMAIN c
      BY <1>3 DEF U!RegexHits, Fulfils
<1>4. CASE "regex" \in DOMAIN c
  <2>1. U!RegexHits(c, e) <=> \E p \in c["regex"] : p # "(" /\ p \in U!ToSet(s)
        BY <1>1, <1>4 DEF U!RegexHits
  <2>2. U!Meant("regex", c["regex"], e) <=> \E n \in DOMAIN s : s[n] \in c["regex"]
        BY <1>1, MeantIs
  <2>3. U!RegexHits(c, e) <=> U!Meant("regex", c["regex"], e)
        BY <1>2, <2>1, <2>2
  <2> QED BY <1>4, <2>3 DEF Fulfils
<1> QED BY <1>3, <1>4

LEMMA StartsWithField ==
  ASSUME NEW t \in U!Types, NEW c, NEW e, Offers(t, c), Gives(t, e)
  PROVE  (U!Values(c, "startsWith") # {} => U!Text(e) # <<>> /\ Head(U!Text(e)) \in c["startsWith"])
           <=> Fulfils("startsWith", c, e)
<1>1. PICK s \in U!Texts : s = U!Text(e)
      BY TextIs
<1>2. \A w : U!IsPrefix(<<w>>, s) <=> s # <<>> /\ Head(s) = w
      BY TextsAre
<1>3. CASE "startsWith" \notin DOMAIN c
      BY <1>3 DEF U!Values, U!Get, Fulfils
<1>4. CASE "startsWith" \in DOMAIN c
  <2>1. U!Values(c, "startsWith") = c["startsWith"] /\ c["startsWith"] # {}
        BY <1>4, ListGiven DEF U!Lists, U!Values, U!Get
  <2>2. U!Meant("startsWith", c["startsWith"], e) <=> \E w \in c["startsWith"] : U!IsPrefix(<<w>>, s)
        BY <1>1, MeantIs
  <2>3. U!Meant("startsWith", c["startsWith"], e) <=> s # <<>> /\ Head(s) \in c["startsWith"]
        BY <1>2, <2>2
  <2> QED BY <1>1, <1>4, <2>1, <2>3 DEF Fulfils
<1> QED BY <1>3, <1>4

LEMMA OneIsField ==
  ASSUME NEW t \in U!Types, NEW c, NEW e, Offers(t, c), Gives(t, e),
         NEW k \in {"giftName", "userName", "ability", "modelName"}
  PROVE  U!OneIs(c, k, U!Name(k, e)) <=> Fulfils(k, c, e)
<1>1. CASE k \notin DOMAIN c
      BY <1>1 DEF U!OneIs, U!Values, U!Get, Fulfils
<1>2. CASE k \in DOMAIN c
  <2>1. c[k] # {} /\ k # "keywords"
        BY <1>2, ListGiven DEF U!Lists
  <2>2. U!OneIs(c, k, U!Name(k, e)) <=> \E w \in c[k] : U!Name(k, e) = <<w>>
        BY <1>2, <2>1 DEF U!OneIs, U!Values, U!Get
  <2>3. U!Meant(k, c[k], e) <=> \E w \in c[k] : U!Name(k, e) = <<w>>
        BY MeantIs
  <2> QED BY <1>2, <2>1, <2>2, <2>3 DEF Fulfils
<1> QED BY <1>1, <1>2

LEMMA OneInField ==
  ASSUME NEW t \in U!Types, NEW c, NEW e, Offers(t, c), Gives(t, e),
         NEW k \in {"giftNameContains", "titleContains", "byContains"}
  PROVE  U!OneIn(c, k, U!Name(k, e)) <=> Fulfils(k, c, e)
<1>1. CASE k \notin DOMAIN c
      BY <1>1 DEF U!OneIn, U!Values, U!Get, Fulfils
<1>2. CASE k \in DOMAIN c
  <2>1. c[k] # {} /\ k # "keywords"
        BY <1>2, ListGiven DEF U!Lists
  <2>2. U!Name(k, e) \in U!Texts
        BY TextIs, NamesAre
  <2>3. PICK s \in U!Texts : s = U!Name(k, e)
        BY <2>2
  <2>4. U!ToSet(s) = {s[n] : n \in DOMAIN s}
        BY TextsAre
  <2>5. U!OneIn(c, k, s) <=> \E w \in c[k] : w \in U!ToSet(s)
        BY <1>2, <2>1 DEF U!OneIn, U!Values, U!Get
  <2>6. U!Meant(k, c[k], e) <=> \E n \in DOMAIN s : s[n] \in c[k]
        BY <2>3, MeantIs
  <2>7. U!OneIn(c, k, s) <=> U!Meant(k, c[k], e)
        BY <2>4, <2>5, <2>6
  <2> QED BY <1>2, <2>1, <2>3, <2>7 DEF Fulfils
<1> QED BY <1>1, <1>2

\* for those that are numbers,
LEMMA AtLeastField ==
  ASSUME U!RulesAssumption, NEW t \in U!Types, NEW c, NEW e, Offers(t, c), Gives(t, e),
         NEW k \in U!Mins \ {"maxPrice"}
  PROVE  U!AtLeast(c, k, U!Number(k, e)) <=> Fulfils(k, c, e)
<1>1. CASE k \notin DOMAIN c
      BY <1>1 DEF U!AtLeast, U!Positive, Fulfils
<1>2. CASE k \in DOMAIN c
  <2>1. c[k] \in Numbers \ {0} /\ k # "keywords"
        BY <1>2, EntriesAre DEF Offers, U!Mins
  <2>2. U!Positive(c, k)
    <3>1. c[k] \in Nat /\ c[k] # 0
          BY <2>1 DEF U!RulesAssumption
    <3> QED BY <1>2, <3>1 DEF U!Positive
  <2>3. U!AtLeast(c, k, U!Number(k, e)) <=> U!Number(k, e) >= c[k]
        BY <2>2 DEF U!AtLeast
  <2>4. U!Meant(k, c[k], e) <=> U!Number(k, e) >= c[k]
        BY MeantIs
  <2> QED BY <1>2, <2>1, <2>3, <2>4 DEF Fulfils
<1> QED BY <1>1, <1>2

LEMMA MaxPriceField ==
  ASSUME U!RulesAssumption, NEW t \in U!Types, NEW c, NEW e, Offers(t, c), Gives(t, e)
  PROVE  (U!Positive(c, "maxPrice") => U!Number("maxPrice", e) <= c["maxPrice"]) <=> Fulfils("maxPrice", c, e)
<1>1. CASE "maxPrice" \notin DOMAIN c
      BY <1>1 DEF U!Positive, Fulfils
<1>2. CASE "maxPrice" \in DOMAIN c
  <2>1. c["maxPrice"] \in Numbers \ {0}
        BY <1>2, EntriesAre DEF Offers, U!Mins
  <2>2. U!Positive(c, "maxPrice")
    <3>1. c["maxPrice"] \in Nat /\ c["maxPrice"] # 0
          BY <2>1 DEF U!RulesAssumption
    <3> QED BY <1>2, <3>1 DEF U!Positive
  <2>3. U!Meant("maxPrice", c["maxPrice"], e) <=> U!Number("maxPrice", e) <= c["maxPrice"]
        BY MeantIs
  <2> QED BY <1>2, <2>2, <2>3 DEF Fulfils
<1> QED BY <1>1, <1>2

LEMMA GuardLevelsField ==
  ASSUME NEW t \in U!Types, NEW c, NEW e, Offers(t, c), Gives(t, e)
  PROVE  (U!Values(c, "guardLevels") # {} => U!Number("guardLevels", e) \in c["guardLevels"]) <=> Fulfils("guardLevels", c, e)
<1>1. CASE "guardLevels" \notin DOMAIN c
      BY <1>1 DEF U!Values, U!Get, Fulfils
<1>2. CASE "guardLevels" \in DOMAIN c
  <2>1. U!Values(c, "guardLevels") = c["guardLevels"] /\ c["guardLevels"] # {}
        BY <1>2, EntriesAre DEF Offers, U!Values, U!Get
  <2>2. U!Meant("guardLevels", c["guardLevels"], e) <=> U!Number("guardLevels", e) \in c["guardLevels"]
        BY MeantIs
  <2> QED BY <1>2, <2>1, <2>2 DEF Fulfils
<1> QED BY <1>1, <1>2

\* for the viewer, who may have no number,
LEMMA UidsField ==
  ASSUME NEW t \in U!Types, NEW c, NEW e, Offers(t, c), Gives(t, e)
  PROVE  (U!Values(c, "uids") # {} => U!Get(e.user, "uid", U!NoUid) \in c["uids"]) <=> Fulfils("uids", c, e)
<1>1. CASE "uids" \notin DOMAIN c
      BY <1>1 DEF U!Values, U!Get, Fulfils
<1>2. CASE "uids" \in DOMAIN c
  <2>1. U!Values(c, "uids") = c["uids"] /\ c["uids"] = {"u"}
        BY <1>2, EntriesAre DEF Offers, U!Values, U!Get
  <2>2. U!Meant("uids", c["uids"], e) <=> "uid" \in DOMAIN e.user /\ e.user.uid \in c["uids"]
        BY MeantIs
  <2>3. U!NoUid \notin c["uids"]
        BY <2>1 DEF U!NoUid
  <2>4. U!Get(e.user, "uid", U!NoUid) \in c["uids"] <=> "uid" \in DOMAIN e.user /\ e.user.uid \in c["uids"]
        BY <2>3 DEF U!Get
  <2> QED BY <1>2, <2>1, <2>2, <2>4 DEF Fulfils
<1> QED BY <1>1, <1>2

\* and for those that are on or off.
LEMMA FlagFields ==
  ASSUME NEW t \in U!Types, NEW c, NEW e, Offers(t, c), Gives(t, e)
  PROVE  /\ (U!Is("guardOnly", c) => U!Number("guardOnly", e) \in 1..3) <=> Fulfils("guardOnly", c, e)
         /\ (U!Is("userRequestOnly", c) => U!Name("userRequestOnly", e) # <<>>) <=> Fulfils("userRequestOnly", c, e)
         /\ (U!Is("okOnly", c) => U!Get(e.data, "ok", TRUE)) <=> Fulfils("okOnly", c, e)
<1>1. \A k \in U!Flags : k \in DOMAIN c => c[k] \in BOOLEAN
      BY EntriesAre DEF Offers
<1>2. (U!Is("guardOnly", c) => U!Number("guardOnly", e) \in 1..3) <=> Fulfils("guardOnly", c, e)
  <2>1. CASE "guardOnly" \notin DOMAIN c
        BY <2>1 DEF U!Is, Fulfils
  <2>2. CASE "guardOnly" \in DOMAIN c
    <3>1. PICK v \in BOOLEAN : v = c["guardOnly"]
          BY <1>1, <2>2 DEF U!Flags
    <3>2. U!Meant("guardOnly", v, e) <=> (v = TRUE => U!Number("guardOnly", e) \in 1..3)
          BY FlagsMean
    <3> QED BY <2>2, <3>1, <3>2 DEF U!Is, Fulfils
  <2> QED BY <2>1, <2>2
<1>3. (U!Is("userRequestOnly", c) => U!Name("userRequestOnly", e) # <<>>) <=> Fulfils("userRequestOnly", c, e)
  <2>1. CASE "userRequestOnly" \notin DOMAIN c
        BY <2>1 DEF U!Is, Fulfils
  <2>2. CASE "userRequestOnly" \in DOMAIN c
    <3>1. PICK v \in BOOLEAN : v = c["userRequestOnly"]
          BY <1>1, <2>2 DEF U!Flags
    <3>2. U!Meant("userRequestOnly", v, e) <=> (v = TRUE => U!Name("userRequestOnly", e) # <<>>)
          BY FlagsMean
    <3> QED BY <2>2, <3>1, <3>2 DEF U!Is, Fulfils
  <2> QED BY <2>1, <2>2
<1>4. (U!Is("okOnly", c) => U!Get(e.data, "ok", TRUE)) <=> Fulfils("okOnly", c, e)
  <2>1. CASE "okOnly" \notin DOMAIN c
        BY <2>1 DEF U!Is, Fulfils
  <2>2. CASE "okOnly" \in DOMAIN c
    <3>1. PICK v \in BOOLEAN : v = c["okOnly"]
          BY <1>1, <2>2 DEF U!Flags
    <3>2. U!Meant("okOnly", v, e) <=> (v = TRUE => U!Get(e.data, "ok", TRUE))
          BY FlagsMean
    <3> QED BY <2>2, <3>1, <3>2 DEF U!Is, Fulfils
  <2> QED BY <2>1, <2>2
<1> QED BY <1>2, <1>3, <1>4

\* The fields asked of every event, and those that Tested() asks of each type.
Always == {"regex", "keywords", "startsWith", "uids", "minMedalLevel", "guardOnly"}
Asked(t) ==
  CASE t = "gift" -> {"giftName", "giftNameContains", "minPrice", "minNum", "minTotalPrice"}
    [] t = "superchat" -> {"minPrice", "maxPrice"}
    [] t \in {"like", "online", "watchedChange"} -> {"minCount"}
    [] t = "guard" -> {"guardLevels", "minNum"}
    [] t = "liveStart" -> {"titleContains"}
    [] t \in {"added", "playing"} -> {"titleContains", "userName", "minPosition", "userRequestOnly"}
    [] t = "skipped" -> {"byContains"}
    [] t = "executed" -> {"ability", "okOnly"}
    [] t \in {"loaded", "modelChanged"} -> {"modelName"}
    [] OTHER -> {}

LEMMA TypesAre ==
  U!Types = {"danmaku", "gift", "superchat", "enter", "follow", "like", "guard", "liveStart", "liveEnd", "online",
             "watchedChange", "added", "playing", "skipped", "executed", "loaded", "modelChanged"}
BY DEF U!Types, U!Offered

LEMMA AllAsked == ASSUME NEW t \in U!Types PROVE U!Offered[t] \subseteq Asked(t) \cup Always
<1>1. CASE t = "danmaku"
      BY <1>1 DEF U!Offered, U!UserFields, Asked, Always
<1>2. CASE t = "gift"
      BY <1>2 DEF U!Offered, U!UserFields, Asked, Always
<1>3. CASE t = "superchat"
      BY <1>3 DEF U!Offered, U!UserFields, Asked, Always
<1>4. CASE t = "enter"
      BY <1>4 DEF U!Offered, U!UserFields, Asked, Always
<1>5. CASE t = "follow"
      BY <1>5 DEF U!Offered, U!UserFields, Asked, Always
<1>6. CASE t = "like"
      BY <1>6 DEF U!Offered, U!UserFields, Asked, Always
<1>7. CASE t = "guard"
      BY <1>7 DEF U!Offered, U!UserFields, Asked, Always
<1>8. CASE t = "liveStart"
      BY <1>8 DEF U!Offered, U!UserFields, Asked, Always
<1>9. CASE t = "liveEnd"
      BY <1>9 DEF U!Offered, U!UserFields, Asked, Always
<1>10. CASE t = "online"
      BY <1>10 DEF U!Offered, U!UserFields, Asked, Always
<1>11. CASE t = "watchedChange"
      BY <1>11 DEF U!Offered, U!UserFields, Asked, Always
<1>12. CASE t = "added"
      BY <1>12 DEF U!Offered, U!UserFields, Asked, Always
<1>13. CASE t = "playing"
      BY <1>13 DEF U!Offered, U!UserFields, Asked, Always
<1>14. CASE t = "skipped"
      BY <1>14 DEF U!Offered, U!UserFields, Asked, Always
<1>15. CASE t = "executed"
      BY <1>15 DEF U!Offered, U!UserFields, Asked, Always
<1>16. CASE t = "loaded"
      BY <1>16 DEF U!Offered, U!UserFields, Asked, Always
<1>17. CASE t = "modelChanged"
      BY <1>17 DEF U!Offered, U!UserFields, Asked, Always
<1> QED BY <1>1, <1>2, <1>3, <1>4, <1>5, <1>6, <1>7, <1>8, <1>9, <1>10, <1>11, <1>12, <1>13, <1>14, <1>15, <1>16, <1>17, TypesAre

\* What a type asks of its data is what its fields mean.
LEMMA TestedIs ==
  ASSUME U!RulesAssumption, NEW t \in U!Types, NEW c, NEW e, Offers(t, c), Gives(t, e)
  PROVE  U!Tested(c, e) <=> \A k \in Asked(t) : Fulfils(k, c, e)
<1>t. e.type = t
      BY DEF Gives
<1>a. \A k \in U!Mins \ {"maxPrice"} : U!AtLeast(c, k, U!Number(k, e)) <=> Fulfils(k, c, e)
      BY AtLeastField
<1>b. \A k \in {"giftName", "userName", "ability", "modelName"} : U!OneIs(c, k, U!Name(k, e)) <=> Fulfils(k, c, e)
      BY OneIsField
<1>c. \A k \in {"giftNameContains", "titleContains", "byContains"} : U!OneIn(c, k, U!Name(k, e)) <=> Fulfils(k, c, e)
      BY OneInField
<1>1. CASE t = "gift"
  <2>1. U!Tested(c, e) <=> U!GiftTested(c, e.data)
        BY <1>1, <1>t DEF U!Tested
  <2>2. /\ U!OneIs(c, "giftName", U!Get(e.data, "giftName", <<>>)) <=> Fulfils("giftName", c, e)
        /\ U!OneIn(c, "giftNameContains", U!Get(e.data, "giftName", <<>>)) <=> Fulfils("giftNameContains", c, e)
        BY <1>b, <1>c, NamesAre
  <2>3. /\ U!AtLeast(c, "minPrice", U!Get(e.data, "price", 0)) <=> Fulfils("minPrice", c, e)
        /\ U!AtLeast(c, "minNum", U!Get(e.data, "num", 1)) <=> Fulfils("minNum", c, e)
        /\ U!AtLeast(c, "minTotalPrice", U!Get(e.data, "totalPrice", U!Get(e.data, "price", 0))) <=> Fulfils("minTotalPrice", c, e)
        BY <1>a, NumbersAre DEF U!Mins
  <2>4. Asked(t) = {"giftName", "giftNameContains", "minPrice", "minNum", "minTotalPrice"}
        BY <1>1 DEF Asked
  <2> QED BY <2>1, <2>2, <2>3, <2>4 DEF U!GiftTested
<1>2. CASE t = "superchat"
  <2>1. U!Tested(c, e) <=> /\ U!AtLeast(c, "minPrice", U!Get(e.data, "price", 0))
                           /\ U!Positive(c, "maxPrice") => U!Get(e.data, "price", 0) <= c["maxPrice"]
        BY <1>2, <1>t DEF U!Tested
  <2>2. U!AtLeast(c, "minPrice", U!Get(e.data, "price", 0)) <=> Fulfils("minPrice", c, e)
        BY <1>a, NumbersAre DEF U!Mins
  <2>3. (U!Positive(c, "maxPrice") => U!Get(e.data, "price", 0) <= c["maxPrice"]) <=> Fulfils("maxPrice", c, e)
        BY MaxPriceField, NumbersAre
  <2>4. Asked(t) = {"minPrice", "maxPrice"}
        BY <1>2 DEF Asked
  <2> QED BY <2>1, <2>2, <2>3, <2>4
<1>3. CASE t \in {"like", "online", "watchedChange"}
  <2>1. U!Tested(c, e) <=> U!AtLeast(c, "minCount", U!Get(e.data, "count", IF e.type = "like" THEN 1 ELSE 0))
        BY <1>3, <1>t DEF U!Tested
  <2>2. U!AtLeast(c, "minCount", U!Get(e.data, "count", IF e.type = "like" THEN 1 ELSE 0)) <=> Fulfils("minCount", c, e)
        BY <1>a, NumbersAre DEF U!Mins
  <2>3. Asked(t) = {"minCount"}
        BY <1>3 DEF Asked
  <2> QED BY <2>1, <2>2, <2>3
<1>4. CASE t = "guard"
  <2>1. U!Tested(c, e) <=>
          /\ U!Values(c, "guardLevels") # {} => U!Get(e.data, "guardLevel", U!Get(e.user, "guardLevel", 0)) \in c["guardLevels"]
          /\ U!AtLeast(c, "minNum", U!Get(e.data, "num", 1))
        BY <1>4, <1>t DEF U!Tested
  <2>2. U!AtLeast(c, "minNum", U!Get(e.data, "num", 1)) <=> Fulfils("minNum", c, e)
        BY <1>a, NumbersAre DEF U!Mins
  <2>3. (U!Values(c, "guardLevels") # {} => U!Get(e.data, "guardLevel", U!Get(e.user, "guardLevel", 0)) \in c["guardLevels"])
          <=> Fulfils("guardLevels", c, e)
        BY GuardLevelsField, NumbersAre
  <2>4. Asked(t) = {"guardLevels", "minNum"}
        BY <1>4 DEF Asked
  <2> QED BY <2>1, <2>2, <2>3, <2>4
<1>5. CASE t = "liveStart"
  <2>1. U!Tested(c, e) <=> U!OneIn(c, "titleContains", U!Get(e.data, "title", <<>>))
        BY <1>5, <1>t DEF U!Tested
  <2>2. Asked(t) = {"titleContains"}
        BY <1>5 DEF Asked
  <2> QED BY <2>1, <2>2, <1>c, NamesAre
<1>6. CASE t \in {"added", "playing"}
  <2>1. U!Tested(c, e) <=> U!SongTested(c, e.data)
        BY <1>6, <1>t DEF U!Tested
  <2>2. /\ U!OneIs(c, "userName", U!Get(e.data, "userName", <<>>)) <=> Fulfils("userName", c, e)
        /\ U!OneIn(c, "titleContains", U!Get(e.data, "title", <<>>)) <=> Fulfils("titleContains", c, e)
        BY <1>b, <1>c, NamesAre
  <2>3. U!AtLeast(c, "minPosition", U!Get(e.data, "position", 0)) <=> Fulfils("minPosition", c, e)
        BY <1>a, NumbersAre DEF U!Mins
  <2>4. (U!Is("userRequestOnly", c) => U!Get(e.data, "userName", <<>>) # <<>>) <=> Fulfils("userRequestOnly", c, e)
        BY FlagFields, NamesAre
  <2>5. Asked(t) = {"titleContains", "userName", "minPosition", "userRequestOnly"}
        BY <1>6 DEF Asked
  <2> QED BY <2>1, <2>2, <2>3, <2>4, <2>5 DEF U!SongTested
<1>7. CASE t = "skipped"
  <2>1. U!Tested(c, e) <=> U!OneIn(c, "byContains", U!Get(e.data, "by", <<>>))
        BY <1>7, <1>t DEF U!Tested
  <2>2. Asked(t) = {"byContains"}
        BY <1>7 DEF Asked
  <2> QED BY <2>1, <2>2, <1>c, NamesAre
<1>8. CASE t = "executed"
  <2>1. U!Tested(c, e) <=> /\ U!OneIs(c, "ability", U!Get(e.data, "command", <<>>))
                           /\ U!Is("okOnly", c) => U!Get(e.data, "ok", TRUE)
        BY <1>8, <1>t DEF U!Tested
  <2>2. U!OneIs(c, "ability", U!Get(e.data, "command", <<>>)) <=> Fulfils("ability", c, e)
        BY <1>b, NamesAre
  <2>3. (U!Is("okOnly", c) => U!Get(e.data, "ok", TRUE)) <=> Fulfils("okOnly", c, e)
        BY FlagFields
  <2>4. Asked(t) = {"ability", "okOnly"}
        BY <1>8 DEF Asked
  <2> QED BY <2>1, <2>2, <2>3, <2>4
<1>9. CASE t \in {"loaded", "modelChanged"}
  <2>1. U!Tested(c, e) <=> U!OneIs(c, "modelName", U!Get(e.data, "model", <<>>))
        BY <1>9, <1>t DEF U!Tested
  <2>2. Asked(t) = {"modelName"}
        BY <1>9 DEF Asked
  <2> QED BY <2>1, <2>2, <1>b, NamesAre
<1>10. CASE t \in {"danmaku", "enter", "follow", "liveEnd"}
  <2>1. U!Tested(c, e)
        BY <1>10, <1>t DEF U!Tested
  <2>2. Asked(t) = {}
        BY <1>10 DEF Asked
  <2> QED BY <2>1, <2>2
<1> QED BY <1>1, <1>2, <1>3, <1>4, <1>5, <1>6, <1>7, <1>8, <1>9, <1>10, TypesAre

\* A rule with any number of the fields offered for its type takes an event of
\* that type just if the event fulfils what each of them means.
THEOREM RuleMeansItsFields ==
  ASSUME U!RulesAssumption, NEW t \in U!Types, NEW r, NEW e, r.type = t, Offers(t, r.condition), Gives(t, e)
  PROVE  U!Matches(r, e) <=> \A k \in DOMAIN r.condition : Fulfils(k, r.condition, e)
<1>1. PICK c : c = r.condition
      OBVIOUS
<1>2. e.type = t
      BY DEF Gives
<1>3. /\ U!RegexHits(c, e) <=> Fulfils("regex", c, e)
      /\ (U!Text(e) # <<>> => U!OneIn(c, "keywords", U!Text(e))) <=> Fulfils("keywords", c, e)
      /\ (U!Values(c, "startsWith") # {} => U!Text(e) # <<>> /\ Head(U!Text(e)) \in c["startsWith"])
           <=> Fulfils("startsWith", c, e)
  BY <1>1, RegexField, KeywordsField, StartsWithField
<1>4. U!Tested(c, e) <=> \A k \in Asked(t) : Fulfils(k, c, e)
      BY <1>1, TestedIs
<1>5. (U!Values(c, "uids") # {} => U!Get(e.user, "uid", U!NoUid) \in c["uids"]) <=> Fulfils("uids", c, e)
      BY <1>1, UidsField
<1>6. U!AtLeast(c, "minMedalLevel", U!Get(e.user, "medal", 0)) <=> Fulfils("minMedalLevel", c, e)
      BY <1>1, AtLeastField, NumbersAre DEF U!Mins
<1>7. (U!Is("guardOnly", c) => U!Get(e.user, "guardLevel", 0) \in 1..3) <=> Fulfils("guardOnly", c, e)
      BY <1>1, FlagFields, NumbersAre
<1>8. U!Matches(r, e) <=> /\ Fulfils("regex", c, e) /\ Fulfils("keywords", c, e) /\ Fulfils("startsWith", c, e)
                          /\ \A k \in Asked(t) : Fulfils(k, c, e)
                          /\ Fulfils("uids", c, e) /\ Fulfils("minMedalLevel", c, e) /\ Fulfils("guardOnly", c, e)
      BY <1>1, <1>2, <1>3, <1>4, <1>5, <1>6, <1>7 DEF U!Matches
<1>9. U!Matches(r, e) <=> \A k \in Asked(t) \cup Always : Fulfils(k, c, e)
      BY <1>8 DEF Always
<1>10. DOMAIN c \subseteq Asked(t) \cup Always
       BY <1>1, AllAsked DEF Offers
<1>11. \A k : k \notin DOMAIN c => Fulfils(k, c, e)
       BY DEF Fulfils
<1> QED BY <1>1, <1>9, <1>10, <1>11

\* What the page explains is described, but for the groups of an expression.
LEMMA DescribedIs ==
  ASSUME NEW t \in U!Types, NEW e, e.type = t
  PROVE  \A x \in U!Get(U!Explained, t, {}) : x \in U!Described(e) \/ (Head(x) = "match" /\ "regex" \notin DOMAIN rule.condition)
<1>1. DOMAIN U!Explained = {"gift", "danmaku", "superchat", "like", "guard", "liveStart", "online", "watchedChange",
                            "added", "playing", "skipped", "executed"}
      BY DEF U!Explained
<1>2. CASE t = "gift"
  <2>1. U!Get(U!Explained, t, {}) = U!Explained["gift"]
        BY <1>1, <1>2 DEF U!Get
  <2>2. U!Explained["gift"] \subseteq U!Described(e)
        BY <1>2 DEF U!Explained, U!Described
  <2> QED BY <2>1, <2>2
<1>3. CASE t = "superchat"
  <2>1. U!Get(U!Explained, t, {}) = U!Explained["superchat"]
        BY <1>1, <1>3 DEF U!Get
  <2>2. U!Explained["superchat"] \subseteq U!Described(e)
        BY <1>3 DEF U!Explained, U!Described
  <2> QED BY <2>1, <2>2
<1>4. CASE t = "like"
  <2>1. U!Get(U!Explained, t, {}) = U!Explained["like"]
        BY <1>1, <1>4 DEF U!Get
  <2>2. U!Explained["like"] \subseteq U!Described(e)
        BY <1>4 DEF U!Explained, U!Described
  <2> QED BY <2>1, <2>2
<1>5. CASE t = "guard"
  <2>1. U!Get(U!Explained, t, {}) = U!Explained["guard"]
        BY <1>1, <1>5 DEF U!Get
  <2>2. U!Explained["guard"] \subseteq U!Described(e)
        BY <1>5 DEF U!Explained, U!Described
  <2> QED BY <2>1, <2>2
<1>6. CASE t = "liveStart"
  <2>1. U!Get(U!Explained, t, {}) = U!Explained["liveStart"]
        BY <1>1, <1>6 DEF U!Get
  <2>2. U!Explained["liveStart"] \subseteq U!Described(e)
        BY <1>6 DEF U!Explained, U!Described
  <2> QED BY <2>1, <2>2
<1>7. CASE t = "online"
  <2>1. U!Get(U!Explained, t, {}) = U!Explained["online"]
        BY <1>1, <1>7 DEF U!Get
  <2>2. U!Explained["online"] \subseteq U!Described(e)
        BY <1>7 DEF U!Explained, U!Described
  <2> QED BY <2>1, <2>2
<1>8. CASE t = "watchedChange"
  <2>1. U!Get(U!Explained, t, {}) = U!Explained["watchedChange"]
        BY <1>1, <1>8 DEF U!Get
  <2>2. U!Explained["watchedChange"] \subseteq U!Described(e)
        BY <1>8 DEF U!Explained, U!Described
  <2> QED BY <2>1, <2>2
<1>9. CASE t = "added"
  <2>1. U!Get(U!Explained, t, {}) = U!Explained["added"]
        BY <1>1, <1>9 DEF U!Get
  <2>2. U!Explained["added"] \subseteq U!Described(e)
        BY <1>9 DEF U!Explained, U!Described
  <2> QED BY <2>1, <2>2
<1>10. CASE t = "playing"
  <2>1. U!Get(U!Explained, t, {}) = U!Explained["playing"]
        BY <1>1, <1>10 DEF U!Get
  <2>2. U!Explained["playing"] \subseteq U!Described(e)
        BY <1>10 DEF U!Explained, U!Described
  <2> QED BY <2>1, <2>2
<1>11. CASE t = "skipped"
  <2>1. U!Get(U!Explained, t, {}) = U!Explained["skipped"]
        BY <1>1, <1>11 DEF U!Get
  <2>2. U!Explained["skipped"] \subseteq U!Described(e)
        BY <1>11 DEF U!Explained, U!Described
  <2> QED BY <2>1, <2>2
<1>12. CASE t = "executed"
  <2>1. U!Get(U!Explained, t, {}) = U!Explained["executed"]
        BY <1>1, <1>12 DEF U!Get
  <2>2. U!Explained["executed"] \subseteq U!Described(e)
        BY <1>12 DEF U!Explained, U!Described
  <2> QED BY <2>1, <2>2
<1>13. CASE t = "danmaku"
  <2>1. U!Get(U!Explained, t, {}) = {<<"content">>, <<"match", "1">>}
        BY <1>1, <1>13 DEF U!Get, U!Explained
  <2>2. <<"content">> \in U!Described(e)
        BY <1>13 DEF U!Described
  <2>3. "regex" \in DOMAIN rule.condition => <<"match", "1">> \in U!Described(e)
        BY <1>13 DEF U!Described
  <2>4. Head(<<"match", "1">>) = "match"
        OBVIOUS
  <2> QED BY <2>1, <2>2, <2>3, <2>4
<1>14. CASE t \notin DOMAIN U!Explained
      BY <1>14 DEF U!Get
<1> QED BY <1>1, <1>2, <1>3, <1>4, <1>5, <1>6, <1>7, <1>8, <1>9, <1>10, <1>11, <1>12, <1>13, <1>14

\* The rule is one the page can save, and the event that came to it, if one
\* did, was taken if it fulfils every field.
RulesInv ==
  /\ rule \in U!Rule
  /\ event # U!NoEvent =>
       /\ Gives(rule.type, event)
       /\ took <=> U!Matches(rule, event)
       /\ took => U!Described(event) \subseteq said

LEMMA RuleIs == ASSUME NEW r \in U!Rule PROVE r.type \in U!Types /\ Offers(r.type, r.condition)
<1>1. PICK t \in U!Types : r \in U!Rules(t)
      BY DEF U!Rule
<1> QED BY <1>1, RuleOffers

LEMMA HappensStep ==
  ASSUME RulesInv, NEW u \in U!Viewers, NEW f \in U!Data(rule.type), U!Happens(f, u)
  PROVE  RulesInv'
<1>1. PICK e : e = [type |-> rule.type, data |-> f, user |-> u]
      OBVIOUS
<1>2. event' = e /\ rule' = rule /\ (took' <=> U!Matches(rule, e))
      BY <1>1 DEF U!Happens
<1>3. Gives(rule.type, e)
  <2>1. rule.type \in U!Types
        BY RuleIs DEF RulesInv
  <2> QED BY <1>1, <2>1, DataGiven
<1>4. U!Described(e)' = U!Described(e)
      BY <1>2 DEF U!Described
<1>5. took' => U!Described(e) \subseteq said'
      BY <1>1, <1>2 DEF U!Happens
<1> QED BY <1>2, <1>3, <1>4, <1>5 DEF RulesInv, U!Described

THEOREM RulesInvariance == RoomSpec => [](part = "rules" => RulesInv)
<1>1. RoomInit => (part = "rules" => RulesInv)
      BY DEF RoomInit, U!Init, RulesInv
<1>2. (part = "rules" => RulesInv) /\ [RoomNext]_<<part, vars, commands, rules>> => (part = "rules" => RulesInv)'
  <2> SUFFICES ASSUME part = "rules" => RulesInv, [RoomNext]_<<part, vars, commands, rules>>, part' = "rules"
               PROVE  RulesInv'
      OBVIOUS
  <2>1. part = "rules"
        BY DEF RoomNext
  <2>2. CASE UNCHANGED rules
        BY <2>1, <2>2 DEF rules, RulesInv, U!Described
  <2>3. CASE U!Next
        BY <2>1, <2>3, HappensStep DEF U!Next
  <2>4. U!Next \/ UNCHANGED rules
        BY <2>1 DEF RoomNext
  <2> QED BY <2>2, <2>3, <2>4
<1> QED BY <1>1, <1>2, PTL DEF RoomSpec

\* A rule takes just the events that fulfil each of its fields, whatever the
\* words and numbers, and its text can name all that the page explains.
THEOREM RulesCorrect == RoomSpec => []AsOffered
<1>1. (part = "rules" => RulesInv) => AsOffered
  <2> SUFFICES ASSUME RulesInv, event # U!NoEvent
               PROVE  /\ took <=> \A k \in DOMAIN rule.condition :
                                    U!Meant(k, rule.condition[k], event) \/ (k = "keywords" /\ U!Text(event) = <<>>)
                      /\ took => \A x \in U!Get(U!Explained, event.type, {}) :
                                   x \in said \/ (Head(x) = "match" /\ "regex" \notin DOMAIN rule.condition)
      BY DEF AsOffered, U!AsOffered
  <2>1. rule.type \in U!Types /\ Offers(rule.type, rule.condition) /\ Gives(rule.type, event)
        BY RuleIs DEF RulesInv
  <2>2. (took <=> U!Matches(rule, event)) /\ (took => U!Described(event) \subseteq said)
        BY DEF RulesInv
  <2>3. U!RulesAssumption
        BY RoomAssumption
  <2>4. U!Matches(rule, event) <=> \A k \in DOMAIN rule.condition : Fulfils(k, rule.condition, event)
        BY <2>1, <2>3, RuleMeansItsFields
  <2>5. took <=> \A k \in DOMAIN rule.condition :
                   U!Meant(k, rule.condition[k], event) \/ (k = "keywords" /\ U!Text(event) = <<>>)
        BY <2>2, <2>4 DEF Fulfils
  <2>6. event.type \in U!Types
        BY <2>1 DEF Gives
  <2> QED BY <2>2, <2>5, <2>6, DescribedIs
<1> QED BY <1>1, RulesInvariance, PTL

=============================================================================
