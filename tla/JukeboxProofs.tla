--------------------------- MODULE JukeboxProofs ---------------------------
(***************************************************************************)
(* Theorems about Jukebox for every value of its constants: its types,     *)
(* that the play history, the generation and the pending skip agree with   *)
(* the song that is on, that a machine nobody stops never stalls, that an  *)
(* item is in one place, that the quotas hold up to the calls in flight,   *)
(* and that each step is one of SongPlayer or leaves it alone.             *)
(***************************************************************************)
EXTENDS Jukebox, SequenceTheorems, FiniteSetTheorems, TLAPS

-----------------------------------------------------------------------------
(* What the operators on sequences return.                                 *)

LEMMA ArchiveType ==
  ASSUME NEW r \in Seq(Nat)
  PROVE  Archive(r) \in Seq(Nat)
BY DEF Archive, Front

LEMMA SendType ==
  ASSUME NEW o \in Seq(Requests), NEW m \in Requests
  PROVE  Send(o, m) \in Seq(Requests)
BY DEF Send

LEMMA ForgetRequests ==
  ASSUME NEW o \in Seq(Requests), NEW w \in Waiters
  PROVE  Forget(o, w) \in Seq(Requests)
<1>1. ASSUME NEW k \in 1..Len(o)
      PROVE  (IF o[k].w = w THEN [o[k] EXCEPT !.w = Nobody] ELSE o[k]) \in Requests
  <2>1. o[k] \in Requests
    OBVIOUS
  <2>2. Nobody \in Waiters
    BY DEF Waiters
  <2> QED BY <2>1, <2>2 DEF Requests
<1>0. Seq(Requests) = UNION {[1..n -> Requests] : n \in Nat}
  BY SeqDef, Zenon
<1>2. Forget(o, w) \in [1..Len(o) -> Requests]
  <2>1. DOMAIN o = 1..Len(o)
    OBVIOUS
  <2> QED BY <1>1, <2>1, Zenon DEF Forget
<1>3. Len(o) \in Nat
  OBVIOUS
<1> QED BY <1>0, <1>2, <1>3, Zenon

LEMMA RemoveAtType ==
  ASSUME NEW S, NEW q \in Seq(S), NEW k \in DOMAIN q
  PROVE  /\ RemoveAt(q, k) \in Seq(S)
         /\ <<q[k]>> \o RemoveAt(q, k) \in Seq(S)
BY DEF RemoveAt

LEMMA StopRequest == Msg("stop", 0, Nobody) \in Requests
BY DEF Msg, Requests, Waiters

LEMMA PauseRequest == Msg("pause", 0, Nobody) \in Requests
BY DEF Msg, Requests, Waiters

LEMMA Nothings ==
  /\ NoPlay \in NowPlays /\ NoItem \in Place /\ NoAdv \in Advances /\ NoRestore \in Restores
  /\ NoSlot \in Slots /\ Chime \in Int
BY DEF NoPlay, NoItem, NoAdv, NoRestore, NoSlot, Chime, NowPlays, Place, Advances, Restores, Slots

-----------------------------------------------------------------------------
(* The inductive invariant.  The parts of advance() receive the values of  *)
(* the core variables as arguments, and so do CoreTyped and Linked.        *)

CoreTyped(q, n, p, a, r, o) ==
  /\ q \in Seq(Item) /\ n \in NowPlays /\ p \in Place /\ a \in Advances
  /\ r \in Seq(Nat) /\ o \in Seq(Requests)

Sound(n) == n = NoPlay \/ (n.item \in Item /\ n.obj # 0)

\* How nowPlaying (n), the running advance (a), the open records (r) and the
\* generation (g) hang together.  While an advance() runs no record is open;
\* afterwards it is that of the song that is on.  An advance() of an earlier
\* generation finds nowPlaying cleared, since only stop() advances gen.
Linked(n, a, r, g) ==
  /\ Sound(n)
  /\ a = NoAdv \/ (a.ph # "none" /\ a.gen <= g)
  /\ a.ph \in {"url", "lyric", "play"} => a.item \in Item
  /\ a # NoAdv => r = <<>>
  /\ a = NoAdv /\ n = NoPlay => r \in {<<>>, <<0>>}
  /\ a = NoAdv /\ n # NoPlay => r = <<n.item.id>>
  /\ a # NoAdv /\ a.gen # g => n = NoPlay
  /\ a.ph = "play" /\ a.gen = g => n # NoPlay /\ n.item = a.item

\* A control was called for a NowPlaying object, and a song to restore is one.
CallsTyped(k) ==
  /\ k \in [Clients -> {NoCall} \cup LookUps \cup Controls]
  /\ \A c \in Clients : k[c].op \in {"pause", "resume", "chime"} => k[c].obj # 0

RestoreTyped(x) == x \in Restores /\ (x # NoRestore => x.obj # 0)

RestTyped ==
  /\ running \in BOOLEAN /\ gen \in Nat /\ skipReq \in BOOLEAN
  /\ fails \in Nat /\ timers \in Nat /\ seq \in Nat /\ plays \in Nat
  /\ CallsTyped(calls) /\ RestoreTyped(restore) /\ RestoreTyped(rst)
  /\ connected \in BOOLEAN /\ crashes \in Nat
  /\ fromExec \in Seq(Messages) /\ slot \in Slots

IInv ==
  /\ CoreTyped(queue, np, pending, adv, open, toExec)
  /\ Linked(np, adv, open, gen)
  /\ RestTyped
  /\ SkipIsKept

-----------------------------------------------------------------------------
(* The parts of advance().                                                 *)

LEMMA ArchiveShort ==
  ASSUME NEW r \in Seq(Nat), Len(r) <= 1
  PROVE  Archive(r) = <<>>
BY DEF Archive, Front

LEMMA OpenShort ==
  ASSUME NEW n, NEW a, NEW r \in Seq(Nat), NEW g, Linked(n, a, r, g)
  PROVE  Archive(r) = <<>>
<1>1. CASE r = <<>>
  BY <1>1 DEF Archive
<1>2. CASE r # <<>>
  <2>1. PICK x \in {0, n.item.id} : r = <<x>>
    BY <1>2 DEF Linked
  <2>2. Len(<<x>>) = 1
    OBVIOUS
  <2>3. Len(r) = 1
    BY <2>1, <2>2, Zenon
  <2>4. Len(r) <= 1
    BY <2>3
  <2> QED BY <2>4, ArchiveShort
<1> QED BY <1>1, <1>2

LEMMA LaunchLinked ==
  ASSUME NEW g \in Nat, NEW q, NEW n, NEW p, NEW r, NEW o,
         CoreTyped(q, n, p, NoAdv, r, o), Sound(n), Archive(r) = <<>>,
         Launch(g, q, n, p, r, o)
  PROVE  /\ CoreTyped(queue', np', pending', adv', open', toExec')
         /\ Linked(np', adv', open', g)
<1>1. CASE q # <<>>
  <2> DEFINE a == [ph |-> "url", gen |-> g, item |-> Head(q)]
  <2>1. Leave(Tail(q), n, Head(q), a, Archive(r), o)
    BY <1>1 DEF Launch
  <2>2. Tail(q) \in Seq(Item) /\ Head(q) \in Item /\ Head(q) \in Place
    BY <1>1 DEF CoreTyped, Place
  <2>3. a \in Advances /\ a # NoAdv
    BY <2>2 DEF Advances, NoAdv
  <2>4. CoreTyped(Tail(q), n, Head(q), a, <<>>, o)
    BY <2>2, <2>3 DEF CoreTyped
  <2>5. Linked(n, a, <<>>, g)
    BY <2>2, <2>3 DEF Linked
  <2> QED BY <2>1, <2>4, <2>5 DEF Leave
<1>2. CASE q = <<>> /\ IdleRefs
  <2> DEFINE a == [ph |-> "idle", gen |-> g, item |-> NoItem]
  <2>1. Leave(q, n, p, a, Archive(r), o)
    BY <1>2 DEF Launch
  <2>2. a \in Advances /\ a # NoAdv
    BY Nothings DEF Advances, NoAdv
  <2>3. CoreTyped(q, n, p, a, <<>>, o)
    BY <2>2 DEF CoreTyped
  <2>4. Linked(n, a, <<>>, g)
    BY <2>2 DEF Linked
  <2> QED BY <2>1, <2>3, <2>4 DEF Leave
<1>3. CASE q = <<>> /\ ~IdleRefs
  <2> DEFINE o2 == Send(o, Msg("stop", 0, Nobody))
  <2>1. Leave(q, NoPlay, NoItem, NoAdv, Archive(r), o2)
    BY <1>3 DEF Launch
  <2>2. o2 \in Seq(Requests)
    BY StopRequest, SendType DEF CoreTyped
  <2>3. CoreTyped(q, NoPlay, NoItem, NoAdv, <<>>, o2)
    BY <2>2, Nothings DEF CoreTyped
  <2>4. Linked(NoPlay, NoAdv, <<>>, g)
    BY DEF Linked, Sound, NoAdv
  <2> QED BY <2>1, <2>3, <2>4 DEF Leave
<1> QED BY <1>1, <1>2, <1>3

LEMMA EnsurePlayingLinked ==
  ASSUME NEW run, NEW g \in Nat, NEW q, NEW n, NEW p, NEW a, NEW r, NEW o,
         CoreTyped(q, n, p, a, r, o), Linked(n, a, r, g),
         EnsurePlaying(run, g, q, n, p, a, r, o)
  PROVE  /\ CoreTyped(queue', np', pending', adv', open', toExec')
         /\ Linked(np', adv', open', g)
         /\ a # NoAdv => adv' = a
<1>1. CASE run /\ n = NoPlay /\ a = NoAdv
  <2>1. Launch(g, q, n, p, r, o)
    BY <1>1 DEF EnsurePlaying
  <2>2. Archive(r) = <<>>
    BY OpenShort DEF CoreTyped
  <2>3. Sound(n)
    BY DEF Linked
  <2> QED BY <1>1, <2>1, <2>2, <2>3, LaunchLinked
<1>2. CASE ~(run /\ n = NoPlay /\ a = NoAdv)
  <2>1. Leave(q, n, p, a, r, o)
    BY <1>2 DEF EnsurePlaying
  <2> QED BY <2>1 DEF Leave
<1> QED BY <1>1, <1>2

LEMMA SettleLinked ==
  ASSUME NEW q, NEW n, NEW p, NEW r, NEW o, gen \in Nat,
         CoreTyped(q, n, p, NoAdv, r, o), Linked(n, NoAdv, r, gen),
         Settle(q, n, p, r, o)
  PROVE  /\ CoreTyped(queue', np', pending', adv', open', toExec')
         /\ Linked(np', adv', open', gen)
         /\ skipReq' = FALSE
<1>1. skipReq' = FALSE
  BY DEF Settle
<1>2. CASE skipReq /\ running
  <2>1. Launch(gen, q, n, p, r, o)
    BY <1>2 DEF Settle
  <2>2. Archive(r) = <<>> /\ Sound(n)
    BY OpenShort DEF CoreTyped, Linked
  <2> QED BY <1>1, <2>1, <2>2, LaunchLinked
<1>3. CASE ~(skipReq /\ running)
  <2>1. Leave(q, n, p, NoAdv, r, o)
    BY <1>3 DEF Settle
  <2> QED BY <1>1, <2>1 DEF Leave
<1> QED BY <1>2, <1>3

LEMMA CatchLinked ==
  ASSUME NEW o \in Seq(Requests), IInv, adv # NoAdv, Catch(o)
  PROVE  /\ CoreTyped(queue', np', pending', adv', open', toExec')
         /\ Linked(np', adv', open', gen)
         /\ skipReq' = FALSE /\ fails' \in Nat /\ timers' \in Nat
<1>1. open = <<>>
  BY DEF IInv, Linked
<1>2. CoreTyped(queue, NoPlay, NoItem, NoAdv, open, o)
  BY Nothings DEF IInv, CoreTyped
<1>3. Linked(NoPlay, NoAdv, open, gen)
  BY <1>1 DEF Linked, Sound, NoAdv
<1>4. Settle(queue, NoPlay, NoItem, open, o)
  BY DEF Catch
<1>5. fails' \in Nat /\ timers' \in Nat
  BY DEF Catch, IInv, RestTyped
<1>6. gen \in Nat
  BY DEF IInv, RestTyped
<1> QED BY <1>2, <1>3, <1>4, <1>5, <1>6, SettleLinked

LEMMA ExpireLinked ==
  ASSUME IInv, adv # NoAdv, adv.gen # gen, Expire
  PROVE  /\ CoreTyped(queue', np', pending', adv', open', toExec')
         /\ Linked(np', adv', open', gen)
         /\ skipReq' = FALSE /\ fails' \in Nat /\ timers' \in Nat
<1>1. open = <<>> /\ np = NoPlay
  BY DEF IInv, Linked
<1>2. CoreTyped(queue, np, NoItem, NoAdv, open, toExec)
  BY Nothings DEF IInv, CoreTyped
<1>3. Linked(np, NoAdv, open, gen)
  BY <1>1 DEF Linked, Sound, NoAdv
<1>4. Settle(queue, np, NoItem, open, toExec)
  BY DEF Expire
<1>5. fails' \in Nat /\ timers' \in Nat
  BY DEF Expire, IInv, RestTyped
<1>6. gen \in Nat
  BY DEF IInv, RestTyped
<1> QED BY <1>2, <1>3, <1>4, <1>5, <1>6, SettleLinked

\* What the invariant says of the moments between two advances.
LEMMA Between ==
  ASSUME IInv
  PROVE  /\ advancing <=> adv # NoAdv
         /\ adv = NoAdv => ~skipReq
         /\ Archive(open) = <<>>
         /\ Sound(np)
<1>1. Linked(np, adv, open, gen) /\ open \in Seq(Nat) /\ skipReq \in BOOLEAN /\ SkipIsKept
  BY DEF IInv, CoreTyped, RestTyped
<1>2. Archive(open) = <<>>
  BY <1>1, OpenShort
<1>3. NoAdv.ph = "none"
  BY DEF NoAdv
<1>4. advancing <=> adv # NoAdv
  BY <1>1, <1>3 DEF Linked, advancing
<1>5. Sound(np)
  BY <1>1 DEF Linked
<1>6. adv = NoAdv => ~skipReq
  BY <1>1, <1>4 DEF SkipIsKept
<1> QED BY <1>2, <1>4, <1>5, <1>6

\* An advance() started where none was under way.
LEMMA LaunchNow ==
  ASSUME IInv, ~advancing, NEW q \in Seq(Item), NEW o \in Seq(Requests),
         Launch(gen, q, np, pending, open, o)
  PROVE  /\ CoreTyped(queue', np', pending', adv', open', toExec')
         /\ Linked(np', adv', open', gen)
<1>1. adv = NoAdv /\ Archive(open) = <<>> /\ Sound(np)
  BY Between
<1>2. CoreTyped(q, np, pending, NoAdv, open, o)
  BY <1>1 DEF IInv, CoreTyped
<1>3. gen \in Nat
  BY DEF IInv, RestTyped
<1> QED BY <1>1, <1>2, <1>3, LaunchLinked

-----------------------------------------------------------------------------
(* Each action preserves the invariant.  First the users' operations.      *)

LEMMA CallKinds ==
  ASSUME RestTyped, NEW c \in Clients
  PROVE  /\ calls[c].op \in {"add", "playNow"} => calls[c] \in LookUps
         /\ calls[c].op \in {"pause", "resume", "seek", "chime", "bareChime"}
              => calls[c] \in Controls
BY DEF RestTyped, CallsTyped, LookUps, Controls, NoCall

LEMMA StartKeeps == ASSUME IInv, Start PROVE IInv'
<1>1. EnsurePlaying(TRUE, gen, queue, np, pending, adv, open, toExec)
  BY DEF Start
<1>2. gen \in Nat /\ gen' = gen
  BY DEF IInv, RestTyped, Start
<1>3. CoreTyped(queue', np', pending', adv', open', toExec') /\ Linked(np', adv', open', gen)
  BY <1>1, <1>2, EnsurePlayingLinked DEF IInv
<1>4. adv # NoAdv => adv' = adv
  BY <1>1 DEF EnsurePlaying, Leave
<1>5. SkipIsKept'
  BY <1>4, Between DEF Start, SkipIsKept, advancing, IInv
<1>6. RestTyped'
  BY DEF IInv, RestTyped, Start
<1> QED BY <1>2, <1>3, <1>5, <1>6 DEF IInv

LEMMA StopKeeps == ASSUME IInv, Stop PROVE IInv'
<1> DEFINE o == Send(toExec, Msg("stop", 0, Nobody))
<1>1. Leave(queue, NoPlay, NoItem, adv, Archive(open), o)
  BY DEF Stop
<1>2. Archive(open) = <<>>
  BY Between
<1>3. o \in Seq(Requests)
  BY StopRequest, SendType DEF IInv, CoreTyped
<1>4. gen' = gen + 1 /\ gen \in Nat /\ gen + 1 \in Nat
  BY DEF Stop, IInv, RestTyped
<1>5. CoreTyped(queue, NoPlay, NoItem, adv, <<>>, o)
  BY <1>3, Nothings DEF IInv, CoreTyped
<1>6. adv # NoAdv => adv.gen \in Nat /\ adv.gen <= gen
  BY DEF IInv, CoreTyped, Linked, Advances
<1>7. Linked(NoPlay, adv, <<>>, gen + 1)
  <2>1. NoAdv.ph = "none"
    BY DEF NoAdv
  <2>2. adv.ph = "none" => adv = NoAdv
    BY DEF IInv, Linked
  <2>3. adv # NoAdv => adv.gen <= gen + 1 /\ adv.gen # gen + 1
    BY <1>4, <1>6
  <2> QED BY <2>1, <2>2, <2>3 DEF IInv, Linked, Sound
<1>8. RestTyped'
  <2>1. UNCHANGED <<fails, timers, seq, plays, calls, rst, connected, crashes, fromExec, slot>>
    BY DEF Stop
  <2>2. running' \in BOOLEAN /\ gen' \in Nat /\ skipReq' \in BOOLEAN
    BY <1>4 DEF Stop
  <2>3. RestoreTyped(restore')
    BY Nothings DEF Stop, RestoreTyped
  <2>4. RestTyped
    BY DEF IInv
  <2> QED BY <2>1, <2>2, <2>3, <2>4 DEF RestTyped
<1>9. SkipIsKept'
  BY DEF Stop, SkipIsKept
<1> QED BY <1>1, <1>2, <1>4, <1>5, <1>7, <1>8, <1>9 DEF IInv, Leave

LEMMA RestartKeeps == ASSUME IInv, Restart PROVE IInv'
<1> DEFINE o == Send(toExec, Msg("stop", 0, Nobody))
<1>1. PICK q \in {queue, <<>>} :
        EnsurePlaying(TRUE, gen + 1, q, NoPlay, NoItem, adv, Archive(open), o)
  BY DEF Restart
<1>2. Archive(open) = <<>>
  BY Between
<1>3. o \in Seq(Requests)
  BY StopRequest, SendType DEF IInv, CoreTyped
<1>4. gen' = gen + 1 /\ gen \in Nat /\ gen + 1 \in Nat
  BY DEF Restart, IInv, RestTyped
<1>5. CoreTyped(q, NoPlay, NoItem, adv, <<>>, o)
  <2>1. queue \in Seq(Item) /\ <<>> \in Seq(Item) /\ <<>> \in Seq(Nat) /\ adv \in Advances
    BY DEF IInv, CoreTyped
  <2>2. q \in Seq(Item)
    BY <2>1
  <2> QED BY <1>3, <2>1, <2>2, Nothings DEF CoreTyped
<1>6. adv # NoAdv => adv.gen \in Nat /\ adv.gen <= gen
  BY DEF IInv, CoreTyped, Linked, Advances
<1>7. Linked(NoPlay, adv, <<>>, gen + 1)
  <2>1. NoAdv.ph = "none"
    BY DEF NoAdv
  <2>2. adv # NoAdv => adv.gen <= gen + 1 /\ adv.gen # gen + 1
    BY <1>4, <1>6
  <2> QED BY <2>1, <2>2 DEF IInv, Linked, Sound
<1>8. CoreTyped(queue', np', pending', adv', open', toExec')
      /\ Linked(np', adv', open', gen')
  BY <1>1, <1>2, <1>4, <1>5, <1>7, EnsurePlayingLinked
<1>9. RestTyped'
  <2>1. UNCHANGED <<timers, seq, plays, calls, rst, connected, crashes, fromExec, slot>>
    BY DEF Restart
  <2>2. running' \in BOOLEAN /\ gen' \in Nat /\ skipReq' \in BOOLEAN /\ fails' \in Nat
    BY <1>4 DEF Restart
  <2>3. RestoreTyped(restore')
    BY Nothings DEF Restart, RestoreTyped
  <2>4. RestTyped
    BY DEF IInv
  <2> QED BY <2>1, <2>2, <2>3, <2>4 DEF RestTyped
<1>10. SkipIsKept'
  BY DEF Restart, SkipIsKept
<1> QED BY <1>8, <1>9, <1>10 DEF IInv

LEMMA SkipKeeps == ASSUME IInv, Skip PROVE IInv'
<1>1. RestTyped'
  BY DEF IInv, RestTyped, Skip
<1>2. CASE advancing
  BY <1>1, <1>2 DEF Skip, IInv, CoreTyped, SkipIsKept, advancing, core
<1>3. CASE ~advancing
  <2>1. Launch(gen, queue, np, pending, open, toExec) /\ gen' = gen /\ skipReq' = skipReq
    BY <1>3 DEF Skip
  <2>2. CoreTyped(queue', np', pending', adv', open', toExec') /\ Linked(np', adv', open', gen)
    BY <1>3, <2>1, LaunchNow DEF IInv, CoreTyped
  <2>3. ~skipReq'
    BY <1>3, <2>1 DEF IInv, SkipIsKept
  <2> QED BY <1>1, <2>1, <2>2, <2>3 DEF IInv, SkipIsKept
<1> QED BY <1>2, <1>3

LEMMA SetQueueKeeps == ASSUME IInv, NEW q \in Seq(Item), SetQueue(q) PROVE IInv'
<1>1. RestTyped'
  BY DEF IInv, RestTyped, SetQueue
<1>2. UNCHANGED <<np, pending, adv, open, toExec, gen, skipReq>> /\ queue' = q
  BY DEF SetQueue
<1> QED BY <1>1, <1>2 DEF IInv, CoreTyped, SkipIsKept, advancing

LEMMA EditKeeps == ASSUME IInv, RemoveItem \/ ToTop \/ ClearQueue PROVE IInv'
<1>1. queue \in Seq(Item) /\ <<>> \in Seq(Item)
  BY DEF IInv, CoreTyped
<1>2. CASE RemoveItem
  BY <1>1, <1>2, RemoveAtType, SetQueueKeeps DEF RemoveItem
<1>3. CASE ToTop
  BY <1>1, <1>3, RemoveAtType, SetQueueKeeps DEF ToTop
<1>4. CASE ClearQueue
  BY <1>1, <1>4, SetQueueKeeps DEF ClearQueue
<1> QED BY <1>2, <1>3, <1>4

LEMMA BeginKeeps ==
  ASSUME RestTyped, NEW c \in Clients, NEW r \in LookUps \cup Controls, Begin(c, r),
         r.op \in {"pause", "resume", "chime"} => r.obj # 0
  PROVE  CallsTyped(calls')
BY DEF RestTyped, CallsTyped, Begin

LEMMA ReturnKeeps ==
  ASSUME RestTyped, NEW c \in Clients, Return(c)
  PROVE  CallsTyped(calls')
BY DEF RestTyped, CallsTyped, Return, NoCall

LEMMA AddKeeps ==
  ASSUME IInv, NEW c \in Clients, NEW u \in Users \cup {Console}, NEW s \in Songs, Add(c, u, s)
  PROVE  IInv'
<1> DEFINE r == [op |-> "add", by |-> u, song |-> s]
<1>1. r \in LookUps /\ r.op = "add" /\ Begin(c, r)
  BY DEF LookUps, Add
<1>2. RestTyped
  BY DEF IInv
<1>3. RestTyped'
  BY <1>1, <1>2, BeginKeeps DEF RestTyped, Add
<1> QED BY <1>3 DEF IInv, Add, core, SkipIsKept, advancing

LEMMA PlayNowKeeps ==
  ASSUME IInv, NEW c \in Clients, NEW s \in Songs, PlayNow(c, s)
  PROVE  IInv'
<1> DEFINE r == [op |-> "playNow", by |-> Console, song |-> s]
<1>1. r \in LookUps /\ r.op = "playNow" /\ Begin(c, r)
  BY DEF LookUps, PlayNow
<1>2. RestTyped
  BY DEF IInv
<1>3. RestTyped'
  BY <1>1, <1>2, BeginKeeps DEF RestTyped, PlayNow
<1> QED BY <1>3 DEF IInv, PlayNow, core, SkipIsKept, advancing

LEMMA NewItem ==
  ASSUME RestTyped, NEW s \in Songs, NEW u \in Users \cup {Console, IdleBy}
  PROVE  [id |-> seq + 1, song |-> s, by |-> u] \in Item
<1>1. seq + 1 \in Nat \ {0}
  BY DEF RestTyped
<1> QED BY <1>1 DEF Item

LEMMA AddResolvedKeeps ==
  ASSUME IInv, NEW c \in Clients, AddResolved(c)
  PROVE  IInv'
<1>1. RestTyped
  BY DEF IInv
<1>2. RestTyped'
  <2>1. seq' \in Nat
    BY <1>1 DEF RestTyped, AddResolved
  <2> QED BY <1>1, <2>1, ReturnKeeps DEF RestTyped, AddResolved
<1>3. gen' = gen /\ skipReq' = skipReq /\ gen \in Nat
  BY <1>1 DEF AddResolved, RestTyped
<1>4. CASE UNCHANGED core
  BY <1>2, <1>3, <1>4 DEF IInv, core, SkipIsKept, advancing
<1>5. CASE ~UNCHANGED core
  <2> DEFINE i == [id |-> seq + 1, song |-> calls[c].song, by |-> calls[c].by]
  <2>1. EnsurePlaying(running, gen, Append(queue, i), np, pending, adv, open, toExec)
    BY <1>5 DEF AddResolved
  <2>2. calls[c] \in LookUps
    BY <1>1, CallKinds DEF AddResolved
  <2>3. i \in Item
    BY <1>1, <2>2, NewItem DEF LookUps
  <2>4. Append(queue, i) \in Seq(Item)
    BY <2>3 DEF IInv, CoreTyped
  <2>5. CoreTyped(Append(queue, i), np, pending, adv, open, toExec)
    BY <2>4 DEF IInv, CoreTyped
  <2>6. CoreTyped(queue', np', pending', adv', open', toExec') /\ Linked(np', adv', open', gen)
    BY <1>3, <2>1, <2>5, EnsurePlayingLinked DEF IInv
  <2>7. adv # NoAdv => adv' = adv
    BY <2>1 DEF EnsurePlaying, Leave
  <2>8. SkipIsKept'
    BY <1>3, <2>7, Between DEF SkipIsKept, advancing, IInv
  <2> QED BY <1>2, <1>3, <2>6, <2>8 DEF IInv
<1> QED BY <1>4, <1>5

\* The item playNow() and previous() bring.
LEMMA PlayItemNowKeeps ==
  ASSUME IInv, NEW s \in Songs, PlayItemNow(s), gen' = gen
  PROVE  /\ CoreTyped(queue', np', pending', adv', open', toExec')
         /\ Linked(np', adv', open', gen')
         /\ seq' \in Nat /\ skipReq' \in BOOLEAN /\ SkipIsKept'
<1> DEFINE i == [id |-> seq + 1, song |-> s, by |-> Console]
           q == <<i>> \o queue
<1>1. i \in Item
  BY NewItem DEF IInv
<1>2. q \in Seq(Item)
  BY <1>1 DEF IInv, CoreTyped
<1>3. seq' \in Nat /\ skipReq' \in BOOLEAN
  <2>1. seq' = seq + 1 /\ (skipReq' = TRUE \/ skipReq' = skipReq)
    BY DEF PlayItemNow
  <2>2. seq \in Nat /\ skipReq \in BOOLEAN
    BY DEF IInv, RestTyped
  <2>3. seq' \in Nat
    BY <2>1, <2>2
  <2>4. skipReq' \in BOOLEAN
    BY <2>1, <2>2, Zenon
  <2> QED BY <2>3, <2>4
<1>4. CASE advancing
  <2>1. skipReq' /\ Leave(q, np, pending, adv, open, toExec)
    BY <1>4 DEF PlayItemNow
  <2>2. CoreTyped(q, np, pending, adv, open, toExec)
    BY <1>2 DEF IInv, CoreTyped
  <2>3. SkipIsKept'
    BY <1>4, <2>1 DEF SkipIsKept, advancing, Leave
  <2> QED BY <1>3, <2>1, <2>2, <2>3 DEF Leave, IInv
<1>5. CASE ~advancing
  <2>1. Launch(gen, q, np, pending, open, toExec) /\ skipReq' = skipReq
    BY <1>5 DEF PlayItemNow
  <2>2. toExec \in Seq(Requests)
    BY DEF IInv, CoreTyped
  <2>3. CoreTyped(queue', np', pending', adv', open', toExec') /\ Linked(np', adv', open', gen)
    BY <1>2, <1>5, <2>1, <2>2, LaunchNow
  <2>4. SkipIsKept'
    BY <1>5, <2>1 DEF SkipIsKept, IInv
  <2> QED BY <1>3, <2>3, <2>4
<1> QED BY <1>4, <1>5

LEMMA PreviousKeeps == ASSUME IInv, NEW s \in Songs, Previous(s) PROVE IInv'
<1>1. PlayItemNow(s) /\ gen' = gen
  BY DEF Previous
<1>2. RestTyped'
  BY <1>1, PlayItemNowKeeps DEF IInv, RestTyped, Previous
<1> QED BY <1>1, <1>2, PlayItemNowKeeps DEF IInv

LEMMA PlayNowResolvedKeeps ==
  ASSUME IInv, NEW c \in Clients, PlayNowResolved(c)
  PROVE  IInv'
<1>1. calls[c] \in LookUps /\ RestTyped
  BY CallKinds DEF IInv, PlayNowResolved
<1>2. CASE PlayItemNow(calls[c].song)
  <2>1. calls[c].song \in Songs /\ gen' = gen
    BY <1>1 DEF LookUps, PlayNowResolved
  <2>2. RestTyped'
    BY <1>1, <1>2, <2>1, PlayItemNowKeeps, ReturnKeeps DEF RestTyped, PlayNowResolved
  <2> QED BY <1>2, <2>1, <2>2, PlayItemNowKeeps DEF IInv
<1>3. CASE UNCHANGED <<core, seq, skipReq>>
  <2>1. RestTyped'
    BY <1>1, <1>3, ReturnKeeps DEF RestTyped, PlayNowResolved
  <2> QED BY <1>3, <2>1 DEF IInv, core, SkipIsKept, advancing, PlayNowResolved
<1> QED BY <1>2, <1>3 DEF PlayNowResolved

-----------------------------------------------------------------------------
(* The awaits of advance().                                                *)

LEMMA IdleResolvedKeeps == ASSUME IInv, IdleResolved PROVE IInv'
<1>0. adv # NoAdv /\ adv.ph = "idle"
  <2>1. adv.ph = "idle"
    BY DEF IdleResolved
  <2>2. adv # NoAdv
    BY <2>1 DEF NoAdv
  <2> QED BY <2>1, <2>2
<1>1. adv \in Advances /\ open = <<>> /\ gen \in Nat /\ seq \in Nat
  BY <1>0 DEF IInv, Linked, CoreTyped, RestTyped
<1>2. gen' = gen
  BY DEF IdleResolved
<1>3. ASSUME NEW s \in Songs, seq' = seq + 1, skipReq' = skipReq,
             Leave(queue, np, [id |-> seq + 1, song |-> s, by |-> IdleBy],
                   [adv EXCEPT !.ph = "url",
                               !.item = [id |-> seq + 1, song |-> s, by |-> IdleBy]],
                   open, toExec)
      PROVE  IInv'
  <2> DEFINE i == [id |-> seq + 1, song |-> s, by |-> IdleBy]
             a == [adv EXCEPT !.ph = "url", !.item = i]
  <2>1. i \in Item /\ i \in Place
    BY NewItem DEF IInv, Place
  <2>2. a \in Advances /\ a.ph = "url" /\ a.item = i /\ a.gen = adv.gen
    BY <1>0, <1>1, <2>1 DEF Advances
  <2>3. a # NoAdv
    BY <2>2 DEF NoAdv
  <2>4. CoreTyped(queue, np, i, a, open, toExec)
    BY <2>1, <2>2 DEF IInv, CoreTyped
  <2>5. Linked(np, a, open, gen)
    BY <1>0, <1>1, <2>1, <2>2, <2>3 DEF IInv, Linked
  <2>6. RestTyped'
    <3>1. seq' \in Nat /\ skipReq' = skipReq
      BY <1>1, <1>3
    <3> QED BY <3>1 DEF IInv, RestTyped, IdleResolved
  <2>7. SkipIsKept'
    BY <1>3, <2>2 DEF SkipIsKept, advancing, Leave
  <2> QED BY <1>2, <1>3, <2>4, <2>5, <2>6, <2>7 DEF IInv, Leave
<1>4. ASSUME Settle(queue, NoPlay, NoItem, open, Send(toExec, Msg("stop", 0, Nobody))),
             seq' = seq
      PROVE  IInv'
  <2> DEFINE o == Send(toExec, Msg("stop", 0, Nobody))
  <2>1. o \in Seq(Requests)
    BY StopRequest, SendType DEF IInv, CoreTyped
  <2>2. CoreTyped(queue, NoPlay, NoItem, NoAdv, open, o)
    BY <2>1, Nothings DEF IInv, CoreTyped
  <2>3. Linked(NoPlay, NoAdv, open, gen)
    BY <1>1 DEF Linked, Sound, NoAdv
  <2>4. CoreTyped(queue', np', pending', adv', open', toExec')
        /\ Linked(np', adv', open', gen) /\ skipReq' = FALSE
    BY <1>1, <1>4, <2>2, <2>3, SettleLinked
  <2>5. RestTyped'
    BY <1>4, <2>4 DEF IInv, RestTyped, IdleResolved
  <2> QED BY <1>2, <2>4, <2>5 DEF IInv, SkipIsKept
<1> QED BY <1>3, <1>4 DEF IdleResolved

LEMMA UrlResolvedKeeps == ASSUME IInv, UrlResolved PROVE IInv'
<1>1. adv # NoAdv /\ adv.ph = "url" /\ adv \in Advances /\ gen' = gen
  BY DEF IInv, CoreTyped, UrlResolved, NoAdv
<1>2. CASE /\ adv.gen = gen
           /\ Leave(queue, np, pending, [adv EXCEPT !.ph = "lyric"], open, toExec)
           /\ UNCHANGED <<skipReq, fails, timers>>
  <2> DEFINE a == [adv EXCEPT !.ph = "lyric"]
  <2>1. a \in Advances /\ a.ph = "lyric" /\ a.item = adv.item /\ a.gen = adv.gen
    BY <1>1 DEF Advances
  <2>2. a # NoAdv
    BY <2>1 DEF NoAdv
  <2>3. CoreTyped(queue, np, pending, a, open, toExec) /\ Linked(np, a, open, gen)
    BY <1>1, <2>1, <2>2 DEF IInv, CoreTyped, Linked
  <2>4. RestTyped'
    BY <1>2 DEF IInv, RestTyped, UrlResolved
  <2>5. SkipIsKept'
    BY <1>2, <2>1 DEF SkipIsKept, advancing, Leave
  <2> QED BY <1>1, <1>2, <2>3, <2>4, <2>5 DEF IInv, Leave
<1>3. CASE (adv.gen # gen /\ Expire) \/ Catch(toExec)
  <2>1. toExec \in Seq(Requests)
    BY DEF IInv, CoreTyped
  <2>2. /\ CoreTyped(queue', np', pending', adv', open', toExec')
        /\ Linked(np', adv', open', gen)
        /\ skipReq' = FALSE /\ fails' \in Nat /\ timers' \in Nat
    BY <1>1, <1>3, <2>1, ExpireLinked, CatchLinked
  <2>3. RestTyped'
    BY <2>2 DEF IInv, RestTyped, UrlResolved
  <2> QED BY <1>1, <2>2, <2>3 DEF IInv, SkipIsKept
<1> QED BY <1>2, <1>3 DEF UrlResolved

LEMMA LyricResolvedKeeps == ASSUME IInv, LyricResolved PROVE IInv'
<1>1. adv # NoAdv /\ adv.ph = "lyric" /\ adv \in Advances /\ gen' = gen /\ adv.item \in Item
  BY DEF IInv, CoreTyped, LyricResolved, NoAdv, Linked
<1>2. plays' \in Nat /\ plays + 1 \in Nat /\ plays + 1 # 0
  BY DEF IInv, RestTyped, LyricResolved
<1>3. CASE /\ adv.gen = gen /\ UNCHANGED <<skipReq, fails, timers>>
           /\ Leave(queue, [obj |-> plays + 1, item |-> adv.item, paused |-> FALSE],
                    NoItem, [adv EXCEPT !.ph = "play"], open,
                    Append(toExec, Msg("play", adv.item.id, "adv")))
  <2> DEFINE a == [adv EXCEPT !.ph = "play"]
             n == [obj |-> plays + 1, item |-> adv.item, paused |-> FALSE]
             m == Msg("play", adv.item.id, "adv")
  <2>1. a \in Advances /\ a.ph = "play" /\ a.item = adv.item /\ a.gen = adv.gen
    BY <1>1 DEF Advances
  <2>2. a # NoAdv
    BY <2>1 DEF NoAdv
  <2>3. n \in NowPlays /\ n # NoPlay /\ n.item = adv.item /\ n.obj # 0
    BY <1>1, <1>2 DEF NowPlays, Place, NoPlay
  <2>4. m \in Requests
    BY <1>1 DEF Msg, Requests, Waiters, Item
  <2>5. Append(toExec, m) \in Seq(Requests)
    BY <2>4 DEF IInv, CoreTyped
  <2>6. CoreTyped(queue, n, NoItem, a, open, Append(toExec, m))
    BY <2>1, <2>3, <2>5, Nothings DEF IInv, CoreTyped
  <2>7. Linked(n, a, open, gen)
    BY <1>1, <1>3, <2>1, <2>2, <2>3 DEF IInv, Linked, Sound
  <2>8. RestTyped'
    BY <1>2, <1>3 DEF IInv, RestTyped, LyricResolved
  <2>9. SkipIsKept'
    BY <1>3, <2>1 DEF SkipIsKept, advancing, Leave
  <2> QED BY <1>1, <1>3, <2>6, <2>7, <2>8, <2>9 DEF IInv, Leave
<1>4. CASE (adv.gen # gen /\ Expire) \/ Catch(toExec)
  <2>1. toExec \in Seq(Requests)
    BY DEF IInv, CoreTyped
  <2>2. /\ CoreTyped(queue', np', pending', adv', open', toExec')
        /\ Linked(np', adv', open', gen)
        /\ skipReq' = FALSE /\ fails' \in Nat /\ timers' \in Nat
    BY <1>1, <1>4, <2>1, ExpireLinked, CatchLinked
  <2>3. RestTyped'
    BY <1>2, <2>2 DEF IInv, RestTyped, LyricResolved
  <2> QED BY <1>1, <2>2, <2>3 DEF IInv, SkipIsKept
<1> QED BY <1>3, <1>4 DEF LyricResolved

LEMMA PlayAnsweredLinked ==
  ASSUME IInv, adv.ph = "play", NEW ok, NEW o \in Seq(Requests), PlayAnswered(ok, o)
  PROVE  /\ CoreTyped(queue', np', pending', adv', open', toExec')
         /\ Linked(np', adv', open', gen)
         /\ skipReq' = FALSE /\ fails' \in Nat /\ timers' \in Nat
<1>1. adv # NoAdv /\ open = <<>> /\ adv.item \in Item /\ gen \in Nat
      /\ fails \in Nat /\ timers \in Nat
  BY DEF IInv, Linked, NoAdv, RestTyped
<1>2. CASE /\ adv.gen # gen /\ UNCHANGED <<fails, timers>>
           /\ Settle(queue, np, pending, open,
                     IF np = NoPlay THEN Send(o, Msg("stop", 0, Nobody)) ELSE o)
  <2> DEFINE o2 == IF np = NoPlay THEN Send(o, Msg("stop", 0, Nobody)) ELSE o
  <2>1. np = NoPlay
    BY <1>1, <1>2 DEF IInv, Linked
  <2>2. o2 \in Seq(Requests)
    BY StopRequest, SendType
  <2>3. CoreTyped(queue, np, pending, NoAdv, open, o2)
    BY <2>2, Nothings DEF IInv, CoreTyped
  <2>4. Linked(np, NoAdv, open, gen)
    BY <1>1, <2>1 DEF Linked, Sound, NoAdv
  <2> QED BY <1>1, <1>2, <2>3, <2>4, SettleLinked
<1>3. CASE /\ adv.gen = gen /\ fails' = 0 /\ UNCHANGED timers
           /\ Settle(queue, np, pending, Append(open, adv.item.id), o)
  <2> DEFINE r == Append(open, adv.item.id)
  <2>1. np # NoPlay /\ np.item = adv.item /\ Sound(np)
    BY <1>3 DEF IInv, Linked
  <2>2. r = <<np.item.id>> /\ r \in Seq(Nat)
    BY <1>1, <2>1 DEF Item
  <2>3. CoreTyped(queue, np, pending, NoAdv, r, o)
    BY <2>2, Nothings DEF IInv, CoreTyped
  <2>4. Linked(np, NoAdv, r, gen)
    BY <2>1, <2>2 DEF Linked, NoAdv
  <2> QED BY <1>1, <1>3, <2>3, <2>4, SettleLinked
<1>4. CASE Catch(o)
  BY <1>1, <1>4, CatchLinked
<1> QED BY <1>2, <1>3, <1>4 DEF PlayAnswered

LEMMA RetryTimerKeeps == ASSUME IInv, RetryTimer PROVE IInv'
<1>1. EnsurePlaying(running, gen, queue, np, pending, adv, open, toExec)
      /\ gen' = gen /\ skipReq' = skipReq /\ gen \in Nat
  BY DEF RetryTimer, IInv, RestTyped
<1>2. CoreTyped(queue', np', pending', adv', open', toExec') /\ Linked(np', adv', open', gen)
  BY <1>1, EnsurePlayingLinked DEF IInv
<1>3. adv # NoAdv => adv' = adv
  BY <1>1 DEF EnsurePlaying, Leave
<1>4. SkipIsKept'
  BY <1>1, <1>3, Between DEF SkipIsKept, advancing, IInv
<1>5. RestTyped'
  <2>1. timers' \in Nat
    BY DEF RetryTimer, IInv, RestTyped
  <2> QED BY <2>1 DEF IInv, RestTyped, RetryTimer
<1> QED BY <1>1, <1>2, <1>4, <1>5 DEF IInv

-----------------------------------------------------------------------------
(* The controls of the song that is on, and the answers to them.           *)

\* A song that is on stays sound when its paused flag changes.
LEMMA PausedLinked ==
  ASSUME NEW n \in NowPlays, NEW b \in BOOLEAN, NEW a, NEW r, NEW g, n # NoPlay,
         Linked(n, a, r, g)
  PROVE  /\ [n EXCEPT !.paused = b] \in NowPlays
         /\ Linked([n EXCEPT !.paused = b], a, r, g)
<1> DEFINE m == [n EXCEPT !.paused = b]
<1>1. m \in NowPlays /\ m.item = n.item /\ m.obj = n.obj
  BY DEF NowPlays
<1>2. n.item \in Item /\ n.obj # 0
  BY DEF Linked, Sound
<1>3. m # NoPlay
  BY <1>1, <1>2 DEF NoPlay
<1> QED BY <1>1, <1>2, <1>3 DEF Linked, Sound

LEMMA SetPausedLinked ==
  ASSUME IInv, NEW x \in Nat \ {0}, NEW b \in BOOLEAN
  PROVE  SetPaused(x, b) \in NowPlays /\ Linked(SetPaused(x, b), adv, open, gen)
<1>1. np \in NowPlays /\ Linked(np, adv, open, gen)
  BY DEF IInv, CoreTyped
<1>2. CASE np.obj = x
  <2>1. np # NoPlay
    BY <1>2 DEF NoPlay
  <2> QED BY <1>1, <1>2, <2>1, PausedLinked DEF SetPaused
<1>3. CASE np.obj # x
  BY <1>1, <1>3 DEF SetPaused
<1> QED BY <1>2, <1>3

LEMMA ControlKeeps ==
  ASSUME IInv, NEW c \in Clients, NEW op \in {"pause", "resume", "seek"}, NEW m \in Requests,
         Control(c, op, m)
  PROVE  IInv'
<1> DEFINE r == [op |-> op, obj |-> np.obj, paused |-> np.paused]
<1>1. np \in NowPlays /\ np # NoPlay /\ Sound(np) /\ RestTyped
  BY Between DEF IInv, CoreTyped, Control
<1>2. r \in Controls /\ r.obj # 0
  BY <1>1 DEF Controls, NowPlays, Sound
<1>3. CallsTyped(calls')
  BY <1>1, <1>2, BeginKeeps DEF Control
<1>4. toExec' \in Seq(Requests)
  BY DEF Control, IInv, CoreTyped
<1>5. RestTyped'
  BY <1>1, <1>3 DEF RestTyped, Control
<1>6. CoreTyped(queue', np', pending', adv', open', toExec')
  BY <1>4 DEF IInv, CoreTyped, Control
<1> QED BY <1>5, <1>6 DEF IInv, SkipIsKept, advancing, Control

LEMMA PlayRequest ==
  ASSUME IInv, NEW w \in Waiters
  PROVE  Msg("play", np.item.id, w) \in Requests
<1>1. np.item.id \in Int
  BY DEF IInv, CoreTyped, NowPlays, Place, Item, NoItem
<1> QED BY <1>1 DEF Msg, Requests

LEMMA ControlsKeep ==
  ASSUME IInv, NEW c \in Clients, Pause(c) \/ Resume(c) \/ Seek(c)
  PROVE  IInv'
<1>1. c \in Waiters
  BY DEF Waiters
<1>2. Msg("pause", 0, c) \in Requests /\ Msg("resume", 0, c) \in Requests
      /\ Msg("play", np.item.id, c) \in Requests
  BY <1>1, PlayRequest DEF Msg, Requests
<1> QED BY <1>2, ControlKeeps DEF Pause, Resume, Seek

LEMMA TestChimeKeeps == ASSUME IInv, NEW c \in Clients, TestChime(c) PROVE IInv'
<1> DEFINE bare == ~running \/ np = NoPlay
           n == IF bare THEN np ELSE [np EXCEPT !.paused = TRUE]
           r == [op |-> IF bare THEN "bareChime" ELSE "chime",
                 obj |-> np.obj, paused |-> np.paused]
<1>1. np \in NowPlays /\ Sound(np) /\ RestTyped /\ Linked(np, adv, open, gen)
  BY Between DEF IInv, CoreTyped
<1>2. n \in NowPlays /\ Linked(n, adv, open, gen)
  BY <1>1, PausedLinked
<1>3. r \in Controls /\ (r.op = "chime" => r.obj # 0)
      /\ r.op \in {"chime", "bareChime"}
  BY <1>1 DEF Controls, NowPlays, Sound
<1>4. Msg("play", Chime, c) \in Requests
  BY DEF Msg, Requests, Waiters, Chime
<1>5. toExec' \in Seq(Requests) /\ CallsTyped(calls')
  <2>1. CASE connected
    <3>1. toExec' = Append(toExec, Msg("play", Chime, c)) /\ Begin(c, r)
      BY <2>1 DEF TestChime
    <3> QED BY <1>1, <1>3, <1>4, <3>1, BeginKeeps DEF IInv, CoreTyped
  <2>2. CASE ~connected
    BY <2>2 DEF TestChime, IInv, CoreTyped, RestTyped
  <2> QED BY <2>1, <2>2
<1>6. np' = n
  BY DEF TestChime
<1>7. RestTyped'
  BY <1>1, <1>5 DEF RestTyped, TestChime
<1>8. CoreTyped(queue', np', pending', adv', open', toExec')
  BY <1>2, <1>5, <1>6 DEF IInv, CoreTyped, TestChime
<1> QED BY <1>2, <1>6, <1>7, <1>8 DEF IInv, SkipIsKept, advancing, TestChime

\* What an answer leaves behind: all of the invariant except the variables
\* that the arrival of the answer itself changes.
Answer ==
  /\ CoreTyped(queue', np', pending', adv', open', toExec')
  /\ Linked(np', adv', open', gen)
  /\ skipReq' => skipReq /\ adv' = adv
  /\ skipReq' \in BOOLEAN /\ fails' \in Nat /\ timers' \in Nat
  /\ CallsTyped(calls') /\ RestoreTyped(restore') /\ RestoreTyped(rst')

LEMMA CallAnsweredKeeps ==
  ASSUME IInv, NEW c \in Clients, NEW ok \in BOOLEAN, NEW o \in Seq(Requests),
         calls[c].op \in {"pause", "resume", "seek", "chime", "bareChime"},
         CallAnswered(c, ok, o)
  PROVE  Answer
<1> DEFINE call == calls[c]
<1>1. RestTyped /\ call \in Controls /\ (call.op \in {"pause", "resume", "chime"} => call.obj # 0)
  BY CallKinds DEF IInv, RestTyped, CallsTyped
<1>2. CallsTyped(calls')
  BY <1>1, ReturnKeeps DEF CallAnswered
<1>3. np' \in NowPlays /\ Linked(np', adv, open, gen)
  <2>1. CASE ok /\ call.op = "pause"
    <3>1. np' = SetPaused(call.obj, TRUE) /\ call.obj \in Nat \ {0}
      BY <1>1, <2>1 DEF CallAnswered, Controls
    <3> QED BY <3>1, SetPausedLinked
  <2>2. CASE ok /\ call.op = "resume"
    <3>1. np' = SetPaused(call.obj, FALSE) /\ call.obj \in Nat \ {0}
      BY <1>1, <2>2 DEF CallAnswered, Controls
    <3> QED BY <3>1, SetPausedLinked
  <2>3. CASE ~(ok /\ call.op \in {"pause", "resume"})
    BY <2>3 DEF CallAnswered, IInv, CoreTyped
  <2> QED BY <2>1, <2>2, <2>3
<1>4. toExec' \in Seq(Requests)
  <2>1. toExec' = Send(o, Msg("pause", 0, Nobody)) \/ toExec' = o
    BY DEF CallAnswered
  <2> QED BY <2>1, PauseRequest, SendType
<1>5. RestoreTyped(restore')
  <2>1. CASE ok /\ call.op = "chime"
    <3>1. restore' = [obj |-> call.obj, paused |-> call.paused]
      BY <2>1 DEF CallAnswered
    <3> QED BY <1>1, <2>1, <3>1 DEF RestoreTyped, Restores, Controls
  <2>2. CASE ~(ok /\ call.op = "chime")
    BY <1>1, <2>2 DEF CallAnswered, RestTyped
  <2> QED BY <2>1, <2>2
<1>6. UNCHANGED <<queue, pending, adv, open, skipReq, fails, timers, rst>>
  BY DEF CallAnswered
<1>7. CoreTyped(queue', np', pending', adv', open', toExec')
  BY <1>3, <1>4, <1>6 DEF IInv, CoreTyped
<1> QED BY <1>1, <1>2, <1>3, <1>5, <1>6, <1>7 DEF Answer, RestTyped

\* Where the song is on and no restoring is possible, the machine skips.
LEMMA GiveUpRestoring ==
  ASSUME IInv, NEW o \in Seq(Requests),
         IF advancing THEN Leave(queue, np, pending, adv, open, o)
                      ELSE Launch(gen, queue, np, pending, open, o)
  PROVE  /\ CoreTyped(queue', np', pending', adv', open', toExec')
         /\ Linked(np', adv', open', gen)
         /\ adv' = adv \/ ~skipReq
<1>1. CASE advancing
  BY <1>1 DEF IInv, CoreTyped, Leave
<1>2. CASE ~advancing
  <2>1. queue \in Seq(Item)
    BY DEF IInv, CoreTyped
  <2> QED BY <1>2, <2>1, LaunchNow, Between
<1> QED BY <1>1, <1>2

LEMMA RestoreAnsweredKeeps ==
  ASSUME IInv, rst # NoRestore, NEW ok \in BOOLEAN, NEW o \in Seq(Requests),
         RestoreAnswered(ok, o)
  PROVE  Answer
<1>1. rst \in Restores /\ rst.obj \in Nat \ {0} /\ rst.paused \in BOOLEAN
  BY DEF IInv, RestTyped, RestoreTyped, Restores
<1>2. RestTyped /\ UNCHANGED <<calls, restore, skipReq, fails, timers>> /\ RestoreTyped(rst')
  BY Nothings DEF IInv, RestoreAnswered, RestoreTyped
<1>3. CASE ok
  <2> DEFINE o2 == IF rst.paused THEN Send(o, Msg("pause", 0, Nobody)) ELSE o
             n == SetPaused(rst.obj, rst.paused)
  <2>1. Leave(queue, n, pending, adv, open, o2)
    BY <1>3 DEF RestoreAnswered
  <2>2. o2 \in Seq(Requests)
    BY PauseRequest, SendType
  <2>3. n \in NowPlays /\ Linked(n, adv, open, gen)
    BY <1>1, SetPausedLinked
  <2>4. CoreTyped(queue, n, pending, adv, open, o2)
    BY <2>2, <2>3 DEF IInv, CoreTyped
  <2> QED BY <1>2, <2>1, <2>3, <2>4 DEF Answer, Leave, RestTyped
<1>4. CASE ~ok
  <2>1. /\ CoreTyped(queue', np', pending', adv', open', toExec')
        /\ Linked(np', adv', open', gen)
        /\ adv' = adv \/ ~skipReq
    BY <1>4, GiveUpRestoring DEF RestoreAnswered
  <2> QED BY <1>2, <2>1 DEF Answer, RestTyped
<1> QED BY <1>3, <1>4

LEMMA RestoreAfterTestKeeps ==
  ASSUME IInv, restore # NoRestore, rst = NoRestore, RestoreAfterTest(toExec)
  PROVE  /\ CoreTyped(queue', np', pending', adv', open', toExec')
         /\ Linked(np', adv', open', gen)
         /\ adv' = adv \/ ~skipReq
         /\ RestoreTyped(restore') /\ RestoreTyped(rst')
<1>1. RestoreTyped(restore) /\ RestoreTyped(rst) /\ toExec \in Seq(Requests)
  BY DEF IInv, RestTyped, CoreTyped
<1>2. RestoreTyped(restore') /\ RestoreTyped(rst')
  <2>1. restore' = NoRestore /\ (rst' = restore \/ rst' = rst)
    BY DEF RestoreAfterTest
  <2> QED BY <1>1, <2>1, Nothings DEF RestoreTyped
<1>3. CASE restore.obj # np.obj
  <2>1. UNCHANGED <<queue, np, pending, adv, open>> /\ toExec' = toExec
    BY <1>3 DEF RestoreAfterTest
  <2> QED BY <1>2, <2>1 DEF IInv, CoreTyped
<1>4. CASE restore.obj = np.obj /\ connected
  <2> DEFINE o == Append(toExec, Msg("play", np.item.id, "rst"))
  <2>1. Leave(queue, np, pending, adv, open, o)
    BY <1>4 DEF RestoreAfterTest
  <2>2. Msg("play", np.item.id, "rst") \in Requests
    BY PlayRequest DEF Waiters
  <2>3. o \in Seq(Requests)
    BY <1>1, <2>2
  <2> QED BY <1>2, <2>1, <2>3 DEF IInv, CoreTyped, Leave
<1>5. CASE restore.obj = np.obj /\ ~connected
  BY <1>1, <1>2, <1>5, GiveUpRestoring DEF RestoreAfterTest
<1> QED BY <1>3, <1>4, <1>5

LEMMA ChimeTimeoutKeeps == ASSUME IInv, ChimeTimeout PROVE IInv'
<1>1. /\ CoreTyped(queue', np', pending', adv', open', toExec')
      /\ Linked(np', adv', open', gen)
      /\ adv' = adv \/ ~skipReq
      /\ RestoreTyped(restore') /\ RestoreTyped(rst')
  BY RestoreAfterTestKeeps DEF ChimeTimeout
<1>2. RestTyped'
  BY <1>1 DEF IInv, RestTyped, ChimeTimeout
<1>3. SkipIsKept'
  BY <1>1 DEF IInv, SkipIsKept, advancing, ChimeTimeout
<1> QED BY <1>1, <1>2, <1>3 DEF IInv, ChimeTimeout

-----------------------------------------------------------------------------
(* Messages from the executor, and requests that time out.                 *)

LEMMA AnsweredKeeps ==
  ASSUME IInv, NEW w, NEW ok \in BOOLEAN, NEW o \in Seq(Requests), Waiting(w), Answered(w, ok, o)
  PROVE  Answer
<1>1. CASE w = "adv" /\ PlayAnswered(ok, o) /\ UNCHANGED <<calls, restore, rst>>
  <2>1. w \notin Clients
    BY <1>1, JukeboxAssumption
  <2>2. adv.ph = "play"
    BY <1>1, <2>1 DEF Waiting
  <2>3. /\ CoreTyped(queue', np', pending', adv', open', toExec')
        /\ Linked(np', adv', open', gen)
        /\ skipReq' = FALSE /\ fails' \in Nat /\ timers' \in Nat
    BY <1>1, <2>2, PlayAnsweredLinked
  <2> QED BY <1>1, <2>3 DEF Answer, IInv, RestTyped
<1>2. CASE w = "rst" /\ RestoreAnswered(ok, o)
  <2>1. w \notin Clients
    BY <1>2, JukeboxAssumption
  <2>2. rst # NoRestore
    BY <1>2, <2>1 DEF Waiting
  <2> QED BY <1>2, <2>2, RestoreAnsweredKeeps
<1>3. CASE w \in Clients /\ CallAnswered(w, ok, o)
  <2>1. w # "adv" /\ w # "rst"
    BY <1>3, JukeboxAssumption
  <2>2. calls[w].op \in {"pause", "resume", "seek", "chime", "bareChime"}
    BY <2>1 DEF Waiting
  <2> QED BY <1>3, <2>2, CallAnsweredKeeps
<1> QED BY <1>1, <1>2, <1>3 DEF Answered

LEMMA ReplyArrivesKeeps == ASSUME IInv, ReplyArrives PROVE IInv'
<1> DEFINE m == Head(fromExec)
<1>1. fromExec \in Seq(Messages) /\ fromExec # <<>>
  BY DEF IInv, RestTyped, ReplyArrives
<1>2. m \in Messages /\ fromExec' \in Seq(Messages)
  BY <1>1 DEF ReplyArrives
<1>3. UNCHANGED <<running, gen, seq, plays, connected, crashes, slot>>
  BY DEF ReplyArrives
<1>4. CASE Waiting(m.w)
  <2>1. Answered(m.w, m.ok, toExec) /\ m.ok \in BOOLEAN /\ toExec \in Seq(Requests)
    BY <1>2, <1>4 DEF ReplyArrives, Messages, IInv, CoreTyped
  <2>2. Answer
    BY <1>4, <2>1, AnsweredKeeps
  <2>3. RestTyped'
    BY <1>2, <1>3, <2>2 DEF IInv, RestTyped, Answer
  <2>4. SkipIsKept'
    BY <2>2 DEF IInv, SkipIsKept, advancing, Answer
  <2> QED BY <1>3, <2>2, <2>3, <2>4 DEF IInv, Answer
<1>5. CASE ~Waiting(m.w)
  <2>1. UNCHANGED <<core, skipReq, fails, timers, calls, restore, rst>>
    BY <1>5 DEF ReplyArrives
  <2>2. RestTyped'
    BY <1>2, <1>3, <2>1 DEF IInv, RestTyped
  <2> QED BY <1>3, <2>1, <2>2 DEF IInv, core, SkipIsKept, advancing
<1> QED BY <1>4, <1>5

LEMMA TimedOutKeeps ==
  ASSUME IInv, NEW w \in Clients \cup {"adv", "rst"}, TimedOut(w)
  PROVE  IInv'
<1> DEFINE o == Forget(toExec, w)
<1>1. o \in Seq(Requests)
  BY ForgetRequests DEF IInv, CoreTyped, Waiters
<1>2. UNCHANGED <<running, gen, seq, plays, connected, crashes, fromExec, slot>>
  BY DEF TimedOut
<1>3. Waiting(w) /\ Answered(w, FALSE, o)
  BY DEF TimedOut
<1>4. Answer
  BY <1>1, <1>3, AnsweredKeeps
<1>5. RestTyped'
  BY <1>2, <1>4 DEF IInv, RestTyped, Answer
<1>6. SkipIsKept'
  BY <1>4 DEF IInv, SkipIsKept, advancing, Answer
<1> QED BY <1>2, <1>4, <1>5, <1>6 DEF IInv, Answer

LEMMA EndedArrivesKeeps == ASSUME IInv, EndedArrives PROVE IInv'
<1>1. fromExec' \in Seq(Messages)
  BY DEF IInv, RestTyped, EndedArrives
<1>2. UNCHANGED <<running, gen, skipReq, fails, timers, seq, plays, calls, connected, crashes, slot>>
  BY DEF EndedArrives
<1>3. /\ CoreTyped(queue', np', pending', adv', open', toExec')
      /\ Linked(np', adv', open', gen)
      /\ adv' = adv \/ ~skipReq
      /\ RestoreTyped(restore') /\ RestoreTyped(rst')
  <2>1. CASE restore # NoRestore /\ rst = NoRestore /\ RestoreAfterTest(toExec)
    BY <2>1, RestoreAfterTestKeeps
  <2>2. CASE UNCHANGED <<core, restore, rst>>
    BY <2>2 DEF IInv, RestTyped, core
  <2>3. CASE /\ UNCHANGED <<restore, rst>>
             /\ IF advancing THEN UNCHANGED core ELSE Launch(gen, queue, np, pending, open, toExec)
    <3>1. CASE advancing
      BY <2>3, <3>1 DEF IInv, RestTyped, core
    <3>2. CASE ~advancing
      <4>1. queue \in Seq(Item) /\ toExec \in Seq(Requests)
        BY DEF IInv, CoreTyped
      <4> QED BY <2>3, <3>2, <4>1, LaunchNow, Between DEF IInv, RestTyped
    <3> QED BY <3>1, <3>2
  <2> QED BY <2>1, <2>2, <2>3 DEF EndedArrives
<1>4. RestTyped'
  BY <1>1, <1>2, <1>3 DEF IInv, RestTyped
<1>5. SkipIsKept'
  BY <1>2, <1>3 DEF IInv, SkipIsKept, advancing
<1> QED BY <1>2, <1>3, <1>4, <1>5 DEF IInv

-----------------------------------------------------------------------------
(* The executor and its link.                                              *)

LEMMA ReplyType ==
  ASSUME NEW f \in Seq(Messages), NEW w \in Waiters, NEW ok \in BOOLEAN, NEW x \in Int
  PROVE  /\ f \o Reply(w, ok) \in Seq(Messages)
         /\ Append(f, Ended(x)) \in Seq(Messages)
<1>1. Reply(w, ok) \in Seq(Messages)
  <2>1. [op |-> "reply", src |-> 0, w |-> w, ok |-> ok] \in Messages
    BY DEF Messages
  <2> QED BY <2>1 DEF Reply
<1>2. Ended(x) \in Messages
  BY DEF Ended, Messages, Waiters
<1> QED BY <1>1, <1>2

LEMMA ExecStepKeeps == ASSUME IInv, ExecStep PROVE IInv'
<1> DEFINE m == Head(toExec)
<1>1. toExec \in Seq(Requests) /\ toExec # <<>> /\ fromExec \in Seq(Messages) /\ slot \in Slots
  BY DEF IInv, CoreTyped, RestTyped, ExecStep
<1>2. m \in Requests /\ toExec' \in Seq(Requests) /\ m.w \in Waiters /\ m.src \in Int
  <2>1. toExec' = Tail(toExec)
    BY DEF ExecStep
  <2>2. m \in Requests /\ Tail(toExec) \in Seq(Requests)
    BY <1>1
  <2>3. m.w \in Waiters /\ m.src \in Int
    BY <2>2 DEF Requests
  <2> QED BY <2>1, <2>2, <2>3
<1>3. fromExec' \in Seq(Messages) /\ slot' \in Slots
  <2>1. CASE m.op = "play" /\ ExecPlay(m)
    <3>1. [src |-> m.src, st |-> "playing"] \in Slots /\ [src |-> m.src, st |-> "drained"] \in Slots
          /\ NoSlot \in Slots
      BY <1>2, Nothings DEF Slots
    <3>2. /\ fromExec \o Reply(m.w, TRUE) \in Seq(Messages)
          /\ fromExec \o Reply(m.w, FALSE) \in Seq(Messages)
          /\ Append(fromExec, Ended(m.src)) \in Seq(Messages)
      BY <1>1, <1>2, ReplyType
    <3>3. Append(fromExec, Ended(m.src)) \o Reply(m.w, TRUE) \in Seq(Messages)
      BY <1>2, <3>2, ReplyType
    <3> QED BY <1>1, <2>1, <3>1, <3>2, <3>3 DEF ExecPlay
  <2>2. CASE ExecControl(m)
    <3>1. PICK st \in {"playing", "paused", "hung", slot.st} : slot' = [slot EXCEPT !.st = st]
      BY <2>2 DEF ExecControl
    <3>2. slot' \in Slots
      BY <1>1, <3>1 DEF Slots
    <3> DEFINE b == IF m.op = "pause" THEN slot.st \in {"playing", "paused", "hung"}
                                      ELSE slot.st # "off"
    <3>3. PICK ok \in BOOLEAN : fromExec' = fromExec \o Reply(m.w, ok)
      <4>1. b \in BOOLEAN
        <5>1. (slot.st \in {"playing", "paused", "hung"}) \in BOOLEAN
          OBVIOUS
        <5>2. (slot.st # "off") \in BOOLEAN
          OBVIOUS
        <5> QED BY <5>1, <5>2, Zenon
      <4>2. fromExec' = fromExec \o Reply(m.w, b)
        BY <2>2 DEF ExecControl
      <4> QED BY <4>1, <4>2
    <3> QED BY <1>1, <1>2, <3>2, <3>3, ReplyType
  <2>3. CASE slot' = NoSlot /\ UNCHANGED fromExec
    BY <1>1, <2>3, Nothings
  <2> QED BY <2>1, <2>2, <2>3 DEF ExecStep
<1>4. UNCHANGED <<queue, np, pending, adv, open, running, gen, skipReq, fails, timers, seq,
                  plays, calls, restore, rst, connected, crashes>>
  BY DEF ExecStep
<1>5. RestTyped'
  BY <1>3, <1>4 DEF IInv, RestTyped
<1>6. CoreTyped(queue', np', pending', adv', open', toExec')
  BY <1>2, <1>4 DEF IInv, CoreTyped
<1> QED BY <1>4, <1>5, <1>6 DEF IInv, SkipIsKept, advancing

LEMMA SourceEndsKeeps == ASSUME IInv, SourceEnds PROVE IInv'
<1>1. slot \in Slots /\ fromExec \in Seq(Messages)
  BY DEF IInv, RestTyped
<1>2. slot' \in Slots /\ slot.src \in Int
  BY <1>1 DEF SourceEnds, Slots
<1>3. Append(fromExec, Ended(slot.src)) \in Seq(Messages)
  BY <1>1, <1>2, ReplyType DEF Waiters
<1>4. fromExec' \in Seq(Messages)
  BY <1>1, <1>3 DEF SourceEnds
<1>5. UNCHANGED <<core, running, gen, skipReq, fails, timers, seq, plays, calls, restore, rst,
                  connected, crashes>>
  BY DEF SourceEnds
<1>6. RestTyped'
  BY <1>2, <1>4, <1>5 DEF IInv, RestTyped
<1> QED BY <1>5, <1>6 DEF IInv, core, SkipIsKept, advancing

LEMMA DisconnectKeeps == ASSUME IInv, Disconnect PROVE IInv'
<1>1. toExec \in Seq(Requests) /\ slot \in Slots
  BY DEF IInv, CoreTyped, RestTyped
<1>2. slot' \in Slots
  BY <1>1, Nothings DEF Disconnect
<1>3. toExec' \in Seq(Requests)
  <2>1. CASE toExec' = <<>>
    BY <2>1
  <2>2. ASSUME NEW k \in 0..Len(toExec),
               toExec' = [j \in 1..k |-> [toExec[j] EXCEPT !.w = Nobody]]
        PROVE  toExec' \in Seq(Requests)
    <3>1. ASSUME NEW j \in 1..k PROVE [toExec[j] EXCEPT !.w = Nobody] \in Requests
      <4>1. toExec[j] \in Requests
        BY <1>1
      <4>2. Nobody \in Waiters
        BY DEF Waiters
      <4> QED BY <4>1, <4>2 DEF Requests
    <3>2. toExec' \in [1..k -> Requests]
      BY <2>2, <3>1, Zenon
    <3>3. k \in Nat
      BY <1>1
    <3>4. Seq(Requests) = UNION {[1..n -> Requests] : n \in Nat}
      BY SeqDef, Zenon
    <3> QED BY <3>2, <3>3, <3>4, Zenon
  <2> QED BY <2>1, <2>2 DEF Disconnect
<1>4. connected' \in BOOLEAN /\ crashes' \in Nat /\ fromExec' \in Seq(Messages)
  <2>1. connected' = FALSE /\ crashes' = crashes + 1 /\ fromExec' = <<>>
    BY DEF Disconnect
  <2>2. crashes \in Nat
    BY DEF IInv, RestTyped
  <2>3. crashes' \in Nat
    BY <2>1, <2>2
  <2>4. <<>> \in Seq(Messages)
    OBVIOUS
  <2> QED BY <2>1, <2>3, <2>4, Zenon
<1>5. UNCHANGED <<queue, np, pending, adv, open, running, gen, skipReq, fails, timers, seq,
                  plays, calls, restore, rst>>
  BY DEF Disconnect
<1>6. RestTyped'
  BY <1>2, <1>4, <1>5 DEF IInv, RestTyped
<1>7. CoreTyped(queue', np', pending', adv', open', toExec')
  BY <1>3, <1>5 DEF IInv, CoreTyped
<1> QED BY <1>5, <1>6, <1>7 DEF IInv, SkipIsKept, advancing

LEMMA ReconnectKeeps == ASSUME IInv, Reconnect PROVE IInv'
<1>1. UNCHANGED <<running, gen, skipReq, fails, timers, seq, plays, calls, restore, rst,
                  crashes, fromExec, slot>> /\ connected' = TRUE
  BY DEF Reconnect
<1>2. RestTyped'
  BY <1>1 DEF IInv, RestTyped
<1>3. CASE running /\ ~advancing /\ np # NoPlay
  <2> DEFINE q == <<np.item>> \o queue
  <2>1. EnsurePlaying(running, gen, q, NoPlay, NoItem, adv, Archive(open), toExec)
    BY <1>3 DEF Reconnect
  <2>2. adv = NoAdv /\ Archive(open) = <<>> /\ Sound(np) /\ ~skipReq
    BY <1>3, Between
  <2>3. np.item \in Item
    BY <1>3, <2>2 DEF Sound
  <2>4. q \in Seq(Item)
    BY <2>3 DEF IInv, CoreTyped
  <2>5. CoreTyped(q, NoPlay, NoItem, adv, <<>>, toExec)
    BY <2>4, Nothings DEF IInv, CoreTyped
  <2>6. Linked(NoPlay, adv, <<>>, gen)
    BY <2>2 DEF Linked, Sound, NoAdv
  <2>7. gen \in Nat
    BY DEF IInv, RestTyped
  <2>8. CoreTyped(queue', np', pending', adv', open', toExec') /\ Linked(np', adv', open', gen)
    BY <2>1, <2>2, <2>5, <2>6, <2>7, EnsurePlayingLinked
  <2> QED BY <1>1, <1>2, <2>2, <2>8 DEF IInv, SkipIsKept
<1>4. CASE ~(running /\ ~advancing /\ np # NoPlay)
  <2>1. UNCHANGED core
    BY <1>4 DEF Reconnect
  <2> QED BY <1>1, <1>2, <2>1 DEF IInv, core, SkipIsKept, advancing
<1> QED BY <1>3, <1>4

-----------------------------------------------------------------------------
(* The invariant, and what follows from it.                                *)

LEMMA InitInvariant == ASSUME Init PROVE IInv
<1>1. RestTyped
  <2>1. CallsTyped(calls)
    BY DEF Init, CallsTyped, NoCall
  <2>2. RestoreTyped(restore) /\ RestoreTyped(rst) /\ slot \in Slots
    BY Nothings DEF Init, RestoreTyped
  <2>3. connected \in BOOLEAN
    BY Zenon DEF Init
  <2>4. fromExec = <<>> /\ fromExec \in Seq(Messages)
    BY DEF Init
  <2>5. running \in BOOLEAN /\ skipReq \in BOOLEAN
    BY DEF Init
  <2>6. gen \in Nat /\ fails \in Nat /\ timers \in Nat /\ seq \in Nat /\ plays \in Nat
        /\ crashes \in Nat
    BY DEF Init
  <2> QED BY <2>1, <2>2, <2>3, <2>4, <2>5, <2>6 DEF RestTyped
<1>2. CoreTyped(queue, np, pending, adv, open, toExec)
  <2>1. open \in {<<>>, <<0>>} /\ queue = <<>> /\ toExec = <<>>
    BY DEF Init
  <2>2. queue \in Seq(Item) /\ toExec \in Seq(Requests)
    BY <2>1
  <2>4. open \in Seq(Nat)
    <3>1. <<>> \in Seq(Nat) /\ <<0>> \in Seq(Nat)
      OBVIOUS
    <3> QED BY <2>1, <3>1
  <2>3. np = NoPlay /\ pending = NoItem /\ adv = NoAdv
    BY DEF Init
  <2> QED BY <2>2, <2>3, <2>4, Nothings DEF CoreTyped
<1>3. Linked(np, adv, open, gen)
  BY DEF Init, Linked, Sound, NoAdv
<1>4. SkipIsKept
  BY DEF Init, SkipIsKept
<1> QED BY <1>1, <1>2, <1>3, <1>4 DEF IInv

LEMMA StutterKeeps == ASSUME IInv, UNCHANGED vars PROVE IInv'
<1>1. RestTyped'
  BY DEF IInv, RestTyped, vars
<1> QED BY <1>1 DEF IInv, CoreTyped, SkipIsKept, advancing, vars

LEMMA NextKeeps == ASSUME IInv, Next PROVE IInv'
<1>1. CASE UserStep
  <2>1. CASE Start \/ Stop \/ Restart \/ Skip
    BY <2>1, StartKeeps, StopKeeps, RestartKeeps, SkipKeeps
  <2>2. CASE RemoveItem \/ ToTop \/ ClearQueue
    BY <2>2, EditKeeps
  <2>3. CASE \E s \in Songs : Previous(s)
    BY <2>3, PreviousKeeps
  <2>4. CASE \E c \in Clients, s \in Songs, u \in Users \cup {Console} : Add(c, u, s)
    BY <2>4, AddKeeps
  <2>5. CASE \E c \in Clients, s \in Songs : PlayNow(c, s)
    BY <2>5, PlayNowKeeps
  <2>6. CASE \E c \in Clients : Pause(c) \/ Resume(c) \/ Seek(c)
    BY <2>6, ControlsKeep
  <2>7. CASE \E c \in Clients : TestChime(c)
    BY <2>7, TestChimeKeeps
  <2> QED BY <1>1, <2>1, <2>2, <2>3, <2>4, <2>5, <2>6, <2>7 DEF UserStep
<1>2. CASE MachineStep
  <2>1. CASE IdleResolved \/ UrlResolved \/ LyricResolved \/ RetryTimer
    BY <2>1, IdleResolvedKeeps, UrlResolvedKeeps, LyricResolvedKeeps, RetryTimerKeeps
  <2>2. CASE \E c \in Clients : AddResolved(c) \/ PlayNowResolved(c)
    BY <2>2, AddResolvedKeeps, PlayNowResolvedKeeps
  <2>3. CASE ReplyArrives \/ EndedArrives \/ ChimeTimeout
    BY <2>3, ReplyArrivesKeeps, EndedArrivesKeeps, ChimeTimeoutKeeps
  <2>4. CASE \E w \in Clients \cup {"adv", "rst"} : TimedOut(w)
    BY <2>4, TimedOutKeeps
  <2> QED BY <1>2, <2>1, <2>2, <2>3, <2>4 DEF MachineStep
<1>3. CASE ExecutorStep
  BY <1>3, ExecStepKeeps, SourceEndsKeeps, ReconnectKeeps DEF ExecutorStep
<1>4. CASE Disconnect
  BY <1>4, DisconnectKeeps
<1> QED BY <1>1, <1>2, <1>3, <1>4 DEF Next

\* The inductive invariant holds in every state of the song machine and the
\* executor (music/jukebox.ts), whoever calls it and whatever fails.
THEOREM Invariance == Spec => []IInv
<1>1. Init => IInv
  BY InitInvariant
<1>2. IInv /\ [Next]_vars => IInv'
  BY NextKeeps, StutterKeeps
<1> QED BY <1>1, <1>2, PTL DEF Spec

\* Every variable of the machine, the wire and the executor keeps its type.
THEOREM TypeCorrect == Spec => []TypeOK
<1>1. IInv => TypeOK
  BY DEF IInv, CoreTyped, RestTyped, CallsTyped, RestoreTyped, TypeOK
<1> QED BY <1>1, Invariance, PTL

\* The play history agrees with what plays, whatever interleaving of
\* advances, stops, skips and executor answers: at most one record is open,
\* and between two advances it is that of the song now playing.
THEOREM HistoryCorrect == Spec => []OpenRecordIsNowPlaying
<1>1. ASSUME IInv PROVE OpenRecordIsNowPlaying
  <2>1. Linked(np, adv, open, gen)
    BY <1>1 DEF IInv
  <2>2. ~advancing => adv = NoAdv
    BY <1>1, Between
  <2>3. Len(open) <= 1 /\ \A k \in DOMAIN open : open[k] # 0 => open[k] = np.item.id
    <3>1. CASE open = <<>>
      BY <3>1
    <3>2. CASE open # <<>>
      <4>1. PICK x \in {0, np.item.id} : open = <<x>>
        BY <2>1, <3>2 DEF Linked
      <4>2. Len(<<x>>) = 1 /\ DOMAIN <<x>> = {1} /\ <<x>>[1] = x
        OBVIOUS
      <4>3. Len(open) = 1 /\ DOMAIN open = {1} /\ open[1] = x
        BY <4>1, <4>2, Zenon
      <4> QED BY <4>3
    <3> QED BY <3>1, <3>2
  <2> QED BY <2>1, <2>2, <2>3 DEF OpenRecordIsNowPlaying, Linked
<1> QED BY <1>1, Invariance, PTL

\* An advance() that stop() or restart() overtook never holds the song that
\* is on: the one that awaits the executor for it is of this generation.
THEOREM NoStaleAdvance == Spec => []StaleAdvanceIsSilent
<1>1. IInv => StaleAdvanceIsSilent
  BY DEF IInv, Linked, StaleAdvanceIsSilent, NoAdv
<1> QED BY <1>1, Invariance, PTL

\* A skip that has to wait has an advance() to wait for, so it is served.
THEOREM SkipCorrect == Spec => []SkipIsKept
<1>1. IInv => SkipIsKept
  BY DEF IInv
<1> QED BY <1>1, Invariance, PTL

-----------------------------------------------------------------------------
(* A machine that is never stopped does not stall.                         *)

\* Nobody stops or restarts the machine, and the idle play lists answer.
NeverStopped == Ops \cap {"stop", "restart"} = {} /\ "idleFails" \notin Faults

\* The running advance() is then always the present one.
Present(a) == a # NoAdv => a.gen = gen
Steady == Present(adv) /\ NoStall

\* What a step leaves that starts a song or lets one go, and what a step
\* leaves that does neither.
Busy == np' # NoPlay \/ adv' # NoAdv \/ queue' = <<>> \/ ~running'
Idles ==
  /\ UNCHANGED <<adv, running, fails, timers>>
  /\ queue = <<>> => queue' = <<>>
  /\ np' = NoPlay => np = NoPlay

LEMMA BusyKeeps ==
  ASSUME IInv, IInv', Present(adv'), gen' = gen, Busy
  PROVE  Steady'
<1>1. adv' # NoAdv => adv'.ph # "none"
  BY DEF IInv, Linked
<1> QED BY <1>1 DEF Busy, Steady, Present, NoStall, advancing

LEMMA IdlesKeeps ==
  ASSUME Steady, Idles, gen' = gen
  PROVE  Steady'
BY DEF Idles, Steady, Present, NoStall, advancing

LEMMA LaunchBusy ==
  ASSUME NEW q, NEW n, NEW p, NEW r, NEW o, Launch(gen, q, n, p, r, o)
  PROVE  Busy /\ Present(adv')
BY DEF Launch, Leave, Busy, Present, NoAdv

LEMMA EnsureBusy ==
  ASSUME NEW q, NEW n, NEW p, NEW r, NEW o, NEW run, run \in BOOLEAN, Present(adv),
         EnsurePlaying(run, gen, q, n, p, adv, r, o), running' = run
  PROVE  Busy /\ Present(adv')
<1>1. CASE run /\ n = NoPlay /\ adv = NoAdv
  BY <1>1, LaunchBusy DEF EnsurePlaying
<1>2. CASE ~(run /\ n = NoPlay /\ adv = NoAdv)
  BY <1>2 DEF EnsurePlaying, Leave, Busy
<1> QED BY <1>1, <1>2

LEMMA SettleBusy ==
  ASSUME NEW q, NEW n, NEW p, NEW r, NEW o, Settle(q, n, p, r, o), n # NoPlay
  PROVE  Busy /\ Present(adv')
<1>1. CASE skipReq /\ running
  BY <1>1, LaunchBusy DEF Settle
<1>2. CASE ~(skipReq /\ running)
  BY <1>2 DEF Settle, Leave, Busy, Present
<1> QED BY <1>1, <1>2

\* A song that fails leaves a timer behind, or the retries are spent.
LEMMA CatchSteady ==
  ASSUME IInv, IInv', NEW o, Catch(o), Present(adv), adv # NoAdv, gen' = gen
  PROVE  Steady'
<1>1. fails \in Nat /\ timers \in Nat /\ MaxRetries \in Nat
  BY JukeboxAssumption DEF IInv, RestTyped
<1>2. CASE skipReq /\ running
  <2>1. Launch(gen, queue, NoPlay, NoItem, open, o)
    BY <1>2 DEF Catch, Settle
  <2> QED BY <2>1, LaunchBusy, BusyKeeps
<1>3. CASE ~(skipReq /\ running) /\ queue # <<>>
  <2>1. fails' = fails + 1 /\ (timers' = timers + 1 \/ ~(fails + 1 <= MaxRetries))
    BY <1>3 DEF Catch, Present
  <2>2. timers' > 0 \/ fails' > MaxRetries
    <3>1. CASE timers' = timers + 1
      BY <1>1, <3>1
    <3>2. CASE ~(fails + 1 <= MaxRetries)
      BY <1>1, <2>1, <3>2
    <3> QED BY <2>1, <3>1, <3>2
  <2>3. adv' = NoAdv
    BY <1>3 DEF Catch, Settle, Leave
  <2> QED BY <2>2, <2>3 DEF Steady, Present, NoStall
<1>4. CASE ~(skipReq /\ running) /\ queue = <<>>
  <2>1. queue' = <<>> /\ adv' = NoAdv
    BY <1>4 DEF Catch, Settle, Leave
  <2> QED BY <2>1 DEF Steady, Present, NoStall
<1> QED BY <1>2, <1>3, <1>4

\* The song that is on keeps its place when its flag changes.
LEMMA PausedIdles ==
  ASSUME IInv, NEW x \in Nat \ {0}, NEW b \in BOOLEAN, SetPaused(x, b) = NoPlay
  PROVE  np = NoPlay
BY DEF SetPaused, NoPlay, IInv, CoreTyped, NowPlays

LEMMA GiveUpSteady ==
  ASSUME IInv, IInv', Steady, NEW o, UNCHANGED <<gen, running, fails, timers>>,
         IF advancing THEN Leave(queue, np, pending, adv, open, o)
                      ELSE Launch(gen, queue, np, pending, open, o)
  PROVE  Steady'
<1>1. CASE advancing
  BY <1>1, IdlesKeeps DEF Leave, Idles
<1>2. CASE ~advancing
  BY <1>2, LaunchBusy, BusyKeeps
<1> QED BY <1>1, <1>2

LEMMA RestoreSteady ==
  ASSUME IInv, IInv', Steady, NEW o, RestoreAfterTest(o), UNCHANGED <<gen, running, fails, timers>>
  PROVE  Steady'
<1>1. CASE restore.obj # np.obj
  BY <1>1, IdlesKeeps DEF RestoreAfterTest, Idles
<1>2. CASE restore.obj = np.obj /\ connected
  BY <1>2, IdlesKeeps DEF RestoreAfterTest, Leave, Idles
<1>3. CASE restore.obj = np.obj /\ ~connected
  BY <1>3, GiveUpSteady DEF RestoreAfterTest
<1> QED BY <1>1, <1>2, <1>3

LEMMA AnsweredSteady ==
  ASSUME IInv, IInv', Steady, NEW w, NEW ok \in BOOLEAN, NEW o, Waiting(w), Answered(w, ok, o),
         UNCHANGED <<gen, running>>
  PROVE  Steady'
<1>1. CASE w = "adv" /\ PlayAnswered(ok, o)
  <2>1. adv.ph = "play" /\ adv # NoAdv /\ adv.gen = gen
    BY <1>1, JukeboxAssumption DEF Waiting, NoAdv, Steady, Present
  <2>2. np # NoPlay
    BY <2>1 DEF IInv, Linked
  <2>3. CASE Catch(o)
    BY <2>1, <2>3, CatchSteady DEF Steady
  <2>4. ASSUME NEW r, Settle(queue, np, pending, r, o) PROVE Steady'
    BY <2>2, <2>4, SettleBusy, BusyKeeps
  <2> QED BY <1>1, <2>1, <2>3, <2>4 DEF PlayAnswered
<1>2. CASE w = "rst" /\ RestoreAnswered(ok, o)
  <2>1. rst # NoRestore
    BY <1>2, JukeboxAssumption DEF Waiting
  <2>2. rst.obj \in Nat \ {0} /\ rst.paused \in BOOLEAN
    BY <2>1 DEF IInv, RestTyped, RestoreTyped, Restores
  <2>3. UNCHANGED <<fails, timers>>
    BY <1>2 DEF RestoreAnswered
  <2>4. CASE ok
    <3>1. np' = SetPaused(rst.obj, rst.paused) /\ UNCHANGED <<queue, adv>>
      BY <1>2, <2>4 DEF RestoreAnswered, Leave
    <3>2. np' = NoPlay => np = NoPlay
      BY <2>2, <3>1, PausedIdles
    <3> QED BY <2>3, <3>1, <3>2, IdlesKeeps DEF Idles
  <2>5. CASE ~ok
    BY <1>2, <2>3, <2>5, GiveUpSteady DEF RestoreAnswered
  <2> QED BY <2>4, <2>5
<1>3. CASE w \in Clients /\ CallAnswered(w, ok, o)
  <2>1. calls[w].op \in {"pause", "resume", "seek", "chime", "bareChime"}
    BY <1>3, JukeboxAssumption DEF Waiting
  <2>2. calls[w] \in Controls /\ (calls[w].op \in {"pause", "resume"} => calls[w].obj \in Nat \ {0})
    BY <1>3, <2>1, CallKinds DEF IInv, RestTyped, CallsTyped, Controls
  <2>3. UNCHANGED <<queue, adv, fails, timers>>
    BY <1>3 DEF CallAnswered
  <2>4. np' = NoPlay => np = NoPlay
    <3>1. CASE calls[w].op = "pause" /\ ok
      <4>1. np' = SetPaused(calls[w].obj, TRUE)
        BY <1>3, <3>1 DEF CallAnswered
      <4> QED BY <2>2, <3>1, <4>1, PausedIdles
    <3>2. CASE calls[w].op = "resume" /\ ok
      <4>1. np' = SetPaused(calls[w].obj, FALSE)
        BY <1>3, <3>2 DEF CallAnswered
      <4> QED BY <2>2, <3>2, <4>1, PausedIdles
    <3>3. CASE ~(calls[w].op \in {"pause", "resume"} /\ ok)
      BY <1>3, <3>3 DEF CallAnswered
    <3> QED BY <3>1, <3>2, <3>3
  <2> QED BY <2>3, <2>4, IdlesKeeps DEF Idles
<1> QED BY <1>1, <1>2, <1>3 DEF Answered

LEMMA UserSteady == ASSUME IInv, IInv', Steady, NeverStopped, UserStep PROVE Steady'
<1>0. Present(adv) /\ running \in BOOLEAN /\ ("stop" \notin Ops) /\ ("restart" \notin Ops)
  BY DEF Steady, NeverStopped, IInv, RestTyped
<1>1. CASE Start
  BY <1>0, <1>1, EnsureBusy, BusyKeeps DEF Start
<1>2. CASE Skip
  <2>1. CASE advancing
    BY <1>2, <2>1, IdlesKeeps DEF Skip, Idles, core
  <2>2. CASE ~advancing
    BY <1>2, <2>2, LaunchBusy, BusyKeeps DEF Skip
  <2> QED BY <2>1, <2>2
<1>3. ASSUME NEW q, SetQueue(q), queue = <<>> => q = <<>>
      PROVE  Steady'
  BY <1>3, IdlesKeeps DEF SetQueue, Idles
<1>4. CASE RemoveItem \/ ToTop \/ ClearQueue
  <2>1. queue = <<>> => DOMAIN queue = {}
    OBVIOUS
  <2> QED BY <1>3, <1>4, <2>1, Zenon DEF RemoveItem, ToTop, ClearQueue
<1>5. CASE \E s \in Songs : Previous(s)
  <2>1. PICK s \in Songs : Previous(s)
    BY <1>5
  <2>2. CASE advancing
    <3>1. adv' = adv /\ gen' = gen
      BY <2>1, <2>2 DEF Previous, PlayItemNow, Leave
    <3> QED BY <1>0, <2>2, <3>1, BusyKeeps DEF Busy, Present, advancing, NoAdv
  <2>3. CASE ~advancing
    BY <2>1, <2>3, LaunchBusy, BusyKeeps DEF Previous, PlayItemNow
  <2> QED BY <2>2, <2>3
<1>6. CASE \E c \in Clients, s \in Songs, u \in Users \cup {Console} : Add(c, u, s)
  BY <1>6, IdlesKeeps DEF Add, core, Idles
<1>7. CASE \E c \in Clients, s \in Songs : PlayNow(c, s)
  BY <1>7, IdlesKeeps DEF PlayNow, core, Idles
<1>8. CASE \E c \in Clients : Pause(c) \/ Resume(c) \/ Seek(c)
  BY <1>8, IdlesKeeps DEF Pause, Resume, Seek, Control, Idles
<1>9. CASE \E c \in Clients : TestChime(c)
  <2>1. np' = NoPlay => np = NoPlay
    <3>1. CASE np = NoPlay
      BY <3>1
    <3>2. CASE np # NoPlay
      <4>1. np \in NowPlays /\ np.obj # 0
        BY <3>2 DEF IInv, CoreTyped, Linked, Sound
      <4>2. np'.obj = np.obj
        BY <1>9, <4>1 DEF TestChime, NowPlays
      <4> QED BY <4>1, <4>2 DEF NoPlay
    <3> QED BY <3>1, <3>2
  <2> QED BY <1>9, <2>1, IdlesKeeps DEF TestChime, Idles
<1> QED BY <1>0, <1>1, <1>2, <1>4, <1>5, <1>6, <1>7, <1>8, <1>9 DEF UserStep

LEMMA MachineSteady == ASSUME IInv, IInv', Steady, NeverStopped, MachineStep PROVE Steady'
<1>0. Present(adv) /\ running \in BOOLEAN /\ ("idleFails" \notin Faults) /\ NoAdv.ph = "none"
      /\ adv \in Advances
  BY DEF Steady, NeverStopped, IInv, RestTyped, CoreTyped, NoAdv
<1>1. CASE IdleResolved
  <2>1. adv'.ph = "url" /\ adv'.gen = adv.gen /\ adv # NoAdv /\ gen' = gen
    BY <1>0, <1>1 DEF IdleResolved, Leave, Advances
  <2> QED BY <1>0, <2>1, BusyKeeps DEF Busy, Present
<1>2. CASE UrlResolved \/ LyricResolved
  <2>1. adv # NoAdv /\ adv.gen = gen /\ gen' = gen
    BY <1>0, <1>2 DEF UrlResolved, LyricResolved, Present
  <2>2. CASE Catch(toExec)
    BY <1>0, <2>1, <2>2, CatchSteady
  <2>3. CASE ~Catch(toExec)
    <3>1. adv'.ph \in {"lyric", "play"} /\ adv'.gen = adv.gen
      BY <1>0, <1>2, <2>1, <2>3 DEF UrlResolved, LyricResolved, Leave, Advances
    <3> QED BY <1>0, <2>1, <3>1, BusyKeeps DEF Busy, Present
  <2> QED BY <2>2, <2>3
<1>3. CASE RetryTimer
  BY <1>0, <1>3, EnsureBusy, BusyKeeps DEF RetryTimer
<1>4. CASE \E c \in Clients : AddResolved(c)
  <2>1. PICK c \in Clients : AddResolved(c)
    BY <1>4
  <2>2. CASE UNCHANGED core
    BY <2>1, <2>2, IdlesKeeps DEF AddResolved, core, Idles
  <2>3. CASE ~UNCHANGED core
    BY <1>0, <2>1, <2>3, EnsureBusy, BusyKeeps DEF AddResolved
  <2> QED BY <2>2, <2>3
<1>5. CASE \E c \in Clients : PlayNowResolved(c)
  <2>1. PICK c \in Clients : PlayNowResolved(c)
    BY <1>5
  <2>2. CASE UNCHANGED core
    BY <2>1, <2>2, IdlesKeeps DEF PlayNowResolved, core, Idles
  <2>3. CASE ~UNCHANGED core /\ advancing
    <3>1. adv' = adv /\ gen' = gen
      BY <2>1, <2>3 DEF PlayNowResolved, PlayItemNow, Leave
    <3> QED BY <1>0, <2>3, <3>1, BusyKeeps DEF Busy, Present, advancing
  <2>4. CASE ~UNCHANGED core /\ ~advancing
    BY <2>1, <2>4, LaunchBusy, BusyKeeps DEF PlayNowResolved, PlayItemNow
  <2> QED BY <2>2, <2>3, <2>4
<1>6. CASE ReplyArrives
  <2>1. CASE Waiting(Head(fromExec).w)
    <3>1. Head(fromExec).ok \in BOOLEAN
      <4>1. fromExec \in Seq(Messages) /\ fromExec # <<>>
        BY <1>6 DEF ReplyArrives, IInv, RestTyped
      <4>2. Head(fromExec) \in Messages
        BY <4>1
      <4> QED BY <4>2 DEF Messages
    <3> QED BY <1>6, <2>1, <3>1, AnsweredSteady DEF ReplyArrives
  <2>2. CASE ~Waiting(Head(fromExec).w)
    BY <1>6, <2>2, IdlesKeeps DEF ReplyArrives, core, Idles
  <2> QED BY <2>1, <2>2
<1>7. CASE EndedArrives
  <2>1. UNCHANGED <<gen, running, fails, timers>>
    BY <1>7 DEF EndedArrives
  <2>2. CASE RestoreAfterTest(toExec)
    BY <2>1, <2>2, RestoreSteady
  <2>3. CASE UNCHANGED core
    BY <2>1, <2>3, IdlesKeeps DEF core, Idles
  <2>4. CASE Launch(gen, queue, np, pending, open, toExec)
    BY <2>1, <2>4, LaunchBusy, BusyKeeps
  <2> QED BY <1>7, <2>2, <2>3, <2>4 DEF EndedArrives
<1>8. CASE ChimeTimeout
  BY <1>8, RestoreSteady DEF ChimeTimeout
<1>9. CASE \E w \in Clients \cup {"adv", "rst"} : TimedOut(w)
  BY <1>9, AnsweredSteady DEF TimedOut
<1> QED BY <1>1, <1>2, <1>3, <1>4, <1>5, <1>6, <1>7, <1>8, <1>9 DEF MachineStep

LEMMA ExecutorSteady ==
  ASSUME IInv, IInv', Steady, ExecutorStep \/ Disconnect \/ UNCHANGED vars
  PROVE  Steady'
<1>1. CASE Reconnect
  <2>1. Present(adv) /\ running \in BOOLEAN
    BY DEF Steady, IInv, RestTyped
  <2>2. CASE running /\ ~advancing /\ np # NoPlay
    BY <1>1, <2>1, <2>2, EnsureBusy, BusyKeeps DEF Reconnect
  <2>3. CASE UNCHANGED core
    BY <1>1, <2>3, IdlesKeeps DEF Reconnect, core, Idles
  <2> QED BY <1>1, <2>2, <2>3 DEF Reconnect
<1>2. CASE ExecStep \/ SourceEnds \/ Disconnect \/ UNCHANGED vars
  BY <1>2, IdlesKeeps DEF ExecStep, SourceEnds, Disconnect, vars, core, Idles
<1> QED BY <1>1, <1>2 DEF ExecutorStep

\* Without stop() and restart(), and with idle play lists that answer, the
\* machine of music/jukebox.ts never idles over a waiting song: whatever
\* fails, a timer is set or the retries are spent.  restart() does break this.
THEOREM NoStallUnlessStopped == NeverStopped => (Spec => []NoStall)
<1> SUFFICES ASSUME NeverStopped PROVE Spec => []NoStall
  OBVIOUS
<1>1. Init => Steady
  BY DEF Init, Steady, Present, NoStall
<1>2. IInv /\ IInv' /\ Steady /\ [Next]_vars => Steady'
  BY UserSteady, MachineSteady, ExecutorSteady DEF Next
<1>3. Steady => NoStall
  BY DEF Steady
<1> QED BY <1>1, <1>2, <1>3, Invariance, PTL DEF Spec

-----------------------------------------------------------------------------
(* The inductive invariant of the items.  Its parts take the variables     *)
(* that the parts of advance() receive as arguments.                       *)

\* The pending item is that of the running advance(), unless a stop() has
\* taken it away; without an advance() that resolves a song there is none.
Resolving(a) == a.ph \in {"url", "lyric"}
PendingIs(p, a, g) ==
  IF Resolving(a) THEN p = a.item \/ (p = NoItem /\ a.gen # g) ELSE p = NoItem

\* What waits is neither twice in the queue nor pending, on, or resolved.
Apart(q, n, p, a) ==
  /\ \A j, k \in DOMAIN q : j # k => q[j].id # q[k].id
  /\ \A k \in DOMAIN q : q[k].id # n.item.id /\ q[k].id # p.id /\ q[k].id # a.item.id
  /\ p # NoItem => p.id # n.item.id

Numbered(q, n, p, a, s) ==
  /\ \A k \in DOMAIN q : q[k].id <= s
  /\ n.item.id <= s /\ p.id <= s /\ a.item.id <= s

InPlace(q, n, p, a, g, s) == PendingIs(p, a, g) /\ Apart(q, n, p, a) /\ Numbered(q, n, p, a, s)

\* The calls of a viewer that have passed the quota and look a song up.
Asking(u) == {c \in Clients : calls[c].op = "add" /\ calls[c].by = u}
Room ==
  \A u \in Users : Cardinality(Requested(u)) + Cardinality(Asking(u)) <= MaxPerUser + Cardinality(Clients) - 1

ItemsInv ==
  /\ InPlace(queue, np, pending, adv, gen, seq)
  /\ NoDuplicateSongs /\ Room

-----------------------------------------------------------------------------
(* Sequences of items.                                                     *)

LEMMA ItemFacts ==
  /\ \A i \in Item : i.id \in Nat /\ i.id # 0 /\ i # NoItem
  /\ \A i \in Place : i.id \in Nat /\ (i # NoItem => i \in Item)
  /\ \A n \in NowPlays : n.item \in Place
  /\ \A a \in Advances : a.item \in Place
  /\ NoItem.id = 0 /\ NoPlay.item = NoItem /\ NoAdv.item = NoItem /\ NoAdv.ph = "none"
  /\ NoItem \in Place
BY DEF Item, Place, NoItem, NowPlays, Advances, NoPlay, NoAdv

LEMMA TailIs ==
  ASSUME NEW q \in Seq(Item), q # <<>>
  PROVE  /\ Tail(q) \in Seq(Item) /\ Head(q) \in Item /\ 1 \in DOMAIN q /\ Head(q) = q[1]
         /\ \A k \in DOMAIN Tail(q) : k + 1 \in DOMAIN q /\ k + 1 # 1 /\ Tail(q)[k] = q[k + 1]
         /\ \A j, k \in DOMAIN Tail(q) : j # k => j + 1 # k + 1
<1>1. Len(q) \in Nat \ {0} /\ DOMAIN q = 1..Len(q)
  BY EmptySeq, LenProperties
<1>2. Tail(q) \in Seq(Item) /\ Head(q) \in Item /\ Len(Tail(q)) = Len(q) - 1
      /\ \A i \in 1..Len(Tail(q)) : Tail(q)[i] = q[i + 1]
  BY HeadTailProperties
<1>3. DOMAIN Tail(q) = 1..Len(q) - 1
  BY <1>2, LenProperties
<1> QED BY <1>1, <1>2, <1>3

\* Every item of the queue q2 is one of q, each from a place of its own.
LEMMA RemoveAtIs ==
  ASSUME NEW q \in Seq(Item), NEW k \in DOMAIN q
  PROVE  /\ RemoveAt(q, k) \in Seq(Item)
         /\ \A j \in DOMAIN RemoveAt(q, k) :
              \/ j < k /\ j \in DOMAIN q /\ RemoveAt(q, k)[j] = q[j]
              \/ j >= k /\ j \in Nat /\ j + 1 \in DOMAIN q /\ RemoveAt(q, k)[j] = q[j + 1]
<1>1. Len(q) \in Nat /\ DOMAIN q = 1..Len(q) /\ k \in 1..Len(q) /\ \A i \in 1..Len(q) : q[i] \in Item
  BY LenProperties, ElementOfSeq
<1> DEFINE a == SubSeq(q, 1, k - 1)
           b == SubSeq(q, k + 1, Len(q))
<1>2. /\ a \in Seq(Item) /\ Len(a) = k - 1 /\ \A i \in 1..k - 1 : a[i] = q[i]
  <2>1. Len(a) = IF 1 <= k - 1 THEN k - 1 - 1 + 1 ELSE 0
    BY <1>1, SubSeqProperties
  <2>2. a \in Seq(Item) /\ \A i \in 1..k - 1 - 1 + 1 : a[i] = q[1 + i - 1]
    BY <1>1, SubSeqProperties
  <2> QED BY <1>1, <2>1, <2>2
<1>3. /\ b \in Seq(Item) /\ Len(b) = Len(q) - k /\ \A i \in 1..Len(q) - k : b[i] = q[k + i]
  <2>1. Len(b) = IF k + 1 <= Len(q) THEN Len(q) - (k + 1) + 1 ELSE 0
    BY <1>1, SubSeqProperties
  <2>2. b \in Seq(Item) /\ \A i \in 1..Len(q) - (k + 1) + 1 : b[i] = q[k + 1 + i - 1]
    BY <1>1, SubSeqProperties
  <2> QED BY <1>1, <2>1, <2>2
<1> HIDE DEF a, b
<1>4. /\ a \o b \in Seq(Item) /\ Len(a \o b) = Len(q) - 1
      /\ \A i \in 1..Len(q) - 1 : (a \o b)[i] = IF i <= k - 1 THEN a[i] ELSE b[i - (k - 1)]
  <2>1. /\ a \o b \in Seq(Item) /\ Len(a \o b) = Len(a) + Len(b)
        /\ \A i \in 1..Len(a) + Len(b) : (a \o b)[i] = IF i <= Len(a) THEN a[i] ELSE b[i - Len(a)]
    BY <1>2, <1>3, ConcatProperties
  <2>2. Len(a) = k - 1 /\ Len(a) + Len(b) = Len(q) - 1
    BY <1>1, <1>2, <1>3
  <2> QED BY <2>1, <2>2
<1>5. DOMAIN (a \o b) = 1..Len(q) - 1
  BY <1>4, LenProperties
<1>6. ASSUME NEW j \in 1..Len(q) - 1
      PROVE  \/ j < k /\ j \in 1..Len(q) /\ (a \o b)[j] = q[j]
             \/ j >= k /\ j \in Nat /\ j + 1 \in 1..Len(q) /\ (a \o b)[j] = q[j + 1]
  <2>1. CASE j < k
    BY <1>1, <1>2, <1>4, <2>1
  <2>2. CASE j >= k
    <3>1. j - (k - 1) \in 1..Len(q) - k /\ k + (j - (k - 1)) = j + 1
      BY <1>1, <2>2
    <3>2. (a \o b)[j] = b[j - (k - 1)]
      <4>1. (a \o b)[j] = IF j <= k - 1 THEN a[j] ELSE b[j - (k - 1)]
        BY <1>4
      <4>2. ~(j <= k - 1)
        BY <1>1, <2>2
      <4> QED BY <4>1, <4>2, Zenon
    <3>3. b[j - (k - 1)] = q[k + (j - (k - 1))]
      BY <1>3, <3>1
    <3>4. j + 1 \in 1..Len(q) /\ j \in Nat
      BY <1>1, <2>2
    <3> QED BY <2>2, <3>1, <3>2, <3>3, <3>4
  <2>3. j < k \/ j >= k
    BY <1>1
  <2> QED BY <2>1, <2>2, <2>3
<1> QED BY <1>1, <1>4, <1>5, <1>6 DEF RemoveAt, a, b

LEMMA PutFirst ==
  ASSUME NEW i \in Item, NEW q \in Seq(Item)
  PROVE  /\ <<i>> \o q \in Seq(Item) /\ (<<i>> \o q)[1] = i
         /\ \A j \in DOMAIN (<<i>> \o q) : j = 1 \/ (j - 1 \in DOMAIN q /\ (<<i>> \o q)[j] = q[j - 1])
         /\ \A j, k \in DOMAIN (<<i>> \o q) : j # k => j - 1 # k - 1
<1>1. Len(q) \in Nat /\ DOMAIN q = 1..Len(q) /\ <<i>> \in Seq(Item) /\ Len(<<i>>) = 1 /\ <<i>>[1] = i
  BY LenProperties
<1>2. /\ <<i>> \o q \in Seq(Item) /\ Len(<<i>> \o q) = 1 + Len(q)
      /\ \A j \in 1..1 + Len(q) : (<<i>> \o q)[j] = IF j <= 1 THEN <<i>>[j] ELSE q[j - 1]
  BY <1>1, ConcatProperties
<1>3. DOMAIN (<<i>> \o q) = 1..1 + Len(q)
  BY <1>2, LenProperties
<1> QED BY <1>1, <1>2, <1>3

LEMMA PutLast ==
  ASSUME NEW i \in Item, NEW q \in Seq(Item)
  PROVE  /\ Append(q, i) \in Seq(Item)
         /\ \A j \in DOMAIN Append(q, i) :
              \/ j \in DOMAIN q /\ Append(q, i)[j] = q[j]
              \/ j = Len(q) + 1 /\ Append(q, i)[j] = i
         /\ Len(q) + 1 \notin DOMAIN q
<1>1. Len(q) \in Nat /\ DOMAIN q = 1..Len(q)
  BY LenProperties
<1>2. /\ Append(q, i) \in Seq(Item) /\ Len(Append(q, i)) = Len(q) + 1
      /\ \A j \in 1..Len(q) : Append(q, i)[j] = q[j]
      /\ Append(q, i)[Len(q) + 1] = i
  BY AppendProperties
<1>3. DOMAIN Append(q, i) = 1..Len(q) + 1
  BY <1>1, <1>2, LenProperties
<1> QED BY <1>1, <1>2, <1>3

-----------------------------------------------------------------------------
(* Steps that bring no item of a viewer and no call of add().              *)

Holds(q, n, p, i) == (\E k \in DOMAIN q : q[k] = i) \/ p = i \/ n.item = i

Moves ==
  /\ InPlace(queue', np', pending', adv', gen', seq')
  /\ \A i \in Item : i.by \in Users /\ Holds(queue', np', pending', i) => Holds(queue, np, pending, i)

NoNewCalls == \A u \in Users : Asking(u)' \subseteq Asking(u)

\* What a part of advance() called with the values q, n and p leaves.
Left(q, n, p, g, s) ==
  /\ InPlace(queue', np', pending', adv', g, s)
  /\ \A i \in Item : Holds(queue', np', pending', i) => Holds(q, n, p, i)

LEMMA LeaveInPlace ==
  ASSUME NEW q, NEW n, NEW p, NEW a, NEW r, NEW o, NEW g, NEW s,
         InPlace(q, n, p, a, g, s), Leave(q, n, p, a, r, o)
  PROVE  Left(q, n, p, g, s)
BY DEF Leave, Left

LEMMA NothingInPlace ==
  ASSUME NEW g, NEW s \in Nat
  PROVE  /\ InPlace(<<>>, NoPlay, NoItem, NoAdv, g, s)
         /\ \A n : Apart(<<>>, n, NoItem, NoAdv)
BY ItemFacts DEF InPlace, PendingIs, Apart, Numbered, Resolving

LEMMA LaunchInPlace ==
  ASSUME NEW g, NEW s \in Nat, NEW q \in Seq(Item), NEW n \in NowPlays, NEW r, NEW o,
         InPlace(q, n, NoItem, NoAdv, g, s), Launch(g, q, n, NoItem, r, o)
  PROVE  Left(q, n, NoItem, g, s)
<1>1. CASE q # <<>>
  <2>1. PICK t, h, a : t = Tail(q) /\ h = Head(q) /\ a = [ph |-> "url", gen |-> g, item |-> Head(q)]
    OBVIOUS
  <2>2. queue' = t /\ np' = n /\ pending' = h /\ adv' = a
    BY <1>1, <2>1 DEF Launch, Leave
  <2>3. /\ t \in Seq(Item) /\ h \in Item /\ 1 \in DOMAIN q /\ h = q[1]
        /\ \A k \in DOMAIN t : k + 1 \in DOMAIN q /\ k + 1 # 1 /\ t[k] = q[k + 1]
        /\ \A j, k \in DOMAIN t : j # k => j + 1 # k + 1
    BY <1>1, <2>1, TailIs
  <2>4. a.ph = "url" /\ a.item = h
    BY <2>1
  <2>5. PendingIs(h, a, g)
    BY <2>4 DEF PendingIs, Resolving
  <2>6. Apart(t, n, h, a)
    <3>1. Apart(q, n, NoItem, NoAdv)
      BY DEF InPlace
    <3>2. \A j, k \in DOMAIN t : j # k => t[j].id # t[k].id
      BY <2>3, <3>1 DEF Apart
    <3>3. \A k \in DOMAIN t : t[k].id # n.item.id /\ t[k].id # h.id
      BY <2>3, <3>1 DEF Apart
    <3>4. h.id # n.item.id
      BY <2>3, <3>1 DEF Apart
    <3> QED BY <2>4, <3>2, <3>3, <3>4 DEF Apart
  <2>7. Numbered(t, n, h, a, s)
    BY <2>3, <2>4 DEF InPlace, Numbered
  <2>8. \A i \in Item : Holds(t, n, h, i) => Holds(q, n, NoItem, i)
    BY <2>3, Zenon DEF Holds
  <2> QED BY <2>2, <2>5, <2>6, <2>7, <2>8 DEF Left, InPlace
<1>2. CASE q = <<>> /\ IdleRefs
  <2>1. PICK a : a = [ph |-> "idle", gen |-> g, item |-> NoItem]
    OBVIOUS
  <2>2. queue' = q /\ np' = n /\ pending' = NoItem /\ adv' = a
    BY <1>2, <2>1 DEF Launch, Leave
  <2>3. InPlace(q, n, NoItem, a, g, s)
    BY <2>1, ItemFacts DEF InPlace, PendingIs, Apart, Numbered, Resolving
  <2> QED BY <2>2, <2>3 DEF Left
<1>3. CASE q = <<>> /\ ~IdleRefs
  <2>1. queue' = <<>> /\ np' = NoPlay /\ pending' = NoItem /\ adv' = NoAdv
    BY <1>3 DEF Launch, Leave
  <2>2. \A i \in Item : ~Holds(<<>>, NoPlay, NoItem, i)
    BY ItemFacts DEF Holds
  <2> QED BY <2>1, <2>2, NothingInPlace DEF Left
<1> QED BY <1>1, <1>2, <1>3

LEMMA EnsureInPlace ==
  ASSUME NEW run, NEW g, NEW s \in Nat, NEW q \in Seq(Item), NEW n \in NowPlays, NEW p, NEW a,
         NEW r, NEW o, InPlace(q, n, p, a, g, s), EnsurePlaying(run, g, q, n, p, a, r, o)
  PROVE  Left(q, n, p, g, s)
<1>1. CASE run /\ n = NoPlay /\ a = NoAdv
  <2>1. p = NoItem
    BY <1>1, ItemFacts DEF InPlace, PendingIs, Resolving
  <2>2. InPlace(q, n, NoItem, NoAdv, g, s) /\ Launch(g, q, n, NoItem, r, o)
    BY <1>1, <2>1 DEF EnsurePlaying
  <2> QED BY <2>1, <2>2, LaunchInPlace
<1>2. CASE ~(run /\ n = NoPlay /\ a = NoAdv)
  BY <1>2, LeaveInPlace DEF EnsurePlaying
<1> QED BY <1>1, <1>2

LEMMA SettleInPlace ==
  ASSUME NEW s \in Nat, NEW q \in Seq(Item), NEW n \in NowPlays, NEW r, NEW o,
         InPlace(q, n, NoItem, NoAdv, gen, s), Settle(q, n, NoItem, r, o)
  PROVE  Left(q, n, NoItem, gen, s)
<1>1. CASE skipReq /\ running
  BY <1>1, LaunchInPlace DEF Settle
<1>2. CASE ~(skipReq /\ running)
  BY <1>2, LeaveInPlace DEF Settle
<1> QED BY <1>1, <1>2

-----------------------------------------------------------------------------
(* The values the actions hand to the parts of advance().                  *)

Placed == InPlace(queue, np, pending, adv, gen, seq)

LEMMA Facts ==
  ASSUME IInv
  PROVE  /\ queue \in Seq(Item) /\ np \in NowPlays /\ pending \in Place /\ adv \in Advances
         /\ gen \in Nat /\ seq \in Nat /\ NoPlay \in NowPlays /\ NoItem \in Place
         /\ calls \in [Clients -> {NoCall} \cup LookUps \cup Controls]
BY Nothings DEF IInv, CoreTyped, RestTyped, CallsTyped

\* An advance() that ends, with or without the song that is on.
LEMMA Dropped ==
  ASSUME IInv, Placed, NEW n \in {np, NoPlay}
  PROVE  /\ InPlace(queue, n, NoItem, NoAdv, gen, seq)
         /\ \A i \in Item : Holds(queue, n, NoItem, i) => Holds(queue, np, pending, i)
<1>1. \A k \in DOMAIN queue : queue[k] \in Item
  BY Facts, ElementOfSeq, LenProperties
<1>2. \A k \in DOMAIN queue : queue[k].id # 0
  BY <1>1, ItemFacts
<1>3. seq \in Nat
  BY Facts
<1>4. n = np \/ (n.item = NoItem /\ NoItem.id = 0)
  BY ItemFacts
<1>5. NoItem.id = 0 /\ NoAdv.item = NoItem /\ ~Resolving(NoAdv)
  BY ItemFacts DEF Resolving
<1>6. PendingIs(NoItem, NoAdv, gen)
  BY <1>5 DEF PendingIs
<1>7. Apart(queue, n, NoItem, NoAdv)
  BY <1>2, <1>4, <1>5 DEF Placed, InPlace, Apart
<1>8. Numbered(queue, n, NoItem, NoAdv, seq)
  BY <1>3, <1>4, <1>5 DEF Placed, InPlace, Numbered
<1>9. \A i \in Item : Holds(queue, n, NoItem, i) => Holds(queue, np, pending, i)
  BY <1>4, ItemFacts DEF Holds
<1> QED BY <1>6, <1>7, <1>8, <1>9 DEF InPlace

LEMMA LeftMoves ==
  ASSUME NEW q, NEW n, NEW p, NEW g, NEW s, Left(q, n, p, g, s), gen' = g, seq' = s,
         \A i \in Item : i.by \in Users /\ Holds(q, n, p, i) => Holds(queue, np, pending, i)
  PROVE  Moves
BY DEF Left, Moves

LEMMA NoSettled ==
  ASSUME IInv, Placed, NEW n \in {np, NoPlay}, NEW r, NEW o, Settle(queue, n, NoItem, r, o),
         gen' = gen, seq' = seq
  PROVE  Moves
<1>1. InPlace(queue, n, NoItem, NoAdv, gen, seq)
      /\ \A i \in Item : Holds(queue, n, NoItem, i) => Holds(queue, np, pending, i)
  BY Dropped
<1>2. n \in NowPlays /\ queue \in Seq(Item) /\ seq \in Nat
  BY Facts
<1>3. Left(queue, n, NoItem, gen, seq)
  BY <1>1, <1>2, SettleInPlace
<1> QED BY <1>1, <1>3, LeftMoves

\* An advance() started where none was under way.
LEMMA LaunchMoves ==
  ASSUME IInv, Placed, ~advancing, NEW o, Launch(gen, queue, np, pending, open, o),
         gen' = gen, seq' = seq
  PROVE  Moves
<1>1. InPlace(queue, np, NoItem, NoAdv, gen, seq)
      /\ \A i \in Item : Holds(queue, np, NoItem, i) => Holds(queue, np, pending, i)
  BY Dropped
<1>2. adv = NoAdv
  BY Between
<1>3. pending = NoItem
  BY <1>2, ItemFacts DEF Placed, InPlace, PendingIs, Resolving
<1>4. np \in NowPlays /\ queue \in Seq(Item) /\ seq \in Nat
  BY Facts
<1>5. Left(queue, np, NoItem, gen, seq)
  BY <1>1, <1>3, <1>4, LaunchInPlace
<1> QED BY <1>1, <1>5, LeftMoves

\* Nothing but flags of the song that is on changes.
LEMMA SameItems ==
  ASSUME Placed, UNCHANGED <<queue, pending, adv, gen, seq>>, np'.item = np.item
  PROVE  Moves
BY DEF Placed, Moves, InPlace, PendingIs, Apart, Numbered, Holds

LEMMA EnsureMoves ==
  ASSUME IInv, Placed, NEW run, NEW o,
         EnsurePlaying(run, gen, queue, np, pending, adv, open, o), gen' = gen, seq' = seq
  PROVE  Moves
<1>1. Left(queue, np, pending, gen, seq)
  BY Facts, EnsureInPlace DEF Placed
<1> QED BY <1>1, LeftMoves

-----------------------------------------------------------------------------
(* The users' operations.                                                  *)

LEMMA SameCalls == ASSUME UNCHANGED calls PROVE NoNewCalls
BY DEF NoNewCalls, Asking

LEMMA BeginOther ==
  ASSUME IInv, NEW c \in Clients, NEW r, r.op # "add", Begin(c, r)
  PROVE  NoNewCalls
<1>1. ASSUME NEW d \in Clients, calls'[d].op = "add"
      PROVE  calls'[d] = calls[d]
  BY <1>1, Facts DEF Begin
<1> QED BY <1>1 DEF NoNewCalls, Asking

LEMMA ReturnOther ==
  ASSUME IInv, NEW c \in Clients, Return(c)
  PROVE  NoNewCalls
<1>1. ASSUME NEW d \in Clients, calls'[d].op = "add"
      PROVE  calls'[d] = calls[d]
  BY <1>1, Facts DEF Return, NoCall
<1> QED BY <1>1 DEF NoNewCalls, Asking

LEMMA StartMoves == ASSUME IInv, Placed, Start PROVE Moves /\ NoNewCalls
BY EnsureMoves, SameCalls DEF Start

\* stop() leaves no pending item, and what still runs is of another generation.
LEMMA Stopped ==
  ASSUME IInv, Placed, NEW q \in {queue, <<>>}
  PROVE  /\ InPlace(q, NoPlay, NoItem, adv, gen + 1, seq)
         /\ \A i \in Item : Holds(q, NoPlay, NoItem, i) => Holds(queue, np, pending, i)
<1>1. InPlace(queue, NoPlay, NoItem, NoAdv, gen, seq)
      /\ \A i \in Item : Holds(queue, NoPlay, NoItem, i) => Holds(queue, np, pending, i)
  BY Dropped
<1>2. PendingIs(NoItem, adv, gen + 1)
  <2>1. adv # NoAdv => adv.gen \in Nat /\ adv.gen <= gen
    BY DEF IInv, CoreTyped, Linked, Advances
  <2>2. adv # NoAdv => adv.gen # gen + 1
    BY <2>1, Facts
  <2> QED BY <2>2, ItemFacts DEF PendingIs, Resolving
<1>3. Apart(queue, NoPlay, NoItem, adv) /\ Numbered(queue, NoPlay, NoItem, adv, seq)
  BY <1>1 DEF Placed, InPlace, Apart, Numbered
<1>4. Apart(<<>>, NoPlay, NoItem, adv) /\ Numbered(<<>>, NoPlay, NoItem, adv, seq)
  BY <1>3 DEF Apart, Numbered
<1>5. \A i \in Item : Holds(<<>>, NoPlay, NoItem, i) => Holds(queue, np, pending, i)
  BY <1>1 DEF Holds
<1> QED BY <1>1, <1>2, <1>3, <1>4, <1>5 DEF InPlace

LEMMA StopMoves == ASSUME IInv, Placed, Stop PROVE Moves /\ NoNewCalls
<1>1. Leave(queue, NoPlay, NoItem, adv, Archive(open), Send(toExec, Msg("stop", 0, Nobody)))
      /\ gen' = gen + 1 /\ seq' = seq /\ calls' = calls
  BY DEF Stop
<1>2. Left(queue, NoPlay, NoItem, gen + 1, seq)
  BY <1>1, Stopped, LeaveInPlace
<1> QED BY <1>1, <1>2, Stopped, LeftMoves, SameCalls

LEMMA RestartMoves == ASSUME IInv, Placed, Restart PROVE Moves /\ NoNewCalls
<1>1. PICK q \in {queue, <<>>} :
        EnsurePlaying(TRUE, gen + 1, q, NoPlay, NoItem, adv, Archive(open),
                      Send(toExec, Msg("stop", 0, Nobody)))
  BY DEF Restart
<1>2. gen' = gen + 1 /\ seq' = seq /\ calls' = calls
  BY DEF Restart
<1>3. q \in Seq(Item) /\ NoPlay \in NowPlays /\ seq \in Nat
  <2>1. queue \in Seq(Item) /\ <<>> \in Seq(Item)
    BY Facts
  <2> QED BY <2>1, Facts
<1>4. InPlace(q, NoPlay, NoItem, adv, gen + 1, seq)
      /\ \A i \in Item : Holds(q, NoPlay, NoItem, i) => Holds(queue, np, pending, i)
  BY Stopped
<1>5. Left(q, NoPlay, NoItem, gen + 1, seq)
  BY <1>1, <1>3, <1>4, EnsureInPlace
<1> QED BY <1>2, <1>4, <1>5, LeftMoves, SameCalls

LEMMA SkipMoves == ASSUME IInv, Placed, Skip PROVE Moves /\ NoNewCalls
<1>1. UNCHANGED <<gen, seq, calls>>
  BY DEF Skip
<1>2. CASE advancing
  BY <1>1, <1>2, SameItems, SameCalls DEF Skip, core
<1>3. CASE ~advancing
  BY <1>1, <1>3, LaunchMoves, SameCalls DEF Skip
<1> QED BY <1>2, <1>3

\* The queue loses items or is put in another order.
LEMMA SetQueueMoves ==
  ASSUME IInv, Placed, NEW q, SetQueue(q),
         \A k \in DOMAIN q : \E j \in DOMAIN queue : q[k] = queue[j],
         \A j, k \in DOMAIN q : j # k => q[j].id # q[k].id
  PROVE  Moves /\ NoNewCalls
<1>1. queue' = q /\ UNCHANGED <<np, pending, adv, gen, seq, calls>>
  BY DEF SetQueue
<1>2. Apart(q, np, pending, adv) /\ Numbered(q, np, pending, adv, seq)
  BY DEF Placed, InPlace, Apart, Numbered
<1>3. \A i \in Item : Holds(q, np, pending, i) => Holds(queue, np, pending, i)
  BY DEF Holds
<1> QED BY <1>1, <1>2, <1>3, SameCalls DEF Placed, Moves, InPlace

LEMMA EditMoves == ASSUME IInv, Placed, RemoveItem \/ ToTop \/ ClearQueue PROVE Moves /\ NoNewCalls
<1>1. queue \in Seq(Item) /\ DOMAIN queue \subseteq Nat /\ \A k \in DOMAIN queue : queue[k] \in Item
  BY Facts, ElementOfSeq, LenProperties
<1>2. \A j, k \in DOMAIN queue : j # k => queue[j].id # queue[k].id
  BY DEF Placed, InPlace, Apart
<1>3. ASSUME NEW k \in DOMAIN queue
      PROVE  /\ RemoveAt(queue, k) \in Seq(Item)
             /\ \A j \in DOMAIN RemoveAt(queue, k) :
                  \E i \in DOMAIN queue : i # k /\ RemoveAt(queue, k)[j] = queue[i]
             /\ \A j, l \in DOMAIN RemoveAt(queue, k) :
                  j # l => RemoveAt(queue, k)[j].id # RemoveAt(queue, k)[l].id
  <2>1. PICK q : q = RemoveAt(queue, k)
    OBVIOUS
  <2>2. q \in Seq(Item) /\ \A j \in DOMAIN q :
              \/ j < k /\ j \in DOMAIN queue /\ q[j] = queue[j]
              \/ j >= k /\ j \in Nat /\ j + 1 \in DOMAIN queue /\ q[j] = queue[j + 1]
    BY <1>1, <2>1, RemoveAtIs
  <2>3. k \in Nat /\ \A j \in DOMAIN q : j \in Nat
    BY <1>1, <2>2
  <2>4. ASSUME NEW j \in DOMAIN q
        PROVE  \E i \in DOMAIN queue : i # k /\ q[j] = queue[i]
    <3>1. \/ j \in DOMAIN queue /\ j # k /\ q[j] = queue[j]
          \/ j + 1 \in DOMAIN queue /\ j + 1 # k /\ q[j] = queue[j + 1]
      BY <2>2, <2>3
    <3> QED BY <3>1
  <2>5. ASSUME NEW j \in DOMAIN q, NEW l \in DOMAIN q, j # l
        PROVE  q[j].id # q[l].id
    <3>1. PICK a \in DOMAIN queue : q[j] = queue[a] /\ ((j < k /\ a = j) \/ (j >= k /\ a = j + 1))
      BY <2>2
    <3>2. PICK b \in DOMAIN queue : q[l] = queue[b] /\ ((l < k /\ b = l) \/ (l >= k /\ b = l + 1))
      BY <2>2
    <3>3. a # b
      BY <2>3, <2>5, <3>1, <3>2
    <3> QED BY <1>2, <3>1, <3>2, <3>3
  <2> QED BY <2>1, <2>2, <2>4, <2>5
<1>4. CASE RemoveItem
  <2>1. PICK k \in DOMAIN queue : SetQueue(RemoveAt(queue, k))
    BY <1>4 DEF RemoveItem
  <2>2. PICK q : q = RemoveAt(queue, k)
    OBVIOUS
  <2>3. /\ \A j \in DOMAIN q : \E i \in DOMAIN queue : q[j] = queue[i]
        /\ \A j, l \in DOMAIN q : j # l => q[j].id # q[l].id
    BY <1>3, <2>2
  <2> QED BY <2>1, <2>2, <2>3, SetQueueMoves
<1>5. CASE ToTop
  <2>1. PICK k \in DOMAIN queue : SetQueue(<<queue[k]>> \o RemoveAt(queue, k))
    BY <1>5 DEF ToTop
  <2>2. PICK q : q = RemoveAt(queue, k)
    OBVIOUS
  <2>3. /\ q \in Seq(Item)
        /\ \A j \in DOMAIN q : \E i \in DOMAIN queue : i # k /\ q[j] = queue[i]
        /\ \A j, l \in DOMAIN q : j # l => q[j].id # q[l].id
    BY <1>3, <2>2
  <2>4. PICK t, h : t = <<h>> \o q /\ h = queue[k]
    OBVIOUS
  <2>5. h \in Item
    BY <1>1, <2>4
  <2>6. /\ t[1] = h
        /\ \A j \in DOMAIN t : j = 1 \/ (j - 1 \in DOMAIN q /\ t[j] = q[j - 1])
        /\ \A j, l \in DOMAIN t : j # l => j - 1 # l - 1
    BY <2>3, <2>4, <2>5, PutFirst
  <2>7. \A j \in DOMAIN t : \E i \in DOMAIN queue : t[j] = queue[i]
    BY <2>3, <2>4, <2>6
  <2>8. \A j \in DOMAIN q : q[j].id # h.id
    BY <1>2, <2>3, <2>4
  <2>9. \A j, l \in DOMAIN t : j # l => t[j].id # t[l].id
    BY <2>3, <2>6, <2>8
  <2> QED BY <2>1, <2>2, <2>4, <2>7, <2>9, SetQueueMoves
<1>6. CASE ClearQueue
  BY <1>6, SetQueueMoves DEF ClearQueue
<1> QED BY <1>4, <1>5, <1>6

-----------------------------------------------------------------------------
(* New items.                                                              *)

\* A new item, first or last, differs from every item there is.
LEMMA Fresh ==
  ASSUME IInv, Placed, NEW i \in Item, i.id = seq + 1, NEW q \in {Append(queue, i), <<i>> \o queue}
  PROVE  /\ q \in Seq(Item) /\ seq + 1 \in Nat
         /\ InPlace(q, np, pending, adv, gen, seq + 1)
         /\ \A j \in Item : Holds(q, np, pending, j) => j = i \/ Holds(queue, np, pending, j)
<1>1. queue \in Seq(Item) /\ seq \in Nat /\ \A k \in DOMAIN queue : queue[k] \in Item
  BY Facts, ElementOfSeq, LenProperties
<1>2. /\ q \in Seq(Item)
      /\ \A k \in DOMAIN q : q[k] = i \/ \E j \in DOMAIN queue : q[k] = queue[j]
      /\ \A j, k \in DOMAIN q : j # k /\ q[j] # i /\ q[k] # i => q[j].id # q[k].id
      /\ \A j, k \in DOMAIN q : j # k => q[j] # i \/ q[k] # i
  <2>1. \A k \in DOMAIN queue : queue[k].id # i.id /\ queue[k] # i
    BY <1>1, ItemFacts DEF Placed, InPlace, Numbered
  <2>2. \A j, k \in DOMAIN queue : j # k => queue[j].id # queue[k].id
    BY DEF Placed, InPlace, Apart
  <2>3. CASE q = Append(queue, i)
    <3>1. /\ q \in Seq(Item)
          /\ \A j \in DOMAIN q : \/ j \in DOMAIN queue /\ q[j] = queue[j]
                                 \/ j = Len(queue) + 1 /\ q[j] = i
      BY <1>1, <2>3, PutLast
    <3> QED BY <2>1, <2>2, <3>1
  <2>4. CASE q = <<i>> \o queue
    <3>1. /\ q \in Seq(Item) /\ q[1] = i
          /\ \A j \in DOMAIN q : j = 1 \/ (j - 1 \in DOMAIN queue /\ q[j] = queue[j - 1])
          /\ \A j, k \in DOMAIN q : j # k => j - 1 # k - 1
      BY <1>1, <2>4, PutFirst
    <3> QED BY <2>1, <2>2, <3>1
  <2> QED BY <2>3, <2>4
<1>3. seq + 1 \in Nat /\ np.item.id \in Nat /\ pending.id \in Nat /\ adv.item.id \in Nat
      /\ \A k \in DOMAIN queue : queue[k].id \in Nat
  BY <1>1, Facts, ItemFacts
<1>4. /\ \A k \in DOMAIN queue : queue[k].id <= seq + 1 /\ queue[k].id # i.id
      /\ np.item.id <= seq + 1 /\ pending.id <= seq + 1 /\ adv.item.id <= seq + 1
      /\ np.item.id # i.id /\ pending.id # i.id /\ adv.item.id # i.id /\ i.id <= seq + 1
  BY <1>1, <1>3 DEF Placed, InPlace, Numbered
<1>5. Apart(q, np, pending, adv)
  <2>1. Apart(queue, np, pending, adv)
    BY DEF Placed, InPlace
  <2>2. \A k \in DOMAIN q : q[k].id # np.item.id /\ q[k].id # pending.id /\ q[k].id # adv.item.id
    BY <1>2, <1>4, <2>1 DEF Apart
  <2>3. \A j, k \in DOMAIN q : j # k => q[j].id # q[k].id
    <3>1. ASSUME NEW j \in DOMAIN q, NEW k \in DOMAIN q, j # k, q[j] = i
          PROVE  q[j].id # q[k].id
      BY <1>2, <1>4, <3>1
    <3> QED BY <1>2, <3>1
  <2> QED BY <2>1, <2>2, <2>3 DEF Apart
<1>6. Numbered(q, np, pending, adv, seq + 1)
  BY <1>2, <1>4 DEF Numbered
<1>7. \A j \in Item : Holds(q, np, pending, j) => j = i \/ Holds(queue, np, pending, j)
  BY <1>2 DEF Holds
<1> QED BY <1>2, <1>3, <1>5, <1>6, <1>7 DEF Placed, InPlace

LEMMA Strangers == \A i : i.by \in {Console, IdleBy} => i.by \notin Users
BY JukeboxAssumption

LEMMA PlayItemNowMoves ==
  ASSUME IInv, Placed, NEW s \in Songs, PlayItemNow(s), gen' = gen
  PROVE  Moves
<1>1. PICK i : i = [id |-> seq + 1, song |-> s, by |-> Console]
  OBVIOUS
<1>2. i \in Item /\ i.id = seq + 1 /\ i.by = Console /\ i.by \notin Users
  BY <1>1, NewItem, Strangers DEF IInv
<1>3. PICK q : q = <<i>> \o queue
  OBVIOUS
<1>4. /\ q \in Seq(Item) /\ seq + 1 \in Nat
      /\ InPlace(q, np, pending, adv, gen, seq + 1)
      /\ \A j \in Item : Holds(q, np, pending, j) => j = i \/ Holds(queue, np, pending, j)
  BY <1>2, <1>3, Fresh
<1>5. \A j \in Item : j.by \in Users /\ Holds(q, np, pending, j) => Holds(queue, np, pending, j)
  BY <1>2, <1>4
<1>6. seq' = seq + 1
  BY DEF PlayItemNow
<1>7. CASE advancing
  <2>1. Leave(q, np, pending, adv, open, toExec)
    BY <1>1, <1>3, <1>7 DEF PlayItemNow
  <2>2. Left(q, np, pending, gen, seq + 1)
    BY <1>4, <2>1, LeaveInPlace
  <2> QED BY <1>5, <1>6, <2>2, LeftMoves
<1>8. CASE ~advancing
  <2>1. Launch(gen, q, np, pending, open, toExec)
    BY <1>1, <1>3, <1>8 DEF PlayItemNow
  <2>2. adv = NoAdv
    BY <1>8, Between
  <2>3. pending = NoItem
    BY <2>2, ItemFacts DEF Placed, InPlace, PendingIs, Resolving
  <2>4. np \in NowPlays
    BY Facts
  <2>5. Left(q, np, NoItem, gen, seq + 1)
    BY <1>4, <2>1, <2>2, <2>3, <2>4, LaunchInPlace
  <2> QED BY <1>5, <1>6, <2>3, <2>5, LeftMoves
<1> QED BY <1>7, <1>8

LEMMA PlayNowMoves ==
  ASSUME IInv, Placed, NEW c \in Clients, NEW s \in Songs, PlayNow(c, s)
  PROVE  Moves /\ NoNewCalls
<1>1. Begin(c, [op |-> "playNow", by |-> Console, song |-> s]) /\ UNCHANGED <<core, gen, seq>>
  BY DEF PlayNow
<1> QED BY <1>1, BeginOther, SameItems DEF core

LEMMA PreviousMoves ==
  ASSUME IInv, Placed, NEW s \in Songs, Previous(s)
  PROVE  Moves /\ NoNewCalls
BY PlayItemNowMoves, SameCalls DEF Previous

LEMMA PlayNowResolvedMoves ==
  ASSUME IInv, Placed, NEW c \in Clients, PlayNowResolved(c)
  PROVE  Moves /\ NoNewCalls
<1>1. Return(c) /\ gen' = gen
  BY DEF PlayNowResolved
<1>2. calls[c].song \in Songs
  BY CallKinds DEF IInv, PlayNowResolved, LookUps
<1>3. CASE PlayItemNow(calls[c].song)
  BY <1>1, <1>2, <1>3, PlayItemNowMoves, ReturnOther
<1>4. CASE UNCHANGED <<core, seq, skipReq>>
  BY <1>1, <1>4, SameItems, ReturnOther DEF core
<1> QED BY <1>3, <1>4 DEF PlayNowResolved

-----------------------------------------------------------------------------
(* Controls and their answers.                                             *)

LEMMA ControlsMove ==
  ASSUME IInv, Placed, NEW c \in Clients, Pause(c) \/ Resume(c) \/ Seek(c)
  PROVE  Moves /\ NoNewCalls
<1>1. PICK op \in {"pause", "resume", "seek"} : \E m : Control(c, op, m)
  BY Zenon DEF Pause, Resume, Seek
<1>2. UNCHANGED <<queue, np, pending, adv, gen, seq>>
      /\ Begin(c, [op |-> op, obj |-> np.obj, paused |-> np.paused])
  BY <1>1 DEF Control
<1> QED BY <1>2, SameItems, BeginOther

LEMMA TestChimeMoves ==
  ASSUME IInv, Placed, NEW c \in Clients, TestChime(c)
  PROVE  Moves /\ NoNewCalls
<1>1. UNCHANGED <<queue, pending, adv, gen, seq>>
  BY DEF TestChime
<1>2. np'.item = np.item
  BY Facts DEF TestChime, NowPlays
<1>3. NoNewCalls
  <2>1. CASE connected
    <3>1. PICK op \in {"bareChime", "chime"} :
            Begin(c, [op |-> op, obj |-> np.obj, paused |-> np.paused])
      BY <2>1 DEF TestChime
    <3> QED BY <3>1, BeginOther
  <2>2. CASE ~connected
    BY <2>2, SameCalls DEF TestChime
  <2> QED BY <2>1, <2>2
<1> QED BY <1>1, <1>2, <1>3, SameItems

LEMMA SetPausedItem ==
  ASSUME IInv, NEW x, NEW b
  PROVE  SetPaused(x, b).item = np.item
BY Facts DEF SetPaused, NowPlays

LEMMA CallAnsweredMoves ==
  ASSUME IInv, Placed, NEW c \in Clients, NEW ok, NEW o, CallAnswered(c, ok, o), UNCHANGED <<gen, seq>>
  PROVE  Moves /\ NoNewCalls
<1>1. UNCHANGED <<queue, pending, adv>> /\ Return(c)
  BY DEF CallAnswered
<1>2. PICK n : n = np'
  OBVIOUS
<1>3. n = SetPaused(calls[c].obj, TRUE) \/ n = SetPaused(calls[c].obj, FALSE) \/ n = np
  BY <1>2 DEF CallAnswered
<1>4. n.item = np.item
  <2>1. ASSUME NEW b, n = SetPaused(calls[c].obj, b) PROVE n.item = np.item
    BY <2>1, SetPausedItem
  <2> QED BY <1>3, <2>1, Zenon
<1> QED BY <1>1, <1>2, <1>4, SameItems, ReturnOther

LEMMA GiveUpMoves ==
  ASSUME IInv, Placed, NEW o, UNCHANGED <<gen, seq>>,
         IF advancing THEN Leave(queue, np, pending, adv, open, o)
                      ELSE Launch(gen, queue, np, pending, open, o)
  PROVE  Moves
<1>1. CASE advancing
  BY <1>1, SameItems DEF Leave
<1>2. CASE ~advancing
  BY <1>2, LaunchMoves
<1> QED BY <1>1, <1>2

LEMMA RestoreAnsweredMoves ==
  ASSUME IInv, Placed, NEW ok, NEW o, RestoreAnswered(ok, o), UNCHANGED <<gen, seq>>
  PROVE  Moves /\ NoNewCalls
<1>1. calls' = calls
  BY DEF RestoreAnswered
<1>2. CASE ok
  <2>1. PICK n : n = SetPaused(rst.obj, rst.paused)
    OBVIOUS
  <2>2. np' = n /\ UNCHANGED <<queue, pending, adv>>
    BY <1>2, <2>1 DEF RestoreAnswered, Leave
  <2>3. n.item = np.item
    BY <2>1, SetPausedItem
  <2> QED BY <1>1, <2>2, <2>3, SameItems, SameCalls
<1>3. CASE ~ok
  BY <1>1, <1>3, GiveUpMoves, SameCalls DEF RestoreAnswered
<1> QED BY <1>2, <1>3

LEMMA RestoreAfterTestMoves ==
  ASSUME IInv, Placed, NEW o, RestoreAfterTest(o), UNCHANGED <<gen, seq>>
  PROVE  Moves
<1>1. CASE restore.obj # np.obj
  BY <1>1, SameItems DEF RestoreAfterTest
<1>2. CASE restore.obj = np.obj /\ connected
  BY <1>2, SameItems DEF RestoreAfterTest, Leave
<1>3. CASE restore.obj = np.obj /\ ~connected
  BY <1>3, GiveUpMoves DEF RestoreAfterTest
<1> QED BY <1>1, <1>2, <1>3

-----------------------------------------------------------------------------
(* The awaits of advance(), the messages and the link.                     *)

LEMMA IdleResolvedMoves == ASSUME IInv, Placed, IdleResolved PROVE Moves /\ NoNewCalls
<1>1. adv.ph = "idle" /\ gen' = gen /\ calls' = calls
  BY DEF IdleResolved
<1>2. NoNewCalls
  BY <1>1, SameCalls
<1>3. ASSUME NEW s \in Songs, NEW i, i = [id |-> seq + 1, song |-> s, by |-> IdleBy],
             seq' = seq + 1,
             Leave(queue, np, i, [adv EXCEPT !.ph = "url", !.item = i], open, toExec)
      PROVE  Moves
  <2>1. i \in Item /\ i.id = seq + 1 /\ i.by \notin Users
    BY <1>3, NewItem, Strangers DEF IInv
  <2>2. PICK a : a = [adv EXCEPT !.ph = "url", !.item = i]
    OBVIOUS
  <2>3. a.ph = "url" /\ a.item = i
    BY <2>2, Facts DEF Advances
  <2>4. queue' = queue /\ np' = np /\ pending' = i /\ adv' = a
    BY <1>3, <2>2 DEF Leave
  <2>6. Apart(queue, np, i, a) /\ Numbered(queue, np, i, a, seq + 1)
    <3>1. seq \in Nat /\ np.item.id \in Nat /\ \A k \in DOMAIN queue : queue[k].id \in Nat
      BY Facts, ItemFacts, ElementOfSeq, LenProperties
    <3>2. /\ \A k \in DOMAIN queue : queue[k].id <= seq + 1 /\ queue[k].id # i.id
          /\ np.item.id <= seq + 1 /\ np.item.id # i.id /\ i.id <= seq + 1
      BY <2>1, <3>1 DEF Placed, InPlace, Numbered
    <3>3. Apart(queue, np, pending, adv)
      BY DEF Placed, InPlace
    <3> QED BY <2>3, <3>2, <3>3 DEF Apart, Numbered
  <2>7. PendingIs(i, a, gen)
    BY <2>3 DEF PendingIs, Resolving
  <2>8. \A j \in Item : j.by \in Users /\ Holds(queue, np, i, j) => Holds(queue, np, pending, j)
    BY <2>1 DEF Holds
  <2> QED BY <1>1, <1>3, <2>4, <2>6, <2>7, <2>8 DEF Moves, InPlace
<1>4. ASSUME seq' = seq,
             Settle(queue, NoPlay, NoItem, open, Send(toExec, Msg("stop", 0, Nobody)))
      PROVE  Moves
  BY <1>1, <1>4, NoSettled
<1> QED BY <1>2, <1>3, <1>4 DEF IdleResolved

LEMMA CatchMoves ==
  ASSUME IInv, Placed, NEW o, Catch(o) \/ Expire, UNCHANGED <<gen, seq>>
  PROVE  Moves
BY NoSettled DEF Catch, Expire

LEMMA UrlResolvedMoves == ASSUME IInv, Placed, UrlResolved PROVE Moves /\ NoNewCalls
<1>1. adv.ph = "url" /\ UNCHANGED <<gen, seq, calls>>
  BY DEF UrlResolved
<1>2. NoNewCalls
  BY <1>1, SameCalls
<1>3. CASE Leave(queue, np, pending, [adv EXCEPT !.ph = "lyric"], open, toExec)
  <2>1. PICK a : a = [adv EXCEPT !.ph = "lyric"]
    OBVIOUS
  <2>2. a.ph = "lyric" /\ a.item = adv.item /\ a.gen = adv.gen
    BY <2>1, Facts DEF Advances
  <2>3. queue' = queue /\ np' = np /\ pending' = pending /\ adv' = a
    BY <1>3, <2>1 DEF Leave
  <2>4. InPlace(queue, np, pending, a, gen, seq)
    BY <1>1, <2>2 DEF Placed, InPlace, PendingIs, Apart, Numbered, Resolving
  <2> QED BY <1>1, <1>2, <2>3, <2>4 DEF Moves
<1>4. CASE Catch(toExec) \/ Expire
  BY <1>1, <1>2, <1>4, CatchMoves
<1> QED BY <1>3, <1>4 DEF UrlResolved

LEMMA LyricResolvedMoves == ASSUME IInv, Placed, LyricResolved PROVE Moves /\ NoNewCalls
<1>1. adv.ph = "lyric" /\ UNCHANGED <<gen, seq, calls>>
  BY DEF LyricResolved
<1>2. NoNewCalls
  BY <1>1, SameCalls
<1>3. CASE /\ adv.gen = gen
           /\ Leave(queue, [obj |-> plays + 1, item |-> adv.item, paused |-> FALSE],
                    NoItem, [adv EXCEPT !.ph = "play"], open,
                    Append(toExec, Msg("play", adv.item.id, "adv")))
  <2>1. PICK a, n : /\ a = [adv EXCEPT !.ph = "play"]
                    /\ n = [obj |-> plays + 1, item |-> adv.item, paused |-> FALSE]
    OBVIOUS
  <2>2. a.ph = "play" /\ a.item = adv.item /\ n.item = adv.item
    BY <2>1, Facts DEF Advances
  <2>3. queue' = queue /\ np' = n /\ pending' = NoItem /\ adv' = a
    BY <1>3, <2>1 DEF Leave
  <2>4. pending = adv.item
    BY <1>1, <1>3 DEF Placed, InPlace, PendingIs, Resolving
  <2>5. seq \in Nat /\ \A k \in DOMAIN queue : queue[k].id # 0
    BY Facts, ItemFacts, ElementOfSeq, LenProperties
  <2>6. PendingIs(NoItem, a, gen)
    BY <2>2 DEF PendingIs, Resolving
  <2>7. Apart(queue, n, NoItem, a) /\ Numbered(queue, n, NoItem, a, seq)
    BY <2>2, <2>5, ItemFacts DEF Placed, InPlace, Apart, Numbered
  <2>8. \A i \in Item : Holds(queue, n, NoItem, i) => Holds(queue, np, pending, i)
    BY <2>2, <2>4, ItemFacts DEF Holds
  <2> QED BY <1>1, <1>2, <2>3, <2>6, <2>7, <2>8 DEF Moves, InPlace
<1>4. CASE Catch(toExec) \/ Expire
  BY <1>1, <1>2, <1>4, CatchMoves
<1> QED BY <1>3, <1>4 DEF LyricResolved

LEMMA PlayAnsweredMoves ==
  ASSUME IInv, Placed, adv.ph = "play", NEW ok, NEW o, PlayAnswered(ok, o), UNCHANGED <<gen, seq>>
  PROVE  Moves
<1>1. pending = NoItem
  BY DEF Placed, InPlace, PendingIs, Resolving
<1>2. ASSUME NEW r, NEW m, Settle(queue, np, pending, r, m) PROVE Moves
  BY <1>1, <1>2, NoSettled
<1>3. CASE Catch(o)
  BY <1>3, CatchMoves
<1> QED BY <1>2, <1>3 DEF PlayAnswered

LEMMA AnsweredMoves ==
  ASSUME IInv, Placed, NEW w, NEW ok, NEW o, Waiting(w), Answered(w, ok, o), UNCHANGED <<gen, seq>>
  PROVE  Moves /\ NoNewCalls
<1>1. CASE w = "adv" /\ PlayAnswered(ok, o) /\ UNCHANGED <<calls, restore, rst>>
  <2>1. adv.ph = "play"
    BY <1>1, JukeboxAssumption DEF Waiting
  <2> QED BY <1>1, <2>1, PlayAnsweredMoves, SameCalls
<1>2. CASE w = "rst" /\ RestoreAnswered(ok, o)
  BY <1>2, RestoreAnsweredMoves
<1>3. CASE w \in Clients /\ CallAnswered(w, ok, o)
  BY <1>3, CallAnsweredMoves
<1> QED BY <1>1, <1>2, <1>3 DEF Answered

LEMMA ReplyArrivesMoves == ASSUME IInv, Placed, ReplyArrives PROVE Moves /\ NoNewCalls
<1>1. UNCHANGED <<gen, seq>>
  BY DEF ReplyArrives
<1>2. CASE Waiting(Head(fromExec).w)
  BY <1>1, <1>2, AnsweredMoves DEF ReplyArrives
<1>3. CASE ~Waiting(Head(fromExec).w)
  BY <1>1, <1>3, SameItems, SameCalls DEF ReplyArrives, core
<1> QED BY <1>2, <1>3

LEMMA TimedOutMoves ==
  ASSUME IInv, Placed, NEW w, TimedOut(w)
  PROVE  Moves /\ NoNewCalls
BY AnsweredMoves DEF TimedOut

LEMMA EndedArrivesMoves == ASSUME IInv, Placed, EndedArrives PROVE Moves /\ NoNewCalls
<1>1. UNCHANGED <<gen, seq, calls>>
  BY DEF EndedArrives
<1>2. NoNewCalls
  BY <1>1, SameCalls
<1>3. CASE RestoreAfterTest(toExec)
  BY <1>1, <1>2, <1>3, RestoreAfterTestMoves
<1>4. CASE UNCHANGED core
  BY <1>1, <1>2, <1>4, SameItems DEF core
<1>5. CASE IF advancing THEN UNCHANGED core ELSE Launch(gen, queue, np, pending, open, toExec)
  <2>1. CASE advancing
    BY <1>1, <1>2, <1>5, <2>1, SameItems DEF core
  <2>2. CASE ~advancing
    BY <1>1, <1>2, <1>5, <2>2, LaunchMoves
  <2> QED BY <2>1, <2>2
<1> QED BY <1>3, <1>4, <1>5 DEF EndedArrives

LEMMA ChimeTimeoutMoves == ASSUME IInv, Placed, ChimeTimeout PROVE Moves /\ NoNewCalls
BY RestoreAfterTestMoves, SameCalls DEF ChimeTimeout

LEMMA RetryTimerMoves == ASSUME IInv, Placed, RetryTimer PROVE Moves /\ NoNewCalls
BY EnsureMoves, SameCalls DEF RetryTimer

\* The song that is on goes back to the head of the queue, where it was not.
LEMMA ReconnectMoves == ASSUME IInv, Placed, Reconnect PROVE Moves /\ NoNewCalls
<1>1. UNCHANGED <<gen, seq, calls>>
  BY DEF Reconnect
<1>2. NoNewCalls
  BY <1>1, SameCalls
<1>3. CASE running /\ ~advancing /\ np # NoPlay
  <2>1. adv = NoAdv /\ np.item \in Item
    BY <1>3, Between DEF Sound
  <2>2. PICK q : q = <<np.item>> \o queue
    OBVIOUS
  <2>3. EnsurePlaying(running, gen, q, NoPlay, NoItem, adv, Archive(open), toExec)
    BY <1>3, <2>2 DEF Reconnect
  <2>4. /\ q \in Seq(Item) /\ q[1] = np.item
        /\ \A j \in DOMAIN q : j = 1 \/ (j - 1 \in DOMAIN queue /\ q[j] = queue[j - 1])
        /\ \A j, k \in DOMAIN q : j # k => j - 1 # k - 1
    BY <2>1, <2>2, Facts, PutFirst
  <2>5. /\ Apart(queue, NoPlay, NoItem, NoAdv) /\ Numbered(queue, NoPlay, NoItem, NoAdv, seq)
        /\ PendingIs(NoItem, NoAdv, gen)
    BY Dropped DEF InPlace
  <2>6. /\ \A k \in DOMAIN queue : queue[k].id # np.item.id
        /\ np.item.id <= seq /\ np.item.id # 0
    BY <2>1, ItemFacts DEF Placed, InPlace, Apart, Numbered
  <2>7. Apart(q, NoPlay, NoItem, NoAdv)
    <3>1. \A j, k \in DOMAIN q : j # k => q[j].id # q[k].id
      BY <2>4, <2>5, <2>6 DEF Apart
    <3>2. \A k \in DOMAIN q : q[k].id # 0
      BY <2>4, <2>5, <2>6, ItemFacts DEF Apart
    <3> QED BY <3>1, <3>2, ItemFacts DEF Apart
  <2>8. Numbered(q, NoPlay, NoItem, NoAdv, seq)
    BY <2>4, <2>5, <2>6 DEF Numbered
  <2>9. InPlace(q, NoPlay, NoItem, adv, gen, seq)
    BY <2>1, <2>5, <2>7, <2>8 DEF InPlace
  <2>10. \A i \in Item : Holds(q, NoPlay, NoItem, i) => Holds(queue, np, pending, i)
    BY <2>4, ItemFacts DEF Holds
  <2>11. Left(q, NoPlay, NoItem, gen, seq)
    BY <2>3, <2>4, <2>9, Facts, EnsureInPlace
  <2> QED BY <1>1, <1>2, <2>10, <2>11, LeftMoves
<1>4. CASE ~(running /\ ~advancing /\ np # NoPlay)
  BY <1>1, <1>2, <1>4, SameItems DEF Reconnect, core
<1> QED BY <1>3, <1>4

LEMMA ExecutorMoves ==
  ASSUME IInv, Placed, ExecStep \/ SourceEnds \/ Disconnect \/ UNCHANGED vars
  PROVE  Moves /\ NoNewCalls
<1>1. UNCHANGED <<queue, np, pending, adv, gen, seq, calls>>
  BY DEF ExecStep, SourceEnds, Disconnect, vars, core
<1> QED BY <1>1, SameItems, SameCalls

-----------------------------------------------------------------------------
(* The quotas.                                                             *)

\* The items of a viewer are those held somewhere.
LEMMA HeldIs ==
  ASSUME NEW q \in Seq(Item), NEW n \in NowPlays, NEW p \in Place, NEW u \in Users
  PROVE  {i \in ToSet(q) \cup {i \in {p, n.item} : i # NoItem /\ i.by # IdleBy} : i.by = u}
           = {i \in Item : i.by = u /\ Holds(q, n, p, i)}
<1>1. \A k \in DOMAIN q : q[k] \in Item
  BY ElementOfSeq, LenProperties
<1>2. u # IdleBy
  BY JukeboxAssumption
<1>3. n.item \in Place
  BY ItemFacts
<1>4. \A i \in {p, n.item} : i # NoItem => i \in Item
  BY <1>3, ItemFacts
<1>5. \A i \in Item : i # NoItem
  BY ItemFacts
<1> QED BY <1>1, <1>2, <1>4, <1>5 DEF Holds, ToSet

LEMMA RequestedIs ==
  ASSUME IInv, NEW u \in Users
  PROVE  Requested(u) = {i \in Item : i.by = u /\ Holds(queue, np, pending, i)}
BY Facts, HeldIs DEF Requested, ActiveItems

LEMMA RequestedNext ==
  ASSUME IInv', NEW u \in Users
  PROVE  Requested(u)' = {i \in Item : i.by = u /\ Holds(queue', np', pending', i)}
<1>1. queue' \in Seq(Item) /\ np' \in NowPlays /\ pending' \in Place
  BY DEF IInv, CoreTyped
<1>2. PICK q, n, p : q = queue' /\ n = np' /\ p = pending'
  OBVIOUS
<1>3. Requested(u)' = {i \in ToSet(q) \cup {i \in {p, n.item} : i # NoItem /\ i.by # IdleBy} : i.by = u}
  BY <1>2 DEF Requested, ActiveItems
<1>4. {i \in ToSet(q) \cup {i \in {p, n.item} : i # NoItem /\ i.by # IdleBy} : i.by = u}
        = {i \in Item : i.by = u /\ Holds(q, n, p, i)}
  BY <1>1, <1>2, HeldIs
<1> QED BY <1>2, <1>3, <1>4

LEMMA RequestedFinite ==
  ASSUME IInv, NEW u
  PROVE  IsFiniteSet(Requested(u)) /\ Cardinality(Requested(u)) \in Nat
<1>1. Len(queue) \in Nat /\ DOMAIN queue = 1..Len(queue)
  BY Facts, LenProperties
<1>2. IsFiniteSet(1..Len(queue))
  BY <1>1, FS_Interval
<1>3. PICK f : f = [k \in DOMAIN queue |-> queue[k]]
  OBVIOUS
<1>4. f \in Surjection(1..Len(queue), ToSet(queue))
  <2>1. f \in [1..Len(queue) -> ToSet(queue)]
    BY <1>1, <1>3 DEF ToSet
  <2>2. \A i \in ToSet(queue) : \E k \in 1..Len(queue) : f[k] = i
    BY <1>1, <1>3 DEF ToSet
  <2> QED BY <2>1, <2>2 DEF Surjection
<1>5. IsFiniteSet(ToSet(queue))
  BY <1>2, <1>4, FS_Surjection
<1>6. IsFiniteSet({pending, np.item})
  <2>1. IsFiniteSet({pending})
    BY FS_Singleton
  <2>2. IsFiniteSet({pending} \cup {np.item})
    BY <2>1, FS_AddElement
  <2>3. {pending} \cup {np.item} = {pending, np.item}
    OBVIOUS
  <2> QED BY <2>2, <2>3
<1>7. IsFiniteSet(ToSet(queue) \cup {pending, np.item})
  BY <1>5, <1>6, FS_Union
<1>8. Requested(u) \subseteq ToSet(queue) \cup {pending, np.item}
  BY DEF Requested, ActiveItems
<1>9. IsFiniteSet(Requested(u))
  BY <1>7, <1>8, FS_Subset
<1> QED BY <1>9, FS_CardinalityType

LEMMA AskingFinite ==
  ASSUME NEW u
  PROVE  /\ IsFiniteSet(Asking(u)) /\ Cardinality(Asking(u)) \in Nat
         /\ Cardinality(Asking(u)) <= Cardinality(Clients)
         /\ Cardinality(Clients) \in Nat
         /\ \A c \in Clients \ Asking(u) : Cardinality(Asking(u)) < Cardinality(Clients)
<1>1. Asking(u) \subseteq Clients
  BY DEF Asking
<1>2. IsFiniteSet(Clients)
  BY JukeboxAssumption
<1>3. IsFiniteSet(Asking(u)) /\ Cardinality(Asking(u)) <= Cardinality(Clients)
  BY <1>1, <1>2, FS_Subset
<1>4. \A c \in Clients \ Asking(u) : Cardinality(Asking(u)) # Cardinality(Clients)
  BY <1>1, <1>2, FS_Subset
<1>5. Cardinality(Asking(u)) \in Nat /\ Cardinality(Clients) \in Nat
  BY <1>2, <1>3, FS_CardinalityType
<1> QED BY <1>3, <1>4, <1>5

\* A set no larger has no more members.
LEMMA Fewer ==
  ASSUME NEW S, NEW T \in SUBSET S, IsFiniteSet(S)
  PROVE  Cardinality(T) <= Cardinality(S) /\ Cardinality(T) \in Nat /\ Cardinality(S) \in Nat
BY FS_Subset, FS_CardinalityType

LEMMA MovesKeep ==
  ASSUME IInv, IInv', ItemsInv, Moves, NoNewCalls
  PROVE  ItemsInv'
<1>1. \A u \in Users : Requested(u)' \subseteq Requested(u)
  <2>1. ASSUME NEW u \in Users PROVE Requested(u)' \subseteq Requested(u)
    <3>1. Requested(u)' = {i \in Item : i.by = u /\ Holds(queue', np', pending', i)}
      BY RequestedNext
    <3> QED BY <3>1, RequestedIs DEF Moves
  <2> QED BY <2>1
<1>2. NoDuplicateSongs'
  BY <1>1 DEF ItemsInv, NoDuplicateSongs, Requested
<1>3. Room'
  <2>1. ASSUME NEW u \in Users
        PROVE  Cardinality(Requested(u)') + Cardinality(Asking(u)')
                 <= MaxPerUser + Cardinality(Clients) - 1
    <3>1. Requested(u)' \subseteq Requested(u) /\ Asking(u)' \subseteq Asking(u)
      BY <1>1 DEF NoNewCalls
    <3>2. IsFiniteSet(Requested(u)) /\ IsFiniteSet(Asking(u)) /\ Cardinality(Clients) \in Nat
      BY RequestedFinite, AskingFinite
    <3>3. Cardinality(Requested(u)') <= Cardinality(Requested(u))
          /\ Cardinality(Requested(u)') \in Nat /\ Cardinality(Requested(u)) \in Nat
      BY <3>1, <3>2, Fewer
    <3>4. Cardinality(Asking(u)') <= Cardinality(Asking(u))
          /\ Cardinality(Asking(u)') \in Nat /\ Cardinality(Asking(u)) \in Nat
      BY <3>1, <3>2, Fewer
    <3>5. Cardinality(Requested(u)) + Cardinality(Asking(u)) <= MaxPerUser + Cardinality(Clients) - 1
      BY DEF ItemsInv, Room
    <3>6. MaxPerUser \in Nat
      BY JukeboxAssumption
    <3> QED BY <3>2, <3>3, <3>4, <3>5, <3>6
  <2> QED BY <2>1 DEF Room
<1> QED BY <1>2, <1>3 DEF ItemsInv, Moves

LEMMA AddItems ==
  ASSUME IInv, IInv', ItemsInv, NEW c \in Clients, NEW u \in Users \cup {Console}, NEW s \in Songs,
         Add(c, u, s)
  PROVE  ItemsInv'
<1>1. UNCHANGED <<queue, np, pending, adv, gen, seq>> /\ QuotaOk(u)
      /\ Begin(c, [op |-> "add", by |-> u, song |-> s])
  BY DEF Add, core
<1>2. InPlace(queue, np, pending, adv, gen, seq)' /\ NoDuplicateSongs'
  <2>1. Placed /\ NoDuplicateSongs
    BY DEF ItemsInv, Placed
  <2> QED BY <1>1, <2>1 DEF Placed, NoDuplicateSongs, ActiveItems, InPlace, PendingIs, Apart, Numbered
<1>3. ASSUME NEW v \in Users
      PROVE  Cardinality(Requested(v)') + Cardinality(Asking(v)')
               <= MaxPerUser + Cardinality(Clients) - 1
  <2>1. Requested(v)' = Requested(v)
    BY <1>1 DEF Requested, ActiveItems
  <2>2. Cardinality(Requested(v)) \in Nat /\ Cardinality(Asking(v)) \in Nat
        /\ Cardinality(Clients) \in Nat /\ MaxPerUser \in Nat
        /\ Cardinality(Requested(v)) + Cardinality(Asking(v)) <= MaxPerUser + Cardinality(Clients) - 1
    BY RequestedFinite, AskingFinite, JukeboxAssumption DEF ItemsInv, Room
  <2>3. CASE v = u
    <3>1. Cardinality(Requested(v)) < MaxPerUser
      BY <1>1, <2>3, JukeboxAssumption DEF QuotaOk
    <3>2. Asking(v)' \subseteq Clients
      BY DEF Asking
    <3>3. Cardinality(Asking(v)') <= Cardinality(Clients) /\ Cardinality(Asking(v)') \in Nat
      BY <3>2, Fewer, JukeboxAssumption
    <3> QED BY <2>1, <2>2, <3>1, <3>3
  <2>4. CASE v # u
    <3>1. ASSUME NEW d \in Clients, calls'[d].op = "add", calls'[d].by = v
          PROVE  calls'[d] = calls[d]
      BY <1>1, <2>4, <3>1, Facts DEF Begin
    <3>2. Asking(v)' \subseteq Asking(v)
      BY <3>1 DEF Asking
    <3>3. Cardinality(Asking(v)') <= Cardinality(Asking(v)) /\ Cardinality(Asking(v)') \in Nat
      BY <3>2, Fewer, AskingFinite
    <3> QED BY <2>1, <2>2, <3>3
  <2> QED BY <2>3, <2>4
<1> QED BY <1>2, <1>3 DEF ItemsInv, Room

\* One item more, and one call fewer that may bring one.
LEMMA AddedItem ==
  ASSUME IInv, IInv', ItemsInv, NEW i \in Item, i.by \in Users, ~IsActive(i.song),
         NEW c \in Asking(i.by), Return(c),
         InPlace(queue', np', pending', adv', gen', seq'),
         \A j \in Item : Holds(queue', np', pending', j) => j = i \/ Holds(queue, np, pending, j)
  PROVE  ItemsInv'
<1>1. NoNewCalls
  BY ReturnOther DEF Asking
<1>2. ASSUME NEW v \in Users
      PROVE  Requested(v)' \subseteq Requested(v) \cup {i} /\ (v # i.by => Requested(v)' \subseteq Requested(v))
  <2>1. Requested(v)' = {j \in Item : j.by = v /\ Holds(queue', np', pending', j)}
    BY RequestedNext
  <2>2. Requested(v) = {j \in Item : j.by = v /\ Holds(queue, np, pending, j)}
    BY RequestedIs
  <2> QED BY <2>1, <2>2
<1>3. NoDuplicateSongs'
  <2>1. ASSUME NEW j \in ActiveItems', NEW k \in ActiveItems', j.by \in Users, k.by \in Users,
               j.song = k.song
        PROVE  j = k
    <3>1. \A l \in {j, k} : l = i \/ l \in ActiveItems
      BY <1>2, <2>1 DEF Requested
    <3>2. \A l \in ActiveItems : l.song # i.song
      BY DEF IsActive
    <3> QED BY <2>1, <3>1, <3>2 DEF ItemsInv, NoDuplicateSongs
  <2> QED BY <2>1 DEF NoDuplicateSongs
<1>4. ASSUME NEW v \in Users
      PROVE  Cardinality(Requested(v)') + Cardinality(Asking(v)')
               <= MaxPerUser + Cardinality(Clients) - 1
  <2>1. /\ IsFiniteSet(Requested(v)) /\ IsFiniteSet(Asking(v))
        /\ Cardinality(Requested(v)) \in Nat /\ Cardinality(Asking(v)) \in Nat
        /\ Cardinality(Clients) \in Nat /\ MaxPerUser \in Nat
        /\ Cardinality(Requested(v)) + Cardinality(Asking(v)) <= MaxPerUser + Cardinality(Clients) - 1
    BY RequestedFinite, AskingFinite, JukeboxAssumption DEF ItemsInv, Room
  <2>2. CASE v = i.by
    <3>1. IsFiniteSet(Requested(v) \cup {i})
          /\ Cardinality(Requested(v) \cup {i}) <= Cardinality(Requested(v)) + 1
          /\ Cardinality(Requested(v) \cup {i}) \in Nat
      <4>1. IsFiniteSet(Requested(v) \cup {i})
        BY <2>1, FS_AddElement
      <4>2. Cardinality(Requested(v) \cup {i}) \in Nat
        BY <4>1, FS_CardinalityType
      <4>3. \/ Cardinality(Requested(v) \cup {i}) = Cardinality(Requested(v)) + 1
            \/ Cardinality(Requested(v) \cup {i}) = Cardinality(Requested(v))
        BY <2>1, FS_AddElement
      <4> QED BY <2>1, <4>1, <4>2, <4>3
    <3>2. Cardinality(Requested(v)') <= Cardinality(Requested(v) \cup {i})
          /\ Cardinality(Requested(v)') \in Nat
      BY <1>2, <3>1, Fewer
    <3>3. c \in Asking(v) /\ Asking(v)' \subseteq Asking(v) \ {c}
      <4>1. calls'[c].op # "add"
        BY Facts DEF Return, NoCall, Asking
      <4> QED BY <1>1, <2>2, <4>1 DEF NoNewCalls, Asking
    <3>4. IsFiniteSet(Asking(v) \ {c}) /\ Cardinality(Asking(v) \ {c}) = Cardinality(Asking(v)) - 1
      BY <2>1, <3>3, FS_RemoveElement
    <3>5. Cardinality(Asking(v)') <= Cardinality(Asking(v)) - 1 /\ Cardinality(Asking(v)') \in Nat
      BY <3>3, <3>4, Fewer
    <3> QED BY <2>1, <3>1, <3>2, <3>5
  <2>3. CASE v # i.by
    <3>1. Requested(v)' \subseteq Requested(v) /\ Asking(v)' \subseteq Asking(v)
      BY <1>1, <1>2, <2>3 DEF NoNewCalls
    <3>2. Cardinality(Requested(v)') <= Cardinality(Requested(v)) /\ Cardinality(Requested(v)') \in Nat
      BY <2>1, <3>1, Fewer
    <3>3. Cardinality(Asking(v)') <= Cardinality(Asking(v)) /\ Cardinality(Asking(v)') \in Nat
      BY <2>1, <3>1, Fewer
    <3> QED BY <2>1, <3>2, <3>3
  <2> QED BY <2>2, <2>3
<1> QED BY <1>3, <1>4 DEF ItemsInv, Room

LEMMA AddResolvedItems ==
  ASSUME IInv, IInv', ItemsInv, NEW c \in Clients, AddResolved(c)
  PROVE  ItemsInv'
<1>1. Return(c) /\ gen' = gen /\ calls[c].op = "add" /\ calls[c] \in LookUps
  BY CallKinds DEF AddResolved, IInv
<1>2. Placed
  BY DEF ItemsInv, Placed
<1>3. CASE UNCHANGED <<core, seq>>
  BY <1>1, <1>2, <1>3, SameItems, ReturnOther, MovesKeep DEF core
<1>4. ASSUME NEW i, i = [id |-> seq + 1, song |-> calls[c].song, by |-> calls[c].by],
             ~IsActive(calls[c].song), seq' = seq + 1,
             EnsurePlaying(running, gen, Append(queue, i), np, pending, adv, open, toExec)
      PROVE  ItemsInv'
  <2>1. i \in Item /\ i.id = seq + 1 /\ i.song = calls[c].song /\ i.by = calls[c].by
        /\ i.by \in Users \cup {Console}
    BY <1>1, <1>4, NewItem DEF IInv, LookUps
  <2>2. PICK q : q = Append(queue, i)
    OBVIOUS
  <2>3. /\ q \in Seq(Item) /\ seq + 1 \in Nat
        /\ InPlace(q, np, pending, adv, gen, seq + 1)
        /\ \A j \in Item : Holds(q, np, pending, j) => j = i \/ Holds(queue, np, pending, j)
    BY <1>2, <2>1, <2>2, Fresh
  <2>4. EnsurePlaying(running, gen, q, np, pending, adv, open, toExec)
    BY <1>4, <2>2
  <2>5. Left(q, np, pending, gen, seq + 1)
    BY <2>3, <2>4, Facts, EnsureInPlace
  <2>6. CASE i.by \in Users
    <3>1. c \in Asking(i.by)
      BY <1>1, <2>1 DEF Asking
    <3>2. InPlace(queue', np', pending', adv', gen', seq')
          /\ \A j \in Item : Holds(queue', np', pending', j) => j = i \/ Holds(queue, np, pending, j)
      BY <1>1, <1>4, <2>3, <2>5 DEF Left
    <3> QED BY <1>1, <1>4, <2>1, <2>6, <3>1, <3>2, AddedItem
  <2>7. CASE i.by \notin Users
    <3>1. \A j \in Item : j.by \in Users /\ Holds(q, np, pending, j) => Holds(queue, np, pending, j)
      BY <2>3, <2>7
    <3>2. Moves
      BY <1>1, <1>4, <2>5, <3>1, LeftMoves
    <3> QED BY <1>1, <3>2, ReturnOther, MovesKeep
  <2> QED BY <2>6, <2>7
<1> QED BY <1>3, <1>4 DEF AddResolved

-----------------------------------------------------------------------------
(* The invariant, and what follows from it.                                *)

LEMMA InitItems == ASSUME Init PROVE ItemsInv
<1>1. queue = <<>> /\ np = NoPlay /\ pending = NoItem /\ adv = NoAdv /\ gen = 0 /\ seq = 0
      /\ calls = [c \in Clients |-> NoCall]
  BY DEF Init
<1>2. InPlace(queue, np, pending, adv, gen, seq)
  BY <1>1, NothingInPlace
<1>3. ActiveItems = {}
  BY <1>1, ItemFacts DEF ActiveItems, ToSet
<1>4. Room
  <2>1. \A u : Requested(u) = {} /\ Asking(u) = {}
    BY <1>1, <1>3 DEF Requested, Asking, NoCall
  <2>2. Cardinality({}) = 0 /\ Cardinality(Clients) \in Nat /\ MaxPerUser \in Nat \ {0}
    BY FS_EmptySet, FS_CardinalityType, JukeboxAssumption
  <2> QED BY <2>1, <2>2 DEF Room
<1> QED BY <1>2, <1>3, <1>4 DEF ItemsInv, NoDuplicateSongs

LEMMA StepItems ==
  ASSUME IInv, IInv', ItemsInv, [Next]_vars
  PROVE  ItemsInv'
<1>1. Placed
  BY DEF ItemsInv, Placed
<1>2. CASE UserStep
  <2>1. CASE Start \/ Stop \/ Restart \/ Skip
    BY <1>1, <2>1, StartMoves, StopMoves, RestartMoves, SkipMoves, MovesKeep
  <2>2. CASE RemoveItem \/ ToTop \/ ClearQueue
    BY <1>1, <2>2, EditMoves, MovesKeep
  <2>3. CASE \E s \in Songs : Previous(s)
    BY <1>1, <2>3, PreviousMoves, MovesKeep
  <2>4. CASE \E c \in Clients, s \in Songs, u \in Users \cup {Console} : Add(c, u, s)
    BY <2>4, AddItems
  <2>5. CASE \E c \in Clients, s \in Songs : PlayNow(c, s)
    BY <1>1, <2>5, PlayNowMoves, MovesKeep
  <2>6. CASE \E c \in Clients : Pause(c) \/ Resume(c) \/ Seek(c)
    BY <1>1, <2>6, ControlsMove, MovesKeep
  <2>7. CASE \E c \in Clients : TestChime(c)
    BY <1>1, <2>7, TestChimeMoves, MovesKeep
  <2> QED BY <1>2, <2>1, <2>2, <2>3, <2>4, <2>5, <2>6, <2>7 DEF UserStep
<1>3. CASE MachineStep
  <2>1. CASE IdleResolved \/ UrlResolved \/ LyricResolved \/ RetryTimer
    BY <1>1, <2>1, IdleResolvedMoves, UrlResolvedMoves, LyricResolvedMoves, RetryTimerMoves, MovesKeep
  <2>2. CASE \E c \in Clients : AddResolved(c)
    BY <2>2, AddResolvedItems
  <2>3. CASE \E c \in Clients : PlayNowResolved(c)
    BY <1>1, <2>3, PlayNowResolvedMoves, MovesKeep
  <2>4. CASE ReplyArrives \/ EndedArrives \/ ChimeTimeout
    BY <1>1, <2>4, ReplyArrivesMoves, EndedArrivesMoves, ChimeTimeoutMoves, MovesKeep
  <2>5. CASE \E w \in Clients \cup {"adv", "rst"} : TimedOut(w)
    BY <1>1, <2>5, TimedOutMoves, MovesKeep
  <2> QED BY <1>3, <2>1, <2>2, <2>3, <2>4, <2>5 DEF MachineStep
<1>4. CASE Reconnect
  BY <1>1, <1>4, ReconnectMoves, MovesKeep
<1>5. CASE ExecStep \/ SourceEnds \/ Disconnect \/ UNCHANGED vars
  BY <1>1, <1>5, ExecutorMoves, MovesKeep
<1> QED BY <1>2, <1>3, <1>4, <1>5 DEF Next, ExecutorStep

\* Every item of music/jukebox.ts is in one place and the viewers stay within
\* their quotas up to the calls in flight, whoever calls and whatever fails.
THEOREM ItemsInvariance == Spec => []ItemsInv
<1>1. Init => ItemsInv
  BY InitItems
<1>2. IInv /\ IInv' /\ ItemsInv /\ [Next]_vars => ItemsInv'
  BY StepItems
<1> QED BY <1>1, <1>2, Invariance, PTL DEF Spec

\* An item is never in two of the queue, pendingPlay and nowPlaying at once,
\* whatever advance(), stop(), onPlayerReconnected() and the edits of the
\* queue do between the awaits of each other.
THEOREM ItemsInOnePlace == Spec => []ItemInOnePlace
<1>1. ASSUME ItemsInv PROVE ItemInOnePlace
  <2>1. Apart(queue, np, pending, adv)
    BY <1>1 DEF ItemsInv, InPlace
  <2>2. \A k \in DOMAIN queue, i \in Taken : queue[k].id # i.id
    BY <2>1 DEF Apart, Taken
  <2>3. pending # NoItem => pending # np.item
    BY <2>1 DEF Apart
  <2> QED BY <2>1, <2>2, <2>3 DEF Apart, ItemInOnePlace
<1> QED BY <1>1, ItemsInvariance, PTL

\* The types, the play history and the places of the items are right together,
\* whatever the page edits, pauses, seeks or tests while songs come and go.
THEOREM ControlsCorrect == Spec => []ControlsSafe
BY TypeCorrect, HistoryCorrect, ItemsInOnePlace, PTL DEF ControlsSafe

\* However many look-ups of add() overlap, a viewer passes maxPerUser by no
\* more than the calls in flight beside the first, and no song is held twice.
THEOREM QuotaCorrect == Spec => []QuotaHolds
<1>1. ASSUME IInv, ItemsInv PROVE QuotaHolds
  <2>1. ASSUME NEW u \in Users
        PROVE  Cardinality(Requested(u)) <= MaxPerUser + Cardinality(Clients) - 1
    <3>1. /\ Cardinality(Requested(u)) \in Nat /\ Cardinality(Asking(u)) \in Nat
          /\ Cardinality(Clients) \in Nat /\ MaxPerUser \in Nat
          /\ Cardinality(Requested(u)) + Cardinality(Asking(u)) <= MaxPerUser + Cardinality(Clients) - 1
      BY <1>1, RequestedFinite, AskingFinite, JukeboxAssumption DEF ItemsInv, Room
    <3> QED BY <3>1
  <2> QED BY <1>1, <2>1 DEF QuotaHolds, QuotaOvershoot, ItemsInv
<1> QED BY <1>1, Invariance, ItemsInvariance, PTL

-----------------------------------------------------------------------------
(* A skip that waits is served.                                            *)

Served ==
  skipReq /\ ~skipReq' /\ running /\ gen' = gen
    => np' = NoPlay \/ (adv' # NoAdv /\ adv'.item # adv.item)

LEMMA SettleServes ==
  ASSUME IInv, Placed, NEW n \in {np, NoPlay}, NEW r, NEW o, Settle(queue, n, NoItem, r, o),
         n = NoPlay \/ adv.item \in Item
  PROVE  Served
<1> SUFFICES ASSUME skipReq, running
             PROVE  np' = NoPlay \/ (adv' # NoAdv /\ adv'.item # adv.item)
  BY DEF Served
<1>1. Launch(gen, queue, n, NoItem, r, o)
  BY DEF Settle
<1>2. CASE queue # <<>>
  <2>1. PICK h : h = Head(queue)
    OBVIOUS
  <2>2. PICK a : a = [ph |-> "url", gen |-> gen, item |-> h]
    OBVIOUS
  <2>3. adv' = a
    BY <1>1, <1>2, <2>1, <2>2 DEF Launch, Leave
  <2>4. h.id # adv.item.id
    BY <1>2, <2>1, Facts, TailIs DEF Placed, InPlace, Apart
  <2>5. a # NoAdv /\ a.item = h
    BY <2>2 DEF NoAdv
  <2> QED BY <2>3, <2>4, <2>5
<1>3. CASE queue = <<>> /\ IdleRefs
  <2>1. np' = n /\ adv' = [ph |-> "idle", gen |-> gen, item |-> NoItem]
    BY <1>1, <1>3 DEF Launch, Leave
  <2>2. adv' # NoAdv /\ adv'.item = NoItem
    BY <2>1 DEF NoAdv
  <2>3. CASE adv.item \in Item
    BY <2>2, <2>3, ItemFacts
  <2> QED BY <2>1, <2>3
<1>4. CASE queue = <<>> /\ ~IdleRefs
  BY <1>1, <1>4 DEF Launch, Leave
<1> QED BY <1>2, <1>3, <1>4

LEMMA CatchServes == ASSUME IInv, Placed, NEW o, Catch(o) PROVE Served
BY SettleServes DEF Catch

LEMMA ExpireServes == ASSUME IInv, Placed, adv # NoAdv, adv.gen # gen, Expire PROVE Served
<1>1. np = NoPlay
  BY DEF IInv, Linked
<1> QED BY <1>1, SettleServes DEF Expire

LEMMA AnsweredServes ==
  ASSUME IInv, Placed, NEW w, NEW ok, NEW o, Waiting(w), Answered(w, ok, o)
  PROVE  Served
<1>1. CASE w = "adv" /\ PlayAnswered(ok, o)
  <2>1. adv.ph = "play" /\ adv # NoAdv
    BY <1>1, JukeboxAssumption DEF Waiting, NoAdv
  <2>2. pending = NoItem /\ adv.item \in Item
    BY <2>1 DEF Placed, InPlace, PendingIs, Resolving, IInv, Linked
  <2>3. ASSUME NEW r, NEW m, Settle(queue, np, pending, r, m) PROVE Served
    BY <2>2, <2>3, SettleServes
  <2>4. CASE Catch(o)
    BY <2>4, CatchServes
  <2> QED BY <1>1, <2>3, <2>4 DEF PlayAnswered
<1>2. CASE RestoreAnswered(ok, o)
  BY <1>2 DEF RestoreAnswered, Served
<1>3. CASE CallAnswered(w, ok, o)
  BY <1>3 DEF CallAnswered, Served
<1> QED BY <1>1, <1>2, <1>3 DEF Answered

LEMMA StepServes == ASSUME IInv, Placed, Next PROVE Served
<1>1. CASE UserStep
  <2>1. CASE Start \/ RemoveItem \/ ToTop \/ ClearQueue
    BY <2>1 DEF Start, RemoveItem, ToTop, ClearQueue, SetQueue, Served
  <2>2. CASE Stop \/ Restart
    <3>1. gen' = gen + 1 /\ gen \in Nat
      BY <2>2, Facts DEF Stop, Restart
    <3> QED BY <3>1 DEF Served
  <2>3. CASE Skip \/ \E s \in Songs : Previous(s)
    BY <2>3 DEF Skip, Previous, PlayItemNow, Served
  <2>4. CASE \E c \in Clients, s \in Songs, u \in Users \cup {Console} : Add(c, u, s)
    BY <2>4 DEF Add, Served
  <2>5. CASE \E c \in Clients, s \in Songs : PlayNow(c, s)
    BY <2>5 DEF PlayNow, Served
  <2>6. CASE \E c \in Clients : Pause(c) \/ Resume(c) \/ Seek(c) \/ TestChime(c)
    BY <2>6 DEF Pause, Resume, Seek, Control, TestChime, Served
  <2> QED BY <1>1, <2>1, <2>2, <2>3, <2>4, <2>5, <2>6 DEF UserStep
<1>2. CASE IdleResolved
  <2>1. ASSUME NEW m, Settle(queue, NoPlay, NoItem, open, m) PROVE Served
    BY <2>1, SettleServes
  <2>2. CASE UNCHANGED skipReq
    BY <2>2 DEF Served
  <2> QED BY <1>2, <2>1, <2>2 DEF IdleResolved
<1>3. CASE UrlResolved \/ LyricResolved
  <2>1. adv # NoAdv
    BY <1>3 DEF UrlResolved, LyricResolved, NoAdv
  <2>2. CASE UNCHANGED skipReq
    BY <2>2 DEF Served
  <2>3. CASE Catch(toExec)
    BY <2>3, CatchServes
  <2>4. CASE adv.gen # gen /\ Expire
    BY <2>1, <2>4, ExpireServes
  <2> QED BY <1>3, <2>2, <2>3, <2>4 DEF UrlResolved, LyricResolved
<1>4. CASE RetryTimer \/ \E c \in Clients : AddResolved(c)
  BY <1>4 DEF RetryTimer, AddResolved, Served
<1>5. CASE \E c \in Clients : PlayNowResolved(c)
  BY <1>5 DEF PlayNowResolved, PlayItemNow, Served
<1>6. CASE ReplyArrives
  <2>1. CASE Waiting(Head(fromExec).w)
    BY <1>6, <2>1, AnsweredServes DEF ReplyArrives
  <2>2. CASE ~Waiting(Head(fromExec).w)
    BY <1>6, <2>2 DEF ReplyArrives, Served
  <2> QED BY <2>1, <2>2
<1>7. CASE EndedArrives \/ ChimeTimeout
  BY <1>7 DEF EndedArrives, ChimeTimeout, Served
<1>8. CASE \E w \in Clients \cup {"adv", "rst"} : TimedOut(w)
  BY <1>8, AnsweredServes DEF TimedOut
<1>9. CASE ExecutorStep \/ Disconnect
  BY <1>9 DEF ExecutorStep, ExecStep, SourceEnds, Reconnect, Disconnect, Served
<1> QED BY <1>1, <1>2, <1>3, <1>4, <1>5, <1>6, <1>7, <1>8, <1>9 DEF Next, MachineStep

\* The `finally' of advance() does what a skip asked for that came while the
\* advance was under way: unless the machine was stopped, the item that
\* advance was bringing up gives way to another one or to silence.
THEOREM SkipServed == Spec => SkipIsServed
<1>1. ItemsInv => Placed
  BY DEF ItemsInv, Placed
<1>2. IInv /\ Placed /\ [Next]_vars
        => [skipReq /\ ~skipReq' /\ running /\ gen' = gen
              => np' = NoPlay \/ (adv' # NoAdv /\ adv'.item # adv.item)]_vars
  BY StepServes DEF Served
<1> QED BY <1>1, <1>2, Invariance, ItemsInvariance, PTL DEF Spec, SkipIsServed
-----------------------------------------------------------------------------
(* Every step is one of the abstract song player, or leaves it alone.      *)

Played == Player!Next \/ UNCHANGED <<seq, queue, pending, np.item, Noted(open)>>

LEMMA NothingIs == Player!None = NoItem
BY DEF Player!None, NoItem

LEMMA NotedIs ==
  /\ Noted(<<>>) = 0
  /\ \A x \in Nat : Noted(<<x>>) = x
BY DEF Noted, Last

\* Between two advances nothing comes up; while one runs, or nothing plays,
\* the history has no entry of this process open.
LEMMA PlayerFacts ==
  ASSUME IInv, Placed
  PROVE  /\ adv = NoAdv => pending = NoItem
         /\ adv # NoAdv => open = <<>>
         /\ np = NoPlay => Noted(open) = 0
         /\ Archive(open) = <<>>
         /\ advancing <=> adv # NoAdv
         /\ np # NoPlay => np.item \in Item
<1>1. adv = NoAdv => pending = NoItem
  BY ItemFacts DEF Placed, InPlace, PendingIs, Resolving
<1>2. adv # NoAdv => open = <<>>
  BY DEF IInv, Linked
<1>3. np = NoPlay => open \in {<<>>, <<0>>}
  BY <1>2 DEF IInv, Linked
<1>4. np = NoPlay => Noted(open) = 0
  BY <1>3, NotedIs
<1>5. np # NoPlay => np.item \in Item
  BY Between DEF Sound
<1> QED BY <1>1, <1>2, <1>4, <1>5, Between

LEMMA LaunchProceeds ==
  ASSUME NEW g, NEW q, NEW n, NEW r, NEW o, Archive(r) = <<>>, Launch(g, q, n, NoItem, r, o)
  PROVE  /\ Player!Proceeds(q) /\ Noted(open)' = 0
         /\ np' = n \/ np' = NoPlay
<1>1. Player!Proceeds(q) /\ open' = <<>> /\ (np' = n \/ np' = NoPlay)
  BY NothingIs DEF Launch, Leave, Player!Proceeds
<1> QED BY <1>1, NotedIs

LEMMA Silenced ==
  ASSUME np' = NoPlay, Noted(open)' = 0, seq' = seq, NEW q \in {queue, <<>>},
         \/ Player!Proceeds(q)
         \/ queue' = q /\ pending' = NoItem
  PROVE  Played
<1>1. (np.item)' = NoItem
  BY ItemFacts
<1>2. Player!Proceeds(q)
  BY NothingIs DEF Player!Proceeds
<1>3. Player!Stop
  BY <1>1, <1>2, NothingIs DEF Player!Stop
<1> QED BY <1>3 DEF Played, Player!Next

LEMMA LaunchPlayed ==
  ASSUME seq' = seq, NEW g, NEW r, NEW o, Archive(r) = <<>>, NEW n \in {np, NoPlay},
         n = NoPlay \/ pending = NoItem,
         Launch(g, queue, n, NoItem, r, o)
  PROVE  Played
<1>1. Player!Proceeds(queue) /\ Noted(open)' = 0 /\ (np' = n \/ np' = NoPlay)
  BY LaunchProceeds
<1>2. CASE np' = NoPlay
  BY <1>1, <1>2, Silenced
<1>3. CASE np' = np /\ pending = NoItem
  <2>1. (np.item)' = np.item
    BY <1>3
  <2>2. Player!Advance
    BY <1>1, <1>3, <2>1, NothingIs DEF Player!Advance
  <2> QED BY <2>2 DEF Played, Player!Next
<1> QED BY <1>1, <1>2, <1>3

LEMMA EnsurePlayed ==
  ASSUME IInv, Placed, seq' = seq, NEW run, NEW g, NEW o,
         EnsurePlaying(run, g, queue, np, pending, adv, open, o)
  PROVE  Played
<1>1. CASE run /\ np = NoPlay /\ adv = NoAdv
  <2>1. Launch(g, queue, np, pending, open, o)
    BY <1>1 DEF EnsurePlaying
  <2> QED BY <1>1, <2>1, PlayerFacts, LaunchPlayed
<1>2. CASE ~(run /\ np = NoPlay /\ adv = NoAdv)
  <2>1. queue' = queue /\ np' = np /\ pending' = pending /\ open' = open
    BY <1>2 DEF EnsurePlaying, Leave
  <2> QED BY <2>1 DEF Played
<1> QED BY <1>1, <1>2

\* The `finally' of an advance() that ends in silence.
LEMMA SettlePlayed ==
  ASSUME seq' = seq, NEW r, NEW o, r = <<>>, Settle(queue, NoPlay, NoItem, r, o)
  PROVE  Played
<1>1. Archive(r) = <<>> /\ Noted(r) = 0
  BY NotedIs DEF Archive
<1>2. CASE skipReq /\ running
  <2>1. Launch(gen, queue, NoPlay, NoItem, r, o)
    BY <1>2 DEF Settle
  <2> QED BY <1>1, <2>1, LaunchPlayed
<1>3. CASE ~(skipReq /\ running)
  <2>1. Leave(queue, NoPlay, NoItem, NoAdv, r, o)
    BY <1>3 DEF Settle
  <2>2. np' = NoPlay /\ Noted(open)' = 0 /\ queue' = queue /\ pending' = NoItem
    BY <1>1, <2>1 DEF Leave
  <2> QED BY <2>2, Silenced
<1> QED BY <1>2, <1>3

LEMMA CatchPlayed ==
  ASSUME IInv, Placed, seq' = seq, adv # NoAdv, NEW o, Catch(o)
  PROVE  Played
BY PlayerFacts, SettlePlayed DEF Catch

LEMMA ExpirePlayed ==
  ASSUME IInv, Placed, seq' = seq, adv # NoAdv, adv.gen # gen, Expire
  PROVE  Played
<1>1. np = NoPlay
  BY DEF IInv, Linked
<1> QED BY <1>1, PlayerFacts, SettlePlayed DEF Expire

\* A skip of a callback that finds no advance() under way.
LEMMA NextPlayed ==
  ASSUME IInv, Placed, seq' = seq, ~advancing, NEW o,
         Launch(gen, queue, np, pending, open, o)
  PROVE  Played
BY PlayerFacts, LaunchPlayed

LEMMA NothingPlayed ==
  ASSUME UNCHANGED <<seq, queue, pending, open>>, np'.item = np.item
  PROVE  Played
<1>1. Noted(open)' = Noted(open) /\ (np.item)' = np.item
  BY DEF Noted
<1> QED BY <1>1 DEF Played

LEMMA StopPlayed == ASSUME IInv, Placed, Stop PROVE Played
<1>1. np' = NoPlay /\ queue' = queue /\ pending' = NoItem /\ open' = <<>> /\ seq' = seq
  BY PlayerFacts DEF Stop, Leave
<1>2. Noted(open)' = 0
  BY <1>1, NotedIs
<1> QED BY <1>1, <1>2, Silenced

LEMMA RestartPlayed == ASSUME IInv, Placed, Restart PROVE Played
<1>0. PICK o : o = Send(toExec, Msg("stop", 0, Nobody))
  OBVIOUS
<1>1. PICK q \in {queue, <<>>} :
        EnsurePlaying(TRUE, gen + 1, q, NoPlay, NoItem, adv, Archive(open), o)
  BY <1>0 DEF Restart
<1>2. seq' = seq /\ Archive(open) = <<>> /\ Archive(<<>>) = <<>>
  BY PlayerFacts DEF Restart, Archive
<1>3. CASE adv = NoAdv
  <2>1. Launch(gen + 1, q, NoPlay, NoItem, <<>>, o)
    BY <1>1, <1>2, <1>3 DEF EnsurePlaying
  <2>2. Player!Proceeds(q) /\ Noted(open)' = 0 /\ np' = NoPlay
    BY <1>2, <2>1, LaunchProceeds
  <2> QED BY <1>2, <2>2, Silenced
<1>4. CASE adv # NoAdv
  <2>1. np' = NoPlay /\ queue' = q /\ pending' = NoItem /\ open' = <<>>
    BY <1>1, <1>2, <1>4 DEF EnsurePlaying, Leave
  <2>2. Noted(open)' = 0
    BY <2>1, NotedIs
  <2> QED BY <1>2, <2>1, <2>2, Silenced
<1> QED BY <1>3, <1>4

LEMMA SkipPlayed == ASSUME IInv, Placed, Skip PROVE Played
<1>1. CASE advancing
  BY <1>1, NothingPlayed DEF Skip, core
<1>2. CASE ~advancing
  BY <1>2, NextPlayed DEF Skip
<1> QED BY <1>1, <1>2

LEMMA EditPlayed == ASSUME RemoveItem \/ ToTop \/ ClearQueue PROVE Played
<1>1. UNCHANGED <<seq, pending, np, open>>
  BY DEF RemoveItem, ToTop, ClearQueue, SetQueue
<1>2. (np.item)' = np.item /\ Noted(open)' = Noted(open)
  BY <1>1 DEF Noted
<1>3. \/ queue' = <<>>
      \/ \E k \in DOMAIN queue : queue' \in {Player!RemoveAt(queue, k),
                                             <<queue[k]>> \o Player!RemoveAt(queue, k)}
  BY DEF RemoveItem, ToTop, ClearQueue, SetQueue, Player!RemoveAt, RemoveAt
<1>4. Player!Edit
  BY <1>1, <1>2, <1>3 DEF Player!Edit
<1> QED BY <1>4 DEF Played, Player!Next

\* An entry that is put into the queue q2, at the one end or the other.
LEMMA OrderPlayed ==
  ASSUME seq' = seq + 1, NEW s \in Songs, NEW u \in Users \cup {Console},
         NEW i, i = [id |-> seq + 1, song |-> s, by |-> u],
         NEW q, q \in {Append(queue, i), <<i>> \o queue},
         (np.item)' = np.item,
         \/ queue' = q /\ UNCHANGED <<pending, open>>
         \/ pending = NoItem /\ pending' = Head(q) /\ queue' = Tail(q) /\ Noted(open)' = 0
  PROVE  Played
<1>1. i = Player!Entry(seq + 1, s, u)
  BY DEF Player!Entry
<1>2. UNCHANGED open => Noted(open)' = Noted(open)
  BY DEF Noted
<1>3. Player!Order
  BY <1>1, <1>2, NothingIs DEF Player!Order
<1> QED BY <1>3 DEF Played, Player!Next

LEMMA FrontIs ==
  ASSUME NEW i \in Item, queue \in Seq(Item)
  PROVE  <<i>> \o queue # <<>> /\ Append(queue, i) # <<>>
<1>1. Len(queue) \in Nat /\ <<i>> \in Seq(Item) /\ Len(<<i>>) = 1
  BY LenProperties
<1>2. Len(<<i>> \o queue) = Len(<<i>>) + Len(queue) /\ Len(Append(queue, i)) = Len(queue) + 1
  BY <1>1, ConcatProperties, AppendProperties
<1>3. Len(<<i>> \o queue) # 0 /\ Len(Append(queue, i)) # 0
  BY <1>1, <1>2
<1>4. Len(<<>>) = 0
  OBVIOUS
<1> QED BY <1>3, <1>4, Zenon

LEMMA PlayItemNowPlayed ==
  ASSUME IInv, Placed, NEW s \in Songs, PlayItemNow(s)
  PROVE  Played
<1>1. PICK i : i = [id |-> seq + 1, song |-> s, by |-> Console]
  OBVIOUS
<1>2. PICK q : q = <<i>> \o queue
  OBVIOUS
<1>3. /\ seq' = seq + 1
      /\ \/ advancing /\ Leave(q, np, pending, adv, open, toExec)
         \/ ~advancing /\ Launch(gen, q, np, pending, open, toExec)
  BY <1>1, <1>2 DEF PlayItemNow
<1>4. CASE advancing
  <2>1. queue' = q /\ np' = np /\ UNCHANGED <<pending, open>>
    BY <1>3, <1>4 DEF Leave
  <2> QED BY <1>1, <1>2, <1>3, <2>1, OrderPlayed
<1>5. CASE ~advancing
  <2>1. pending = NoItem /\ Archive(open) = <<>>
    BY <1>5, PlayerFacts
  <2>2. q # <<>>
    <3>1. i \in Item /\ queue \in Seq(Item)
      BY <1>1, Facts DEF Item
    <3> QED BY <1>2, <3>1, FrontIs
  <2>3. queue' = Tail(q) /\ pending' = Head(q) /\ np' = np /\ open' = <<>>
    BY <1>3, <1>5, <2>1, <2>2 DEF Launch, Leave
  <2>4. Noted(open)' = 0
    BY <2>3, NotedIs
  <2> QED BY <1>1, <1>2, <1>3, <2>1, <2>3, <2>4, OrderPlayed
<1> QED BY <1>4, <1>5

LEMMA AddResolvedPlayed ==
  ASSUME IInv, Placed, NEW c \in Clients, AddResolved(c)
  PROVE  Played
<1>1. CASE UNCHANGED <<core, seq>>
  BY <1>1, NothingPlayed DEF core
<1>2. CASE ~UNCHANGED <<core, seq>>
  <2>1. calls[c].song \in Songs /\ calls[c].by \in Users \cup {Console}
    BY CallKinds DEF AddResolved, IInv, LookUps
  <2>2. PICK i : i = [id |-> seq + 1, song |-> calls[c].song, by |-> calls[c].by]
    OBVIOUS
  <2>3. PICK q : q = Append(queue, i)
    OBVIOUS
  <2>4. seq' = seq + 1 /\ EnsurePlaying(running, gen, q, np, pending, adv, open, toExec)
    BY <1>2, <2>2, <2>3 DEF AddResolved
  <2>5. CASE running /\ np = NoPlay /\ adv = NoAdv
    <3>1. Launch(gen, q, np, pending, open, toExec)
      BY <2>4, <2>5 DEF EnsurePlaying
    <3>2. pending = NoItem /\ Archive(open) = <<>>
      BY <2>5, PlayerFacts
    <3>3. q # <<>>
      <4>1. i \in Item /\ queue \in Seq(Item)
        BY <2>1, <2>2, Facts DEF Item
      <4> QED BY <2>3, <4>1, FrontIs
    <3>4. queue' = Tail(q) /\ pending' = Head(q) /\ np' = np /\ open' = <<>>
      BY <3>1, <3>2, <3>3 DEF Launch, Leave
    <3>5. Noted(open)' = 0
      BY <3>4, NotedIs
    <3> QED BY <2>1, <2>2, <2>3, <2>4, <3>2, <3>4, <3>5, OrderPlayed
  <2>6. CASE ~(running /\ np = NoPlay /\ adv = NoAdv)
    <3>1. queue' = q /\ np' = np /\ UNCHANGED <<pending, open>>
      BY <2>4, <2>6 DEF EnsurePlaying, Leave
    <3> QED BY <2>1, <2>2, <2>3, <2>4, <3>1, OrderPlayed
  <2> QED BY <2>5, <2>6
<1> QED BY <1>1, <1>2

LEMMA PlayNowResolvedPlayed ==
  ASSUME IInv, Placed, NEW c \in Clients, PlayNowResolved(c)
  PROVE  Played
<1>1. CASE UNCHANGED <<core, seq>>
  BY <1>1, NothingPlayed DEF core
<1>2. CASE PlayItemNow(calls[c].song)
  <2>1. calls[c].song \in Songs
    BY CallKinds DEF PlayNowResolved, IInv, LookUps
  <2> QED BY <1>2, <2>1, PlayItemNowPlayed
<1> QED BY <1>1, <1>2 DEF PlayNowResolved

LEMMA IdleResolvedPlayed == ASSUME IInv, Placed, IdleResolved PROVE Played
<1>0. adv.ph = "idle"
  BY DEF IdleResolved
<1>1. adv # NoAdv /\ pending = NoItem /\ open = <<>>
  BY <1>0, ItemFacts, PlayerFacts DEF Placed, InPlace, PendingIs, Resolving
<1>2. ASSUME NEW s \in Songs, NEW i, i = [id |-> seq + 1, song |-> s, by |-> IdleBy],
             seq' = seq + 1,
             Leave(queue, np, i, [adv EXCEPT !.ph = "url", !.item = i], open, toExec)
      PROVE  Played
  <2>1. i = Player!Entry(seq + 1, s, IdleBy)
    BY <1>2 DEF Player!Entry
  <2>2. queue' = queue /\ np' = np /\ pending' = i /\ open' = open
    BY <1>2 DEF Leave
  <2>3. (np.item)' = np.item /\ Noted(open)' = Noted(open)
    BY <2>2 DEF Noted
  <2>4. Player!Fill
    BY <1>1, <1>2, <2>1, <2>2, <2>3, NothingIs DEF Player!Fill
  <2> QED BY <2>4 DEF Played, Player!Next
<1>3. ASSUME seq' = seq,
             Settle(queue, NoPlay, NoItem, open, Send(toExec, Msg("stop", 0, Nobody)))
      PROVE  Played
  BY <1>1, <1>3, SettlePlayed
<1> QED BY <1>2, <1>3 DEF IdleResolved

LEMMA UrlResolvedPlayed == ASSUME IInv, Placed, UrlResolved PROVE Played
<1>1. adv # NoAdv /\ seq' = seq
  BY ItemFacts DEF UrlResolved
<1>2. CASE Leave(queue, np, pending, [adv EXCEPT !.ph = "lyric"], open, toExec)
  BY <1>1, <1>2, NothingPlayed DEF Leave
<1>3. CASE adv.gen # gen /\ Expire
  BY <1>1, <1>3, ExpirePlayed
<1>4. CASE Catch(toExec)
  BY <1>1, <1>4, CatchPlayed
<1> QED BY <1>2, <1>3, <1>4 DEF UrlResolved

LEMMA LyricResolvedPlayed == ASSUME IInv, Placed, LyricResolved PROVE Played
<1>1. adv # NoAdv /\ seq' = seq /\ adv.ph = "lyric"
  BY ItemFacts DEF LyricResolved
<1>2. ASSUME adv.gen = gen, NEW n, NEW a, NEW o, n.item = adv.item,
             Leave(queue, n, NoItem, a, open, o)
      PROVE  Played
  <2>1. pending = adv.item /\ pending # NoItem
    BY <1>1, <1>2, ItemFacts DEF Placed, InPlace, PendingIs, Resolving, IInv, Linked
  <2>2. open = <<>> /\ Noted(open) = 0
    BY <1>1, PlayerFacts, NotedIs
  <2>3. queue' = queue /\ (np.item)' = adv.item /\ pending' = NoItem /\ Noted(open)' = Noted(open)
    BY <1>2 DEF Leave, Noted
  <2>4. Player!PutOn
    BY <1>1, <2>1, <2>2, <2>3, NothingIs DEF Player!PutOn
  <2> QED BY <2>4 DEF Played, Player!Next
<1>3. CASE adv.gen # gen /\ Expire
  BY <1>1, <1>3, ExpirePlayed
<1>4. CASE Catch(toExec)
  BY <1>1, <1>4, CatchPlayed
<1>5. CASE adv.gen = gen /\ connected
  <2>1. PICK n : n = [obj |-> plays + 1, item |-> adv.item, paused |-> FALSE]
    OBVIOUS
  <2>2. PICK a, o : Leave(queue, n, NoItem, a, open, o)
    BY <1>5, <2>1 DEF LyricResolved
  <2>3. n.item = adv.item
    BY <2>1
  <2> QED BY <1>2, <1>5, <2>2, <2>3
<1> QED BY <1>3, <1>4, <1>5 DEF LyricResolved

LEMMA PlayAnsweredPlayed ==
  ASSUME IInv, Placed, seq' = seq, adv.ph = "play", NEW ok, NEW o, PlayAnswered(ok, o)
  PROVE  Played
<1>1. adv # NoAdv /\ open = <<>> /\ pending = NoItem
  BY ItemFacts, PlayerFacts DEF Placed, InPlace, PendingIs, Resolving
<1>2. CASE adv.gen # gen
  <2>1. np = NoPlay
    BY <1>1, <1>2 DEF IInv, Linked
  <2>2. PICK m : Settle(queue, np, pending, open, m)
    BY <1>2 DEF PlayAnswered
  <2> QED BY <1>1, <2>1, <2>2, SettlePlayed
<1>3. CASE adv.gen = gen /\ Catch(o)
  BY <1>1, <1>3, CatchPlayed
<1>4. CASE adv.gen = gen /\ Settle(queue, np, pending, Append(open, adv.item.id), o)
  <2>1. np.item = adv.item /\ np.item \in Item /\ np.item # NoItem
    BY <1>4, ItemFacts DEF IInv, Linked
  <2>2. PICK x \in Nat : x = adv.item.id
    BY <2>1, ItemFacts
  <2>3. Append(open, adv.item.id) = <<x>>
    BY <1>1, <2>2
  <2>4. CASE skipReq /\ running
    <3>1. Launch(gen, queue, np, NoItem, <<x>>, o)
      BY <1>1, <1>4, <2>3, <2>4 DEF Settle
    <3>2. Archive(<<x>>) = <<>>
      <4>1. <<x>> \in Seq(Nat) /\ Len(<<x>>) <= 1
        OBVIOUS
      <4> QED BY <4>1, ArchiveShort
    <3> QED BY <1>1, <3>1, <3>2, LaunchPlayed
  <2>5. CASE ~(skipReq /\ running)
    <3>1. queue' = queue /\ np' = np /\ pending' = pending /\ open' = <<x>>
      BY <1>4, <2>3, <2>5 DEF Settle, Leave
    <3>2. (np.item)' = np.item /\ Noted(open)' = np.item.id /\ Noted(open) = 0
      BY <1>1, <2>1, <2>2, <3>1, NotedIs
    <3>3. Player!Note
      BY <2>1, <3>1, <3>2, NothingIs DEF Player!Note
    <3> QED BY <3>3 DEF Played, Player!Next
  <2> QED BY <2>4, <2>5
<1> QED BY <1>2, <1>3, <1>4 DEF PlayAnswered

LEMMA AnsweredPlayed ==
  ASSUME IInv, Placed, seq' = seq, NEW w, NEW ok, NEW o, Waiting(w), Answered(w, ok, o)
  PROVE  Played
<1>1. CASE w = "adv" /\ PlayAnswered(ok, o)
  <2>1. adv.ph = "play"
    BY <1>1, JukeboxAssumption DEF Waiting
  <2> QED BY <1>1, <2>1, PlayAnsweredPlayed
<1>2. CASE RestoreAnswered(ok, o)
  <2>1. CASE ok
    <3>1. queue' = queue /\ pending' = pending /\ open' = open
      BY <1>2, <2>1 DEF RestoreAnswered, Leave
    <3>2. np' = SetPaused(rst.obj, rst.paused)
      BY <1>2, <2>1 DEF RestoreAnswered, Leave
    <3>3. np'.item = np.item
      BY <3>2, SetPausedItem
    <3> QED BY <3>1, <3>3, NothingPlayed
  <2>2. CASE ~ok /\ advancing
    BY <1>2, <2>2, NothingPlayed DEF RestoreAnswered, Leave
  <2>3. CASE ~ok /\ ~advancing
    BY <1>2, <2>3, NextPlayed DEF RestoreAnswered
  <2> QED BY <2>1, <2>2, <2>3
<1>3. CASE CallAnswered(w, ok, o)
  <2>1. UNCHANGED <<queue, pending, open>>
    BY <1>3 DEF CallAnswered
  <2>2. np'.item = np.item
    BY <1>3, SetPausedItem DEF CallAnswered
  <2> QED BY <2>1, <2>2, NothingPlayed
<1> QED BY <1>1, <1>2, <1>3 DEF Answered

LEMMA RestorePlayed ==
  ASSUME IInv, Placed, seq' = seq, NEW o, RestoreAfterTest(o)
  PROVE  Played
<1>1. CASE UNCHANGED <<queue, np, pending, open>>
  BY <1>1, NothingPlayed
<1>2. CASE ~UNCHANGED <<queue, np, pending, open>>
  <2>1. ~advancing /\ Launch(gen, queue, np, pending, open, o)
    BY <1>2 DEF RestoreAfterTest, Leave
  <2> QED BY <2>1, NextPlayed
<1> QED BY <1>1, <1>2

LEMMA EndedArrivesPlayed == ASSUME IInv, Placed, EndedArrives PROVE Played
<1>1. seq' = seq
  BY DEF EndedArrives
<1>2. CASE RestoreAfterTest(toExec)
  BY <1>1, <1>2, RestorePlayed
<1>3. CASE UNCHANGED core
  BY <1>1, <1>3, NothingPlayed DEF core
<1>4. CASE ~advancing /\ Launch(gen, queue, np, pending, open, toExec)
  BY <1>1, <1>4, NextPlayed
<1> QED BY <1>2, <1>3, <1>4 DEF EndedArrives

\* The song that was on comes up again; what waits keeps its place.
LEMMA ReconnectPlayed == ASSUME IInv, Placed, Reconnect PROVE Played
<1>1. seq' = seq
  BY DEF Reconnect
<1>2. CASE running /\ ~advancing /\ np # NoPlay
  <2>1. adv = NoAdv /\ pending = NoItem /\ Archive(open) = <<>> /\ np.item \in Item
    BY <1>2, PlayerFacts
  <2>2. PICK i \in Item : i = np.item
    BY <2>1
  <2>3. PICK q : q = <<i>> \o queue
    OBVIOUS
  <2>4. Launch(gen, q, NoPlay, NoItem, <<>>, toExec)
    BY <1>2, <2>1, <2>2, <2>3 DEF Reconnect, EnsurePlaying
  <2>5. queue \in Seq(Item)
    BY Facts
  <2>6. q # <<>>
    BY <2>3, <2>5, FrontIs
  <2>7. Head(q) = i /\ Tail(q) = queue
    BY <2>3, <2>5
  <2>8. queue' = queue /\ np' = NoPlay /\ pending' = np.item /\ open' = <<>>
    BY <2>2, <2>4, <2>6, <2>7 DEF Launch, Leave, Archive
  <2>9. (np.item)' = NoItem /\ Noted(open)' = 0 /\ np.item # NoItem
    BY <2>1, <2>8, NotedIs, ItemFacts
  <2>10. Player!Again
    BY <1>1, <2>1, <2>8, <2>9, NothingIs DEF Player!Again
  <2> QED BY <2>10 DEF Played, Player!Next
<1>3. CASE ~(running /\ ~advancing /\ np # NoPlay)
  BY <1>1, <1>3, NothingPlayed DEF Reconnect, core
<1> QED BY <1>2, <1>3

LEMMA StepPlayed == ASSUME IInv, Placed, [Next]_vars PROVE Played
<1>1. CASE UserStep
  <2>1. CASE Start
    BY <2>1, EnsurePlayed DEF Start
  <2>2. CASE Stop \/ Restart \/ Skip
    BY <2>2, StopPlayed, RestartPlayed, SkipPlayed
  <2>3. CASE RemoveItem \/ ToTop \/ ClearQueue
    BY <2>3, EditPlayed
  <2>4. CASE \E s \in Songs : Previous(s)
    BY <2>4, PlayItemNowPlayed DEF Previous
  <2>5. CASE \E c \in Clients, s \in Songs, u \in Users \cup {Console} : Add(c, u, s)
    BY <2>5, NothingPlayed DEF Add, core
  <2>6. CASE \E c \in Clients, s \in Songs : PlayNow(c, s)
    BY <2>6, NothingPlayed DEF PlayNow, core
  <2>7. CASE \E c \in Clients : Pause(c) \/ Resume(c) \/ Seek(c)
    BY <2>7, NothingPlayed DEF Pause, Resume, Seek, Control
  <2>8. ASSUME NEW c \in Clients, TestChime(c) PROVE Played
    <3>1. np'.item = np.item /\ UNCHANGED <<seq, queue, pending, open>>
      BY <2>8 DEF TestChime
    <3> QED BY <3>1, NothingPlayed
  <2> QED BY <1>1, <2>1, <2>2, <2>3, <2>4, <2>5, <2>6, <2>7, <2>8 DEF UserStep
<1>2. CASE MachineStep
  <2>1. CASE IdleResolved \/ UrlResolved \/ LyricResolved
    BY <2>1, IdleResolvedPlayed, UrlResolvedPlayed, LyricResolvedPlayed
  <2>2. CASE RetryTimer
    BY <2>2, EnsurePlayed DEF RetryTimer
  <2>3. CASE \E c \in Clients : AddResolved(c) \/ PlayNowResolved(c)
    BY <2>3, AddResolvedPlayed, PlayNowResolvedPlayed
  <2>4. CASE ReplyArrives
    <3>1. CASE Waiting(Head(fromExec).w)
      BY <2>4, <3>1, AnsweredPlayed DEF ReplyArrives
    <3>2. CASE ~Waiting(Head(fromExec).w)
      BY <2>4, <3>2, NothingPlayed DEF ReplyArrives, core
    <3> QED BY <3>1, <3>2
  <2>5. CASE EndedArrives
    BY <2>5, EndedArrivesPlayed
  <2>6. CASE ChimeTimeout
    BY <2>6, RestorePlayed DEF ChimeTimeout
  <2>7. CASE \E w \in Clients \cup {"adv", "rst"} : TimedOut(w)
    BY <2>7, AnsweredPlayed DEF TimedOut
  <2> QED BY <1>2, <2>1, <2>2, <2>3, <2>4, <2>5, <2>6, <2>7 DEF MachineStep
<1>3. CASE Reconnect
  BY <1>3, ReconnectPlayed
<1>4. CASE ExecStep \/ SourceEnds \/ Disconnect
  BY <1>4, NothingPlayed DEF ExecStep, SourceEnds, Disconnect, core
<1>5. CASE UNCHANGED vars
  BY <1>5, NothingPlayed DEF vars
<1> QED BY <1>1, <1>2, <1>3, <1>4, <1>5 DEF Next, ExecutorStep

LEMMA InitPlayed == ASSUME Init PROVE Player!Init
<1>1. open \in {<<>>, <<0>>}
  BY DEF Init
<1>2. Noted(open) = 0
  BY <1>1, NotedIs
<1> QED BY <1>2, NothingIs, ItemFacts DEF Init, Player!Init

\* Whatever the providers, the timers and the executor do, every step of the
\* machine is one of the abstract song player or leaves it alone: entries
\* come up in the order of the queue, what goes on is what came up, and the
\* history has the entry open that is on, or none.
THEOREM JukeboxImplementsSongPlayer == Spec => ImplementsSongPlayer
<1>1. ItemsInv => Placed
  BY DEF ItemsInv, Placed
<1>2. Init => Player!Init
  BY InitPlayed
<1>3. IInv /\ Placed /\ [Next]_vars
        => [Player!Next]_<<seq, queue, pending, np.item, Noted(open)>>
  BY StepPlayed DEF Played
<1> QED BY <1>1, <1>2, <1>3, Invariance, ItemsInvariance, PTL DEF Spec, ImplementsSongPlayer, Player!Spec
=============================================================================
