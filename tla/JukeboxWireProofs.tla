------------------------- MODULE JukeboxWireProofs -------------------------
(***************************************************************************)
(* Theorems about Jukebox and the executor for every value of the          *)
(* constants: the end of a chime moves nothing, and, under the conditions  *)
(* named below, the song the machine calls now playing is on in the        *)
(* executor once every message has been handled, and paused for both or    *)
(* for neither.                                                            *)
(***************************************************************************)
EXTENDS JukeboxProofs

-----------------------------------------------------------------------------
(* The end of a chime.                                                     *)

\* While the executor is away nothing arrives from it, and nobody waits for
\* an answer to what it may still have to do.
Unawaited(o) == \A k \in DOMAIN o : o[k].w = Nobody
Offline == ~connected => fromExec = <<>> /\ Unawaited(toExec)

LEMMA LaunchMute ==
  ASSUME ~connected, NEW g, NEW q, NEW n, NEW p, NEW r, NEW o, Launch(g, q, n, p, r, o)
  PROVE  toExec' = o
BY DEF Launch, Leave, Send

LEMMA EnsureMute ==
  ASSUME ~connected, NEW run, NEW g, NEW q, NEW n, NEW p, NEW a, NEW r, NEW o,
         EnsurePlaying(run, g, q, n, p, a, r, o)
  PROVE  toExec' = o
BY LaunchMute DEF EnsurePlaying, Leave

LEMMA SettleMute ==
  ASSUME ~connected, NEW q, NEW n, NEW p, NEW r, NEW o, Settle(q, n, p, r, o)
  PROVE  toExec' = o
BY LaunchMute DEF Settle, Leave

LEMMA AnsweredMute ==
  ASSUME ~connected, NEW w, NEW ok, NEW o, Answered(w, ok, o)
  PROVE  toExec' = o
<1>1. \A m : Send(o, m) = o
  BY DEF Send
<1>2. CASE PlayAnswered(ok, o)
  BY <1>1, <1>2, SettleMute DEF PlayAnswered, Catch
<1>3. CASE RestoreAnswered(ok, o)
  BY <1>1, <1>3, LaunchMute DEF RestoreAnswered, Leave
<1>4. CASE CallAnswered(w, ok, o)
  BY <1>1, <1>4 DEF CallAnswered
<1> QED BY <1>2, <1>3, <1>4 DEF Answered

LEMMA OperationsMute ==
  ASSUME ~connected, UserStep
  PROVE  toExec' = toExec /\ UNCHANGED <<connected, fromExec>>
<1>1. \A m : Send(toExec, m) = toExec
  BY DEF Send
<1>2. CASE Start \/ Stop \/ Restart \/ Skip
  BY <1>1, <1>2, EnsureMute, LaunchMute DEF Start, Stop, Restart, Skip, Leave, core
<1>3. CASE RemoveItem \/ ToTop \/ ClearQueue
  BY <1>3 DEF RemoveItem, ToTop, ClearQueue, SetQueue
<1>4. CASE \E s \in Songs : Previous(s)
  BY <1>4, LaunchMute DEF Previous, PlayItemNow, Leave
<1>5. CASE \E c \in Clients, s \in Songs, u \in Users \cup {Console} : Add(c, u, s)
  BY <1>5 DEF Add, core
<1>6. CASE \E c \in Clients, s \in Songs : PlayNow(c, s)
  BY <1>6 DEF PlayNow, core
<1>7. CASE \E c \in Clients : Pause(c) \/ Resume(c) \/ Seek(c) \/ TestChime(c)
  BY <1>7 DEF Pause, Resume, Seek, Control, TestChime
<1> QED BY <1>2, <1>3, <1>4, <1>5, <1>6, <1>7 DEF UserStep

LEMMA MachineMute ==
  ASSUME ~connected, Offline, MachineStep
  PROVE  /\ UNCHANGED <<connected, fromExec>>
         /\ toExec' = toExec \/ \E w : toExec' = Forget(toExec, w)
<1>1. \A m : Send(toExec, m) = toExec
  BY DEF Send
<1>2. CASE IdleResolved
  <2>1. toExec' = toExec
    BY <1>1, <1>2, SettleMute DEF IdleResolved, Leave
  <2> QED BY <1>2, <2>1 DEF IdleResolved
<1>3. CASE UrlResolved \/ LyricResolved
  <2>1. toExec' = toExec
    BY <1>3, SettleMute DEF UrlResolved, LyricResolved, Catch, Expire, Leave
  <2> QED BY <1>3, <2>1 DEF UrlResolved, LyricResolved
<1>4. CASE RetryTimer
  BY <1>4, EnsureMute DEF RetryTimer
<1>5. CASE \E c \in Clients : AddResolved(c)
  BY <1>5, EnsureMute DEF AddResolved, core
<1>6. CASE \E c \in Clients : PlayNowResolved(c)
  BY <1>6, LaunchMute DEF PlayNowResolved, PlayItemNow, Leave, core
<1>7. CASE ReplyArrives \/ EndedArrives
  BY <1>7 DEF ReplyArrives, EndedArrives, Offline
<1>8. CASE ChimeTimeout
  BY <1>8, LaunchMute DEF ChimeTimeout, RestoreAfterTest, Leave
<1>9. CASE \E w \in Clients \cup {"adv", "rst"} : TimedOut(w)
  BY <1>9, AnsweredMute DEF TimedOut
<1> QED BY <1>2, <1>3, <1>4, <1>5, <1>6, <1>7, <1>8, <1>9 DEF MachineStep

LEMMA RestUnawaited ==
  ASSUME NEW o \in Seq(Requests), Unawaited(o)
  PROVE  /\ o # <<>> => Unawaited(Tail(o)) /\ Head(o).w = Nobody
         /\ \A w : Unawaited(Forget(o, w))
<1>1. ASSUME o # <<>> PROVE Unawaited(Tail(o)) /\ Head(o).w = Nobody
  <2>1. Len(o) \in Nat \ {0} /\ DOMAIN o = 1..Len(o)
    BY <1>1, EmptySeq, LenProperties
  <2>2. Len(Tail(o)) = Len(o) - 1 /\ \A i \in 1..Len(Tail(o)) : Tail(o)[i] = o[i + 1]
    BY <1>1, HeadTailProperties
  <2>3. DOMAIN Tail(o) = 1..Len(Tail(o)) /\ Head(o) = o[1]
    BY <1>1, HeadTailProperties, LenProperties
  <2> QED BY <2>1, <2>2, <2>3 DEF Unawaited
<1>2. ASSUME NEW w, NEW k \in DOMAIN o
      PROVE  Forget(o, w)[k].w = Nobody
  <2>1. o[k] \in Requests /\ o[k].w = Nobody
    BY ElementOfSeq, LenProperties DEF Unawaited
  <2>2. Forget(o, w)[k] = IF o[k].w = w THEN [o[k] EXCEPT !.w = Nobody] ELSE o[k]
    BY DEF Forget
  <2> QED BY <2>1, <2>2 DEF Requests
<1>3. \A w : DOMAIN Forget(o, w) = DOMAIN o
  BY DEF Forget
<1> QED BY <1>1, <1>2, <1>3 DEF Unawaited

LEMMA ExecutorMute ==
  ASSUME IInv, ~connected, Offline, ExecStep \/ SourceEnds
  PROVE  fromExec' = <<>> /\ Unawaited(toExec')
<1>1. fromExec = <<>> /\ Unawaited(toExec) /\ toExec \in Seq(Requests)
  BY DEF Offline, IInv, CoreTyped
<1>2. CASE ExecStep
  <2>1. PICK m : m = Head(toExec)
    OBVIOUS
  <2>2. Unawaited(toExec') /\ m.w = Nobody
    BY <1>1, <1>2, <2>1, RestUnawaited DEF ExecStep
  <2>3. \A ok : fromExec \o Reply(m.w, ok) = <<>>
    <3>1. \A ok : Reply(m.w, ok) = <<>>
      BY <2>2 DEF Reply
    <3>2. <<>> \o <<>> = <<>>
      OBVIOUS
    <3> QED BY <1>1, <3>1, <3>2
  <2>4. fromExec' = <<>>
    <3>1. CASE ExecPlay(m)
      BY <1>1, <2>3, <3>1 DEF ExecPlay
    <3>2. CASE ExecControl(m)
      BY <2>3, <3>2 DEF ExecControl
    <3>3. CASE UNCHANGED fromExec
      BY <1>1, <3>3
    <3> QED BY <1>2, <2>1, <3>1, <3>2, <3>3 DEF ExecStep
  <2> QED BY <2>2, <2>4
<1>3. CASE SourceEnds
  BY <1>1, <1>3 DEF SourceEnds, core
<1> QED BY <1>2, <1>3

LEMMA OfflineKept == ASSUME IInv, Offline, [Next]_vars PROVE Offline'
<1> SUFFICES ASSUME ~connected' PROVE fromExec' = <<>> /\ Unawaited(toExec')
  BY DEF Offline, Unawaited
<1>1. toExec \in Seq(Requests)
  BY DEF IInv, CoreTyped
<1>2. CASE Disconnect
  <2>1. CASE toExec' = <<>>
    BY <1>2, <2>1 DEF Disconnect, Unawaited
  <2>2. ASSUME NEW k \in 0..Len(toExec),
               toExec' = [j \in 1..k |-> [toExec[j] EXCEPT !.w = Nobody]]
        PROVE  fromExec' = <<>> /\ Unawaited(toExec')
    <3>1. \A j \in 1..k : toExec[j] \in Requests
      BY <1>1, ElementOfSeq
    <3>2. \A j \in 1..k : toExec'[j].w = Nobody
      BY <2>2, <3>1 DEF Requests
    <3>3. DOMAIN toExec' = 1..k
      BY <2>2
    <3> QED BY <1>2, <3>2, <3>3 DEF Disconnect, Unawaited
  <2> QED BY <1>2, <2>1, <2>2 DEF Disconnect
<1>3. CASE connected /\ ~Disconnect
  <2>1. connected' = connected
    <3>1. CASE UserStep
      BY <3>1 DEF UserStep, Start, Stop, Restart, Skip, RemoveItem, ToTop, ClearQueue, SetQueue,
                  Previous, Add, PlayNow, Pause, Resume, Seek, Control, TestChime
    <3>2. CASE MachineStep
      BY <3>2 DEF MachineStep, IdleResolved, UrlResolved, LyricResolved, RetryTimer, AddResolved,
                  PlayNowResolved, ReplyArrives, EndedArrives, ChimeTimeout, TimedOut
    <3>3. CASE ExecutorStep \/ UNCHANGED vars
      BY <1>3, <3>3 DEF ExecutorStep, ExecStep, SourceEnds, Reconnect, vars
    <3> QED BY <1>3, <3>1, <3>2, <3>3 DEF Next
  <2> QED BY <1>3, <2>1
<1>4. CASE ~connected /\ ~Disconnect
  <2>1. fromExec = <<>> /\ Unawaited(toExec)
    BY <1>4 DEF Offline
  <2>2. CASE UserStep
    <3>1. toExec' = toExec /\ fromExec' = fromExec
      BY <1>4, <2>2, OperationsMute
    <3> QED BY <2>1, <3>1
  <2>3. CASE MachineStep
    <3>1. fromExec' = fromExec /\ (toExec' = toExec \/ \E w : toExec' = Forget(toExec, w))
      BY <1>4, <2>3, MachineMute
    <3>2. ASSUME NEW w, toExec' = Forget(toExec, w) PROVE Unawaited(toExec')
      BY <1>1, <2>1, <3>2, RestUnawaited
    <3>3. CASE toExec' = toExec
      BY <2>1, <3>1, <3>3
    <3> QED BY <2>1, <3>1, <3>2, <3>3
  <2>4. CASE ExecStep \/ SourceEnds
    BY <1>4, <2>4, ExecutorMute
  <2>5. CASE Reconnect
    BY <2>5 DEF Reconnect
  <2>6. CASE UNCHANGED vars
    BY <2>1, <2>6 DEF vars
  <2> QED BY <1>4, <2>2, <2>3, <2>4, <2>5, <2>6 DEF Next, ExecutorStep
<1> QED BY <1>2, <1>3, <1>4

\* The end of a chime arrives only over a link that is up, where
\* restoreAfterTest() asks for the song again instead of skipping it.
LEMMA ChimeEnds ==
  ASSUME IInv, Offline, Next, fromExec # <<>>, Head(fromExec) = Ended(Chime),
         fromExec' = Tail(fromExec)
  PROVE  adv' = adv /\ np' = np /\ queue' = queue
<1>1. connected
  BY DEF Offline
<1>2. fromExec' # fromExec
  <2>1. fromExec \in Seq(Messages)
    BY DEF IInv, RestTyped
  <2>2. Len(fromExec) \in Nat \ {0} /\ Len(Tail(fromExec)) = Len(fromExec) - 1
    BY <2>1, EmptySeq, HeadTailProperties
  <2>3. Len(Tail(fromExec)) # Len(fromExec)
    <3>1. \A a, b \in Nat : a = b - 1 => a # b
      OBVIOUS
    <3>2. Len(Tail(fromExec)) \in Nat /\ Len(fromExec) \in Nat
      BY <2>1, <2>2, HeadTailProperties, LenProperties
    <3> QED BY <2>2, <3>1, <3>2, Zenon
  <2> QED BY <2>3, Zenon
<1>3. CASE UserStep
  BY <1>2, <1>3 DEF UserStep, Start, Stop, Restart, Skip, RemoveItem, ToTop, ClearQueue, SetQueue,
                    Previous, Add, PlayNow, Pause, Resume, Seek, Control, TestChime
<1>4. CASE MachineStep /\ ~EndedArrives
  <2>1. CASE ReplyArrives
    BY <2>1 DEF ReplyArrives, Ended
  <2> QED BY <1>2, <1>4, <2>1 DEF MachineStep, IdleResolved, UrlResolved, LyricResolved, RetryTimer,
                    AddResolved, PlayNowResolved, ChimeTimeout, TimedOut
<1>5. CASE EndedArrives
  <2>1. Head(fromExec).src = Chime
    BY DEF Ended
  <2>2. CASE RestoreAfterTest(toExec)
    BY <1>1, <2>2 DEF RestoreAfterTest, Leave
  <2>3. CASE UNCHANGED <<core, restore, rst>>
    BY <2>3 DEF core
  <2> QED BY <1>5, <2>1, <2>2, <2>3 DEF EndedArrives
<1>6. CASE ExecStep \/ SourceEnds \/ Disconnect
  BY <1>6 DEF ExecStep, SourceEnds, Disconnect, core
<1>7. CASE Reconnect
  BY <1>1, <1>7 DEF Reconnect
<1> QED BY <1>3, <1>4, <1>5, <1>6, <1>7 DEF Next, ExecutorStep

\* The end of the test chime moves nothing: the song it interrupted stays the
\* one that is on and the queue stays as it is (restoreAfterTest()).
THEOREM ChimeMovesNothing == Spec => ChimeIsNoSong
<1>1. Init => Offline
  BY DEF Init, Offline, Unawaited
<1>2. IInv /\ Offline /\ [Next]_vars => Offline'
  BY OfflineKept
<1>3. IInv /\ Offline /\ [Next]_vars
        => [fromExec # <<>> /\ Head(fromExec) = Ended(Chime) /\ fromExec' = Tail(fromExec)
              => adv' = adv /\ np' = np /\ queue' = queue]_vars
  BY ChimeEnds
<1> QED BY <1>1, <1>2, <1>3, Invariance, PTL DEF Spec, ChimeIsNoSong

-----------------------------------------------------------------------------
(* The inductive invariant: who waits for a request on the wires.  Its     *)
(* parts take the running advance (a), the calls (k), the requests to the  *)
(* executor (o) and the messages from it (f).                              *)

Transport == {"pause", "resume"}

\* A request somebody waits for is what that somebody asked for.
Sent(a, k, o) ==
  \A j \in DOMAIN o :
    /\ o[j].w # "rst"
    /\ o[j].w = "adv" => a.ph = "play" /\ o[j].op = "play" /\ o[j].src = a.item.id
    /\ o[j].w \in Clients => k[o[j].w].op = o[j].op /\ o[j].op \in Transport

\* A reply on its way is awaited.
Replies(a, k, f) ==
  \A j \in DOMAIN f :
    f[j].op = "reply" =>
      /\ f[j].w \in Clients \cup {"adv"}
      /\ f[j].w = "adv" => a.ph = "play"
      /\ f[j].w \in Clients => k[f[j].w].op \in Transport

\* Each awaits one request or one reply, not both.
Once(o, f) ==
  /\ \A i, j \in DOMAIN o : i # j /\ o[i].w = o[j].w => o[i].w = Nobody
  /\ \A i, j \in DOMAIN f : i # j /\ f[i].op = "reply" /\ f[j].op = "reply" => f[i].w # f[j].w
  /\ \A i \in DOMAIN o, j \in DOMAIN f : f[j].op = "reply" => f[j].w # o[i].w

Wires(a, k, o, f) == Sent(a, k, o) /\ Replies(a, k, f) /\ Once(o, f)

\* Nothing on the wires is for w.
Unheard(w, o, f) ==
  /\ \A j \in DOMAIN o : o[j].w # w
  /\ \A j \in DOMAIN f : f[j].op = "reply" => f[j].w # w

-----------------------------------------------------------------------------
(* What the operators on sequences do to them.                             *)

LEMMA AppendAt ==
  ASSUME NEW S, NEW q \in Seq(S), NEW x \in S
  PROVE  /\ Append(q, x) \in Seq(S) /\ Len(q) \in Nat /\ DOMAIN q = 1..Len(q)
         /\ DOMAIN Append(q, x) = 1..(Len(q) + 1)
         /\ \A j \in DOMAIN q : j \in DOMAIN Append(q, x) /\ j < Len(q) + 1 /\ Append(q, x)[j] = q[j]
         /\ Append(q, x)[Len(q) + 1] = x
         /\ \A j \in DOMAIN Append(q, x) : j = Len(q) + 1 \/ j \in DOMAIN q
<1>1. Len(q) \in Nat /\ DOMAIN q = 1..Len(q)
  BY LenProperties
<1>2. Append(q, x) \in Seq(S) /\ Len(Append(q, x)) = Len(q) + 1
      /\ (\A i \in 1..Len(q) : Append(q, x)[i] = q[i]) /\ Append(q, x)[Len(q) + 1] = x
  BY AppendProperties
<1>3. DOMAIN Append(q, x) = 1..(Len(q) + 1)
  BY <1>2, LenProperties
<1> QED BY <1>1, <1>2, <1>3

LEMMA RestAt ==
  ASSUME NEW S, NEW q \in Seq(S), q # <<>>
  PROVE  /\ Tail(q) \in Seq(S) /\ Head(q) \in S /\ 1 \in DOMAIN q /\ Head(q) = q[1]
         /\ DOMAIN q \subseteq Nat \ {0} /\ DOMAIN Tail(q) \subseteq Nat \ {0}
         /\ \A j \in DOMAIN Tail(q) : j + 1 \in DOMAIN q /\ j + 1 # 1 /\ Tail(q)[j] = q[j + 1]
         /\ \A j \in DOMAIN q : j # 1 => j - 1 \in DOMAIN Tail(q) /\ Tail(q)[j - 1] = q[j]
<1>1. Len(q) \in Nat \ {0} /\ DOMAIN q = 1..Len(q)
  BY EmptySeq, LenProperties
<1>2. Tail(q) \in Seq(S) /\ Head(q) \in S /\ Len(Tail(q)) = Len(q) - 1
      /\ \A i \in 1..Len(Tail(q)) : Tail(q)[i] = q[i + 1]
  BY HeadTailProperties
<1>3. DOMAIN Tail(q) = 1..(Len(q) - 1)
  BY <1>2, LenProperties
<1>4. Head(q) = q[1]
  OBVIOUS
<1>5. ASSUME NEW j \in DOMAIN Tail(q)
      PROVE  j + 1 \in DOMAIN q /\ j + 1 # 1 /\ Tail(q)[j] = q[j + 1]
  BY <1>1, <1>2, <1>3
<1>6. ASSUME NEW j \in DOMAIN q, j # 1
      PROVE  j - 1 \in DOMAIN Tail(q) /\ Tail(q)[j - 1] = q[j]
  <2>1. PICK i : i = j - 1
    OBVIOUS
  <2>2. i \in 1..(Len(q) - 1) /\ i + 1 = j
    BY <1>1, <1>6, <2>1
  <2>3. Tail(q)[i] = q[i + 1]
    BY <1>2, <2>2
  <2> QED BY <1>3, <2>1, <2>2, <2>3
<1>7. DOMAIN q \subseteq Nat \ {0} /\ DOMAIN Tail(q) \subseteq Nat \ {0}
  BY <1>1, <1>3
<1>8. \A j \in DOMAIN Tail(q) : j + 1 \in DOMAIN q /\ j + 1 # 1 /\ Tail(q)[j] = q[j + 1]
  BY <1>5, Zenon
<1>9. \A j \in DOMAIN q : j # 1 => j - 1 \in DOMAIN Tail(q) /\ Tail(q)[j - 1] = q[j]
  BY <1>6, Zenon
<1>10. 1 \in DOMAIN q
  BY <1>1
<1> QED BY <1>2, <1>4, <1>7, <1>8, <1>9, <1>10, Zenon

LEMMA ForgetAt ==
  ASSUME NEW o \in Seq(Requests), NEW w \in Waiters
  PROVE  /\ Forget(o, w) \in Seq(Requests) /\ DOMAIN Forget(o, w) = DOMAIN o
         /\ \A j \in DOMAIN o :
              /\ Forget(o, w)[j].op = o[j].op /\ Forget(o, w)[j].src = o[j].src
              /\ Forget(o, w)[j].w = IF o[j].w = w THEN Nobody ELSE o[j].w
<1>1. DOMAIN Forget(o, w) = DOMAIN o
  BY DEF Forget
<1>2. ASSUME NEW j \in DOMAIN o
      PROVE  /\ Forget(o, w)[j].op = o[j].op /\ Forget(o, w)[j].src = o[j].src
             /\ Forget(o, w)[j].w = IF o[j].w = w THEN Nobody ELSE o[j].w
  <2>1. o[j] \in Requests
    BY ElementOfSeq, LenProperties
  <2>2. Forget(o, w)[j] = IF o[j].w = w THEN [o[j] EXCEPT !.w = Nobody] ELSE o[j]
    BY DEF Forget
  <2> QED BY <2>1, <2>2 DEF Requests
<1> QED BY <1>1, <1>2, ForgetRequests

-----------------------------------------------------------------------------
(* What a step does to the wires keeps them in order.                      *)

LEMMA Strange == /\ Nobody # "adv" /\ Nobody # "rst" /\ "adv" \notin Clients /\ "rst" \notin Clients
                 /\ Nobody \notin Clients
BY JukeboxAssumption DEF Nobody

\* A request nobody waits for.
LEMMA WiresStop ==
  ASSUME NEW a, NEW k, NEW o \in Seq(Requests), NEW f, Wires(a, k, o, f)
  PROVE  Wires(a, k, Append(o, Msg("stop", 0, Nobody)), f)
<1>1. PICK m : m = Msg("stop", 0, Nobody)
  OBVIOUS
<1>2. m \in Requests /\ m.w = Nobody
  BY <1>1, StopRequest DEF Msg
<1>3. PICK p : p = Append(o, m)
  OBVIOUS
<1>4. PICK l \in Nat : l = Len(o) + 1
  BY LenProperties
<1>5. /\ \A j \in DOMAIN o : j \in DOMAIN p /\ p[j] = o[j]
      /\ p[l] = m /\ \A j \in DOMAIN p : j = l \/ j \in DOMAIN o
  BY <1>2, <1>3, <1>4, AppendAt
<1>6. Sent(a, k, p)
  BY <1>2, <1>5, Strange DEF Wires, Sent
<1>7. Once(p, f)
  <2>1. ASSUME NEW i \in DOMAIN p, NEW j \in DOMAIN p, i # j, p[i].w = p[j].w PROVE p[i].w = Nobody
    BY <1>2, <1>5, <2>1 DEF Wires, Once
  <2>2. ASSUME NEW i \in DOMAIN p, NEW j \in DOMAIN f, f[j].op = "reply" PROVE f[j].w # p[i].w
    <3>1. f[j].w # Nobody
      BY <2>2, Strange DEF Wires, Replies
    <3> QED BY <1>2, <1>5, <2>2, <3>1 DEF Wires, Once
  <2> QED BY <2>1, <2>2 DEF Wires, Once
<1> QED BY <1>1, <1>3, <1>6, <1>7 DEF Wires

\* Somebody new asks.
LEMMA WiresAsk ==
  ASSUME NEW a, NEW k, NEW o \in Seq(Requests), NEW f, NEW m \in Requests,
         Wires(a, k, o, f), Unheard(m.w, o, f), m.w # "rst",
         m.w = "adv" => a.ph = "play" /\ m.op = "play" /\ m.src = a.item.id,
         m.w \in Clients => k[m.w].op = m.op /\ m.op \in Transport
  PROVE  Wires(a, k, Append(o, m), f)
<1>3. PICK p : p = Append(o, m)
  OBVIOUS
<1>4. PICK l \in Nat : l = Len(o) + 1
  BY LenProperties
<1>5. /\ \A j \in DOMAIN o : j \in DOMAIN p /\ p[j] = o[j]
      /\ p[l] = m /\ \A j \in DOMAIN p : j = l \/ j \in DOMAIN o
  BY <1>3, <1>4, AppendAt
<1>6. Sent(a, k, p)
  BY <1>5 DEF Wires, Sent
<1>7. Once(p, f)
  <2>1. ASSUME NEW i \in DOMAIN p, NEW j \in DOMAIN p, i # j, p[i].w = p[j].w PROVE p[i].w = Nobody
    BY <1>5, <2>1 DEF Wires, Once, Unheard
  <2>2. ASSUME NEW i \in DOMAIN p, NEW j \in DOMAIN f, f[j].op = "reply" PROVE f[j].w # p[i].w
    BY <1>5, <2>2 DEF Wires, Once, Unheard
  <2> QED BY <2>1, <2>2 DEF Wires, Once
<1> QED BY <1>3, <1>6, <1>7 DEF Wires

\* The advance goes from one of its other awaits to another.
LEMMA WiresAdvance ==
  ASSUME NEW a, NEW b, NEW k, NEW o, NEW f, Wires(a, k, o, f), Unheard("adv", o, f)
  PROVE  Wires(b, k, o, f)
BY DEF Wires, Sent, Replies, Unheard

LEMMA NoAdvanceAsks ==
  ASSUME NEW a, NEW k, NEW o, NEW f, Wires(a, k, o, f), a.ph # "play"
  PROVE  Unheard("adv", o, f)
BY DEF Wires, Sent, Replies, Unheard

\* A client that waits for nothing on the wires begins or ends a call.
LEMMA WiresCalls ==
  ASSUME NEW a, NEW k, NEW l, NEW o, NEW f, Wires(a, k, o, f),
         \A c \in Clients : l[c] = k[c] \/ Unheard(c, o, f)
  PROVE  Wires(a, l, o, f)
BY DEF Wires, Sent, Replies, Unheard

LEMMA NoCallAsks ==
  ASSUME NEW a, NEW k, NEW o, NEW f, Wires(a, k, o, f), NEW c \in Clients, k[c].op \notin Transport
  PROVE  Unheard(c, o, f)
BY DEF Wires, Sent, Replies, Unheard

LEMMA WiresForget ==
  ASSUME NEW a, NEW k, NEW o \in Seq(Requests), NEW f, Wires(a, k, o, f), NEW w \in Clients \cup {"adv"},
         \A j \in DOMAIN f : f[j].op = "reply" => f[j].w # w
  PROVE  Wires(a, k, Forget(o, w), f) /\ Unheard(w, Forget(o, w), f)
<1>1. PICK p : p = Forget(o, w)
  OBVIOUS
<1>2. DOMAIN p = DOMAIN o /\ \A j \in DOMAIN o : /\ p[j].op = o[j].op /\ p[j].src = o[j].src
                                              /\ p[j].w = IF o[j].w = w THEN Nobody ELSE o[j].w
  BY <1>1, ForgetAt DEF Waiters
<1>3. Sent(a, k, p)
  BY <1>2, Strange DEF Wires, Sent
<1>4. Once(p, f)
  <2>1. ASSUME NEW i \in DOMAIN p, NEW j \in DOMAIN p, i # j, p[i].w = p[j].w PROVE p[i].w = Nobody
    BY <1>2, <2>1 DEF Wires, Once
  <2>2. ASSUME NEW i \in DOMAIN p, NEW j \in DOMAIN f, f[j].op = "reply" PROVE f[j].w # p[i].w
    <3>1. f[j].w # Nobody
      BY <2>2, Strange DEF Wires, Replies
    <3> QED BY <1>2, <2>2, <3>1 DEF Wires, Once
  <2> QED BY <2>1, <2>2 DEF Wires, Once
<1>5. Unheard(w, p, f)
  BY <1>2, Strange DEF Unheard
<1> QED BY <1>1, <1>3, <1>4, <1>5 DEF Wires

\* A message from the executor is taken off the wire.
LEMMA WiresHeard ==
  ASSUME NEW a, NEW k, NEW o, NEW f \in Seq(Messages), f # <<>>, Wires(a, k, o, f)
  PROVE  /\ Wires(a, k, o, Tail(f))
         /\ Head(f).op = "reply" => Unheard(Head(f).w, o, Tail(f)) /\ Head(f).w \in Clients \cup {"adv"}
<1>1. PICK g : g = Tail(f)
  OBVIOUS
<1>2. 1 \in DOMAIN f /\ Head(f) = f[1] /\ \A j \in DOMAIN g : j + 1 \in DOMAIN f /\ j + 1 # 1 /\ g[j] = f[j + 1]
  BY <1>1, RestAt
<1>3. \A i, j \in DOMAIN g : i # j => i + 1 # j + 1
  BY <1>1, RestAt
<1>4. Replies(a, k, g)
  BY <1>2 DEF Wires, Replies
<1>5. Once(o, g)
  <2>1. ASSUME NEW i \in DOMAIN g, NEW j \in DOMAIN g, i # j, g[i].op = "reply", g[j].op = "reply"
        PROVE  g[i].w # g[j].w
    <3>1. i + 1 \in DOMAIN f /\ j + 1 \in DOMAIN f /\ i + 1 # j + 1 /\ g[i] = f[i + 1] /\ g[j] = f[j + 1]
      BY <1>2, <1>3, <2>1
    <3> QED BY <2>1, <3>1 DEF Wires, Once
  <2> QED BY <1>2, <2>1 DEF Wires, Once
<1>6. Head(f).op = "reply" => Unheard(Head(f).w, o, g) /\ Head(f).w \in Clients \cup {"adv"}
  BY <1>2 DEF Wires, Once, Replies, Unheard
<1> QED BY <1>1, <1>4, <1>5, <1>6 DEF Wires

\* The executor takes a request and answers whoever waits for it.
LEMMA WiresTaken ==
  ASSUME NEW a, NEW k, NEW o \in Seq(Requests), o # <<>>, NEW f, Wires(a, k, o, f)
  PROVE  /\ Wires(a, k, Tail(o), f) /\ Head(o).w \in Waiters
         /\ Head(o).w # Nobody => Unheard(Head(o).w, Tail(o), f)
<1>1. PICK p : p = Tail(o)
  OBVIOUS
<1>2. /\ 1 \in DOMAIN o /\ Head(o) = o[1] /\ Head(o) \in Requests
      /\ \A j \in DOMAIN p : j + 1 \in DOMAIN o /\ j + 1 # 1 /\ p[j] = o[j + 1]
  BY <1>1, RestAt
<1>3. \A i, j \in DOMAIN p : i # j => i + 1 # j + 1
  BY <1>1, RestAt
<1>4. Sent(a, k, p)
  BY <1>2 DEF Wires, Sent
<1>5. Once(p, f)
  <2>1. ASSUME NEW i \in DOMAIN p, NEW j \in DOMAIN p, i # j, p[i].w = p[j].w
        PROVE  p[i].w = Nobody
    <3>1. i + 1 \in DOMAIN o /\ j + 1 \in DOMAIN o /\ i + 1 # j + 1 /\ p[i] = o[i + 1] /\ p[j] = o[j + 1]
      BY <1>2, <1>3, <2>1
    <3> QED BY <2>1, <3>1 DEF Wires, Once
  <2> QED BY <1>2, <2>1 DEF Wires, Once
<1>6. Head(o).w # Nobody => Unheard(Head(o).w, p, f)
  BY <1>2 DEF Wires, Once, Unheard
<1>7. Head(o).w \in Waiters
  BY <1>2 DEF Requests
<1> QED BY <1>1, <1>4, <1>5, <1>6, <1>7 DEF Wires

LEMMA WiresSays ==
  ASSUME NEW a, NEW k, NEW o, NEW f \in Seq(Messages), NEW m \in Messages, Wires(a, k, o, f),
         m.op = "reply" => /\ m.w \in Clients \cup {"adv"} /\ Unheard(m.w, o, f)
                           /\ m.w = "adv" => a.ph = "play"
                           /\ m.w \in Clients => k[m.w].op \in Transport
  PROVE  Wires(a, k, o, Append(f, m))
<1>1. PICK g : g = Append(f, m)
  OBVIOUS
<1>2. PICK l \in Nat : l = Len(f) + 1
  BY LenProperties
<1>3. /\ \A j \in DOMAIN f : j \in DOMAIN g /\ g[j] = f[j]
      /\ g[l] = m /\ \A j \in DOMAIN g : j = l \/ j \in DOMAIN f
  BY <1>1, <1>2, AppendAt
<1>4. Replies(a, k, g)
  BY <1>3 DEF Wires, Replies
<1>5. Once(o, g)
  <2>1. ASSUME NEW i \in DOMAIN g, NEW j \in DOMAIN g, i # j, g[i].op = "reply", g[j].op = "reply"
        PROVE  g[i].w # g[j].w
    BY <1>3, <2>1 DEF Wires, Once, Unheard
  <2>2. ASSUME NEW i \in DOMAIN o, NEW j \in DOMAIN g, g[j].op = "reply" PROVE g[j].w # o[i].w
    BY <1>3, <2>2 DEF Wires, Once, Unheard
  <2> QED BY <2>1, <2>2 DEF Wires, Once
<1> QED BY <1>1, <1>4, <1>5 DEF Wires

-----------------------------------------------------------------------------
(* The inductive invariant: what holds the slot of the executor.           *)

\* A request that decides what is in the slot.
Decides(m) == m.op \in {"play", "stop"}

\* The item i is in the slot and stays there; if it sounds no more, the news
\* of its end comes after the message at place p.
On(i, p, o, f, s) ==
  /\ \A j \in DOMAIN o : ~Decides(o[j])
  /\ s.src = i
  /\ s.st \in {"playing", "paused"} \/ \E j \in DOMAIN f : j > p /\ f[j] = Ended(i)

\* The request of the running advance, after which nothing else decides; the
\* answer to it.
Coming(o) == \E j \in DOMAIN o : o[j].w = "adv" /\ \A l \in DOMAIN o : l > j => ~Decides(o[l])
Came(i, o, f, s) ==
  \E j \in DOMAIN f : f[j].op = "reply" /\ f[j].w = "adv" /\ (f[j].ok => On(i, j, o, f, s))

\* The song that is on (n) is on in the executor, unless an advance is to
\* replace it; that of the running advance is on its way to the executor, has
\* been answered for, or is lost.
Real(n, a, o, f, s) ==
  n # NoPlay =>
    /\ a.ph = "none" => On(n.item.id, 0, o, f, s)
    /\ a.ph = "play" => Coming(o) \/ Came(n.item.id, o, f, s) \/ Unheard("adv", o, f)

LEMMA RealAsk ==
  ASSUME NEW n, NEW a, NEW o \in Seq(Requests), NEW f, NEW s, NEW m \in Requests,
         Real(n, a, o, f, s), m.op \in Transport, m.w # "adv"
  PROVE  Real(n, a, Append(o, m), f, s)
<1>1. PICK p : p = Append(o, m)
  OBVIOUS
<1>2. PICK e \in Nat : e = Len(o) + 1
  BY LenProperties
<1>3. /\ \A j \in DOMAIN o : j \in DOMAIN p /\ p[j] = o[j]
      /\ p[e] = m /\ \A j \in DOMAIN p : j = e \/ j \in DOMAIN o
  BY <1>1, <1>2, AppendAt
<1>4. ~Decides(m)
  BY DEF Decides, Transport
<1>5. ASSUME NEW i, NEW l, On(i, l, o, f, s) PROVE On(i, l, p, f, s)
  BY <1>3, <1>4, <1>5 DEF On
<1>6. Coming(o) => Coming(p)
  BY <1>3, <1>4 DEF Coming
<1>7. \A i : Came(i, o, f, s) => Came(i, p, f, s)
  BY <1>5 DEF Came
<1>8. Unheard("adv", o, f) => Unheard("adv", p, f)
  BY <1>3 DEF Unheard
<1> QED BY <1>1, <1>5, <1>6, <1>7, <1>8 DEF Real

LEMMA ComingPlay ==
  ASSUME NEW o \in Seq(Requests), NEW m \in Requests, m.w = "adv"
  PROVE  Coming(Append(o, m))
<1>1. PICK p : p = Append(o, m)
  OBVIOUS
<1>2. PICK e \in Nat : e = Len(o) + 1
  BY LenProperties
<1>3. p[e] = m /\ e \in DOMAIN p /\ DOMAIN p = 1..e
  BY <1>1, <1>2, AppendAt
<1>4. \A l \in DOMAIN p : ~(l > e)
  BY <1>3
<1> QED BY <1>1, <1>3, <1>4 DEF Coming

LEMMA RealForget ==
  ASSUME NEW n, NEW a, NEW o \in Seq(Requests), NEW f, NEW s, NEW c \in Clients, Real(n, a, o, f, s)
  PROVE  Real(n, a, Forget(o, c), f, s)
<1>1. PICK p : p = Forget(o, c)
  OBVIOUS
<1>2. DOMAIN p = DOMAIN o /\ \A j \in DOMAIN o : /\ p[j].op = o[j].op
                                              /\ p[j].w = IF o[j].w = c THEN Nobody ELSE o[j].w
  BY <1>1, ForgetAt DEF Waiters
<1>3. \A j \in DOMAIN o : /\ Decides(p[j]) <=> Decides(o[j])
                          /\ p[j].w = "adv" <=> o[j].w = "adv"
  BY <1>2, Strange DEF Decides
<1>4. \A i, l : On(i, l, o, f, s) => On(i, l, p, f, s)
  BY <1>2, <1>3 DEF On
<1>5. Coming(o) => Coming(p)
  BY <1>2, <1>3 DEF Coming
<1>6. \A i : Came(i, o, f, s) => Came(i, p, f, s)
  BY <1>4 DEF Came
<1>7. Unheard("adv", o, f) => Unheard("adv", p, f)
  BY <1>2, <1>3 DEF Unheard
<1> QED BY <1>1, <1>4, <1>5, <1>6, <1>7 DEF Real

\* A message that is neither the answer to the advance nor the end of the
\* song that is on.
LEMMA OnHeard ==
  ASSUME NEW i, NEW l \in Nat, NEW o, NEW f \in Seq(Messages), f # <<>>, NEW s,
         On(i, l, o, f, s), l > 0 \/ Head(f) # Ended(i)
  PROVE  On(i, IF l = 0 THEN 0 ELSE l - 1, o, Tail(f), s)
<1>1. PICK g : g = Tail(f)
  OBVIOUS
<1>2. /\ Head(f) = f[1] /\ DOMAIN f \subseteq Nat \ {0}
      /\ \A j \in DOMAIN f : j # 1 => j - 1 \in DOMAIN g /\ g[j - 1] = f[j]
  BY <1>1, RestAt
<1>3. PICK b : b = IF l = 0 THEN 0 ELSE l - 1
  OBVIOUS
<1>4. ASSUME NEW j \in DOMAIN f, j > l, f[j] = Ended(i)
      PROVE  \E h \in DOMAIN g : h > b /\ g[h] = Ended(i)
  <2>1. j # 1
    BY <1>2, <1>4
  <2>2. j - 1 \in DOMAIN g /\ g[j - 1] = Ended(i)
    BY <1>2, <1>4, <2>1
  <2>3. j - 1 > b
    <3>1. j \in Nat \ {0}
      BY <1>2
    <3> QED BY <1>3, <1>4, <2>1, <3>1
  <2> QED BY <2>2, <2>3
<1> QED BY <1>1, <1>3, <1>4 DEF On

LEMMA RealHeard ==
  ASSUME NEW n, NEW a, NEW o, NEW f \in Seq(Messages), f # <<>>, NEW s, Real(n, a, o, f, s),
         ~(Head(f).op = "reply" /\ Head(f).w = "adv"),
         a.ph = "none" => Head(f) # Ended(n.item.id)
  PROVE  Real(n, a, o, Tail(f), s)
<1>1. PICK g : g = Tail(f)
  OBVIOUS
<1>2. /\ Head(f) = f[1] /\ DOMAIN f \subseteq Nat \ {0}
      /\ \A j \in DOMAIN f : j # 1 => j - 1 \in DOMAIN g /\ g[j - 1] = f[j]
      /\ \A j \in DOMAIN g : j + 1 \in DOMAIN f /\ g[j] = f[j + 1]
  BY <1>1, RestAt
<1>3. ASSUME n # NoPlay, a.ph = "none" PROVE On(n.item.id, 0, o, g, s)
  <2>1. On(n.item.id, 0, o, f, s) /\ Head(f) # Ended(n.item.id)
    BY <1>3 DEF Real
  <2>2. PICK i : i = n.item.id
    OBVIOUS
  <2> QED BY <1>1, <2>1, <2>2, OnHeard
<1>4. ASSUME NEW i, Came(i, o, f, s) PROVE Came(i, o, g, s)
  <2>1. PICK j \in DOMAIN f : f[j].op = "reply" /\ f[j].w = "adv" /\ (f[j].ok => On(i, j, o, f, s))
    BY <1>4 DEF Came
  <2>2. j # 1 /\ j \in Nat \ {0}
    BY <1>2, <2>1
  <2>3. PICK h : h = j - 1
    OBVIOUS
  <2>4. h \in DOMAIN g /\ g[h] = f[j]
    BY <1>2, <2>2, <2>3
  <2>5. ASSUME On(i, j, o, f, s) PROVE On(i, h, o, g, s)
    <3>1. On(i, IF j = 0 THEN 0 ELSE j - 1, o, g, s)
      <4>1. j \in Nat /\ j > 0
        BY <2>2
      <4> QED BY <1>1, <2>5, <4>1, OnHeard
    <3>2. (IF j = 0 THEN 0 ELSE j - 1) = h
      BY <2>2, <2>3
    <3> QED BY <3>1, <3>2
  <2> QED BY <2>1, <2>4, <2>5 DEF Came
<1>5. Unheard("adv", o, f) => Unheard("adv", o, g)
  BY <1>2 DEF Unheard
<1> QED BY <1>1, <1>3, <1>4, <1>5 DEF Real

\* The good answer to the advance: its song is on.
LEMMA OnAnswered ==
  ASSUME NEW n, NEW a, NEW k, NEW o, NEW f \in Seq(Messages), f # <<>>, NEW s, Wires(a, k, o, f),
         Real(n, a, o, f, s), n # NoPlay, a.ph = "play",
         Head(f).op = "reply", Head(f).w = "adv", Head(f).ok
  PROVE  On(n.item.id, 0, o, Tail(f), s)
<1>1. 1 \in DOMAIN f /\ Head(f) = f[1]
  BY RestAt
<1>2. \A j \in DOMAIN o : o[j].w # "adv"
  BY <1>1 DEF Wires, Once
<1>3. ~Coming(o) /\ ~Unheard("adv", o, f)
  BY <1>1, <1>2 DEF Coming, Unheard
<1>4. PICK i : i = n.item.id
  OBVIOUS
<1>5. Came(i, o, f, s)
  BY <1>3, <1>4 DEF Real
<1>6. PICK j \in DOMAIN f : f[j].op = "reply" /\ f[j].w = "adv" /\ (f[j].ok => On(i, j, o, f, s))
  BY <1>5 DEF Came
<1>7. j = 1
  BY <1>1, <1>6 DEF Wires, Once
<1>8. On(i, 1, o, f, s)
  BY <1>1, <1>6, <1>7
<1>9. On(i, IF 1 = 0 THEN 0 ELSE 1 - 1, o, Tail(f), s)
  <2>1. 1 \in Nat /\ 1 > 0
    OBVIOUS
  <2> QED BY <1>8, <2>1, OnHeard
<1>10. (IF 1 = 0 THEN 0 ELSE 1 - 1) = 0
  OBVIOUS
<1> QED BY <1>4, <1>9, <1>10

\* The executor has said more.
Grows(f, g) == \A j \in DOMAIN f : j \in DOMAIN g /\ g[j] = f[j]
NoAnswer(f, g) == \A j \in DOMAIN g : j \in DOMAIN f \/ ~(g[j].op = "reply" /\ g[j].w = "adv")

LEMMA OnTaken ==
  ASSUME NEW i, NEW l, NEW o \in Seq(Requests), o # <<>>, NEW f, NEW g, NEW s, NEW t,
         On(i, l, o, f, s), Grows(f, g), t.src = s.src,
         s.st \in {"playing", "paused"} => t.st \in {"playing", "paused"}
  PROVE  On(i, l, Tail(o), g, t)
<1>1. \A j \in DOMAIN Tail(o) : j + 1 \in DOMAIN o /\ Tail(o)[j] = o[j + 1]
  BY RestAt
<1> QED BY <1>1 DEF On, Grows

LEMMA ComingTaken ==
  ASSUME NEW o \in Seq(Requests), o # <<>>, Coming(o), Head(o).w # "adv"
  PROVE  Coming(Tail(o))
<1>1. PICK p : p = Tail(o)
  OBVIOUS
<1>2. /\ 1 \in DOMAIN o /\ Head(o) = o[1] /\ DOMAIN o \subseteq Nat \ {0} /\ DOMAIN p \subseteq Nat \ {0}
      /\ \A j \in DOMAIN p : j + 1 \in DOMAIN o /\ p[j] = o[j + 1]
      /\ \A j \in DOMAIN o : j # 1 => j - 1 \in DOMAIN p /\ p[j - 1] = o[j]
  BY <1>1, RestAt
<1>3. PICK j \in DOMAIN o : o[j].w = "adv" /\ \A l \in DOMAIN o : l > j => ~Decides(o[l])
  BY DEF Coming
<1>4. PICK h : h = j - 1
  OBVIOUS
<1>5. j # 1 /\ j \in Nat
  BY <1>2, <1>3
<1>6. h \in DOMAIN p /\ p[h].w = "adv"
  BY <1>2, <1>3, <1>4, <1>5
<1>7. ASSUME NEW l \in DOMAIN p, l > h PROVE ~Decides(p[l])
  <2>1. l \in Nat /\ l + 1 > j
    BY <1>2, <1>4, <1>5, <1>7
  <2>2. l + 1 \in DOMAIN o /\ p[l] = o[l + 1]
    BY <1>2
  <2> QED BY <1>3, <2>1, <2>2
<1> QED BY <1>1, <1>6, <1>7 DEF Coming

LEMMA UnheardTaken ==
  ASSUME NEW o \in Seq(Requests), o # <<>>, NEW f, NEW g, Unheard("adv", o, f), Grows(f, g), NoAnswer(f, g)
  PROVE  Unheard("adv", Tail(o), g)
<1>1. \A j \in DOMAIN Tail(o) : j + 1 \in DOMAIN o /\ Tail(o)[j] = o[j + 1]
  BY RestAt
<1> QED BY <1>1 DEF Unheard, Grows, NoAnswer

\* The executor pauses or resumes.
LEMMA RealControlled ==
  ASSUME NEW n, NEW a, NEW o \in Seq(Requests), o # <<>>, NEW f, NEW g, NEW s, NEW t, Real(n, a, o, f, s),
         Head(o).w # "adv", Grows(f, g), NoAnswer(f, g), t.src = s.src,
         s.st \in {"playing", "paused"} => t.st \in {"playing", "paused"}
  PROVE  Real(n, a, Tail(o), g, t)
<1>1. \A i, l : On(i, l, o, f, s) => On(i, l, Tail(o), g, t)
  BY OnTaken
<1>2. \A i : Came(i, o, f, s) => Came(i, Tail(o), g, t)
  BY <1>1 DEF Came, Grows
<1> QED BY <1>1, <1>2, ComingTaken, UnheardTaken DEF Real

\* The executor plays or stops for nobody.
LEMMA RealDecided ==
  ASSUME NEW n, NEW a, NEW o \in Seq(Requests), o # <<>>, NEW f, NEW g, NEW s, NEW t, Real(n, a, o, f, s),
         Decides(Head(o)), Head(o).w # "adv", Grows(f, g), NoAnswer(f, g)
  PROVE  Real(n, a, Tail(o), g, t)
<1>1. 1 \in DOMAIN o /\ Head(o) = o[1]
  BY RestAt
<1>2. \A i, l : ~On(i, l, o, f, s)
  BY <1>1 DEF On
<1>3. \A i : Came(i, o, f, s) => Came(i, Tail(o), g, t)
  BY <1>2 DEF Came, Grows
<1> QED BY <1>2, <1>3, ComingTaken, UnheardTaken DEF Real

\* The executor does what the advance asks, or cannot.
LEMMA RealPlayed ==
  ASSUME NEW n, NEW a, NEW k, NEW o \in Seq(Requests), o # <<>>, NEW f \in Seq(Messages), NEW s, NEW t,
         NEW m \in Messages, Wires(a, k, o, f), Real(n, a, o, f, s), Head(o).w = "adv",
         n # NoPlay => n.item = a.item,
         m.op = "reply", m.w = "adv",
         m.ok => t.src = Head(o).src /\ t.st = "playing"
  PROVE  Real(n, a, Tail(o), Append(f, m), t)
<1>1. PICK p : p = Tail(o)
  OBVIOUS
<1>2. PICK g : g = Append(f, m)
  OBVIOUS
<1>3. PICK e \in Nat : e = Len(f) + 1
  BY LenProperties
<1>4. e \in DOMAIN g /\ g[e] = m
  BY <1>2, <1>3, AppendAt
<1>5. /\ 1 \in DOMAIN o /\ Head(o) = o[1] /\ DOMAIN o \subseteq Nat \ {0} /\ DOMAIN p \subseteq Nat \ {0}
      /\ \A j \in DOMAIN p : j + 1 \in DOMAIN o /\ j + 1 # 1 /\ p[j] = o[j + 1]
  BY <1>1, RestAt
<1>6. a.ph = "play" /\ Head(o).src = a.item.id
  BY <1>5 DEF Wires, Sent
<1>7. ASSUME n # NoPlay PROVE Came(n.item.id, p, g, t)
  <2>1. PICK i : i = n.item.id
    OBVIOUS
  <2>2. i = Head(o).src
    BY <1>6, <1>7, <2>1
  <2>3. ~Unheard("adv", o, f) /\ \A j \in DOMAIN f : f[j].op = "reply" => f[j].w # "adv"
    BY <1>5 DEF Unheard, Wires, Once
  <2>4. Coming(o)
    BY <1>6, <1>7, <2>1, <2>3 DEF Real, Came
  <2>5. PICK j \in DOMAIN o : o[j].w = "adv" /\ \A l \in DOMAIN o : l > j => ~Decides(o[l])
    BY <2>4 DEF Coming
  <2>6. j = 1
    BY <1>5, <2>5, Strange DEF Wires, Once
  <2>7. \A l \in DOMAIN p : ~Decides(p[l])
    <3>1. ASSUME NEW l \in DOMAIN p PROVE ~Decides(p[l])
      <4>1. l + 1 > 1 /\ l + 1 \in DOMAIN o /\ p[l] = o[l + 1]
        BY <1>5
      <4> QED BY <2>5, <2>6, <4>1
    <3> QED BY <3>1
  <2>8. m.ok => On(i, e, p, g, t)
    BY <2>2, <2>7 DEF On
  <2> QED BY <1>4, <2>1, <2>8 DEF Came
<1> QED BY <1>1, <1>2, <1>6, <1>7 DEF Real

\* What plays comes to its end, and the executor says so.
LEMMA RealEnds ==
  ASSUME NEW n, NEW a, NEW o, NEW f \in Seq(Messages), NEW s, NEW t, Real(n, a, o, f, s),
         Ended(s.src) \in Messages, t.src = s.src
  PROVE  Real(n, a, o, Append(f, Ended(s.src)), t)
<1>1. PICK m : m = Ended(s.src)
  OBVIOUS
<1>2. PICK g : g = Append(f, m)
  OBVIOUS
<1>3. PICK e \in Nat : e = Len(f) + 1
  BY LenProperties
<1>4. /\ \A j \in DOMAIN f : j \in DOMAIN g /\ j < e /\ g[j] = f[j]
      /\ e \in DOMAIN g /\ g[e] = m /\ \A j \in DOMAIN g : j = e \/ j \in DOMAIN f
      /\ DOMAIN f \subseteq Nat
  BY <1>1, <1>2, <1>3, AppendAt
<1>5. m.op = "ended"
  BY <1>1 DEF Ended
<1>6. ASSUME NEW i, NEW l, On(i, l, o, f, s), e > l PROVE On(i, l, o, g, t)
  BY <1>1, <1>4, <1>6 DEF On
<1>7. \A i : Came(i, o, f, s) => Came(i, o, g, t)
  <2>1. ASSUME NEW i, Came(i, o, f, s) PROVE Came(i, o, g, t)
    <3>1. PICK j \in DOMAIN f : f[j].op = "reply" /\ f[j].w = "adv" /\ (f[j].ok => On(i, j, o, f, s))
      BY <2>1 DEF Came
    <3>2. e > j /\ j \in DOMAIN g /\ g[j] = f[j]
      BY <1>4
    <3> QED BY <1>6, <3>1, <3>2 DEF Came
  <2> QED BY <2>1
<1>8. Unheard("adv", o, f) => Unheard("adv", o, g)
  BY <1>4, <1>5 DEF Unheard
<1>9. e > 0
  BY <1>3, LenProperties
<1> QED BY <1>1, <1>2, <1>6, <1>7, <1>8, <1>9 DEF Real

-----------------------------------------------------------------------------
(* The inductive invariant: the conditions, and the whole.                 *)

\* The link does not break.
LinkHolds == Faults \cap {"crash", "drop", "lateExecutor"} = {}

\* No seek and no chime takes the slot, every source can be decoded, and a
\* machine whose link breaks is not stopped.
Foreseen ==
  /\ Ops \cap {"seek", "chime"} = {} /\ "undecodable" \notin Faults
  /\ LinkHolds \/ Ops \cap {"stop", "restart"} = {}

LookingUp == {"none", "add", "playNow"}
NoChimes ==
  /\ restore = NoRestore /\ rst = NoRestore
  /\ \A c \in Clients : calls[c].op \in LookingUp \cup Transport

\* Before the first start nothing has gone to the executor.
Asleep ==
  ~LinkHolds /\ ~running =>
    /\ np = NoPlay /\ adv = NoAdv /\ slot = NoSlot /\ toExec = <<>> /\ fromExec = <<>>
    /\ \A c \in Clients : calls[c].op \in {"none", "add"}

InStep ==
  /\ Wires(adv, calls, toExec, fromExec)
  /\ connected => Real(np, adv, toExec, fromExec, slot)

WireInv == InStep /\ NoChimes /\ Offline /\ Asleep /\ (LinkHolds => connected)

-----------------------------------------------------------------------------
(* Steps that ask the executor for nothing but silence.                    *)

StopIt == Msg("stop", 0, Nobody)
Stops(o, p) == p \in {o, Append(o, StopIt), Append(Append(o, StopIt), StopIt)}

\* An advance() sets out, or there is silence.
Goes(o) ==
  /\ Stops(o, toExec') /\ adv'.ph # "play"
  /\ np' \in {np, NoPlay} /\ (np' = NoPlay \/ adv'.ph \in {"idle", "url", "lyric"})

\* Nothing about the song that is on changes.
Stays == np' = np /\ adv' = adv /\ toExec' = toExec

\* stop() lets the running advance() be.
Hushes == np' = NoPlay /\ adv' = adv /\ Stops(toExec, toExec')

\* No call waits for the executor that did not, and none stops.
OtherCalls ==
  \A c \in Clients :
    calls'[c] = calls[c] \/ (calls[c].op \notin Transport /\ calls'[c].op \notin Transport)

Plain ==
  /\ UNCHANGED <<fromExec, slot>>
  /\ Stays \/ Hushes \/ (adv.ph # "play" /\ Goes(toExec))
  /\ OtherCalls

LEMMA LaunchGoes ==
  ASSUME NEW g, NEW q, NEW n, n \in {np, NoPlay}, NEW p, NEW r,
         NEW b, NEW o, o \in {b, Append(b, StopIt), Send(b, StopIt)},
         Launch(g, q, n, p, r, o)
  PROVE  Goes(b)
<1>1. o \in {b, Append(b, StopIt)}
  BY DEF Send
<1>2. Send(o, Msg("stop", 0, Nobody)) \in {o, Append(o, StopIt)}
  BY DEF Send, StopIt
<1>3. CASE q # <<>>
  BY <1>1, <1>3 DEF Launch, Leave, Goes, Stops
<1>4. CASE q = <<>> /\ IdleRefs
  BY <1>1, <1>4 DEF Launch, Leave, Goes, Stops
<1>5. CASE q = <<>> /\ ~IdleRefs
  BY <1>1, <1>2, <1>5 DEF Launch, Leave, Goes, Stops, NoAdv
<1> QED BY <1>3, <1>4, <1>5

LEMMA EnsureGoes ==
  ASSUME NEW run, NEW g, NEW q, NEW n, n \in {np, NoPlay}, NEW p, NEW a, NEW r,
         NEW b, NEW o, o \in {b, Append(b, StopIt), Send(b, StopIt)},
         EnsurePlaying(run, g, q, n, p, a, r, o)
  PROVE  (a = NoAdv /\ Goes(b)) \/ (np' = n /\ adv' = a /\ toExec' = o)
<1>1. CASE run /\ n = NoPlay /\ a = NoAdv
  BY <1>1, LaunchGoes DEF EnsurePlaying
<1>2. CASE ~(run /\ n = NoPlay /\ a = NoAdv)
  BY <1>2 DEF EnsurePlaying, Leave
<1> QED BY <1>1, <1>2

LEMMA SettleGoes ==
  ASSUME NEW q, NEW n, n \in {np, NoPlay}, NEW p, NEW r,
         NEW b, NEW o, o \in {b, Append(b, StopIt), Send(b, StopIt)},
         Settle(q, n, p, r, o)
  PROVE  /\ Goes(b) \/ (np' = n /\ adv' = NoAdv /\ toExec' = o)
         /\ n = NoPlay => Goes(b)
<1>1. CASE skipReq /\ running
  BY <1>1, LaunchGoes DEF Settle
<1>2. CASE ~(skipReq /\ running)
  <2>1. np' = n /\ adv' = NoAdv /\ toExec' = o
    BY <1>2 DEF Settle, Leave
  <2>2. Stops(b, toExec')
    BY <2>1 DEF Stops, Send
  <2> QED BY <2>1, <2>2 DEF Goes, NoAdv
<1> QED BY <1>1, <1>2

LEMMA SendStop == \A o : Send(o, Msg("stop", 0, Nobody)) \in {o, Append(o, StopIt)}
BY DEF Send, StopIt

LEMMA WiresStops ==
  ASSUME NEW a, NEW k, NEW o \in Seq(Requests), NEW f, NEW p, Wires(a, k, o, f), Stops(o, p)
  PROVE  Wires(a, k, p, f)
<1>1. PICK q : q = Append(o, StopIt)
  OBVIOUS
<1>2. q \in Seq(Requests) /\ Wires(a, k, q, f)
  BY <1>1, WiresStop, StopRequest, AppendProperties DEF StopIt
<1>3. Wires(a, k, Append(q, StopIt), f)
  BY <1>2, WiresStop DEF StopIt
<1> QED BY <1>1, <1>2, <1>3 DEF Stops

LEMMA PlainKeeps ==
  ASSUME IInv, InStep, Plain, connected' = connected
  PROVE  InStep'
<1>1. toExec \in Seq(Requests)
  BY DEF IInv, CoreTyped
<1>2. Wires(adv', calls, toExec, fromExec)
  <2>1. CASE adv.ph # "play"
    BY <2>1, NoAdvanceAsks, WiresAdvance DEF InStep
  <2>2. CASE adv.ph = "play"
    BY <2>2 DEF InStep, Plain, Stays, Hushes
  <2> QED BY <2>1, <2>2
<1>3. Wires(adv', calls', toExec, fromExec)
  <2>1. \A c \in Clients : calls'[c] = calls[c] \/ Unheard(c, toExec, fromExec)
    BY <1>2, NoCallAsks DEF Plain, OtherCalls
  <2> QED BY <1>2, <2>1, WiresCalls
<1>4. Wires(adv', calls', toExec', fromExec')
  <2>1. Stops(toExec, toExec')
    BY DEF Plain, Stays, Hushes, Goes, Stops
  <2> QED BY <1>1, <1>3, <2>1, WiresStops DEF Plain
<1>5. ASSUME connected PROVE Real(np', adv', toExec', fromExec', slot')
  <2>1. CASE Stays
    BY <1>5, <2>1 DEF InStep, Plain, Stays
  <2>2. CASE np' = NoPlay \/ adv'.ph \in {"idle", "url", "lyric"}
    BY <2>2 DEF Real
  <2> QED BY <2>1, <2>2 DEF Plain, Hushes, Goes
<1> QED BY <1>4, <1>5 DEF InStep

-----------------------------------------------------------------------------
(* The operations and the continuations that are plain.                    *)

LEMMA NotPlaying == NoAdv.ph # "play" /\ (IInv /\ ~advancing => adv = NoAdv)
BY DEF NoAdv, IInv, Linked, advancing

LEMMA BeginPlain ==
  ASSUME NEW c \in Clients, NEW r, Begin(c, r), IInv, r.op \notin Transport
  PROVE  OtherCalls
<1>1. calls \in [Clients -> {NoCall} \cup LookUps \cup Controls]
  BY DEF IInv, RestTyped, CallsTyped
<1>2. calls'[c] = r /\ \A d \in Clients : d # c => calls'[d] = calls[d]
  BY <1>1 DEF Begin
<1>3. calls[c].op \notin Transport
  BY DEF Begin, NoCall, Transport
<1> QED BY <1>2, <1>3 DEF OtherCalls

LEMMA ReturnPlain ==
  ASSUME NEW c \in Clients, Return(c), IInv, calls[c].op \notin Transport
  PROVE  OtherCalls
<1>1. calls \in [Clients -> {NoCall} \cup LookUps \cup Controls]
  BY DEF IInv, RestTyped, CallsTyped
<1>2. calls'[c] = NoCall /\ \A d \in Clients : d # c => calls'[d] = calls[d]
  BY <1>1 DEF Return
<1>3. NoCall.op \notin Transport
  BY DEF NoCall, Transport
<1> QED BY <1>2, <1>3 DEF OtherCalls

LEMMA UserPlain ==
  ASSUME IInv, UserStep, Foreseen
  PROVE  Plain \/ \E c \in Clients : Pause(c) \/ Resume(c)
<1>0. ("seek" \notin Ops) /\ ("chime" \notin Ops)
  BY DEF Foreseen
<1>1. CASE Start
  <2>1. (adv = NoAdv /\ Goes(toExec)) \/ Stays
    BY <1>1, EnsureGoes DEF Start, Stays
  <2> QED BY <1>1, <2>1, NotPlaying DEF Start, Plain, OtherCalls
<1>2. CASE Stop
  <2>1. Hushes
    BY <1>2, SendStop DEF Stop, Leave, Hushes, Stops
  <2> QED BY <1>2, <2>1 DEF Stop, Plain, OtherCalls
<1>3. CASE Restart
  <2>1. (adv = NoAdv /\ Goes(toExec)) \/ Hushes
    <3>1. PICK q : EnsurePlaying(TRUE, gen + 1, q, NoPlay, NoItem, adv, Archive(open),
                                 Send(toExec, Msg("stop", 0, Nobody)))
      BY <1>3 DEF Restart
    <3>2. PICK o : o = Send(toExec, Msg("stop", 0, Nobody))
      OBVIOUS
    <3>3. o \in {toExec, Append(toExec, StopIt)}
      BY <3>2, SendStop
    <3>4. (adv = NoAdv /\ Goes(toExec)) \/ (np' = NoPlay /\ adv' = adv /\ toExec' = o)
      <4>1. CASE adv = NoAdv
        <5>1. Launch(gen + 1, q, NoPlay, NoItem, Archive(open), o)
          BY <3>1, <3>2, <4>1 DEF EnsurePlaying
        <5> QED BY <3>3, <4>1, <5>1, LaunchGoes
      <4>2. CASE adv # NoAdv
        BY <3>1, <3>2, <4>2 DEF EnsurePlaying, Leave
      <4> QED BY <4>1, <4>2
    <3> QED BY <3>3, <3>4 DEF Hushes, Stops
  <2> QED BY <1>3, <2>1, NotPlaying DEF Restart, Plain, OtherCalls
<1>4. CASE Skip
  <2>1. (~advancing /\ Goes(toExec)) \/ Stays
    BY <1>4, LaunchGoes DEF Skip, core, Stays
  <2> QED BY <1>4, <2>1, NotPlaying DEF Skip, Plain, OtherCalls
<1>5. CASE RemoveItem \/ ToTop \/ ClearQueue
  BY <1>5 DEF RemoveItem, ToTop, ClearQueue, SetQueue, Plain, OtherCalls, Stays
<1>6. CASE \E s \in Songs : Previous(s)
  <2>1. (~advancing /\ Goes(toExec)) \/ Stays
    BY <1>6, LaunchGoes DEF Previous, PlayItemNow, Leave, Stays
  <2> QED BY <1>6, <2>1, NotPlaying DEF Previous, Plain, OtherCalls
<1>7. CASE \E c \in Clients, s \in Songs, u \in Users \cup {Console} : Add(c, u, s)
  <2>1. PICK c \in Clients, s \in Songs, u \in Users \cup {Console} : Add(c, u, s)
    BY <1>7
  <2>2. PICK r : r = [op |-> "add", by |-> u, song |-> s]
    OBVIOUS
  <2>3. Begin(c, r) /\ r.op \notin Transport
    BY <2>1, <2>2 DEF Add, Transport
  <2> QED BY <2>1, <2>3, BeginPlain DEF Add, core, Plain, Stays
<1>8. CASE \E c \in Clients, s \in Songs : PlayNow(c, s)
  <2>1. PICK c \in Clients, s \in Songs : PlayNow(c, s)
    BY <1>8
  <2>2. PICK r : r = [op |-> "playNow", by |-> Console, song |-> s]
    OBVIOUS
  <2>3. Begin(c, r) /\ r.op \notin Transport
    BY <2>1, <2>2 DEF PlayNow, Transport
  <2> QED BY <2>1, <2>3, BeginPlain DEF PlayNow, core, Plain, Stays
<1> QED BY <1>0, <1>1, <1>2, <1>3, <1>4, <1>5, <1>6, <1>7, <1>8 DEF UserStep

LEMMA ResolutionPlain ==
  ASSUME IInv, NEW o, o \in {toExec, Append(toExec, StopIt), Send(toExec, StopIt)},
         Catch(o) \/ (Expire /\ adv # NoAdv /\ adv.gen # gen)
  PROVE  Goes(toExec)
<1>1. CASE Catch(o)
  BY <1>1, SettleGoes DEF Catch
<1>2. CASE Expire /\ adv # NoAdv /\ adv.gen # gen
  <2>1. np = NoPlay
    BY <1>2 DEF IInv, Linked
  <2> QED BY <1>2, <2>1, SettleGoes DEF Expire
<1> QED BY <1>1, <1>2

LEMMA MachinePlain ==
  ASSUME IInv, IdleResolved \/ UrlResolved \/ (LyricResolved /\ ~(connected /\ adv.gen = gen)) \/ RetryTimer
               \/ \E c \in Clients : AddResolved(c) \/ PlayNowResolved(c)
  PROVE  Plain
<1>0. adv \in Advances
  BY DEF IInv, CoreTyped
<1>1. CASE IdleResolved
  <2>1. Goes(toExec)
    <3>1. CASE \E q, i : Leave(q, np, i, [adv EXCEPT !.ph = "url", !.item = i], open, toExec)
      BY <1>0, <3>1 DEF Leave, Advances, Goes, Stops
    <3>2. CASE Settle(queue, NoPlay, NoItem, open, Send(toExec, Msg("stop", 0, Nobody)))
      <4>1. PICK o : o = Send(toExec, Msg("stop", 0, Nobody))
        OBVIOUS
      <4>2. o \in {toExec, Append(toExec, StopIt)}
        BY <4>1, SendStop
      <4> QED BY <3>2, <4>1, <4>2, SettleGoes
    <3> QED BY <1>1, <3>1, <3>2 DEF IdleResolved
  <2>2. adv.ph # "play"
    BY <1>1 DEF IdleResolved
  <2> QED BY <1>1, <2>1, <2>2 DEF IdleResolved, Plain, OtherCalls
<1>2. CASE UrlResolved
  <2>1. adv.ph = "url" /\ adv # NoAdv
    BY <1>2 DEF UrlResolved, NoAdv
  <2>2. CASE Catch(toExec) \/ (Expire /\ adv.gen # gen)
    <3>1. Goes(toExec)
      BY <2>1, <2>2, ResolutionPlain
    <3> QED BY <1>2, <2>1, <3>1 DEF UrlResolved, Plain, OtherCalls
  <2>3. CASE Leave(queue, np, pending, [adv EXCEPT !.ph = "lyric"], open, toExec)
    <3>1. Goes(toExec)
      BY <1>0, <2>3 DEF Leave, Advances, Goes, Stops
    <3> QED BY <1>2, <2>1, <3>1 DEF UrlResolved, Plain, OtherCalls
  <2> QED BY <1>2, <2>2, <2>3 DEF UrlResolved
<1>3. CASE LyricResolved /\ ~(connected /\ adv.gen = gen)
  <2>1. adv.ph = "lyric" /\ adv # NoAdv
    BY <1>3 DEF LyricResolved, NoAdv
  <2>2. Catch(toExec) \/ (Expire /\ adv.gen # gen)
    BY <1>3 DEF LyricResolved
  <2>3. Goes(toExec)
    BY <2>1, <2>2, ResolutionPlain
  <2> QED BY <1>3, <2>1, <2>3 DEF LyricResolved, Plain, OtherCalls
<1>4. CASE RetryTimer
  <2>1. (adv = NoAdv /\ Goes(toExec)) \/ Stays
    BY <1>4, EnsureGoes DEF RetryTimer, Stays
  <2> QED BY <1>4, <2>1, NotPlaying DEF RetryTimer, Plain, OtherCalls
<1>5. ASSUME NEW c \in Clients, AddResolved(c) PROVE Plain
  <2>1. (adv = NoAdv /\ Goes(toExec)) \/ Stays
    BY <1>5, EnsureGoes DEF AddResolved, Stays, core
  <2>2. calls[c].op \notin Transport
    BY <1>5 DEF AddResolved, Transport
  <2> QED BY <1>5, <2>1, <2>2, NotPlaying, ReturnPlain DEF AddResolved, Plain
<1>6. ASSUME NEW c \in Clients, PlayNowResolved(c) PROVE Plain
  <2>1. (~advancing /\ Goes(toExec)) \/ Stays
    BY <1>6, LaunchGoes DEF PlayNowResolved, PlayItemNow, Leave, Stays, core
  <2>2. calls[c].op \notin Transport
    BY <1>6 DEF PlayNowResolved, Transport
  <2> QED BY <1>6, <2>1, <2>2, NotPlaying, ReturnPlain DEF PlayNowResolved, Plain
<1> QED BY <1>1, <1>2, <1>3, <1>4, <1>5, <1>6

-----------------------------------------------------------------------------
(* The steps that are not plain: requests and their answers.               *)

LEMMA LyricInStep ==
  ASSUME IInv, InStep, LyricResolved, connected, adv.gen = gen
  PROVE  InStep'
<1>1. adv.ph = "lyric" /\ adv \in Advances /\ adv.item \in Item /\ toExec \in Seq(Requests)
  BY DEF IInv, CoreTyped, Linked, LyricResolved
<1>2. PICK m : m = Msg("play", adv.item.id, "adv")
  OBVIOUS
<1>3. m \in Requests /\ m.op = "play" /\ m.w = "adv" /\ m.src = adv.item.id
  BY <1>1, <1>2 DEF Msg, Requests, Waiters, Item
<1>4. adv' = [adv EXCEPT !.ph = "play"] /\ toExec' = Append(toExec, m)
      /\ UNCHANGED <<calls, fromExec, connected, slot>>
  BY <1>1, <1>2 DEF LyricResolved, Leave
<1>5. PICK b : b = adv'
  OBVIOUS
<1>6. b.ph = "play" /\ b.item = adv.item
  BY <1>1, <1>4, <1>5 DEF Advances
<1>7. Unheard("adv", toExec, fromExec)
  BY <1>1, NoAdvanceAsks DEF InStep
<1>8. Wires(b, calls, toExec, fromExec)
  BY <1>7, WiresAdvance DEF InStep
<1>9. Wires(b, calls, Append(toExec, m), fromExec)
  <2>1. m.w # "rst" /\ m.w \notin Clients
    BY <1>3, Strange
  <2> QED BY <1>1, <1>3, <1>6, <1>7, <1>8, <2>1, WiresAsk
<1>10. Real(np', b, Append(toExec, m), fromExec, slot)
  BY <1>1, <1>3, <1>6, ComingPlay DEF Real
<1> QED BY <1>4, <1>5, <1>9, <1>10 DEF InStep

LEMMA ControlInStep ==
  ASSUME IInv, InStep, NEW c \in Clients, Pause(c) \/ Resume(c)
  PROVE  InStep'
<1>1. toExec \in Seq(Requests) /\ calls \in [Clients -> {NoCall} \cup LookUps \cup Controls]
  BY DEF IInv, CoreTyped, RestTyped, CallsTyped
<1>2. PICK op \in Transport : Control(c, op, Msg(op, 0, c))
  BY DEF Pause, Resume, Transport
<1>3. PICK m : m = Msg(op, 0, c)
  OBVIOUS
<1>4. m \in Requests /\ m.op = op /\ m.w = c
  BY <1>2, <1>3 DEF Msg, Requests, Waiters, Transport
<1>5. /\ toExec' = Append(toExec, m) /\ calls[c] = NoCall
      /\ calls' = [calls EXCEPT ![c] = [op |-> op, obj |-> np.obj, paused |-> np.paused]]
      /\ UNCHANGED <<np, adv, fromExec, slot, connected>>
  BY <1>2, <1>3 DEF Control, Begin
<1>6. PICK k : k = calls'
  OBVIOUS
<1>7. k[c].op = op /\ \A d \in Clients : d # c => k[d] = calls[d]
  BY <1>1, <1>5, <1>6
<1>8. Unheard(c, toExec, fromExec)
  <2>1. calls[c].op \notin Transport
    BY <1>5 DEF NoCall, Transport
  <2> QED BY <2>1, NoCallAsks DEF InStep
<1>9. Wires(adv, k, toExec, fromExec)
  <2>1. \A d \in Clients : k[d] = calls[d] \/ Unheard(d, toExec, fromExec)
    BY <1>7, <1>8
  <2> QED BY <2>1, WiresCalls DEF InStep
<1>10. m.w # "rst" /\ m.w # "adv"
  BY <1>4, Strange
<1>11. Wires(adv, k, Append(toExec, m), fromExec)
  BY <1>1, <1>4, <1>7, <1>8, <1>9, <1>10, WiresAsk
<1>12. connected => Real(np, adv, Append(toExec, m), fromExec, slot)
  BY <1>1, <1>2, <1>4, <1>10, RealAsk DEF InStep
<1> QED BY <1>5, <1>6, <1>11, <1>12 DEF InStep

\* The answer to the request of the advance: the advance ends.
LEMMA AdvanceAnswered ==
  ASSUME IInv, NEW ok, NEW o, Waiting("adv"), Answered("adv", ok, o)
  PROVE  /\ calls' = calls /\ adv.ph = "play"
         /\ Goes(o) \/ (ok /\ np' = np /\ adv' = NoAdv /\ toExec' = o)
<1>1. PlayAnswered(ok, o) /\ calls' = calls /\ adv.ph = "play" /\ adv # NoAdv
  BY Strange DEF Answered, Waiting, NoAdv
<1>2. CASE adv.gen # gen
  <2>1. np = NoPlay
    BY <1>1, <1>2 DEF IInv, Linked
  <2>2. PICK p : p = IF np = NoPlay THEN Send(o, Msg("stop", 0, Nobody)) ELSE o
    OBVIOUS
  <2>3. p \in {o, Append(o, StopIt)}
    BY <2>2, SendStop
  <2>4. Settle(queue, np, pending, open, p)
    BY <1>1, <1>2, <2>2 DEF PlayAnswered
  <2> QED BY <1>1, <2>1, <2>3, <2>4, SettleGoes
<1>3. CASE adv.gen = gen /\ ok
  BY <1>1, <1>3, SettleGoes DEF PlayAnswered
<1>4. CASE adv.gen = gen /\ ~ok
  BY <1>1, <1>4, SettleGoes DEF PlayAnswered, Catch
<1> QED BY <1>1, <1>2, <1>3, <1>4

\* The answer to a pause or to a resumption: it marks the song it was for.
LEMMA ControlAnswered ==
  ASSUME IInv, NoChimes, NEW w \in Clients, NEW ok, NEW o, Waiting(w), Answered(w, ok, o)
  PROVE  /\ calls[w].op \in Transport /\ calls[w].obj \in Nat \ {0}
         /\ adv' = adv /\ toExec' = o /\ calls' = [calls EXCEPT ![w] = NoCall]
         /\ ~ok => np' = np
         /\ ok => \/ calls[w].op = "pause" /\ np' = SetPaused(calls[w].obj, TRUE)
                  \/ calls[w].op = "resume" /\ np' = SetPaused(calls[w].obj, FALSE)
         /\ np' # NoPlay => np # NoPlay /\ np'.item = np.item /\ np'.obj = np.obj
<1>1. CallAnswered(w, ok, o) /\ calls[w].op \in Transport
  <2>1. calls[w].op \notin LookingUp
    BY Strange DEF Waiting, LookingUp
  <2> QED BY <2>1, Strange DEF Answered, NoChimes
<1>2. calls[w] \in Controls /\ calls[w].obj \in Nat \ {0}
  <2>1. calls[w].op \in {"pause", "resume"}
    BY <1>1 DEF Transport
  <2> QED BY <2>1, CallKinds DEF IInv, RestTyped, CallsTyped, Controls
<1>3. adv' = adv /\ toExec' = o /\ calls' = [calls EXCEPT ![w] = NoCall]
  BY <1>1 DEF CallAnswered, Return, Transport
<1>4. /\ ~ok => np' = np
      /\ ok => \/ calls[w].op = "pause" /\ np' = SetPaused(calls[w].obj, TRUE)
               \/ calls[w].op = "resume" /\ np' = SetPaused(calls[w].obj, FALSE)
  BY <1>1 DEF CallAnswered, Transport
<1>5. np' # NoPlay => np # NoPlay /\ np'.item = np.item /\ np'.obj = np.obj
  <2>1. np \in NowPlays
    BY DEF IInv, CoreTyped
  <2>2. ASSUME NEW x \in BOOLEAN, np' = SetPaused(calls[w].obj, x), np' # NoPlay
        PROVE  np # NoPlay /\ np'.item = np.item /\ np'.obj = np.obj
    <3>1. PICK y \in Nat \ {0} : y = calls[w].obj
      BY <1>2
    <3>2. CASE np.obj = y
      <4>1. np # NoPlay
        BY <3>2 DEF NoPlay
      <4>2. np' = [np EXCEPT !.paused = x]
        BY <2>2, <3>1, <3>2 DEF SetPaused
      <4> QED BY <2>1, <4>1, <4>2 DEF NowPlays
    <3>3. CASE np.obj # y
      BY <2>2, <3>1, <3>3 DEF SetPaused
    <3> QED BY <3>2, <3>3
  <2> QED BY <1>4, <2>2
<1> QED BY <1>1, <1>2, <1>3, <1>4, <1>5

\* The answer, or the time-out, of a request that has been taken off the wires.
LEMMA AnsweredInStep ==
  ASSUME IInv, NoChimes, NEW w \in Clients \cup {"adv"}, NEW ok \in BOOLEAN, Waiting(w),
         NEW o \in Seq(Requests), NEW f, Wires(adv, calls, o, f), Unheard(w, o, f),
         w \in Clients /\ connected => Real(np, adv, o, f, slot),
         w = "adv" /\ ok /\ connected /\ np # NoPlay => On(np.item.id, 0, o, f, slot),
         Answered(w, ok, o), UNCHANGED <<slot, connected>>, fromExec' = f
  PROVE  InStep'
<1>1. CASE w = "adv"
  <2>1. calls' = calls /\ adv.ph = "play"
        /\ (Goes(o) \/ (ok /\ np' = np /\ adv' = NoAdv /\ toExec' = o))
    BY <1>1, AdvanceAnswered
  <2>2. PICK b : b = adv'
    OBVIOUS
  <2>3. Wires(b, calls, o, f)
    BY <1>1, WiresAdvance
  <2>4. Wires(b, calls, toExec', f)
    <3>1. Stops(o, toExec')
      BY <2>1 DEF Goes, Stops
    <3> QED BY <2>3, <3>1, WiresStops
  <2>5. ASSUME connected PROVE Real(np', adv', toExec', f, slot)
    <3>1. CASE Goes(o)
      BY <3>1 DEF Goes, Real
    <3>2. CASE ok /\ np' = np /\ adv' = NoAdv /\ toExec' = o
      BY <1>1, <2>5, <3>2 DEF Real, NoAdv
    <3> QED BY <2>1, <3>1, <3>2
  <2> QED BY <2>1, <2>2, <2>4, <2>5 DEF InStep
<1>2. CASE w \in Clients
  <2>1. adv' = adv /\ toExec' = o /\ calls' = [calls EXCEPT ![w] = NoCall]
        /\ (np' # NoPlay => np # NoPlay /\ np'.item = np.item)
    BY <1>2, ControlAnswered
  <2>2. Wires(adv, calls', o, f)
    <3>1. calls \in [Clients -> {NoCall} \cup LookUps \cup Controls]
      BY DEF IInv, RestTyped, CallsTyped
    <3>2. \A d \in Clients : calls'[d] = calls[d] \/ Unheard(d, o, f)
      BY <2>1, <3>1
    <3>3. PICK k : k = calls'
      OBVIOUS
    <3> QED BY <3>2, <3>3, WiresCalls
  <2>3. connected => Real(np', adv, o, f, slot)
    BY <1>2, <2>1 DEF Real
  <2> QED BY <2>1, <2>2, <2>3 DEF InStep
<1> QED BY <1>1, <1>2

LEMMA Awaits ==
  ASSUME NoChimes, NEW o, NEW f, Wires(adv, calls, o, f), NEW j \in DOMAIN f, f[j].op = "reply"
  PROVE  Waiting(f[j].w)
BY DEF Wires, Replies, Waiting, Transport

LEMMA ReplyInStep ==
  ASSUME IInv, InStep, NoChimes, ReplyArrives
  PROVE  InStep'
<1>1. fromExec \in Seq(Messages) /\ fromExec # <<>> /\ toExec \in Seq(Requests)
  BY DEF IInv, CoreTyped, RestTyped, ReplyArrives
<1>2. PICK m : m = Head(fromExec)
  OBVIOUS
<1>3. m.op = "reply" /\ m \in Messages /\ 1 \in DOMAIN fromExec /\ m = fromExec[1]
  BY <1>1, <1>2, RestAt DEF ReplyArrives
<1>4. m.ok \in BOOLEAN
  BY <1>3 DEF Messages
<1>5. PICK f : f = Tail(fromExec)
  OBVIOUS
<1>6. /\ Wires(adv, calls, toExec, f) /\ Unheard(m.w, toExec, f) /\ m.w \in Clients \cup {"adv"}
  BY <1>1, <1>2, <1>3, <1>5, WiresHeard DEF InStep
<1>7. Waiting(m.w)
  BY <1>3, Awaits DEF InStep
<1>8. Answered(m.w, m.ok, toExec) /\ UNCHANGED <<slot, connected>> /\ fromExec' = f
  BY <1>2, <1>5, <1>7 DEF ReplyArrives
<1>9. m.w \in Clients /\ connected => Real(np, adv, toExec, f, slot)
  <2>1. \A i : m # Ended(i)
    BY <1>3 DEF Ended
  <2> QED BY <1>1, <1>2, <1>5, <2>1, Strange, RealHeard DEF InStep
<1>10. ASSUME m.w = "adv", m.ok, connected, np # NoPlay PROVE On(np.item.id, 0, toExec, f, slot)
  <2>1. adv.ph = "play"
    BY <1>3, <1>10 DEF InStep, Wires, Replies
  <2> QED BY <1>1, <1>2, <1>3, <1>5, <1>10, <2>1, OnAnswered DEF InStep
<1> QED BY <1>1, <1>4, <1>6, <1>7, <1>8, <1>9, <1>10, AnsweredInStep

LEMMA TimedOutInStep ==
  ASSUME IInv, InStep, NoChimes, NEW w \in Clients \cup {"adv", "rst"}, TimedOut(w)
  PROVE  InStep'
<1>1. toExec \in Seq(Requests) /\ fromExec \in Seq(Messages)
  BY DEF IInv, CoreTyped, RestTyped
<1>2. w \in Clients \cup {"adv"} /\ w \in Waiters /\ Waiting(w)
  BY Strange DEF TimedOut, Waiting, NoChimes, Waiters
<1>3. \A j \in DOMAIN fromExec : fromExec[j].op = "reply" => fromExec[j].w # w
  <2>1. CASE w \notin Awaited(fromExec)
    BY <2>1 DEF Awaited, ToSet
  <2>2. CASE w \in Awaited(toExec)
    <3>1. PICK i \in DOMAIN toExec : toExec[i].w = w
      BY <2>2 DEF Awaited, ToSet
    <3> QED BY <3>1 DEF InStep, Wires, Once
  <2> QED BY <2>1, <2>2 DEF TimedOut
<1>4. PICK o : o = Forget(toExec, w)
  OBVIOUS
<1>5. o \in Seq(Requests) /\ Wires(adv, calls, o, fromExec) /\ Unheard(w, o, fromExec)
  BY <1>1, <1>2, <1>3, <1>4, ForgetRequests, WiresForget DEF InStep
<1>6. w \in Clients /\ connected => Real(np, adv, o, fromExec, slot)
  BY <1>1, <1>4, RealForget DEF InStep
<1>7. PICK ok \in BOOLEAN : ok = FALSE
  OBVIOUS
<1>8. Answered(w, FALSE, o) /\ UNCHANGED <<slot, connected>> /\ fromExec' = fromExec
  BY <1>4 DEF TimedOut
<1> QED BY <1>2, <1>5, <1>6, <1>8, AnsweredInStep

LEMMA EndedInStep ==
  ASSUME IInv, InStep, NoChimes, EndedArrives
  PROVE  InStep'
<1>1. fromExec \in Seq(Messages) /\ fromExec # <<>> /\ toExec \in Seq(Requests) /\ np \in NowPlays
  BY DEF IInv, CoreTyped, RestTyped, EndedArrives
<1>2. PICK m : m = Head(fromExec)
  OBVIOUS
<1>3. m.op = "ended"
  BY <1>2 DEF EndedArrives
<1>4. PICK f : f = Tail(fromExec)
  OBVIOUS
<1>5. Wires(adv, calls, toExec, f)
  BY <1>1, <1>4, WiresHeard DEF InStep
<1>6. UNCHANGED <<calls, slot, connected>> /\ fromExec' = f
  BY <1>4 DEF EndedArrives
<1>7. ASSUME UNCHANGED core, adv.ph = "none" => m.src = Chime PROVE InStep'
  <2>1. UNCHANGED <<np, adv, toExec>>
    BY <1>7 DEF core
  <2>2. adv.ph = "none" => m # Ended(np.item.id)
    <3>1. np.item.id \in Nat
      BY <1>1, ItemFacts
    <3> QED BY <1>7, <3>1 DEF Ended, Chime
  <2>3. connected => Real(np, adv, toExec, f, slot)
    BY <1>1, <1>2, <1>3, <1>4, <2>2, RealHeard DEF InStep
  <2> QED BY <1>5, <1>6, <2>1, <2>3 DEF InStep
<1>8. CASE m.src = Chime
  <2>1. UNCHANGED core
    BY <1>2, <1>8 DEF EndedArrives, NoChimes
  <2> QED BY <1>7, <1>8, <2>1
<1>9. CASE m.src # Chime /\ advancing
  <2>1. UNCHANGED core /\ adv.ph # "none"
    BY <1>2, <1>9 DEF EndedArrives, advancing
  <2> QED BY <1>7, <2>1
<1>10. CASE m.src # Chime /\ ~advancing
  <2>1. Goes(toExec)
    <3>1. Launch(gen, queue, np, pending, open, toExec)
      BY <1>2, <1>10 DEF EndedArrives
    <3> QED BY <3>1, LaunchGoes
  <2>2. adv.ph # "play"
    BY <1>10 DEF advancing
  <2>3. PICK b : b = adv'
    OBVIOUS
  <2>4. Wires(b, calls, toExec', f)
    <3>1. Unheard("adv", toExec, f)
      BY <1>5, <2>2, NoAdvanceAsks
    <3>2. Wires(b, calls, toExec, f)
      BY <1>5, <3>1, WiresAdvance
    <3>3. Stops(toExec, toExec')
      BY <2>1 DEF Goes
    <3> QED BY <1>1, <3>2, <3>3, WiresStops
  <2>5. Real(np', adv', toExec', f, slot)
    BY <2>1 DEF Goes, Real
  <2> QED BY <1>6, <2>3, <2>4, <2>5 DEF InStep
<1> QED BY <1>8, <1>9, <1>10

-----------------------------------------------------------------------------
(* The steps of the executor and of the link.                              *)

\* What the executor says in reply.
LEMMA Replying ==
  ASSUME NEW f \in Seq(Messages), NEW w \in Waiters, NEW ok \in BOOLEAN
  PROVE  /\ w = Nobody => f \o Reply(w, ok) = f
         /\ w # Nobody => \E m \in Messages : /\ m.op = "reply" /\ m.w = w /\ m.ok = ok
                                              /\ f \o Reply(w, ok) = Append(f, m)
<1>1. ASSUME w = Nobody PROVE f \o Reply(w, ok) = f
  BY <1>1, ConcatEmptySeq DEF Reply
<1>2. ASSUME w # Nobody
      PROVE  \E m \in Messages : /\ m.op = "reply" /\ m.w = w /\ m.ok = ok
                                 /\ f \o Reply(w, ok) = Append(f, m)
  <2>1. PICK m : m = [op |-> "reply", src |-> 0, w |-> w, ok |-> ok]
    OBVIOUS
  <2>2. m \in Messages /\ m.op = "reply" /\ m.w = w /\ m.ok = ok
    BY <2>1 DEF Messages
  <2>3. f \o Reply(w, ok) = f \o <<m>>
    BY <1>2, <2>1 DEF Reply
  <2>4. f \o <<m>> = Append(f, m)
    BY <2>2, AppendIsConcat
  <2> QED BY <2>2, <2>3, <2>4
<1> QED BY <1>1, <1>2

\* It answers whoever has asked, and nobody else.
LEMMA TakenWires ==
  ASSUME IInv, InStep, toExec # <<>>, NEW ok \in BOOLEAN
  PROVE  /\ Wires(adv, calls, Tail(toExec), fromExec \o Reply(Head(toExec).w, ok))
         /\ Grows(fromExec, fromExec \o Reply(Head(toExec).w, ok))
         /\ Head(toExec).w # "adv" => NoAnswer(fromExec, fromExec \o Reply(Head(toExec).w, ok))
<1>1. toExec \in Seq(Requests) /\ fromExec \in Seq(Messages)
  BY DEF IInv, CoreTyped, RestTyped
<1>2. PICK w : w = Head(toExec).w
  OBVIOUS
<1>3. PICK o : o = Tail(toExec)
  OBVIOUS
<1>4. PICK f : f = fromExec \o Reply(w, ok)
  OBVIOUS
<1>5. w \in Waiters /\ Wires(adv, calls, o, fromExec) /\ (w # Nobody => Unheard(w, o, fromExec))
  BY <1>1, <1>2, <1>3, WiresTaken DEF InStep
<1>6. CASE w = Nobody
  <2>1. f = fromExec
    BY <1>1, <1>4, <1>5, <1>6, Replying
  <2> QED BY <1>2, <1>3, <1>4, <1>5, <2>1 DEF Grows, NoAnswer
<1>7. CASE w # Nobody
  <2>1. PICK m \in Messages : m.op = "reply" /\ m.w = w /\ f = Append(fromExec, m)
    BY <1>1, <1>4, <1>5, <1>7, Replying
  <2>2. 1 \in DOMAIN toExec /\ toExec[1].w = w
    BY <1>1, <1>2, RestAt
  <2>3. w # "rst" /\ (w = "adv" => adv.ph = "play") /\ (w \in Clients => calls[w].op \in Transport)
    BY <2>2 DEF InStep, Wires, Sent
  <2>4. w \in Clients \cup {"adv"}
    BY <1>5, <1>7, <2>3 DEF Waiters
  <2>5. Wires(adv, calls, o, f)
    BY <1>1, <1>5, <1>7, <2>1, <2>3, <2>4, WiresSays
  <2>6. /\ \A j \in DOMAIN fromExec : j \in DOMAIN f /\ f[j] = fromExec[j]
        /\ \A j \in DOMAIN f : j \in DOMAIN fromExec \/ f[j] = m
    BY <1>1, <2>1, AppendAt
  <2> QED BY <1>2, <1>3, <1>4, <2>1, <2>5, <2>6 DEF Grows, NoAnswer
<1> QED BY <1>6, <1>7

LEMMA ExecInStep ==
  ASSUME IInv, InStep, Foreseen, ExecStep
  PROVE  InStep'
<1>1. /\ toExec \in Seq(Requests) /\ fromExec \in Seq(Messages) /\ toExec # <<>> /\ slot \in Slots
      /\ "undecodable" \notin Faults
  BY DEF IInv, CoreTyped, RestTyped, ExecStep, Foreseen
<1>2. PICK m : m = Head(toExec)
  OBVIOUS
<1>3. m \in Requests /\ 1 \in DOMAIN toExec /\ toExec[1] = m
  BY <1>1, <1>2, RestAt
<1>4. PICK o : o = Tail(toExec)
  OBVIOUS
<1>5. UNCHANGED <<np, adv, calls, connected>> /\ toExec' = o
  BY <1>4 DEF ExecStep
<1>6. \A ok \in BOOLEAN : LET f == fromExec \o Reply(m.w, ok)
                          IN Wires(adv, calls, o, f) /\ Grows(fromExec, f) /\ (m.w # "adv" => NoAnswer(fromExec, f))
  BY <1>1, <1>2, <1>4, TakenWires
<1>7. m.w = "adv" => m.op = "play"
  BY <1>3 DEF InStep, Wires, Sent
<1>8. ASSUME m.op = "play", NEW ok \in BOOLEAN, fromExec' = fromExec \o Reply(m.w, ok),
             ok => slot' = [src |-> m.src, st |-> "playing"]
      PROVE  InStep'
  <2>1. PICK f : f = fromExec \o Reply(m.w, ok)
    OBVIOUS
  <2>2. Wires(adv, calls, o, f)
    BY <1>6, <2>1
  <2>3. ASSUME connected, m.w # "adv" PROVE Real(np, adv, o, f, slot')
    <3>1. Grows(fromExec, f) /\ NoAnswer(fromExec, f)
      BY <1>6, <2>1, <2>3
    <3>2. Real(np, adv, toExec, fromExec, slot) /\ Decides(m)
      BY <1>8, <2>3 DEF InStep, Decides
    <3>3. PICK t : t = slot'
      OBVIOUS
    <3> QED BY <1>1, <1>2, <1>4, <2>3, <3>1, <3>2, <3>3, RealDecided
  <2>4. ASSUME connected, m.w = "adv" PROVE Real(np, adv, o, f, slot')
    <3>1. PICK r \in Messages : r.op = "reply" /\ r.w = m.w /\ r.ok = ok /\ f = Append(fromExec, r)
      <4>1. m.w \in Waiters /\ m.w # Nobody
        BY <2>4, Strange DEF Waiters
      <4> QED BY <1>1, <2>1, <4>1, Replying
    <3>2. PICK t : t = slot'
      OBVIOUS
    <3>3. r.ok => t.src = m.src /\ t.st = "playing"
      BY <1>8, <3>1, <3>2
    <3>4. np # NoPlay => np.item = adv.item
      <4>1. adv.ph = "play"
        BY <1>3, <2>4 DEF InStep, Wires, Sent
      <4>2. adv # NoAdv
        BY <4>1 DEF NoAdv
      <4> QED BY <4>1, <4>2 DEF IInv, Linked
    <3>5. Real(np, adv, toExec, fromExec, slot) /\ Wires(adv, calls, toExec, fromExec)
      BY <2>4 DEF InStep
    <3>6. Real(np, adv, o, Append(fromExec, r), t)
      BY <1>1, <1>2, <1>4, <2>4, <3>1, <3>3, <3>4, <3>5, RealPlayed
    <3> QED BY <3>1, <3>2, <3>6
  <2> QED BY <1>5, <1>8, <2>1, <2>2, <2>3, <2>4 DEF InStep
<1>9. CASE m.op = "play" /\ ExecPlay(m)
  <2>1. \/ slot' = [src |-> m.src, st |-> "playing"] /\ fromExec' = fromExec \o Reply(m.w, TRUE)
        \/ slot' = NoSlot /\ fromExec' = fromExec \o Reply(m.w, FALSE)
    BY <1>1, <1>9 DEF ExecPlay
  <2> QED BY <1>8, <1>9, <2>1
<1>10. CASE m.op \in Transport /\ ExecControl(m)
  <2> DEFINE b == IF m.op = "pause" THEN slot.st \in {"playing", "paused", "hung"}
                                    ELSE slot.st # "off"
  <2>1. b \in BOOLEAN
    <3>1. (slot.st \in {"playing", "paused", "hung"}) \in BOOLEAN
      OBVIOUS
    <3>2. (slot.st # "off") \in BOOLEAN
      OBVIOUS
    <3> QED BY <3>1, <3>2, Zenon
  <2>2. fromExec' = fromExec \o Reply(m.w, b)
    BY <1>10 DEF ExecControl
  <2>3. PICK ok \in BOOLEAN : fromExec' = fromExec \o Reply(m.w, ok)
    BY <2>1, <2>2
  <2>4. PICK f : f = fromExec \o Reply(m.w, ok)
    OBVIOUS
  <2>5. m.w # "adv"
    BY <1>7, <1>10 DEF Transport
  <2>6. Wires(adv, calls, o, f) /\ Grows(fromExec, f) /\ NoAnswer(fromExec, f)
    BY <1>6, <2>4, <2>5
  <2>7. PICK t : t = slot'
    OBVIOUS
  <2>8. t.src = slot.src /\ (slot.st \in {"playing", "paused"} => t.st \in {"playing", "paused"})
    BY <1>1, <1>10, <2>7 DEF ExecControl, Slots, Transport
  <2>9. connected => Real(np, adv, o, f, t)
    BY <1>1, <1>2, <1>4, <2>5, <2>6, <2>8, RealControlled DEF InStep
  <2> QED BY <1>5, <2>3, <2>4, <2>6, <2>7, <2>9 DEF InStep
<1>11. CASE m.op = "stop" /\ UNCHANGED fromExec
  <2>1. m.w # "adv" /\ Decides(m)
    BY <1>7, <1>11 DEF Decides
  <2>2. m.w = Nobody
    <3>1. m.w \notin Clients /\ m.w # "rst"
      BY <1>3, <1>11 DEF InStep, Wires, Sent, Transport
    <3> QED BY <1>3, <2>1, <3>1 DEF Requests, Waiters
  <2>3. Wires(adv, calls, o, fromExec)
    BY <1>1, <1>4, WiresTaken DEF InStep
  <2>4. PICK t : t = slot'
    OBVIOUS
  <2>5. connected => Real(np, adv, o, fromExec, t)
    <3>1. Grows(fromExec, fromExec) /\ NoAnswer(fromExec, fromExec)
      BY DEF Grows, NoAnswer
    <3> QED BY <1>1, <1>2, <1>4, <2>1, <3>1, RealDecided DEF InStep
  <2> QED BY <1>5, <1>11, <2>3, <2>4, <2>5 DEF InStep
<1> QED BY <1>2, <1>9, <1>10, <1>11 DEF ExecStep, Transport

LEMMA EndsInStep ==
  ASSUME IInv, InStep, SourceEnds
  PROVE  InStep'
<1>1. fromExec \in Seq(Messages) /\ slot \in Slots
  BY DEF IInv, RestTyped
<1>2. UNCHANGED <<np, adv, toExec, calls, connected>> /\ slot' = [slot EXCEPT !.st = "drained"]
  BY DEF SourceEnds, core
<1>3. CASE ~connected
  <2>1. fromExec' = fromExec
    BY <1>3 DEF SourceEnds
  <2> QED BY <1>2, <1>3, <2>1 DEF InStep
<1>4. CASE connected
  <2>1. PICK m : m = Ended(slot.src)
    OBVIOUS
  <2>2. m \in Messages /\ m.op = "ended"
    BY <1>1, <2>1 DEF Ended, Messages, Slots, Waiters
  <2>3. fromExec' = Append(fromExec, m)
    BY <1>4, <2>1 DEF SourceEnds
  <2>4. Wires(adv, calls, toExec, Append(fromExec, m))
    BY <1>1, <2>2, WiresSays DEF InStep
  <2>5. PICK t : t = slot'
    OBVIOUS
  <2>6. t.src = slot.src
    BY <1>1, <1>2, <2>5 DEF Slots
  <2>7. Real(np, adv, toExec, Append(fromExec, m), t)
    BY <1>1, <1>4, <2>1, <2>2, <2>6, RealEnds DEF InStep
  <2> QED BY <1>2, <2>3, <2>4, <2>5, <2>7 DEF InStep
<1> QED BY <1>3, <1>4

\* A wire on which nobody is waited for.
LEMMA WiresSilent ==
  ASSUME NEW a, NEW k, NEW o, Unawaited(o)
  PROVE  Wires(a, k, o, <<>>) /\ Unheard("adv", o, <<>>)
BY Strange DEF Unawaited, Wires, Sent, Replies, Once, Unheard

LEMMA DisconnectInStep ==
  ASSUME IInv, InStep, Offline, Disconnect
  PROVE  InStep'
<1>1. ~connected' /\ fromExec' = <<>>
  BY DEF Disconnect
<1>2. Offline'
  <2>1. Next
    BY DEF Next
  <2> QED BY <2>1, OfflineKept
<1>3. Unawaited(toExec')
  BY <1>1, <1>2 DEF Offline, Unawaited
<1>4. PICK a, k, o : a = adv' /\ k = calls' /\ o = toExec'
  OBVIOUS
<1>5. Wires(a, k, o, <<>>)
  BY <1>3, <1>4, WiresSilent
<1> QED BY <1>1, <1>4, <1>5 DEF InStep

LEMMA ReconnectInStep ==
  ASSUME IInv, WireInv, Reconnect
  PROVE  InStep'
<1>1. ~connected /\ ~LinkHolds /\ fromExec = <<>> /\ Unawaited(toExec) /\ toExec \in Seq(Requests)
  BY DEF WireInv, Offline, Reconnect, IInv, CoreTyped
<1>2. UNCHANGED <<calls, fromExec, slot>>
  BY DEF Reconnect
<1>3. CASE running /\ ~advancing /\ np # NoPlay
  <2>1. Goes(toExec) \/ (np' = NoPlay /\ toExec' = toExec)
    <3>1. PICK q, r : EnsurePlaying(running, gen, q, NoPlay, NoItem, adv, r, toExec)
      BY <1>3 DEF Reconnect
    <3>2. (adv = NoAdv /\ Goes(toExec)) \/ (np' = NoPlay /\ adv' = adv /\ toExec' = toExec)
      <4>1. CASE adv = NoAdv
        <5>1. Launch(gen, q, NoPlay, NoItem, r, toExec)
          BY <1>3, <3>1, <4>1 DEF EnsurePlaying
        <5> QED BY <4>1, <5>1, LaunchGoes
      <4>2. CASE adv # NoAdv
        BY <3>1, <4>2 DEF EnsurePlaying, Leave
      <4> QED BY <4>1, <4>2
    <3> QED BY <3>2
  <2>2. Stops(toExec, toExec')
    BY <2>1 DEF Goes, Stops
  <2>3. PICK b : b = adv'
    OBVIOUS
  <2>4. Wires(b, calls, toExec', fromExec)
    <3>1. Wires(b, calls, toExec, fromExec)
      BY <1>1, WiresSilent
    <3> QED BY <1>1, <2>2, <3>1, WiresStops
  <2>5. Real(np', b, toExec', fromExec, slot)
    BY <2>1, <2>3 DEF Goes, Real
  <2> QED BY <1>2, <2>3, <2>4, <2>5 DEF InStep
<1>4. CASE ~(running /\ ~advancing /\ np # NoPlay)
  <2>1. UNCHANGED <<np, adv, toExec>>
    BY <1>4 DEF Reconnect, core
  <2>2. adv.ph = "none" => np = NoPlay
    BY <1>1, <1>4 DEF WireInv, Asleep, advancing
  <2>3. Unheard("adv", toExec, fromExec)
    BY <1>1, WiresSilent
  <2>4. Real(np, adv, toExec, fromExec, slot)
    BY <2>2, <2>3 DEF Real
  <2> QED BY <1>2, <2>1, <2>4 DEF WireInv, InStep
<1> QED BY <1>3, <1>4

-----------------------------------------------------------------------------
(* The rest of the invariant.                                              *)

LEMMA BeginOps ==
  ASSUME IInv, NEW c \in Clients, NEW r, Begin(c, r), NEW S,
         \A d \in Clients : calls[d].op \in S, r.op \in S
  PROVE  \A d \in Clients : calls'[d].op \in S
<1>1. calls \in [Clients -> {NoCall} \cup LookUps \cup Controls]
  BY DEF IInv, RestTyped, CallsTyped
<1>2. calls'[c] = r /\ \A d \in Clients : d # c => calls'[d] = calls[d]
  BY <1>1 DEF Begin
<1> QED BY <1>2

LEMMA ReturnOps ==
  ASSUME IInv, NEW c \in Clients, Return(c), NEW S,
         \A d \in Clients : calls[d].op \in S, "none" \in S
  PROVE  \A d \in Clients : calls'[d].op \in S
<1>1. calls \in [Clients -> {NoCall} \cup LookUps \cup Controls]
  BY DEF IInv, RestTyped, CallsTyped
<1>2. calls'[c] = NoCall /\ \A d \in Clients : d # c => calls'[d] = calls[d]
  BY <1>1 DEF Return
<1> QED BY <1>2 DEF NoCall

OpsKnown == \A c \in Clients : calls[c].op \in LookingUp \cup Transport

LEMMA NoChimesKept ==
  ASSUME IInv, InStep, NoChimes, Foreseen, Next
  PROVE  NoChimes'
<1>0. restore = NoRestore /\ rst = NoRestore /\ OpsKnown /\ ("seek" \notin Ops) /\ ("chime" \notin Ops)
  BY DEF NoChimes, Foreseen, OpsKnown
<1> SUFFICES restore' = NoRestore /\ rst' = NoRestore /\ OpsKnown'
  BY DEF NoChimes, OpsKnown
<1>1. CASE UNCHANGED <<restore, rst, calls>>
  BY <1>0, <1>1 DEF OpsKnown
<1>2. ASSUME NEW c \in Clients, NEW r, Begin(c, r), r.op \in LookingUp \cup Transport
      PROVE  OpsKnown'
  BY <1>0, <1>2, BeginOps DEF OpsKnown
<1>3. ASSUME NEW c \in Clients, Return(c) PROVE OpsKnown'
  <2>1. "none" \in LookingUp \cup Transport
    BY DEF LookingUp
  <2> QED BY <1>0, <1>3, <2>1, ReturnOps DEF OpsKnown
<1>4. CASE UserStep
  <2>1. CASE Start \/ Stop \/ Restart \/ Skip \/ RemoveItem \/ ToTop \/ ClearQueue \/ \E s \in Songs : Previous(s)
    <3>1. rst' = NoRestore /\ restore' = NoRestore /\ calls' = calls
      BY <1>0, <2>1 DEF Start, Stop, Restart, Skip, RemoveItem, ToTop, ClearQueue, SetQueue, Previous
    <3> QED BY <1>0, <3>1 DEF OpsKnown
  <2>2. ASSUME NEW c \in Clients, NEW s, NEW u, Add(c, u, s)
        PROVE  restore' = NoRestore /\ rst' = NoRestore /\ OpsKnown'
    <3>1. PICK r : r = [op |-> "add", by |-> u, song |-> s]
      OBVIOUS
    <3>2. Begin(c, r) /\ r.op \in LookingUp
      BY <2>2, <3>1 DEF Add, LookingUp
    <3> QED BY <1>0, <1>2, <2>2, <3>2 DEF Add
  <2>3. ASSUME NEW c \in Clients, NEW s, PlayNow(c, s)
        PROVE  restore' = NoRestore /\ rst' = NoRestore /\ OpsKnown'
    <3>1. PICK r : r = [op |-> "playNow", by |-> Console, song |-> s]
      OBVIOUS
    <3>2. Begin(c, r) /\ r.op \in LookingUp
      BY <2>3, <3>1 DEF PlayNow, LookingUp
    <3> QED BY <1>0, <1>2, <2>3, <3>2 DEF PlayNow
  <2>4. ASSUME NEW c \in Clients, Pause(c) \/ Resume(c)
        PROVE  restore' = NoRestore /\ rst' = NoRestore /\ OpsKnown'
    <3>1. PICK op \in Transport : Control(c, op, Msg(op, 0, c))
      BY <2>4 DEF Pause, Resume, Transport
    <3>2. PICK r : r = [op |-> op, obj |-> np.obj, paused |-> np.paused]
      OBVIOUS
    <3>3. Begin(c, r) /\ r.op \in Transport
      BY <3>1, <3>2 DEF Control
    <3> QED BY <1>0, <1>2, <3>1, <3>3 DEF Control
  <2> QED BY <1>0, <1>4, <2>1, <2>2, <2>3, <2>4 DEF UserStep
<1>5. CASE MachineStep
  <2>1. CASE IdleResolved \/ UrlResolved \/ LyricResolved \/ RetryTimer
    BY <1>1, <2>1 DEF IdleResolved, UrlResolved, LyricResolved, RetryTimer
  <2>2. ASSUME NEW c \in Clients, AddResolved(c) \/ PlayNowResolved(c)
        PROVE  restore' = NoRestore /\ rst' = NoRestore /\ OpsKnown'
    <3>1. Return(c) /\ UNCHANGED <<restore, rst>>
      BY <2>2 DEF AddResolved, PlayNowResolved
    <3> QED BY <1>0, <1>3, <3>1
  <2>3. ASSUME NEW w, NEW ok, NEW o, Waiting(w), Answered(w, ok, o)
        PROVE  restore' = NoRestore /\ rst' = NoRestore /\ OpsKnown'
    <3>1. w # "rst"
      BY <1>0, <2>3, Strange DEF Waiting
    <3>2. CASE w = "adv"
      BY <1>0, <1>1, <2>3, <3>2, Strange DEF Answered
    <3>3. CASE w \in Clients
      <4>1. CallAnswered(w, ok, o) /\ calls[w].op # "chime"
        BY <1>0, <2>3, <3>3, Strange DEF Answered, OpsKnown, LookingUp, Transport
      <4>2. Return(w) /\ UNCHANGED <<restore, rst>>
        BY <4>1 DEF CallAnswered
      <4> QED BY <1>0, <1>3, <3>3, <4>2
    <3> QED BY <2>3, <3>1, <3>2, <3>3 DEF Waiting
  <2>4. CASE ReplyArrives
    BY <1>1, <2>3, <2>4 DEF ReplyArrives
  <2>5. CASE EndedArrives \/ ChimeTimeout
    <3>1. UNCHANGED <<restore, rst, calls>>
      BY <1>0, <2>5 DEF EndedArrives, ChimeTimeout
    <3> QED BY <1>1, <3>1
  <2>6. CASE \E w \in Clients \cup {"adv", "rst"} : TimedOut(w)
    BY <2>3, <2>6 DEF TimedOut
  <2> QED BY <1>5, <2>1, <2>2, <2>4, <2>5, <2>6 DEF MachineStep
<1>6. CASE ExecutorStep \/ Disconnect
  BY <1>1, <1>6 DEF ExecutorStep, ExecStep, SourceEnds, Reconnect, Disconnect
<1> QED BY <1>4, <1>5, <1>6 DEF Next

\* The link stays up unless one of its faults may happen.
LEMMA LinkKept ==
  ASSUME LinkHolds => connected, Next
  PROVE  LinkHolds => connected'
<1>1. CASE Disconnect
  BY <1>1 DEF Disconnect, LinkHolds
<1>2. CASE UserStep
  <2>1. connected' = connected
    BY <1>2 DEF UserStep, Start, Stop, Restart, Skip, RemoveItem, ToTop, ClearQueue, SetQueue,
                Previous, Add, PlayNow, Pause, Resume, Seek, Control, TestChime
  <2> QED BY <2>1
<1>3. CASE MachineStep
  BY <1>3 DEF MachineStep, IdleResolved, UrlResolved, LyricResolved, RetryTimer, AddResolved,
              PlayNowResolved, ReplyArrives, EndedArrives, ChimeTimeout, TimedOut
<1>4. CASE ExecutorStep
  BY <1>4 DEF ExecutorStep, ExecStep, SourceEnds, Reconnect
<1> QED BY <1>1, <1>2, <1>3, <1>4 DEF Next

LEMMA AsleepKept ==
  ASSUME IInv, WireInv, Foreseen, Next
  PROVE  Asleep'
<1> SUFFICES ASSUME ~LinkHolds, ~running'
             PROVE  /\ np' = NoPlay /\ adv' = NoAdv /\ slot' = NoSlot /\ toExec' = <<>> /\ fromExec' = <<>>
                    /\ \A c \in Clients : calls'[c].op \in {"none", "add"}
  BY DEF Asleep, LinkHolds
<1>1. ("stop" \notin Ops) /\ ("restart" \notin Ops) /\ ("seek" \notin Ops) /\ ("chime" \notin Ops)
  BY DEF Foreseen
<1>2. running' = running \/ Start
  <2>1. CASE UserStep
    BY <1>1, <2>1 DEF UserStep, Skip, RemoveItem, ToTop, ClearQueue, SetQueue,
              Previous, Add, PlayNow, Pause, Resume, Control
  <2>2. CASE MachineStep
    BY <2>2 DEF MachineStep, IdleResolved, UrlResolved, LyricResolved, RetryTimer, AddResolved,
              PlayNowResolved, ReplyArrives, EndedArrives, ChimeTimeout, TimedOut
  <2>3. CASE ExecutorStep \/ Disconnect
    BY <2>3 DEF ExecutorStep, ExecStep, SourceEnds, Reconnect, Disconnect
  <2> QED BY <2>1, <2>2, <2>3 DEF Next
<1>3. ~running /\ ~Start
  <2>1. ~Start
    BY DEF Start
  <2> QED BY <1>2, <2>1
<1>4. /\ np = NoPlay /\ adv = NoAdv /\ slot = NoSlot /\ toExec = <<>> /\ fromExec = <<>>
      /\ \A c \in Clients : calls[c].op \in {"none", "add"}
  BY <1>3 DEF WireInv, Asleep
<1>5. NoAdv.ph = "none" /\ NoSlot.st = "off" /\ restore = NoRestore /\ rst = NoRestore
  BY DEF NoAdv, NoSlot, WireInv, NoChimes
<1>6. CASE UserStep
  <2>1. CASE RemoveItem \/ ToTop \/ ClearQueue
    BY <1>4, <2>1 DEF RemoveItem, ToTop, ClearQueue, SetQueue
  <2>2. ASSUME NEW c \in Clients, NEW s, NEW u, Add(c, u, s)
        PROVE  /\ UNCHANGED <<np, adv, slot, toExec, fromExec>>
               /\ \A d \in Clients : calls'[d].op \in {"none", "add"}
    <3>1. PICK r : r = [op |-> "add", by |-> u, song |-> s]
      OBVIOUS
    <3>2. Begin(c, r) /\ r.op \in {"none", "add"}
      BY <2>2, <3>1 DEF Add
    <3>3. \A d \in Clients : calls'[d].op \in {"none", "add"}
      BY <1>4, <3>2, BeginOps
    <3> QED BY <2>2, <3>3 DEF Add, core
  <2> QED BY <1>1, <1>3, <1>4, <1>6, <2>1, <2>2
          DEF UserStep, Skip, Previous, PlayNow, Pause, Resume, Control
<1>7. CASE MachineStep
  <2>1. ASSUME NEW q, EnsurePlaying(running, gen, q, np, pending, adv, open, toExec)
        PROVE  UNCHANGED <<np, adv, toExec>>
    BY <1>3, <2>1 DEF EnsurePlaying, Leave
  <2>2. CASE RetryTimer
    BY <1>4, <2>1, <2>2 DEF RetryTimer
  <2>3. ASSUME NEW c \in Clients, AddResolved(c)
        PROVE  /\ UNCHANGED <<np, adv, slot, toExec, fromExec>>
               /\ \A d \in Clients : calls'[d].op \in {"none", "add"}
    <3>1. \A d \in Clients : calls'[d].op \in {"none", "add"}
      <4>1. Return(c) /\ "none" \in {"none", "add"}
        BY <2>3 DEF AddResolved
      <4> QED BY <1>4, <4>1, ReturnOps
    <3>2. UNCHANGED <<np, adv, toExec>>
      BY <2>1, <2>3 DEF AddResolved, core
    <3> QED BY <2>3, <3>1, <3>2 DEF AddResolved
  <2>4. \A w : ~Waiting(w)
    BY <1>4, <1>5 DEF Waiting
  <2> QED BY <1>4, <1>5, <1>7, <2>2, <2>3, <2>4
          DEF MachineStep, IdleResolved, UrlResolved, LyricResolved, PlayNowResolved, ReplyArrives,
              EndedArrives, ChimeTimeout, TimedOut
<1>8. CASE ExecutorStep
  BY <1>3, <1>4, <1>5, <1>8 DEF ExecutorStep, ExecStep, SourceEnds, Reconnect, core
<1>9. CASE Disconnect
  <2>1. toExec' = <<>>
    <3>1. ASSUME NEW k \in 0..Len(toExec), toExec' = [j \in 1..k |-> [toExec[j] EXCEPT !.w = Nobody]]
          PROVE  toExec' = <<>>
      <4>1. k = 0
        BY <1>4
      <4>2. 1..k = {}
        BY <4>1
      <4> QED BY <3>1, <4>2
    <3> QED BY <1>9, <3>1 DEF Disconnect
  <2> QED BY <1>4, <1>9, <2>1 DEF Disconnect
<1> QED BY <1>6, <1>7, <1>8, <1>9 DEF Next

-----------------------------------------------------------------------------
(* What the machine calls playing plays.                                   *)

LEMMA InitWires == ASSUME Init PROVE WireInv
<1>1. Wires(adv, calls, toExec, fromExec)
  BY DEF Init, Wires, Sent, Replies, Once
<1>2. Real(np, adv, toExec, fromExec, slot)
  BY DEF Init, Real
<1>3. NoChimes
  BY DEF Init, NoChimes, NoCall, LookingUp
<1>4. Offline /\ Asleep
  BY DEF Init, Offline, Unawaited, Asleep, NoCall
<1>5. LinkHolds => connected
  BY DEF Init, LinkHolds
<1> QED BY <1>1, <1>2, <1>3, <1>4, <1>5 DEF WireInv, InStep

LEMMA StepWires == ASSUME IInv, WireInv, Foreseen, [Next]_vars PROVE WireInv'
<1>0. InStep /\ NoChimes
  BY DEF WireInv
<1>1. CASE Next
  <2>1. InStep'
    <3>1. CASE UserStep
      <4>1. connected' = connected
        BY <3>1 DEF UserStep, Start, Stop, Restart, Skip, RemoveItem, ToTop, ClearQueue, SetQueue,
                    Previous, Add, PlayNow, Pause, Resume, Seek, Control, TestChime
      <4> QED BY <1>0, <3>1, <4>1, UserPlain, PlainKeeps, ControlInStep
    <3>2. CASE IdleResolved \/ UrlResolved \/ (LyricResolved /\ ~(connected /\ adv.gen = gen)) \/ RetryTimer
               \/ \E c \in Clients : AddResolved(c) \/ PlayNowResolved(c)
      <4>1. connected' = connected
        BY <3>2 DEF IdleResolved, UrlResolved, LyricResolved, RetryTimer, AddResolved, PlayNowResolved
      <4> QED BY <1>0, <3>2, <4>1, MachinePlain, PlainKeeps
    <3>3. CASE ReplyArrives \/ EndedArrives \/ \E w \in Clients \cup {"adv", "rst"} : TimedOut(w)
      BY <1>0, <3>3, ReplyInStep, EndedInStep, TimedOutInStep
    <3>4. ~ChimeTimeout
      BY <1>0 DEF ChimeTimeout, NoChimes
    <3>5. CASE ExecutorStep \/ Disconnect
      BY <1>0, <3>5, ExecInStep, EndsInStep, ReconnectInStep, DisconnectInStep DEF ExecutorStep, WireInv
    <3> QED BY <1>0, <1>1, <3>1, <3>2, <3>3, <3>4, <3>5, LyricInStep DEF Next, MachineStep
  <2> QED BY <1>0, <1>1, <2>1, NoChimesKept, OfflineKept, AsleepKept, LinkKept DEF WireInv
<1>2. CASE UNCHANGED vars
  <2>1. UNCHANGED <<np, adv, toExec, fromExec, slot, calls, restore, rst, connected, running>>
    BY <1>2 DEF vars
  <2>2. InStep'
    BY <1>0, <2>1 DEF InStep
  <2>3. NoChimes' /\ Asleep' /\ (LinkHolds => connected')
    BY <2>1 DEF WireInv, NoChimes, Asleep
  <2>4. Offline'
    BY <1>2, OfflineKept DEF WireInv
  <2> QED BY <2>2, <2>3, <2>4 DEF WireInv, LinkHolds
<1> QED BY <1>1, <1>2

\* The inductive invariant holds in every reachable state.
THEOREM WireInvariance == Foreseen => (Spec => []WireInv)
<1> SUFFICES ASSUME Foreseen PROVE Spec => []WireInv
  OBVIOUS
<1>1. Init => WireInv
  BY InitWires
<1>2. IInv /\ WireInv /\ [Next]_vars => WireInv'
  BY StepWires
<1> QED BY <1>1, <1>2, Invariance, PTL DEF Spec

\* Once every message has been handled, the song the machine of
\* music/jukebox.ts calls now playing is on in the executor, or paused there,
\* whatever fails, times out or is lost; a seek that fails, a chime or a
\* source that cannot be decoded does break this, and a stop() together with
\* a link that is lost.
THEOREM WhatPlaysIsOn == Foreseen => (Spec => []NoGhost)
<1> SUFFICES ASSUME Foreseen PROVE Spec => []NoGhost
  OBVIOUS
<1>1. WireInv => NoGhost
  <2> SUFFICES ASSUME WireInv, Quiet, np # NoPlay
               PROVE  slot.src = np.item.id /\ slot.st \in {"playing", "paused"}
    BY DEF NoGhost
  <2>1. Real(np, adv, toExec, fromExec, slot) /\ adv.ph = "none" /\ fromExec = <<>>
    BY DEF WireInv, InStep, Quiet, advancing
  <2>2. On(np.item.id, 0, toExec, fromExec, slot)
    BY <2>1 DEF Real
  <2>3. DOMAIN fromExec = {}
    BY <2>1
  <2> QED BY <2>2, <2>3 DEF On
<1> QED BY <1>1, WireInvariance, PTL

\* Whatever fails, a machine that nobody stops keeps its history and its queue
\* right, does not stall, and what it calls now playing plays.
THEOREM FaultsCorrect == Foreseen /\ NeverStopped => (Spec => []FaultsSafe)
BY ControlsCorrect, NoStallUnlessStopped, WhatPlaysIsOn, PTL DEF FaultsSafe

-----------------------------------------------------------------------------
(* The inductive invariant: whether the song that is on (n) is paused.     *)

\* The message tells the machine to mark the song that is on.
Says(n, k, m) == m.op = "reply" /\ m.w \in Clients /\ m.ok /\ k[m.w].obj = n.obj

\* The request is one for the song that is on.
Mine(n, k, m) == m.w \in Clients /\ k[m.w].obj = n.obj

\* When all that is on its way has been heard, the machine knows whether the
\* slot is paused: by the mark, if nothing tells it otherwise, or by the last
\* message that does.
Match(n, k, f, s) ==
  s.st \in {"playing", "paused"} =>
    /\ (\A j \in DOMAIN f : ~Says(n, k, f[j])) => (n.paused <=> s.st = "paused")
    /\ \A j \in DOMAIN f :
         Says(n, k, f[j]) /\ (\A l \in DOMAIN f : l > j => ~Says(n, k, f[l]))
           => (k[f[j].w].op = "pause" <=> s.st = "paused")

\* The executor plays the song that is on, and what it will be asked is for it.
Right(n, k, o, f, s) == Match(n, k, f, s) /\ \A j \in DOMAIN o : Mine(n, k, o[j])

\* The executor has not come to it yet: what comes before is for other songs.
Ahead(n, k, o, f) ==
  \A j \in DOMAIN o :
    o[j].w = "adv" =>
      /\ \A l \in DOMAIN o : (l > j => Mine(n, k, o[l])) /\ (l < j => ~Mine(n, k, o[l]))
      /\ ~n.paused /\ \A l \in DOMAIN f : ~Says(n, k, f[l])

Started(f) == \E j \in DOMAIN f : f[j].op = "reply" /\ f[j].w = "adv" /\ f[j].ok

Pauses(n, a, k, o, f, s) ==
  n # NoPlay =>
    /\ a.ph = "none" => Right(n, k, o, f, s)
    /\ a.ph = "play" => Ahead(n, k, o, f) /\ (Started(f) => Right(n, k, o, f, s))

\* The songs that are on are numbered.
Issued ==
  /\ np.obj <= plays
  /\ \A c \in Clients : calls[c].op \in Transport => calls[c].obj <= plays

-----------------------------------------------------------------------------
(* What the steps do to it.                                                *)

LEMMA NoPlayIsOver ==
  ASSUME NEW n, NEW a, NEW k, NEW o, NEW f, NEW s, n = NoPlay \/ a.ph \in {"idle", "url", "lyric"}
  PROVE  Pauses(n, a, k, o, f, s)
BY DEF Pauses

LEMMA SaysCalls ==
  ASSUME NEW n, NEW a, NEW k, NEW h, NEW o, NEW f,
         \A c \in Clients : h[c] = k[c] \/ Unheard(c, o, f)
  PROVE  /\ \A j \in DOMAIN f : Says(n, h, f[j]) <=> Says(n, k, f[j])
         /\ \A j \in DOMAIN f : Says(n, h, f[j]) => h[f[j].w].op = k[f[j].w].op
         /\ \A j \in DOMAIN o : Mine(n, h, o[j]) <=> Mine(n, k, o[j])
<1>1. \A j \in DOMAIN f : f[j].op = "reply" /\ f[j].w \in Clients => h[f[j].w] = k[f[j].w]
  BY DEF Unheard
<1>2. \A j \in DOMAIN o : o[j].w \in Clients => h[o[j].w] = k[o[j].w]
  BY DEF Unheard
<1> QED BY <1>1, <1>2 DEF Says, Mine

LEMMA PausesCalls ==
  ASSUME NEW n, NEW a, NEW k, NEW h, NEW o, NEW f, NEW s, Pauses(n, a, k, o, f, s),
         \A c \in Clients : h[c] = k[c] \/ Unheard(c, o, f)
  PROVE  Pauses(n, a, h, o, f, s)
<1>1. /\ \A j \in DOMAIN f : Says(n, h, f[j]) <=> Says(n, k, f[j])
      /\ \A j \in DOMAIN f : Says(n, h, f[j]) => h[f[j].w].op = k[f[j].w].op
      /\ \A j \in DOMAIN o : Mine(n, h, o[j]) <=> Mine(n, k, o[j])
  BY SaysCalls
<1>2. Match(n, k, f, s) => Match(n, h, f, s)
  BY <1>1 DEF Match
<1>3. Right(n, k, o, f, s) => Right(n, h, o, f, s)
  BY <1>1, <1>2 DEF Right
<1>4. Ahead(n, k, o, f) => Ahead(n, h, o, f)
  BY <1>1 DEF Ahead
<1> QED BY <1>3, <1>4 DEF Pauses

\* A client asks for a pause or for a resumption of the song that is on.
LEMMA PausesAsk ==
  ASSUME NEW n, NEW a, NEW k, NEW o \in Seq(Requests), NEW f, NEW s, NEW m \in Requests,
         Pauses(n, a, k, o, f, s), Mine(n, k, m)
  PROVE  Pauses(n, a, k, Append(o, m), f, s)
<1>1. PICK p : p = Append(o, m)
  OBVIOUS
<1>2. PICK e \in Nat : e = Len(o) + 1
  BY LenProperties
<1>3. /\ \A j \in DOMAIN o : j \in DOMAIN p /\ j < e /\ p[j] = o[j]
      /\ p[e] = m /\ \A j \in DOMAIN p : j = e \/ j \in DOMAIN o
      /\ DOMAIN o \subseteq Nat
  BY <1>1, <1>2, AppendAt
<1>4. m.w # "adv"
  BY Strange DEF Mine
<1>5. Right(n, k, o, f, s) => Right(n, k, p, f, s)
  BY <1>3 DEF Right
<1>6. ASSUME Ahead(n, k, o, f) PROVE Ahead(n, k, p, f)
  <2> SUFFICES ASSUME NEW j \in DOMAIN p, p[j].w = "adv"
               PROVE  /\ \A l \in DOMAIN p : (l > j => Mine(n, k, p[l])) /\ (l < j => ~Mine(n, k, p[l]))
                      /\ ~n.paused /\ \A l \in DOMAIN f : ~Says(n, k, f[l])
    BY DEF Ahead
  <2>1. j \in DOMAIN o /\ o[j].w = "adv" /\ ~(e < j)
    BY <1>2, <1>3, <1>4
  <2>2. /\ \A l \in DOMAIN o : (l > j => Mine(n, k, o[l])) /\ (l < j => ~Mine(n, k, o[l]))
        /\ ~n.paused /\ \A l \in DOMAIN f : ~Says(n, k, f[l])
    BY <1>6, <2>1 DEF Ahead
  <2> QED BY <1>3, <2>1, <2>2
<1> QED BY <1>1, <1>5, <1>6 DEF Pauses

\* A new song is asked for.
LEMMA PausesPlay ==
  ASSUME NEW n, NEW a, NEW k, NEW o \in Seq(Requests), NEW f, NEW s, NEW m \in Requests,
         a.ph = "play", ~n.paused, m.w = "adv", Unheard("adv", o, f),
         \A j \in DOMAIN o : ~Mine(n, k, o[j]), \A j \in DOMAIN f : ~Says(n, k, f[j])
  PROVE  Pauses(n, a, k, Append(o, m), f, s)
<1>1. PICK p : p = Append(o, m)
  OBVIOUS
<1>2. PICK e \in Nat : e = Len(o) + 1
  BY LenProperties
<1>3. /\ \A j \in DOMAIN o : j \in DOMAIN p /\ j < e /\ p[j] = o[j]
      /\ p[e] = m /\ \A j \in DOMAIN p : j = e \/ j \in DOMAIN o
      /\ DOMAIN o \subseteq Nat
  BY <1>1, <1>2, AppendAt
<1>4. ~Started(f)
  BY DEF Started, Unheard
<1>5. ASSUME NEW j \in DOMAIN p, p[j].w = "adv" PROVE j = e
  BY <1>3, <1>5 DEF Unheard
<1>6. \A l \in DOMAIN p : ~(l > e) /\ (l < e => ~Mine(n, k, p[l]))
  BY <1>2, <1>3
<1>7. Ahead(n, k, p, f)
  BY <1>5, <1>6 DEF Ahead
<1> QED BY <1>1, <1>4, <1>7 DEF Pauses

\* A message that marks nothing is taken off the wire.
LEMMA MatchSilent ==
  ASSUME NEW n, NEW k, NEW f \in Seq(Messages), f # <<>>, NEW s, Match(n, k, f, s), ~Says(n, k, Head(f))
  PROVE  Match(n, k, Tail(f), s)
<1>1. PICK g : g = Tail(f)
  OBVIOUS
<1>2. /\ Head(f) = f[1] /\ DOMAIN f \subseteq Nat \ {0} /\ DOMAIN g \subseteq Nat \ {0}
      /\ \A j \in DOMAIN f : j # 1 => j - 1 \in DOMAIN g /\ g[j - 1] = f[j]
      /\ \A j \in DOMAIN g : j + 1 \in DOMAIN f /\ g[j] = f[j + 1]
  BY <1>1, RestAt
<1> SUFFICES ASSUME s.st \in {"playing", "paused"} PROVE Match(n, k, g, s)
  BY <1>1 DEF Match
<1>3. ASSUME \A j \in DOMAIN g : ~Says(n, k, g[j]) PROVE n.paused <=> s.st = "paused"
  <2>1. \A j \in DOMAIN f : ~Says(n, k, f[j])
    BY <1>2, <1>3
  <2> QED BY <2>1 DEF Match
<1>4. ASSUME NEW j \in DOMAIN g, Says(n, k, g[j]), \A l \in DOMAIN g : l > j => ~Says(n, k, g[l])
      PROVE  k[g[j].w].op = "pause" <=> s.st = "paused"
  <2>1. PICK i : i = j + 1
    OBVIOUS
  <2>2. i \in DOMAIN f /\ g[j] = f[i]
    BY <1>2, <2>1
  <2>3. ASSUME NEW l \in DOMAIN f, l > i PROVE ~Says(n, k, f[l])
    <3>1. PICK h : h = l - 1
      OBVIOUS
    <3>2. l \in Nat /\ j \in Nat /\ l # 1 /\ h > j
      BY <1>2, <2>1, <2>3, <3>1
    <3>3. h \in DOMAIN g /\ g[h] = f[l]
      BY <1>2, <3>1, <3>2
    <3> QED BY <1>4, <3>2, <3>3
  <2> QED BY <1>4, <2>2, <2>3 DEF Match
<1> QED BY <1>3, <1>4 DEF Match

LEMMA PausesSilent ==
  ASSUME NEW n, NEW a, NEW k, NEW o, NEW f \in Seq(Messages), f # <<>>, NEW s, Pauses(n, a, k, o, f, s),
         ~Says(n, k, Head(f))
  PROVE  Pauses(n, a, k, o, Tail(f), s)
<1>1. PICK g : g = Tail(f)
  OBVIOUS
<1>2. \A j \in DOMAIN g : j + 1 \in DOMAIN f /\ g[j] = f[j + 1]
  BY <1>1, RestAt
<1>3. Right(n, k, o, f, s) => Right(n, k, o, g, s)
  BY <1>1, MatchSilent DEF Right
<1>4. Ahead(n, k, o, f) => Ahead(n, k, o, g)
  BY <1>2 DEF Ahead
<1>5. Started(g) => Started(f)
  BY <1>2 DEF Started
<1> QED BY <1>1, <1>3, <1>4, <1>5 DEF Pauses

\* The machine hears that the song that is on has been paused or resumed.
LEMMA PausesMarked ==
  ASSUME NEW n, NEW t, NEW a, NEW k, NEW o, NEW f \in Seq(Messages), f # <<>>, NEW s, Pauses(n, a, k, o, f, s),
         Says(n, k, Head(f)), n # NoPlay, t.obj = n.obj, t.paused <=> k[Head(f).w].op = "pause"
  PROVE  Pauses(t, a, k, o, Tail(f), s)
<1>1. PICK g : g = Tail(f)
  OBVIOUS
<1>2. /\ 1 \in DOMAIN f /\ Head(f) = f[1] /\ DOMAIN f \subseteq Nat \ {0} /\ DOMAIN g \subseteq Nat \ {0}
      /\ \A j \in DOMAIN f : j # 1 => j - 1 \in DOMAIN g /\ g[j - 1] = f[j]
      /\ \A j \in DOMAIN g : j + 1 \in DOMAIN f /\ g[j] = f[j + 1]
  BY <1>1, RestAt
<1>3. \A m : (Says(t, k, m) <=> Says(n, k, m)) /\ (Mine(t, k, m) <=> Mine(n, k, m))
  BY DEF Says, Mine
<1>4. ASSUME Match(n, k, f, s), s.st \in {"playing", "paused"} PROVE Match(t, k, g, s)
  <2>1. ASSUME \A j \in DOMAIN g : ~Says(t, k, g[j]) PROVE t.paused <=> s.st = "paused"
    <3>1. \A j \in DOMAIN f : j > 1 => ~Says(n, k, f[j])
      <4>1. ASSUME NEW j \in DOMAIN f, j > 1 PROVE ~Says(n, k, f[j])
        <5>1. PICK h : h = j - 1
          OBVIOUS
        <5>2. h \in DOMAIN g /\ g[h] = f[j]
          <6>1. j # 1
            BY <4>1
          <6> QED BY <1>2, <5>1, <6>1
        <5> QED BY <1>3, <2>1, <5>2
      <4> QED BY <4>1
    <3>2. k[f[1].w].op = "pause" <=> s.st = "paused"
      BY <1>2, <1>4, <3>1 DEF Match
    <3> QED BY <1>2, <3>2
  <2>2. ASSUME NEW j \in DOMAIN g, Says(t, k, g[j]), \A l \in DOMAIN g : l > j => ~Says(t, k, g[l])
        PROVE  k[g[j].w].op = "pause" <=> s.st = "paused"
    <3>1. PICK i : i = j + 1
      OBVIOUS
    <3>2. i \in DOMAIN f /\ g[j] = f[i]
      BY <1>2, <3>1
    <3>3. ASSUME NEW l \in DOMAIN f, l > i PROVE ~Says(n, k, f[l])
      <4>1. PICK h : h = l - 1
        OBVIOUS
      <4>2. l \in Nat /\ j \in Nat /\ l # 1 /\ h > j
        BY <1>2, <3>1, <3>3, <4>1
      <4>3. h \in DOMAIN g /\ g[h] = f[l]
        BY <1>2, <4>1, <4>2
      <4> QED BY <1>3, <2>2, <4>2, <4>3
    <3> QED BY <1>3, <1>4, <2>2, <3>2, <3>3 DEF Match
  <2> QED BY <2>1, <2>2 DEF Match
<1>5. Match(n, k, f, s) => Match(t, k, g, s)
  BY <1>4 DEF Match
<1>6. Right(n, k, o, f, s) => Right(t, k, o, g, s)
  BY <1>3, <1>5 DEF Right
<1>7. ASSUME Ahead(n, k, o, f) PROVE Ahead(t, k, o, g)
  BY <1>2, <1>7 DEF Ahead
<1>8. Started(g) => Started(f)
  BY <1>2 DEF Started
<1> QED BY <1>1, <1>6, <1>7, <1>8 DEF Pauses

\* The executor takes a request: it is for another song, or it is answered.
LEMMA AheadTaken ==
  ASSUME NEW n, NEW k, NEW o \in Seq(Requests), o # <<>>, NEW f, NEW g, Ahead(n, k, o, f), Head(o).w # "adv",
         \A j \in DOMAIN g : (j \in DOMAIN f /\ g[j] = f[j]) \/ (Says(n, k, g[j]) => Mine(n, k, Head(o)))
  PROVE  Ahead(n, k, Tail(o), g)
<1>1. PICK p : p = Tail(o)
  OBVIOUS
<1>2. /\ 1 \in DOMAIN o /\ Head(o) = o[1] /\ DOMAIN o \subseteq Nat \ {0} /\ DOMAIN p \subseteq Nat \ {0}
      /\ \A j \in DOMAIN p : j + 1 \in DOMAIN o /\ p[j] = o[j + 1]
  BY <1>1, RestAt
<1> SUFFICES ASSUME NEW j \in DOMAIN p, p[j].w = "adv"
             PROVE  /\ \A l \in DOMAIN p : (l > j => Mine(n, k, p[l])) /\ (l < j => ~Mine(n, k, p[l]))
                    /\ ~n.paused /\ \A l \in DOMAIN g : ~Says(n, k, g[l])
  BY <1>1 DEF Ahead
<1>3. PICK i : i = j + 1
  OBVIOUS
<1>4. i \in DOMAIN o /\ o[i].w = "adv" /\ j \in Nat \ {0}
  BY <1>2, <1>3
<1>5. /\ \A l \in DOMAIN o : (l > i => Mine(n, k, o[l])) /\ (l < i => ~Mine(n, k, o[l]))
      /\ ~n.paused /\ \A l \in DOMAIN f : ~Says(n, k, f[l])
  BY <1>4 DEF Ahead
<1>6. ASSUME NEW l \in DOMAIN p PROVE (l > j => Mine(n, k, p[l])) /\ (l < j => ~Mine(n, k, p[l]))
  <2>1. PICK h : h = l + 1
    OBVIOUS
  <2>2. h \in DOMAIN o /\ p[l] = o[h] /\ l \in Nat
    BY <1>2, <2>1
  <2>3. (l > j => h > i) /\ (l < j => h < i)
    BY <1>3, <1>4, <2>1, <2>2
  <2> QED BY <1>5, <2>2, <2>3
<1>7. ~Mine(n, k, Head(o))
  <2>1. 1 < i
    BY <1>3, <1>4
  <2> QED BY <1>2, <1>5, <2>1
<1> QED BY <1>5, <1>6, <1>7

\* The request is for nobody who still waits, or it decides what plays: then
\* no song is on that the executor knows of.
LEMMA PausesOther ==
  ASSUME NEW n, NEW a, NEW k, NEW o \in Seq(Requests), o # <<>>, NEW f, NEW s, NEW t, Pauses(n, a, k, o, f, s),
         Head(o).w # "adv", ~Mine(n, k, Head(o))
  PROVE  Pauses(n, a, k, Tail(o), f, t)
<1>1. 1 \in DOMAIN o /\ Head(o) = o[1]
  BY RestAt
<1>2. ~Right(n, k, o, f, s)
  BY <1>1 DEF Right
<1>3. Ahead(n, k, o, f) => Ahead(n, k, Tail(o), f)
  BY AheadTaken
<1> QED BY <1>2, <1>3 DEF Pauses

\* The executor pauses or resumes, and answers.
LEMMA PausesControlled ==
  ASSUME NEW n, NEW a, NEW k, NEW o \in Seq(Requests), o # <<>>, NEW f \in Seq(Messages), NEW s, NEW t,
         NEW m \in Messages, Pauses(n, a, k, o, f, s),
         Head(o).w \in Clients, Head(o).w = m.w, m.op = "reply",
         t.st \in {"playing", "paused"} =>
           /\ s.st \in {"playing", "paused"} /\ m.ok
           /\ k[m.w].op = "pause" <=> t.st = "paused"
  PROVE  Pauses(n, a, k, Tail(o), Append(f, m), t)
<1>1. PICK p, g : p = Tail(o) /\ g = Append(f, m)
  OBVIOUS
<1>2. /\ 1 \in DOMAIN o /\ Head(o) = o[1]
      /\ \A j \in DOMAIN p : j + 1 \in DOMAIN o /\ p[j] = o[j + 1]
  BY <1>1, RestAt
<1>3. PICK e \in Nat : e = Len(f) + 1
  BY LenProperties
<1>4. /\ \A j \in DOMAIN f : j \in DOMAIN g /\ j < e /\ g[j] = f[j]
      /\ e \in DOMAIN g /\ g[e] = m /\ \A j \in DOMAIN g : j = e \/ (j \in DOMAIN f /\ g[j] = f[j])
  BY <1>1, <1>3, AppendAt
<1>5. Head(o).w # "adv" /\ m.w # "adv"
  BY Strange
<1>6. Says(n, k, m) <=> m.ok /\ Mine(n, k, Head(o))
  BY DEF Says, Mine
<1>7. ASSUME Right(n, k, o, f, s) PROVE Right(n, k, p, g, t)
  <2>1. Mine(n, k, Head(o)) /\ \A j \in DOMAIN p : Mine(n, k, p[j])
    BY <1>2, <1>7 DEF Right
  <2>2. ASSUME t.st \in {"playing", "paused"} PROVE Match(n, k, g, t)
    <3>1. Says(n, k, g[e])
      BY <1>4, <1>6, <2>1, <2>2
    <3>2. ASSUME NEW j \in DOMAIN g, \A l \in DOMAIN g : l > j => ~Says(n, k, g[l]) PROVE j = e
      BY <1>4, <3>1, <3>2
    <3>3. k[g[e].w].op = "pause" <=> t.st = "paused"
      BY <1>4, <2>2
    <3> QED BY <1>4, <3>1, <3>2, <3>3 DEF Match
  <2>3. Match(n, k, g, t)
    BY <2>2 DEF Match
  <2> QED BY <2>1, <2>3 DEF Right
<1>8. Ahead(n, k, o, f) => Ahead(n, k, p, g)
  <2>1. \A j \in DOMAIN g : (j \in DOMAIN f /\ g[j] = f[j]) \/ (Says(n, k, g[j]) => Mine(n, k, Head(o)))
    BY <1>4, <1>6
  <2> QED BY <1>1, <1>5, <2>1, AheadTaken
<1>9. Started(g) => Started(f)
  BY <1>4, <1>5 DEF Started
<1> QED BY <1>1, <1>7, <1>8, <1>9 DEF Pauses

\* The executor plays the song that is on, or cannot.
LEMMA PausesPlayed ==
  ASSUME NEW n, NEW a, NEW k, NEW o \in Seq(Requests), o # <<>>, NEW f \in Seq(Messages), NEW s, NEW t,
         NEW m \in Messages, Wires(a, k, o, f), Pauses(n, a, k, o, f, s), Head(o).w = "adv",
         m.op = "reply", m.w = "adv", m.ok => t.st = "playing"
  PROVE  Pauses(n, a, k, Tail(o), Append(f, m), t)
<1>1. PICK p, g : p = Tail(o) /\ g = Append(f, m)
  OBVIOUS
<1>2. /\ 1 \in DOMAIN o /\ Head(o) = o[1] /\ DOMAIN p \subseteq Nat \ {0}
      /\ \A j \in DOMAIN p : j + 1 \in DOMAIN o /\ j + 1 # 1 /\ p[j] = o[j + 1]
  BY <1>1, RestAt
<1>3. PICK e \in Nat : e = Len(f) + 1
  BY LenProperties
<1>4. /\ \A j \in DOMAIN f : j \in DOMAIN g /\ g[j] = f[j]
      /\ e \in DOMAIN g /\ g[e] = m /\ \A j \in DOMAIN g : j = e \/ (j \in DOMAIN f /\ g[j] = f[j])
  BY <1>1, <1>3, AppendAt
<1>5. a.ph = "play" /\ (\A j \in DOMAIN p : p[j].w # "adv") /\ ~Started(f)
  BY <1>2, Strange DEF Wires, Sent, Once, Started
<1>6. ~Says(n, k, m)
  BY Strange DEF Says
<1>7. Ahead(n, k, p, g)
  BY <1>5 DEF Ahead
<1>8. ASSUME Started(g), n # NoPlay PROVE Right(n, k, p, g, t)
  <2>1. m.ok
    BY <1>4, <1>5, <1>8 DEF Started
  <2>2. /\ \A l \in DOMAIN o : l > 1 => Mine(n, k, o[l])
        /\ ~n.paused /\ \A l \in DOMAIN f : ~Says(n, k, f[l])
    BY <1>2, <1>5, <1>8 DEF Pauses, Ahead
  <2>3. \A j \in DOMAIN p : Mine(n, k, p[j])
    <3>1. ASSUME NEW j \in DOMAIN p PROVE Mine(n, k, p[j])
      <4>1. j + 1 > 1
        BY <1>2
      <4> QED BY <1>2, <2>2, <4>1
    <3> QED BY <3>1
  <2>4. \A l \in DOMAIN g : ~Says(n, k, g[l])
    BY <1>4, <1>6, <2>2
  <2>5. t.st = "playing" /\ t.st # "paused"
    BY <2>1
  <2>6. Match(n, k, g, t)
    BY <2>2, <2>4, <2>5 DEF Match
  <2> QED BY <2>3, <2>6 DEF Right
<1> QED BY <1>1, <1>5, <1>7, <1>8 DEF Pauses

\* A source comes to its end.
LEMMA PausesEnds ==
  ASSUME NEW n, NEW a, NEW k, NEW o, NEW f \in Seq(Messages), NEW s, NEW t, NEW m \in Messages,
         Pauses(n, a, k, o, f, s), m.op = "ended", t.st = "drained"
  PROVE  Pauses(n, a, k, o, Append(f, m), t)
<1>1. PICK g : g = Append(f, m)
  OBVIOUS
<1>2. \A j \in DOMAIN g : g[j] = m \/ (j \in DOMAIN f /\ g[j] = f[j])
  BY <1>1, AppendAt
<1>3. ~Says(n, k, m)
  BY DEF Says
<1>4. Right(n, k, o, f, s) => Right(n, k, o, g, t)
  BY DEF Right, Match
<1>5. Ahead(n, k, o, f) => Ahead(n, k, o, g)
  BY <1>2, <1>3 DEF Ahead
<1>6. Started(g) => Started(f)
  BY <1>2 DEF Started
<1> QED BY <1>1, <1>4, <1>5, <1>6 DEF Pauses

-----------------------------------------------------------------------------
(* The steps.                                                              *)

Paused == connected => Pauses(np, adv, calls, toExec, fromExec, slot)

\* An advance() sets out, or there is silence.
LEMMA OverPauses ==
  ASSUME np' = NoPlay \/ adv'.ph \in {"idle", "url", "lyric"}
  PROVE  Paused'
BY DEF Paused, Pauses

LEMMA PlainPauses ==
  ASSUME InStep, Paused, Plain, connected' = connected
  PROVE  Paused'
<1>1. CASE Stays
  <2>1. UNCHANGED <<np, adv, toExec, fromExec, slot>>
    BY <1>1 DEF Stays, Plain
  <2>2. PICK k : k = calls'
    OBVIOUS
  <2>3. \A c \in Clients : k[c] = calls[c] \/ Unheard(c, toExec, fromExec)
    BY <2>2, NoCallAsks DEF Plain, OtherCalls, InStep
  <2>4. connected => Pauses(np, adv, k, toExec, fromExec, slot)
    BY <2>3, PausesCalls DEF Paused
  <2> QED BY <2>1, <2>2, <2>4 DEF Paused
<1>2. CASE ~Stays
  BY <1>2, OverPauses DEF Plain, Hushes, Goes
<1> QED BY <1>1, <1>2

LEMMA LyricPauses ==
  ASSUME IInv, InStep, Issued, LyricResolved, connected, adv.gen = gen
  PROVE  Paused'
<1>1. /\ adv.ph = "lyric" /\ adv \in Advances /\ adv.item \in Item /\ toExec \in Seq(Requests)
      /\ plays \in Nat
  BY DEF IInv, CoreTyped, RestTyped, Linked, LyricResolved
<1>2. PICK m : m = Msg("play", adv.item.id, "adv")
  OBVIOUS
<1>3. m \in Requests /\ m.w = "adv"
  BY <1>1, <1>2 DEF Msg, Requests, Waiters, Item
<1>4. adv' = [adv EXCEPT !.ph = "play"] /\ toExec' = Append(toExec, m)
      /\ np' = [obj |-> plays + 1, item |-> adv.item, paused |-> FALSE]
      /\ UNCHANGED <<calls, fromExec, slot>>
  BY <1>1, <1>2 DEF LyricResolved, Leave
<1>5. PICK b, n : b = adv' /\ n = np'
  OBVIOUS
<1>6. b.ph = "play" /\ ~n.paused /\ n.obj = plays + 1
  BY <1>1, <1>4, <1>5 DEF Advances
<1>7. Unheard("adv", toExec, fromExec)
  BY <1>1, NoAdvanceAsks DEF InStep
<1>8. ASSUME NEW c \in Clients, calls[c].op \in Transport PROVE calls[c].obj # n.obj
  <2>1. calls[c].obj \in Nat
    BY <1>8, CallKinds DEF IInv, Transport, Controls
  <2>2. calls[c].obj <= plays
    BY <1>8 DEF Issued
  <2> QED BY <1>1, <1>6, <2>1, <2>2
<1>9. \A j \in DOMAIN toExec : ~Mine(n, calls, toExec[j])
  BY <1>8 DEF InStep, Wires, Sent, Mine
<1>10. \A j \in DOMAIN fromExec : ~Says(n, calls, fromExec[j])
  BY <1>8 DEF InStep, Wires, Replies, Says
<1>11. Pauses(n, b, calls, Append(toExec, m), fromExec, slot)
  BY <1>1, <1>3, <1>6, <1>7, <1>9, <1>10, PausesPlay
<1> QED BY <1>4, <1>5, <1>11 DEF Paused

LEMMA ControlPauses ==
  ASSUME IInv, InStep, Paused, NEW c \in Clients, Pause(c) \/ Resume(c)
  PROVE  Paused'
<1>1. toExec \in Seq(Requests) /\ calls \in [Clients -> {NoCall} \cup LookUps \cup Controls]
  BY DEF IInv, CoreTyped, RestTyped, CallsTyped
<1>2. PICK op \in Transport : Control(c, op, Msg(op, 0, c))
  BY DEF Pause, Resume, Transport
<1>3. PICK m : m = Msg(op, 0, c)
  OBVIOUS
<1>4. m \in Requests /\ m.w = c
  BY <1>2, <1>3 DEF Msg, Requests, Waiters, Transport
<1>5. /\ toExec' = Append(toExec, m) /\ calls[c] = NoCall /\ connected
      /\ calls' = [calls EXCEPT ![c] = [op |-> op, obj |-> np.obj, paused |-> np.paused]]
      /\ UNCHANGED <<np, adv, fromExec, slot, connected>>
  BY <1>2, <1>3 DEF Control, Begin
<1>6. PICK k : k = calls'
  OBVIOUS
<1>7. k[c].obj = np.obj /\ \A d \in Clients : d # c => k[d] = calls[d]
  BY <1>1, <1>5, <1>6
<1>8. Unheard(c, toExec, fromExec)
  <2>1. calls[c].op \notin Transport
    BY <1>5 DEF NoCall, Transport
  <2> QED BY <2>1, NoCallAsks DEF InStep
<1>9. Pauses(np, adv, k, toExec, fromExec, slot)
  <2>1. \A d \in Clients : k[d] = calls[d] \/ Unheard(d, toExec, fromExec)
    BY <1>7, <1>8
  <2> QED BY <1>5, <2>1, PausesCalls DEF Paused
<1>10. Mine(np, k, m)
  BY <1>4, <1>7 DEF Mine
<1>11. Pauses(np, adv, k, Append(toExec, m), fromExec, slot)
  BY <1>1, <1>4, <1>9, <1>10, PausesAsk
<1> QED BY <1>5, <1>6, <1>11 DEF Paused

\* The answer to the advance: its song is on, or there is none.
LEMMA AdvancePauses ==
  ASSUME IInv, NEW ok, NEW o, NEW f, Answered("adv", ok, o), Waiting("adv"),
         ok /\ connected /\ np # NoPlay => Right(np, calls, o, f, slot),
         UNCHANGED <<slot, connected>>, fromExec' = f
  PROVE  Paused'
<1>1. calls' = calls /\ (Goes(o) \/ (ok /\ np' = np /\ adv' = NoAdv /\ toExec' = o))
  BY AdvanceAnswered
<1>2. CASE Goes(o)
  BY <1>2, OverPauses DEF Goes
<1>3. CASE ok /\ np' = np /\ adv' = NoAdv /\ toExec' = o
  BY <1>1, <1>3 DEF Paused, Pauses, NoAdv
<1> QED BY <1>1, <1>2, <1>3

LEMMA ReplyPauses ==
  ASSUME IInv, InStep, NoChimes, Paused, ReplyArrives
  PROVE  Paused'
<1>1. /\ fromExec \in Seq(Messages) /\ fromExec # <<>> /\ toExec \in Seq(Requests) /\ np \in NowPlays
      /\ calls \in [Clients -> {NoCall} \cup LookUps \cup Controls]
  BY DEF IInv, CoreTyped, RestTyped, CallsTyped, ReplyArrives
<1>2. PICK m : m = Head(fromExec)
  OBVIOUS
<1>3. m.op = "reply" /\ m \in Messages /\ 1 \in DOMAIN fromExec /\ m = fromExec[1]
  BY <1>1, <1>2, RestAt DEF ReplyArrives
<1>4. PICK f : f = Tail(fromExec)
  OBVIOUS
<1>5. Unheard(m.w, toExec, f) /\ m.w \in Clients \cup {"adv"}
  BY <1>1, <1>2, <1>3, <1>4, WiresHeard DEF InStep
<1>6. Waiting(m.w)
  BY <1>3, Awaits DEF InStep
<1>7. Answered(m.w, m.ok, toExec) /\ UNCHANGED <<slot, connected>> /\ fromExec' = f
  BY <1>2, <1>4, <1>6 DEF ReplyArrives
<1>8. CASE m.w = "adv"
  <2>1. ASSUME m.ok, connected, np # NoPlay PROVE Right(np, calls, toExec, f, slot)
    <3>1. adv.ph = "play" /\ Started(fromExec)
      BY <1>3, <1>8, <2>1 DEF InStep, Wires, Replies, Started
    <3>2. Right(np, calls, toExec, fromExec, slot)
      BY <2>1, <3>1 DEF Paused, Pauses
    <3>3. ~Says(np, calls, m)
      BY <1>8, Strange DEF Says
    <3> QED BY <1>1, <1>2, <1>4, <3>2, <3>3, MatchSilent DEF Right
  <2> QED BY <1>6, <1>7, <1>8, <2>1, AdvancePauses
<1>9. CASE m.w \in Clients
  <2>1. /\ calls[m.w].op \in Transport /\ calls[m.w].obj \in Nat \ {0}
        /\ adv' = adv /\ toExec' = toExec /\ calls' = [calls EXCEPT ![m.w] = NoCall]
        /\ ~m.ok => np' = np
        /\ m.ok => \/ calls[m.w].op = "pause" /\ np' = SetPaused(calls[m.w].obj, TRUE)
                   \/ calls[m.w].op = "resume" /\ np' = SetPaused(calls[m.w].obj, FALSE)
        /\ np' # NoPlay => np # NoPlay /\ np'.item = np.item /\ np'.obj = np.obj
    BY <1>3, <1>6, <1>7, <1>9, ControlAnswered DEF Messages
  <2>2. PICK n, k : n = np' /\ k = calls'
    OBVIOUS
  <2>3. ASSUME connected, n # NoPlay PROVE Pauses(n, adv, calls, toExec, f, slot)
    <3>1. Pauses(np, adv, calls, toExec, fromExec, slot) /\ np # NoPlay /\ n.obj = np.obj
      BY <2>1, <2>2, <2>3 DEF Paused
    <3>2. CASE Says(np, calls, m)
      <4>1. m.ok /\ calls[m.w].obj = np.obj
        BY <3>2 DEF Says
      <4>2. n.paused <=> calls[m.w].op = "pause"
        <5>1. CASE calls[m.w].op = "pause" /\ np' = SetPaused(calls[m.w].obj, TRUE)
          <6>1. n = [np EXCEPT !.paused = TRUE]
            BY <2>2, <4>1, <5>1 DEF SetPaused
          <6>2. n.paused
            BY <1>1, <6>1 DEF NowPlays
          <6> QED BY <5>1, <6>2
        <5>2. CASE calls[m.w].op = "resume" /\ np' = SetPaused(calls[m.w].obj, FALSE)
          <6>1. n = [np EXCEPT !.paused = FALSE]
            BY <2>2, <4>1, <5>2 DEF SetPaused
          <6>2. ~n.paused
            BY <1>1, <6>1 DEF NowPlays
          <6> QED BY <5>2, <6>2
        <5> QED BY <2>1, <4>1, <5>1, <5>2
      <4> QED BY <1>1, <1>2, <1>4, <3>1, <3>2, <4>2, PausesMarked
    <3>3. CASE ~Says(np, calls, m)
      <4>1. n = np
        <5>1. m.ok => calls[m.w].obj # np.obj
          BY <1>3, <1>9, <3>3 DEF Says
        <5> QED BY <2>1, <2>2, <5>1 DEF SetPaused
      <4> QED BY <1>1, <1>2, <1>4, <3>1, <3>3, <4>1, PausesSilent
    <3> QED BY <3>2, <3>3
  <2>4. ASSUME connected, n # NoPlay PROVE Pauses(n, adv, k, toExec, f, slot)
    <3>1. \A d \in Clients : k[d] = calls[d] \/ Unheard(d, toExec, f)
      BY <1>1, <1>5, <2>1, <2>2
    <3> QED BY <2>3, <2>4, <3>1, PausesCalls
  <2> QED BY <1>7, <2>1, <2>2, <2>4, NoPlayIsOver DEF Paused, Pauses
<1> QED BY <1>5, <1>8, <1>9

\* Without the fault "timeout" only what is lost times out.
LEMMA TimedOutPauses ==
  ASSUME IInv, InStep, NoChimes, Paused, "timeout" \notin Faults,
         NEW w \in Clients \cup {"adv", "rst"}, TimedOut(w)
  PROVE  Paused'
<1>1. toExec \in Seq(Requests) /\ calls \in [Clients -> {NoCall} \cup LookUps \cup Controls]
  BY DEF IInv, CoreTyped, RestTyped, CallsTyped
<1>2. w \in Clients \cup {"adv"} /\ w \in Waiters /\ Waiting(w)
  BY Strange DEF TimedOut, Waiting, NoChimes, Waiters
<1>3. Unheard(w, toExec, fromExec)
  BY DEF TimedOut, Awaited, ToSet, Unheard
<1>4. PICK o : o = Forget(toExec, w)
  OBVIOUS
<1>5. DOMAIN o = DOMAIN toExec /\ \A j \in DOMAIN toExec : o[j].w = toExec[j].w
  BY <1>1, <1>2, <1>3, <1>4, ForgetAt DEF Unheard
<1>6. Answered(w, FALSE, o) /\ UNCHANGED <<slot, connected>> /\ fromExec' = fromExec
  BY <1>4 DEF TimedOut
<1>7. CASE w = "adv"
  BY <1>2, <1>6, <1>7, AdvancePauses
<1>8. CASE w \in Clients
  <2>1. adv' = adv /\ toExec' = o /\ calls' = [calls EXCEPT ![w] = NoCall] /\ np' = np
    BY <1>2, <1>6, <1>8, ControlAnswered
  <2>2. connected => Pauses(np, adv, calls, o, fromExec, slot)
    BY <1>5 DEF Paused, Pauses, Right, Ahead, Mine
  <2>3. PICK k : k = calls'
    OBVIOUS
  <2>4. \A d \in Clients : k[d] = calls[d] \/ Unheard(d, o, fromExec)
    BY <1>1, <1>3, <1>5, <2>1, <2>3 DEF Unheard
  <2>5. connected => Pauses(np, adv, k, o, fromExec, slot)
    BY <2>2, <2>4, PausesCalls
  <2> QED BY <1>6, <2>1, <2>3, <2>5 DEF Paused
<1> QED BY <1>2, <1>7, <1>8

LEMMA EndedPauses ==
  ASSUME IInv, NoChimes, Paused, EndedArrives
  PROVE  Paused'
<1>1. fromExec \in Seq(Messages) /\ fromExec # <<>> /\ Head(fromExec).op = "ended"
  BY DEF IInv, RestTyped, EndedArrives
<1>2. PICK f : f = Tail(fromExec)
  OBVIOUS
<1>3. connected => Pauses(np, adv, calls, toExec, f, slot)
  <2>1. ~Says(np, calls, Head(fromExec))
    BY <1>1 DEF Says
  <2> QED BY <1>1, <1>2, <2>1, PausesSilent DEF Paused
<1>4. CASE UNCHANGED core
  BY <1>2, <1>3, <1>4 DEF EndedArrives, core, Paused
<1>5. CASE Launch(gen, queue, np, pending, open, toExec)
  <2>1. Goes(toExec)
    BY <1>5, LaunchGoes
  <2> QED BY <2>1, OverPauses DEF Goes
<1> QED BY <1>4, <1>5 DEF EndedArrives, NoChimes

LEMMA ExecPauses ==
  ASSUME IInv, InStep, Foreseen, Paused, ExecStep
  PROVE  Paused'
<1>1. /\ toExec \in Seq(Requests) /\ fromExec \in Seq(Messages) /\ toExec # <<>> /\ slot \in Slots
      /\ "undecodable" \notin Faults
  BY DEF IInv, CoreTyped, RestTyped, ExecStep, Foreseen
<1>2. PICK m : m = Head(toExec)
  OBVIOUS
<1>3. m \in Requests /\ 1 \in DOMAIN toExec /\ toExec[1] = m
  BY <1>1, <1>2, RestAt
<1>4. PICK o : o = Tail(toExec)
  OBVIOUS
<1>5. UNCHANGED <<np, adv, calls, connected>> /\ toExec' = o
  BY <1>4 DEF ExecStep
<1>6. PICK t : t = slot'
  OBVIOUS
<1>7. /\ m.w # "rst" /\ m.w \in Waiters
      /\ m.w = "adv" => m.op = "play"
      /\ m.w \in Clients => calls[m.w].op = m.op /\ m.op \in Transport
  BY <1>3 DEF InStep, Wires, Sent, Requests
<1> SUFFICES ASSUME connected PROVE Paused'
  BY <1>5 DEF Paused
<1>8. Pauses(np, adv, calls, toExec, fromExec, slot)
  BY DEF Paused
<1>9. ASSUME fromExec' = fromExec, m.w = Nobody PROVE Paused'
  <2>1. m.w # "adv" /\ ~Mine(np, calls, m)
    BY <1>9, Strange DEF Mine
  <2>2. Pauses(np, adv, calls, o, fromExec, t)
    BY <1>1, <1>2, <1>4, <1>8, <2>1, PausesOther
  <2> QED BY <1>5, <1>6, <1>9, <2>2 DEF Paused
<1>10. ASSUME m.op = "play", NEW ok \in BOOLEAN, fromExec' = fromExec \o Reply(m.w, ok),
             ok => t.st = "playing"
      PROVE  Paused'
  <2>1. m.w \in {"adv", Nobody}
    BY <1>7, <1>10 DEF Waiters, Transport
  <2>2. CASE m.w = Nobody
    BY <1>1, <1>7, <1>9, <1>10, <2>2, Replying
  <2>3. CASE m.w = "adv"
    <3>1. PICK r \in Messages : r.op = "reply" /\ r.w = m.w /\ r.ok = ok
                                /\ fromExec \o Reply(m.w, ok) = Append(fromExec, r)
      BY <1>1, <1>7, <2>3, Replying, Strange
    <3>2. Pauses(np, adv, calls, o, Append(fromExec, r), t)
      <4>1. Wires(adv, calls, toExec, fromExec)
        BY DEF InStep
      <4> QED BY <1>1, <1>2, <1>4, <1>8, <1>10, <2>3, <3>1, <4>1, PausesPlayed
    <3> QED BY <1>5, <1>6, <1>10, <3>1, <3>2 DEF Paused
  <2> QED BY <2>1, <2>2, <2>3
<1>11. CASE m.op = "play" /\ ExecPlay(m)
  <2>1. \/ slot' = [src |-> m.src, st |-> "playing"] /\ fromExec' = fromExec \o Reply(m.w, TRUE)
        \/ slot' = NoSlot /\ fromExec' = fromExec \o Reply(m.w, FALSE)
    BY <1>1, <1>11 DEF ExecPlay
  <2>2. CASE slot' = [src |-> m.src, st |-> "playing"] /\ fromExec' = fromExec \o Reply(m.w, TRUE)
    <3>1. t.st = "playing" /\ TRUE \in BOOLEAN
      BY <1>6, <2>2
    <3> QED BY <1>10, <1>11, <2>2, <3>1
  <2>3. CASE fromExec' = fromExec \o Reply(m.w, FALSE)
    <3>1. FALSE \in BOOLEAN
      OBVIOUS
    <3> QED BY <1>10, <1>11, <2>3, <3>1
  <2> QED BY <2>1, <2>2, <2>3
<1>12. CASE m.op \in Transport /\ ExecControl(m)
  <2> DEFINE b == IF m.op = "pause" THEN slot.st \in {"playing", "paused", "hung"}
                                    ELSE slot.st # "off"
  <2>1. b \in BOOLEAN
    <3>1. (slot.st \in {"playing", "paused", "hung"}) \in BOOLEAN
      OBVIOUS
    <3>2. (slot.st # "off") \in BOOLEAN
      OBVIOUS
    <3> QED BY <3>1, <3>2, Zenon
  <2>2. fromExec' = fromExec \o Reply(m.w, b)
    BY <1>12 DEF ExecControl
  <2>3. t.st \in {"playing", "paused"} =>
           /\ slot.st \in {"playing", "paused"} /\ b
           /\ m.op = "pause" <=> t.st = "paused"
    BY <1>1, <1>6, <1>12 DEF ExecControl, Slots, Transport
  <2>4. PICK ok \in BOOLEAN : ok = b
    BY <2>1
  <2> HIDE DEF b
  <2>5. CASE m.w \in Clients
    <3>1. PICK r \in Messages : r.op = "reply" /\ r.w = m.w /\ r.ok = ok
                                /\ fromExec \o Reply(m.w, ok) = Append(fromExec, r)
      BY <1>1, <1>7, <2>5, Replying, Strange
    <3>2. t.st \in {"playing", "paused"} =>
           /\ slot.st \in {"playing", "paused"} /\ r.ok
           /\ calls[r.w].op = "pause" <=> t.st = "paused"
      BY <1>7, <2>3, <2>4, <2>5, <3>1
    <3>3. Pauses(np, adv, calls, o, Append(fromExec, r), t)
      BY <1>1, <1>2, <1>4, <1>8, <2>5, <3>1, <3>2, PausesControlled
    <3>4. fromExec' = Append(fromExec, r)
      BY <2>2, <2>4, <3>1
    <3> QED BY <1>5, <1>6, <3>3, <3>4 DEF Paused
  <2>6. CASE m.w \notin Clients
    <3>1. m.w = Nobody
      BY <1>7, <1>12, <2>6 DEF Waiters, Transport
    <3> QED BY <1>1, <1>7, <1>9, <2>2, <2>4, <3>1, Replying
  <2> QED BY <2>5, <2>6
<1>13. CASE m.op = "stop" /\ UNCHANGED fromExec
  <2>1. m.w = Nobody
    BY <1>7, <1>13 DEF Waiters, Transport
  <2> QED BY <1>9, <1>13, <2>1
<1> QED BY <1>2, <1>11, <1>12, <1>13 DEF ExecStep, Transport

LEMMA EndsPauses ==
  ASSUME IInv, Paused, SourceEnds
  PROVE  Paused'
<1>1. fromExec \in Seq(Messages) /\ slot \in Slots
  BY DEF IInv, RestTyped
<1>2. UNCHANGED <<np, adv, toExec, calls, connected>> /\ slot' = [slot EXCEPT !.st = "drained"]
  BY DEF SourceEnds, core
<1> SUFFICES ASSUME connected PROVE Paused'
  BY <1>2 DEF Paused
<1>3. PICK m : m = Ended(slot.src)
  OBVIOUS
<1>4. m \in Messages /\ m.op = "ended"
  BY <1>1, <1>3 DEF Ended, Messages, Slots, Waiters
<1>5. PICK t : t = slot'
  OBVIOUS
<1>6. t.st = "drained"
  BY <1>1, <1>2, <1>5 DEF Slots
<1>7. Pauses(np, adv, calls, toExec, Append(fromExec, m), t)
  BY <1>1, <1>4, <1>6, PausesEnds DEF Paused
<1>8. fromExec' = Append(fromExec, m)
  BY <1>3 DEF SourceEnds
<1> QED BY <1>2, <1>5, <1>7, <1>8 DEF Paused

LEMMA ReconnectPauses ==
  ASSUME WireInv, Reconnect
  PROVE  Paused'
<1>1. ~connected /\ ~LinkHolds /\ fromExec = <<>> /\ Unawaited(toExec)
  BY DEF WireInv, Offline, Reconnect
<1>2. CASE running /\ ~advancing /\ np # NoPlay
  <2>1. PICK q, r : EnsurePlaying(running, gen, q, NoPlay, NoItem, adv, r, toExec)
    BY <1>2 DEF Reconnect
  <2>2. CASE adv = NoAdv
    <3>1. Launch(gen, q, NoPlay, NoItem, r, toExec)
      BY <1>2, <2>1, <2>2 DEF EnsurePlaying
    <3>2. Goes(toExec)
      BY <3>1, LaunchGoes
    <3> QED BY <3>2, OverPauses DEF Goes
  <2>3. CASE adv # NoAdv
    BY <2>1, <2>3, OverPauses DEF EnsurePlaying, Leave
  <2> QED BY <2>2, <2>3
<1>3. CASE ~(running /\ ~advancing /\ np # NoPlay)
  <2>1. UNCHANGED <<np, adv, toExec, calls, fromExec, slot>>
    BY <1>3 DEF Reconnect, core
  <2>2. adv.ph = "none" => np = NoPlay
    BY <1>1, <1>3 DEF WireInv, Asleep, advancing
  <2>3. Unheard("adv", toExec, fromExec)
    BY <1>1, WiresSilent
  <2>4. Pauses(np, adv, calls, toExec, fromExec, slot)
    BY <2>2, <2>3 DEF Pauses, Ahead, Started, Unheard
  <2> QED BY <2>1, <2>4 DEF Paused
<1> QED BY <1>2, <1>3

-----------------------------------------------------------------------------
(* The songs that are on are numbered.                                     *)

LEMMA PlaysGrow ==
  ASSUME IInv, Next
  PROVE  plays \in Nat /\ plays' \in Nat /\ plays' >= plays
<1>1. plays \in Nat /\ plays' \in {plays, plays + 1}
  <2>1. CASE UserStep
    BY <2>1 DEF UserStep, Start, Stop, Restart, Skip, RemoveItem, ToTop, ClearQueue, SetQueue,
                Previous, Add, PlayNow, Pause, Resume, Seek, Control, TestChime, IInv, RestTyped
  <2>2. CASE MachineStep
    BY <2>2 DEF MachineStep, IdleResolved, UrlResolved, LyricResolved, RetryTimer, AddResolved,
              PlayNowResolved, ReplyArrives, EndedArrives, ChimeTimeout, TimedOut, IInv, RestTyped
  <2>3. CASE ExecutorStep \/ Disconnect
    BY <2>3 DEF ExecutorStep, ExecStep, SourceEnds, Reconnect, Disconnect, IInv, RestTyped
  <2> QED BY <2>1, <2>2, <2>3 DEF Next
<1> QED BY <1>1

\* A step that brings no song up and no control.
LEMMA NumbersStay ==
  ASSUME IInv, Issued, Next, np' = NoPlay \/ np'.obj = np.obj,
         \A c \in Clients : calls'[c] = calls[c] \/ calls'[c].op \notin Transport
  PROVE  Issued'
<1>1. plays \in Nat /\ plays' \in Nat /\ plays' >= plays
  BY PlaysGrow
<1>2. np \in NowPlays
  BY DEF IInv, CoreTyped
<1>3. np'.obj <= plays'
  BY <1>1, <1>2 DEF Issued, NowPlays, NoPlay
<1>4. ASSUME NEW c \in Clients, calls'[c].op \in Transport PROVE calls'[c].obj <= plays'
  <2>1. calls'[c] = calls[c]
    BY <1>4
  <2>2. calls[c].obj \in Nat
    BY <1>4, <2>1, CallKinds DEF IInv, Transport, Controls
  <2>3. calls[c].obj <= plays
    BY <1>4, <2>1 DEF Issued
  <2> QED BY <1>1, <2>1, <2>2, <2>3
<1> QED BY <1>3, <1>4 DEF Issued

LEMMA IssuedKept ==
  ASSUME IInv, InStep, NoChimes, Foreseen, Issued, Next
  PROVE  Issued'
<1>1. ASSUME Plain PROVE Issued'
  <2>1. \A c \in Clients : calls'[c] = calls[c] \/ calls'[c].op \notin Transport
    BY <1>1 DEF Plain, OtherCalls
  <2> QED BY <1>1, <2>1, NumbersStay DEF Plain, Stays, Hushes, Goes
<1>2. CASE UserStep
  <2>1. ASSUME NEW c \in Clients, Pause(c) \/ Resume(c) PROVE Issued'
    <3>1. PICK op \in Transport : Control(c, op, Msg(op, 0, c))
      BY <2>1 DEF Pause, Resume, Transport
    <3>2. calls' = [calls EXCEPT ![c] = [op |-> op, obj |-> np.obj, paused |-> np.paused]]
          /\ UNCHANGED <<np, plays>>
      BY <3>1 DEF Control, Begin
    <3>3. calls \in [Clients -> {NoCall} \cup LookUps \cup Controls]
      BY DEF IInv, RestTyped, CallsTyped
    <3> QED BY <3>2, <3>3 DEF Issued
  <2> QED BY <1>1, <1>2, <2>1, UserPlain
<1>3. CASE LyricResolved /\ connected /\ adv.gen = gen
  <2>1. np'.obj = plays + 1 /\ plays' = plays + 1 /\ calls' = calls /\ plays \in Nat
    BY <1>3 DEF LyricResolved, Leave, IInv, RestTyped
  <2>2. ASSUME NEW c \in Clients, calls[c].op \in Transport PROVE calls[c].obj <= plays'
    <3>1. calls[c].obj \in Nat
      BY <2>2, CallKinds DEF IInv, Transport, Controls
    <3>2. calls[c].obj <= plays
      BY <2>2 DEF Issued
    <3> QED BY <2>1, <3>1, <3>2
  <2> QED BY <2>1, <2>2 DEF Issued
<1>4. ASSUME NEW w, NEW ok, NEW o, Waiting(w), Answered(w, ok, o) PROVE Issued'
  <2>1. w \in Clients \cup {"adv"}
    BY <1>4 DEF Waiting, NoChimes
  <2>2. CASE w = "adv"
    <3>1. calls' = calls /\ np' \in {np, NoPlay}
      BY <1>4, <2>2, AdvanceAnswered DEF Goes
    <3> QED BY <3>1, NumbersStay
  <2>3. CASE w \in Clients
    <3>1. calls' = [calls EXCEPT ![w] = NoCall] /\ (np' = NoPlay \/ np'.obj = np.obj)
      BY <1>4, <2>3, ControlAnswered
    <3>2. calls \in [Clients -> {NoCall} \cup LookUps \cup Controls]
      BY DEF IInv, RestTyped, CallsTyped
    <3>3. \A c \in Clients : calls'[c] = calls[c] \/ calls'[c].op \notin Transport
      BY <3>1, <3>2 DEF NoCall, Transport
    <3> QED BY <3>1, <3>3, NumbersStay
  <2> QED BY <2>1, <2>2, <2>3
<1>5. CASE ReplyArrives
  <2>1. fromExec # <<>> /\ Waiting(Head(fromExec).w)
    <3>1. fromExec \in Seq(Messages) /\ fromExec # <<>>
      BY <1>5 DEF IInv, RestTyped, ReplyArrives
    <3>2. 1 \in DOMAIN fromExec /\ Head(fromExec) = fromExec[1] /\ Head(fromExec).op = "reply"
      BY <1>5, <3>1, RestAt DEF ReplyArrives
    <3> QED BY <3>1, <3>2, Awaits DEF InStep
  <2> QED BY <1>4, <1>5, <2>1 DEF ReplyArrives
<1>6. CASE EndedArrives
  <2>1. calls' = calls
    BY <1>6 DEF EndedArrives
  <2>2. np' \in {np, NoPlay}
    <3>1. CASE UNCHANGED core
      BY <3>1 DEF core
    <3>2. CASE Launch(gen, queue, np, pending, open, toExec)
      <4>1. Goes(toExec)
        BY <3>2, LaunchGoes
      <4> QED BY <4>1 DEF Goes
    <3> QED BY <1>6, <3>1, <3>2 DEF EndedArrives, NoChimes
  <2> QED BY <2>1, <2>2, NumbersStay
<1>7. CASE MachineStep
  <2>1. ~ChimeTimeout
    BY DEF ChimeTimeout, NoChimes
  <2> QED BY <1>1, <1>3, <1>4, <1>5, <1>6, <1>7, <2>1, MachinePlain DEF MachineStep, TimedOut
<1>8. CASE ExecutorStep \/ Disconnect
  <2>1. calls' = calls
    BY <1>8 DEF ExecutorStep, ExecStep, SourceEnds, Reconnect, Disconnect
  <2>2. np' \in {np, NoPlay}
    <3>1. CASE ExecStep \/ SourceEnds \/ Disconnect
      BY <3>1 DEF ExecStep, SourceEnds, Disconnect, core
    <3>2. CASE Reconnect
      <4>1. CASE \E q, r : EnsurePlaying(running, gen, q, NoPlay, NoItem, adv, r, toExec)
        BY <4>1 DEF EnsurePlaying, Launch, Leave
      <4>2. CASE UNCHANGED core
        BY <4>2 DEF core
      <4> QED BY <3>2, <4>1, <4>2 DEF Reconnect
    <3> QED BY <1>8, <3>1, <3>2 DEF ExecutorStep
  <2> QED BY <2>1, <2>2, NumbersStay
<1> QED BY <1>2, <1>7, <1>8 DEF Next

-----------------------------------------------------------------------------
(* The executor and the machine agree on what is paused.                   *)

LEMMA StepPauses ==
  ASSUME IInv, WireInv, Foreseen, "timeout" \notin Faults, Issued, Paused, [Next]_vars
  PROVE  Issued' /\ Paused'
<1>0. InStep /\ NoChimes
  BY DEF WireInv
<1>1. CASE Next
  <2>1. Issued'
    BY <1>0, <1>1, IssuedKept
  <2>2. CASE UserStep
    <3>1. connected' = connected
      BY <2>2 DEF UserStep, Start, Stop, Restart, Skip, RemoveItem, ToTop, ClearQueue, SetQueue,
                  Previous, Add, PlayNow, Pause, Resume, Seek, Control, TestChime
    <3> QED BY <1>0, <2>1, <2>2, <3>1, UserPlain, PlainPauses, ControlPauses
  <2>3. CASE IdleResolved \/ UrlResolved \/ (LyricResolved /\ ~(connected /\ adv.gen = gen)) \/ RetryTimer
             \/ \E c \in Clients : AddResolved(c) \/ PlayNowResolved(c)
    <3>1. connected' = connected
      BY <2>3 DEF IdleResolved, UrlResolved, LyricResolved, RetryTimer, AddResolved, PlayNowResolved
    <3> QED BY <1>0, <2>1, <2>3, <3>1, MachinePlain, PlainPauses
  <2>4. CASE ReplyArrives \/ EndedArrives \/ \E w \in Clients \cup {"adv", "rst"} : TimedOut(w)
    BY <1>0, <2>1, <2>4, ReplyPauses, EndedPauses, TimedOutPauses
  <2>5. ~ChimeTimeout
    BY <1>0 DEF ChimeTimeout, NoChimes
  <2>6. CASE ExecutorStep
    BY <1>0, <2>1, <2>6, ExecPauses, EndsPauses, ReconnectPauses DEF ExecutorStep
  <2>7. CASE Disconnect
    BY <2>1, <2>7 DEF Disconnect, Paused
  <2> QED BY <1>0, <1>1, <2>1, <2>2, <2>3, <2>4, <2>5, <2>6, <2>7, LyricPauses DEF Next, MachineStep
<1>2. CASE UNCHANGED vars
  BY <1>2 DEF vars, Issued, Paused
<1> QED BY <1>1, <1>2

\* When no request times out that the executor has not yet come to, the
\* machine of music/jukebox.ts and the executor agree at rest: the song that
\* is now playing is on, and it is paused for both or for neither, however
\* pauses and resumptions, skips, failures and lost links overlap.
THEOREM MachineAndExecutorAgree ==
  Foreseen /\ "timeout" \notin Faults => (Spec => []ExecutorAgrees)
<1> SUFFICES ASSUME Foreseen, "timeout" \notin Faults PROVE Spec => []ExecutorAgrees
  OBVIOUS
<1>1. Init => Issued /\ Paused
  <2> SUFFICES ASSUME Init PROVE Issued /\ Paused
    OBVIOUS
  <2>1. np = NoPlay /\ plays = 0 /\ calls = [c \in Clients |-> NoCall]
    BY DEF Init
  <2>2. Issued
    BY <2>1 DEF Issued, NoPlay, NoCall, Transport
  <2> QED BY <2>1, <2>2, NoPlayIsOver DEF Paused, Pauses
<1>2. IInv /\ WireInv /\ Issued /\ Paused /\ [Next]_vars => Issued' /\ Paused'
  BY StepPauses
<1>3. NoGhost /\ Paused => ExecutorAgrees
  <2> SUFFICES ASSUME NoGhost, Paused, Quiet, np # NoPlay PROVE np.paused <=> slot.st = "paused"
    BY DEF ExecutorAgrees, PauseAgrees
  <2>1. connected /\ adv.ph = "none" /\ DOMAIN fromExec = {}
    BY DEF Quiet, advancing
  <2>2. slot.st \in {"playing", "paused"}
    BY DEF NoGhost
  <2>3. Match(np, calls, fromExec, slot)
    BY <2>1 DEF Paused, Pauses, Right
  <2> QED BY <2>1, <2>2, <2>3 DEF Match
<1>4. Spec => []IInv /\ []WireInv /\ []NoGhost
  BY Invariance, WireInvariance, WhatPlaysIsOn, PTL
<1> QED BY <1>1, <1>2, <1>3, <1>4, PTL DEF Spec
=============================================================================
