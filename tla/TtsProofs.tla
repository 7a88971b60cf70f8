------------------------------ MODULE TtsProofs ------------------------------
(***************************************************************************)
(* Theorems about Tts for every number of sentences, stops, tones and lost *)
(* links: somebody speaks what waits and every wait has a timer, stop()    *)
(* silences, and the sentences begin in their order.                       *)
(***************************************************************************)
EXTENDS Tts, SequenceTheorems, TLAPS

-----------------------------------------------------------------------------
(* The inductive invariant: the engine's side.                             *)

\* Sentences are numbered as they are spoken.  Those that wait are of the
\* present epoch and newer than any a pump holds; no two pumps hold one.
Numbered ==
  /\ \A k \in DOMAIN queue : queue[k].id <= said /\ queue[k].ep = epoch
  /\ \A j, k \in DOMAIN queue : j < k => queue[j].id < queue[k].id
  /\ \A p \in pumps : p.s.id <= said /\ p.s.ep = p.ep
  /\ \A p \in pumps, k \in DOMAIN queue : p.s.id < queue[k].id
  /\ \A p, q \in pumps : p.s.id = q.s.id => p = q

\* A pump that has asked the executor has a timer, or its wait is over.
Timed ==
  \A p \in pumps : (p.ph = "wait" \/ (p.ph = "play" /\ ~p.over)) => p.s.id \in timers

PumpAlive == running \/ queue # <<>> => \E p \in pumps : p.ep = epoch

(* The executor's side.                                                    *)

Of(s) == s = Tone \/ s.ep = epoch

\* A sentence of an earlier epoch that is to be played, or is, has a stop
\* behind it.
StopBehind(j) == \E k \in DOMAIN toExec : j < k /\ toExec[k].op = "stop"
SilentAt(j) == toExec[j].op = "play" => Of(toExec[j].s) \/ StopBehind(j)
SlotSilent  == slot.st = "playing" => Of(slot.s) \/ StopBehind(0)

\* Unless the last stop() has missed its link.
Silenced == missed \/ ((\A j \in DOMAIN toExec : SilentAt(j)) /\ SlotSilent)

\* Without a connection nobody is told anything, and nothing plays unless the
\* executor has outlived a link.
Down == connected \/ (fromExec = <<>> /\ (drops = 0 => toExec = <<>> /\ slot = NoSlot))

(* Sentences are sent, and so begin, in the order they were spoken.        *)

\* What the slot holds and what is to be played, in that order.
At(j)  == IF j = 0 THEN slot.s ELSE toExec[j].s
Places == {0} \cup DOMAIN toExec

\* A sentence handed to the executor: the pump of the present epoch, unless
\* there have been two, is at that sentence or past it.
Sent(s) ==
  /\ s.ep <= epoch /\ s.id <= said
  /\ s.ep = epoch /\ epoch \notin crowded =>
       \A p \in pumps : p.ep = epoch => s.id <= p.s.id /\ (p.ph = "synth" => s.id < p.s.id)

Orderly ==
  /\ \A p \in pumps : p.ep <= epoch
  /\ epoch \notin crowded => \A p, q \in pumps : p.ep = epoch /\ q.ep = epoch => p = q
  /\ \A j \in Places : At(j) # Tone => Sent(At(j))
  /\ \A j, k \in Places : j < k /\ At(j) # Tone /\ At(k) # Tone => Before(At(j), At(k))

(* As long as nobody stops, no tone sounds and the executor does not       *)
(* outlive its link there is one pump, and what the executor has to do,    *)
(* does or tells is about that pump's sentence.                            *)

Calm == timely /\ epoch = 0 /\ tones = 0 /\ drops = 0

Told(p, ok) == [op |-> "reply", s |-> Tone, w |-> p.s.id, ok |-> ok]

Quiet == toExec = <<>> /\ slot.st # "playing"
Idle  == Quiet /\ fromExec = <<>>

\* The executor is asked; it has begun; it has ended, or could not begin.
Asked(p) ==
  /\ p.ph = "play" /\ ~p.over
  /\ toExec = <<PlayMsg(p.s, p.s.id)>> /\ fromExec = <<>>
  /\ slot.st # "playing" /\ slot.s.id < p.s.id
Begun(p) ==
  /\ ~p.over /\ toExec = <<>>
  /\ slot = [s |-> p.s, st |-> "playing"]
  /\ \/ p.ph = "play" /\ fromExec = <<Told(p, TRUE)>>
     \/ p.ph = "wait" /\ fromExec = <<>>
Over(p) ==
  /\ Quiet
  /\ \/ p.ph = "play" /\ fromExec \in {<<Told(p, TRUE)>>, <<Told(p, FALSE)>>, <<Ended(p.s), Told(p, TRUE)>>}
     \/ p.ph = "play" /\ ~p.over /\ fromExec = <<Told(p, TRUE), Ended(p.s)>>
     \/ p.ph = "wait" /\ fromExec = <<Ended(p.s)>>

\* Sentences that have been played, or whose resolver or timer is there.
Past == timers \cup {waitEnded, slot.s.id}

OnePump ==
  /\ \A p, q \in pumps : p = q
  /\ running \/ pumps = {}
  /\ slot.st = "off" => slot = NoSlot
  /\ \A i \in Past : i <= said
  /\ \A p \in pumps :
       /\ p.ep = epoch
       /\ \A i \in Past : i <= p.s.id
       /\ p.ph = "synth" => ~p.over /\ (\A i \in Past : i < p.s.id)
       /\ p.ph # "synth" => waitEnded \in {0, p.s.id}
Stage == Idle \/ \E p \in pumps : Asked(p) \/ Begun(p) \/ Over(p)

CalmInv == Calm => OnePump /\ Stage

IInv == TypeOK /\ Numbered /\ Timed /\ PumpAlive /\ Silenced /\ Down /\ Orderly /\ CalmInv

-----------------------------------------------------------------------------
(* Lemmas about pumps and queues.                                          *)

LEMMA PumpFields ==
  ASSUME NEW p \in Pump
  PROVE  /\ p.ep \in Nat /\ p.ph \in Phases /\ p.s \in Sentence
         /\ p.s.id \in Nat \ {0} /\ p.s.ep \in Nat
         /\ p.over \in BOOLEAN
BY DEF Pump, Sentence

\* A pump moved to another phase, or told that its sentence has ended, is
\* still the pump of that sentence.
LEMMA Moved ==
  ASSUME NEW p \in Pump, NEW h \in Phases
  PROVE  LET r == [p EXCEPT !.ph = h]
         IN  r \in Pump /\ r.ep = p.ep /\ r.ph = h /\ r.s = p.s /\ r.over = p.over
BY DEF Pump, Phases

LEMMA Overed ==
  ASSUME NEW p \in Pump
  PROVE  LET r == [p EXCEPT !.over = TRUE]
         IN  r \in Pump /\ r.ep = p.ep /\ r.ph = p.ph /\ r.s = p.s /\ r.over = TRUE
BY DEF Pump

Fresh(ep, s) == [ep |-> ep, ph |-> "synth", s |-> s, over |-> FALSE]

LEMMA FreshIsPump ==
  ASSUME NEW ep \in Nat, NEW s \in Sentence
  PROVE  LET r == Fresh(ep, s)
         IN  r \in Pump /\ r.ep = ep /\ r.ph = "synth" /\ r.s = s /\ r.over = FALSE
BY DEF Pump, Phases, Fresh

LEMMA NextNat == \A n \in Nat : n + 1 \in Nat
OBVIOUS

LEMMA LeqReflexive == \A n \in Nat : n <= n
OBVIOUS

LEMMA ToneIsSound == Tone \in Sounds
BY DEF Tone, Sounds

LEMMA SentenceIsSound == ASSUME NEW s \in Sentence PROVE s \in Sounds
BY DEF Sounds

LEMMA HeadTail ==
  ASSUME NEW S, NEW q \in Seq(S), q # <<>>
  PROVE  /\ Head(q) \in S /\ Tail(q) \in Seq(S) /\ Head(q) = q[1] /\ 1 \in DOMAIN q
         /\ \A k \in DOMAIN Tail(q) : (k + 1 \in DOMAIN q) /\ Tail(q)[k] = q[k + 1]
OBVIOUS

\* The sentences of a text are numbered after all the others.
Text(k) == [j \in 1..k |-> [id |-> said + j, ep |-> epoch]]

LEMMA Spoken ==
  ASSUME TypeOK, Numbered, NEW k \in 1..MaxParts, TtsAssumption
  PROVE  LET q == queue \o Text(k)
         IN  /\ q \in Seq(Sentence) /\ q # <<>>
             /\ \A i \in DOMAIN q : q[i].id <= said + k /\ q[i].ep = epoch
             /\ \A i, j \in DOMAIN q : i < j => q[i].id < q[j].id
             /\ \A p \in pumps, i \in DOMAIN q : p.s.id < q[i].id
<1> DEFINE new == Text(k)
           q == queue \o new
<1>1. k \in Nat \ {0} /\ said \in Nat /\ epoch \in Nat /\ queue \in Seq(Sentence)
      BY DEF TypeOK, TtsAssumption
<1>2. /\ new \in Seq(Sentence) /\ Len(new) = k
      /\ \A j \in 1..k : new[j].id = said + j /\ new[j].ep = epoch
  <2>1. \A j \in 1..k : [id |-> said + j, ep |-> epoch] \in Sentence
        BY <1>1 DEF Sentence
  <2>2. new \in [1..k -> Sentence] /\ \A j \in 1..k : new[j].id = said + j /\ new[j].ep = epoch
        BY <2>1 DEF Text
  <2> HIDE DEF new
  <2>3. new \in Seq(Sentence)
        BY <2>2, <1>1, SeqDef
  <2>4. Len(new) = k
        BY <2>2, <2>3, <1>1, LenProperties
  <2> QED BY <2>2, <2>3, <2>4
<1> HIDE DEF new
<1>3. /\ q \in Seq(Sentence) /\ Len(q) = Len(queue) + k
      /\ \A i \in 1..Len(q) : q[i] = IF i <= Len(queue) THEN queue[i] ELSE new[i - Len(queue)]
      BY <1>1, <1>2, ConcatProperties
<1> HIDE DEF q
<1>4. q # <<>> /\ Len(queue) \in Nat /\ DOMAIN queue = 1..Len(queue) /\ DOMAIN q = 1..Len(q)
      BY <1>1, <1>3, EmptySeq, LenProperties
<1>5. \A i \in DOMAIN queue : queue[i].id \in Nat /\ queue[i].id <= said /\ queue[i].ep = epoch
  <2>1. \A i \in DOMAIN queue : queue[i] \in Sentence
        BY <1>1
  <2> QED BY <2>1 DEF Numbered, Sentence
<1>6. \A i \in 1..Len(q) : \/ i \in DOMAIN queue /\ q[i] = queue[i]
                           \/ i > Len(queue) /\ q[i].id = said + (i - Len(queue)) /\ q[i].ep = epoch
      BY <1>1, <1>2, <1>3, <1>4
<1>7. \A i \in DOMAIN q : q[i].id <= said + k /\ q[i].ep = epoch
      BY <1>1, <1>3, <1>4, <1>5, <1>6
<1>8. \A i, j \in DOMAIN q : i < j => q[i].id < q[j].id
  <2>1. SUFFICES ASSUME NEW i \in DOMAIN q, NEW j \in DOMAIN q, i < j
                 PROVE  q[i].id < q[j].id
        OBVIOUS
  <2>2. CASE j \in DOMAIN queue
        BY <1>1, <1>3, <1>4, <1>6, <2>1, <2>2 DEF Numbered
  <2>3. CASE j \notin DOMAIN queue
        BY <1>1, <1>3, <1>4, <1>5, <1>6, <2>1, <2>3
  <2> QED BY <2>2, <2>3
<1>9. \A p \in pumps : p.s.id \in Nat /\ p.s.id <= said
      BY PumpFields DEF Numbered, TypeOK
<1>10. \A p \in pumps, i \in DOMAIN q : p.s.id < q[i].id
       BY <1>1, <1>3, <1>4, <1>6, <1>9 DEF Numbered
<1> QED BY <1>3, <1>4, <1>7, <1>8, <1>10 DEF q, new

-----------------------------------------------------------------------------
(* The engine's side is kept.                                              *)

EngineOK ==
  /\ queue \in Seq(Sentence) /\ pumps \subseteq Pump /\ running \in BOOLEAN
  /\ Numbered /\ Timed /\ PumpAlive

\* The queue without its first sentence keeps its order; the first is newer
\* than what pumps hold and older than the rest.
LEMMA Taken ==
  ASSUME TypeOK, Numbered, queue # <<>>
  PROVE  /\ Head(queue) \in Sentence /\ Tail(queue) \in Seq(Sentence)
         /\ Head(queue).id <= said /\ Head(queue).ep = epoch
         /\ \A p \in pumps : p.s.id < Head(queue).id
         /\ \A k \in DOMAIN Tail(queue) :
              /\ Tail(queue)[k].id <= said /\ Tail(queue)[k].ep = epoch
              /\ Head(queue).id < Tail(queue)[k].id
              /\ \A p \in pumps : p.s.id < Tail(queue)[k].id
         /\ \A j, k \in DOMAIN Tail(queue) : j < k => Tail(queue)[j].id < Tail(queue)[k].id
<1>1. queue \in Seq(Sentence)
      BY DEF TypeOK
<1>2. /\ Head(queue) \in Sentence /\ Tail(queue) \in Seq(Sentence)
      /\ Head(queue) = queue[1] /\ 1 \in DOMAIN queue
      /\ \A k \in DOMAIN Tail(queue) : k \in Nat \ {0} /\ k + 1 \in DOMAIN queue /\ Tail(queue)[k] = queue[k + 1]
      BY <1>1, HeadTail
<1>3. \A k \in DOMAIN Tail(queue) : 1 < k + 1
      BY <1>2
<1>4. \A j, k \in DOMAIN Tail(queue) : j < k => j + 1 < k + 1
      BY <1>2
<1> QED BY <1>2, <1>3, <1>4 DEF Numbered

Awaits(p) == p.ph = "wait" \/ (p.ph = "play" /\ ~p.over)

\* A pump that goes on leaves numbers, timers and the pump of the present
\* epoch as they must be.
LEMMA GoOnKeeps ==
  ASSUME TypeOK, Numbered, PumpAlive, NEW p \in pumps, GoOn(p.ep, pumps \ {p}),
         epoch' = epoch, said' = said,
         \A q \in pumps \ {p} : Awaits(q) => q.s.id \in timers'
  PROVE  EngineOK'
<1>1. /\ queue \in Seq(Sentence) /\ pumps \subseteq Pump /\ running \in BOOLEAN /\ epoch \in Nat
      BY DEF TypeOK
<1>2. CASE queue # <<>> /\ p.ep = epoch
  <2> DEFINE new == Fresh(epoch, Head(queue))
  <2>1. /\ queue' = Tail(queue) /\ running' = running
        /\ pumps' = (pumps \ {p}) \cup {new}
        BY <1>2 DEF GoOn, Fresh
  <2>2. /\ new \in Pump /\ new.ep = epoch /\ new.ph = "synth" /\ new.s = Head(queue)
        BY <1>1, <1>2, Taken, FreshIsPump
  <2> HIDE DEF new
  <2>3. queue' \in Seq(Sentence) /\ pumps' \subseteq Pump /\ running' \in BOOLEAN
        BY <1>1, <1>2, <2>1, <2>2, Taken
  <2>4. \A k \in DOMAIN queue' : queue'[k].id <= said' /\ queue'[k].ep = epoch'
        BY <1>2, <2>1, Taken
  <2>5. \A j, k \in DOMAIN queue' : j < k => queue'[j].id < queue'[k].id
        BY <1>2, <2>1, Taken
  <2>6. \A q \in pumps' : q.s.id <= said' /\ q.s.ep = q.ep
        BY <1>2, <2>1, <2>2, Taken DEF Numbered
  <2>7. \A q \in pumps', k \in DOMAIN queue' : q.s.id < queue'[k].id
        BY <1>2, <2>1, <2>2, Taken
  <2>8. \A q, r \in pumps' : q.s.id = r.s.id => q = r
    <3>1. \A q \in pumps : q.s.id < Head(queue).id /\ q.s.id \in Int /\ Head(queue).id \in Int
          BY <1>1, <1>2, Taken, PumpFields DEF Sentence
    <3>2. \A q \in pumps : q.s.id # Head(queue).id
          BY <3>1
    <3> QED BY <2>1, <2>2, <3>2 DEF Numbered
  <2>9. Timed'
        BY <2>1, <2>2 DEF Timed, Awaits
  <2>10. PumpAlive'
         BY <2>1, <2>2 DEF PumpAlive
  <2>11. Numbered'
         BY <2>4, <2>5, <2>6, <2>7, <2>8 DEF Numbered
  <2> QED BY <2>3, <2>9, <2>10, <2>11 DEF EngineOK
<1>3. CASE ~(queue # <<>> /\ p.ep = epoch)
  <2>1. queue' = queue /\ pumps' = pumps \ {p} /\ running' = FALSE
        BY <1>3 DEF GoOn
  <2>2. Numbered'
        BY <2>1 DEF Numbered
  <2>3. Timed'
        BY <2>1 DEF Timed, Awaits
  <2>4. PumpAlive'
        BY <1>3, <2>1 DEF PumpAlive
  <2>5. pumps' \subseteq Pump
        BY <1>1, <2>1
  <2> QED BY <1>1, <2>1, <2>2, <2>3, <2>4, <2>5 DEF EngineOK
<1> QED BY <1>2, <1>3

\* Pumps that change their phase hold what they held.
LEMMA Relabelled ==
  ASSUME TypeOK, Numbered, PumpAlive, UNCHANGED <<queue, running, epoch, said>>,
         \A r \in pumps' : \E p \in pumps : r.ep = p.ep /\ r.s = p.s,
         \A p \in pumps : \E r \in pumps' : r.ep = p.ep /\ r.s = p.s,
         \A q, r \in pumps' : q.s = r.s => q = r
  PROVE  Numbered' /\ PumpAlive'
<1>1. queue' = queue /\ running' = running /\ epoch' = epoch /\ said' = said
      OBVIOUS
<1>2. \A q, r \in pumps' : q.s.id = r.s.id => q = r
      BY DEF Numbered
<1>3. \A r \in pumps' : r.s.id <= said /\ r.s.ep = r.ep /\ \A k \in DOMAIN queue : r.s.id < queue[k].id
      BY DEF Numbered
<1>4. Numbered'
      BY <1>1, <1>2, <1>3 DEF Numbered
<1>5. PumpAlive'
      BY <1>1 DEF PumpAlive
<1> QED BY <1>4, <1>5

\* The case of one pump that enters another phase.
LEMMA OneMoves ==
  ASSUME TypeOK, Numbered, PumpAlive, UNCHANGED <<queue, running, epoch, said>>,
         NEW p \in pumps, NEW h \in Phases,
         pumps' = (pumps \ {p}) \cup {[p EXCEPT !.ph = h]},
         \A q \in pumps \ {p} : Awaits(q) => q.s.id \in timers',
         h # "synth" => p.s.id \in timers'
  PROVE  EngineOK'
<1> DEFINE m == [p EXCEPT !.ph = h]
<1>1. p \in Pump /\ pumps \subseteq Pump
      BY DEF TypeOK
<1>2. m \in Pump /\ m.ep = p.ep /\ m.ph = h /\ m.s = p.s
      BY <1>1, Moved
<1>3. pumps' = (pumps \ {p}) \cup {m}
      OBVIOUS
<1> HIDE DEF m
<1>4. \A r \in pumps' : \E q \in pumps : r.ep = q.ep /\ r.s = q.s
      BY <1>2, <1>3
<1>5. \A q \in pumps : \E r \in pumps' : r.ep = q.ep /\ r.s = q.s
      BY <1>2, <1>3
<1>6. \A q, r \in pumps' : q.s = r.s => q = r
      BY <1>2, <1>3 DEF Numbered
<1>7. Numbered' /\ PumpAlive'
      BY <1>4, <1>5, <1>6, Relabelled
<1>8. Timed'
      BY <1>2, <1>3 DEF Timed, Awaits
<1>9. queue' \in Seq(Sentence) /\ running' \in BOOLEAN
      BY DEF TypeOK
<1>10. pumps' \subseteq Pump
      BY <1>1, <1>2, <1>3
<1> QED BY <1>7, <1>8, <1>9, <1>10 DEF EngineOK

\* A resolved wait: its pump goes on, or will not wait.
LEMMA ResolveKeeps ==
  ASSUME TypeOK, Numbered, Timed, PumpAlive, UNCHANGED <<epoch, said>>,
         NEW i, Resolve(i), timers' = timers \ {i}
  PROVE  EngineOK'
<1>1. ASSUME NEW p \in pumps, p.s.id = i, p.ph = "wait", GoOn(p.ep, pumps \ {p})
      PROVE  EngineOK'
  <2>1. \A q \in pumps \ {p} : q.s.id # i
        BY <1>1 DEF Numbered
  <2>2. \A q \in pumps \ {p} : Awaits(q) => q.s.id \in timers'
        BY <2>1 DEF Timed, Awaits
  <2> QED BY <1>1, <2>2, GoOnKeeps
<1>2. ASSUME \A p \in pumps : ~(p.s.id = i /\ p.ph = "wait"),
             pumps' = {IF p.s.id = i THEN [p EXCEPT !.over = TRUE] ELSE p : p \in pumps},
             UNCHANGED <<queue, running>>
      PROVE  EngineOK'
  <2> DEFINE o(p) == IF p.s.id = i THEN [p EXCEPT !.over = TRUE] ELSE p
  <2>1. queue \in Seq(Sentence) /\ pumps \subseteq Pump /\ running \in BOOLEAN
        BY DEF TypeOK
  <2>2. \A p \in pumps : /\ o(p) \in Pump /\ o(p).ep = p.ep /\ o(p).ph = p.ph /\ o(p).s = p.s
                         /\ o(p).over = IF p.s.id = i THEN TRUE ELSE p.over
    <3>1. ASSUME NEW p \in pumps, p.s.id = i
          PROVE  /\ o(p) \in Pump /\ o(p).ep = p.ep /\ o(p).ph = p.ph /\ o(p).s = p.s
                 /\ o(p).over = TRUE
          BY <2>1, <3>1, Overed
    <3> QED BY <2>1, <3>1
  <2>3. pumps' = {o(p) : p \in pumps}
        BY <1>2
  <2> HIDE DEF o
  <2>4. \A r \in pumps' : \E q \in pumps : r.ep = q.ep /\ r.s = q.s
        BY <2>2, <2>3
  <2>5. \A q \in pumps : \E r \in pumps' : r.ep = q.ep /\ r.s = q.s
        BY <2>2, <2>3
  <2>6. ASSUME NEW q \in pumps', NEW r \in pumps', q.s = r.s PROVE q = r
    <3>1. PICK a \in pumps, b \in pumps : q = o(a) /\ r = o(b)
          BY <2>3
    <3>2. a.s = b.s
          BY <2>2, <2>6, <3>1
    <3>3. a = b
          BY <3>2 DEF Numbered
    <3> QED BY <3>1, <3>3
  <2>7. Numbered' /\ PumpAlive'
        BY <1>2, <2>4, <2>5, <2>6, Relabelled
  <2>8. ASSUME NEW p \in pumps, Awaits(o(p)) PROVE o(p).s.id \in timers'
    <3>1. Awaits(p) /\ p.s.id # i
          BY <1>2, <2>2, <2>8 DEF Awaits
    <3> QED BY <2>2, <3>1 DEF Timed, Awaits
  <2>9. Timed'
        BY <2>3, <2>8 DEF Timed, Awaits
  <2>10. pumps' \subseteq Pump
         BY <2>2, <2>3
  <2> QED BY <1>2, <2>1, <2>7, <2>9, <2>10 DEF EngineOK
<1> QED BY <1>1, <1>2 DEF Resolve

-----------------------------------------------------------------------------
(* The engine's side, action by action.                                    *)

\* What a step must not disturb for the engine's side to stay as it is.
engine == <<queue, running, pumps, timers, epoch, said>>

LEMMA EngineRests ==
  ASSUME TypeOK, Numbered, Timed, PumpAlive, UNCHANGED engine
  PROVE  EngineOK'
<1>1. /\ queue' = queue /\ running' = running /\ pumps' = pumps
      /\ timers' = timers /\ epoch' = epoch /\ said' = said
      BY DEF engine
<1>2. queue' \in Seq(Sentence) /\ pumps' \subseteq Pump /\ running' \in BOOLEAN
      BY <1>1 DEF TypeOK
<1>3. Numbered'
      BY <1>1 DEF Numbered
<1>4. Timed'
      BY <1>1 DEF Timed
<1>5. PumpAlive'
      BY <1>1 DEF PumpAlive
<1> QED BY <1>2, <1>3, <1>4, <1>5 DEF EngineOK

LEMMA SpeakKeepsEngine ==
  ASSUME TypeOK, Numbered, Timed, PumpAlive, TtsAssumption, NEW k \in 1..MaxParts, Speak(k)
  PROVE  EngineOK'
<1> DEFINE q == queue \o Text(k)
<1>1. /\ queue \in Seq(Sentence) /\ pumps \subseteq Pump /\ running \in BOOLEAN
      /\ epoch \in Nat /\ said \in Nat /\ k \in Nat \ {0}
      BY DEF TypeOK, TtsAssumption
<1>2. said' = said + k /\ epoch' = epoch /\ timers' = timers
      BY DEF Speak
<1>3. /\ q \in Seq(Sentence) /\ q # <<>>
      /\ \A i \in DOMAIN q : q[i].id <= said + k /\ q[i].ep = epoch
      /\ \A i, j \in DOMAIN q : i < j => q[i].id < q[j].id
      /\ \A p \in pumps, i \in DOMAIN q : p.s.id < q[i].id
      BY Spoken
<1>4. \A p \in pumps : /\ p.s.id <= said' /\ p.s.ep = p.ep
                       /\ \A r \in pumps : p.s.id = r.s.id => p = r
      BY <1>1, <1>2, PumpFields DEF Numbered
<1>5. CASE running
  <2>1. queue' = q /\ pumps' = pumps /\ running' = running
        BY <1>5 DEF Speak, Text
  <2> HIDE DEF q
  <2>2. Numbered'
        BY <1>2, <1>3, <1>4, <2>1 DEF Numbered
  <2>3. Timed'
        BY <1>2, <2>1 DEF Timed
  <2>4. PumpAlive'
        BY <1>2, <1>5, <2>1 DEF PumpAlive
  <2> QED BY <1>1, <1>3, <2>1, <2>2, <2>3, <2>4 DEF EngineOK
<1>6. CASE ~running
  <2> DEFINE new == Fresh(epoch, Head(q))
  <2>1. /\ queue' = Tail(q) /\ running' = TRUE
        /\ pumps' = pumps \cup {new}
        BY <1>6 DEF Speak, Text, Fresh
  <2> HIDE DEF q
  <2>2. /\ Head(q) \in Sentence /\ Tail(q) \in Seq(Sentence) /\ Head(q) = q[1] /\ 1 \in DOMAIN q
        /\ \A i \in DOMAIN Tail(q) : i \in Nat \ {0} /\ i + 1 \in DOMAIN q /\ Tail(q)[i] = q[i + 1]
        BY <1>3, HeadTail
  <2>3. /\ new \in Pump /\ new.ep = epoch /\ new.ph = "synth" /\ new.s = Head(q)
    <3>1. epoch \in Nat /\ Head(q) \in Sentence
          BY <1>1, <2>2
    <3> QED BY <3>1, FreshIsPump
  <2> HIDE DEF new
  <2>4. \A i \in DOMAIN Tail(q) : 1 < i + 1
        BY <2>2
  <2>5. \A i, j \in DOMAIN Tail(q) : i < j => i + 1 < j + 1
        BY <2>2
  <2>6. \A i \in DOMAIN queue' : queue'[i].id <= said' /\ queue'[i].ep = epoch'
        BY <1>2, <1>3, <2>1, <2>2
  <2>7. \A i, j \in DOMAIN queue' : i < j => queue'[i].id < queue'[j].id
        BY <1>3, <2>1, <2>2, <2>5
  <2>8. \A p \in pumps' : p.s.id <= said' /\ p.s.ep = p.ep
        BY <1>2, <1>3, <1>4, <2>1, <2>2, <2>3
  <2>9. \A p \in pumps', i \in DOMAIN queue' : p.s.id < queue'[i].id
        BY <1>3, <2>1, <2>2, <2>3, <2>4
  <2>10. \A p, r \in pumps' : p.s.id = r.s.id => p = r
    <3>1. \A p \in pumps : p.s.id < q[1].id /\ p.s.id \in Int /\ q[1].id \in Int
          BY <1>1, <1>3, <2>2, PumpFields DEF Sentence
    <3>2. \A p \in pumps : p.s.id # q[1].id
          BY <3>1
    <3> QED BY <1>4, <2>1, <2>2, <2>3, <3>2
  <2>11. Numbered'
         BY <2>6, <2>7, <2>8, <2>9, <2>10 DEF Numbered
  <2>12. Timed'
         BY <1>2, <2>1, <2>3 DEF Timed
  <2>13. PumpAlive'
         BY <1>2, <2>1, <2>3 DEF PumpAlive
  <2>14. queue' \in Seq(Sentence) /\ pumps' \subseteq Pump /\ running' \in BOOLEAN
         BY <1>1, <2>1, <2>2, <2>3
  <2> QED BY <2>11, <2>12, <2>13, <2>14 DEF EngineOK
<1> QED BY <1>1, <1>5, <1>6

LEMMA StopKeepsEngine ==
  ASSUME TypeOK, Numbered, Timed, PumpAlive, Stop
  PROVE  EngineOK'
<1> DEFINE o(p) == IF p.s.id = waitEnded THEN [p EXCEPT !.over = TRUE] ELSE p
           kept == {p \in pumps : ~(p.ph = "wait" /\ p.s.id = waitEnded)}
<1>1. pumps \subseteq Pump /\ kept \subseteq pumps
      BY DEF TypeOK
<1>2. /\ queue' = <<>> /\ running' = FALSE /\ said' = said
      /\ pumps' = {o(p) : p \in kept} /\ timers' = timers \ {waitEnded}
      BY DEF Stop
<1>3. \A p \in kept : /\ o(p) \in Pump /\ o(p).ep = p.ep /\ o(p).ph = p.ph /\ o(p).s = p.s
                      /\ o(p).over = IF p.s.id = waitEnded THEN TRUE ELSE p.over
  <2>1. ASSUME NEW p \in kept, p.s.id = waitEnded
        PROVE  /\ o(p) \in Pump /\ o(p).ep = p.ep /\ o(p).ph = p.ph /\ o(p).s = p.s
               /\ o(p).over = TRUE
        BY <1>1, <2>1, Overed
  <2> QED BY <1>1, <2>1
<1>4. \A p \in kept : ~(p.ph = "wait" /\ p.s.id = waitEnded)
      OBVIOUS
<1> HIDE DEF o, kept
<1>5. ASSUME NEW q \in pumps', NEW r \in pumps', q.s.id = r.s.id PROVE q = r
  <2>1. PICK a \in kept, b \in kept : q = o(a) /\ r = o(b)
        BY <1>2
  <2>2. a.s.id = b.s.id
        BY <1>3, <1>5, <2>1
  <2>3. a = b
        BY <1>1, <2>2 DEF Numbered
  <2> QED BY <2>1, <2>3
<1>6. \A p \in pumps' : p.s.id <= said' /\ p.s.ep = p.ep
  <2>1. \A p \in kept : p.s.id <= said /\ p.s.ep = p.ep
        BY <1>1 DEF Numbered
  <2>2. \A p \in kept : o(p).s.id <= said /\ o(p).s.ep = o(p).ep
        BY <1>3, <2>1
  <2> QED BY <1>2, <2>2
<1>7. Numbered'
      BY <1>2, <1>5, <1>6 DEF Numbered
<1>8. ASSUME NEW p \in kept, Awaits(o(p)) PROVE o(p).s.id \in timers'
  <2>1. Awaits(p) /\ p.s.id # waitEnded
        BY <1>3, <1>4, <1>8 DEF Awaits
  <2> QED BY <1>1, <1>2, <1>3, <2>1 DEF Timed, Awaits
<1>9. Timed'
      BY <1>2, <1>8 DEF Timed, Awaits
<1>10. PumpAlive'
       BY <1>2 DEF PumpAlive
<1>11. queue' \in Seq(Sentence) /\ pumps' \subseteq Pump /\ running' \in BOOLEAN
       BY <1>2, <1>3, EmptySeq
<1> QED BY <1>7, <1>9, <1>10, <1>11 DEF EngineOK

LEMMA SynthesizedKeepsEngine ==
  ASSUME TypeOK, Numbered, Timed, PumpAlive, NEW p \in pumps, Synthesized(p)
  PROVE  EngineOK'
<1>1. epoch' = epoch /\ said' = said /\ timers \subseteq timers'
      BY DEF Synthesized
<1>2. \A q \in pumps \ {p} : Awaits(q) => q.s.id \in timers'
      BY <1>1 DEF Timed, Awaits
<1>3. CASE GoOn(p.ep, pumps \ {p})
      BY <1>1, <1>2, <1>3, GoOnKeeps
<1>4. CASE /\ pumps' = (pumps \ {p}) \cup {[p EXCEPT !.ph = "play"]}
           /\ UNCHANGED <<queue, running>> /\ timers' = timers \cup {p.s.id}
  <2>1. "play" \in Phases /\ p.s.id \in timers'
        BY <1>4 DEF Phases
  <2> QED BY <1>1, <1>2, <1>4, <2>1, OneMoves
<1> QED BY <1>3, <1>4 DEF Synthesized

LEMMA PlayAnsweredKeepsEngine ==
  ASSUME TypeOK, Numbered, Timed, PumpAlive, UNCHANGED <<epoch, said, timers>>,
         NEW p \in pumps, p.ph = "play", NEW ok, PlayAnswered(p, ok)
  PROVE  EngineOK'
<1>1. epoch' = epoch /\ said' = said /\ timers' = timers
      OBVIOUS
<1>2. \A q \in pumps : Awaits(q) => q.s.id \in timers'
      BY <1>1 DEF Timed, Awaits
<1>3. CASE GoOn(p.ep, pumps \ {p})
      BY <1>1, <1>2, <1>3, GoOnKeeps
<1>4. CASE /\ pumps' = (pumps \ {p}) \cup {[p EXCEPT !.ph = "wait"]}
           /\ UNCHANGED <<queue, running>> /\ ~p.over
  <2>1. "wait" \in Phases /\ p.s.id \in timers'
        BY <1>2, <1>4 DEF Phases, Awaits
  <2> QED BY <1>1, <1>2, <1>4, <2>1, OneMoves
<1> QED BY <1>3, <1>4 DEF PlayAnswered

LEMMA EngineStep ==
  ASSUME TypeOK, Numbered, Timed, PumpAlive, TtsAssumption, [Next]_vars
  PROVE  EngineOK'
<1>1. CASE \E k \in 1..MaxParts : Speak(k)
      BY <1>1, SpeakKeepsEngine
<1>2. CASE Stop
      BY <1>2, StopKeepsEngine
<1>3. CASE TestTone
      BY <1>3, EngineRests DEF TestTone, engine
<1>4. ASSUME NEW p \in pumps, Synthesized(p) PROVE EngineOK'
      BY <1>4, SynthesizedKeepsEngine
<1>5. ASSUME NEW p \in pumps, TimedOut(p) PROVE EngineOK'
      BY <1>5, PlayAnsweredKeepsEngine DEF TimedOut
<1>6. CASE ReplyArrives
  <2>1. UNCHANGED <<epoch, said, timers>>
        BY <1>6 DEF ReplyArrives
  <2>2. ASSUME NEW p \in pumps, p.ph = "play", PlayAnswered(p, Head(fromExec).ok) PROVE EngineOK'
        BY <2>1, <2>2, PlayAnsweredKeepsEngine
  <2>3. ASSUME UNCHANGED <<queue, running, pumps>> PROVE EngineOK'
        BY <2>1, <2>3, EngineRests DEF engine
  <2> QED BY <1>6, <2>2, <2>3 DEF ReplyArrives
<1>7. CASE EndedArrives
  <2>1. UNCHANGED <<epoch, said>>
        BY <1>7 DEF EndedArrives
  <2>2. CASE waitEnded = 0
        BY <1>7, <2>2, EngineRests DEF EndedArrives, engine
  <2>3. CASE waitEnded # 0
        BY <1>7, <2>1, <2>3, ResolveKeeps DEF EndedArrives
  <2> QED BY <2>2, <2>3
<1>8. ASSUME NEW i \in timers, TimerFires(i) PROVE EngineOK'
      BY <1>8, ResolveKeeps DEF TimerFires
<1>9. CASE ExecStep \/ SourceEnds \/ Disconnect \/ Reconnect
      BY <1>9, EngineRests DEF ExecStep, SourceEnds, Disconnect, Reconnect, engine
<1>10. CASE UNCHANGED vars
       BY <1>10, EngineRests DEF vars, engine
<1> QED BY <1>1, <1>2, <1>3, <1>4, <1>5, <1>6, <1>7, <1>8, <1>9, <1>10 DEF Next, PumpStep

-----------------------------------------------------------------------------
(* The counters, the wires and the slot keep their types.                  *)

WiresOK ==
  /\ epoch \in Nat /\ waitEnded \in Nat /\ timers \subseteq Nat \ {0}
  /\ said \in Nat /\ tones \in Nat /\ timely \in BOOLEAN /\ connected \in BOOLEAN /\ crashes \in Nat
  /\ toExec \in Seq(Requests) /\ fromExec \in Seq(Messages)
  /\ slot \in [s : Sounds, st : {"off", "playing", "drained"}]
  /\ missed \in BOOLEAN /\ crowded \subseteq 0..epoch /\ drops \in Nat

LEMMA PlayIsRequest ==
  ASSUME NEW s \in Sounds, NEW w \in Nat
  PROVE  PlayMsg(s, w) \in Requests
BY DEF PlayMsg, Requests

LEMMA StopIsRequest == StopMsg \in Requests
BY ToneIsSound DEF StopMsg, Requests

LEMMA SentIsSeq ==
  ASSUME NEW o \in Seq(Requests), NEW m \in Requests
  PROVE  Send(o, m) \in Seq(Requests)
BY DEF Send

LEMMA EndedIsMessage ==
  ASSUME NEW s \in Sounds
  PROVE  Ended(s) \in Messages
BY DEF Ended, Messages

LEMMA RepliesAreMessages ==
  ASSUME NEW w \in Nat, NEW ok \in BOOLEAN
  PROVE  Reply(w, ok) \in Seq(Messages)
<1>1. [op |-> "reply", s |-> Tone, w |-> w, ok |-> ok] \in Messages
      BY ToneIsSound DEF Messages
<1> QED BY <1>1 DEF Reply

LEMMA NoSlotIsSlot == NoSlot \in [s : Sounds, st : {"off", "playing", "drained"}]
BY ToneIsSound DEF NoSlot

LEMMA PlayAnsweredWires ==
  ASSUME WiresOK, NEW p, NEW ok, PlayAnswered(p, ok)
  PROVE  toExec' \in Seq(Requests)
BY StopIsRequest, SentIsSeq DEF PlayAnswered, WiresOK

\* What the executor tells is written on the link, or nowhere.
LEMMA ToldIsSeq ==
  ASSUME fromExec \in Seq(Messages), NEW ms \in Seq(Messages), Tells(ms)
  PROVE  fromExec' \in Seq(Messages)
<1>1. fromExec \o ms \in Seq(Messages)
      BY ConcatProperties
<1> QED BY <1>1 DEF Tells

LEMMA ExecPlayWires ==
  ASSUME WiresOK, NEW m \in Requests, ExecPlay(m)
  PROVE  /\ fromExec' \in Seq(Messages)
         /\ slot' \in [s : Sounds, st : {"off", "playing", "drained"}]
<1>1. m.s \in Sounds /\ m.w \in Nat
      BY DEF Requests
<1>2. fromExec \in Seq(Messages)
      BY DEF WiresOK
<1>3. /\ Reply(m.w, TRUE) \in Seq(Messages) /\ Reply(m.w, FALSE) \in Seq(Messages)
      /\ Ended(m.s) \in Messages
      BY <1>1, RepliesAreMessages, EndedIsMessage
<1>4. fromExec' \in Seq(Messages)
  <2>1. <<Ended(m.s)>> \o Reply(m.w, TRUE) \in Seq(Messages)
    <3>1. <<Ended(m.s)>> \in Seq(Messages)
          BY <1>3
    <3> QED BY <1>3, <3>1, ConcatProperties
  <2>2. Tells(Reply(m.w, TRUE)) \/ Tells(Reply(m.w, FALSE)) \/ Tells(<<Ended(m.s)>> \o Reply(m.w, TRUE))
        BY DEF ExecPlay
  <2> QED BY <1>2, <1>3, <2>1, <2>2, ToldIsSeq
<1>5. slot' \in [s : Sounds, st : {"off", "playing", "drained"}]
  <2>1. \A st \in {"off", "playing", "drained"} :
          [s |-> m.s, st |-> st] \in [s : Sounds, st : {"off", "playing", "drained"}]
        BY <1>1
  <2> QED BY <2>1, NoSlotIsSlot DEF ExecPlay
<1> QED BY <1>4, <1>5

\* What the executor still has of a broken link: the first k requests, for
\* whose replies nobody waits.
Cut(k) == [j \in 1..k |-> [toExec[j] EXCEPT !.w = 0]]

LEMMA CutIsSeq ==
  ASSUME toExec \in Seq(Requests), NEW k \in 0..Len(toExec)
  PROVE  /\ Cut(k) \in Seq(Requests) /\ DOMAIN Cut(k) = 1..k /\ 1..k \subseteq DOMAIN toExec
         /\ \A j \in 1..k : Cut(k)[j].op = toExec[j].op /\ Cut(k)[j].s = toExec[j].s
<1>1. k \in Nat /\ 1..k \subseteq DOMAIN toExec
      OBVIOUS
<1>2. \A j \in 1..k : toExec[j] \in Requests
      BY <1>1
<1>3. \A m \in Requests : LET c == [m EXCEPT !.w = 0] IN c \in Requests /\ c.op = m.op /\ c.s = m.s
      BY DEF Requests
<1>4. Cut(k) \in [1..k -> Requests]
      BY <1>2, <1>3 DEF Cut
<1>5. Cut(k) \in Seq(Requests) /\ DOMAIN Cut(k) = 1..k
      BY <1>1, <1>4, SeqDef
<1>6. \A j \in 1..k : Cut(k)[j].op = toExec[j].op /\ Cut(k)[j].s = toExec[j].s
      BY <1>2, <1>3 DEF Cut
<1> QED BY <1>1, <1>5, <1>6

LEMMA WiresStep ==
  ASSUME TypeOK, TtsAssumption, [Next]_vars
  PROVE  WiresOK'
<1>0. /\ epoch \in Nat /\ waitEnded \in Nat /\ timers \subseteq Nat \ {0}
      /\ said \in Nat /\ tones \in Nat /\ timely \in BOOLEAN /\ connected \in BOOLEAN /\ crashes \in Nat
      /\ toExec \in Seq(Requests) /\ fromExec \in Seq(Messages)
      /\ slot \in [s : Sounds, st : {"off", "playing", "drained"}]
      /\ missed \in BOOLEAN /\ crowded \subseteq 0..epoch /\ drops \in Nat
      /\ pumps \subseteq Pump /\ WiresOK
      BY DEF TypeOK, WiresOK
<1>1. ASSUME NEW k \in 1..MaxParts, Speak(k) PROVE WiresOK'
  <2>1. said' \in Nat
        BY <1>0, <1>1 DEF Speak, TtsAssumption
  <2>2. epoch' = epoch /\ crowded' \in {crowded, crowded \cup {epoch}}
        BY <1>1 DEF Speak
  <2>3. crowded' \subseteq 0..epoch'
        BY <1>0, <2>2
  <2> QED BY <1>0, <1>1, <2>1, <2>3 DEF Speak, WiresOK
<1>2. CASE Stop
  <2>1. toExec' \in Seq(Requests)
        BY <1>0, <1>2, StopIsRequest, SentIsSeq DEF Stop
  <2>2. epoch' = epoch + 1 /\ crowded' = crowded
        BY <1>2 DEF Stop
  <2>3. crowded' \subseteq 0..epoch'
        BY <1>0, <2>2
  <2> QED BY <1>0, <1>2, <2>1, <2>3 DEF Stop, WiresOK
<1>3. CASE TestTone
  <2>1. toExec' \in Seq(Requests)
        BY <1>0, <1>3, ToneIsSound, PlayIsRequest DEF TestTone
  <2> QED BY <1>0, <1>3, <2>1 DEF TestTone, WiresOK
<1>4. ASSUME NEW p \in pumps, Synthesized(p) PROVE WiresOK'
  <2>1. p.s.id \in Nat \ {0} /\ p.s \in Sounds
        BY <1>0, PumpFields, SentenceIsSound
  <2>2. PlayMsg(p.s, p.s.id) \in Requests
        BY <2>1, PlayIsRequest
  <2>3. toExec' \in Seq(Requests)
    <3>1. Append(toExec, PlayMsg(p.s, p.s.id)) \in Seq(Requests)
          BY <1>0, <2>2
    <3>2. toExec' = toExec \/ toExec' = Append(toExec, PlayMsg(p.s, p.s.id))
          BY <1>4 DEF Synthesized
    <3> QED BY <1>0, <3>1, <3>2
  <2>4. waitEnded' \in Nat /\ timers' \subseteq Nat \ {0}
        BY <1>0, <1>4, <2>1 DEF Synthesized
  <2> QED BY <1>0, <1>4, <2>3, <2>4 DEF Synthesized, WiresOK
<1>5. ASSUME NEW p \in pumps, TimedOut(p) PROVE WiresOK'
  <2>1. toExec' \in Seq(Requests)
        BY <1>0, <1>5, PlayAnsweredWires DEF TimedOut
  <2> QED BY <1>0, <1>5, <2>1 DEF TimedOut, WiresOK
<1>6. CASE ReplyArrives
  <2>1. toExec' \in Seq(Requests)
        BY <1>0, <1>6, PlayAnsweredWires DEF ReplyArrives
  <2>2. fromExec' \in Seq(Messages)
        BY <1>0, <1>6, HeadTail DEF ReplyArrives
  <2> QED BY <1>0, <1>6, <2>1, <2>2 DEF ReplyArrives, WiresOK
<1>7. CASE EndedArrives
  <2>1. fromExec' \in Seq(Messages)
        BY <1>0, <1>7, HeadTail DEF EndedArrives
  <2>2. timers' \subseteq Nat \ {0}
        BY <1>0, <1>7 DEF EndedArrives
  <2> QED BY <1>0, <1>7, <2>1, <2>2 DEF EndedArrives, WiresOK
<1>8. ASSUME NEW i \in timers, TimerFires(i) PROVE WiresOK'
      BY <1>0, <1>8 DEF TimerFires, WiresOK
<1>9. CASE ExecStep
  <2>1. Head(toExec) \in Requests /\ toExec' \in Seq(Requests)
        BY <1>0, <1>9, HeadTail DEF ExecStep
  <2>2. /\ fromExec' \in Seq(Messages)
        /\ slot' \in [s : Sounds, st : {"off", "playing", "drained"}]
        BY <1>0, <1>9, <2>1, ExecPlayWires, NoSlotIsSlot DEF ExecStep
  <2> QED BY <1>0, <1>9, <2>1, <2>2 DEF ExecStep, WiresOK
<1>10. CASE SourceEnds
  <2>1. slot.s \in Sounds /\ Ended(slot.s) \in Messages
        BY <1>0, EndedIsMessage
  <2>2. fromExec' \in Seq(Messages)
    <3>1. <<Ended(slot.s)>> \in Seq(Messages)
          BY <2>1
    <3> QED BY <1>0, <1>10, <3>1, ToldIsSeq DEF SourceEnds
  <2>3. slot' \in [s : Sounds, st : {"off", "playing", "drained"}]
        BY <1>0, <1>10 DEF SourceEnds
  <2> QED BY <1>0, <1>10, <2>2, <2>3 DEF SourceEnds, WiresOK
<1>11. CASE Disconnect
  <2>1. toExec' \in Seq(Requests) /\ slot' \in [s : Sounds, st : {"off", "playing", "drained"}]
    <3>1. CASE slot' = NoSlot /\ toExec' = <<>>
          BY <3>1, EmptySeq, NoSlotIsSlot
    <3>2. CASE slot' = slot /\ \E k \in 0..Len(toExec) : toExec' = Cut(k)
          BY <1>0, <3>2, CutIsSeq
    <3> QED BY <1>11, <3>1, <3>2 DEF Disconnect, Cut
  <2>2. fromExec' \in Seq(Messages)
        BY <1>11, EmptySeq DEF Disconnect
  <2>3. connected' \in BOOLEAN /\ crashes' \in Nat /\ drops' \in Nat
    <3>1. connected' = FALSE /\ crashes' = crashes + 1 /\ (drops' = drops \/ drops' = drops + 1)
          BY <1>11 DEF Disconnect
    <3> QED BY <1>0, <3>1, NextNat
  <2>5. missed' \in BOOLEAN
    <3>1. \A P : (missed \/ P) \in BOOLEAN
          OBVIOUS
    <3>2. missed' = missed \/ \E k \in 0..Len(toExec) :
            missed' = (missed \/ \E j \in DOMAIN toExec : j > k /\ toExec[j].op = "stop")
          BY <1>11 DEF Disconnect
    <3> QED BY <1>0, <3>1, <3>2
  <2>4. /\ waitEnded' \in Nat /\ timers' \subseteq Nat \ {0} /\ said' \in Nat /\ tones' \in Nat
        /\ timely' \in BOOLEAN /\ epoch' \in Nat /\ crowded' \subseteq 0..epoch'
        BY <1>0, <1>11 DEF Disconnect
  <2> QED BY <2>1, <2>2, <2>3, <2>4, <2>5 DEF WiresOK
<1>12. CASE Reconnect
       BY <1>0, <1>12 DEF Reconnect, WiresOK
<1>13. CASE UNCHANGED vars
       BY <1>0, <1>13 DEF vars, WiresOK
<1> QED BY <1>1, <1>2, <1>3, <1>4, <1>5, <1>6, <1>7, <1>8, <1>9, <1>10, <1>11, <1>12, <1>13
        DEF Next, PumpStep

LEMMA TypeIsParts == TypeOK <=> WiresOK /\ queue \in Seq(Sentence) /\ pumps \subseteq Pump /\ running \in BOOLEAN
BY DEF TypeOK, WiresOK

-----------------------------------------------------------------------------
(* The executor's side.                                                    *)

\* A request appended behind the others keeps what is behind each of them.
LEMMA AppendKeepsStops ==
  ASSUME NEW o \in Seq(Requests), NEW m \in Requests,
         NEW o2, o2 = Append(o, m)
  PROVE  /\ DOMAIN o \subseteq DOMAIN o2 /\ \A k \in DOMAIN o : o2[k] = o[k]
         /\ Len(o) + 1 \in DOMAIN o2 /\ o2[Len(o) + 1] = m
         /\ \A k \in DOMAIN o2 : k \in DOMAIN o \/ k = Len(o) + 1
         /\ \A k \in DOMAIN o : k < Len(o) + 1
         /\ 0 < Len(o) + 1
OBVIOUS

\* Nothing is sent behind a stop but a stop, a tone or a sentence of the
\* present epoch: the wire stays silenced.
LEMMA SendKeepsSilence ==
  ASSUME TypeOK, Silenced, UNCHANGED <<epoch, slot, missed>>, NEW m \in Requests,
         m.op = "play" => Of(m.s),
         toExec' = Send(toExec, m)
  PROVE  Silenced'
<1>1. toExec \in Seq(Requests) /\ epoch' = epoch /\ slot' = slot /\ missed' = missed
      BY DEF TypeOK
<1>2. CASE ~connected
  <2>1. toExec' = toExec
        BY <1>2 DEF Send
  <2> QED BY <1>1, <2>1 DEF Silenced, SilentAt, SlotSilent, Of, StopBehind
<1>3. CASE connected
  <2>1. toExec' = Append(toExec, m)
        BY <1>3 DEF Send
  <2>2. /\ DOMAIN toExec \subseteq DOMAIN toExec' /\ \A k \in DOMAIN toExec : toExec'[k] = toExec[k]
        /\ \A k \in DOMAIN toExec' : k \in DOMAIN toExec \/ toExec'[k] = m
        BY <1>1, <2>1, AppendKeepsStops
  <2>3. \A j : StopBehind(j) => StopBehind(j)'
        BY <2>2 DEF StopBehind
  <2>4. ASSUME NEW j \in DOMAIN toExec', ~missed PROVE SilentAt(j)'
        BY <1>1, <2>2, <2>3, <2>4 DEF Silenced, SilentAt, Of
  <2>5. ~missed => SlotSilent'
        BY <1>1, <2>3 DEF Silenced, SlotSilent, Of
  <2> QED BY <1>1, <2>4, <2>5 DEF Silenced
<1> QED BY <1>2, <1>3

\* A stop silences whatever was sent before it.
LEMMA StopSilencesAll ==
  ASSUME TypeOK, connected, slot' = slot, toExec' = Send(toExec, StopMsg)
  PROVE  Silenced'
<1>1. toExec \in Seq(Requests)
      BY DEF TypeOK
<1>2. toExec' = Append(toExec, StopMsg)
      BY DEF Send
<1>3. /\ Len(toExec) + 1 \in DOMAIN toExec' /\ toExec'[Len(toExec) + 1] = StopMsg
      /\ \A k \in DOMAIN toExec' : k \in DOMAIN toExec \/ k = Len(toExec) + 1
      /\ \A k \in DOMAIN toExec : k < Len(toExec) + 1
      /\ 0 < Len(toExec) + 1
      BY <1>1, <1>2, StopIsRequest, AppendKeepsStops
<1>4. StopMsg.op = "stop"
      BY DEF StopMsg
<1>5. \A j : j < Len(toExec) + 1 => StopBehind(j)'
      BY <1>3, <1>4 DEF StopBehind
<1>6. ASSUME NEW j \in DOMAIN toExec' PROVE SilentAt(j)'
      BY <1>3, <1>4, <1>5 DEF SilentAt
<1>7. SlotSilent'
      BY <1>3, <1>5 DEF SlotSilent
<1> QED BY <1>6, <1>7 DEF Silenced

\* What a step must not disturb for the wires to stay silenced.
LEMMA SilenceRests ==
  ASSUME Silenced, UNCHANGED <<epoch, toExec, slot, missed>>
  PROVE  Silenced'
BY DEF Silenced, SilentAt, SlotSilent, Of, StopBehind

LEMMA ExecStepSilences ==
  ASSUME TypeOK, Silenced, ExecStep
  PROVE  Silenced'
<1>1. toExec \in Seq(Requests) /\ toExec # <<>> /\ toExec' = Tail(toExec)
      BY DEF TypeOK, ExecStep
<1>2. epoch' = epoch /\ missed' = missed
      BY DEF ExecStep
<1>0. CASE missed
      BY <1>0, <1>2 DEF Silenced
<1>3. /\ Head(toExec) = toExec[1] /\ 1 \in DOMAIN toExec
      /\ DOMAIN toExec = 1..Len(toExec) /\ Len(toExec) \in Nat
      /\ \A k \in DOMAIN Tail(toExec) : k \in Nat \ {0} /\ k + 1 \in DOMAIN toExec /\ Tail(toExec)[k] = toExec[k + 1]
      /\ \A k \in DOMAIN toExec : k > 1 => k - 1 \in DOMAIN Tail(toExec) /\ Tail(toExec)[k - 1] = toExec[k]
      BY <1>1
<1>4. \A j \in Nat : StopBehind(j + 1) => StopBehind(j)'
  <2>1. SUFFICES ASSUME NEW j \in Nat, NEW k \in DOMAIN toExec, j + 1 < k, toExec[k].op = "stop"
                 PROVE  \E i \in DOMAIN toExec' : j < i /\ toExec'[i].op = "stop"
        BY DEF StopBehind
  <2>2. k \in Nat /\ k > 1 /\ j < k - 1
        BY <1>3, <2>1
  <2> QED BY <1>1, <1>3, <2>1, <2>2
<1>5. ASSUME ~missed, NEW j \in DOMAIN toExec' PROVE SilentAt(j)'
  <2>1. j \in Nat /\ j + 1 \in DOMAIN toExec /\ toExec'[j] = toExec[j + 1]
        BY <1>1, <1>3
  <2>2. SilentAt(j + 1)
        BY <1>5, <2>1 DEF Silenced
  <2>3. StopBehind(j + 1) => StopBehind(j)'
        BY <1>4, <2>1
  <2> QED BY <1>2, <2>1, <2>2, <2>3 DEF SilentAt, Of
<1>6. ASSUME ~missed PROVE SlotSilent'
  <2>1. CASE slot' = NoSlot
        BY <2>1 DEF SlotSilent, NoSlot
  <2>2. CASE /\ Head(toExec).op = "play" /\ slot'.s = Head(toExec).s
    <3>1. SilentAt(1)
          BY <1>3, <1>6 DEF Silenced
    <3>2. StopBehind(1) => StopBehind(0)'
          BY <1>4
    <3> QED BY <1>2, <1>3, <2>2, <3>1, <3>2 DEF SilentAt, SlotSilent, Of
  <2>3. ASSUME ExecPlay(Head(toExec)) PROVE slot' = NoSlot \/ slot'.s = Head(toExec).s
    <3> DEFINE m == Head(toExec)
    <3>1. \/ slot' = NoSlot \/ slot' = [s |-> m.s, st |-> "playing"]
          \/ slot' = [s |-> m.s, st |-> "drained"]
          BY <2>3 DEF ExecPlay
    <3> HIDE DEF m
    <3>2. slot' = NoSlot \/ slot'.s = m.s
          BY <3>1
    <3> QED BY <3>2 DEF m
  <2>4. \/ Head(toExec).op = "play" /\ ExecPlay(Head(toExec))
        \/ slot' = NoSlot
        BY DEF ExecStep
  <2> QED BY <2>1, <2>2, <2>3, <2>4
<1> QED BY <1>0, <1>5, <1>6 DEF Silenced

\* A link that breaks takes the stops it has not delivered with it; when it
\* took none, those that are needed are among the requests that arrived.
LEMMA DisconnectSilences ==
  ASSUME TypeOK, Silenced, Disconnect
  PROVE  Silenced'
<1>1. toExec \in Seq(Requests) /\ epoch' = epoch
      BY DEF TypeOK, Disconnect
<1>2. CASE slot' = NoSlot /\ toExec' = <<>>
  <2>1. NoSlot.st # "playing"
        BY DEF NoSlot
  <2> QED BY <1>2, <2>1 DEF Silenced, SlotSilent
<1>3. ASSUME slot' = slot, NEW k \in 0..Len(toExec), toExec' = Cut(k),
             missed' = (missed \/ \E j \in DOMAIN toExec : j > k /\ toExec[j].op = "stop")
      PROVE  Silenced'
  <2>1. /\ DOMAIN toExec' = 1..k /\ 1..k \subseteq DOMAIN toExec
        /\ \A j \in 1..k : toExec'[j].op = toExec[j].op /\ toExec'[j].s = toExec[j].s
        BY <1>1, <1>3, CutIsSeq
  <2>2. SUFFICES ASSUME ~missed' PROVE (\A j \in DOMAIN toExec' : SilentAt(j)') /\ SlotSilent'
        BY DEF Silenced
  <2>3. \A j \in DOMAIN toExec : toExec[j].op = "stop" => j \in 1..k
    <3>1. ~\E j \in DOMAIN toExec : j > k /\ toExec[j].op = "stop"
          BY <1>3, <2>2
    <3>2. \A j \in DOMAIN toExec : j \in Nat \ {0} /\ (j > k \/ j \in 1..k)
          BY <1>1, <1>3
    <3> QED BY <3>1, <3>2
  <2>4. \A j : StopBehind(j) => StopBehind(j)'
        BY <2>1, <2>3 DEF StopBehind
  <2>5. (\A j \in DOMAIN toExec : SilentAt(j)) /\ SlotSilent
        BY <1>3, <2>2 DEF Silenced
  <2>6. ASSUME NEW j \in DOMAIN toExec' PROVE SilentAt(j)'
        BY <1>1, <2>1, <2>4, <2>5 DEF SilentAt, Of
  <2>7. SlotSilent'
        BY <1>1, <1>3, <2>4, <2>5 DEF SlotSilent, Of
  <2> QED BY <2>6, <2>7
<1> QED BY <1>2, <1>3 DEF Disconnect, Cut

LEMMA SilencedStep ==
  ASSUME TypeOK, Numbered, Silenced, [Next]_vars
  PROVE  Silenced'
<1>1. ASSUME NEW k \in 1..MaxParts, Speak(k) PROVE Silenced'
      BY <1>1, SilenceRests DEF Speak
<1>2. CASE Stop
  <2>1. CASE connected
        BY <1>2, <2>1, StopSilencesAll DEF Stop
  <2>2. CASE ~connected
        BY <1>2, <2>2 DEF Stop, Silenced
  <2> QED BY <2>1, <2>2
<1>3. CASE TestTone
  <2>1. PlayMsg(Tone, 0) \in Requests /\ Of(PlayMsg(Tone, 0).s)
        BY PlayIsRequest, ToneIsSound DEF Of, PlayMsg
  <2>2. toExec' = Send(toExec, PlayMsg(Tone, 0))
        BY <1>3 DEF TestTone, Send
  <2> QED BY <1>3, <2>1, <2>2, SendKeepsSilence DEF TestTone
<1>4. ASSUME NEW p \in pumps, Synthesized(p) PROVE Silenced'
  <2>1. p \in Pump
        BY DEF TypeOK
  <2>2. CASE toExec' = toExec
        BY <1>4, <2>2, SilenceRests DEF Synthesized
  <2>3. CASE p.ep = epoch /\ connected /\ toExec' = Append(toExec, PlayMsg(p.s, p.s.id))
    <3>1. p.s.ep = epoch /\ p.s \in Sounds /\ p.s.id \in Nat
          BY <2>1, <2>3, PumpFields, SentenceIsSound DEF Numbered
    <3>2. PlayMsg(p.s, p.s.id) \in Requests /\ PlayMsg(p.s, p.s.id).s = p.s
          BY <3>1, PlayIsRequest DEF PlayMsg
    <3>3. Of(PlayMsg(p.s, p.s.id).s)
          BY <3>1, <3>2 DEF Of
    <3>4. toExec' = Send(toExec, PlayMsg(p.s, p.s.id))
          BY <2>3 DEF Send
    <3>5. UNCHANGED <<epoch, slot, missed>>
          BY <1>4 DEF Synthesized
    <3> QED BY <3>2, <3>3, <3>4, <3>5, SendKeepsSilence
  <2> QED BY <1>4, <2>2, <2>3 DEF Synthesized
<1>5. ASSUME NEW p \in pumps, NEW ok, PlayAnswered(p, ok), UNCHANGED <<epoch, slot, missed>>
      PROVE  Silenced'
  <2>1. CASE toExec' = toExec
        BY <1>5, <2>1, SilenceRests
  <2>2. CASE toExec' = Send(toExec, StopMsg)
    <3>1. CASE connected
          BY <1>5, <2>2, <3>1, StopSilencesAll
    <3>2. CASE ~connected
          BY <2>1, <2>2, <3>2 DEF Send
    <3> QED BY <3>1, <3>2
  <2> QED BY <1>5, <2>1, <2>2 DEF PlayAnswered
<1>6. ASSUME NEW p \in pumps, TimedOut(p) PROVE Silenced'
      BY <1>5, <1>6 DEF TimedOut
<1>7. CASE ReplyArrives
  <2>1. UNCHANGED <<epoch, slot, missed>>
        BY <1>7 DEF ReplyArrives
  <2>2. CASE toExec' = toExec
        BY <2>1, <2>2, SilenceRests
  <2>3. ASSUME NEW p \in pumps, PlayAnswered(p, Head(fromExec).ok) PROVE Silenced'
        BY <1>5, <2>1, <2>3
  <2> QED BY <1>7, <2>2, <2>3 DEF ReplyArrives
<1>8. CASE EndedArrives
      BY <1>8, SilenceRests DEF EndedArrives
<1>9. ASSUME NEW i \in timers, TimerFires(i) PROVE Silenced'
      BY <1>9, SilenceRests DEF TimerFires
<1>10. CASE ExecStep
       BY <1>10, ExecStepSilences
<1>11. CASE SourceEnds
  <2>1. slot'.st = "drained"
        BY <1>11 DEF SourceEnds, TypeOK
  <2> QED BY <1>11, <2>1 DEF SourceEnds, Silenced, SilentAt, SlotSilent, Of, StopBehind
<1>12. CASE Disconnect
       BY <1>12, DisconnectSilences
<1>13. CASE Reconnect
       BY <1>13, SilenceRests DEF Reconnect
<1>14. CASE UNCHANGED vars
       BY <1>14, SilenceRests DEF vars
<1> QED BY <1>1, <1>2, <1>3, <1>4, <1>6, <1>7, <1>8, <1>9, <1>10, <1>11, <1>12, <1>13, <1>14
        DEF Next, PumpStep

\* Without a link there is no stop and no play to be sent, and nothing to be
\* told.
LEMMA DownStep ==
  ASSUME TypeOK, Down, [Next]_vars
  PROVE  Down'
<1>1. ASSUME UNCHANGED <<connected, slot, drops>>, \/ connected
                                                   \/ UNCHANGED <<fromExec, toExec>>
      PROVE  Down'
      BY <1>1 DEF Down
<1>2. \A m : ~connected => Send(toExec, m) = toExec
      BY DEF Send
<1>3. ASSUME NEW k \in 1..MaxParts, Speak(k) PROVE Down'
      BY <1>1, <1>3 DEF Speak
<1>4. CASE Stop
      BY <1>1, <1>2, <1>4 DEF Stop
<1>5. CASE TestTone
      BY <1>1, <1>5 DEF TestTone
<1>6. ASSUME NEW p \in pumps, Synthesized(p) PROVE Down'
      BY <1>1, <1>6 DEF Synthesized
<1>7. ASSUME NEW p \in pumps, TimedOut(p) PROVE Down'
      BY <1>1, <1>2, <1>7 DEF TimedOut, PlayAnswered
<1>8. CASE ReplyArrives
      BY <1>1, <1>8 DEF ReplyArrives, Down
<1>9. CASE EndedArrives
      BY <1>1, <1>9 DEF EndedArrives, Down
<1>10. ASSUME NEW i \in timers, TimerFires(i) PROVE Down'
       BY <1>1, <1>10 DEF TimerFires
<1>11. CASE ExecStep
  <2>1. ~connected => drops # 0
        BY <1>11 DEF ExecStep, Down
  <2>2. ~connected => fromExec' = fromExec
        BY <1>11 DEF ExecStep, ExecPlay, Tells
  <2> QED BY <1>11, <2>1, <2>2 DEF ExecStep, Down
<1>12. CASE SourceEnds
  <2>1. ~connected => drops # 0
        BY <1>12 DEF SourceEnds, Down, NoSlot
  <2>2. ~connected => fromExec' = fromExec
        BY <1>12 DEF SourceEnds, Tells
  <2> QED BY <1>12, <2>1, <2>2 DEF SourceEnds, Down
<1>13. CASE Disconnect
  <2>1. drops \in Nat /\ \A n \in Nat : n + 1 # 0
        BY DEF TypeOK
  <2> QED BY <1>13, <2>1 DEF Disconnect, Down
<1>14. CASE Reconnect
       BY <1>14 DEF Reconnect, Down
<1>15. CASE UNCHANGED vars
       BY <1>1, <1>15 DEF vars
<1> QED BY <1>3, <1>4, <1>5, <1>6, <1>7, <1>8, <1>9, <1>10, <1>11, <1>12, <1>13, <1>14, <1>15
        DEF Next, PumpStep

-----------------------------------------------------------------------------
(* The calm time, action by action.                                        *)

LEMMA Literals ==
  ASSUME NEW a, NEW b
  PROVE  /\ Head(<<a>>) = a /\ Tail(<<a>>) = <<>> /\ <<a>> # <<>>
         /\ Head(<<a, b>>) = a /\ Tail(<<a, b>>) = <<b>> /\ <<a, b>> # <<>>
         /\ Append(<<>>, a) = <<a>> /\ Append(<<a>>, b) = <<a, b>>
         /\ <<>> \o <<a>> = <<a>> /\ <<a>> \o <<b>> = <<a, b>>
<1>1. Head(<<a>>) = a /\ Tail(<<a>>) = <<>> /\ <<a>> # <<>>
      OBVIOUS
<1>2. Head(<<a, b>>) = a /\ <<a, b>> # <<>>
      OBVIOUS
<1>3. Tail(<<a, b>>) = <<b>>
      OBVIOUS
<1>4. Append(<<>>, a) = <<a>>
      OBVIOUS
<1>5. Append(<<a>>, b) = <<a, b>>
  <2>1. <<a>> \in Seq({a, b}) /\ <<a, b>> \in Seq({a, b}) /\ Append(<<a>>, b) \in Seq({a, b})
        OBVIOUS
  <2>2. Len(Append(<<a>>, b)) = 2 /\ Len(<<a, b>>) = 2
        OBVIOUS
  <2>3. \A i \in 1..2 : Append(<<a>>, b)[i] = <<a, b>>[i]
    <3>1. Append(<<a>>, b)[1] = a /\ Append(<<a>>, b)[2] = b
          OBVIOUS
    <3>2. \A i \in 1..2 : i = 1 \/ i = 2
          OBVIOUS
    <3> QED BY <3>1, <3>2
  <2> QED BY <2>1, <2>2, <2>3, SeqEqual
<1>6. <<>> \o <<a>> = <<a>>
      OBVIOUS
<1>7. <<a>> \o <<b>> = <<a, b>>
  <2>1. /\ <<a>> \in Seq({a, b}) /\ <<b>> \in Seq({a, b}) /\ <<a, b>> \in Seq({a, b})
        /\ Len(<<a>>) = 1 /\ Len(<<b>>) = 1 /\ Len(<<a, b>>) = 2
        OBVIOUS
  <2>2. /\ <<a>> \o <<b>> \in Seq({a, b}) /\ Len(<<a>> \o <<b>>) = 2
        /\ (<<a>> \o <<b>>)[1] = a /\ (<<a>> \o <<b>>)[2] = b
        BY <2>1, ConcatProperties
  <2>3. \A i \in 1..2 : (<<a>> \o <<b>>)[i] = <<a, b>>[i]
    <3>1. \A i \in 1..2 : i = 1 \/ i = 2
          OBVIOUS
    <3> QED BY <2>2, <3>1
  <2> QED BY <2>1, <2>2, <2>3, SeqEqual
<1> QED BY <1>1, <1>2, <1>3, <1>4, <1>5, <1>6, <1>7

LEMMA NothingBefore ==
  ASSUME NEW a, NEW b
  PROVE  <<>> \o <<a, b>> = <<a, b>>
<1>1. <<a, b>> \in Seq({a, b})
      OBVIOUS
<1> QED BY <1>1, ConcatEmptySeq

LEMMA MessageFields ==
  ASSUME NEW p, NEW ok
  PROVE  /\ Told(p, ok).op = "reply" /\ Told(p, ok).w = p.s.id /\ Told(p, ok).ok = ok
         /\ Told(p, ok).s = Tone
         /\ Ended(p.s).op = "ended" /\ Ended(p.s).s = p.s /\ Ended(p.s).w = 0
         /\ PlayMsg(p.s, p.s.id).op = "play" /\ PlayMsg(p.s, p.s.id).s = p.s
         /\ PlayMsg(p.s, p.s.id).w = p.s.id
BY DEF Told, Ended, PlayMsg

\* The past is made of numbers.
LEMMA PastIsNat == TypeOK => Past \subseteq Nat
<1> SUFFICES ASSUME TypeOK PROVE Past \subseteq Nat
    OBVIOUS
<1>1. Tone.id = 0 /\ \A s \in Sentence : s.id \in Nat
      BY DEF Tone, Sentence
<1>2. slot.s \in Sounds
      BY DEF TypeOK
<1>3. slot.s.id \in Nat
      BY <1>1, <1>2 DEF Sounds
<1> QED BY <1>3 DEF TypeOK, Past

\* The one pump goes on while the executor is idle.
LEMMA GoOnCalm ==
  ASSUME TypeOK, Numbered, OnePump, NEW p \in pumps, GoOn(p.ep, pumps \ {p}),
         slot' = slot, said' = said, epoch' = epoch, Past' \subseteq Past \cup {0, p.s.id}, Idle'
  PROVE  OnePump' /\ Stage'
<1>1. p \in Pump /\ p.s.id \in Nat /\ said \in Nat /\ p.s.id <= said /\ epoch \in Nat
      BY PumpFields DEF TypeOK, Numbered
<1>2. pumps \ {p} = {} /\ p.ep = epoch
      BY DEF OnePump
<1>3. \A i \in Past' : i \in Nat /\ i <= p.s.id
      BY <1>1, PastIsNat DEF OnePump
<1>4. \A i \in Past' : i <= said'
      BY <1>1, <1>3
<1>5. CASE queue # <<>>
  <2> DEFINE r == Fresh(epoch, Head(queue))
  <2>1. pumps' = {r} /\ running' = running
        BY <1>2, <1>5 DEF GoOn, Fresh
  <2>2. /\ r.ep = epoch /\ r.ph = "synth" /\ r.over = FALSE /\ r.s = Head(queue)
        /\ p.s.id < Head(queue).id /\ Head(queue).id \in Nat
    <3>1. Head(queue) \in Sentence /\ p.s.id < Head(queue).id
          BY <1>5, Taken
    <3>2. Head(queue).id \in Nat
          BY <3>1 DEF Sentence
    <3> QED BY <1>1, <3>1, <3>2, FreshIsPump
  <2> HIDE DEF r
  <2>3. \A i \in Past' : i < r.s.id
        BY <1>1, <1>3, <2>2
  <2>4. \A i \in Past' : i <= r.s.id
        BY <1>1, <1>3, <2>2
  <2>5. running'
        BY <2>1 DEF OnePump
  <2>6. OnePump'
        BY <1>4, <2>1, <2>2, <2>3, <2>4, <2>5 DEF OnePump
  <2> QED BY <2>6 DEF Stage
<1>6. CASE queue = <<>>
  <2>1. pumps' = {}
        BY <1>2, <1>6 DEF GoOn
  <2> QED BY <1>4, <2>1 DEF OnePump, Stage
<1> QED BY <1>5, <1>6

\* The one pump becomes another for the same sentence, past synthesis.
LEMMA PumpCalm ==
  ASSUME TypeOK, Numbered, OnePump, NEW p \in pumps, NEW r, r.ep = p.ep, r.s = p.s, r.ph # "synth",
         pumps' = {r}, running' = running, slot' = slot, said' = said, epoch' = epoch,
         Past' \subseteq Past \cup {0, p.s.id}, waitEnded' \in {0, p.s.id}
  PROVE  OnePump'
<1>1. p \in Pump /\ p.s.id \in Nat /\ said \in Nat /\ p.s.id <= said
      BY PumpFields DEF TypeOK, Numbered
<1>2. \A i \in Past' : i \in Nat /\ i <= p.s.id
      BY <1>1, PastIsNat DEF OnePump
<1>3. \A i \in Past' : i <= said'
      BY <1>1, <1>2
<1>4. running'
      BY DEF OnePump
<1> QED BY <1>1, <1>2, <1>3, <1>4 DEF OnePump

\* While a pump synthesizes the executor is idle.
LEMMA SynthIsIdle ==
  ASSUME OnePump, Stage, NEW p \in pumps, p.ph = "synth"
  PROVE  Idle
BY DEF OnePump, Stage, Asked, Begun, Over

LEMMA SynthesizedCalm ==
  ASSUME TypeOK, Numbered, OnePump, Stage, NEW p \in pumps, Synthesized(p)
  PROVE  OnePump' /\ Stage'
<1>1. /\ p.ph = "synth" /\ slot' = slot /\ said' = said /\ epoch' = epoch /\ fromExec' = fromExec
      BY DEF Synthesized
<1>2. Idle
      BY <1>1, SynthIsIdle
<1>3. Past' \subseteq Past \cup {p.s.id}
      BY <1>1 DEF Synthesized, Past
<1>4. ASSUME GoOn(p.ep, pumps \ {p}), toExec' = toExec PROVE OnePump' /\ Stage'
  <2>1. Idle'
        BY <1>1, <1>2, <1>4 DEF Idle, Quiet
  <2> QED BY <1>1, <1>3, <1>4, <2>1, GoOnCalm
<1>5. ASSUME waitEnded' = p.s.id, pumps' = (pumps \ {p}) \cup {[p EXCEPT !.ph = "play"]},
             toExec' = Append(toExec, PlayMsg(p.s, p.s.id)), UNCHANGED <<queue, running>>
      PROVE  OnePump' /\ Stage'
  <2> DEFINE m == [p EXCEPT !.ph = "play"]
  <2>1. p \in Pump /\ "play" \in Phases
        BY DEF TypeOK, Phases
  <2>2. m.ep = p.ep /\ m.ph = "play" /\ m.s = p.s /\ m.over = p.over
        BY <2>1, Moved
  <2>3. pumps' = {m}
        BY <1>5 DEF OnePump
  <2> HIDE DEF m
  <2>4. OnePump'
        BY <1>1, <1>3, <1>5, <2>2, <2>3, PumpCalm
  <2>5. ~m.over /\ slot.s.id < m.s.id
        BY <1>1, <2>2 DEF OnePump, Past
  <2>6. toExec' = <<PlayMsg(m.s, m.s.id)>>
    <3>1. toExec = <<>>
          BY <1>2 DEF Idle, Quiet
    <3> QED BY <1>5, <2>2, <3>1, Literals
  <2>7. Asked(m)'
        BY <1>1, <1>2, <2>2, <2>5, <2>6 DEF Asked, Idle, Quiet
  <2> QED BY <2>3, <2>4, <2>7 DEF Stage
<1>6. \/ GoOn(p.ep, pumps \ {p}) /\ toExec' = toExec
      \/ /\ waitEnded' = p.s.id /\ pumps' = (pumps \ {p}) \cup {[p EXCEPT !.ph = "play"]}
         /\ toExec' = Append(toExec, PlayMsg(p.s, p.s.id)) /\ UNCHANGED <<queue, running>>
      BY DEF Synthesized
<1> QED BY <1>4, <1>5, <1>6

\* An answer: the pump goes on, or begins to wait.
LEMMA PlayAnsweredCalm ==
  ASSUME TypeOK, Numbered, OnePump, NEW p \in pumps, p.ph = "play", NEW ok \in BOOLEAN, PlayAnswered(p, ok),
         UNCHANGED <<slot, said, epoch, timers, waitEnded>>
  PROVE  /\ toExec' = toExec
         /\ ~ok \/ p.over => (Idle' => OnePump' /\ Stage')
         /\ ok /\ ~p.over =>
              \E m \in pumps' : /\ pumps' = {m} /\ OnePump'
                                /\ m.ph = "wait" /\ m.s = p.s /\ ~m.over
<1>1. p \in Pump /\ "wait" \in Phases /\ p.ep = epoch /\ p.over \in BOOLEAN
      BY PumpFields DEF TypeOK, Phases, OnePump
<1>2. /\ toExec' = toExec
      /\ ok /\ ~p.over => /\ pumps' = (pumps \ {p}) \cup {[p EXCEPT !.ph = "wait"]}
                          /\ UNCHANGED <<queue, running>>
      /\ ~ok \/ p.over => GoOn(p.ep, pumps \ {p})
      BY <1>1 DEF PlayAnswered
<1>3. Past' = Past
      BY DEF Past
<1>4. ASSUME ~ok \/ p.over, Idle' PROVE OnePump' /\ Stage'
      BY <1>2, <1>3, <1>4, GoOnCalm
<1>5. ASSUME ok, ~p.over
      PROVE  \E m \in pumps' : /\ pumps' = {m} /\ OnePump'
                               /\ m.ph = "wait" /\ m.s = p.s /\ ~m.over
  <2> DEFINE m == [p EXCEPT !.ph = "wait"]
  <2>1. m.ep = p.ep /\ m.ph = "wait" /\ m.s = p.s /\ m.over = p.over
        BY <1>1, Moved
  <2>2. pumps' = {m} /\ running' = running
        BY <1>2, <1>5 DEF OnePump
  <2> HIDE DEF m
  <2>3. waitEnded' \in {0, p.s.id}
        BY DEF OnePump
  <2>4. OnePump'
        BY <1>3, <2>1, <2>2, <2>3, PumpCalm
  <2> QED BY <1>5, <2>1, <2>2, <2>4
<1> QED BY <1>2, <1>4, <1>5

LEMMA ReplyArrivesCalm ==
  ASSUME TypeOK, Numbered, OnePump, Stage, ReplyArrives
  PROVE  OnePump' /\ Stage'
<1>1. /\ fromExec # <<>> /\ Head(fromExec).op = "reply" /\ fromExec' = Tail(fromExec)
      /\ UNCHANGED <<slot, said, epoch, timers, waitEnded>>
      BY DEF ReplyArrives
<1>2. PICK p \in pumps : Begun(p) \/ Over(p)
      BY <1>1 DEF Stage, Idle, Asked
<1>3. pumps = {p} /\ p \in Pump /\ p.over \in BOOLEAN
      BY PumpFields DEF OnePump, TypeOK
<1>4. ASSUME NEW ok \in BOOLEAN, NEW rest, p.ph = "play", Quiet \/ Begun(p), toExec = <<>>,
             Head(fromExec) = Told(p, ok), Tail(fromExec) = rest
      PROVE  /\ toExec' = <<>> /\ fromExec' = rest
             /\ ~ok \/ p.over => (Idle' => OnePump' /\ Stage')
             /\ ok /\ ~p.over =>
                  \E m \in pumps' : /\ pumps' = {m} /\ OnePump'
                                    /\ m.ph = "wait" /\ m.s = p.s /\ ~m.over
  <2>1. Head(fromExec).w = p.s.id /\ Head(fromExec).ok = ok
        BY <1>4, MessageFields
  <2>2. PlayAnswered(p, ok)
        BY <1>3, <1>4, <2>1 DEF ReplyArrives
  <2> QED BY <1>1, <1>4, <2>2, PlayAnsweredCalm
<1>5. ASSUME p.ph = "play", ~p.over, Begun(p), fromExec = <<Told(p, TRUE)>> PROVE OnePump' /\ Stage'
  <2>1. toExec = <<>> /\ Head(fromExec) = Told(p, TRUE) /\ Tail(fromExec) = <<>>
        BY <1>5, Literals DEF Begun
  <2>2. PICK m \in pumps' : /\ pumps' = {m} /\ OnePump'
                            /\ m.ph = "wait" /\ m.s = p.s /\ ~m.over
        BY <1>4, <1>5, <2>1
  <2>3. toExec' = <<>> /\ fromExec' = <<>>
        BY <1>4, <1>5, <2>1
  <2>4. Begun(m)'
        BY <1>1, <1>5, <2>2, <2>3 DEF Begun
  <2> QED BY <2>2, <2>4 DEF Stage
<1>6. ASSUME NEW ok \in BOOLEAN, p.ph = "play", Quiet, fromExec = <<Told(p, ok)>> PROVE OnePump' /\ Stage'
  <2>1. toExec = <<>> /\ Head(fromExec) = Told(p, ok) /\ Tail(fromExec) = <<>>
        BY <1>6, Literals DEF Quiet
  <2>2. toExec' = <<>> /\ fromExec' = <<>>
        BY <1>4, <1>6, <2>1
  <2>3. Idle'
        BY <1>1, <1>6, <2>2 DEF Idle, Quiet
  <2>4. CASE ~ok \/ p.over
        BY <1>4, <1>6, <2>1, <2>3, <2>4
  <2>5. CASE ok /\ ~p.over
        BY <1>4, <1>6, <2>1, <2>3, <2>5 DEF Stage
  <2> QED BY <1>3, <2>4, <2>5
<1>7. ASSUME p.ph = "play", ~p.over, Quiet, fromExec = <<Told(p, TRUE), Ended(p.s)>>
      PROVE  OnePump' /\ Stage'
  <2>1. toExec = <<>> /\ Head(fromExec) = Told(p, TRUE) /\ Tail(fromExec) = <<Ended(p.s)>>
        BY <1>7, Literals DEF Quiet
  <2>2. PICK m \in pumps' : /\ pumps' = {m} /\ OnePump'
                            /\ m.ph = "wait" /\ m.s = p.s /\ ~m.over
        BY <1>4, <1>7, <2>1
  <2>3. toExec' = <<>> /\ fromExec' = <<Ended(p.s)>>
        BY <1>4, <1>7, <2>1
  <2>4. Over(m)'
        BY <1>1, <1>7, <2>2, <2>3 DEF Over, Quiet
  <2> QED BY <2>2, <2>4 DEF Stage
<1>8. ASSUME NEW r, Head(<<Ended(p.s), r>>).op = "reply" PROVE FALSE
      BY <1>8, Literals, MessageFields
<1>9. ASSUME Head(<<Ended(p.s)>>).op = "reply" PROVE FALSE
      BY <1>9, Literals, MessageFields
<1>10. ASSUME Begun(p) PROVE OnePump' /\ Stage'
       BY <1>1, <1>5, <1>10 DEF Begun
<1>11. ASSUME Over(p) PROVE OnePump' /\ Stage'
       BY <1>1, <1>6, <1>7, <1>8, <1>9, <1>11 DEF Over
<1> QED BY <1>2, <1>10, <1>11

\* No answer can come: the executor is idle.
LEMMA TimedOutCalm ==
  ASSUME TypeOK, Numbered, OnePump, Stage, timely, NEW p \in pumps, TimedOut(p)
  PROVE  OnePump' /\ Stage'
<1>1. /\ p.ph = "play" /\ \A m \in ToSet(toExec) \cup ToSet(fromExec) : m.w # p.s.id
      /\ UNCHANGED <<fromExec, slot, said, epoch, timers, waitEnded>> /\ PlayAnswered(p, FALSE)
      BY DEF TimedOut
<1>2. /\ \A a : a \in ToSet(<<a>>)
      /\ \A a, b : a \in ToSet(<<a, b>>) /\ b \in ToSet(<<a, b>>)
  <2>1. ASSUME NEW a, NEW b PROVE <<a>>[1] = a /\ <<a, b>>[1] = a /\ <<a, b>>[2] = b
        OBVIOUS
  <2>2. ASSUME NEW a, NEW b PROVE 1 \in DOMAIN <<a>> /\ 1 \in DOMAIN <<a, b>> /\ 2 \in DOMAIN <<a, b>>
        OBVIOUS
  <2> QED BY <2>1, <2>2 DEF ToSet
<1>3. /\ \A a : toExec = <<a>> => a.w # p.s.id
      /\ \A a : fromExec = <<a>> => a.w # p.s.id
      /\ \A a, b : fromExec = <<a, b>> => a.w # p.s.id /\ b.w # p.s.id
      BY <1>1, <1>2
<1>4. ~Asked(p)
      BY <1>3, MessageFields DEF Asked
<1>5. ~Begun(p)
  <2>1. fromExec # <<Told(p, TRUE)>>
    <3>1. Told(p, TRUE).w = p.s.id
          BY MessageFields
    <3> QED BY <1>3, <3>1
  <2> QED BY <1>1, <2>1 DEF Begun
<1>6. ~Over(p)
  <2>1. \A ok : Told(p, ok).w = p.s.id
        BY MessageFields
  <2>2. \A ok : fromExec # <<Told(p, ok)>>
        BY <1>3, <2>1
  <2>3. \A r : fromExec # <<r, Told(p, TRUE)>>
        BY <1>3, <2>1
  <2>4. \A r : fromExec # <<Told(p, TRUE), r>>
        BY <1>3, <2>1
  <2> QED BY <1>1, <2>2, <2>3, <2>4 DEF Over
<1>7. Idle
      BY <1>4, <1>5, <1>6 DEF OnePump, Stage
<1>8. toExec' = toExec
      BY <1>1, PlayAnsweredCalm
<1>9. Idle'
      BY <1>1, <1>7, <1>8 DEF Idle, Quiet
<1> QED BY <1>1, <1>9, PlayAnsweredCalm

\* The end of a sentence is told while its pump waits, or awaits its answer.
LEMMA EndedArrivesCalm ==
  ASSUME TypeOK, Numbered, OnePump, Stage, EndedArrives
  PROVE  OnePump' /\ Stage'
<1>1. /\ fromExec # <<>> /\ Head(fromExec).op = "ended" /\ fromExec' = Tail(fromExec) /\ waitEnded' = 0
      /\ UNCHANGED <<slot, said, epoch, toExec>>
      BY DEF EndedArrives
<1>2. PICK p \in pumps : Begun(p) \/ Over(p)
      BY <1>1 DEF Stage, Idle, Asked
<1>3. pumps = {p} /\ p \in Pump /\ p.s.id \in Nat \ {0}
      BY PumpFields DEF OnePump, TypeOK
<1>4. /\ \A ok \in BOOLEAN : fromExec # <<Told(p, ok)>> /\ fromExec # <<Told(p, ok), Ended(p.s)>>
      BY <1>1, Literals, MessageFields
<1>5. /\ Quiet
      /\ \/ p.ph = "play" /\ fromExec = <<Ended(p.s), Told(p, TRUE)>>
         \/ p.ph = "wait" /\ fromExec = <<Ended(p.s)>>
      BY <1>1, <1>2, <1>4 DEF Begun, Over
<1>6. Quiet'
      BY <1>1, <1>5 DEF Quiet
<1>7. Past' \subseteq Past \cup {0}
      BY <1>1 DEF EndedArrives, Past
<1>8. p.ph # "synth" /\ waitEnded \in {0, p.s.id}
      BY <1>3, <1>5 DEF OnePump
<1>9. CASE waitEnded = 0
  <2>1. pumps' = pumps /\ running' = running /\ queue' = queue
        BY <1>9 DEF EndedArrives
  <2>2. OnePump'
        BY <1>1, <1>3, <1>7, <1>8, <2>1, PumpCalm
  <2>3. CASE p.ph = "play"
    <3>1. fromExec' = <<Told(p, TRUE)>>
      <4>1. Tail(<<Ended(p.s), Told(p, TRUE)>>) = <<Told(p, TRUE)>>
            BY Literals
      <4> QED BY <1>1, <1>5, <2>3, <4>1
    <3>2. Over(p)'
          BY <1>6, <2>3, <3>1 DEF Over
    <3> QED BY <1>3, <2>1, <2>2, <3>2 DEF Stage
  <2>4. CASE p.ph = "wait"
    <3>1. fromExec' = <<>>
          BY <1>1, <1>5, <2>4, Literals
    <3> QED BY <1>6, <2>2, <3>1 DEF Stage, Idle
  <2> QED BY <1>5, <2>3, <2>4
<1>10. CASE waitEnded = p.s.id
  <2>1. Resolve(p.s.id)
        BY <1>3, <1>10 DEF EndedArrives
  <2>2. CASE p.ph = "play"
    <3> DEFINE r == [p EXCEPT !.over = TRUE]
    <3>1. r.ep = p.ep /\ r.ph = "play" /\ r.s = p.s
          BY <1>3, <2>2, Overed
    <3>2. pumps' = {r} /\ running' = running
          BY <1>3, <2>1, <2>2 DEF Resolve
    <3> HIDE DEF r
    <3>3. OnePump'
          BY <1>1, <1>7, <3>1, <3>2, PumpCalm
    <3>4. fromExec' = <<Told(r, TRUE)>>
      <4>1. Told(r, TRUE) = Told(p, TRUE)
            BY <3>1 DEF Told
      <4>2. Tail(<<Ended(p.s), Told(p, TRUE)>>) = <<Told(p, TRUE)>>
            BY Literals
      <4> QED BY <1>1, <1>5, <2>2, <4>1, <4>2
    <3>5. Over(r)'
          BY <1>6, <3>1, <3>4 DEF Over
    <3> QED BY <3>2, <3>3, <3>5 DEF Stage
  <2>3. CASE p.ph = "wait"
    <3>1. GoOn(p.ep, pumps \ {p})
          BY <1>3, <2>1, <2>3 DEF Resolve
    <3>2. fromExec' = <<>>
          BY <1>1, <1>5, <2>3, Literals
    <3>3. Idle'
          BY <1>6, <3>2 DEF Idle
    <3> QED BY <1>1, <1>7, <3>1, <3>3, GoOnCalm
  <2> QED BY <1>5, <2>2, <2>3
<1> QED BY <1>8, <1>9, <1>10

\* A timer that fires in time finds nothing of its sentence on its way.
LEMMA TimerFiresCalm ==
  ASSUME TypeOK, Numbered, OnePump, Stage, timely, NEW i \in timers, TimerFires(i)
  PROVE  OnePump' /\ Stage'
<1>1. /\ waitEnded' = 0 /\ timers' = timers \ {i} /\ Resolve(i)
      /\ UNCHANGED <<slot, said, epoch, toExec, fromExec>>
      BY DEF TimerFires
<1>2. /\ ~(slot.s.id = i /\ slot.st = "playing")
      /\ \A m \in ToSet(toExec) \cup ToSet(fromExec) : m.s.id # i
      BY DEF TimerFires, Overdue
<1>3. /\ \A a : a \in ToSet(<<a>>)
      /\ \A a, b : a \in ToSet(<<a, b>>) /\ b \in ToSet(<<a, b>>)
  <2>1. ASSUME NEW a, NEW b PROVE <<a>>[1] = a /\ <<a, b>>[1] = a /\ <<a, b>>[2] = b
        OBVIOUS
  <2>2. ASSUME NEW a, NEW b PROVE 1 \in DOMAIN <<a>> /\ 1 \in DOMAIN <<a, b>> /\ 2 \in DOMAIN <<a, b>>
        OBVIOUS
  <2> QED BY <2>1, <2>2 DEF ToSet
<1>4. /\ \A a : toExec = <<a>> => a.s.id # i
      /\ \A a : fromExec = <<a>> => a.s.id # i
      /\ \A a, b : fromExec = <<a, b>> => a.s.id # i /\ b.s.id # i
      BY <1>2, <1>3
<1>5. Past' \subseteq Past \cup {0}
      BY <1>1 DEF Past
<1>6. ASSUME NEW p \in pumps, p.s.id = i
      PROVE  OnePump' /\ Stage'
  <2>1. pumps = {p} /\ p \in Pump
        BY DEF OnePump, TypeOK
  <2>2. p.ph # "synth"
    <3>1. i \in Nat /\ i \in Past
          BY DEF TypeOK, Past
    <3> QED BY <1>6, <3>1 DEF OnePump
  <2>3. ~Asked(p)
    <3>1. PlayMsg(p.s, p.s.id).s.id = i
          BY <1>6, MessageFields
    <3> QED BY <1>4, <3>1 DEF Asked
  <2>4. ~Begun(p)
    <3>1. ASSUME slot = [s |-> p.s, st |-> "playing"] PROVE slot.s = p.s /\ slot.st = "playing"
          BY <3>1
    <3> QED BY <1>2, <1>6, <3>1 DEF Begun
  <2>5. /\ fromExec # <<Ended(p.s)>>
        /\ \A r : fromExec # <<Ended(p.s), r>>
        /\ \A r : fromExec # <<r, Ended(p.s)>>
    <3>1. Ended(p.s).s.id = i
          BY <1>6, MessageFields
    <3> QED BY <1>4, <3>1
  <2>6. Idle \/ (Quiet /\ p.ph = "play" /\ \E ok \in BOOLEAN : fromExec = <<Told(p, ok)>>)
    <3>1. Idle \/ Over(p)
          BY <2>1, <2>3, <2>4 DEF Stage
    <3>2. ASSUME Over(p) PROVE Quiet /\ p.ph = "play" /\ \E ok \in BOOLEAN : fromExec = <<Told(p, ok)>>
          BY <2>5, <3>2 DEF Over
    <3> QED BY <3>1, <3>2
  <2>7. Quiet' /\ (Idle => Idle')
        BY <1>1, <2>6 DEF Idle, Quiet
  <2>8. CASE p.ph = "wait"
    <3>1. GoOn(p.ep, pumps \ {p})
          BY <1>1, <1>6, <2>1, <2>8 DEF Resolve
    <3>2. Idle'
          BY <2>6, <2>7, <2>8
    <3> QED BY <1>1, <1>5, <3>1, <3>2, GoOnCalm
  <2>9. CASE p.ph # "wait"
    <3> DEFINE r == [p EXCEPT !.over = TRUE]
    <3>1. r.ep = p.ep /\ r.ph = p.ph /\ r.s = p.s
          BY <2>1, Overed
    <3>2. pumps' = {r} /\ running' = running
          BY <1>1, <1>6, <2>1, <2>9 DEF Resolve
    <3> HIDE DEF r
    <3>3. OnePump'
          BY <1>1, <1>5, <2>2, <3>1, <3>2, PumpCalm
    <3>4. CASE Idle
          BY <2>7, <3>3, <3>4 DEF Stage
    <3>5. ASSUME Quiet, p.ph = "play", NEW ok \in BOOLEAN, fromExec = <<Told(p, ok)>>
          PROVE  Stage'
      <4>1. fromExec' = <<Told(r, ok)>>
            BY <1>1, <3>1, <3>5 DEF Told
      <4>2. Over(r)'
            BY <2>7, <3>1, <3>5, <4>1 DEF Over
      <4> QED BY <3>2, <4>2 DEF Stage
    <3> QED BY <2>6, <3>3, <3>4, <3>5
  <2> QED BY <2>8, <2>9
<1>7. ASSUME \A p \in pumps : p.s.id # i
      PROVE  OnePump' /\ Stage'
  <2>1. pumps' = pumps /\ running' = running
        BY <1>1, <1>7 DEF Resolve
  <2>2. Stage'
        BY <1>1, <2>1 DEF Stage, Idle, Quiet, Asked, Begun, Over
  <2>3. ASSUME NEW p \in pumps PROVE /\ \A j \in Past' : j <= p.s.id
                                     /\ p.ph = "synth" => \A j \in Past' : j < p.s.id
    <3>1. p.s.id \in Nat \ {0}
          BY PumpFields DEF TypeOK
    <3> QED BY <1>5, <3>1 DEF OnePump
  <2>4. \A j \in Past' : j <= said'
        BY <1>1, <1>5 DEF OnePump, TypeOK
  <2>5. OnePump'
        BY <1>1, <2>1, <2>3, <2>4 DEF OnePump
  <2> QED BY <2>2, <2>5
<1> QED BY <1>6, <1>7

LEMMA SpeakCalm ==
  ASSUME TypeOK, Numbered, PumpAlive, OnePump, Stage, TtsAssumption, NEW k \in 1..MaxParts, Speak(k)
  PROVE  OnePump' /\ Stage'
<1> DEFINE q == queue \o Text(k)
<1>1. /\ said \in Nat /\ said' = said + k /\ k \in Nat /\ epoch \in Nat
      /\ UNCHANGED <<epoch, waitEnded, timers, toExec, fromExec, slot>>
      BY DEF Speak, TypeOK, TtsAssumption
<1>2. Past' = Past
      BY <1>1 DEF Past
<1>3. \A i \in Past' : i \in Nat /\ i <= said /\ i <= said'
      BY <1>1, <1>2, PastIsNat DEF OnePump
<1>4. CASE running
  <2>1. pumps' = pumps /\ running' = running
        BY <1>4 DEF Speak
  <2>2. OnePump'
        BY <1>1, <1>2, <1>3, <2>1 DEF OnePump
  <2>3. Stage'
        BY <1>1, <2>1 DEF Stage, Idle, Quiet, Asked, Begun, Over
  <2> QED BY <2>2, <2>3
<1>5. CASE ~running
  <2> DEFINE r == Fresh(epoch, Head(q))
  <2>1. pumps = {} /\ queue = <<>>
        BY <1>5 DEF OnePump, PumpAlive
  <2>2. pumps' = {r} /\ running' = TRUE
        BY <1>5, <2>1 DEF Speak, Text, Fresh
  <2>3. Head(q) \in Sentence /\ Head(q).id \in Nat /\ said < Head(q).id
    <3>1. q \in Seq(Sentence) /\ q # <<>>
          BY Spoken
    <3>2. Head(q) \in Sentence
          BY <3>1, HeadTail
    <3>3. Text(k) \in Seq(Sentence)
      <4>1. \A j \in 1..k : [id |-> said + j, ep |-> epoch] \in Sentence
            BY <1>1 DEF Sentence
      <4>2. Text(k) \in [1..k -> Sentence]
            BY <4>1 DEF Text
      <4> QED BY <1>1, <4>2, SeqDef
    <3>4. q = Text(k)
          BY <2>1, <3>3, ConcatEmptySeq
    <3>5. Head(q) = Text(k)[1] /\ 1 \in 1..k
          BY <1>1, <3>3, <3>1, <3>4, HeadTail DEF TtsAssumption
    <3>6. Head(q).id = said + 1
          BY <3>5 DEF Text
    <3>7. said + 1 \in Nat /\ said < said + 1
          BY <1>1
    <3> QED BY <3>2, <3>6, <3>7
  <2>4. r.ep = epoch /\ r.ph = "synth" /\ r.s = Head(q) /\ r.over = FALSE
        BY <1>1, <2>3, FreshIsPump
  <2> HIDE DEF r, q
  <2>5. \A i \in Past' : i < r.s.id /\ i <= r.s.id
        BY <1>1, <1>3, <2>3, <2>4
  <2>6. OnePump'
        BY <1>1, <1>3, <2>2, <2>4, <2>5 DEF OnePump
  <2>7. Idle'
        BY <1>1, <2>1 DEF Stage, Idle, Quiet
  <2> QED BY <2>6, <2>7 DEF Stage
<1> QED BY <1>4, <1>5

\* What the executor is asked in a calm time: the sentence of the one pump,
\* newer than the last, which has ended.
LEMMA AskedCalm ==
  ASSUME OnePump, Stage, toExec # <<>>
  PROVE  \E p \in pumps : Asked(p)
BY DEF Stage, Idle, Quiet, Begun, Over

LEMMA ExecStepCalm ==
  ASSUME TypeOK, Numbered, OnePump, Stage, Down, drops = 0, ExecStep
  PROVE  OnePump' /\ Stage'
<1>1. toExec # <<>> /\ toExec' = Tail(toExec) /\ UNCHANGED <<running, epoch, pumps, waitEnded, timers, said>>
      BY DEF ExecStep
<1>2. PICK p \in pumps : Asked(p)
      BY <1>1, AskedCalm
<1>3. p.s.id \in Nat \ {0} /\ pumps = {p} /\ p.s.id <= said /\ said \in Nat
      BY PumpFields DEF TypeOK, Numbered, OnePump
<1>4. toExec' = <<>> /\ Head(toExec) = PlayMsg(p.s, p.s.id) /\ fromExec = <<>>
      BY <1>1, <1>2, Literals DEF Asked
<1>5. ExecPlay(PlayMsg(p.s, p.s.id))
      BY <1>4, MessageFields DEF ExecStep
<1>6. \A ok : Reply(p.s.id, ok) = <<Told(p, ok)>>
      BY <1>3 DEF Reply, Told
<1>7. \/ slot' = [s |-> p.s, st |-> "playing"] /\ fromExec' = <<Told(p, TRUE)>>
      \/ slot' = NoSlot /\ fromExec' = <<Told(p, FALSE)>>
      \/ slot' = [s |-> p.s, st |-> "drained"] /\ fromExec' = <<Ended(p.s), Told(p, TRUE)>>
  <2>1. /\ PlayMsg(p.s, p.s.id).s = p.s /\ PlayMsg(p.s, p.s.id).w = p.s.id
        BY MessageFields
  <2>2. \A ok : <<>> \o Reply(p.s.id, ok) = <<Told(p, ok)>>
        BY <1>6, Literals
  <2>3. <<>> \o (<<Ended(p.s)>> \o Reply(p.s.id, TRUE)) = <<Ended(p.s), Told(p, TRUE)>>
    <3>1. <<Ended(p.s)>> \o <<Told(p, TRUE)>> = <<Ended(p.s), Told(p, TRUE)>>
          BY Literals
    <3>2. \A a, b : <<>> \o <<a, b>> = <<a, b>>
          BY NothingBefore
    <3> QED BY <1>6, <3>1, <3>2
  <2>4. connected
        BY <1>1 DEF Down
  <2>5. \A ms : Tells(ms) => fromExec' = <<>> \o ms
        BY <1>4, <2>4 DEF Tells
  <2> QED BY <1>5, <2>1, <2>2, <2>3, <2>5 DEF ExecPlay
<1>8. /\ NoSlot.s.id = 0 /\ NoSlot.st = "off"
      /\ \A s, st : LET c == [s |-> s, st |-> st] IN c.s = s /\ c.st = st
      BY DEF NoSlot, Tone
<1>9. slot'.s.id \in {0, p.s.id} /\ (slot'.st = "off" => slot' = NoSlot)
  <2>1. ASSUME NEW st \in {"playing", "drained"}, slot' = [s |-> p.s, st |-> st]
        PROVE  slot'.s = p.s /\ slot'.st # "off"
        BY <2>1
  <2> QED BY <1>7, <1>8, <2>1
<1>10. Past' \subseteq Past \cup {0, p.s.id}
       BY <1>1, <1>9 DEF Past
<1>11. \A i \in Past' : i <= p.s.id /\ i <= said'
  <2>1. \A i \in Past' : i \in Nat /\ i <= p.s.id
        BY <1>3, <1>10, PastIsNat DEF OnePump
  <2> QED BY <1>1, <1>3, <2>1
<1>12. OnePump'
  <2>1. p.ph # "synth"
        BY <1>2 DEF Asked
  <2> QED BY <1>1, <1>3, <1>9, <1>11, <2>1 DEF OnePump
<1>13. Begun(p)' \/ Over(p)'
  <2>1. CASE slot' = [s |-> p.s, st |-> "playing"] /\ fromExec' = <<Told(p, TRUE)>>
        BY <1>2, <1>4, <2>1 DEF Asked, Begun
  <2>2. CASE slot' = NoSlot /\ fromExec' = <<Told(p, FALSE)>>
        BY <1>2, <1>4, <1>8, <2>2 DEF Asked, Over, Quiet
  <2>3. CASE slot' = [s |-> p.s, st |-> "drained"] /\ fromExec' = <<Ended(p.s), Told(p, TRUE)>>
        BY <1>2, <1>4, <1>8, <2>3 DEF Asked, Over, Quiet
  <2> QED BY <1>7, <2>1, <2>2, <2>3
<1> QED BY <1>1, <1>3, <1>12, <1>13 DEF Stage

LEMMA SourceEndsCalm ==
  ASSUME TypeOK, Numbered, OnePump, Stage, Down, drops = 0, SourceEnds
  PROVE  OnePump' /\ Stage'
<1>0. connected
      BY DEF SourceEnds, Down, NoSlot
<1>1. /\ slot.st = "playing" /\ slot' = [slot EXCEPT !.st = "drained"]
      /\ fromExec' = fromExec \o <<Ended(slot.s)>>
      /\ UNCHANGED <<running, epoch, pumps, waitEnded, timers, said, toExec>>
      BY <1>0 DEF SourceEnds, Tells
<1>2. PICK p \in pumps : Begun(p)
      BY <1>1 DEF Stage, Idle, Quiet, Asked, Over
<1>3. slot'.s = slot.s /\ slot'.st = "drained" /\ slot.s = p.s
      BY <1>1, <1>2 DEF TypeOK, Begun
<1>4. Past' = Past
      BY <1>1, <1>3 DEF Past
<1>5. OnePump'
      BY <1>1, <1>3, <1>4 DEF OnePump
<1>6. CASE p.ph = "play"
  <2>1. fromExec = <<Told(p, TRUE)>> /\ ~p.over /\ toExec = <<>>
        BY <1>2, <1>6 DEF Begun
  <2>2. <<Told(p, TRUE)>> \o <<Ended(p.s)>> = <<Told(p, TRUE), Ended(p.s)>>
        BY Literals
  <2>3. Over(p)'
        BY <1>1, <1>3, <1>6, <2>1, <2>2 DEF Over, Quiet
  <2> QED BY <1>1, <1>5, <2>3 DEF Stage
<1>7. CASE p.ph = "wait"
  <2>1. fromExec = <<>> /\ toExec = <<>>
        BY <1>2, <1>7 DEF Begun
  <2>2. <<>> \o <<Ended(p.s)>> = <<Ended(p.s)>>
        BY Literals
  <2>3. Over(p)'
        BY <1>1, <1>3, <1>7, <2>1, <2>2 DEF Over, Quiet
  <2> QED BY <1>1, <1>5, <2>3 DEF Stage
<1> QED BY <1>2, <1>6, <1>7 DEF Begun

\* The executor dies, and is idle when it is back.
LEMMA CrashCalm ==
  ASSUME TypeOK, Numbered, OnePump, Disconnect, drops' = 0
  PROVE  OnePump' /\ Stage'
<1>0. drops' # drops + 1
      BY DEF TypeOK
<1>1. /\ toExec' = <<>> /\ fromExec' = <<>> /\ slot' = NoSlot
      /\ UNCHANGED <<running, epoch, pumps, waitEnded, timers, said>>
      BY <1>0 DEF Disconnect
<1>2. NoSlot.s.id = 0 /\ NoSlot.st = "off"
      BY DEF NoSlot, Tone
<1>3. Past' \subseteq Past \cup {0}
      BY <1>1, <1>2 DEF Past
<1>4. ASSUME NEW p \in pumps PROVE /\ \A j \in Past' : j <= p.s.id
                                   /\ p.ph = "synth" => \A j \in Past' : j < p.s.id
  <2>1. p.s.id \in Nat \ {0}
        BY PumpFields DEF TypeOK
  <2> QED BY <1>3, <2>1 DEF OnePump
<1>5. \A j \in Past' : j <= said'
      BY <1>1, <1>3 DEF OnePump, TypeOK
<1>6. OnePump'
      BY <1>1, <1>4, <1>5 DEF OnePump
<1>7. Stage'
      BY <1>1, <1>2 DEF Stage, Idle, Quiet
<1> QED BY <1>6, <1>7

LEMMA CalmStep ==
  ASSUME TypeOK, Numbered, PumpAlive, Down, CalmInv, TtsAssumption, [Next]_vars
  PROVE  CalmInv'
<1> SUFFICES ASSUME Calm' PROVE OnePump' /\ Stage'
    BY DEF CalmInv
<1>1. epoch \in Nat /\ tones \in Nat /\ drops \in Nat
      BY DEF TypeOK
<1>0. \A n \in Nat : n + 1 # 0
      OBVIOUS
<1>2. ~Stop
      BY <1>0, <1>1 DEF Stop, Calm
<1>3. ~TestTone
      BY <1>0, <1>1 DEF TestTone, Calm
<1>4. Calm
  <2>1. CASE Disconnect
    <3>1. drops' = drops
          BY <1>0, <1>1, <2>1 DEF Disconnect, Calm
    <3> QED BY <2>1, <3>1 DEF Disconnect, Calm
  <2>2. CASE ~Disconnect
        BY <1>2, <1>3, <2>2 DEF Next, PumpStep, vars, Calm, Speak, Synthesized, TimedOut, ReplyArrives,
           EndedArrives, TimerFires, ExecStep, SourceEnds, Reconnect
  <2> QED BY <2>1, <2>2
<1>5. OnePump /\ Stage /\ timely /\ drops = 0 /\ drops' = 0
      BY <1>4 DEF CalmInv, Calm
<1>6. ASSUME UNCHANGED <<running, epoch, pumps, waitEnded, timers, said, toExec, fromExec, slot>>
      PROVE  OnePump' /\ Stage'
      BY <1>5, <1>6 DEF OnePump, Past, Stage, Idle, Quiet, Asked, Begun, Over
<1>7. CASE \E k \in 1..MaxParts : Speak(k)
      BY <1>5, <1>7, SpeakCalm
<1>8. CASE PumpStep
      BY <1>5, <1>8, SynthesizedCalm, TimedOutCalm DEF PumpStep
<1>9. CASE ReplyArrives
      BY <1>5, <1>9, ReplyArrivesCalm
<1>10. CASE EndedArrives
       BY <1>5, <1>10, EndedArrivesCalm
<1>11. CASE \E i \in timers : TimerFires(i)
       BY <1>5, <1>11, TimerFiresCalm
<1>12. CASE ExecStep
       BY <1>5, <1>12, ExecStepCalm
<1>13. CASE SourceEnds
       BY <1>5, <1>13, SourceEndsCalm
<1>14. CASE Disconnect
       BY <1>5, <1>14, CrashCalm
<1>15. CASE Reconnect
       BY <1>6, <1>15 DEF Reconnect
<1>16. CASE UNCHANGED vars
       BY <1>6, <1>16 DEF vars
<1> QED BY <1>2, <1>3, <1>7, <1>8, <1>9, <1>10, <1>11, <1>12, <1>13, <1>14, <1>15, <1>16 DEF Next

-----------------------------------------------------------------------------
(* The order of the sentences, action by action.                           *)

LEMMA AtIsSound ==
  ASSUME TypeOK, NEW j \in Places
  PROVE  At(j) \in Sounds /\ At(j).id \in Nat /\ At(j).ep \in Nat
<1>1. At(j) \in Sounds
  <2>1. CASE j = 0
        BY <2>1 DEF At, TypeOK
  <2>2. CASE j # 0
    <3>1. toExec[j] \in Requests
          BY <2>2 DEF Places, TypeOK
    <3> QED BY <2>2, <3>1 DEF At, Requests
  <2> QED BY <2>1, <2>2
<1>2. \A s \in Sounds : s.id \in Nat /\ s.ep \in Nat
      BY DEF Sounds, Sentence, Tone
<1> QED BY <1>1, <1>2

\* Pump r takes the place of one of the present epoch: it holds a newer
\* sentence, or the same and is not thrown back to its synthesis.
Follows(r) ==
  /\ r.ep <= epoch
  /\ r.ep = epoch => \/ r.s.id > said
                     \/ \E p \in pumps : /\ p.ep = epoch
                                         /\ \/ p.s.id < r.s.id
                                            \/ p.s.id = r.s.id /\ (r.ph = "synth" => p.ph = "synth")

PumpsFollow ==
  /\ \A r \in pumps' : Follows(r)
  /\ epoch \notin crowded' => \A p, q \in pumps' : p.ep = epoch /\ q.ep = epoch => p = q

\* What is to be played and what the slot holds has gone, or stands where it did.
PlacesRest == \A j \in Places' : At(j)' = Tone \/ (j \in Places /\ At(j)' = At(j))

\* What was sent before stays behind a pump that follows.
LEMMA SentStays ==
  ASSUME TypeOK, TypeOK', Orderly, PumpsFollow, epoch' = epoch, said <= said', crowded \subseteq crowded',
         NEW j \in Places, At(j) # Tone, NEW s, s = At(j)
  PROVE  Sent(s)'
<1>1. s = At(j)
      OBVIOUS
<1>2. s.id \in Nat /\ s.ep \in Nat /\ s.ep <= epoch /\ s.id <= said /\ Sent(s)
      BY <1>1, AtIsSound DEF Orderly, Sent
<1>3. said \in Nat /\ said' \in Nat /\ epoch \in Nat
      BY DEF TypeOK
<1>4. ASSUME s.ep = epoch, epoch \notin crowded', NEW r \in pumps', r.ep = epoch
      PROVE  s.id <= r.s.id /\ (r.ph = "synth" => s.id < r.s.id)
  <2>1. r.s.id \in Nat
        BY PumpFields DEF TypeOK
  <2>2. CASE r.s.id > said
        BY <1>2, <1>3, <2>1, <2>2
  <2>3. ASSUME NEW p \in pumps, p.ep = epoch,
               p.s.id < r.s.id \/ (p.s.id = r.s.id /\ (r.ph = "synth" => p.ph = "synth"))
        PROVE  s.id <= r.s.id /\ (r.ph = "synth" => s.id < r.s.id)
    <3>1. p.s.id \in Nat
          BY PumpFields DEF TypeOK
    <3>2. s.id <= p.s.id /\ (p.ph = "synth" => s.id < p.s.id)
          BY <1>2, <1>4, <2>3 DEF Sent
    <3> QED BY <1>2, <2>1, <2>3, <3>1, <3>2
  <2> QED BY <1>4, <2>2, <2>3 DEF PumpsFollow, Follows
<1>5. s.id <= said'
      BY <1>2, <1>3
<1> QED BY <1>1, <1>2, <1>4, <1>5 DEF Sent

\* More epochs in which anything goes.
LEMMA BeforeStays ==
  ASSUME crowded \subseteq crowded', NEW a, NEW b, Before(a, b)
  PROVE  Before(a, b)'
BY DEF Before

LEMMA OrderRests ==
  ASSUME TypeOK, TypeOK', Orderly, PumpsFollow, PlacesRest, epoch' = epoch, said <= said',
         crowded \subseteq crowded'
  PROVE  Orderly'
<1>1. \A j \in Places' : At(j)' # Tone => Sent(At(j))'
  <2>1. SUFFICES ASSUME NEW j \in Places', At(j)' # Tone PROVE Sent(At(j))'
        OBVIOUS
  <2>2. j \in Places /\ At(j)' = At(j)
        BY <2>1 DEF PlacesRest
  <2>3. PICK s : s = At(j)
        OBVIOUS
  <2>4. Sent(s)'
        BY <2>1, <2>2, <2>3, SentStays
  <2> QED BY <2>2, <2>3, <2>4 DEF Sent
<1>2. \A j, k \in Places' : j < k /\ At(j)' # Tone /\ At(k)' # Tone => Before(At(j), At(k))'
  <2>1. SUFFICES ASSUME NEW j \in Places', NEW k \in Places', j < k, At(j)' # Tone, At(k)' # Tone
                 PROVE  Before(At(j), At(k))'
        OBVIOUS
  <2>2. j \in Places /\ k \in Places /\ At(j)' = At(j) /\ At(k)' = At(k)
        BY <2>1 DEF PlacesRest
  <2>3. Before(At(j), At(k))
        BY <2>1, <2>2 DEF Orderly
  <2> QED BY <2>2, <2>3 DEF Before
<1>3. \A p \in pumps' : p.ep <= epoch'
      BY DEF PumpsFollow, Follows
<1>4. epoch' \notin crowded' => \A p, q \in pumps' : p.ep = epoch' /\ q.ep = epoch' => p = q
      BY DEF PumpsFollow
<1> QED BY <1>1, <1>2, <1>3, <1>4 DEF Orderly

(* The pumps follow.                                                       *)

LEMMA SamePump ==
  ASSUME Orderly, NEW p \in pumps, NEW r, r.ep = p.ep, r.s = p.s, r.ph = "synth" => p.ph = "synth"
  PROVE  Follows(r)
BY DEF Follows, Orderly

\* A pump goes on with a sentence newer than any a pump holds.
LEMMA GoOnFollows ==
  ASSUME TypeOK, Numbered, Orderly, NEW p \in pumps, GoOn(p.ep, pumps \ {p}), crowded' = crowded
  PROVE  PumpsFollow
<1>1. \A r \in pumps : Follows(r)
      BY SamePump
<1>2. CASE queue # <<>> /\ p.ep = epoch
  <2>1. PICK r : r = Fresh(epoch, Head(queue))
        OBVIOUS
  <2>2. pumps' = (pumps \ {p}) \cup {r}
        BY <1>2, <2>1 DEF GoOn, Fresh
  <2>3. r.ep = epoch /\ r.s = Head(queue) /\ p.s.id < Head(queue).id
        BY <1>2, <2>1, Taken DEF Fresh
  <2>4. Follows(r)
        BY <1>2, <2>3 DEF Follows, TypeOK
  <2>5. epoch \notin crowded => \A q \in pumps \ {p} : q.ep # epoch
        BY <1>2 DEF Orderly
  <2> QED BY <1>1, <2>2, <2>3, <2>4, <2>5 DEF PumpsFollow
<1>3. CASE ~(queue # <<>> /\ p.ep = epoch)
  <2>1. pumps' \subseteq pumps
        BY <1>3 DEF GoOn
  <2> QED BY <1>1, <2>1 DEF PumpsFollow, Orderly
<1> QED BY <1>2, <1>3

\* A pump that enters a phase after its synthesis.
LEMMA MoveFollows ==
  ASSUME TypeOK, Orderly, NEW p \in pumps, NEW h \in {"play", "wait"}, crowded' = crowded,
         pumps' = (pumps \ {p}) \cup {[p EXCEPT !.ph = h]}
  PROVE  PumpsFollow
<1>1. PICK m : m = [p EXCEPT !.ph = h]
      OBVIOUS
<1>2. p \in Pump /\ h \in Phases
      BY DEF TypeOK, Phases
<1>3. m.ep = p.ep /\ m.ph = h /\ m.s = p.s
      BY <1>1, <1>2, Moved
<1>4. pumps' = (pumps \ {p}) \cup {m}
      BY <1>1
<1>5. \A r \in pumps' : Follows(r)
      BY <1>3, <1>4, SamePump
<1>6. epoch \notin crowded => \A q \in pumps \ {p} : q.ep = epoch => p.ep # epoch
      BY DEF Orderly
<1>7. epoch \notin crowded => \A q, r \in pumps' : q.ep = epoch /\ r.ep = epoch => q = r
      BY <1>3, <1>4, <1>6 DEF Orderly
<1> QED BY <1>5, <1>7 DEF PumpsFollow

LEMMA ResolveFollows ==
  ASSUME TypeOK, Numbered, Orderly, NEW i, Resolve(i), crowded' = crowded
  PROVE  PumpsFollow
<1>1. ASSUME NEW p \in pumps, GoOn(p.ep, pumps \ {p}) PROVE PumpsFollow
      BY <1>1, GoOnFollows
<1>2. ASSUME pumps' = {IF p.s.id = i THEN [p EXCEPT !.over = TRUE] ELSE p : p \in pumps} PROVE PumpsFollow
  <2>1. \A r \in pumps' : \E p \in pumps : /\ r = (IF p.s.id = i THEN [p EXCEPT !.over = TRUE] ELSE p)
                                            /\ r.ep = p.ep /\ r.s = p.s /\ r.ph = p.ph
    <3>1. SUFFICES ASSUME NEW p \in pumps, NEW r, r = IF p.s.id = i THEN [p EXCEPT !.over = TRUE] ELSE p
                   PROVE  r.ep = p.ep /\ r.s = p.s /\ r.ph = p.ph
          BY <1>2
    <3>2. p \in Pump
          BY DEF TypeOK
    <3> QED BY <3>1, <3>2, Overed
  <2>2. \A r \in pumps' : Follows(r)
        BY <2>1, SamePump
  <2>3. epoch \notin crowded => \A q, r \in pumps' : q.ep = epoch /\ r.ep = epoch => q = r
    <3>1. SUFFICES ASSUME epoch \notin crowded, NEW q \in pumps', NEW r \in pumps', q.ep = epoch, r.ep = epoch
                   PROVE  q = r
          OBVIOUS
    <3>2. PICK a \in pumps : q = (IF a.s.id = i THEN [a EXCEPT !.over = TRUE] ELSE a) /\ a.ep = epoch
          BY <2>1, <3>1
    <3>3. PICK b \in pumps : r = (IF b.s.id = i THEN [b EXCEPT !.over = TRUE] ELSE b) /\ b.ep = epoch
          BY <2>1, <3>1
    <3>4. a = b
          BY <3>1, <3>2, <3>3 DEF Orderly
    <3> QED BY <3>2, <3>3, <3>4
  <2> QED BY <2>2, <2>3 DEF PumpsFollow
<1> QED BY <1>1, <1>2 DEF Resolve

LEMMA PlayAnsweredFollows ==
  ASSUME TypeOK, Numbered, Orderly, NEW p \in pumps, NEW ok, PlayAnswered(p, ok), crowded' = crowded
  PROVE  PumpsFollow
<1>1. CASE GoOn(p.ep, pumps \ {p})
      BY <1>1, GoOnFollows
<1>2. CASE pumps' = (pumps \ {p}) \cup {[p EXCEPT !.ph = "wait"]}
      BY <1>2, MoveFollows
<1> QED BY <1>1, <1>2 DEF PlayAnswered

\* A pump that starts has a newer sentence than any; when it is the second of
\* its epoch that is remembered.
LEMMA SpeakFollows ==
  ASSUME TypeOK, Numbered, PumpAlive, Orderly, TtsAssumption, NEW k \in 1..MaxParts, Speak(k)
  PROVE  PumpsFollow
<1>1. \A r \in pumps : Follows(r)
      BY SamePump
<1>2. CASE running
  <2>1. pumps' = pumps /\ crowded' = crowded
        BY <1>2 DEF Speak
  <2> QED BY <1>1, <2>1 DEF PumpsFollow, Orderly
<1>3. CASE ~running
  <2>1. PICK q : q = queue \o Text(k)
        OBVIOUS
  <2>2. PICK r : r = Fresh(epoch, Head(q))
        OBVIOUS
  <2>3. /\ pumps' = pumps \cup {r}
        /\ crowded' = IF \E p \in pumps : p.ep = epoch THEN crowded \cup {epoch} ELSE crowded
        BY <1>3, <2>1, <2>2 DEF Speak, Text, Fresh
  <2>4. r.ep = epoch /\ epoch \in Nat
        BY <2>2 DEF Fresh, TypeOK
  <2>5. Follows(r)
    <3>1. CASE \E p \in pumps : p.ep = epoch
      <4>1. PICK p \in pumps : p.ep = epoch
            BY <3>1
      <4>2. q \in Seq(Sentence) /\ q # <<>> /\ \A i \in DOMAIN q : p.s.id < q[i].id
            BY <2>1, Spoken
      <4>3. Head(q) = q[1] /\ 1 \in DOMAIN q
            BY <4>2, HeadTail
      <4>4. r.s = Head(q)
            BY <2>2 DEF Fresh
      <4> QED BY <2>4, <4>1, <4>2, <4>3, <4>4 DEF Follows
    <3>2. CASE \A p \in pumps : p.ep # epoch
      <4>1. queue = <<>> /\ said \in Nat /\ k \in Nat \ {0}
            BY <3>2 DEF PumpAlive, TypeOK, TtsAssumption
      <4>2. Text(k) \in Seq(Sentence)
        <5>1. \A j \in 1..k : [id |-> said + j, ep |-> epoch] \in Sentence
              BY <2>4, <4>1 DEF Sentence
        <5>2. Text(k) \in [1..k -> Sentence]
              BY <5>1 DEF Text
        <5> QED BY <4>1, <5>2, SeqDef
      <4>3. q = Text(k)
            BY <2>1, <4>1, <4>2, ConcatEmptySeq
      <4>4. Head(q) = Text(k)[1] /\ 1 \in 1..k
        <5>1. q # <<>>
              BY <2>1, Spoken
        <5> QED BY <4>1, <4>2, <4>3, <5>1, HeadTail
      <4>5. Head(q).id = said + 1
            BY <4>4 DEF Text
      <4>6. r.s = Head(q) /\ said + 1 > said
            BY <2>2, <4>1 DEF Fresh
      <4> QED BY <2>4, <4>5, <4>6 DEF Follows
    <3> QED BY <3>1, <3>2
  <2>6. epoch \notin crowded' => \A p \in pumps : p.ep # epoch
        BY <2>3
  <2> QED BY <1>1, <2>3, <2>5, <2>6 DEF PumpsFollow
<1> QED BY <1>2, <1>3

(* The places rest, or move up.                                            *)

LEMMA SameWires ==
  ASSUME UNCHANGED <<toExec, slot>>
  PROVE  PlacesRest
BY DEF PlacesRest, Places, At

\* A request for no sentence disturbs no place.
LEMMA SendRests ==
  ASSUME TypeOK, slot' = slot, NEW m \in Requests, m.s = Tone, toExec' = Send(toExec, m)
  PROVE  PlacesRest
<1>1. toExec \in Seq(Requests)
      BY DEF TypeOK
<1>2. CASE ~connected
      BY <1>2, SameWires DEF Send
<1>3. CASE connected
  <2>1. toExec' = Append(toExec, m)
        BY <1>3 DEF Send
  <2>2. /\ \A k \in DOMAIN toExec : toExec'[k] = toExec[k]
        /\ \A k \in DOMAIN toExec' : k \in DOMAIN toExec \/ toExec'[k] = m
        BY <1>1, <2>1, AppendKeepsStops
  <2> QED BY <2>2 DEF PlacesRest, Places, At
<1> QED BY <1>2, <1>3

LEMMA DisconnectRests ==
  ASSUME TypeOK, Disconnect
  PROVE  PlacesRest
<1>1. CASE slot' = NoSlot /\ toExec' = <<>>
  <2>1. DOMAIN toExec' = {} /\ slot'.s = Tone
        BY <1>1 DEF NoSlot
  <2> QED BY <2>1 DEF PlacesRest, Places, At
<1>2. ASSUME slot' = slot, NEW k \in 0..Len(toExec), toExec' = Cut(k) PROVE PlacesRest
  <2>1. /\ DOMAIN toExec' = 1..k /\ 1..k \subseteq DOMAIN toExec
        /\ \A j \in 1..k : toExec'[j].s = toExec[j].s
        BY <1>2, CutIsSeq DEF TypeOK
  <2> QED BY <1>2, <2>1 DEF PlacesRest, Places, At
<1> QED BY <1>1, <1>2 DEF Disconnect, Cut

\* The executor takes its next request: every place moves up.
LEMMA ExecStepOrders ==
  ASSUME TypeOK, TypeOK', Orderly, ExecStep
  PROVE  Orderly'
<1>1. /\ UNCHANGED <<epoch, crowded, said, pumps>>
      /\ toExec \in Seq(Requests) /\ toExec # <<>> /\ toExec' = Tail(toExec)
      BY DEF ExecStep, TypeOK
<1>2. /\ Head(toExec) = toExec[1] /\ 1 \in DOMAIN toExec
      /\ \A k \in DOMAIN toExec' : k \in Nat \ {0} /\ k + 1 \in DOMAIN toExec /\ toExec'[k] = toExec[k + 1]
      BY <1>1
<1>3. slot'.s = Tone \/ slot'.s = toExec[1].s
  <2>1. NoSlot.s = Tone
        BY DEF NoSlot
  <2>2. \A s, st : [s |-> s, st |-> st].s = s
        OBVIOUS
  <2>3. slot' = NoSlot \/ ExecPlay(Head(toExec))
        BY DEF ExecStep
  <2>4. ExecPlay(Head(toExec)) => slot' = NoSlot \/ slot'.s = Head(toExec).s
        BY <2>2 DEF ExecPlay
  <2> QED BY <1>2, <2>1, <2>3, <2>4
<1>4. \A j \in Places' : j \in Nat /\ (At(j)' = Tone \/ (j + 1 \in Places /\ At(j)' = At(j + 1)))
  <2>1. \A k \in Nat : k + 1 # 0
        OBVIOUS
  <2>2. At(0)' = Tone \/ (0 + 1 \in Places /\ At(0)' = At(0 + 1))
        BY <1>2, <1>3 DEF At, Places
  <2>3. ASSUME NEW j \in DOMAIN toExec' PROVE j \in Nat /\ j + 1 \in Places /\ At(j)' = At(j + 1)
    <3>1. j \in Nat \ {0} /\ j + 1 # 0 /\ j + 1 \in DOMAIN toExec /\ toExec'[j] = toExec[j + 1]
          BY <1>2, <2>1
    <3> QED BY <3>1 DEF At, Places
  <2> QED BY <2>2, <2>3 DEF Places
<1>5. \A s : Sent(s)' <=> Sent(s)
      BY <1>1 DEF Sent
<1>6. \A j \in Places' : At(j)' # Tone => Sent(At(j))'
  <2>1. SUFFICES ASSUME NEW j \in Places', At(j)' # Tone PROVE Sent(At(j))'
        OBVIOUS
  <2>2. PICK s : s = At(j)'
        OBVIOUS
  <2>3. Sent(s)
        BY <1>4, <2>1, <2>2 DEF Orderly
  <2> QED BY <1>1, <2>2, <2>3 DEF Sent
<1>7. \A j, k \in Places' : j < k /\ At(j)' # Tone /\ At(k)' # Tone => Before(At(j), At(k))'
  <2>1. SUFFICES ASSUME NEW j \in Places', NEW k \in Places', j < k, At(j)' # Tone, At(k)' # Tone
                 PROVE  Before(At(j), At(k))'
        OBVIOUS
  <2>2. j + 1 < k + 1
        BY <1>4, <2>1
  <2>3. /\ j + 1 \in Places /\ At(j)' = At(j + 1)
        /\ k + 1 \in Places /\ At(k)' = At(k + 1)
        BY <1>4, <2>1
  <2>4. Before(At(j + 1), At(k + 1))
        BY <2>1, <2>2, <2>3 DEF Orderly
  <2> QED BY <1>1, <2>3, <2>4 DEF Before
<1> QED BY <1>1, <1>6, <1>7 DEF Orderly

\* A pump hands its sentence over: all that were handed over before it in its
\* epoch, the only pump's, are older.
LEMMA SynthesizedSends ==
  ASSUME TypeOK, TypeOK', Numbered, Orderly, NEW p \in pumps, p.ph = "synth", p.ep = epoch,
         UNCHANGED <<slot, said, epoch, crowded>>,
         pumps' = (pumps \ {p}) \cup {[p EXCEPT !.ph = "play"]},
         toExec' = Append(toExec, PlayMsg(p.s, p.s.id))
  PROVE  Orderly'
<1>1. /\ p \in Pump /\ p.s \in Sounds /\ p.s.id \in Nat /\ p.s.ep = epoch /\ p.s.id <= said
      /\ epoch \in Nat /\ toExec \in Seq(Requests)
      BY PumpFields, SentenceIsSound DEF TypeOK, Numbered
<1>2. PlayMsg(p.s, p.s.id) \in Requests /\ PlayMsg(p.s, p.s.id).s = p.s
      BY <1>1, PlayIsRequest DEF PlayMsg
<1>3. PICK n : n = Len(toExec) + 1
      OBVIOUS
<1>4. /\ DOMAIN toExec \subseteq DOMAIN toExec' /\ \A k \in DOMAIN toExec : toExec'[k] = toExec[k]
      /\ n \in DOMAIN toExec' /\ toExec'[n].s = p.s /\ 0 < n
      /\ \A k \in DOMAIN toExec' : k \in DOMAIN toExec \/ k = n
      /\ \A k \in DOMAIN toExec : k < n
      BY <1>1, <1>2, <1>3, AppendKeepsStops
<1>5. n \in Nat /\ n # 0
      BY <1>1, <1>3
<1>6. At(n)' = p.s
      BY <1>4, <1>5 DEF At
<1>7. \A j \in Places' : j = n \/ (j \in Places /\ At(j)' = At(j))
      BY <1>4 DEF At, Places
<1>8. PumpsFollow
      BY MoveFollows
<1>9. Sent(p.s)'
  <2>1. ASSUME epoch \notin crowded, NEW r \in pumps', r.ep = epoch
        PROVE  p.s.id <= r.s.id /\ (r.ph = "synth" => p.s.id < r.s.id)
    <3>1. PICK m : m = [p EXCEPT !.ph = "play"]
          OBVIOUS
    <3>2. m.ep = p.ep /\ m.ph = "play" /\ m.s = p.s
          BY <1>1, <3>1, Moved DEF Phases
    <3>3. r = m
          BY <2>1, <3>1 DEF Orderly
    <3> QED BY <1>1, <3>2, <3>3
  <2> QED BY <1>1, <2>1 DEF Sent
<1>10. \A j \in Places' : At(j)' # Tone => Sent(At(j))'
  <2>1. SUFFICES ASSUME NEW j \in Places', At(j)' # Tone PROVE Sent(At(j))'
        OBVIOUS
  <2>2. CASE j = n
        BY <1>6, <1>9, <2>2 DEF Sent
  <2>3. CASE j \in Places /\ At(j)' = At(j)
    <3>1. PICK s : s = At(j)
          OBVIOUS
    <3>2. Sent(s)'
          BY <1>8, <2>1, <2>3, <3>1, SentStays, LeqReflexive DEF TypeOK
    <3> QED BY <2>3, <3>1, <3>2 DEF Sent
  <2> QED BY <1>7, <2>2, <2>3
<1>11. \A j, k \in Places' : j < k /\ At(j)' # Tone /\ At(k)' # Tone => Before(At(j), At(k))'
  <2>1. SUFFICES ASSUME NEW j \in Places', NEW k \in Places', j < k, At(j)' # Tone, At(k)' # Tone
                 PROVE  Before(At(j)', At(k)')
        BY DEF Before
  <2>2. \A i \in Places' : i \in Nat /\ i <= n
    <3>1. \A i \in DOMAIN toExec' : i \in Nat
          BY DEF TypeOK
    <3>2. \A i \in DOMAIN toExec : i <= n
          BY <1>1, <1>3
    <3> QED BY <1>4, <1>5, <3>1, <3>2 DEF Places
  <2>3. j # n
        BY <1>5, <2>1, <2>2
  <2>4. j \in Places /\ At(j)' = At(j)
        BY <1>7, <2>3
  <2>5. CASE k = n
    <3>1. PICK s : s = At(j)
          OBVIOUS
    <3>2. s.id \in Nat /\ s.ep \in Nat /\ Sent(s)
          BY <2>1, <2>4, <3>1, AtIsSound DEF Orderly
    <3>3. s.ep <= epoch
          BY <3>2 DEF Sent
    <3>4. s.ep = epoch /\ epoch \notin crowded => s.id < p.s.id
          BY <3>2 DEF Sent
    <3>5. Before(s, p.s)
          BY <1>1, <3>2, <3>3, <3>4 DEF Before
    <3> QED BY <1>6, <2>4, <2>5, <3>1, <3>5 DEF Before
  <2>6. CASE k \in Places /\ At(k)' = At(k)
        BY <2>1, <2>4, <2>6 DEF Orderly, Before
  <2> QED BY <1>7, <2>5, <2>6
<1>12. /\ \A q \in pumps' : q.ep <= epoch'
       /\ epoch' \notin crowded' => \A q, r \in pumps' : q.ep = epoch' /\ r.ep = epoch' => q = r
       BY <1>8 DEF PumpsFollow, Follows
<1> QED BY <1>10, <1>11, <1>12 DEF Orderly

\* A new epoch: nothing has been sent in it and it has no pump.
LEMMA StopOrders ==
  ASSUME TypeOK, TypeOK', Orderly, Stop
  PROVE  Orderly'
<1>1. /\ epoch' = epoch + 1 /\ epoch \in Nat /\ said' = said /\ crowded' = crowded /\ slot' = slot
      /\ toExec' = Send(toExec, StopMsg)
      BY DEF Stop, TypeOK
<1>2. PlacesRest
  <2>1. StopMsg.s = Tone
        BY DEF StopMsg
  <2> QED BY <1>1, <2>1, StopIsRequest, SendRests
<1>3. \A r \in pumps' : r.ep <= epoch /\ r.ep \in Nat
  <2>1. \A r \in pumps' : \E p \in pumps : r = (IF p.s.id = waitEnded THEN [p EXCEPT !.over = TRUE] ELSE p)
        BY DEF Stop
  <2>2. \A p \in pumps : p \in Pump /\ p.ep <= epoch
        BY DEF TypeOK, Orderly
  <2>3. ASSUME NEW r \in pumps' PROVE r.ep <= epoch
        BY <2>1, <2>2, Overed
  <2> QED BY <2>3, PumpFields DEF TypeOK
<1>4. \A r \in pumps' : r.ep <= epoch' /\ r.ep # epoch'
      BY <1>1, <1>3
<1>5. \A j \in Places' : At(j)' # Tone => Sent(At(j))'
  <2>1. SUFFICES ASSUME NEW j \in Places', At(j)' # Tone PROVE Sent(At(j))'
        OBVIOUS
  <2>2. j \in Places /\ At(j)' = At(j)
        BY <1>2, <2>1 DEF PlacesRest
  <2>3. At(j).ep \in Nat /\ At(j).ep <= epoch /\ At(j).id <= said
        BY <2>1, <2>2, AtIsSound DEF Orderly, Sent
  <2>4. At(j).ep <= epoch' /\ At(j).ep # epoch'
        BY <1>1, <2>3
  <2> QED BY <1>1, <2>2, <2>3, <2>4 DEF Sent
<1>6. \A j, k \in Places' : j < k /\ At(j)' # Tone /\ At(k)' # Tone => Before(At(j), At(k))'
  <2>1. SUFFICES ASSUME NEW j \in Places', NEW k \in Places', j < k, At(j)' # Tone, At(k)' # Tone
                 PROVE  Before(At(j), At(k))'
        OBVIOUS
  <2>2. j \in Places /\ k \in Places /\ At(j)' = At(j) /\ At(k)' = At(k)
        BY <1>2, <2>1 DEF PlacesRest
  <2>3. Before(At(j), At(k))
        BY <2>1, <2>2 DEF Orderly
  <2> QED BY <1>1, <2>2, <2>3 DEF Before
<1> QED BY <1>4, <1>5, <1>6 DEF Orderly

LEMMA OrderlyStep ==
  ASSUME TypeOK, TypeOK', Numbered, PumpAlive, Orderly, TtsAssumption, [Next]_vars
  PROVE  Orderly'
<1>1. ASSUME PumpsFollow, PlacesRest, UNCHANGED <<epoch, said, crowded>> PROVE Orderly'
      BY <1>1, OrderRests, LeqReflexive DEF TypeOK
<1>2. pumps' = pumps /\ crowded' = crowded => PumpsFollow
      BY SamePump DEF PumpsFollow, Orderly
<1>3. ASSUME NEW k \in 1..MaxParts, Speak(k) PROVE Orderly'
  <2>1. said' = said + k /\ epoch' = epoch /\ crowded \subseteq crowded' /\ UNCHANGED <<toExec, slot>>
        BY <1>3 DEF Speak
  <2>2. said <= said'
        BY <2>1 DEF TypeOK, TtsAssumption
  <2> QED BY <1>3, <2>1, <2>2, SpeakFollows, SameWires, OrderRests
<1>4. CASE Stop
      BY <1>4, StopOrders
<1>5. CASE TestTone
  <2>1. PlayMsg(Tone, 0) \in Requests /\ PlayMsg(Tone, 0).s = Tone
        BY PlayIsRequest, ToneIsSound DEF PlayMsg
  <2>2. toExec' = Send(toExec, PlayMsg(Tone, 0))
        BY <1>5 DEF TestTone, Send
  <2> QED BY <1>1, <1>2, <1>5, <2>1, <2>2, SendRests DEF TestTone
<1>6. ASSUME NEW p \in pumps, Synthesized(p) PROVE Orderly'
  <2>1. UNCHANGED <<epoch, said, crowded, slot>> /\ p.ph = "synth"
        BY <1>6 DEF Synthesized
  <2>2. CASE GoOn(p.ep, pumps \ {p}) /\ toExec' = toExec
        BY <1>1, <2>1, <2>2, GoOnFollows, SameWires
  <2>3. CASE /\ p.ep = epoch /\ pumps' = (pumps \ {p}) \cup {[p EXCEPT !.ph = "play"]}
             /\ toExec' = Append(toExec, PlayMsg(p.s, p.s.id))
        BY <2>1, <2>3, SynthesizedSends
  <2> QED BY <1>6, <2>2, <2>3 DEF Synthesized
<1>7. ASSUME NEW p \in pumps, NEW ok, PlayAnswered(p, ok), UNCHANGED <<epoch, said, crowded, slot>>
      PROVE  Orderly'
  <2>1. PlacesRest
    <3>1. StopMsg.s = Tone
          BY DEF StopMsg
    <3> QED BY <1>7, <3>1, StopIsRequest, SendRests, SameWires DEF PlayAnswered
  <2> QED BY <1>1, <1>7, <2>1, PlayAnsweredFollows
<1>8. ASSUME NEW p \in pumps, TimedOut(p) PROVE Orderly'
      BY <1>7, <1>8 DEF TimedOut
<1>9. CASE ReplyArrives
  <2>1. UNCHANGED <<epoch, said, crowded, slot>>
        BY <1>9 DEF ReplyArrives
  <2>2. CASE UNCHANGED <<pumps, toExec>>
        BY <1>1, <1>2, <2>1, <2>2, SameWires
  <2>3. ASSUME NEW p \in pumps, PlayAnswered(p, Head(fromExec).ok) PROVE Orderly'
        BY <1>7, <2>1, <2>3
  <2> QED BY <1>9, <2>2, <2>3 DEF ReplyArrives
<1>10. CASE EndedArrives
  <2>1. UNCHANGED <<epoch, said, crowded, slot, toExec>>
        BY <1>10 DEF EndedArrives
  <2>2. pumps' = pumps \/ Resolve(waitEnded)
        BY <1>10 DEF EndedArrives
  <2> QED BY <1>1, <1>2, <2>1, <2>2, ResolveFollows, SameWires
<1>11. ASSUME NEW i \in timers, TimerFires(i) PROVE Orderly'
       BY <1>1, <1>11, ResolveFollows, SameWires DEF TimerFires
<1>12. CASE ExecStep
       BY <1>12, ExecStepOrders
<1>13. CASE SourceEnds
  <2>1. slot'.s = slot.s
        BY <1>13 DEF SourceEnds, TypeOK
  <2>2. PlacesRest
        BY <1>13, <2>1 DEF SourceEnds, PlacesRest, Places, At
  <2> QED BY <1>1, <1>2, <1>13, <2>2 DEF SourceEnds
<1>14. CASE Disconnect
       BY <1>1, <1>2, <1>14, DisconnectRests DEF Disconnect
<1>15. CASE Reconnect
       BY <1>1, <1>2, <1>15, SameWires DEF Reconnect
<1>16. CASE UNCHANGED vars
       BY <1>1, <1>2, <1>16, SameWires DEF vars
<1> QED BY <1>3, <1>4, <1>5, <1>6, <1>8, <1>9, <1>10, <1>11, <1>12, <1>13, <1>14, <1>15, <1>16
        DEF Next, PumpStep

-----------------------------------------------------------------------------
(* The theorems.                                                           *)

LEMMA InitIsInv == ASSUME TtsAssumption, Init PROVE IInv
<1>1. /\ queue = <<>> /\ running = FALSE /\ epoch = 0 /\ pumps = {}
      /\ waitEnded = 0 /\ timers = {} /\ said = 0 /\ tones = 0 /\ timely \in BOOLEAN
      /\ connected = TRUE /\ crashes = 0
      /\ toExec = <<>> /\ fromExec = <<>> /\ slot = NoSlot
      /\ missed = FALSE /\ crowded = {} /\ drops = 0
      BY DEF Init
<1>2. NoSlot.s = Tone /\ NoSlot.st = "off" /\ Tone.id = 0
      BY DEF NoSlot, Tone
<1>3. TypeOK
  <2>1. queue \in Seq(Sentence) /\ toExec \in Seq(Requests) /\ fromExec \in Seq(Messages)
        BY <1>1
  <2> QED BY <1>1, <2>1, NoSlotIsSlot DEF TypeOK
<1>4. Numbered
      BY <1>1 DEF Numbered
<1>5. Timed
      BY <1>1 DEF Timed
<1>6. PumpAlive
      BY <1>1 DEF PumpAlive
<1>7. Silenced /\ Down
      BY <1>1, <1>2 DEF Silenced, SlotSilent, Down
<1>10. Orderly
  <2>1. DOMAIN toExec = {}
        BY <1>1
  <2>2. \A j \in Places : At(j) = Tone
        BY <1>1, <1>2, <2>1 DEF Places, At
  <2> QED BY <1>1, <2>2 DEF Orderly
<1>8. OnePump
      BY <1>1, <1>2 DEF OnePump, Past
<1>9. Stage
      BY <1>1, <1>2 DEF Stage, Idle, Quiet
<1> QED BY <1>3, <1>4, <1>5, <1>6, <1>7, <1>8, <1>9, <1>10 DEF IInv, CalmInv

LEMMA StepKeepsInv == ASSUME TtsAssumption, IInv, [Next]_vars PROVE IInv'
<1>1. TypeOK /\ Numbered /\ Timed /\ PumpAlive /\ Silenced /\ Down /\ Orderly /\ CalmInv
      BY DEF IInv
<1>2. EngineOK'
      BY <1>1, EngineStep
<1>3. WiresOK'
      BY <1>1, WiresStep
<1>4. TypeOK'
      BY <1>2, <1>3 DEF TypeOK, WiresOK, EngineOK
<1>5. Silenced'
      BY <1>1, SilencedStep
<1>6. CalmInv'
      BY <1>1, CalmStep
<1>7. Down'
      BY <1>1, DownStep
<1>8. Orderly'
      BY <1>1, <1>4, OrderlyStep
<1> QED BY <1>2, <1>4, <1>5, <1>6, <1>7, <1>8 DEF IInv, EngineOK

\* The inductive invariant holds in every state of the engine and the
\* executor's slot (tts/engine.ts speak(), pump(), playOne(), stop()).
THEOREM Invariance == Spec => []IInv
<1>1. Init => IInv
      BY TtsAssumption, InitIsInv
<1>2. IInv /\ [Next]_vars => IInv'
      BY TtsAssumption, StepKeepsInv
<1> QED BY <1>1, <1>2, PTL DEF Spec

LEMMA InvIsSafe == IInv => Safe
BY DEF IInv, Safe, SomeoneSpeaks, WaitEnds, PumpAlive, Timed

LEMMA InvIsSilent == IInv => StopSilences
<1> SUFFICES ASSUME IInv, toExec = <<>>, slot.st = "playing", ~missed
             PROVE  slot.s = Tone \/ slot.s.ep = epoch
    BY DEF StopSilences
<1>1. SlotSilent
      BY DEF IInv, Silenced
<1>2. ~StopBehind(0)
      BY DEF StopBehind
<1> QED BY <1>1, <1>2 DEF SlotSilent, Of

\* Whatever speak(), stop(), failures and timers do to each other, a sentence
\* that waits has a pump of the present epoch, and a pump that waits for the
\* end of its sentence has a timer that will wake it.
THEOREM NobodyForgotten == Spec => []Safe
BY Invariance, InvIsSafe, PTL

\* Once the executor has done what it was asked, no sentence from before the
\* last stop() sounds, as long as that stop() found a link and no link was lost
\* with a stop on it: what was sent for an earlier epoch has a stop behind it.
THEOREM StopIsHeard == Spec => []StopSilences
BY Invariance, InvIsSilent, PTL

\* A sentence begins when the executor takes its request.
LEMMA BeginsByPlay ==
  ASSUME TypeOK, Next, Begins
  PROVE  /\ ExecStep /\ toExec # <<>> /\ 1 \in DOMAIN toExec
         /\ Head(toExec) = toExec[1] /\ slot'.s = toExec[1].s
<1>1. slot' # slot /\ slot'.st = "playing"
      BY DEF Begins
<1>2. NoSlot.st # "playing"
      BY DEF NoSlot
<1>3. ExecStep
  <2>1. ~Disconnect
        BY <1>1, <1>2 DEF Disconnect
  <2>2. ~SourceEnds
        BY <1>1 DEF SourceEnds, TypeOK
  <2> QED BY <1>1, <2>1, <2>2 DEF Next, PumpStep, Speak, Stop, TestTone, Synthesized, TimedOut, ReplyArrives,
          EndedArrives, TimerFires, Reconnect
<1>4. toExec # <<>> /\ 1 \in DOMAIN toExec /\ Head(toExec) = toExec[1]
      BY <1>3, HeadTail DEF ExecStep, TypeOK
<1>5. slot'.s = toExec[1].s
  <2>1. ExecPlay(Head(toExec))
        BY <1>1, <1>2, <1>3 DEF ExecStep
  <2>2. PICK m : m = Head(toExec)
        OBVIOUS
  <2>3. slot' = NoSlot \/ slot' = [s |-> m.s, st |-> "playing"] \/ slot' = [s |-> m.s, st |-> "drained"]
        BY <2>1, <2>2 DEF ExecPlay
  <2>4. slot'.s = m.s
        BY <1>1, <1>2, <2>3
  <2> QED BY <1>4, <2>2, <2>4
<1> QED BY <1>3, <1>4, <1>5

LEMMA StepIsInOrder ==
  ASSUME IInv, Next, Begins
  PROVE  Before(slot.s, slot'.s) /\ NotCutShort
<1>1. TypeOK /\ Orderly /\ CalmInv
      BY DEF IInv
<1>2. /\ toExec # <<>> /\ 1 \in DOMAIN toExec /\ Head(toExec) = toExec[1] /\ slot'.s = toExec[1].s
      BY <1>1, BeginsByPlay
<1>3. Before(slot.s, slot'.s)
  <2>1. At(0) = slot.s /\ At(1) = slot'.s /\ 0 \in Places /\ 1 \in Places /\ 0 < 1
        BY <1>2 DEF At, Places
  <2> QED BY <1>1, <2>1 DEF Orderly, Begins
<1>4. ASSUME timely, drops = 0, epoch = 0, tones = 0 PROVE slot.st = "drained"
  <2>1. OnePump /\ Stage
        BY <1>1, <1>4 DEF CalmInv, Calm
  <2>2. PICK p \in pumps : Asked(p)
        BY <1>2, <2>1, AskedCalm
  <2>3. slot.st # "playing"
        BY <2>2 DEF Asked
  <2>4. slot.st # "off"
        BY <2>1 DEF OnePump, NoSlot, Begins
  <2> QED BY <1>1, <2>3, <2>4 DEF TypeOK
<1> QED BY <1>3, <1>4 DEF NotCutShort

\* Sentences begin in the order they were spoken, however late the executor is
\* and whatever link it was asked over, unless an epoch had two pumps: pump()
\* holds one sentence at a time and the wires keep their order.  None is cut
\* short by the next while the executor is in time and nobody stops: pump()
\* awaits the end of each (playOne(), waitForEnded()).
THEOREM InOrderHolds == Spec => InOrder
<1>1. IInv /\ [Next]_vars => [Begins => Before(slot.s, slot'.s) /\ NotCutShort]_vars
      BY StepIsInOrder
<1> QED BY <1>1, Invariance, PTL DEF Spec, InOrder
=============================================================================
