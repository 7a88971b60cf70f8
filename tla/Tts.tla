-------------------------------- MODULE Tts --------------------------------
(***************************************************************************)
(* The speech queue (backend/src/tts/engine.ts) and the tts slot of the    *)
(* audio executor.  speak() cuts a text into sentences and starts pump(),  *)
(* unless one is running; the pump synthesizes and plays them one by one.  *)
(* stop() starts a new epoch: a pump of an earlier one finds out at its    *)
(* next wait and ends.  Several pumps can be alive together, so they are a *)
(* set; each holds the sentence it is on.                                  *)
(***************************************************************************)
EXTENDS Integers, Sequences, FiniteSets, SequencesExt

CONSTANTS
  Faults,       \* what may go wrong
  MaxParts,     \* bound: sentences a text is cut into
  MaxSaid,      \* bound on the sentences spoken altogether
  MaxStops,     \* bound on stop()
  MaxMishaps    \* bound on test tones and disconnections together

ASSUME TtsAssumption ==
  /\ MaxParts \in Nat \ {0} /\ MaxSaid \in Nat /\ MaxStops \in Nat
  /\ MaxMishaps \in Nat

VARIABLES
  queue,     \* queue: the sentences waiting
  running,   \* running: a pump is thought to be alive
  epoch,     \* epoch
  pumps,     \* the pumps alive, each at an await
  waitEnded, \* waitEnded: the sentence whose resolver is stored, or 0
  timers,    \* sentences whose ended-timer has not fired
  said,      \* sentences accepted so far
  tones,     \* test tones asked for on this channel (audio.test)
  timely,    \* the executor answers in time, the lengths named are right (never changes)
  connected, crashes,
  toExec, fromExec,  \* the WebSocket to the executor, in order
  slot,      \* the executor's tts slot
  \* What the properties have to know of the past:
  missed,    \* the last stop() found no link, or a stop has been lost with one since
  crowded,   \* the epochs in which a second pump has started
  drops      \* how often the link was lost while the executor played on

vars == <<queue, running, epoch, pumps, waitEnded, timers, said, tones,
          timely, connected, crashes, toExec, fromExec, slot, missed, crowded, drops>>

\* A sentence remembers the epoch in which it was spoken.
Sentence == [id : Nat \ {0}, ep : Nat]
Tone     == [id |-> 0, ep |-> 0]     \* the test tone, not a sentence
Phases   == {"synth", "play", "wait"}
Pump     == [ep : Nat, ph : Phases, s : Sentence, over : BOOLEAN]
NoSlot   == [s |-> Tone, st |-> "off"]

\* Messages.  w is the id of the sentence whose pump awaits the reply, or 0.
PlayMsg(s, w) == [op |-> "play", s |-> s, w |-> w]
StopMsg       == [op |-> "stop", s |-> Tone, w |-> 0]

\* safeRequest() sends nothing without a connection.
Send(o, m) == IF connected THEN Append(o, m) ELSE o

-----------------------------------------------------------------------------
(* The loop of pump().                                                     *)

\* Slip: a pump that ends leaves `running' set.
GoOnKeepsRunning(ep, P) ==
  /\ IF queue # <<>> /\ ep = epoch
       THEN /\ queue' = Tail(queue)
            /\ pumps' = P \cup {[ep |-> ep, ph |-> "synth", s |-> Head(queue), over |-> FALSE]}
       ELSE UNCHANGED queue /\ pumps' = P
  /\ UNCHANGED running

\* A pump of epoch ep has dealt with its sentence; P are the others.  It
\* takes the next one, or ends and clears `running', whoever set it.
GoOn(ep, P) ==
  IF queue # <<>> /\ ep = epoch
    THEN /\ queue' = Tail(queue)
         /\ pumps' = P \cup {[ep |-> ep, ph |-> "synth", s |-> Head(queue), over |-> FALSE]}
         /\ UNCHANGED running
    ELSE /\ pumps' = P
         /\ running' = FALSE
         /\ UNCHANGED queue

\* Slip: the count starts at the last sentence instead of after it.
SpeakRecounts(k) ==
  /\ ~running /\ said + k <= MaxSaid
  /\ said' = said + k
  /\ queue' = [j \in 1..(k - 1) |-> [id |-> said + j, ep |-> epoch]]
  /\ running' = TRUE
  /\ pumps' = pumps \cup {[ep |-> epoch, ph |-> "synth", s |-> [id |-> said, ep |-> epoch], over |-> FALSE]}
  /\ UNCHANGED <<epoch, waitEnded, timers, tones, timely, connected, crashes, toExec, fromExec, slot,
                 missed, crowded, drops>>

\* Slip: what is said last is spoken first.
SpeakPushesIn(k) ==
  /\ said + k <= MaxSaid
  /\ said' = said + k
  /\ LET q == [j \in 1..k |-> [id |-> said + j, ep |-> epoch]] \o queue
     IN IF running
          THEN queue' = q /\ UNCHANGED <<running, pumps, crowded>>
          ELSE /\ running' = TRUE
               /\ queue' = Tail(q)
               /\ pumps' = pumps \cup
                    {[ep |-> epoch, ph |-> "synth", s |-> Head(q), over |-> FALSE]}
               /\ crowded' = IF \E p \in pumps : p.ep = epoch THEN crowded \cup {epoch} ELSE crowded
  /\ UNCHANGED <<epoch, waitEnded, timers, tones, timely, connected, crashes, toExec, fromExec, slot,
                 missed, drops>>

\* speak(): a text becomes k sentences.  pump() returns if one is running; a
\* pump of an earlier epoch that ended may have cleared the mark of another.
Speak(k) ==
  /\ said + k <= MaxSaid
  /\ said' = said + k
  /\ LET q == queue \o [j \in 1..k |-> [id |-> said + j, ep |-> epoch]]
     IN IF running
          THEN queue' = q /\ UNCHANGED <<running, pumps, crowded>>
          ELSE /\ running' = TRUE
               /\ queue' = Tail(q)
               /\ pumps' = pumps \cup
                    {[ep |-> epoch, ph |-> "synth", s |-> Head(q), over |-> FALSE]}
               /\ crowded' = IF \E p \in pumps : p.ep = epoch THEN crowded \cup {epoch} ELSE crowded
  /\ UNCHANGED <<epoch, waitEnded, timers, tones, timely, connected, crashes, toExec, fromExec, slot,
                 missed, drops>>

\* stop(): the queue is dropped, the sentence waited for counts as ended and
\* its pump finds an empty queue; a pump that synthesizes or starts goes on.
Stop ==
  /\ epoch < MaxStops
  /\ queue' = <<>>
  /\ running' = FALSE
  /\ epoch' = epoch + 1
  /\ pumps' = {IF p.s.id = waitEnded THEN [p EXCEPT !.over = TRUE] ELSE p :
                 p \in {p \in pumps : ~(p.ph = "wait" /\ p.s.id = waitEnded)}}
  /\ timers' = timers \ {waitEnded}
  /\ waitEnded' = 0
  /\ toExec' = Send(toExec, StopMsg)
  /\ missed' = ~connected
  /\ UNCHANGED <<said, tones, timely, connected, crashes, fromExec, slot, crowded, drops>>

\* audio.test on this channel: a tone takes the slot; nobody waits for it.
TestTone ==
  /\ connected /\ tones + crashes < MaxMishaps
  /\ tones' = tones + 1
  /\ toExec' = Append(toExec, PlayMsg(Tone, 0))
  /\ UNCHANGED <<queue, running, epoch, pumps, waitEnded, timers, said,
                 timely, connected, crashes, fromExec, slot, missed, crowded, drops>>

-----------------------------------------------------------------------------
(* The awaits of playOne().                                                *)

\* Slip: a sentence synthesized for an earlier epoch is played.
SynthesizedStale(p) ==
  /\ p.ph = "synth" /\ connected
  /\ waitEnded' = p.s.id
  /\ timers' = timers \cup {p.s.id}
  /\ pumps' = (pumps \ {p}) \cup {[p EXCEPT !.ph = "play"]}
  /\ toExec' = Append(toExec, PlayMsg(p.s, p.s.id))
  /\ UNCHANGED <<queue, running, epoch, said, tones, timely, connected, crashes, fromExec, slot,
                 missed, crowded, drops>>

\* synthesize() came back.  The resolver of waitForEnded() is stored, with
\* its timer, before the executor is asked; neither is taken back when the
\* request fails.
Synthesized(p) ==
  /\ p.ph = "synth"
  /\ \/ /\ p.ep = epoch
        /\ waitEnded' = p.s.id
        /\ timers' = timers \cup {p.s.id}
        /\ IF connected
             THEN /\ pumps' = (pumps \ {p}) \cup {[p EXCEPT !.ph = "play"]}
                  /\ toExec' = Append(toExec, PlayMsg(p.s, p.s.id))
                  /\ UNCHANGED <<queue, running>>
             ELSE GoOn(p.ep, pumps \ {p}) /\ UNCHANGED toExec
     \/ /\ p.ep # epoch \/ "synthFails" \in Faults
        /\ GoOn(p.ep, pumps \ {p})
        /\ UNCHANGED <<waitEnded, timers, toExec>>
  /\ UNCHANGED <<epoch, said, tones, timely, connected, crashes, fromExec, slot, missed, crowded, drops>>

\* Slip: the end of the sentence is not awaited.
PlayAnsweredAtOnce(p, ok) ==
  /\ GoOn(p.ep, pumps \ {p})
  /\ toExec' = IF p.ep # epoch THEN Send(toExec, StopMsg) ELSE toExec

\* The answer to player.play, or its timeout (ok = FALSE): a stale pump
\* stops the slot, whatever plays there by now.
PlayAnswered(p, ok) ==
  IF p.ep # epoch
    THEN GoOn(p.ep, pumps \ {p}) /\ toExec' = Send(toExec, StopMsg)
    ELSE /\ UNCHANGED toExec
         /\ IF ok /\ ~p.over
              THEN /\ pumps' = (pumps \ {p}) \cup {[p EXCEPT !.ph = "wait"]}
                   /\ UNCHANGED <<queue, running>>
              ELSE GoOn(p.ep, pumps \ {p})

\* The promise of waitForEnded() for sentence i is resolved.
Resolve(i) ==
  \/ /\ \E p \in pumps : p.s.id = i /\ p.ph = "wait" /\ GoOn(p.ep, pumps \ {p})
  \/ /\ \A p \in pumps : ~(p.s.id = i /\ p.ph = "wait")
     /\ pumps' = {IF p.s.id = i THEN [p EXCEPT !.over = TRUE] ELSE p : p \in pumps}
     /\ UNCHANGED <<queue, running>>

ReplyArrives ==
  /\ fromExec # <<>> /\ Head(fromExec).op = "reply"
  /\ fromExec' = Tail(fromExec)
  /\ \/ \E p \in pumps : /\ p.ph = "play" /\ p.s.id = Head(fromExec).w
                         /\ PlayAnswered(p, Head(fromExec).ok)
     \/ /\ \A p \in pumps : ~(p.ph = "play" /\ p.s.id = Head(fromExec).w)
        /\ UNCHANGED <<queue, running, pumps, toExec>>
  /\ UNCHANGED <<epoch, waitEnded, timers, said, tones, timely, connected, crashes, slot,
                 missed, crowded, drops>>

\* The time-out of a request, by the clock: its reply is lost with the link,
\* or the executor is late.  What is on the wires stays there, to be carried
\* out and answered, which nobody awaits by then.
TimedOut(p) ==
  /\ p.ph = "play"
  /\ ~timely \/ \A m \in ToSet(toExec) \cup ToSet(fromExec) : m.w # p.s.id
  /\ PlayAnswered(p, FALSE)
  /\ UNCHANGED <<epoch, waitEnded, timers, said, tones, timely, connected, crashes, fromExec, slot,
                 missed, crowded, drops>>

\* player.ended on this channel resolves the stored wait, whichever source
\* has ended; its timer is cleared.
EndedArrives ==
  /\ fromExec # <<>> /\ Head(fromExec).op = "ended"
  /\ fromExec' = Tail(fromExec)
  /\ IF waitEnded = 0
       THEN UNCHANGED <<queue, running, pumps, timers>>
       ELSE timers' = timers \ {waitEnded} /\ Resolve(waitEnded)
  /\ waitEnded' = 0
  /\ UNCHANGED <<epoch, said, tones, timely, connected, crashes, toExec, slot, missed, crowded, drops>>

\* The length of a sentence and a second and a half have passed since it was
\* sent: it no longer sounds, nor is it on its way to, and its end has been
\* told -- unless the executor was slow to begin, or the length a guess, which
\* it is when the service names none.
Overdue(i) ==
  \/ ~timely
  \/ /\ ~(slot.s.id = i /\ slot.st = "playing")
     /\ \A m \in ToSet(toExec) \cup ToSet(fromExec) : m.s.id # i

\* Slip: the timer of a sentence only forgets the stored resolver.
TimerForgets(i) ==
  /\ i \in timers /\ Overdue(i)
  /\ timers' = timers \ {i}
  /\ waitEnded' = 0
  /\ UNCHANGED <<queue, running, pumps, epoch, said, tones, timely, connected, crashes,
                 toExec, fromExec, slot, missed, crowded, drops>>

\* The timer of a sentence clears the stored resolver, whose ever that is.
TimerFires(i) ==
  /\ i \in timers /\ Overdue(i)
  /\ timers' = timers \ {i}
  /\ waitEnded' = 0
  /\ Resolve(i)
  /\ UNCHANGED <<epoch, said, tones, timely, connected, crashes, toExec, fromExec, slot,
                 missed, crowded, drops>>

-----------------------------------------------------------------------------
(* The executor (cpp-executor/src/audio_player.cpp), tts slot.             *)

Reply(w, ok) == IF w = 0 THEN <<>> ELSE <<[op |-> "reply", s |-> Tone, w |-> w, ok |-> ok]>>
Ended(s) == [op |-> "ended", s |-> s, w |-> 0, ok |-> TRUE]

\* Replies and events go nowhere without a connection.
Tells(ms) == fromExec' = IF connected THEN fromExec \o ms ELSE fromExec

ExecPlay(m) ==
  \/ /\ slot' = [s |-> m.s, st |-> "playing"]
     /\ Tells(Reply(m.w, TRUE))
  \/ /\ "playFails" \in Faults
     /\ slot' = NoSlot
     /\ Tells(Reply(m.w, FALSE))
  \/ /\ "undecodable" \in Faults
     /\ slot' = [s |-> m.s, st |-> "drained"]
     /\ Tells(<<Ended(m.s)>> \o Reply(m.w, TRUE))

ExecStep ==
  /\ toExec # <<>>
  /\ toExec' = Tail(toExec)
  /\ \/ Head(toExec).op = "play" /\ ExecPlay(Head(toExec))
     \/ Head(toExec).op = "stop" /\ slot' = NoSlot /\ UNCHANGED fromExec
  /\ UNCHANGED <<queue, running, epoch, pumps, waitEnded, timers, said, tones,
                 timely, connected, crashes, missed, crowded, drops>>

SourceEnds ==
  /\ slot.st = "playing"
  /\ slot' = [slot EXCEPT !.st = "drained"]
  /\ Tells(<<Ended(slot.s)>>)
  /\ UNCHANGED <<queue, running, epoch, pumps, waitEnded, timers, said, tones,
                 timely, connected, crashes, toExec, missed, crowded, drops>>

\* The executor dies, or the link breaks (a pong that stays away, another port
\* in the configuration) and it plays on: it still carries out what it has
\* received, and answers nobody.  The engine is not told of either, nor called
\* back afterwards (onPlayerReconnected() is the song machine's).
Disconnect ==
  /\ connected /\ tones + crashes < MaxMishaps
  /\ connected' = FALSE /\ crashes' = crashes + 1
  /\ fromExec' = <<>>
  /\ \/ "crash" \in Faults /\ slot' = NoSlot /\ toExec' = <<>> /\ UNCHANGED <<missed, drops>>
     \/ /\ "drop" \in Faults /\ drops' = drops + 1 /\ UNCHANGED slot
        /\ \E k \in 0..Len(toExec) :
             /\ toExec' = [j \in 1..k |-> [toExec[j] EXCEPT !.w = 0]]
             /\ missed' = (missed \/ \E j \in DOMAIN toExec : j > k /\ toExec[j].op = "stop")
  /\ UNCHANGED <<queue, running, epoch, pumps, waitEnded, timers, said, tones, timely, crowded>>

Reconnect ==
  /\ ~connected
  /\ connected' = TRUE
  /\ UNCHANGED <<queue, running, epoch, pumps, waitEnded, timers, said, tones,
                 timely, crashes, toExec, fromExec, slot, missed, crowded, drops>>

-----------------------------------------------------------------------------

Init ==
  /\ queue = <<>> /\ running = FALSE /\ epoch = 0 /\ pumps = {}
  /\ waitEnded = 0 /\ timers = {} /\ said = 0 /\ tones = 0 /\ timely \in BOOLEAN
  /\ connected = TRUE /\ crashes = 0
  /\ toExec = <<>> /\ fromExec = <<>> /\ slot = NoSlot
  /\ missed = FALSE /\ crowded = {} /\ drops = 0

PumpStep == \E p \in pumps : Synthesized(p) \/ TimedOut(p)

Next ==
  \/ \E k \in 1..MaxParts : Speak(k)
  \/ Stop \/ TestTone
  \/ PumpStep \/ ReplyArrives \/ EndedArrives \/ (\E i \in timers : TimerFires(i))
  \/ ExecStep \/ SourceEnds \/ Disconnect \/ Reconnect

Spec == Init /\ [][Next]_vars

\* Synthesis answers or times out, timers fire, the executor works and what
\* sounds ends; nobody has to speak or stop, nor a lost link to come back.
FairSpec ==
  /\ Spec
  /\ WF_vars(PumpStep) /\ WF_vars(ReplyArrives) /\ WF_vars(EndedArrives)
  /\ WF_vars(\E i \in timers : TimerFires(i))
  /\ WF_vars(ExecStep) /\ WF_vars(SourceEnds)

-----------------------------------------------------------------------------
(* Properties.                                                             *)

Sounds   == Sentence \cup {Tone}
Requests == [op : {"play", "stop"}, s : Sounds, w : Nat]
Messages == [op : {"reply", "ended"}, s : Sounds, w : Nat, ok : BOOLEAN]

\* Every variable keeps its type.
TypeOK ==
  /\ queue \in Seq(Sentence) /\ running \in BOOLEAN /\ epoch \in Nat
  /\ pumps \subseteq Pump /\ waitEnded \in Nat /\ timers \subseteq Nat \ {0}
  /\ said \in Nat /\ tones \in Nat /\ timely \in BOOLEAN /\ connected \in BOOLEAN /\ crashes \in Nat
  /\ toExec \in Seq(Requests) /\ fromExec \in Seq(Messages)
  /\ slot \in [s : Sounds, st : {"off", "playing", "drained"}]
  /\ missed \in BOOLEAN /\ crowded \subseteq 0..epoch /\ drops \in Nat

\* However stop() and speak() interleave with pumps in flight, a sentence
\* that waits has a pump of the present epoch that will come to it.
SomeoneSpeaks == queue # <<>> => \E p \in pumps : p.ep = epoch

\* A pump that waits for the end of its sentence has a timer that will wake
\* it, even when its stored resolver was overwritten or cleared.
WaitEnds == \A p \in pumps : p.ph = "wait" => p.s.id \in timers

\* No sentence is forgotten and no pump waits for ever.
Safe == TypeOK /\ SomeoneSpeaks /\ WaitEnds

\* Once the executor has done what it was asked, no sentence spoken before
\* the last stop() sounds, whatever was given up meanwhile: unless that stop()
\* found no link, or a link has been lost with a stop on it.
StopSilences ==
  toExec = <<>> /\ slot.st = "playing" /\ ~missed => slot.s = Tone \/ slot.s.ep = epoch

Begins == slot'.st = "playing" /\ slot' # slot /\ Tone \notin {slot.s, slot'.s}

\* No sentence begins after one of a later epoch, nor after a later one of its
\* own, however late the executor is and whatever link it was asked over: unless
\* a pump overtaken by stop() has let a second one start in that epoch.
Before(a, b) == a.ep < b.ep \/ (a.ep = b.ep /\ (a.id < b.id \/ a.ep \in crowded))

\* None is cut short by the next, as long as the executor answers in time, its
\* link is not lost while it plays on, nobody stops and no tone sounds.
NotCutShort == timely /\ drops = 0 /\ epoch = 0 /\ tones = 0 => slot.st = "drained"

\* Sentences begin in the order they were spoken, whatever fails in between.
InOrder == [][Begins => Before(slot.s, slot'.s) /\ NotCutShort]_vars

\* Every sentence leaves the queue.
SpeechDrains ==
  \A i \in 1..MaxSaid :
    (\E k \in DOMAIN queue : queue[k].id = i) ~> (\A k \in DOMAIN queue : queue[k].id # i)
=============================================================================
