------------------------------ MODULE Dispatch ------------------------------
(***************************************************************************)
(* From an event of the live room to the brain: dispatchEvent()            *)
(* (backend/src/index.ts) tries the commands (core/commands.ts), then the  *)
(* instant rules (core/instant.ts), and gives what neither takes to the    *)
(* batcher (core/batcher.ts).  Batches and the rules that want the brain   *)
(* become requests of the cognition engine (llm/cognition.ts).             *)
(*                                                                         *)
(* Handlers run to their first real wait, so an event that waits for no    *)
(* ability is dealt with in one step; those that do wait are in `running'. *)
(* Time passes in ticks of the batcher; a moment is kept as its age.       *)
(***************************************************************************)
EXTENDS Integers, Sequences, FiniteSets, SequencesExt

CONSTANTS
  Commands, Rules,  \* commands.items and instant.items that are enabled
  Action,           \* action.type of each rule: llm, send-text or run-ability
  Cooldown,         \* cooldown of each command and rule, in ticks; 0: none
  Kinds,            \* what an event may be: the command and the rules it
                    \* matches, and whether the batcher collects it
  Quiet, MaxWait, Span, Density, MaxBatch,  \* behavior.merge, in ticks
  Faults,           \* what may go wrong
  MaxEvents, MaxLag, MaxAge, MaxToggles,
      \* bounds: on the events, on how old one is when it comes in, on how
      \* old one gets while its command or rule runs, on configuration edits
  OldAge    \* ages from here on are not told apart

None   == "none"
Starts == Commands \cup Rules

ASSUME DispatchAssumption ==
  /\ Commands \cap Rules = {} /\ None \notin Starts
  /\ Action \in [Rules -> {"llm", "send-text", "run-ability"}]
  /\ Cooldown \in [Starts -> Nat]
  /\ Kinds \subseteq [cmd : Commands \cup {None}, rules : Seq(Rules), collect : BOOLEAN]
  /\ {Quiet, MaxWait, Span, Density, MaxBatch} \subseteq Nat /\ Span > 0
  /\ MaxEvents \in Nat /\ MaxLag \in Nat /\ MaxAge \in Nat /\ MaxToggles \in Nat
  /\ MaxLag <= MaxAge
  /\ OldAge \in Nat /\ OldAge >= MaxAge + Span /\ OldAge >= MaxWait /\ OldAge >= Quiet
  /\ \A s \in Starts : OldAge >= Cooldown[s]

VARIABLES
  seq,      \* events so far
  running,  \* dispatches that wait for their command or rule
  since,    \* globalLast and lastAt: how long ago each one was marked
  merge,    \* behavior.merge.enabled
  toggles,  \* edits of it
  batch,    \* batch: the events collected; the first carries batchStartAt,
            \* the last lastEventAt
  window,   \* window: the events counted for the density, by their age
  queue,    \* CognitionEngine.queue
  active,   \* the request execute() works on, or Idle
  asked     \* requests so far

vars == <<seq, running, since, merge, toggles, batch, window, queue, active, asked>>

Event   == [id : Nat \ {0}, kind : Kinds, age : Nat]
Run     == [e : Event, on : Starts]
Waiting == [id : Nat \ {0}, age : Nat, waited : Nat]
Counted == [id : Nat \ {0}, age : Nat]
Request == [prio : {0, 1}, no : Nat \ {0}, events : Seq(Nat \ {0})]
Idle    == [prio |-> 2, no |-> 0, events |-> <<>>]

Older(a) == IF a < OldAge THEN a + 1 ELSE a

-----------------------------------------------------------------------------
(* The cognition engine.                                                   *)

\* Slip: the insertion overtakes requests of the same priority.
InsertEager(q, r) ==
  LET at == SelectInSeq(q, LAMBDA x : x.prio >= r.prio)
  IN IF at = 0 THEN Append(q, r) ELSE InsertAt(q, at, r)

\* request(): before the first request of a lower priority.
Insert(q, r) ==
  LET at == SelectInSeq(q, LAMBDA x : x.prio > r.prio)
  IN IF at = 0 THEN Append(q, r) ELSE InsertAt(q, at, r)

\* request() and drain(): the request is executed at once when the engine
\* is idle, which it is only when nothing waits.
Ask(prio, events) ==
  LET r == [prio |-> prio, no |-> asked + 1, events |-> events]
  IN /\ asked' = asked + 1
     /\ IF active = Idle
          THEN active' = Head(Insert(queue, r)) /\ queue' = Tail(Insert(queue, r))
          ELSE queue' = Insert(queue, r) /\ UNCHANGED active

AskNothing == UNCHANGED <<queue, active, asked>>

\* Slip: drain() returns after a request instead of looping.
ThoughtOnce ==
  /\ active # Idle
  /\ active' = Idle
  /\ UNCHANGED <<seq, running, since, merge, toggles, batch, window, queue, asked>>

\* execute() comes back, with an answer or with an error, and drain() takes
\* the next request.
Thought ==
  /\ active # Idle
  /\ IF queue = <<>>
       THEN active' = Idle /\ UNCHANGED queue
       ELSE active' = Head(queue) /\ queue' = Tail(queue)
  /\ UNCHANGED <<seq, running, since, merge, toggles, batch, window, asked>>

-----------------------------------------------------------------------------
(* The batcher.                                                            *)

\* Slip: the batch is not emptied.
FireKeepsBatch(b) ==
  /\ Ask(1, [k \in DOMAIN b |-> b[k].id])
  /\ batch' = b /\ window' = {}

\* fire()
Fire(b) ==
  /\ Ask(1, [k \in DOMAIN b |-> b[k].id])
  /\ batch' = <<>> /\ window' = {}

\* pruneWindow(), when the newest event is of that age.
Pruned(w, age) == {x \in w : x.age - age < Span}

\* The batch is long enough, or dense enough, not to wait.
Full(b, w) ==
  \/ MaxBatch > 0 /\ Len(b) >= MaxBatch
  \/ Density > 0 /\ Cardinality(w) >= Density

\* Slip: every event restarts the wait of the batch.
PushRestarts(e) ==
  IF ~(e.kind.collect /\ merge)
    THEN AskNothing /\ UNCHANGED <<batch, window>>
    ELSE LET b == Append([k \in DOMAIN batch |-> [batch[k] EXCEPT !.age = e.age]],
                         [id |-> e.id, age |-> e.age, waited |-> 0])
             w == Pruned(window \cup {[id |-> e.id, age |-> e.age]}, e.age)
         IN IF Full(b, w)
              THEN Fire(b)
              ELSE batch' = b /\ window' = w /\ AskNothing

\* push()
Push(e) ==
  IF ~(e.kind.collect /\ merge)
    THEN AskNothing /\ UNCHANGED <<batch, window>>
    ELSE LET b == Append(batch, [id |-> e.id, age |-> e.age, waited |-> 0])
             w == Pruned(window \cup {[id |-> e.id, age |-> e.age]}, e.age)
         IN IF Full(b, w)
              THEN Fire(b)
              ELSE batch' = b /\ window' = w /\ AskNothing

\* What a tick does to the batch b: dropped when merging is off, else fired
\* when its first event is MaxWait old or its last one Quiet.
TickBatch(b, w) ==
  IF b # <<>> /\ merge /\ ((MaxWait > 0 /\ Head(b).age >= MaxWait) \/ Last(b).age >= Quiet)
    THEN Fire(b)
    ELSE /\ batch' = IF merge THEN b ELSE <<>>
         /\ window' = w
         /\ AskNothing

-----------------------------------------------------------------------------
(* Commands and instant rules.                                             *)

\* passCooldown()
Passes(s) == since[s] >= Cooldown[s]

\* InstantEngine.handle() and what follows it in dispatchEvent(): the first
\* rule that matches and is not cooling down takes the event.  A rule for
\* the brain or an ability is marked before its action, one that sends a
\* text after it: a text to speak waits output.tts.delayBeforeSpeakMs.  S and
\* R are `since' and `running' at this point.
Instant(e, S, R) ==
  LET fit == SelectInSeq(e.kind.rules, LAMBDA r : S[r] >= Cooldown[r])
      r   == e.kind.rules[fit]
  IN \/ /\ fit = 0
        /\ Push(e)
        /\ since' = S /\ running' = R
     \/ /\ fit # 0 /\ Action[r] = "llm"
        /\ Ask(0, <<e.id>>)
        /\ since' = [S EXCEPT ![r] = 0] /\ running' = R
        /\ UNCHANGED <<batch, window>>
     \/ /\ fit # 0 /\ Action[r] # "llm"
        /\ since' = IF Action[r] = "run-ability" THEN [S EXCEPT ![r] = 0] ELSE S
        /\ running' = R \cup {[e |-> e, on |-> r]}
        /\ AskNothing /\ UNCHANGED <<batch, window>>

\* event.ingest to dispatchEvent().  An event sent again after the plugin
\* was cut off comes in with the age it has.  Events of the system, which
\* emitSystem() gives to the rules, are of kinds without a command that are
\* not collected; that of a rule for the brain comes this way too.
Ingest(k, lag) ==
  /\ seq < MaxEvents
  /\ seq' = seq + 1
  /\ LET e == [id |-> seq + 1, kind |-> k, age |-> lag]
     IN IF k.cmd # None /\ Passes(k.cmd)
          THEN /\ running' = running \cup {[e |-> e, on |-> k.cmd]}
               /\ AskNothing /\ UNCHANGED <<since, batch, window>>
          ELSE Instant(e, since, running)
  /\ UNCHANGED <<merge, toggles>>

\* emitSystem() after a command or a rule, unless announceToFeed is off: an
\* event of the system meets the rules, never the commands or the batcher.
Announce(S, R) ==
  \/ /\ since' = S /\ running' = R
     /\ AskNothing /\ UNCHANGED <<seq, batch, window>>
  \/ /\ seq < MaxEvents
     /\ seq' = seq + 1
     /\ \E k \in Kinds :
          /\ k.cmd = None /\ ~k.collect
          /\ Instant([id |-> seq + 1, kind |-> k, age |-> 0], S, R)

\* The ability of a command has answered: markCooldown() comes only now.
CommandDone(d) ==
  /\ d.on \in Commands
  /\ Announce([since EXCEPT ![d.on] = 0], running \ {d})
  /\ UNCHANGED <<merge, toggles>>

\* A rule's ability or text is through; a text of which nothing was sent
\* leaves the cooldown unmarked.
RuleDone(d) ==
  /\ d.on \in Rules
  /\ \E sent \in BOOLEAN :
       Announce(IF sent /\ Action[d.on] = "send-text" THEN [since EXCEPT ![d.on] = 0] ELSE since,
                running \ {d})
  /\ UNCHANGED <<merge, toggles>>

\* A text cannot be sent: dispatchEvent() catches, and the batcher gets the
\* event.
RuleFails(d) ==
  /\ "routeThrows" \in Faults
  /\ d.on \in Rules /\ Action[d.on] = "send-text"
  /\ running' = running \ {d}
  /\ Push(d.e)
  /\ UNCHANGED <<seq, since, merge, toggles>>

\* cognition.fire: the console wakes the brain.
Manual ==
  /\ seq < MaxEvents
  /\ seq' = seq + 1
  /\ Ask(1, <<seq + 1>>)
  /\ UNCHANGED <<running, since, merge, toggles, batch, window>>

\* behavior.merge.enabled is edited.
ToggleMerge ==
  /\ toggles < MaxToggles
  /\ toggles' = toggles + 1
  /\ merge' = ~merge
  /\ UNCHANGED <<seq, running, since, batch, window, queue, active, asked>>

\* A tick of the clock, and tick().
Tick ==
  /\ \A d \in running : d.e.age < MaxAge
  /\ running' = {[e |-> [id |-> d.e.id, kind |-> d.e.kind, age |-> d.e.age + 1], on |-> d.on] :
                   d \in running}
  /\ since' = [s \in Starts |-> Older(since[s])]
  /\ TickBatch([k \in DOMAIN batch |-> [id |-> batch[k].id, age |-> Older(batch[k].age),
                                        waited |-> Older(batch[k].waited)]],
               {[id |-> x.id, age |-> Older(x.age)] : x \in window})
  /\ UNCHANGED <<seq, merge, toggles>>

-----------------------------------------------------------------------------

Init ==
  /\ seq = 0 /\ running = {}
  /\ since = [s \in Starts |-> OldAge]
  /\ merge = TRUE /\ toggles = 0
  /\ batch = <<>> /\ window = {}
  /\ queue = <<>> /\ active = Idle /\ asked = 0

Answer == \E d \in running : CommandDone(d) \/ RuleDone(d) \/ RuleFails(d)

Next ==
  \/ \E k \in Kinds, lag \in 0..MaxLag : Ingest(k, lag)
  \/ Answer \/ Manual \/ ToggleMerge \/ Tick \/ Thought

Spec == Init /\ [][Next]_vars

\* Abilities answer (their requests time out), the model does (so does its
\* request), and the batcher's interval runs; no event has to come.
FairSpec == Spec /\ WF_vars(Answer) /\ WF_vars(Thought) /\ WF_vars(Tick)

-----------------------------------------------------------------------------
(* Properties.                                                             *)

\* Every variable keeps its type.
TypeOK ==
  /\ seq \in Nat /\ running \subseteq Run /\ since \in [Starts -> Nat]
  /\ merge \in BOOLEAN /\ toggles \in Nat
  /\ batch \in Seq(Waiting) /\ window \subseteq Counted
  /\ queue \in Seq(Request) /\ active \in Request \cup {Idle} /\ asked \in Nat

\* The events held: by a command or rule that runs, by the batch, by a
\* request that waits and by the one at work.
Held ==
  <<{d.e.id : d \in running}, {batch[k].id : k \in DOMAIN batch},
    UNION {ToSet(queue[k].events) : k \in DOMAIN queue}, ToSet(active.events)>>

\* An event is in one place only, and there once: it is never both acted on
\* and thought about, nor thought about twice.
OnlyOnce ==
  /\ \A j, k \in 1..4 : j # k => Held[j] \cap Held[k] = {}
  /\ \A d1, d2 \in running : d1.e.id = d2.e.id => d1 = d2
  /\ \A j, k \in DOMAIN batch : batch[j].id = batch[k].id => j = k
  /\ \A j, k \in DOMAIN queue :
       j # k => ToSet(queue[j].events) \cap ToSet(queue[k].events) = {}

\* The state is well formed and each event is in one place of it.
Safe == TypeOK /\ OnlyOnce

\* However old the events are when they come in and however many follow, no
\* event stays in the batch for MaxWait, nor the last one for Quiet.
FiredInTime ==
  /\ MaxWait > 0 => \A k \in DOMAIN batch : batch[k].waited < MaxWait
  /\ batch # <<>> => Last(batch).waited < IF Quiet > 0 THEN Quiet ELSE 1

\* The engine takes the requests of the rules before those of the batcher,
\* and each sort in the order they were made.
UrgentFirst ==
  [][active' # active /\ active' # Idle =>
       \A k \in DOMAIN queue' :
         \/ active'.prio < queue'[k].prio
         \/ active'.prio = queue'[k].prio /\ active'.no < queue'[k].no]_vars

\* Every event is eventually dealt with.
EventuallyDealtWith ==
  \A i \in 1..MaxEvents :
    (\E j \in 1..4 : i \in Held[j]) ~> (\A j \in 1..4 : i \notin Held[j])
=============================================================================
