------------------------------- MODULE Brain -------------------------------
(***************************************************************************)
(* What the service says: the sessions of the model (llm/session.ts), the  *)
(* brain that runs them one by one (llm/cognition.ts, execute()), the      *)
(* pages that run one beside it (modules/tools.ts), the tools they call,   *)
(* the output router with its rate limit (modules/output.ts), the memory   *)
(* and the trace (core/memory.ts, core/trace.ts).  Dispatch models how     *)
(* requests come to the brain and in which order.                          *)
(***************************************************************************)
EXTENDS Integers, Sequences, FiniteSets

CONSTANTS
  Answers,      \* what the model may answer: sequences of calls of tools
  MaxRounds,    \* DEFAULT_MAX_ROUNDS
  Rate, Window, \* danmaku.ratePerMinute, the minute
  MemorySize,   \* the size of the memory
  MaxRequests,  \* bound on requests to the brain
  MaxOthers,    \* bound on requests of pages, words of rules and edits together
  MaxTime       \* bound on the clock

Callers == {"brain", "page"}
\* display goes by its switch, as tts does that is switched off.
Methods == {"danmaku", "tts"}
Kinds   == {"chat", "playground"}
Calls   == Methods \cup {"silent", "ability"}

\* What the constants have to be: the limits are set, and the model calls tools
\* by names the registry knows or has known.
ASSUME BrainAssumption ==
  /\ Answers \subseteq Seq(Calls) /\ MaxRounds \in Nat \ {0}
  /\ Rate \in Nat \ {0} /\ Window \in Nat \ {0} /\ MemorySize \in Nat
  /\ {MaxRequests, MaxOthers, MaxTime} \subseteq Nat

VARIABLES
  waiting,  \* the number of requests in the queue
  session,  \* the session of each caller
  ruling,   \* rules whose tts segment waits for its delay
  on,       \* the methods output.*.enabled gives
  times,    \* danmakuTimes: the danmaku counted, each with its time
  sent,     \* all danmaku that went out
  counts,   \* counts of the brain
  traces,   \* the number of records of the trace, by source and decision
  memory,   \* the number of entries of the memory
  now, others

vars == <<waiting, session, ruling, on, times, sent, counts, traces, memory, now, others>>

Decisions == {"replied", "silent", "error"}
Danmaku   == [no : Nat \ {0}, at : 0..MaxTime]
NoSession == [at |-> "idle", kind |-> "chat", round |-> 0, todo |-> <<>>, calls |-> {}]

Aside == others < MaxOthers /\ others' = others + 1

Least(a, b) == IF a < b THEN a ELSE b

-----------------------------------------------------------------------------
(* The output router.                                                      *)

\* Slip: what is nearly a minute old is forgotten.
FreshShort == {x \in times : now - x.at < Window - 1}

\* allowDanmaku(): what is left of the last minute.
Fresh == {x \in times : now - x.at < Window}

Allowed == Cardinality(Fresh) < Rate

\* dispatch() of a segment; a danmaku filters `times' when it asks.  What the
\* other methods put out is not recorded: they go by their switch alone.
Dispatch(method) ==
  IF method # "danmaku" \/ "danmaku" \notin on THEN UNCHANGED <<times, sent>>
  ELSE IF Allowed THEN LET x == [no |-> Cardinality(sent) + 1, at |-> now]
                       IN times' = Fresh \cup {x} /\ sent' = sent \cup {x}
  ELSE times' = Fresh /\ UNCHANGED sent

Remember(n) == Least(memory + n, MemorySize)

-----------------------------------------------------------------------------
(* Sessions.                                                               *)

Start(c, kind) ==
  session' = [session EXCEPT ![c] =
                [at |-> "llm", kind |-> kind, round |-> 1, todo |-> <<>>, calls |-> {}]]

\* The session of c goes on.
GoesOn(c, at, round, todo, calls) ==
  session' = [session EXCEPT ![c] =
                [at |-> at, kind |-> session[c].kind, round |-> round, todo |-> todo, calls |-> calls]]

\* request().
Request ==
  /\ counts.queued < MaxRequests
  /\ counts' = [counts EXCEPT !.queued = @ + 1] /\ waiting' = waiting + 1
  /\ UNCHANGED <<session, ruling, on, times, sent, traces, memory, now, others>>

\* drain() takes the next request and execute() calls the model.
Begin ==
  /\ session["brain"].at = "idle" /\ waiting > 0
  /\ waiting' = waiting - 1 /\ Start("brain", "chat")
  /\ UNCHANGED <<ruling, on, times, sent, counts, traces, memory, now, others>>

\* llm.chat and llm.playground, beside the brain.
Page(kind) ==
  /\ session["page"].at = "idle" /\ Aside
  /\ Start("page", kind)
  /\ UNCHANGED <<waiting, ruling, on, times, sent, counts, traces, memory, now>>

\* decision of execute(), from the names of what was called; collectOutputs() asks
\* for a send_reply that succeeded, as each does.  Silence that was asked for comes before what was said.
Decision(calls) ==
  IF "silent" \notin calls /\ calls \cap Methods # {} THEN "replied" ELSE "silent"

Traced(source, d) == traces' = [traces EXCEPT ![<<source, d>>] = @ + 1]

\* Slip: a failed session is not counted.
EndsUncounted(c, d) ==
  /\ session' = [session EXCEPT ![c] = NoSession]
  /\ IF c = "brain"
       THEN /\ counts' = IF d = "error" THEN counts ELSE [counts EXCEPT ![d] = @ + 1]
            /\ Traced("brain", d) /\ memory' = IF d = "replied" THEN Remember(1) ELSE memory
       ELSE /\ UNCHANGED <<counts, memory>>
            /\ IF session[c].kind = "playground" /\ d # "error" THEN Traced("playground", d) ELSE UNCHANGED traces

\* The session of c ends with decision d: the brain counts, remembers and
\* traces it; the playground traces one that has not failed, llm.chat none.
Ends(c, d) ==
  /\ session' = [session EXCEPT ![c] = NoSession]
  /\ IF c = "brain"
       THEN /\ counts' = [counts EXCEPT ![d] = @ + 1] /\ Traced("brain", d)
            /\ memory' = IF d = "replied" THEN Remember(1) ELSE memory
       ELSE /\ UNCHANGED <<counts, memory>>
            /\ IF session[c].kind = "playground" /\ d # "error" THEN Traced("playground", d) ELSE UNCHANGED traces

\* The decision the page's record gives: any send_reply counts.
PageDecision(calls) == IF calls \cap Methods # {} THEN "replied" ELSE "silent"
Closes(c, calls) == Ends(c, IF c = "brain" THEN Decision(calls) ELSE PageDecision(calls))

\* gateway.chat(): no key, a refusal, a time-out.
LlmFails(c) ==
  /\ session[c].at = "llm" /\ Ends(c, "error")
  /\ UNCHANGED <<waiting, ruling, on, times, sent, now, others>>

\* The model answers: without calls the session is over.
LlmAnswers(c) ==
  /\ session[c].at = "llm"
  /\ \E a \in Answers :
       IF a = <<>> THEN Closes(c, session[c].calls)
       ELSE /\ GoesOn(c, "tools", session[c].round, a, session[c].calls)
            /\ UNCHANGED <<counts, traces, memory>>
  /\ UNCHANGED <<waiting, ruling, on, times, sent, now, others>>

\* Slip: the rounds are not counted.
CalledEndless(c) ==
  LET calls == session[c].calls \cup {Head(session[c].todo)}
      rest  == Tail(session[c].todo) IN
  /\ GoesOn(c, IF rest = <<>> THEN "llm" ELSE "tools", session[c].round, rest, calls)
  /\ UNCHANGED <<counts, traces, memory>>

\* The call at the head has answered; after the last one the next round, or the
\* end of the session after the last round.
Called(c) ==
  LET calls == session[c].calls \cup {Head(session[c].todo)}
      rest  == Tail(session[c].todo) IN
  IF rest # <<>>
    THEN /\ GoesOn(c, "tools", session[c].round, rest, calls)
         /\ UNCHANGED <<counts, traces, memory>>
    ELSE IF session[c].round < MaxRounds
    THEN /\ GoesOn(c, "llm", session[c].round + 1, <<>>, calls)
         /\ UNCHANGED <<counts, traces, memory>>
    ELSE Closes(c, calls)

Calling(c, what) == session[c].at = "tools" /\ Head(session[c].todo) \in what

\* send_reply with one segment: a success whatever the router does with it.
Reply(c) ==
  /\ Calling(c, IF "tts" \in on THEN {"danmaku"} ELSE Methods)
  /\ Dispatch(Head(session[c].todo)) /\ Called(c)
  /\ UNCHANGED <<waiting, ruling, on, now, others>>

\* delayBeforeSpeakMs, and the sentence after it, spoken although the channel may
\* have been switched off meanwhile.
Delay(c) ==
  /\ Calling(c, {"tts"}) /\ "tts" \in on
  /\ GoesOn(c, "sleep", session[c].round, session[c].todo, session[c].calls)
  /\ UNCHANGED <<waiting, ruling, on, times, sent, counts, traces, memory, now, others>>
Spoken(c) ==
  /\ session[c].at = "sleep" /\ Called(c)
  /\ UNCHANGED <<waiting, ruling, on, times, sent, now, others>>

\* stay_silent, and an ability or a tool of an MCP server: the session goes on
\* whether it succeeds, fails or is gone.
Other(c) ==
  /\ Calling(c, {"silent", "ability"})
  /\ Called(c)
  /\ UNCHANGED <<waiting, ruling, on, times, sent, now, others>>

-----------------------------------------------------------------------------
(* Others who speak, and the configuration.                                *)

\* speakOut() of a rule or a command: the router, then the memory; tts has its
\* delay here too.
Rule(method) ==
  /\ Aside
  /\ IF method = "tts" /\ "tts" \in on
       THEN ruling' = ruling + 1 /\ UNCHANGED <<times, sent, memory>>
       ELSE Dispatch(method) /\ memory' = Remember(1) /\ UNCHANGED ruling
  /\ UNCHANGED <<waiting, session, on, counts, traces, now>>
RuleSpoken ==
  /\ ruling > 0 /\ ruling' = ruling - 1 /\ memory' = Remember(1)
  /\ UNCHANGED <<waiting, session, on, times, sent, counts, traces, now, others>>

\* output.route and tool.call of a page: the router alone.
Direct(method) ==
  /\ method # "tts" /\ Aside /\ Dispatch(method)
  /\ UNCHANGED <<waiting, session, ruling, on, counts, traces, memory, now>>

Edit ==
  /\ Aside
  /\ \E x \in Methods : on' = IF x \in on THEN on \ {x} ELSE on \cup {x}
  /\ UNCHANGED <<waiting, session, ruling, times, sent, counts, traces, memory, now>>

Tick ==
  /\ now < MaxTime /\ now' = now + 1
  /\ UNCHANGED <<waiting, session, ruling, on, times, sent, counts, traces, memory, others>>

-----------------------------------------------------------------------------
Init ==
  /\ waiting = 0 /\ session = [c \in Callers |-> NoSession] /\ ruling = 0
  /\ on = Methods /\ times = {} /\ sent = {}
  /\ counts = [d \in Decisions \cup {"queued"} |-> 0]
  /\ traces = [r \in {"brain", "playground"} \X Decisions |-> 0]
  /\ memory = 0 /\ now = 0 /\ others = 0

Work(c) == LlmFails(c) \/ LlmAnswers(c) \/ Reply(c) \/ Delay(c) \/ Spoken(c) \/ Other(c)

Next ==
  \/ Request \/ Begin \/ RuleSpoken \/ Edit \/ Tick
  \/ \E c \in Callers : Work(c)
  \/ \E k \in Kinds : Page(k)
  \/ \E x \in Methods : Rule(x) \/ Direct(x)

\* A request to the model ends by its time-out if not before, a delay by its
\* timer, and tools answer or fail by theirs.
Fairness == WF_vars(Begin) /\ \A c \in Callers : WF_vars(Work(c))

Spec == Init /\ [][Next]_vars /\ Fairness

-----------------------------------------------------------------------------
(* Properties.                                                             *)

TypeOK ==
  /\ waiting \in 0..MaxRequests /\ ruling \in 0..MaxOthers /\ memory \in 0..MemorySize
  /\ \A c \in Callers :
       /\ session[c].at \in {"idle", "llm", "tools", "sleep"} /\ session[c].kind \in Kinds
       /\ session[c].round \in 0..MaxRounds /\ session[c].calls \subseteq Calls
       /\ (session[c].todo # <<>>) <=> (session[c].at \in {"tools", "sleep"})
  /\ on \subseteq Methods
  /\ times \subseteq sent /\ sent \subseteq Danmaku /\ \A x \in sent : x.at <= now
  /\ now \in 0..MaxTime /\ others \in 0..MaxOthers

\* Every request of the brain waits, is being dealt with or has been counted
\* under its decision, and the trace has a record of each that has.
Accounted ==
  /\ counts.queued = waiting + (IF session["brain"].at = "idle" THEN 0 ELSE 1)
                     + counts.replied + counts.silent + counts.error
  /\ \A d \in Decisions : counts[d] = traces[<<"brain", d>>]

\* Whoever speaks, and however often the channel is switched, no minute sees
\* more danmaku than the limit.
RateHolds ==
  \A t \in 0..MaxTime : Cardinality({x \in sent : x.at \in t..(t + Window - 1)}) <= Rate

\* The state is well formed, every request is accounted for, and the limit
\* holds.
BrainSafe == TypeOK /\ Accounted /\ RateHolds

\* Every request is dealt with in the end, whatever the model keeps calling.
Answered == (waiting > 0) ~> (waiting = 0 /\ session["brain"].at = "idle")

=============================================================================
