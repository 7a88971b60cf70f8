----------------------------- MODULE PartsProofs -----------------------------
(***************************************************************************)
(* Theorems about Brain, Stage and Lookup for every value of their         *)
(* constants: every request of the brain is accounted for, and no minute   *)
(* sees more danmaku than the limit; the executor comes to show the stage  *)
(* as it is configured; and a play list is that of the first service that  *)
(* has one.                                                                *)
(***************************************************************************)
EXTENDS MCParts, FiniteSetTheorems, SequenceTheorems, TLAPS

-----------------------------------------------------------------------------
(* The inductive invariant.                                                *)

Sessions ==
  {s \in [at : {"idle", "llm", "tools", "sleep"}, kind : Kinds, round : 0..MaxRounds,
          todo : Seq(Calls), calls : SUBSET Calls] :
     (s.todo # <<>>) <=> (s.at \in {"tools", "sleep"})}

SessionsOK == session \in [Callers -> Sessions]

BooksTyped ==
  /\ waiting \in Nat /\ ruling \in Nat /\ memory \in 0..MemorySize
  /\ counts \in [Decisions \cup {"queued"} -> Nat] /\ counts["queued"] <= MaxRequests
  /\ traces \in [{"brain", "playground"} \X Decisions -> Nat]
  /\ on \subseteq Methods /\ now \in 0..MaxTime /\ others \in 0..MaxOthers /\ ruling <= others

\* What the router still counts is all that went out in the last minute.
Remembered == {x \in sent : now - x.at < Window} \subseteq times /\ times \subseteq sent

\* The danmaku are numbered as they go out.
Numbered ==
  /\ IsFiniteSet(sent) /\ sent \subseteq Danmaku
  /\ \A x \in sent : x.no <= Cardinality(sent) /\ x.at <= now

RouterInv == Remembered /\ Numbered /\ RateHolds

IInv == SessionsOK /\ BooksTyped /\ Accounted /\ RouterInv

-----------------------------------------------------------------------------
(* The router.                                                             *)

LEMMA DispatchKeeps ==
  ASSUME RouterInv, now \in 0..MaxTime, now' = now, NEW method, Dispatch(method)
  PROVE  RouterInv'
<1>1. CASE UNCHANGED <<times, sent>>
  BY <1>1 DEF RouterInv, Remembered, Numbered, RateHolds
<1>2. /\ times \subseteq sent /\ sent \subseteq Danmaku /\ IsFiniteSet(sent)
      /\ \A x \in sent : x.no <= Cardinality(sent) /\ x.at <= now
      /\ {x \in sent : now - x.at < Window} \subseteq times
      /\ Cardinality(sent) \in Nat
  BY FS_CardinalityType DEF RouterInv, Remembered, Numbered
<1>3. Fresh \subseteq times /\ {x \in sent : now - x.at < Window} \subseteq Fresh
  BY <1>2 DEF Fresh
<1>4. CASE times' = Fresh /\ sent' = sent
  BY <1>2, <1>3, <1>4 DEF RouterInv, Remembered, Numbered, RateHolds
<1>5. CASE /\ Allowed
           /\ LET x == [no |-> Cardinality(sent) + 1, at |-> now]
              IN times' = Fresh \cup {x} /\ sent' = sent \cup {x}
  <2>1. PICK x : x = [no |-> Cardinality(sent) + 1, at |-> now]
    OBVIOUS
  <2>2. x.no = Cardinality(sent) + 1 /\ x.at = now /\ x \in Danmaku
    BY <1>2, <2>1 DEF Danmaku
  <2>3. times' = Fresh \cup {x} /\ sent' = sent \cup {x}
    BY <1>5, <2>1
  <2>4. x \notin sent
    BY <1>2, <2>2
  <2>5. IsFiniteSet(sent') /\ Cardinality(sent') = Cardinality(sent) + 1
    BY <1>2, <2>3, <2>4, FS_AddElement
  <2>6. Numbered'
    <3>1. \A y \in sent : y.no \in Nat /\ y.no <= Cardinality(sent)
      BY <1>2 DEF Danmaku
    <3>2. \A y \in sent' : y.no <= Cardinality(sent') /\ y.at <= now'
      BY <1>2, <2>2, <2>3, <2>5, <3>1
    <3> QED BY <1>2, <2>2, <2>3, <2>5, <3>2 DEF Numbered
  <2>7. Remembered'
    BY <1>2, <1>3, <2>3 DEF Remembered
  <2>8. RateHolds'
    <3> SUFFICES ASSUME NEW t \in 0..MaxTime
                 PROVE  Cardinality({y \in sent' : y.at \in t..(t + Window - 1)}) <= Rate
      BY DEF RateHolds
    <3>1. PICK Old : Old = {y \in sent : y.at \in t..(t + Window - 1)}
      OBVIOUS
    <3>2. PICK New : New = {y \in sent' : y.at \in t..(t + Window - 1)}
      OBVIOUS
    <3>3. Cardinality(Old) <= Rate
      BY <3>1 DEF RouterInv, RateHolds
    <3>4. CASE now \notin t..(t + Window - 1)
      <4>1. New = Old
        BY <2>2, <2>3, <3>1, <3>2, <3>4
      <4> QED BY <3>2, <3>3, <4>1
    <3>5. CASE now \in t..(t + Window - 1)
      <4>1. Old \subseteq Fresh
        <5> SUFFICES ASSUME NEW y \in Old PROVE y \in Fresh
          OBVIOUS
        <5>1. y \in sent /\ y.at \in t..(t + Window - 1)
          BY <3>1
        <5>2. now - y.at < Window
          BY <3>5, <5>1, BrainAssumption
        <5> QED BY <1>3, <5>1, <5>2
      <4>2. IsFiniteSet(Fresh)
        BY <1>2, <1>3, FS_Subset
      <4>3. /\ IsFiniteSet(Fresh \cup {x})
            /\ Cardinality(Fresh \cup {x}) = Cardinality(Fresh) + 1
            /\ Cardinality(Fresh) \in Nat
        BY <1>2, <1>3, <2>4, <4>2, FS_AddElement, FS_CardinalityType
      <4>4. New \subseteq Fresh \cup {x}
        BY <2>3, <3>1, <3>2, <4>1
      <4>5. Cardinality(New) <= Cardinality(Fresh \cup {x})
        BY <4>3, <4>4, FS_Subset
      <4>6. Cardinality(New) \in Nat
        BY <4>3, <4>4, FS_Subset, FS_CardinalityType
      <4>7. Cardinality(Fresh) < Rate
        BY <1>5 DEF Allowed
      <4> QED BY <3>2, <4>3, <4>5, <4>6, <4>7, BrainAssumption
    <3> QED BY <3>4, <3>5
  <2> QED BY <2>6, <2>7, <2>8 DEF RouterInv
<1> QED BY <1>1, <1>4, <1>5 DEF Dispatch

\* What the clock alone does to the router.
LEMMA RouterStays ==
  ASSUME RouterInv, now \in 0..MaxTime, now' \in 0..MaxTime, now <= now',
         UNCHANGED <<times, sent>>
  PROVE  RouterInv'
<1>1. \A x \in sent : x.at \in 0..MaxTime /\ x.at <= now
  BY DEF RouterInv, Numbered, Danmaku
<1>2. \A x \in sent : now' - x.at < Window => now - x.at < Window
  BY <1>1, BrainAssumption
<1>3. Remembered'
  BY <1>2 DEF RouterInv, Remembered
<1>4. Numbered'
  BY <1>1 DEF RouterInv, Numbered
<1> QED BY <1>3, <1>4 DEF RouterInv, RateHolds

-----------------------------------------------------------------------------
(* The sessions and the books.                                             *)

\* A step of a session: it goes on, or ends with a decision.
Outcome(c) ==
  \/ /\ \E s \in Sessions : s.at # "idle" /\ session' = [session EXCEPT ![c] = s]
     /\ UNCHANGED <<counts, traces, memory>>
  \/ \E d \in Decisions : Ends(c, d)

LEMMA SessionIs ==
  ASSUME SessionsOK, NEW c \in Callers
  PROVE  /\ session[c] \in Sessions /\ session[c].kind \in Kinds
         /\ session[c].round \in 0..MaxRounds /\ session[c].todo \in Seq(Calls)
         /\ session[c].calls \subseteq Calls
         /\ (session[c].todo # <<>>) <=> (session[c].at \in {"tools", "sleep"})
<1>1. session[c] \in Sessions
  BY DEF SessionsOK
<1> QED BY <1>1 DEF Sessions

LEMMA GoesOnIs ==
  ASSUME SessionsOK, NEW c \in Callers, NEW at \in {"llm", "tools", "sleep"},
         NEW round \in 0..MaxRounds, NEW todo \in Seq(Calls), NEW calls \in SUBSET Calls,
         (todo # <<>>) <=> (at \in {"tools", "sleep"}),
         GoesOn(c, at, round, todo, calls), UNCHANGED <<counts, traces, memory>>
  PROVE  Outcome(c)
<1>1. PICK s : s = [at |-> at, kind |-> session[c].kind, round |-> round, todo |-> todo,
                    calls |-> calls]
  OBVIOUS
<1>2. session[c].kind \in Kinds
  BY SessionIs
<1>3. s \in Sessions /\ s.at # "idle"
  BY <1>1, <1>2 DEF Sessions
<1>4. session' = [session EXCEPT ![c] = s]
  BY <1>1 DEF GoesOn
<1> QED BY <1>3, <1>4 DEF Outcome

LEMMA ClosesIs ==
  ASSUME NEW c \in Callers, NEW calls, Closes(c, calls)
  PROVE  Outcome(c)
BY DEF Closes, Decision, PageDecision, Decisions, Outcome

LEMMA CalledIs ==
  ASSUME SessionsOK, NEW c \in Callers, session[c].at \in {"tools", "sleep"}, Called(c)
  PROVE  Outcome(c)
<1> DEFINE calls == session[c].calls \cup {Head(session[c].todo)}
           rest  == Tail(session[c].todo)
<1>1. /\ session[c].round \in 0..MaxRounds /\ session[c].todo \in Seq(Calls)
      /\ session[c].todo # <<>> /\ session[c].calls \subseteq Calls
  BY SessionIs
<1>2. calls \in SUBSET Calls /\ rest \in Seq(Calls)
  BY <1>1
<1>3. \/ /\ rest # <<>> /\ GoesOn(c, "tools", session[c].round, rest, calls)
         /\ UNCHANGED <<counts, traces, memory>>
      \/ /\ session[c].round < MaxRounds
         /\ GoesOn(c, "llm", session[c].round + 1, <<>>, calls)
         /\ UNCHANGED <<counts, traces, memory>>
      \/ Closes(c, calls)
  BY DEF Called
<1> HIDE DEF calls, rest
<1>4. CASE /\ rest # <<>> /\ GoesOn(c, "tools", session[c].round, rest, calls)
           /\ UNCHANGED <<counts, traces, memory>>
  BY <1>1, <1>2, <1>4, GoesOnIs
<1>5. CASE /\ session[c].round < MaxRounds
           /\ GoesOn(c, "llm", session[c].round + 1, <<>>, calls)
           /\ UNCHANGED <<counts, traces, memory>>
  <2>1. session[c].round + 1 \in 0..MaxRounds /\ <<>> \in Seq(Calls)
    BY <1>1, <1>5, BrainAssumption
  <2> QED BY <1>2, <1>5, <2>1, GoesOnIs
<1> QED BY <1>3, <1>4, <1>5, ClosesIs

LEMMA RememberIs ==
  ASSUME memory \in 0..MemorySize, NEW n \in Nat
  PROVE  Remember(n) \in 0..MemorySize
BY BrainAssumption DEF Remember, Least

LEMMA OutcomeKeeps ==
  ASSUME SessionsOK, BooksTyped, Accounted, NEW c \in Callers, session[c].at # "idle",
         Outcome(c), UNCHANGED <<waiting, ruling, on, now, others>>
  PROVE  SessionsOK' /\ BooksTyped' /\ Accounted'
<1>1. CASE /\ \E s \in Sessions : s.at # "idle" /\ session' = [session EXCEPT ![c] = s]
           /\ UNCHANGED <<counts, traces, memory>>
  <2>1. PICK s \in Sessions : s.at # "idle" /\ session' = [session EXCEPT ![c] = s]
    BY <1>1
  <2>2. SessionsOK'
    BY <2>1 DEF SessionsOK
  <2>3. BooksTyped'
    BY <1>1 DEF BooksTyped
  <2>4. session'["brain"].at = "idle" <=> session["brain"].at = "idle"
    BY <2>1 DEF SessionsOK, Callers
  <2> QED BY <1>1, <2>2, <2>3, <2>4 DEF Accounted
<1>2. CASE \E d \in Decisions : Ends(c, d)
  <2>1. PICK d \in Decisions : Ends(c, d)
    BY <1>2
  <2>2. NoSession \in Sessions /\ NoSession.at = "idle"
    BY BrainAssumption DEF NoSession, Sessions, Kinds
  <2>3. session' = [session EXCEPT ![c] = NoSession]
    BY <2>1 DEF Ends
  <2>4. SessionsOK'
    BY <2>2, <2>3 DEF SessionsOK
  <2>5. /\ counts \in [Decisions \cup {"queued"} -> Nat] /\ counts["queued"] <= MaxRequests
        /\ traces \in [{"brain", "playground"} \X Decisions -> Nat]
        /\ memory \in 0..MemorySize
    BY DEF BooksTyped
  <2>6. memory' \in 0..MemorySize
    BY <2>1, <2>5, RememberIs DEF Ends
  <2>7. CASE c = "brain"
    <3>1. /\ counts' = [counts EXCEPT ![d] = @ + 1]
          /\ traces' = [traces EXCEPT ![<<"brain", d>>] = @ + 1]
      BY <2>1, <2>7 DEF Ends, Traced
    <3>2. /\ counts' \in [Decisions \cup {"queued"} -> Nat] /\ counts'["queued"] = counts["queued"]
          /\ counts'[d] = counts[d] + 1
          /\ \A x \in Decisions : x # d => counts'[x] = counts[x]
      BY <2>5, <3>1 DEF Decisions
    <3>3. PICK r : r = <<"brain", d>>
      OBVIOUS
    <3>4. r \in {"brain", "playground"} \X Decisions
      BY <3>3
    <3>5. /\ traces' \in [{"brain", "playground"} \X Decisions -> Nat]
          /\ traces'[r] = traces[r] + 1
          /\ \A x \in {"brain", "playground"} \X Decisions : x # r => traces'[x] = traces[x]
      BY <2>5, <3>1, <3>3, <3>4
    <3>6. BooksTyped'
      BY <2>5, <2>6, <3>2, <3>5 DEF BooksTyped
    <3>7. \A x \in Decisions : counts'[x] = traces'[<<"brain", x>>]
      <4> TAKE x \in Decisions
      <4>1. counts[x] = traces[<<"brain", x>>]
        BY DEF Accounted
      <4>2. CASE x = d
        BY <3>2, <3>3, <3>5, <4>1, <4>2
      <4>3. CASE x # d
        <5>1. <<"brain", x>> # r /\ <<"brain", x>> \in {"brain", "playground"} \X Decisions
          BY <3>3, <4>3
        <5> QED BY <3>2, <3>5, <4>1, <4>3, <5>1
      <4> QED BY <4>2, <4>3
    <3>8. session'["brain"].at = "idle" /\ session["brain"].at # "idle"
      BY <2>2, <2>3, <2>7 DEF SessionsOK
    <3>9. /\ counts["replied"] \in Nat /\ counts["silent"] \in Nat /\ counts["error"] \in Nat
          /\ waiting \in Nat
      BY <2>5 DEF Decisions, BooksTyped
    <3>10. counts'["queued"] = waiting' + counts'["replied"] + counts'["silent"] + counts'["error"]
      <4>1. counts["queued"] = waiting + 1 + counts["replied"] + counts["silent"] + counts["error"]
        BY <3>8 DEF Accounted
      <4>2. d = "replied" \/ d = "silent" \/ d = "error"
        BY DEF Decisions
      <4>3. \A x \in {"replied", "silent", "error"} :
              counts'[x] = IF x = d THEN counts[x] + 1 ELSE counts[x]
        BY <3>2 DEF Decisions
      <4> QED BY <3>2, <3>9, <4>1, <4>2, <4>3
    <3> QED BY <2>4, <3>6, <3>7, <3>8, <3>9, <3>10, <3>2 DEF Accounted, Decisions
  <2>8. CASE c # "brain"
    <3>1. counts' = counts
      BY <2>1, <2>8 DEF Ends
    <3>2. \/ traces' = traces
          \/ traces' = [traces EXCEPT ![<<"playground", d>>] = @ + 1]
      BY <2>1, <2>8 DEF Ends, Traced
    <3>3. /\ traces' \in [{"brain", "playground"} \X Decisions -> Nat]
          /\ \A x \in Decisions : traces'[<<"brain", x>>] = traces[<<"brain", x>>]
      <4>1. CASE traces' = traces
        BY <2>5, <4>1
      <4>2. CASE traces' = [traces EXCEPT ![<<"playground", d>>] = @ + 1]
        <5>1. PICK r : r = <<"playground", d>>
          OBVIOUS
        <5>2. r \in {"brain", "playground"} \X Decisions
          BY <5>1
        <5>3. /\ traces' \in [{"brain", "playground"} \X Decisions -> Nat]
              /\ \A x \in {"brain", "playground"} \X Decisions : x # r => traces'[x] = traces[x]
          BY <2>5, <4>2, <5>1, <5>2
        <5>4. \A x \in Decisions : <<"brain", x>> # r
          BY <5>1
        <5> QED BY <5>3, <5>4
      <4> QED BY <3>2, <4>1, <4>2
    <3>4. session'["brain"] = session["brain"]
      BY <2>3, <2>8 DEF SessionsOK, Callers
    <3>5. BooksTyped'
      BY <2>6, <3>1, <3>3 DEF BooksTyped
    <3>6. Accounted'
      BY <3>1, <3>3, <3>4 DEF Accounted
    <3> QED BY <2>4, <3>5, <3>6
  <2> QED BY <2>7, <2>8
<1> QED BY <1>1, <1>2 DEF Outcome

-----------------------------------------------------------------------------
(* Every step keeps the invariant.                                         *)

LEMMA InitInvariant == Init => IInv
<1> SUFFICES ASSUME Init PROVE IInv
  OBVIOUS
<1>1. NoSession \in Sessions /\ NoSession.at = "idle"
  BY BrainAssumption DEF NoSession, Sessions, Kinds
<1>2. SessionsOK /\ session["brain"].at = "idle"
  BY <1>1 DEF Init, SessionsOK, Callers
<1>3. BooksTyped
  BY BrainAssumption DEF Init, BooksTyped
<1>4. Accounted
  BY <1>2 DEF Init, Accounted, Decisions
<1>5. IsFiniteSet({}) /\ Cardinality({}) = 0
  BY FS_EmptySet
<1>6. \A t \in 0..MaxTime : {x \in sent : x.at \in t..(t + Window - 1)} = {}
  BY DEF Init
<1>7. RateHolds
  <2> SUFFICES ASSUME NEW t \in 0..MaxTime
               PROVE  Cardinality({x \in sent : x.at \in t..(t + Window - 1)}) <= Rate
    BY DEF RateHolds
  <2>1. Cardinality({x \in sent : x.at \in t..(t + Window - 1)}) = 0
    BY <1>5, <1>6, Zenon
  <2> QED BY <2>1, BrainAssumption
<1>8. Remembered /\ Numbered
  BY <1>5 DEF Init, Remembered, Numbered
<1> QED BY <1>2, <1>3, <1>4, <1>7, <1>8 DEF IInv, RouterInv

\* The parts of the state that most steps leave alone.
Quiet == UNCHANGED <<times, sent, now>>
LEMMA QuietKeeps == ASSUME IInv, Quiet PROVE RouterInv'
BY DEF IInv, Quiet, RouterInv, Remembered, Numbered, RateHolds

\* A step of a session which the router does not see.
LEMMA SessionKeeps ==
  ASSUME IInv, NEW c \in Callers, session[c].at # "idle", Outcome(c),
         UNCHANGED <<waiting, ruling, on, now, others>>, RouterInv'
  PROVE  IInv'
BY OutcomeKeeps DEF IInv

LEMMA WorkKeeps == ASSUME IInv, NEW c \in Callers, Work(c) PROVE IInv'
<1>0. SessionsOK /\ now \in 0..MaxTime
  BY DEF IInv, BooksTyped
<1>1. CASE LlmFails(c)
  <2>1. Outcome(c)
    BY <1>1 DEF LlmFails, Outcome, Decisions
  <2> QED BY <1>1, <2>1, QuietKeeps, SessionKeeps DEF LlmFails, Quiet
<1>2. CASE LlmAnswers(c)
  <2>1. PICK a \in Answers :
          IF a = <<>> THEN Closes(c, session[c].calls)
          ELSE /\ GoesOn(c, "tools", session[c].round, a, session[c].calls)
               /\ UNCHANGED <<counts, traces, memory>>
    BY <1>2 DEF LlmAnswers
  <2>2. a \in Seq(Calls)
    BY BrainAssumption
  <2>3. session[c].round \in 0..MaxRounds /\ session[c].calls \in SUBSET Calls
    BY <1>0, SessionIs
  <2>4. Outcome(c)
    BY <1>0, <2>1, <2>2, <2>3, ClosesIs, GoesOnIs
  <2> QED BY <1>2, <2>4, QuietKeeps, SessionKeeps DEF LlmAnswers, Quiet
<1>3. CASE Reply(c)
  <2>1. session[c].at = "tools" /\ Outcome(c)
    BY <1>0, <1>3, CalledIs DEF Reply, Calling
  <2>2. RouterInv'
    BY <1>0, <1>3, DispatchKeeps DEF Reply, IInv
  <2> QED BY <1>3, <2>1, <2>2, SessionKeeps DEF Reply
<1>4. CASE Delay(c)
  <2>1. /\ session[c].at = "tools"
        /\ GoesOn(c, "sleep", session[c].round, session[c].todo, session[c].calls)
        /\ UNCHANGED <<counts, traces, memory>>
    BY <1>4 DEF Delay, Calling
  <2>2. /\ session[c].round \in 0..MaxRounds /\ session[c].todo \in Seq(Calls)
        /\ session[c].calls \in SUBSET Calls /\ session[c].todo # <<>>
    BY <1>0, <2>1, SessionIs
  <2>3. Outcome(c)
    BY <1>0, <2>1, <2>2, GoesOnIs
  <2> QED BY <1>4, <2>1, <2>3, QuietKeeps, SessionKeeps DEF Delay, Quiet
<1>5. CASE Spoken(c)
  <2>1. session[c].at = "sleep" /\ Outcome(c)
    BY <1>0, <1>5, CalledIs DEF Spoken
  <2> QED BY <1>5, <2>1, QuietKeeps, SessionKeeps DEF Spoken, Quiet
<1>6. CASE Other(c)
  <2>1. session[c].at = "tools" /\ Outcome(c)
    BY <1>0, <1>6, CalledIs DEF Other, Calling
  <2> QED BY <1>6, <2>1, QuietKeeps, SessionKeeps DEF Other, Quiet
<1> QED BY <1>1, <1>2, <1>3, <1>4, <1>5, <1>6 DEF Work

LEMMA StartIs ==
  ASSUME SessionsOK, NEW c \in Callers, NEW kind \in Kinds, Start(c, kind)
  PROVE  /\ SessionsOK' /\ session'[c].at # "idle"
         /\ \A x \in Callers : x # c => session'[x] = session[x]
<1>1. PICK s : s = [at |-> "llm", kind |-> kind, round |-> 1, todo |-> <<>>, calls |-> {}]
  OBVIOUS
<1>2. s \in Sessions /\ s.at # "idle"
  BY <1>1, BrainAssumption DEF Sessions
<1>3. session' = [session EXCEPT ![c] = s]
  BY <1>1 DEF Start
<1> QED BY <1>2, <1>3 DEF SessionsOK

LEMMA RequestKeeps == ASSUME IInv, Request PROVE IInv'
<1>1. /\ counts \in [Decisions \cup {"queued"} -> Nat] /\ waiting \in Nat
      /\ counts["queued"] < MaxRequests
      /\ counts' = [counts EXCEPT !["queued"] = @ + 1] /\ waiting' = waiting + 1
      /\ UNCHANGED <<session, ruling, on, times, sent, traces, memory, now, others>>
  BY DEF IInv, BooksTyped, Request
<1>2. /\ counts' \in [Decisions \cup {"queued"} -> Nat]
      /\ counts'["queued"] = counts["queued"] + 1 /\ counts["queued"] \in Nat
      /\ \A d \in Decisions : counts'[d] = counts[d] /\ counts[d] \in Nat
  BY <1>1 DEF Decisions
<1>3. BooksTyped'
  BY <1>1, <1>2, BrainAssumption DEF IInv, BooksTyped
<1>4. Accounted'
  BY <1>1, <1>2 DEF IInv, Accounted, Decisions
<1>5. RouterInv'
  BY <1>1, QuietKeeps DEF Quiet
<1> QED BY <1>1, <1>3, <1>4, <1>5 DEF IInv, SessionsOK

LEMMA BeginKeeps == ASSUME IInv, Begin PROVE IInv'
<1>1. /\ session["brain"].at = "idle" /\ waiting \in Nat /\ waiting > 0 /\ waiting' = waiting - 1
      /\ Start("brain", "chat")
      /\ UNCHANGED <<ruling, on, times, sent, counts, traces, memory, now, others>>
  BY DEF IInv, BooksTyped, Begin
<1>2. SessionsOK' /\ session'["brain"].at # "idle"
  BY <1>1, StartIs DEF IInv, Callers, Kinds
<1>3. BooksTyped'
  BY <1>1 DEF IInv, BooksTyped
<1>4. \A d \in Decisions \cup {"queued"} : counts[d] \in Nat
  BY DEF IInv, BooksTyped
<1>5. Accounted'
  BY <1>1, <1>2, <1>4 DEF IInv, Accounted, Decisions
<1>6. RouterInv'
  BY <1>1, QuietKeeps DEF Quiet
<1> QED BY <1>2, <1>3, <1>5, <1>6 DEF IInv

LEMMA PageKeeps == ASSUME IInv, NEW kind \in Kinds, Page(kind) PROVE IInv'
<1>1. /\ Start("page", kind) /\ others < MaxOthers /\ others' = others + 1
      /\ UNCHANGED <<waiting, ruling, on, times, sent, counts, traces, memory, now>>
  BY DEF Page, Aside
<1>2. SessionsOK' /\ session'["brain"] = session["brain"]
  BY <1>1, StartIs DEF IInv, Callers
<1>3. BooksTyped'
  BY <1>1, BrainAssumption DEF IInv, BooksTyped
<1>4. RouterInv'
  BY <1>1, QuietKeeps DEF Quiet
<1> QED BY <1>1, <1>2, <1>3, <1>4 DEF IInv, Accounted

\* Steps beside the sessions, which the books do not see.
LEMMA BesideKeeps ==
  ASSUME IInv, UNCHANGED <<waiting, session, counts, traces>>, BooksTyped', RouterInv'
  PROVE  IInv'
BY DEF IInv, SessionsOK, Accounted

LEMMA RuleKeeps == ASSUME IInv, NEW method \in Methods, Rule(method) PROVE IInv'
<1>1. /\ others < MaxOthers /\ others' = others + 1
      /\ UNCHANGED <<waiting, session, on, counts, traces, now>>
      /\ \/ ruling' = ruling + 1 /\ UNCHANGED <<times, sent, memory>>
         \/ Dispatch(method) /\ memory' = Remember(1) /\ UNCHANGED ruling
  BY DEF Rule, Aside
<1>2. memory \in 0..MemorySize /\ Remember(1) \in 0..MemorySize /\ now \in 0..MaxTime
  BY RememberIs DEF IInv, BooksTyped
<1>3. BooksTyped'
  BY <1>1, <1>2, BrainAssumption DEF IInv, BooksTyped
<1>4. RouterInv'
  BY <1>1, <1>2, QuietKeeps, DispatchKeeps DEF Quiet, IInv
<1> QED BY <1>1, <1>3, <1>4, BesideKeeps

LEMMA RuleSpokenKeeps == ASSUME IInv, RuleSpoken PROVE IInv'
<1>1. /\ ruling > 0 /\ ruling' = ruling - 1 /\ memory' = Remember(1)
      /\ UNCHANGED <<waiting, session, on, times, sent, counts, traces, now, others>>
  BY DEF RuleSpoken
<1>2. Remember(1) \in 0..MemorySize
  BY RememberIs DEF IInv, BooksTyped
<1>3. BooksTyped'
  BY <1>1, <1>2, BrainAssumption DEF IInv, BooksTyped
<1> QED BY <1>1, <1>3, QuietKeeps, BesideKeeps DEF Quiet

LEMMA DirectKeeps == ASSUME IInv, NEW method \in Methods, Direct(method) PROVE IInv'
<1>1. /\ others < MaxOthers /\ others' = others + 1 /\ Dispatch(method)
      /\ UNCHANGED <<waiting, session, ruling, on, counts, traces, memory, now>>
  BY DEF Direct, Aside
<1>2. BooksTyped'
  BY <1>1, BrainAssumption DEF IInv, BooksTyped
<1>3. RouterInv'
  BY <1>1, DispatchKeeps DEF IInv, BooksTyped
<1> QED BY <1>1, <1>2, <1>3, BesideKeeps

LEMMA EditKeeps == ASSUME IInv, Edit PROVE IInv'
<1>1. /\ others < MaxOthers /\ others' = others + 1
      /\ UNCHANGED <<waiting, session, ruling, times, sent, counts, traces, memory, now>>
      /\ \E x \in Methods : on' = IF x \in on THEN on \ {x} ELSE on \cup {x}
  BY DEF Edit, Aside
<1>2. BooksTyped'
  BY <1>1, BrainAssumption DEF IInv, BooksTyped
<1> QED BY <1>1, <1>2, QuietKeeps, BesideKeeps DEF Quiet

LEMMA TickKeeps == ASSUME IInv, Tick PROVE IInv'
<1>1. /\ now < MaxTime /\ now' = now + 1 /\ now \in 0..MaxTime
      /\ UNCHANGED <<waiting, session, ruling, on, times, sent, counts, traces, memory, others>>
  BY DEF IInv, BooksTyped, Tick
<1>2. now' \in 0..MaxTime /\ now <= now'
  BY <1>1, BrainAssumption
<1>3. BooksTyped'
  BY <1>1, <1>2 DEF IInv, BooksTyped
<1>4. RouterInv'
  BY <1>1, <1>2, RouterStays DEF IInv
<1> QED BY <1>1, <1>3, <1>4, BesideKeeps

LEMMA NextKeeps == IInv /\ [Next]_vars => IInv'
<1> SUFFICES ASSUME IInv, [Next]_vars PROVE IInv'
  OBVIOUS
<1>1. CASE UNCHANGED vars
  <2>1. UNCHANGED <<waiting, session, ruling, on, times, sent, counts, traces, memory, now, others>>
    BY <1>1 DEF vars
  <2>2. BooksTyped'
    BY <2>1 DEF IInv, BooksTyped
  <2> QED BY <2>1, <2>2, QuietKeeps, BesideKeeps DEF Quiet
<1>2. CASE \E c \in Callers : Work(c)
  BY <1>2, WorkKeeps
<1>3. CASE \E k \in Kinds : Page(k)
  BY <1>3, PageKeeps
<1>4. CASE \E x \in Methods : Rule(x) \/ Direct(x)
  BY <1>4, RuleKeeps, DirectKeeps
<1>5. CASE Request \/ Begin \/ RuleSpoken \/ Edit \/ Tick
  BY <1>5, RequestKeeps, BeginKeeps, RuleSpokenKeeps, EditKeeps, TickKeeps
<1> QED BY <1>1, <1>2, <1>3, <1>4, <1>5 DEF Next

-----------------------------------------------------------------------------
(* The theorems.                                                           *)

\* The inductive invariant holds whoever makes the service speak: the brain
\* (llm/session.ts, llm/cognition.ts), a page, a rule or a command.
THEOREM Invariance == Spec => []IInv
<1>1. Init => IInv
  BY InitInvariant
<1>2. IInv /\ [Next]_vars => IInv'
  BY NextKeeps
<1> QED BY <1>1, <1>2, PTL DEF Spec

\* Every request of the brain waits, is at work or is counted once, the trace
\* agreeing; and no minute sees more danmaku than danmaku.ratePerMinute,
\* although allowDanmaku() keeps no more than the last minute's.
THEOREM BrainCorrect == Spec => []BrainSafe
<1>1. IInv => BrainSafe
  <2> SUFFICES ASSUME IInv PROVE BrainSafe
    OBVIOUS
  <2>1. /\ waiting \in Nat /\ ruling \in Nat /\ ruling <= others /\ others \in 0..MaxOthers
        /\ counts["queued"] <= MaxRequests /\ MaxRequests \in Nat /\ MaxOthers \in Nat
        /\ \A d \in Decisions \cup {"queued"} : counts[d] \in Nat
    BY BrainAssumption DEF IInv, BooksTyped
  <2>2. waiting \in 0..MaxRequests
    BY <2>1 DEF IInv, Accounted, Decisions
  <2>3. ruling \in 0..MaxOthers
    BY <2>1
  <2>4. \A c \in Callers :
          /\ session[c].at \in {"idle", "llm", "tools", "sleep"} /\ session[c].kind \in Kinds
          /\ session[c].round \in 0..MaxRounds /\ session[c].calls \subseteq Calls
          /\ (session[c].todo # <<>>) <=> (session[c].at \in {"tools", "sleep"})
    <3> TAKE c \in Callers
    <3>1. session[c] \in Sessions
      BY DEF IInv, SessionsOK
    <3> QED BY <3>1 DEF Sessions
  <2>5. TypeOK
    BY <2>2, <2>3, <2>4 DEF TypeOK, IInv, BooksTyped, RouterInv, Remembered, Numbered
  <2> QED BY <2>5 DEF IInv, BrainSafe, RouterInv
<1> QED BY <1>1, Invariance, PTL

-----------------------------------------------------------------------------
(* The stage: the inductive invariant.                                     *)

Item    == [key : S!Keys, value : S!Versions]
PushRec == [todo : Seq(Item), waits : BOOLEAN, cur : BOOLEAN]
Numbers == 0..MaxPushes

ValuesOK ==
  /\ config \in S!Values /\ disk \in S!Values /\ shown \in S!Values
  /\ last \in [S!Keys -> S!Versions \cup {-1}] /\ \A k \in S!Keys : last[k] \in {config[k], -1}
  /\ persist \in BOOLEAN /\ link \in BOOLEAN /\ overlap \in BOOLEAN
  /\ edits \in 0..MaxEdits /\ starts \in 0..MaxPushes

\* The last job for the window has the value of now.
ChainOK ==
  /\ chain \in Seq(Item)
  /\ \A j \in 1..Len(chain) : chain[j].key = "win" =>
        chain[j].value = config["win"] \/ \E l \in j + 1..Len(chain) : chain[l].key = "win"

PushesOK ==
  /\ pushes \in [Numbers -> PushRec]
  /\ \A i \in Numbers : (pushes[i].waits \/ pushes[i].cur => pushes[i].todo # <<>>)
                        /\ (i > starts => pushes[i].todo = <<>>)

\* Who has a request or an answer on its way waits for it, and has no other.
MsgsOK ==
  /\ wire \in Seq([by : Numbers, part : Item])
  /\ back \in Seq([by : Numbers \cup {-1}, stage : S!Versions])
  /\ \A j \in 1..Len(wire) : pushes[wire[j].by].waits
  /\ \A j \in 1..Len(back) : back[j].by # -1 => pushes[back[j].by].waits
  /\ \A j, l \in 1..Len(wire) : wire[j].by = wire[l].by => j = l
  /\ \A j, l \in 1..Len(back) : back[j].by = back[l].by /\ back[j].by # -1 => j = l
  /\ \A j \in 1..Len(wire), l \in 1..Len(back) : wire[j].by # back[l].by
  /\ ~link => wire = <<>> /\ back = <<>>

LateOK == late \in Seq([by : Numbers, part : Item])

StageShape == ValuesOK /\ ChainOK /\ PushesOK /\ MsgsOK /\ LateOK /\ S!Saved

-----------------------------------------------------------------------------
(* Lemmas about sequences.                                                 *)

LEMMA TailIs ==
  ASSUME NEW T, NEW q \in Seq(T), q # <<>>
  PROVE  /\ Tail(q) \in Seq(T) /\ Head(q) \in T /\ Head(q) = q[1] /\ Len(q) \in Nat \ {0}
         /\ Len(Tail(q)) = Len(q) - 1 /\ \A j \in 1..Len(q) - 1 : Tail(q)[j] = q[j + 1]
OBVIOUS

LEMMA NoneIsEmpty == \A q \in Seq(Item) : q = <<>> <=> Len(q) = 0
BY EmptySeq

LEMMA AppendIs ==
  ASSUME NEW T, NEW q \in Seq(T), NEW e \in T
  PROVE  /\ Append(q, e) \in Seq(T) /\ Len(q) \in Nat /\ Len(Append(q, e)) = Len(q) + 1
         /\ \A j \in 1..Len(q) : Append(q, e)[j] = q[j]
         /\ Append(q, e)[Len(q) + 1] = e
OBVIOUS

LEMMA StartsIn == S!StageAssumption => 0 \in Numbers /\ MaxPushes \in Nat /\ MaxEdits \in Nat
BY DEF S!StageAssumption, Numbers

LEMMA NoPushTyped == S!NoPush \in PushRec /\ S!NoPush.todo = <<>> /\ ~S!NoPush.waits /\ ~S!NoPush.cur
BY DEF S!NoPush, PushRec

\* What a push still has to send.
Unsent(p) == IF p.waits THEN Tail(p.todo) ELSE p.todo

LEMMA NextStepIs ==
  ASSUME NEW p \in PushRec, p.todo # <<>>
  PROVE  /\ S!NextStep(p) \in PushRec /\ ~S!NextStep(p).waits
         /\ S!NextStep(p).cur => S!NextStep(p).todo # <<>>
         /\ S!NextStep(p).todo = Tail(p.todo) /\ Unsent(S!NextStep(p)) = Tail(p.todo)
<1>1. p.todo \in Seq(Item) /\ p.waits \in BOOLEAN /\ p.cur \in BOOLEAN
      BY DEF PushRec
<1>2. PICK q \in Seq(Item) : q = p.todo
      BY <1>1
<1>3. PICK t \in Seq(Item) : t = Tail(q) /\ Len(q) \in Nat \ {0} /\ Len(t) = Len(q) - 1
      BY <1>2, TailIs
<1>4. CASE Len(q) = 1
  <2>1. t = <<>>
        BY <1>3, <1>4, NoneIsEmpty
  <2>2. S!NextStep(p) = S!NoPush
        BY <1>2, <1>4 DEF S!NextStep
  <2> QED BY <1>2, <1>3, <2>1, <2>2, NoPushTyped DEF Unsent
<1>5. CASE Len(q) # 1
  <2>0. Len(t) # 0
        BY <1>3, <1>5
  <2>1. t # <<>>
        BY <1>3, <2>0, EmptySeq
  <2>2. S!NextStep(p) = [p EXCEPT !.waits = FALSE, !.todo = t]
        BY <1>2, <1>3, <1>5 DEF S!NextStep
  <2>3. S!NextStep(p) = [todo |-> t, waits |-> FALSE, cur |-> p.cur]
        BY <2>2 DEF PushRec
  <2> QED BY <1>1, <1>2, <1>3, <2>1, <2>3 DEF Unsent, PushRec
<1> QED BY <1>4, <1>5

IsKeys(keys, n) == /\ n \in Nat \ {0} /\ keys \in [1..n -> S!Keys] /\ keys \in Seq(S!Keys) /\ Len(keys) = n
IsPushing(p, keys, n, cfg) ==
  /\ p \in PushRec /\ p.todo # <<>> /\ ~p.waits /\ Len(p.todo) = n
  /\ \A j \in 1..n : p.todo[j] = [key |-> keys[j], value |-> cfg[keys[j]]]

LEMMA PushingIs ==
  ASSUME NEW cfg \in S!Values, NEW n, NEW keys, IsKeys(keys, n), NEW p, p = S!Pushing(keys, cfg)
  PROVE  IsPushing(p, keys, n, cfg)
<1>0. /\ n \in Nat \ {0} /\ keys \in [1..n -> S!Keys] /\ keys \in Seq(S!Keys) /\ Len(keys) = n
      BY DEF IsKeys
<1>1. PICK q : q = [j \in 1..n |-> [key |-> keys[j], value |-> cfg[keys[j]]]]
      OBVIOUS
<1>2. q \in [1..n -> Item]
      BY <1>0, <1>1 DEF Item, S!Values
<1>3. q \in Seq(Item) /\ Len(q) = n /\ q # <<>>
      BY <1>0, <1>2
<1>4. p = [todo |-> q, waits |-> FALSE, cur |-> TRUE]
      BY <1>0, <1>1 DEF S!Pushing
<1>5. p \in PushRec /\ p.todo = q /\ ~p.waits
      BY <1>3, <1>4 DEF PushRec
<1> QED BY <1>0, <1>1, <1>3, <1>5 DEF IsPushing

LEMMA StepsAre ==
  /\ IsKeys(S!Steps, 3) /\ \A k \in S!Keys : \E j \in 1..3 : S!Steps[j] = k
  /\ \A k \in S!Keys : IsKeys(<<k>>, 1) /\ <<k>>[1] = k
<1>1. S!Steps \in Seq(S!Keys) /\ Len(S!Steps) = 3
      BY DEF S!Steps, S!Keys
<1>2. S!Steps \in [1..3 -> S!Keys]
      BY <1>1
<1>3. S!Steps[1] = "rest" /\ S!Steps[2] = "stage" /\ S!Steps[3] = "win"
      BY DEF S!Steps
<1>4. \A k \in S!Keys : \E j \in 1..3 : S!Steps[j] = k
      BY <1>3 DEF S!Keys
<1>5. ASSUME NEW k \in S!Keys
      PROVE  <<k>> \in [1..1 -> S!Keys] /\ <<k>> \in Seq(S!Keys) /\ Len(<<k>>) = 1 /\ <<k>>[1] = k
      OBVIOUS
<1> QED BY <1>1, <1>2, <1>4, <1>5 DEF IsKeys

\* What applyConfigRuntime() adds to the chain for one part.
Added(D, k, v) == IF k \in D THEN <<[key |-> k, value |-> v]>> ELSE <<>>

IsAdded(D, k, v, q, t) ==
  /\ t \in Seq(Item) /\ Len(q) \in Nat /\ Len(t) \in {Len(q), Len(q) + 1}
  /\ \A j \in 1..Len(q) : t[j] = q[j]
  /\ \A j \in Len(q) + 1..Len(t) : k \in D /\ t[j] = [key |-> k, value |-> v]
  /\ k \in D => \E j \in Len(q) + 1..Len(t) : t[j].key = k

LEMMA AddedIs ==
  ASSUME NEW D, NEW k \in S!Keys, NEW v \in S!Versions, NEW q \in Seq(Item), NEW t,
         t = q \o Added(D, k, v)
  PROVE  IsAdded(D, k, v, q, t)
<1>1. CASE k \in D
  <2>1. PICK e \in Item : e = [key |-> k, value |-> v]
        BY DEF Item
  <2>2. t = q \o <<e>>
        BY <1>1, <2>1 DEF Added
  <2>3. q \o <<e>> = Append(q, e)
        OBVIOUS
  <2>4. t \in Seq(Item) /\ Len(q) \in Nat /\ Len(t) = Len(q) + 1 /\ t[Len(q) + 1] = e /\ \A j \in 1..Len(q) : t[j] = q[j]
        BY <2>2, <2>3, AppendIs
  <2>5. \A j \in Len(q) + 1..Len(t) : j = Len(q) + 1
        BY <2>4
  <2> QED BY <1>1, <2>1, <2>4, <2>5 DEF IsAdded
<1>2. CASE k \notin D
  <2>1. t = q
        BY <1>2 DEF Added
  <2> QED BY <1>2, <2>1 DEF IsAdded
<1> QED BY <1>1, <1>2

LEMMA ApplyIs ==
  ASSUME ValuesOK, ChainOK, config' \in S!Values, S!Apply, S!StageAssumption
  PROVE  /\ chain' \in Seq(Item) /\ Len(chain) \in Nat /\ Len(chain') \in Nat /\ Len(chain) <= Len(chain')
         /\ \A j \in 1..Len(chain) : chain'[j] = chain[j]
         /\ \A j \in Len(chain) + 1..Len(chain') :
              chain'[j].key \in S!Diffs /\ (chain'[j].key = "win" => chain'[j].value = config'["win"])
         /\ \A k \in S!Diffs : \E j \in Len(chain) + 1..Len(chain') : chain'[j].key = k
<1>1. /\ "win" \in S!Keys /\ "rest" \in S!Keys /\ "stage" \in S!Keys /\ S!Keys = {"win", "rest", "stage"}
      /\ config'["win"] \in S!Versions /\ 0 \in S!Versions
      BY DEF S!Keys, S!Values, S!Versions, S!StageAssumption
<1>2. PICK D : D = S!Diffs
      OBVIOUS
<1>5. PICK w \in S!Versions : w = config'["win"]
      BY <1>1
<1>0. PICK x \in S!Keys, y \in S!Keys, z \in S!Keys, u \in S!Versions :
        x = "win" /\ y = "rest" /\ z = "stage" /\ u = 0
      BY <1>1
<1>3. PICK a, b, c :
        /\ a = chain \o Added(D, x, w)
        /\ b = a \o Added(D, y, u)
        /\ c = b \o Added(D, z, u)
        /\ chain' = c
      BY <1>0, <1>2, <1>5 DEF S!Apply, S!Job, Added
<1>4. chain \in Seq(Item)
      BY DEF ChainOK
<1>6. /\ a \in Seq(Item) /\ Len(chain) \in Nat /\ Len(a) \in {Len(chain), Len(chain) + 1}
      /\ \A j \in 1..Len(chain) : a[j] = chain[j]
      /\ \A j \in Len(chain) + 1..Len(a) : x \in D /\ a[j] = [key |-> x, value |-> w]
      /\ x \in D => \E j \in Len(chain) + 1..Len(a) : a[j].key = x
  <2>1. a = chain \o Added(D, x, w) /\ x \in S!Keys /\ w \in S!Versions /\ chain \in Seq(Item)
        BY <1>0, <1>3, <1>4, <1>5
  <2>2. IsAdded(D, x, w, chain, a)
        BY <2>1, AddedIs
  <2> QED BY <2>2 DEF IsAdded
<1>7. /\ b \in Seq(Item) /\ Len(a) \in Nat /\ Len(b) \in {Len(a), Len(a) + 1}
      /\ \A j \in 1..Len(a) : b[j] = a[j]
      /\ \A j \in Len(a) + 1..Len(b) : y \in D /\ b[j] = [key |-> y, value |-> u]
      /\ y \in D => \E j \in Len(a) + 1..Len(b) : b[j].key = y
  <2>1. b = a \o Added(D, y, u) /\ y \in S!Keys /\ u \in S!Versions /\ a \in Seq(Item)
        BY <1>0, <1>3, <1>6, <1>5
  <2>2. IsAdded(D, y, u, a, b)
        BY <2>1, AddedIs
  <2> QED BY <2>2 DEF IsAdded
<1>8. /\ c \in Seq(Item) /\ Len(b) \in Nat /\ Len(c) \in {Len(b), Len(b) + 1}
      /\ \A j \in 1..Len(b) : c[j] = b[j]
      /\ \A j \in Len(b) + 1..Len(c) : z \in D /\ c[j] = [key |-> z, value |-> u]
      /\ z \in D => \E j \in Len(b) + 1..Len(c) : c[j].key = z
  <2>1. c = b \o Added(D, z, u) /\ z \in S!Keys /\ u \in S!Versions /\ b \in Seq(Item)
        BY <1>0, <1>3, <1>7, <1>5
  <2>2. IsAdded(D, z, u, b, c)
        BY <2>1, AddedIs
  <2> QED BY <2>2 DEF IsAdded
<1>9. /\ Len(c) \in Nat /\ Len(chain) <= Len(a) /\ Len(a) <= Len(b) /\ Len(b) <= Len(c)
      BY <1>6, <1>7, <1>8
<1>10. \A j \in 1..Len(chain) : c[j] = chain[j]
       BY <1>6, <1>7, <1>8, <1>9
<1>11. \A j \in Len(chain) + 1..Len(a) : c[j] = a[j]
       BY <1>6, <1>7, <1>8, <1>9
<1>12. \A j \in Len(a) + 1..Len(b) : c[j] = b[j]
       BY <1>6, <1>7, <1>8, <1>9
<1>13. \A j \in Len(chain) + 1..Len(c) : j \in Len(chain) + 1..Len(a) \/ j \in Len(a) + 1..Len(b) \/ j \in Len(b) + 1..Len(c)
       BY <1>6, <1>7, <1>8, <1>9
<1>14. \A j \in Len(chain) + 1..Len(c) : c[j].key \in D /\ (c[j].key = "win" => c[j].value = w)
  <2>1. \A j \in Len(chain) + 1..Len(a) : c[j].key \in D /\ c[j].value = w
        BY <1>6, <1>11
  <2>2. \A j \in Len(a) + 1..Len(b) : c[j].key \in D /\ c[j].key # "win"
        BY <1>0, <1>7, <1>12
  <2>3. \A j \in Len(b) + 1..Len(c) : c[j].key \in D /\ c[j].key # "win"
        BY <1>0, <1>8
  <2> QED BY <1>13, <2>1, <2>2, <2>3
<1>15. \A k \in D : \E j \in Len(chain) + 1..Len(c) : c[j].key = k
  <2>1. D \subseteq S!Keys
        BY <1>2 DEF S!Diffs
  <2>2. /\ \A j \in Len(chain) + 1..Len(a) : j \in Len(chain) + 1..Len(c)
        /\ \A j \in Len(a) + 1..Len(b) : j \in Len(chain) + 1..Len(c)
        /\ \A j \in Len(b) + 1..Len(c) : j \in Len(chain) + 1..Len(c)
        BY <1>6, <1>7, <1>8, <1>9
  <2>3. x \in D => \E j \in Len(chain) + 1..Len(c) : c[j].key = x
        BY <1>6, <1>11, <2>2
  <2>4. y \in D => \E j \in Len(chain) + 1..Len(c) : c[j].key = y
        BY <1>7, <1>12, <2>2
  <2>5. z \in D => \E j \in Len(chain) + 1..Len(c) : c[j].key = z
        BY <1>8, <2>2
  <2> QED BY <1>0, <1>1, <2>1, <2>3, <2>4, <2>5
<1>16. /\ chain' \in Seq(Item) /\ Len(chain) \in Nat /\ Len(chain') \in Nat /\ Len(chain) <= Len(chain')
       /\ \A j \in 1..Len(chain) : chain'[j] = chain[j]
       BY <1>3, <1>6, <1>8, <1>9, <1>10
<1>17. \A j \in Len(chain) + 1..Len(chain') :
         chain'[j].key \in S!Diffs /\ (chain'[j].key = "win" => chain'[j].value = config'["win"])
       BY <1>2, <1>3, <1>5, <1>14
<1>18. \A k \in S!Diffs : \E j \in Len(chain) + 1..Len(chain') : chain'[j].key = k
       BY <1>2, <1>3, <1>15
<1> QED BY <1>16, <1>17, <1>18
-----------------------------------------------------------------------------
(* Every step keeps the shape.                                             *)

LEMMA SavedStep == ASSUME S!Saved, S!Next \/ UNCHANGED stage PROVE S!Saved'
BY DEF S!Saved, S!Next, stage, S!Update, S!Reload, S!Persist, S!RunJob, S!Connected, S!ReloadModel, S!Handle,
   S!HandleLate, S!Render, S!Panel, S!StageChanged, S!Answer, S!Break, S!Send, S!TimesOut

\* An edit of the configuration by the page.
Edits == /\ S!Apply /\ S!Replaced /\ config' \in S!Values /\ edits' \in 0..MaxEdits
         /\ overlap' = (overlap \/ S!Outside) /\ disk' \in S!Values
         /\ UNCHANGED <<link, wire, late, back, shown, starts>>

LEMMA EditedIs ==
  ASSUME ValuesOK, S!StageAssumption, S!Edited
  PROVE  edits' \in 0..MaxEdits /\ edits' \in S!Versions
BY StartsIn DEF ValuesOK, S!Edited, S!Versions

LEMMA EditsEdit ==
  ASSUME ValuesOK, S!StageAssumption, S!Reload \/ \E k \in S!Keys : S!Update(k)
  PROVE  Edits /\ persist' = persist
<1>1. config \in S!Values /\ disk \in S!Values
      BY DEF ValuesOK
<1>2. ASSUME NEW k \in S!Keys, S!Update(k) PROVE Edits /\ persist' = persist
  <2>1. edits' \in 0..MaxEdits /\ edits' \in S!Versions
        BY <1>2, EditedIs DEF S!Update
  <2>2. config' \in S!Values /\ disk' = config'
        BY <1>1, <1>2, <2>1 DEF S!Update, S!Values
  <2> QED BY <1>2, <2>1, <2>2 DEF S!Update, Edits
<1>3. CASE S!Reload
  <2>1. edits' \in 0..MaxEdits /\ edits' \in S!Versions
        BY <1>3, EditedIs DEF S!Reload
  <2>2. PICK k \in S!Keys : \E v \in {edits', disk[k]} : config' = [disk EXCEPT ![k] = v]
        BY <1>3 DEF S!Reload
  <2>3. disk[k] \in S!Versions
        BY <1>1 DEF S!Values
  <2>4. config' \in S!Values /\ disk' = config'
        BY <1>1, <1>3, <2>1, <2>2, <2>3 DEF S!Reload, S!Values
  <2> QED BY <1>3, <2>1, <2>4 DEF S!Reload, Edits
<1> QED BY <1>2, <1>3

LEMMA MsgTyped ==
  ASSUME MsgsOK
  PROVE  /\ wire # <<>> => /\ Head(wire).by \in Numbers /\ Head(wire).part.key \in S!Keys
                           /\ Head(wire).part.value \in S!Versions
         /\ back # <<>> => Head(back).by \in Numbers \cup {-1} /\ Head(back).stage \in S!Versions
<1>1. wire \in Seq([by : Numbers, part : Item]) /\ back \in Seq([by : Numbers \cup {-1}, stage : S!Versions])
      BY DEF MsgsOK
<1>2. ASSUME wire # <<>> PROVE Head(wire) \in [by : Numbers, part : Item]
      BY <1>1, <1>2, TailIs
<1>3. ASSUME back # <<>> PROVE Head(back) \in [by : Numbers \cup {-1}, stage : S!Versions]
      BY <1>1, <1>3, TailIs
<1> QED BY <1>2, <1>3 DEF Item

LEMMA LateTyped ==
  ASSUME LateOK, late # <<>>
  PROVE  Head(late).part.key \in S!Keys /\ Head(late).part.value \in S!Versions
<1>1. Head(late) \in [by : Numbers, part : Item]
      BY TailIs DEF LateOK
<1> QED BY <1>1 DEF Item

LEMMA ValuesStep ==
  ASSUME StageShape, S!StageAssumption, S!Next \/ UNCHANGED stage
  PROVE  ValuesOK'
<1>0. /\ config \in S!Values /\ disk \in S!Values /\ shown \in S!Values
      /\ last \in [S!Keys -> S!Versions \cup {-1}] /\ \A k \in S!Keys : last[k] \in {config[k], -1}
      /\ persist \in BOOLEAN /\ link \in BOOLEAN /\ overlap \in BOOLEAN
      /\ edits \in 0..MaxEdits /\ starts \in 0..MaxPushes /\ MaxPushes \in Nat /\ MsgsOK /\ LateOK /\ ValuesOK
      BY StartsIn DEF StageShape, ValuesOK
<1>1. CASE S!Reload \/ \E k \in S!Keys : S!Update(k)
  <2>1. Edits /\ persist' = persist /\ (overlap \/ S!Outside) \in BOOLEAN
        BY <1>0, <1>1, EditsEdit DEF S!Outside
  <2>2. last' = config' /\ config' \in [S!Keys -> S!Versions]
        BY <2>1 DEF Edits, S!Apply, S!Values
  <2>3. last' \in [S!Keys -> S!Versions \cup {-1}] /\ \A k \in S!Keys : last'[k] \in {config'[k], -1}
        BY <2>2
  <2> QED BY <1>0, <2>1, <2>3 DEF Edits, ValuesOK
<1>2. ASSUME starts' \in {starts, starts + 1}, starts' \in 0..MaxPushes, overlap' \in BOOLEAN, link' \in BOOLEAN,
             UNCHANGED <<config, disk, last, persist, edits>>, shown' \in S!Values
      PROVE  ValuesOK'
      BY <1>0, <1>2 DEF ValuesOK
<1>3. CASE S!Persist
      BY <1>0, <1>3 DEF S!Persist, ValuesOK
<1>4. ASSUME UNCHANGED <<config, disk, last, persist, edits, shown, overlap, link, starts>> PROVE ValuesOK'
      BY <1>0, <1>2, <1>4
<1>5. CASE S!RunJob \/ S!Answer \/ UNCHANGED stage \/ \E i \in DOMAIN pushes : S!Send(i) \/ S!TimesOut(i)
      BY <1>4, <1>5 DEF S!RunJob, S!Answer, S!Send, S!TimesOut, stage
<1>6. CASE S!Connected
  <2>1. starts' = starts + 1 /\ starts < MaxPushes /\ link' = TRUE /\ shown' \in {shown, [k \in S!Keys |-> 0]}
        BY <1>6 DEF S!Connected
  <2>2. [k \in S!Keys |-> 0] \in S!Values
        BY StartsIn DEF S!Values, S!Versions
  <2>3. overlap' \in BOOLEAN
        BY <1>0, <1>6 DEF S!Connected, S!Busy
  <2>4. starts' \in 0..MaxPushes
        BY <1>0, <2>1
  <2>5. UNCHANGED <<config, disk, last, persist, edits>> /\ shown' \in S!Values
        BY <1>0, <1>6, <2>1, <2>2 DEF S!Connected
  <2> QED BY <1>2, <2>1, <2>3, <2>4, <2>5
<1>7. CASE S!ReloadModel
  <2>1. starts' = starts + 1 /\ starts < MaxPushes /\ UNCHANGED <<link, shown, config, disk, last, persist, edits>>
        BY <1>7 DEF S!ReloadModel
  <2>2. overlap' \in BOOLEAN
        BY <1>0, <1>7 DEF S!ReloadModel, S!Busy
  <2>3. starts' \in 0..MaxPushes
        BY <1>0, <2>1
  <2> QED BY <1>0, <1>2, <2>1, <2>2, <2>3
<1>8. CASE S!Handle
  <2>1. wire # <<>> /\ shown' = [shown EXCEPT ![Head(wire).part.key] = Head(wire).part.value]
        BY <1>8 DEF S!Handle, S!Taken, S!Does
  <2>2. shown' \in S!Values
        BY <1>0, <2>1, MsgTyped DEF S!Values
  <2> QED BY <1>0, <1>2, <1>8, <2>2 DEF S!Handle
<1>12. CASE S!HandleLate
  <2>1. starts' = starts + 1 /\ starts < MaxPushes /\ UNCHANGED <<link, shown, config, disk, last, persist, edits, overlap>>
        BY <1>12 DEF S!HandleLate
  <2>2. starts' \in 0..MaxPushes
        BY <1>0, <2>1
  <2> QED BY <1>0, <1>2, <2>1, <2>2
<1>13. CASE S!Render
  <2>1. late # <<>> /\ shown' = [shown EXCEPT ![Head(late).part.key] = Head(late).part.value]
        BY <1>13 DEF S!Render, S!Does
  <2>2. shown' \in S!Values
        BY <1>0, <2>1, LateTyped DEF S!Values
  <2> QED BY <1>0, <1>2, <1>13, <2>2 DEF S!Render
<1>9. CASE S!Panel
  <2>1. edits' \in 0..MaxEdits /\ edits' \in S!Versions
        BY <1>0, <1>9, EditedIs DEF S!Panel
  <2>2. shown' \in S!Values
        BY <1>0, <1>9, <2>1 DEF S!Panel, S!Values, S!Keys
  <2>3. overlap' \in BOOLEAN
        BY <1>0, <1>9 DEF S!Panel, S!UnderWay, S!Busy
  <2> QED BY <1>0, <1>9, <2>1, <2>2, <2>3 DEF S!Panel, ValuesOK
<1>10. CASE S!StageChanged
  <2>1. Head(back).stage \in S!Versions /\ "stage" \in S!Keys
        BY <1>0, <1>10, MsgTyped DEF S!StageChanged, S!Keys
  <2>2. config' = [config EXCEPT !["stage"] = Head(back).stage] /\ last' = [last EXCEPT !["stage"] = Head(back).stage]
        BY <1>10 DEF S!StageChanged
  <2>4. config' \in S!Values /\ last' \in [S!Keys -> S!Versions \cup {-1}]
        BY <1>0, <2>1, <2>2 DEF S!Values
  <2>5. \A k \in S!Keys : last'[k] \in {config'[k], -1}
        BY <1>0, <2>1, <2>2 DEF S!Values
  <2>3. overlap' \in BOOLEAN
        BY <1>0, <1>10 DEF S!StageChanged, S!UnderWay, S!Busy
  <2> QED BY <1>0, <1>10, <2>3, <2>4, <2>5 DEF S!StageChanged, ValuesOK
<1>11. CASE S!Break
  <2>1. overlap' \in BOOLEAN
        BY <1>0, <1>11 DEF S!Break
  <2> QED BY <1>0, <1>2, <1>11, <2>1 DEF S!Break
<1> QED BY <1>1, <1>3, <1>5, <1>6, <1>7, <1>8, <1>9, <1>10, <1>11, <1>12, <1>13 DEF S!Next

\* What does not differ from what was applied last is what the configuration was.
LEMMA NotDiffers ==
  ASSUME ValuesOK, config' \in S!Values, NEW k \in S!Keys, k \notin S!Diffs
  PROVE  config'[k] = config[k]
<1>1. config'[k] = last[k]
      BY DEF S!Diffs
<1>2. config'[k] # -1
      BY DEF S!Values, S!Versions
<1> QED BY <1>1, <1>2 DEF ValuesOK

LEMMA ChainStep ==
  ASSUME StageShape, S!StageAssumption, S!Next \/ UNCHANGED stage
  PROVE  ChainOK'
<1>0. ChainOK /\ chain \in Seq(Item) /\ ValuesOK /\ config \in S!Values /\ "win" \in S!Keys
      BY DEF StageShape, ChainOK, ValuesOK, S!Keys
<1>1. CASE S!Reload \/ \E k \in S!Keys : S!Update(k)
  <2>1. S!Apply /\ config' \in S!Values
        BY <1>0, <1>1, EditsEdit DEF Edits
  <2>2. /\ chain' \in Seq(Item) /\ Len(chain) \in Nat /\ Len(chain') \in Nat /\ Len(chain) <= Len(chain')
        /\ \A j \in 1..Len(chain) : chain'[j] = chain[j]
        /\ \A j \in Len(chain) + 1..Len(chain') : chain'[j].key = "win" => chain'[j].value = config'["win"]
        /\ \A k \in S!Diffs : \E j \in Len(chain) + 1..Len(chain') : chain'[j].key = k
        BY <1>0, <2>1, ApplyIs
  <2>3. ASSUME NEW j \in 1..Len(chain'), chain'[j].key = "win"
        PROVE  chain'[j].value = config'["win"] \/ \E l \in j + 1..Len(chain') : chain'[l].key = "win"
    <3>1. CASE j \in Len(chain) + 1..Len(chain')
          BY <2>2, <2>3, <3>1
    <3>2. CASE j \in 1..Len(chain) /\ "win" \in S!Diffs
      <4>1. PICK l \in Len(chain) + 1..Len(chain') : chain'[l].key = "win"
            BY <2>2, <3>2
      <4>2. l \in j + 1..Len(chain')
            BY <2>2, <3>2, <4>1
      <4> QED BY <4>1, <4>2
    <3>3. CASE j \in 1..Len(chain) /\ "win" \notin S!Diffs
      <4>1. config'["win"] = config["win"]
            BY <1>0, <2>1, <3>3, NotDiffers
      <4>2. chain[j].key = "win"
            BY <2>2, <2>3, <3>3
      <4>3. CASE chain[j].value = config["win"]
            BY <2>2, <3>3, <4>1, <4>3
      <4>4. ASSUME NEW l \in j + 1..Len(chain), chain[l].key = "win"
            PROVE  \E m \in j + 1..Len(chain') : chain'[m].key = "win"
        <5>1. l \in j + 1..Len(chain') /\ l \in 1..Len(chain)
              BY <2>2, <3>3, <4>4
        <5> QED BY <2>2, <4>4, <5>1
      <4> QED BY <1>0, <3>3, <4>2, <4>3, <4>4 DEF ChainOK
    <3>4. j \in 1..Len(chain) \/ j \in Len(chain) + 1..Len(chain')
          BY <2>2, <2>3
    <3> QED BY <3>1, <3>2, <3>3, <3>4
  <2> QED BY <2>2, <2>3 DEF ChainOK
<1>2. ASSUME UNCHANGED <<chain, config>> PROVE ChainOK'
      BY <1>0, <1>2 DEF ChainOK
<1>3. CASE S!RunJob
  <2>1. chain # <<>> /\ chain' = Tail(chain) /\ config' = config
        BY <1>3 DEF S!RunJob
  <2>2. PICK t \in Seq(Item) : /\ t = Tail(chain) /\ Len(chain) \in Nat \ {0} /\ Len(t) = Len(chain) - 1
                               /\ \A j \in 1..Len(chain) - 1 : t[j] = chain[j + 1]
        BY <1>0, <2>1, TailIs
  <2>3. ASSUME NEW j \in 1..Len(t), t[j].key = "win"
        PROVE  t[j].value = config["win"] \/ \E l \in j + 1..Len(t) : t[l].key = "win"
    <3>1. j + 1 \in 1..Len(chain) /\ t[j] = chain[j + 1]
          BY <2>2, <2>3
    <3>2. CASE chain[j + 1].value = config["win"]
          BY <3>1, <3>2
    <3>3. ASSUME NEW m \in (j + 1) + 1..Len(chain), chain[m].key = "win"
          PROVE  \E l \in j + 1..Len(t) : t[l].key = "win"
      <4>1. m - 1 \in j + 1..Len(t) /\ m - 1 \in 1..Len(chain) - 1 /\ (m - 1) + 1 = m
            BY <2>2, <3>3
      <4>2. t[m - 1] = chain[m]
            BY <2>2, <4>1
      <4> QED BY <3>3, <4>1, <4>2
    <3> QED BY <1>0, <2>3, <3>1, <3>2, <3>3 DEF ChainOK
  <2> QED BY <2>1, <2>2, <2>3 DEF ChainOK
<1>4. CASE S!StageChanged
  <2>1. chain' = chain /\ config'["win"] = config["win"]
        BY <1>0, <1>4 DEF S!StageChanged, S!Values
  <2> QED BY <1>0, <2>1 DEF ChainOK
<1>5. CASE \/ S!Persist \/ S!Connected \/ S!ReloadModel \/ S!Handle \/ S!Panel \/ S!Answer \/ S!Break
           \/ S!HandleLate \/ S!Render
           \/ UNCHANGED stage \/ \E i \in DOMAIN pushes : S!Send(i) \/ S!TimesOut(i)
      BY <1>2, <1>5 DEF S!Persist, S!Connected, S!ReloadModel, S!Handle, S!HandleLate, S!Render, S!Panel, S!Answer,
         S!Break, S!Send, S!TimesOut, stage
<1> QED BY <1>1, <1>3, <1>4, <1>5 DEF S!Next
LEMMA PushSet ==
  ASSUME PushesOK, ValuesOK, S!StageAssumption, NEW i \in Numbers, NEW p \in PushRec, p.waits \/ p.cur => p.todo # <<>>,
         pushes' = [pushes EXCEPT ![i] = p], starts' \in {starts, starts + 1}, i <= starts' \/ p.todo = <<>>
  PROVE  PushesOK' /\ pushes'[i] = p /\ \A n \in Numbers \ {i} : pushes'[n] = pushes[n]
<1>1. /\ pushes' \in [Numbers -> PushRec] /\ pushes'[i] = p /\ \A n \in Numbers \ {i} : pushes'[n] = pushes[n]
      BY DEF PushesOK
<1>2. starts \in Nat /\ starts <= starts' /\ starts' \in Nat
      BY DEF ValuesOK
<1>3. \A n \in Numbers : n > starts' => n > starts /\ n \in Nat
      BY <1>2, StartsIn DEF Numbers
<1>4. ASSUME NEW n \in Numbers, n > starts' PROVE pushes'[n].todo = <<>>
  <2>1. CASE n = i
        BY <1>1, <1>2, <1>3, <1>4, <2>1
  <2>2. CASE n # i
        BY <1>1, <1>3, <1>4, <2>2 DEF PushesOK
  <2> QED BY <2>1, <2>2
<1>5. ASSUME NEW n \in Numbers PROVE pushes'[n].waits \/ pushes'[n].cur => pushes'[n].todo # <<>>
  <2>1. CASE n = i
        BY <1>1, <2>1
  <2>2. CASE n # i
        BY <1>1, <2>2 DEF PushesOK
  <2> QED BY <2>1, <2>2
<1> QED BY <1>1, <1>4, <1>5 DEF PushesOK

\* A push that begins with the parts in keys.
LEMMA PushBegins ==
  ASSUME PushesOK, ValuesOK, S!StageAssumption, NEW i \in Numbers, NEW cfg \in S!Values, starts' \in {starts, starts + 1},
         i <= starts', NEW n, NEW keys, IsKeys(keys, n), pushes' = [pushes EXCEPT ![i] = S!Pushing(keys, cfg)]
  PROVE  \E p : PushesOK' /\ pushes'[i] = p /\ IsPushing(p, keys, n, cfg) /\ \A m \in Numbers \ {i} : pushes'[m] = pushes[m]
<1>1. PICK p : p = S!Pushing(keys, cfg)
      OBVIOUS
<1>2. IsPushing(p, keys, n, cfg)
      BY <1>1, PushingIs
<1>3. pushes' = [pushes EXCEPT ![i] = p] /\ p \in PushRec /\ p.todo # <<>>
      BY <1>1, <1>2 DEF IsPushing
<1> QED BY <1>2, <1>3, PushSet

\* A push that goes on.
LEMMA PushGoesOn ==
  ASSUME PushesOK, ValuesOK, S!StageAssumption, NEW i \in Numbers, pushes[i].todo # <<>>, starts' = starts,
         pushes' = [pushes EXCEPT ![i] = S!NextStep(@)]
  PROVE  /\ PushesOK' /\ ~pushes'[i].waits /\ Unsent(pushes'[i]) = Tail(pushes[i].todo)
         /\ pushes'[i].todo = Tail(pushes[i].todo)
         /\ \A n \in Numbers \ {i} : pushes'[n] = pushes[n]
<1>1. pushes[i] \in PushRec
      BY DEF PushesOK
<1>2. PICK p \in PushRec : /\ p = S!NextStep(pushes[i]) /\ ~p.waits /\ (p.cur => p.todo # <<>>)
                           /\ p.todo = Tail(pushes[i].todo) /\ Unsent(p) = Tail(pushes[i].todo)
      BY <1>1, NextStepIs
<1>3. pushes' = [pushes EXCEPT ![i] = p]
      BY <1>2 DEF PushesOK
<1>4. i <= starts'
      BY StartsIn DEF PushesOK, Numbers, ValuesOK
<1> QED BY <1>2, <1>3, <1>4, PushSet

\* What RunJob lets the chain push.
LEMMA RunJobIs ==
  ASSUME StageShape, S!StageAssumption, S!RunJob
  PROVE  /\ PushesOK' /\ \A n \in Numbers \ {0} : pushes'[n] = pushes[n]
         /\ pushes[0].todo = <<>> /\ ~pushes[0].waits /\ ~pushes'[0].waits
         /\ link => /\ pushes'[0].todo # <<>>
                    /\ \A k \in S!Keys : Head(chain).key \in {k, "rest"} =>
                         \E j \in 1..Len(pushes'[0].todo) : pushes'[0].todo[j].key = k
                    /\ \A j \in 1..Len(pushes'[0].todo) :
                         \/ pushes'[0].todo[j].value = config[pushes'[0].todo[j].key]
                         \/ Head(chain) = [key |-> "win", value |-> pushes'[0].todo[j].value] /\ pushes'[0].todo[j].key = "win"
<1>0. /\ PushesOK /\ ValuesOK /\ ChainOK /\ config \in S!Values /\ chain \in Seq(Item) /\ 0 \in Numbers
      /\ starts \in Nat /\ starts' = starts
      BY StartsIn DEF StageShape, ValuesOK, ChainOK, S!RunJob
<1>1. chain # <<>> /\ pushes[0].todo = <<>> /\ ~pushes[0].waits
      BY DEF S!RunJob
<1>2. PICK h \in Item : h = Head(chain)
      BY <1>0, <1>1, TailIs
<1>3. h.key \in S!Keys /\ h.value \in S!Versions /\ h = [key |-> h.key, value |-> h.value]
      BY <1>2 DEF Item
<1>7. 0 <= starts' /\ starts' \in {starts, starts + 1}
      BY <1>0
<1>4. CASE ~link
  <2>1. pushes' = [pushes EXCEPT ![0] = S!NoPush]
        BY <1>4 DEF S!RunJob, S!Push
  <2> QED BY <1>0, <1>1, <1>4, <1>7, <2>1, NoPushTyped, PushSet
<1>5. CASE link /\ h.key = "rest"
  <2>0. PICK ks : ks = S!Steps
        OBVIOUS
  <2>1. PICK cfg \in S!Values : cfg = config
        BY <1>0
  <2>2. pushes' = [pushes EXCEPT ![0] = S!Pushing(ks, cfg)] /\ IsKeys(ks, 3)
        BY <1>2, <1>5, <2>0, <2>1, StepsAre DEF S!RunJob, S!Push
  <2>3. PICK p : PushesOK' /\ pushes'[0] = p /\ IsPushing(p, ks, 3, cfg) /\ \A n \in Numbers \ {0} : pushes'[n] = pushes[n]
        BY <1>0, <1>7, <2>1, <2>2, PushBegins
  <2>4. /\ p.todo # <<>> /\ ~p.waits /\ Len(p.todo) = 3
        /\ \A j \in 1..3 : p.todo[j].key = ks[j] /\ p.todo[j].value = cfg[ks[j]]
        BY <2>3 DEF IsPushing
  <2>5. \A k \in S!Keys : \E j \in 1..Len(p.todo) : p.todo[j].key = k
        BY <2>0, <2>4, StepsAre
  <2>6. \A j \in 1..Len(p.todo) : p.todo[j].value = config[p.todo[j].key]
        BY <2>1, <2>4
  <2> QED BY <1>1, <2>3, <2>4, <2>5, <2>6
<1>6. CASE link /\ h.key # "rest"
  <2>1. PICK cfg : cfg = IF h.key = "win" THEN [config EXCEPT !["win"] = h.value] ELSE config
        OBVIOUS
  <2>2. /\ cfg \in S!Values
        /\ h.key # "win" => cfg = config
        /\ h.key = "win" => cfg["win"] = h.value
        BY <1>0, <1>3, <2>1 DEF S!Values
  <2>3. PICK ks : ks = <<h.key>>
        OBVIOUS
  <2>4. IsKeys(ks, 1) /\ ks[1] = h.key
        BY <1>3, <2>3, StepsAre
  <2>5. pushes' = [pushes EXCEPT ![0] = S!Pushing(ks, cfg)]
        BY <1>2, <1>6, <2>1, <2>3 DEF S!RunJob, S!Push
  <2>6. PICK p : PushesOK' /\ pushes'[0] = p /\ IsPushing(p, ks, 1, cfg) /\ \A n \in Numbers \ {0} : pushes'[n] = pushes[n]
        BY <1>0, <1>7, <2>2, <2>4, <2>5, PushBegins
  <2>8. /\ p.todo # <<>> /\ ~p.waits /\ Len(p.todo) = 1
        /\ \A j \in 1..1 : p.todo[j].key = ks[j] /\ p.todo[j].value = cfg[ks[j]]
        BY <2>6 DEF IsPushing
  <2>9. Len(p.todo) = 1 /\ p.todo[1].key = h.key /\ p.todo[1].value = cfg[h.key]
        BY <2>4, <2>8
  <2>10. \A k \in S!Keys : h.key \in {k, "rest"} => \E j \in 1..Len(p.todo) : p.todo[j].key = k
         BY <1>6, <2>9
  <2>11. \A j \in 1..Len(p.todo) : \/ p.todo[j].value = config[p.todo[j].key]
                                   \/ h = [key |-> "win", value |-> p.todo[j].value] /\ p.todo[j].key = "win"
    <3>1. CASE h.key = "win"
          BY <1>3, <2>2, <2>9, <3>1
    <3>2. CASE h.key # "win"
          BY <2>2, <2>9, <3>2
    <3> QED BY <3>1, <3>2
  <2> QED BY <1>1, <1>2, <2>6, <2>8, <2>10, <2>11
<1> QED BY <1>4, <1>5, <1>6

\* A push beside the chain.
LEMMA BesideIs ==
  ASSUME StageShape, S!StageAssumption, S!Connected \/ S!ReloadModel
  PROVE  /\ PushesOK' /\ starts' \in Numbers \ {0} /\ starts' = starts + 1
         /\ \A n \in Numbers \ {starts'} : pushes'[n] = pushes[n]
         /\ pushes'[starts'].todo # <<>> /\ ~pushes'[starts'].waits
         /\ \A k \in S!Keys : \E j \in 1..Len(pushes'[starts'].todo) : pushes'[starts'].todo[j].key = k
         /\ \A j \in 1..Len(pushes'[starts'].todo) :
              pushes'[starts'].todo[j].value = config[pushes'[starts'].todo[j].key]
<1>0. PushesOK /\ ValuesOK /\ config \in S!Values /\ starts \in Nat /\ MaxPushes \in Nat
      BY StartsIn DEF StageShape, ValuesOK
<1>1. starts' = starts + 1 /\ starts < MaxPushes
      BY DEF S!Connected, S!ReloadModel
<1>2. PICK n \in Numbers \ {0} : n = starts'
      BY <1>0, <1>1 DEF Numbers
<1>10. PICK ks : ks = S!Steps
       OBVIOUS
<1>3. PICK cfg \in S!Values : cfg = config
      BY <1>0
<1>4. pushes' = [pushes EXCEPT ![n] = S!Pushing(ks, cfg)] /\ IsKeys(ks, 3)
      BY <1>2, <1>3, <1>10, StepsAre DEF S!Connected, S!ReloadModel, S!Push
<1>5. n \in Numbers /\ n <= starts' /\ starts' \in {starts, starts + 1}
      BY <1>0, <1>1, <1>2
<1>6. PICK p : PushesOK' /\ pushes'[n] = p /\ IsPushing(p, ks, 3, cfg) /\ \A m \in Numbers \ {n} : pushes'[m] = pushes[m]
      BY <1>0, <1>3, <1>4, <1>5, PushBegins
<1>7. /\ p.todo # <<>> /\ ~p.waits /\ Len(p.todo) = 3
      /\ \A j \in 1..3 : p.todo[j].key = ks[j] /\ p.todo[j].value = cfg[ks[j]]
      BY <1>6 DEF IsPushing
<1>8. \A k \in S!Keys : \E j \in 1..Len(p.todo) : p.todo[j].key = k
      BY <1>7, <1>10, StepsAre
<1>9. \A j \in 1..Len(p.todo) : p.todo[j].value = config[p.todo[j].key]
      BY <1>3, <1>7
<1> QED BY <1>1, <1>2, <1>6, <1>7, <1>8, <1>9
LEMMA ReplacedIs ==
  ASSUME PushesOK, S!Replaced, starts' = starts
  PROVE  PushesOK' /\ \A i \in Numbers : pushes'[i].todo = pushes[i].todo /\ pushes'[i].waits = pushes[i].waits
<1>1. pushes' = [i \in Numbers |-> [pushes[i] EXCEPT !.cur = FALSE]]
      BY DEF S!Replaced, PushesOK
<1>2. ASSUME NEW i \in Numbers
      PROVE  /\ pushes'[i] \in PushRec /\ ~pushes'[i].cur
             /\ pushes'[i].todo = pushes[i].todo /\ pushes'[i].waits = pushes[i].waits
  <2>1. PICK p \in PushRec : p = pushes[i]
        BY DEF PushesOK
  <2>2. pushes'[i] = [p EXCEPT !.cur = FALSE]
        BY <1>1, <2>1
  <2> QED BY <2>1, <2>2 DEF PushRec
<1>3. pushes' \in [Numbers -> PushRec]
      BY <1>1, <1>2
<1> QED BY <1>2, <1>3 DEF PushesOK

LEMMA WrittenIs ==
  ASSUME PushesOK, NEW v \in S!Versions, S!Written(v), starts' = starts
  PROVE  /\ PushesOK'
         /\ \A i \in Numbers : /\ pushes[i].todo = <<>> => pushes'[i].todo = <<>>
                               /\ pushes'[i].waits = pushes[i].waits
<1>1. \A i \in Numbers : pushes'[i] =
        IF pushes[i].cur
          THEN [pushes[i] EXCEPT !.todo = [j \in DOMAIN @ |-> IF @[j].key = "stage" THEN [@[j] EXCEPT !.value = v] ELSE @[j]]]
          ELSE pushes[i]
      BY DEF S!Written, PushesOK
<1>2. ASSUME NEW i \in Numbers
      PROVE  /\ pushes'[i] \in PushRec /\ pushes'[i].cur = pushes[i].cur /\ pushes'[i].waits = pushes[i].waits
             /\ pushes'[i].todo = <<>> <=> pushes[i].todo = <<>>
  <2>1. PICK p \in PushRec : p = pushes[i]
        BY DEF PushesOK
  <2>2. CASE ~p.cur
    <3>1. pushes'[i] = p
          BY <1>1, <2>1, <2>2
    <3> QED BY <2>1, <3>1
  <2>3. CASE p.cur
    <3>1. PICK q \in Seq(Item) : q = p.todo
          BY DEF PushRec
    <3>2. PICK t : t = [j \in 1..Len(q) |-> IF q[j].key = "stage" THEN [q[j] EXCEPT !.value = v] ELSE q[j]]
          OBVIOUS
    <3>3. \A j \in 1..Len(q) : q[j] \in Item
          OBVIOUS
    <3>4. \A j \in 1..Len(q) : t[j] \in Item
          BY <3>2, <3>3 DEF Item
    <3>5. Len(q) \in Nat /\ DOMAIN q = 1..Len(q)
          OBVIOUS
    <3>6. t \in [1..Len(q) -> Item]
          BY <3>2, <3>4
    <3>7. t \in Seq(Item) /\ Len(t) = Len(q)
          BY <3>5, <3>6
    <3>8. t = <<>> <=> q = <<>>
          BY <3>7, NoneIsEmpty
    <3>9. pushes'[i] = [p EXCEPT !.todo = t]
          BY <1>1, <2>1, <2>3, <3>1, <3>2, <3>5
    <3>10. pushes'[i] = [todo |-> t, waits |-> p.waits, cur |-> p.cur]
           BY <3>9 DEF PushRec
    <3>11. p.waits \in BOOLEAN /\ p.cur \in BOOLEAN
           BY DEF PushRec
    <3> QED BY <2>1, <3>1, <3>7, <3>8, <3>10, <3>11 DEF PushRec
  <2> QED BY <2>2, <2>3
<1>3. pushes' \in [Numbers -> PushRec]
  <2>1. DOMAIN pushes' = Numbers /\ pushes' = [i \in Numbers |-> pushes'[i]]
        BY DEF S!Written, PushesOK
  <2> QED BY <1>2, <2>1
<1> QED BY <1>2, <1>3 DEF PushesOK

\* What Send does to a push that it has a connection for.
LEMMA SendIs ==
  ASSUME PushesOK, ValuesOK, S!StageAssumption, NEW i \in Numbers, link, S!Send(i)
  PROVE  /\ PushesOK' /\ pushes'[i].waits /\ pushes'[i].todo = pushes[i].todo
         /\ pushes[i].todo # <<>> /\ ~pushes[i].waits
         /\ \A n \in Numbers \ {i} : pushes'[n] = pushes[n]
<1>1. PICK r \in PushRec : r = pushes[i]
      BY DEF PushesOK
<1>2. pushes' = [pushes EXCEPT ![i].waits = TRUE] /\ r.todo # <<>> /\ ~r.waits /\ starts' = starts
      BY <1>1 DEF S!Send
<1>3. PICK p : p = [r EXCEPT !.waits = TRUE]
      OBVIOUS
<1>4. p \in PushRec /\ p.waits /\ p.todo = r.todo
      BY <1>3 DEF PushRec
<1>5. pushes' = [pushes EXCEPT ![i] = p]
      BY <1>1, <1>2, <1>3 DEF PushesOK
<1>6. i <= starts'
      BY <1>1, <1>2, StartsIn DEF PushesOK, Numbers, ValuesOK
<1> QED BY <1>1, <1>2, <1>4, <1>5, <1>6, PushSet

LEMMA AnswerIs ==
  ASSUME StageShape, S!StageAssumption, S!Answer
  PROVE  /\ back # <<>> /\ back' = Tail(back) /\ Head(back).by \in Numbers /\ pushes[Head(back).by].waits
         /\ pushes[Head(back).by].todo # <<>> /\ starts' = starts
         /\ pushes' = [pushes EXCEPT ![Head(back).by] = S!NextStep(@)]
<1>1. MsgsOK /\ PushesOK /\ back # <<>> /\ Head(back).by # -1
      BY DEF StageShape, S!Answer
<1>2. Head(back).by \in Numbers
      BY <1>1, MsgTyped
<1>3. back \in Seq([by : Numbers \cup {-1}, stage : S!Versions])
      BY <1>1 DEF MsgsOK
<1>4. 1 \in 1..Len(back) /\ Head(back) = back[1]
      BY <1>1, <1>3, TailIs
<1>5. pushes[Head(back).by].waits
      BY <1>1, <1>4 DEF MsgsOK
<1> QED BY <1>1, <1>2, <1>5 DEF S!Answer, PushesOK

LEMMA PushesStep ==
  ASSUME StageShape, S!StageAssumption, S!Next \/ UNCHANGED stage
  PROVE  PushesOK'
<1>0. PushesOK /\ ValuesOK /\ MsgsOK /\ DOMAIN pushes = Numbers
      BY DEF StageShape, PushesOK
<1>1. CASE S!Reload \/ \E k \in S!Keys : S!Update(k)
      BY <1>0, <1>1, EditsEdit, ReplacedIs DEF Edits
<1>2. CASE S!Persist \/ S!Handle \/ S!Render \/ S!Panel \/ S!Break \/ UNCHANGED stage
      BY <1>0, <1>2 DEF S!Persist, S!Handle, S!Render, S!Panel, S!Break, stage, PushesOK
<1>9. CASE S!HandleLate
  <2>1. pushes' = pushes /\ starts' = starts + 1
        BY <1>9 DEF S!HandleLate
  <2>2. starts \in Int /\ \A n \in Numbers : n \in Int /\ (n > starts' => n > starts)
        BY <1>0, <2>1, StartsIn DEF ValuesOK, Numbers
  <2> QED BY <1>0, <2>1, <2>2 DEF PushesOK
<1>3. CASE S!RunJob
      BY <1>3, RunJobIs
<1>4. CASE S!Connected \/ S!ReloadModel
      BY <1>4, BesideIs
<1>5. CASE S!StageChanged
  <2>1. Head(back).stage \in S!Versions /\ S!Written(Head(back).stage) /\ starts' = starts
        BY <1>0, <1>5, MsgTyped DEF S!StageChanged
  <2> QED BY <1>0, <2>1, WrittenIs
<1>6. CASE S!Answer
      BY <1>0, <1>6, AnswerIs, PushGoesOn
<1>7. ASSUME NEW i \in Numbers, S!Send(i) PROVE PushesOK'
  <2>1. CASE link
        BY <1>0, <1>7, <2>1, SendIs
  <2>2. CASE ~link
    <3>1. pushes[i].todo # <<>> /\ starts' = starts /\ pushes' = [pushes EXCEPT ![i] = S!NextStep(@)]
          BY <1>7, <2>2 DEF S!Send
    <3> QED BY <1>0, <3>1, PushGoesOn
  <2> QED BY <2>1, <2>2
<1>8. ASSUME NEW i \in Numbers, S!TimesOut(i) PROVE PushesOK'
  <2>1. pushes[i].todo # <<>> /\ starts' = starts /\ pushes' = [pushes EXCEPT ![i] = S!NextStep(@)]
        BY <1>0, <1>8 DEF S!TimesOut, PushesOK
  <2> QED BY <1>0, <2>1, PushGoesOn
<1> QED BY <1>0, <1>1, <1>2, <1>3, <1>4, <1>5, <1>6, <1>7, <1>8, <1>9 DEF S!Next

WireMsg == [by : Numbers, part : Item]
BackMsg   == [by : Numbers \cup {-1}, stage : S!Versions]

WiresFrom == \A j \in 1..Len(wire) : wire[j].by \in Numbers
BacksFrom == \A j \in 1..Len(back) : back[j].by \in Numbers \cup {-1}

LEMMA FromIs == ASSUME MsgsOK PROVE WiresFrom /\ BacksFrom
<1>1. wire \in Seq(WireMsg) /\ back \in Seq(BackMsg)
      BY DEF MsgsOK, WireMsg, BackMsg
<1>2. ASSUME NEW j \in 1..Len(wire) PROVE wire[j].by \in Numbers
  <2>1. wire[j] \in WireMsg
        BY <1>1, <1>2
  <2> QED BY <2>1 DEF WireMsg
<1>3. ASSUME NEW j \in 1..Len(back) PROVE back[j].by \in Numbers \cup {-1}
  <2>1. back[j] \in BackMsg
        BY <1>1, <1>3
  <2> QED BY <2>1 DEF BackMsg
<1> QED BY <1>2, <1>3 DEF WiresFrom, BacksFrom

\* Messages stay where they are, and who waits goes on waiting.
LEMMA MsgsRest ==
  ASSUME MsgsOK, wire' = wire, back' = back, link' = link \/ link',
         \A i \in Numbers : pushes[i].waits => pushes'[i].waits
  PROVE  MsgsOK'
<1>1. \A j \in 1..Len(wire) : wire[j].by \in Numbers
      BY FromIs DEF WiresFrom
<1>2. \A j \in 1..Len(back) : back[j].by # -1 => back[j].by \in Numbers
      BY FromIs DEF BacksFrom
<1> QED BY <1>1, <1>2 DEF MsgsOK

LEMMA MsgsStep ==
  ASSUME StageShape, S!StageAssumption, S!Next \/ UNCHANGED stage
  PROVE  MsgsOK'
<1>0. /\ PushesOK /\ ValuesOK /\ MsgsOK /\ DOMAIN pushes = Numbers /\ wire \in Seq(WireMsg) /\ back \in Seq(BackMsg)
      /\ -1 \notin Numbers /\ 0 \in Numbers /\ Len(wire) \in Nat /\ Len(back) \in Nat
      /\ \A i \in Numbers : pushes[i].waits => pushes[i].todo # <<>>
      /\ WiresFrom /\ BacksFrom
  <2>1. PushesOK /\ ValuesOK /\ MsgsOK /\ WiresFrom /\ BacksFrom
        BY FromIs DEF StageShape
  <2>2. DOMAIN pushes = Numbers /\ \A i \in Numbers : pushes[i].waits => pushes[i].todo # <<>>
        BY <2>1 DEF PushesOK
  <2>3. wire \in Seq(WireMsg) /\ back \in Seq(BackMsg) /\ Len(wire) \in Nat /\ Len(back) \in Nat
        BY <2>1 DEF MsgsOK, WireMsg, BackMsg
  <2>4. -1 \notin Numbers /\ 0 \in Numbers
        BY StartsIn DEF Numbers
  <2> QED BY <2>1, <2>2, <2>3, <2>4
<1>a. /\ \A j \in 1..Len(wire) : pushes[wire[j].by].waits /\ wire[j].by \in Numbers
      /\ \A j \in 1..Len(back) : back[j].by # -1 => pushes[back[j].by].waits /\ back[j].by \in Numbers
      /\ \A j, l \in 1..Len(wire) : wire[j].by = wire[l].by => j = l
      /\ \A j, l \in 1..Len(back) : back[j].by = back[l].by /\ back[j].by # -1 => j = l
      /\ \A j \in 1..Len(wire), l \in 1..Len(back) : wire[j].by # back[l].by
      BY <1>0 DEF MsgsOK, WiresFrom, BacksFrom
<1>1. CASE S!Reload \/ \E k \in S!Keys : S!Update(k)
  <2>1. Edits
        BY <1>0, <1>1, EditsEdit
  <2>2. UNCHANGED <<link, wire, back>> /\ \A i \in Numbers : pushes'[i].waits = pushes[i].waits
        BY <1>0, <2>1, ReplacedIs DEF Edits
  <2> QED BY <1>0, <2>2, MsgsRest
<1>2. CASE S!Persist \/ UNCHANGED stage
  <2>1. UNCHANGED <<link, wire, back, pushes>>
        BY <1>2 DEF S!Persist, stage
  <2> QED BY <1>0, <2>1, MsgsRest
<1>3. CASE S!RunJob
  <2>1. UNCHANGED <<link, wire, back>> /\ \A i \in Numbers : pushes[i].waits => pushes'[i].waits
        BY <1>0, <1>3, RunJobIs DEF S!RunJob
  <2> QED BY <1>0, <2>1, MsgsRest
<1>4. CASE S!Connected \/ S!ReloadModel
  <2>1. starts' \in Numbers /\ starts' > starts /\ \A n \in Numbers \ {starts'} : pushes'[n] = pushes[n]
        BY <1>0, <1>4, BesideIs DEF ValuesOK
  <2>2. ~pushes[starts'].waits
        BY <1>0, <2>1 DEF PushesOK
  <2>3. UNCHANGED <<wire, back>> /\ link'
        BY <1>4 DEF S!Connected, S!ReloadModel
  <2> QED BY <1>0, <2>1, <2>2, <2>3, MsgsRest
<1>5. CASE S!Break
      BY <1>5, EmptySeq DEF S!Break, MsgsOK
\* A request goes out for a push that had none on its way.
<1>6. ASSUME NEW i \in Numbers, S!Send(i) PROVE MsgsOK'
  <2>1. CASE ~link
    <3>1. UNCHANGED <<link, wire, back>> /\ pushes' = [pushes EXCEPT ![i] = S!NextStep(@)] /\ ~pushes[i].waits
          BY <1>6, <2>1 DEF S!Send
    <3>2. \A n \in Numbers : pushes[n].waits => pushes'[n].waits
          BY <1>0, <3>1
    <3> QED BY <1>0, <3>1, <3>2, MsgsRest
  <2>2. CASE link
    <3>1. /\ pushes'[i].waits /\ ~pushes[i].waits /\ pushes[i].todo # <<>>
          /\ \A n \in Numbers \ {i} : pushes'[n] = pushes[n]
          BY <1>0, <1>6, <2>2, SendIs
    <3>2. PICK e : e = [by |-> i, part |-> Head(pushes[i].todo)]
          OBVIOUS
    <3>3. wire' = Append(wire, e) /\ back' = back /\ link' = link
          BY <1>6, <2>2, <3>2 DEF S!Send
    <3>4. Head(pushes[i].todo) \in Item
          BY <1>0, <3>1, TailIs DEF PushesOK, PushRec
    <3>5. e \in WireMsg /\ e.by = i
          BY <3>2, <3>4 DEF WireMsg
    <3>6. PICK w \in Seq(WireMsg) : /\ w = wire' /\ Len(w) = Len(wire) + 1 /\ w[Len(wire) + 1] = e
                                    /\ \A j \in 1..Len(wire) : w[j] = wire[j]
          BY <1>0, <3>3, <3>5, AppendIs
    <3>7. \A j \in 1..Len(wire) : wire[j].by # i
          BY <1>0, <3>1 DEF MsgsOK
    <3>8. \A j \in 1..Len(back) : back[j].by # i
          BY <1>0, <3>1 DEF MsgsOK
    <3>9. \A j \in 1..Len(w) : j \in 1..Len(wire) \/ j = Len(wire) + 1
          BY <1>0, <3>6
    <3>10. \A j \in 1..Len(w) : pushes'[w[j].by].waits
      <4>1. \A j \in 1..Len(wire) : wire[j].by \in Numbers \ {i} /\ pushes[wire[j].by].waits
            BY <1>a, <3>7
      <4>2. \A j \in 1..Len(wire) : pushes'[w[j].by].waits
            BY <3>1, <3>6, <4>1
      <4> QED BY <3>1, <3>5, <3>6, <3>9, <4>2
    <3>11. \A j \in 1..Len(back) : back[j].by # -1 => pushes'[back[j].by].waits
      <4>1. \A j \in 1..Len(back) : back[j].by # -1 => back[j].by \in Numbers \ {i} /\ pushes[back[j].by].waits
            BY <1>a, <3>8
      <4> QED BY <3>1, <4>1
    <3>12. ASSUME NEW j \in 1..Len(w), NEW l \in 1..Len(w), w[j].by = w[l].by PROVE j = l
           BY <1>0, <3>5, <3>6, <3>7, <3>9, <3>12 DEF MsgsOK
    <3>13. \A j \in 1..Len(w), l \in 1..Len(back) : w[j].by # back[l].by
           BY <1>0, <3>5, <3>6, <3>8, <3>9 DEF MsgsOK
    <3>14. link'
           BY <2>2, <3>3
    <3> QED BY <1>0, <3>3, <3>6, <3>10, <3>11, <3>12, <3>13, <3>14 DEF MsgsOK, WireMsg
  <2> QED BY <2>1, <2>2
\* The answer takes the place of the request.
<1>7. ASSUME S!Taken, UNCHANGED <<pushes, link>> PROVE MsgsOK'
  <2>1. wire # <<>> /\ wire' = Tail(wire) /\ UNCHANGED <<pushes, link>>
        BY <1>7 DEF S!Taken
  <2>2. PICK e : e = [by |-> Head(wire).by, stage |-> 0]
        OBVIOUS
  <2>3. back' = Append(back, e)
        BY <1>7, <2>2 DEF S!Taken
  <2>4. Head(wire).by \in Numbers /\ 0 \in S!Versions
        BY <1>0, <2>1, MsgTyped, StartsIn DEF S!Versions
  <2>5. e \in BackMsg /\ e.by = Head(wire).by /\ e.by # -1
        BY <1>0, <2>2, <2>4 DEF BackMsg
  <2>6. PICK t \in Seq(WireMsg) : /\ t = wire' /\ Head(wire) = wire[1] /\ Len(wire) \in Nat \ {0} /\ Len(t) = Len(wire) - 1
                                  /\ \A j \in 1..Len(wire) - 1 : t[j] = wire[j + 1]
        BY <1>0, <2>1, TailIs
  <2>a. e \in BackMsg /\ back \in Seq(BackMsg)
        BY <1>0, <2>5
  <2>7. PICK b \in Seq(BackMsg) : /\ b = back' /\ Len(b) = Len(back) + 1 /\ b[Len(back) + 1] = e
                                /\ \A j \in 1..Len(back) : b[j] = back[j]
        BY <2>a, <2>3, AppendIs
  <2>8. \A j \in 1..Len(t) : j + 1 \in 2..Len(wire) /\ t[j] = wire[j + 1] /\ j + 1 \in 1..Len(wire)
        BY <2>6
  <2>9. \A j \in 1..Len(b) : j \in 1..Len(back) \/ j = Len(back) + 1
        BY <1>0, <2>7
  <2>10. 1 \in 1..Len(wire) /\ pushes[e.by].waits
         BY <1>0, <2>5, <2>6 DEF MsgsOK
  <2>11. \A j \in 1..Len(t) : pushes[t[j].by].waits
         BY <1>0, <2>8 DEF MsgsOK
  <2>12. \A j \in 1..Len(b) : b[j].by # -1 => pushes[b[j].by].waits
         BY <1>0, <2>7, <2>9, <2>10 DEF MsgsOK
  <2>13. ASSUME NEW j \in 1..Len(t), NEW l \in 1..Len(t), t[j].by = t[l].by PROVE j = l
    <3>1. j + 1 = l + 1
          BY <1>a, <2>8, <2>13
    <3> QED BY <3>1
  <2>14. \A j \in 1..Len(back) : back[j].by # e.by
         BY <1>0, <2>5, <2>6, <2>10 DEF MsgsOK
  <2>15. \A j \in 1..Len(t) : t[j].by # e.by
    <3>1. ASSUME NEW j \in 1..Len(t), t[j].by = e.by PROVE FALSE
      <4>1. wire[j + 1].by = wire[1].by /\ j + 1 \in 1..Len(wire) /\ j + 1 # 1
            BY <2>5, <2>6, <2>8, <3>1
      <4> QED BY <1>0, <2>10, <4>1 DEF MsgsOK
    <3> QED BY <3>1
  <2>16. ASSUME NEW j \in 1..Len(b), NEW l \in 1..Len(b), b[j].by = b[l].by, b[j].by # -1 PROVE j = l
         BY <1>0, <2>7, <2>9, <2>14, <2>16 DEF MsgsOK
  <2>17. ASSUME NEW j \in 1..Len(t), NEW l \in 1..Len(b) PROVE t[j].by # b[l].by
    <3>1. CASE l \in 1..Len(back)
      <4>1. b[l] = back[l] /\ t[j] = wire[j + 1] /\ j + 1 \in 1..Len(wire)
            BY <2>7, <2>8, <3>1
      <4> QED BY <1>a, <3>1, <4>1
    <3>2. CASE l = Len(back) + 1
          BY <2>7, <2>15, <3>2
    <3> QED BY <2>9, <3>1, <3>2
  <2>18. link
         BY <1>0, <2>1 DEF MsgsOK
  <2>19. /\ wire' = t /\ back' = b /\ link' /\ pushes' = pushes
         BY <2>1, <2>6, <2>7, <2>18
  <2> QED BY <2>11, <2>12, <2>13, <2>16, <2>17, <2>19 DEF MsgsOK, WireMsg, BackMsg
<1>8. CASE S!Panel
  <2>1. link /\ UNCHANGED <<pushes, link, wire>> /\ edits' \in S!Versions
        BY <1>0, <1>8, EditedIs DEF S!Panel
  <2>2. PICK e : e = [by |-> -1, stage |-> edits']
        OBVIOUS
  <2>3. back' = Append(back, e)
        BY <1>8, <2>2 DEF S!Panel
  <2>4. e \in BackMsg /\ e.by = -1
        BY <2>1, <2>2 DEF BackMsg
  <2>5. PICK b \in Seq(BackMsg) : /\ b = back' /\ Len(b) = Len(back) + 1 /\ b[Len(back) + 1] = e
                                /\ \A j \in 1..Len(back) : b[j] = back[j]
    <3>1. e \in BackMsg /\ back \in Seq(BackMsg)
          BY <1>0, <2>4
    <3> QED BY <2>3, <3>1, AppendIs
  <2>6. \A j \in 1..Len(b) : j \in 1..Len(back) \/ j = Len(back) + 1
        BY <1>0, <2>5
  <2>7. \A j \in 1..Len(b) : b[j].by # -1 => pushes[b[j].by].waits
        BY <1>0, <2>4, <2>5, <2>6 DEF MsgsOK
  <2>8. ASSUME NEW j \in 1..Len(b), NEW l \in 1..Len(b), b[j].by = b[l].by, b[j].by # -1 PROVE j = l
        BY <1>0, <2>4, <2>5, <2>6, <2>8 DEF MsgsOK
  <2>9. \A j \in 1..Len(wire) : wire[j].by # -1
        BY <1>0 DEF WireMsg
  <2>10. ASSUME NEW j \in 1..Len(wire), NEW l \in 1..Len(b) PROVE wire[j].by # b[l].by
         BY <1>0, <2>4, <2>5, <2>6, <2>9 DEF MsgsOK
  <2> QED BY <1>0, <2>1, <2>5, <2>7, <2>8, <2>10 DEF MsgsOK, BackMsg
\* What is left of the answers when the first is taken.
<1>9. ASSUME back # <<>>, back' = Tail(back), wire' = wire, link' = link,
             \A i \in Numbers : pushes[i].waits /\ i # Head(back).by => pushes'[i].waits,
             Head(back).by = -1 \/ \A j \in 1..Len(wire) : wire[j].by # Head(back).by
      PROVE  MsgsOK'
  <2>1. PICK t \in Seq(BackMsg) : /\ t = back' /\ Head(back) = back[1] /\ Len(back) \in Nat \ {0} /\ Len(t) = Len(back) - 1
                                /\ \A j \in 1..Len(back) - 1 : t[j] = back[j + 1]
        BY <1>0, <1>9, TailIs
  <2>2. \A j \in 1..Len(t) : j + 1 \in 2..Len(back) /\ t[j] = back[j + 1] /\ j + 1 \in 1..Len(back)
        BY <2>1
  <2>3. 1 \in 1..Len(back)
        BY <2>1
  <2>4. ASSUME NEW j \in 1..Len(t), t[j].by # -1 PROVE pushes'[t[j].by].waits
    <3>1. back[j + 1].by # back[1].by
          BY <1>0, <2>2, <2>3, <2>4 DEF MsgsOK
    <3>2. pushes[t[j].by].waits /\ t[j].by \in Numbers
      <4>1. j + 1 \in 1..Len(back) /\ back[j + 1].by # -1
            BY <2>2, <2>4
      <4>2. pushes[back[j + 1].by].waits /\ back[j + 1].by \in Numbers
            BY <1>a, <4>1
      <4> QED BY <2>2, <4>2
    <3> QED BY <1>9, <2>1, <2>2, <3>1, <3>2
  <2>5. ASSUME NEW j \in 1..Len(t), NEW l \in 1..Len(t), t[j].by = t[l].by, t[j].by # -1 PROVE j = l
    <3>1. j + 1 = l + 1
          BY <1>0, <2>2, <2>5 DEF MsgsOK
    <3> QED BY <3>1
  <2>6. \A j \in 1..Len(wire), l \in 1..Len(t) : wire[j].by # t[l].by
        BY <1>0, <2>2 DEF MsgsOK
  <2>7. ASSUME NEW j \in 1..Len(wire) PROVE pushes'[wire[j].by].waits
    <3>1. wire[j].by \in Numbers /\ pushes[wire[j].by].waits /\ wire[j].by # Head(back).by
          BY <1>a, <1>9
    <3> QED BY <1>9, <3>1
  <2>8. link
        BY <1>0, <1>9 DEF MsgsOK
  <2> QED BY <1>0, <1>9, <2>1, <2>4, <2>5, <2>6, <2>7, <2>8 DEF MsgsOK, BackMsg
<1>10. back # <<>> => 1 \in 1..Len(back) /\ Head(back) = back[1]
       BY <1>0, TailIs
<1>11. back # <<>> => \A j \in 1..Len(wire) : wire[j].by # Head(back).by
       BY <1>0, <1>10 DEF MsgsOK
<1>12. CASE S!StageChanged
  <2>1. Head(back).stage \in S!Versions /\ S!Written(Head(back).stage) /\ UNCHANGED <<wire, link, starts>>
        BY <1>0, <1>12, MsgTyped DEF S!StageChanged
  <2>2. back # <<>> /\ back' = Tail(back) /\ \A i \in Numbers : pushes'[i].waits = pushes[i].waits
        BY <1>0, <1>12, <2>1, WrittenIs DEF S!StageChanged
  <2> QED BY <1>9, <1>11, <2>1, <2>2
<1>13. CASE S!Answer
  <2>1. UNCHANGED <<wire, link>> /\ back # <<>> /\ back' = Tail(back) /\ pushes' = [pushes EXCEPT ![Head(back).by] = S!NextStep(@)]
        BY <1>13 DEF S!Answer
  <2>2. \A i \in Numbers : i # Head(back).by => pushes'[i] = pushes[i]
        BY <1>0, <2>1
  <2> QED BY <1>9, <1>11, <2>1, <2>2
<1>14. ASSUME NEW i \in Numbers, S!TimesOut(i) PROVE MsgsOK'
  <2>1. /\ UNCHANGED <<wire, back, link>> /\ pushes' = [pushes EXCEPT ![i] = S!NextStep(@)]
        /\ \A j \in 1..Len(wire) : wire[j].by # i
        /\ \A j \in 1..Len(back) : back[j].by # i
        BY <1>14 DEF S!TimesOut
  <2>2. \A n \in Numbers : n # i => pushes'[n] = pushes[n]
        BY <1>0, <2>1
  <2>3. \A j \in 1..Len(wire) : pushes'[wire[j].by].waits
        BY <1>0, <2>1, <2>2 DEF MsgsOK, WireMsg
  <2>4. \A j \in 1..Len(back) : back[j].by # -1 => pushes'[back[j].by].waits
        BY <1>0, <2>1, <2>2 DEF MsgsOK, BackMsg
  <2> QED BY <1>0, <2>1, <2>3, <2>4 DEF MsgsOK
<1>15. CASE S!Handle \/ S!HandleLate
       BY <1>7, <1>15 DEF S!Handle, S!HandleLate
<1>16. CASE S!Render
  <2>1. UNCHANGED <<link, wire, back, pushes>>
        BY <1>16 DEF S!Render
  <2> QED BY <1>0, <2>1, MsgsRest
<1> QED BY <1>0, <1>1, <1>2, <1>3, <1>4, <1>5, <1>6, <1>8, <1>12, <1>13, <1>14, <1>15, <1>16 DEF S!Next

LEMMA LateStep ==
  ASSUME StageShape, S!StageAssumption, S!Next \/ UNCHANGED stage
  PROVE  LateOK'
<1>0. late \in Seq(WireMsg) /\ wire \in Seq(WireMsg) /\ <<>> \in Seq(WireMsg)
      BY EmptySeq DEF StageShape, LateOK, MsgsOK, WireMsg
<1>1. ASSUME late' \in Seq(WireMsg) PROVE LateOK'
      BY <1>1 DEF LateOK, WireMsg
<1>2. CASE S!HandleLate
  <2>1. wire # <<>> /\ late' = Append(late, Head(wire))
        BY <1>2 DEF S!HandleLate, S!Taken
  <2>2. Head(wire) \in WireMsg
        BY <1>0, <2>1, TailIs
  <2> QED BY <1>0, <1>1, <2>1, <2>2, AppendIs
<1>3. CASE S!Render
  <2>1. late # <<>> /\ late' = Tail(late)
        BY <1>3 DEF S!Render
  <2> QED BY <1>0, <1>1, <2>1, TailIs
<1>4. CASE S!Connected
      BY <1>0, <1>1, <1>4 DEF S!Connected
<1>5. ASSUME late' = late PROVE LateOK'
      BY <1>0, <1>1, <1>5
<1>6. CASE \/ S!Reload \/ (\E k \in S!Keys : S!Update(k)) \/ S!Persist \/ S!RunJob \/ S!ReloadModel
           \/ S!Handle \/ S!Panel \/ UNCHANGED stage
      BY <1>5, <1>6 DEF S!Reload, S!Update, S!Persist, S!RunJob, S!ReloadModel, S!Handle, S!Panel, stage
<1>7. CASE S!StageChanged \/ S!Answer \/ S!Break \/ \E i \in DOMAIN pushes : S!Send(i) \/ S!TimesOut(i)
      BY <1>5, <1>7 DEF S!StageChanged, S!Answer, S!Break, S!Send, S!TimesOut
<1> QED BY <1>2, <1>3, <1>4, <1>6, <1>7 DEF S!Next

LEMMA ShapeStep ==
  ASSUME StageShape, S!StageAssumption, S!Next \/ UNCHANGED stage
  PROVE  StageShape'
<1>1. ValuesOK' /\ ChainOK' /\ PushesOK' /\ MsgsOK' /\ LateOK'
      BY ValuesStep, ChainStep, PushesStep, MsgsStep, LateStep
<1>2. S!Saved'
      BY SavedStep DEF StageShape
<1> QED BY <1>1, <1>2 DEF StageShape

-----------------------------------------------------------------------------
(* What the executor will show.                                            *)

\* A job of the chain brings what the configuration has for k by then.
Covered(c, k) == \E j \in 1..Len(c) : c[j].key \in {k, "rest"}

\* A push will send k; whatever it will send of k is v.
ToSend(p, k)      == \E j \in 1..Len(Unsent(p)) : Unsent(p)[j].key = k
OnlySends(p, k, v) == \A j \in 1..Len(Unsent(p)) : Unsent(p)[j].key = k => Unsent(p)[j].value = v

\* When the requests in w are done, v is shown for k.
Final(w, s, k, v) ==
  \/ \E j \in 1..Len(w) : /\ w[j].part.key = k /\ w[j].part.value = v
                          /\ \A l \in j + 1..Len(w) : w[l].part.key # k
  \/ (\A j \in 1..Len(w) : w[j].part.key # k) /\ s[k] = v

Coming(k) ==
  \/ Covered(chain, k) \/ \E i \in Numbers : ToSend(pushes[i], k)
  \/ Final(late \o wire, shown, k, config[k])

\* Only a push of the chain may send an old value: a job comes after it.
SendsNew(k) == \A i \in Numbers : OnlySends(pushes[i], k, config[k]) \/ (i = 0 /\ Covered(chain, k))

\* An edit of the panel is on its way.
Awaited == \E j \in 1..Len(back) : back[j].by = -1

\* It will come to a service that is busy, or be lost.
ToDo   == chain # <<>> \/ wire # <<>> \/ \E i \in Numbers : pushes[i].todo # <<>> /\ ~pushes[i].waits
Doomed == Awaited /\ (ToDo \/ back[Len(back)].by # -1)

\* It is what the executor shows and all that is under way.
PanelOnly == Awaited /\ ~S!UnderWay /\ back[Len(back)].stage = shown["stage"]

WillShow ==
  /\ Coming("rest") /\ Coming("win") /\ (Coming("stage") \/ PanelOnly)
  /\ Awaited => PanelOnly
  /\ \A k \in S!Keys : SendsNew(k)

Converges == link /\ ~overlap => Doomed \/ WillShow

StageInv == StageShape /\ Converges

LEMMA UnsentIs ==
  ASSUME NEW p \in PushRec, p.waits => p.todo # <<>>
  PROVE  Unsent(p) \in Seq(Item) /\ (p.todo = <<>> => Unsent(p) = <<>> /\ Len(Unsent(p)) = 0)
<1>1. PICK q \in Seq(Item) : q = p.todo
      BY DEF PushRec
<1>2. p.waits => Tail(q) \in Seq(Item)
      BY <1>1, TailIs
<1>3. Len(<<>>) = 0
      OBVIOUS
<1> QED BY <1>1, <1>2, <1>3 DEF Unsent

LEMMA FinalHandle ==
  ASSUME NEW w \in Seq(WireMsg), w # <<>>, NEW s \in S!Values, NEW t, t = Tail(w),
         NEW u, u = [s EXCEPT ![Head(w).part.key] = Head(w).part.value],
         NEW k \in S!Keys, NEW v, Final(w, s, k, v)
  PROVE  Final(t, u, k, v)
<1>1. /\ t \in Seq(WireMsg) /\ Head(w) = w[1] /\ Len(w) \in Nat \ {0} /\ Len(t) = Len(w) - 1
      /\ \A j \in 1..Len(w) - 1 : t[j] = w[j + 1]
      BY TailIs
<1>2. w[1].part.key \in S!Keys /\ 1 \in 1..Len(w)
  <2>1. w[1] \in WireMsg /\ 1 \in 1..Len(w)
        BY <1>1
  <2> QED BY <2>1 DEF WireMsg, Item
<1>3. \A j \in 1..Len(t) : j + 1 \in 2..Len(w) /\ t[j] = w[j + 1] /\ j + 1 \in 1..Len(w)
      BY <1>1
<1>4. u[w[1].part.key] = w[1].part.value /\ (k # w[1].part.key => u[k] = s[k])
      BY <1>1, <1>2 DEF S!Values
<1>5. CASE (\A j \in 1..Len(w) : w[j].part.key # k) /\ s[k] = v
      BY <1>2, <1>3, <1>4, <1>5 DEF Final
<1>6. ASSUME NEW j \in 1..Len(w), w[j].part.key = k, w[j].part.value = v, \A l \in j + 1..Len(w) : w[l].part.key # k
      PROVE  Final(t, u, k, v)
  <2>1. CASE j = 1
    <3>1. \A l \in 1..Len(t) : l + 1 \in j + 1..Len(w)
          BY <1>1, <2>1
    <3> QED BY <1>3, <1>4, <1>6, <2>1, <3>1 DEF Final
  <2>2. CASE j # 1
    <3>1. PICK i \in 1..Len(t) : i + 1 = j
      <4>1. j - 1 \in 1..Len(t) /\ (j - 1) + 1 = j
            BY <1>1, <2>2
      <4> QED BY <4>1
    <3>2. \A l \in i + 1..Len(t) : l + 1 \in j + 1..Len(w) /\ l \in 1..Len(t)
          BY <1>1, <3>1
    <3>3. t[i].part.key = k /\ t[i].part.value = v
          BY <1>3, <1>6, <3>1
    <3>4. \A l \in i + 1..Len(t) : t[l].part.key # k
          BY <1>3, <1>6, <3>2
    <3> QED BY <3>1, <3>3, <3>4 DEF Final
  <2> QED BY <2>1, <2>2
<1> QED BY <1>5, <1>6 DEF Final

LEMMA FinalSend ==
  ASSUME NEW w \in Seq(WireMsg), NEW e \in WireMsg, NEW t, t = Append(w, e), NEW s, NEW k, NEW v,
         e.part.key = k => e.part.value = v, e.part.key = k \/ Final(w, s, k, v)
  PROVE  Final(t, s, k, v)
<1>1. /\ t \in Seq(WireMsg) /\ Len(w) \in Nat /\ Len(t) = Len(w) + 1 /\ t[Len(w) + 1] = e
      /\ \A j \in 1..Len(w) : t[j] = w[j]
      BY AppendIs
<1>2. \A j \in 1..Len(w) : j \in 1..Len(t)
      BY <1>1
<1>3. CASE e.part.key = k
  <2>1. Len(w) + 1 \in 1..Len(t) /\ \A l \in (Len(w) + 1) + 1..Len(t) : FALSE
        BY <1>1
  <2> QED BY <1>1, <1>3, <2>1 DEF Final
<1>4. CASE e.part.key # k
  <2>1. \A j \in 1..Len(t) : j \in 1..Len(w) \/ t[j].part.key # k
        BY <1>1, <1>4
  <2>2. CASE (\A j \in 1..Len(w) : w[j].part.key # k) /\ s[k] = v
        BY <1>1, <2>1, <2>2 DEF Final
  <2>3. ASSUME NEW j \in 1..Len(w), w[j].part.key = k, w[j].part.value = v, \A l \in j + 1..Len(w) : w[l].part.key # k
        PROVE  Final(t, s, k, v)
    <3>1. \A l \in j + 1..Len(t) : l \in j + 1..Len(w) \/ l = Len(w) + 1
          BY <1>1
    <3>2. \A l \in j + 1..Len(w) : l \in 1..Len(w)
          BY <1>1
    <3>3. \A l \in j + 1..Len(t) : t[l].part.key # k
          BY <1>1, <1>4, <2>3, <3>1, <3>2
    <3> QED BY <1>1, <1>2, <2>3, <3>3 DEF Final
  <2> QED BY <1>4, <2>2, <2>3 DEF Final
<1> QED BY <1>3, <1>4

\* What the render thread has and what the wire has after it are one queue.
LEMMA Behind ==
  ASSUME NEW l \in Seq(WireMsg), NEW w \in Seq(WireMsg), NEW e \in WireMsg
  PROVE  l \o w \in Seq(WireMsg) /\ l \o Append(w, e) = Append(l \o w, e)
<1>1. PICK a \in Seq(WireMsg) : a = l \o w
      BY ConcatProperties
<1>2. <<e>> \in Seq(WireMsg) /\ Append(w, e) = w \o <<e>>
      BY AppendIsConcat
<1>3. Append(a, e) = a \o <<e>>
      BY AppendIsConcat
<1>4. l \o (w \o <<e>>) = (l \o w) \o <<e>>
      BY <1>2, ConcatAssociative
<1> QED BY <1>1, <1>2, <1>3, <1>4

LEMMA NothingLeft == <<>> \o <<>> = <<>> /\ Len(<<>> \o <<>>) = 0
<1>1. <<>> \in Seq(WireMsg) /\ Len(<<>>) = 0
      BY EmptySeq
<1>2. <<>> \o <<>> = <<>>
      BY <1>1, ConcatEmptySeq
<1> QED BY <1>1, <1>2

LEMMA FirstOfBoth ==
  ASSUME NEW l \in Seq(WireMsg), NEW w \in Seq(WireMsg), l # <<>>
  PROVE  /\ l \o w \in Seq(WireMsg) /\ l \o w # <<>> /\ Head(l \o w) = Head(l)
         /\ Tail(l) \o w = Tail(l \o w)
<1>0. /\ l \o w \in Seq(WireMsg) /\ Len(l \o w) = Len(l) + Len(w)
      /\ \A i \in 1..Len(l) + Len(w) : (l \o w)[i] = IF i <= Len(l) THEN l[i] ELSE w[i - Len(l)]
      BY ConcatProperties, Zenon
<1>1. PICK a \in Seq(WireMsg) : /\ a = l \o w /\ Len(a) = Len(l) + Len(w)
                                /\ \A i \in 1..Len(l) + Len(w) : a[i] = IF i <= Len(l) THEN l[i] ELSE w[i - Len(l)]
      BY <1>0, Zenon
<1>2. PICK t \in Seq(WireMsg) : /\ t = Tail(l) /\ Head(l) = l[1] /\ Len(l) \in Nat \ {0} /\ Len(t) = Len(l) - 1
                                /\ \A j \in 1..Len(l) - 1 : t[j] = l[j + 1]
      BY TailIs
<1>3. Len(w) \in Nat /\ Len(a) # 0
      BY <1>1, <1>2
<1>4. a # <<>>
      BY <1>3, EmptySeq
<1>5. PICK u \in Seq(WireMsg) : /\ u = Tail(a) /\ Head(a) = a[1] /\ Len(u) = Len(a) - 1
                                /\ \A j \in 1..Len(a) - 1 : u[j] = a[j + 1]
      BY <1>4, TailIs
<1>11. /\ t \o w \in Seq(WireMsg) /\ Len(t \o w) = Len(t) + Len(w)
       /\ \A i \in 1..Len(t) + Len(w) : (t \o w)[i] = IF i <= Len(t) THEN t[i] ELSE w[i - Len(t)]
      BY ConcatProperties, Zenon
<1>6. PICK b \in Seq(WireMsg) : /\ b = t \o w /\ Len(b) = Len(t) + Len(w)
                                /\ \A i \in 1..Len(t) + Len(w) : b[i] = IF i <= Len(t) THEN t[i] ELSE w[i - Len(t)]
      BY <1>11, Zenon
<1>7. Len(b) = Len(u)
      BY <1>1, <1>2, <1>3, <1>5, <1>6
<1>8. ASSUME NEW i \in 1..Len(b) PROVE b[i] = u[i]
  <2>1. i + 1 \in 1..Len(l) + Len(w) /\ i \in 1..Len(a) - 1 /\ i \in 1..Len(t) + Len(w)
        BY <1>1, <1>2, <1>3, <1>6, <1>8
  <2>2. u[i] = a[i + 1]
        BY <1>5, <2>1
  <2>3. CASE i <= Len(t)
    <3>1. i + 1 <= Len(l) /\ i \in 1..Len(l) - 1
          BY <1>2, <2>3
    <3>2. a[i + 1] = l[i + 1] /\ b[i] = t[i] /\ t[i] = l[i + 1]
          BY <1>1, <1>2, <1>6, <2>1, <2>3, <3>1
    <3> QED BY <2>2, <3>2
  <2>4. CASE ~(i <= Len(t))
    <3>1. ~(i + 1 <= Len(l)) /\ (i + 1) - Len(l) = i - Len(t)
          BY <1>2, <2>4
    <3>2. a[i + 1] = w[(i + 1) - Len(l)] /\ b[i] = w[i - Len(t)]
          BY <1>1, <1>6, <2>1, <2>4, <3>1
    <3> QED BY <2>2, <3>1, <3>2
  <2> QED BY <2>3, <2>4
<1>9. b = u
      BY <1>7, <1>8, SeqEqual
<1>10. a[1] = l[1]
       BY <1>1, <1>2, <1>3
<1> QED BY <1>1, <1>2, <1>4, <1>5, <1>6, <1>9, <1>10

LEMMA Handed ==
  ASSUME NEW l \in Seq(WireMsg), NEW w \in Seq(WireMsg), w # <<>>
  PROVE  Append(l, Head(w)) \o Tail(w) = l \o w
<1>1. PICK h \in WireMsg, t \in Seq(WireMsg) : h = Head(w) /\ t = Tail(w)
      BY TailIs
<1>2. <<h>> \in Seq(WireMsg) /\ Append(l, h) = l \o <<h>>
      BY AppendIsConcat
<1>3. (l \o <<h>>) \o t = l \o (<<h>> \o t)
      BY <1>2, ConcatAssociative
<1>10. Len(<<h>>) = 1 /\ <<h>>[1] = h
       OBVIOUS
<1>4. PICK o \in Seq(WireMsg) : o = <<h>> /\ Len(o) = 1 /\ o[1] = h
      BY <1>2, <1>10
<1>11. /\ o \o t \in Seq(WireMsg) /\ Len(o \o t) = Len(o) + Len(t)
       /\ \A i \in 1..Len(o) + Len(t) : (o \o t)[i] = IF i <= Len(o) THEN o[i] ELSE t[i - Len(o)]
      BY ConcatProperties, Zenon
<1>5. PICK a \in Seq(WireMsg) : /\ a = o \o t /\ Len(a) = Len(o) + Len(t)
                                /\ \A i \in 1..Len(o) + Len(t) : a[i] = IF i <= Len(o) THEN o[i] ELSE t[i - Len(o)]
      BY <1>11, Zenon
<1>6. /\ Head(w) = w[1] /\ Len(w) \in Nat \ {0} /\ Len(t) = Len(w) - 1
      /\ \A j \in 1..Len(w) - 1 : t[j] = w[j + 1]
      BY <1>1, TailIs
<1>7. Len(a) = Len(w)
      BY <1>4, <1>5, <1>6
<1>8. ASSUME NEW i \in 1..Len(a) PROVE a[i] = w[i]
  <2>1. CASE i = 1
        BY <1>1, <1>4, <1>5, <1>6, <2>1
  <2>2. CASE i # 1
    <3>1. i \in 1..Len(o) + Len(t) /\ ~(i <= Len(o)) /\ i - Len(o) = i - 1 /\ i - 1 \in 1..Len(w) - 1 /\ (i - 1) + 1 = i
          BY <1>4, <1>5, <1>6, <1>7, <1>8, <2>2
    <3> QED BY <1>5, <1>6, <3>1
  <2> QED BY <2>1, <2>2
<1>9. a = w
      BY <1>7, <1>8, SeqEqual
<1> QED BY <1>1, <1>2, <1>3, <1>4, <1>5, <1>9

\* Nobody at work: nothing is on its way but edits of the panel.
LEMMA AtRest ==
  ASSUME StageShape, ~S!Busy
  PROVE  /\ wire = <<>> /\ \A j \in 1..Len(back) : back[j].by = -1
         /\ \A i \in Numbers : /\ pushes[i].todo = <<>> /\ ~pushes[i].waits
                               /\ \A k, v : ~ToSend(pushes[i], k) /\ OnlySends(pushes[i], k, v)
<1>1. MsgsOK /\ PushesOK /\ DOMAIN pushes = Numbers /\ wire \in Seq(WireMsg)
      BY DEF StageShape, PushesOK, MsgsOK, WireMsg
<1>2. \A i \in Numbers : pushes[i].todo = <<>> /\ ~pushes[i].waits /\ pushes[i] \in PushRec
      BY <1>1 DEF S!Busy, PushesOK
<1>3. \A i \in Numbers : Len(Unsent(pushes[i])) = 0
      BY <1>2, UnsentIs
<1>4. \A i \in Numbers : \A k, v : ~ToSend(pushes[i], k) /\ OnlySends(pushes[i], k, v)
      BY <1>3 DEF ToSend, OnlySends
<1>5. \A j \in 1..Len(wire) : FALSE
      BY <1>1, <1>2, FromIs DEF MsgsOK, WiresFrom
<1>6. Len(wire) = 0
      BY <1>1, <1>5
<1>7. wire = <<>>
      BY <1>1, <1>6, EmptySeq
<1>8. \A j \in 1..Len(back) : back[j].by = -1
      BY <1>1, <1>2, FromIs DEF MsgsOK, BacksFrom
<1> QED BY <1>2, <1>4, <1>7, <1>8

LEMMA DoomedIsBusy == ASSUME StageShape, Doomed, chain = <<>> PROVE S!Busy
<1> SUFFICES ASSUME ~S!Busy PROVE FALSE
    OBVIOUS
<1>1. back \in Seq(BackMsg)
      BY DEF StageShape, MsgsOK, BackMsg
<1>2. PICK j \in 1..Len(back) : TRUE
      BY DEF Doomed, Awaited
<1>3. Len(back) \in 1..Len(back)
      BY <1>1, <1>2
<1> QED BY <1>3, AtRest DEF Doomed, ToDo

-----------------------------------------------------------------------------
(* Each action leads on.                                                   *)

\* Nothing of what is under way changes, and what is shown and wanted is as before.
LEMMA ComingRests ==
  ASSUME NEW k \in S!Keys, Coming(k), Covered(chain, k) => Covered(chain', k),
         \A i \in Numbers : ToSend(pushes[i], k) => ToSend(pushes'[i], k),
         Final(late \o wire, shown, k, config[k]) => Final(late' \o wire', shown', k, config'[k])
  PROVE  Coming(k)'
BY DEF Coming

LEMMA SendsNewRests ==
  ASSUME NEW k \in S!Keys, SendsNew(k), Covered(chain, k) => Covered(chain', k),
         \A i \in Numbers : OnlySends(pushes[i], k, config[k]) => OnlySends(pushes'[i], k, config'[k])
  PROVE  SendsNew(k)'
BY DEF SendsNew

LEMMA KeysAre == S!Keys = {"rest", "stage", "win"} /\ "rest" \in S!Keys /\ "stage" \in S!Keys /\ "win" \in S!Keys
BY DEF S!Keys

\* An edit of the panel that is awaited no longer comes to a service at rest.
LEMMA NowDoomed ==
  ASSUME Awaited', ToDo' \/ (back[Len(back)].by # -1)'
  PROVE  Converges'
BY DEF Converges, Doomed

\* No edit of the panel is awaited.
LEMMA NoneAwaited ==
  ASSUME ~Awaited', \A k \in S!Keys : Coming(k)' /\ SendsNew(k)'
  PROVE  Converges'
<1>1. Coming("rest")' /\ Coming("win")' /\ Coming("stage")'
      BY KeysAre
<1> QED BY <1>1 DEF Converges, WillShow

\* What is to be concluded from the invariant before a step that loses nothing.
LEMMA Before ==
  ASSUME StageInv, link, ~overlap
  PROVE  /\ Doomed \/ WillShow
         /\ ~Awaited => \A k \in S!Keys : Coming(k) /\ SendsNew(k)
<1>1. Doomed \/ WillShow
      BY DEF StageInv, Converges
<1>2. ASSUME ~Awaited PROVE \A k \in S!Keys : Coming(k) /\ SendsNew(k)
  <2>1. WillShow /\ ~PanelOnly
        BY <1>1, <1>2 DEF Doomed, PanelOnly
  <2> QED BY <2>1, KeysAre DEF WillShow
<1> QED BY <1>1, <1>2

\* An answer, a time-out or nothing.
LEMMA RestConverges ==
  ASSUME StageInv, UNCHANGED <<chain, wire, late, shown, config, link, overlap>>,
         \A i \in Numbers : Unsent(pushes'[i]) = Unsent(pushes[i]),
         \A i \in Numbers : ~pushes[i].waits /\ pushes[i].todo # <<>> =>
           ~pushes'[i].waits /\ pushes'[i].todo # <<>>,
         back' = back \/ (back # <<>> /\ Head(back).by # -1 /\ back' = Tail(back)),
         (UNCHANGED <<pushes, back>>) \/ S!Busy
  PROVE  Converges'
<1> SUFFICES ASSUME link, ~overlap PROVE Converges'
    BY DEF Converges
<1>0. back \in Seq(BackMsg)
      BY DEF StageInv, StageShape, MsgsOK, BackMsg
<1>1. Awaited' <=> Awaited
  <2>1. CASE back' = back
        BY <2>1 DEF Awaited
  <2>2. CASE back # <<>> /\ Head(back).by # -1 /\ back' = Tail(back)
    <3>1. PICK t \in Seq(BackMsg) : /\ t = back' /\ Head(back) = back[1] /\ Len(back) \in Nat \ {0} /\ Len(t) = Len(back) - 1
                                    /\ \A j \in 1..Len(back) - 1 : t[j] = back[j + 1]
          BY <1>0, <2>2, TailIs
    <3>2. \A j \in 1..Len(t) : j + 1 \in 1..Len(back) /\ t[j] = back[j + 1]
          BY <3>1
    <3>3. ASSUME NEW j \in 1..Len(back), back[j].by = -1 PROVE \E l \in 1..Len(t) : t[l].by = -1
      <4>1. j # 1
            BY <2>2, <3>1, <3>3
      <4>2. j - 1 \in 1..Len(t) /\ j - 1 \in 1..Len(back) - 1 /\ (j - 1) + 1 = j
            BY <3>1, <4>1
      <4> QED BY <3>1, <3>3, <4>2
    <3> QED BY <3>1, <3>2, <3>3 DEF Awaited
  <2> QED BY <2>1, <2>2
<1>2. ASSUME Awaited PROVE back'[Len(back')] = back[Len(back)]
  <2>1. CASE back' = back
        BY <2>1
  <2>2. CASE back # <<>> /\ Head(back).by # -1 /\ back' = Tail(back)
    <3>1. PICK t \in Seq(BackMsg) : /\ t = back' /\ Head(back) = back[1] /\ Len(back) \in Nat \ {0} /\ Len(t) = Len(back) - 1
                                    /\ \A j \in 1..Len(back) - 1 : t[j] = back[j + 1]
          BY <1>0, <2>2, TailIs
    <3>2. PICK l \in 1..Len(t) : TRUE
          BY <1>1, <1>2, <3>1 DEF Awaited
    <3>3. Len(t) \in 1..Len(back) - 1 /\ Len(t) + 1 = Len(back)
          BY <3>1, <3>2
    <3> QED BY <3>1, <3>3
  <2> QED BY <2>1, <2>2
<1>3. \A k, v : \A i \in Numbers : /\ ToSend(pushes[i], k) => ToSend(pushes'[i], k)
                                   /\ OnlySends(pushes[i], k, v) => OnlySends(pushes'[i], k, v)
      BY DEF ToSend, OnlySends
<1>4. \A k \in S!Keys : Coming(k) => Coming(k)'
      BY <1>3, ComingRests
<1>5. \A k \in S!Keys : SendsNew(k) => SendsNew(k)'
      BY <1>3, SendsNewRests
<1>6. CASE Doomed
      BY <1>1, <1>2, <1>6, NowDoomed DEF Doomed, ToDo
<1>7. CASE Awaited /\ ~Doomed
  <2>1. WillShow /\ PanelOnly
        BY <1>7, Before DEF WillShow
  <2>2. UNCHANGED <<pushes, back>>
        BY <2>1 DEF PanelOnly, S!UnderWay
  <2>3. PanelOnly'
        BY <2>1, <2>2 DEF PanelOnly, Awaited, S!UnderWay, S!Busy
  <2> QED BY <1>4, <1>5, <2>1, <2>3, KeysAre DEF Converges, WillShow
<1>8. CASE ~Awaited
      BY <1>1, <1>4, <1>5, <1>8, Before, NoneAwaited
<1> QED BY <1>6, <1>7, <1>8

\* An edit of the page: its jobs come after what is under way.
LEMMA EditConverges ==
  ASSUME StageInv, S!StageAssumption, Edits
  PROVE  Converges'
<1> SUFFICES ASSUME link, ~overlap, ~S!Outside PROVE Converges'
    BY DEF Converges, Edits
<1>0. ValuesOK /\ ChainOK /\ PushesOK /\ DOMAIN pushes = Numbers /\ config' \in S!Values /\ config \in S!Values
      BY DEF StageInv, StageShape, PushesOK, Edits, ValuesOK
<1>1. UNCHANGED <<wire, late, back, shown>> /\ PushesOK' /\ Awaited' = Awaited
      /\ \A i \in Numbers : pushes'[i].todo = pushes[i].todo /\ pushes'[i].waits = pushes[i].waits
      BY <1>0, ReplacedIs DEF Edits, Awaited
<1>2. /\ chain' \in Seq(Item) /\ Len(chain) \in Nat /\ Len(chain') \in Nat /\ Len(chain) <= Len(chain')
      /\ \A j \in 1..Len(chain) : chain'[j] = chain[j]
      /\ \A j \in Len(chain) + 1..Len(chain') : chain'[j].key \in S!Diffs
      /\ \A k \in S!Diffs : \E j \in Len(chain) + 1..Len(chain') : chain'[j].key = k
      BY <1>0, ApplyIs DEF Edits
<1>3. \A j \in 1..Len(chain) : j \in 1..Len(chain')
      BY <1>2
<1>4. \A k : Covered(chain, k) => Covered(chain', k)
      BY <1>2, <1>3 DEF Covered
<1>5. \A k \in S!Diffs : Covered(chain', k)
  <2>1. \A j \in Len(chain) + 1..Len(chain') : j \in 1..Len(chain')
        BY <1>2
  <2> QED BY <1>2, <2>1 DEF Covered
<1>6. \A k \in S!Keys : k \notin S!Diffs => config'[k] = config[k]
      BY <1>0, NotDiffers
<1>7. \A i \in Numbers : Unsent(pushes'[i]) = Unsent(pushes[i])
      BY <1>1 DEF Unsent
<1>8. \A k, v : \A i \in Numbers : /\ ToSend(pushes[i], k) => ToSend(pushes'[i], k)
                                   /\ OnlySends(pushes[i], k, v) => OnlySends(pushes'[i], k, v)
      BY <1>7 DEF ToSend, OnlySends
<1>9. \A k \in S!Keys : Coming(k) => Coming(k)'
  <2>1. ASSUME NEW k \in S!Keys, k \in S!Diffs PROVE Coming(k)'
        BY <1>5, <2>1 DEF Coming
  <2>2. ASSUME NEW k \in S!Keys, k \notin S!Diffs, Coming(k) PROVE Coming(k)'
        BY <1>1, <1>4, <1>6, <1>8, <2>2, ComingRests
  <2> QED BY <2>1, <2>2
<1>10. \A k \in S!Keys : SendsNew(k) => SendsNew(k)'
  <2>1. ASSUME NEW k \in S!Keys, k \in S!Diffs PROVE SendsNew(k)'
    <3>1. \A i \in Numbers : i # 0 => pushes[i].todo = <<>> /\ pushes[i] \in PushRec /\ (pushes[i].waits => pushes[i].todo # <<>>)
          BY <1>0 DEF S!Outside, PushesOK
    <3>2. \A i \in Numbers : i # 0 => Len(Unsent(pushes[i])) = 0
          BY <3>1, UnsentIs
    <3>3. \A i \in Numbers : i # 0 => OnlySends(pushes'[i], k, config'[k])
          BY <1>7, <3>2 DEF OnlySends
    <3> QED BY <1>5, <2>1, <3>3 DEF SendsNew
  <2>2. ASSUME NEW k \in S!Keys, k \notin S!Diffs, SendsNew(k) PROVE SendsNew(k)'
        BY <1>4, <1>6, <1>8, <2>2, SendsNewRests
  <2> QED BY <2>1, <2>2
<1>11. CASE ~Awaited
       BY <1>1, <1>9, <1>10, <1>11, Before, NoneAwaited
<1>12. CASE Awaited /\ chain' # <<>>
       BY <1>1, <1>12, NowDoomed DEF ToDo
<1>13. CASE Awaited /\ chain' = <<>>
  <2>1. Len(chain') = 0
        BY <1>13
  <2>2. Len(chain) = 0 /\ S!Diffs = {}
        BY <1>2, <2>1
  <2>3. chain = <<>>
        BY <1>0, <2>2, EmptySeq DEF ChainOK
  <2>4. CASE Doomed
        BY <1>1, <1>13, <2>3, <2>4, NowDoomed DEF Doomed, ToDo
  <2>5. CASE ~Doomed
    <3>1. WillShow /\ PanelOnly
          BY <1>13, <2>5, Before DEF WillShow
    <3>2. DOMAIN pushes' = Numbers
          BY <1>1 DEF PushesOK
    <3>3. PanelOnly'
          BY <1>0, <1>1, <1>13, <3>1, <3>2 DEF PanelOnly, S!UnderWay, S!Busy, Awaited
    <3> QED BY <1>9, <1>10, <3>1, <3>3, KeysAre DEF Converges, WillShow
  <2> QED BY <2>4, <2>5
<1> QED BY <1>11, <1>12, <1>13

\* The chain's next job.
LEMMA RunJobConverges ==
  ASSUME StageInv, S!StageAssumption, S!RunJob
  PROVE  Converges'
<1> SUFFICES ASSUME link, ~overlap PROVE Converges'
    BY DEF Converges, S!RunJob
<1>0. ChainOK /\ PushesOK /\ StageShape /\ chain \in Seq(Item) /\ chain # <<>> /\ chain' = Tail(chain) /\ 0 \in Numbers
      /\ UNCHANGED <<wire, late, back, shown, config>> /\ Awaited' = Awaited
      BY StartsIn DEF StageInv, StageShape, ChainOK, S!RunJob, Awaited
<1>1. /\ PushesOK' /\ \A n \in Numbers \ {0} : pushes'[n] = pushes[n]
      /\ pushes[0].todo = <<>> /\ ~pushes[0].waits /\ ~pushes'[0].waits /\ pushes'[0].todo # <<>>
      /\ \A k \in S!Keys : Head(chain).key \in {k, "rest"} =>
                         \E j \in 1..Len(pushes'[0].todo) : pushes'[0].todo[j].key = k
      /\ \A j \in 1..Len(pushes'[0].todo) :
                         \/ pushes'[0].todo[j].value = config[pushes'[0].todo[j].key]
                         \/ Head(chain) = [key |-> "win", value |-> pushes'[0].todo[j].value] /\ pushes'[0].todo[j].key = "win"
      BY <1>0, RunJobIs
<1>2. CASE Awaited
      BY <1>0, <1>1, <1>2, NowDoomed DEF ToDo
<1>3. CASE ~Awaited
  <2>1. PICK t \in Seq(Item) : /\ t = chain' /\ Head(chain) = chain[1] /\ Len(chain) \in Nat \ {0} /\ Len(t) = Len(chain) - 1
                               /\ \A j \in 1..Len(chain) - 1 : t[j] = chain[j + 1]
        BY <1>0, TailIs
  <2>2. \A k : Covered(chain, k) => Head(chain).key \in {k, "rest"} \/ Covered(t, k)
    <3>1. ASSUME NEW j \in 1..Len(chain), j # 1 PROVE \E l \in 1..Len(t) : t[l] = chain[j]
      <4>1. j - 1 \in 1..Len(t) /\ j - 1 \in 1..Len(chain) - 1 /\ (j - 1) + 1 = j
            BY <2>1, <3>1
      <4> QED BY <2>1, <4>1
    <3> QED BY <2>1, <3>1 DEF Covered
  <2>3. Unsent(pushes'[0]) = pushes'[0].todo /\ Unsent(pushes[0]) = <<>> /\ Len(Unsent(pushes[0])) = 0
    <3>1. Len(<<>>) = 0
          OBVIOUS
    <3> QED BY <1>1, <3>1 DEF Unsent
  <2>4. \A k \in S!Keys : Head(chain).key \in {k, "rest"} => ToSend(pushes'[0], k)
        BY <1>1, <2>3 DEF ToSend
  <2>5. \A k : \A i \in Numbers : ToSend(pushes[i], k) => ToSend(pushes'[i], k)
    <3>1. \A k : ~ToSend(pushes[0], k)
          BY <2>3 DEF ToSend
    <3> QED BY <1>1, <3>1
  <2>6. \A k \in S!Keys : Coming(k) => Coming(k)'
        BY <1>0, <2>1, <2>2, <2>4, <2>5 DEF Coming
  <2>7. ASSUME NEW k \in S!Keys, SendsNew(k) PROVE SendsNew(k)'
    <3>1. \A i \in Numbers \ {0} : OnlySends(pushes'[i], k, config'[k])
          BY <1>0, <1>1, <2>7 DEF SendsNew
    <3>2. OnlySends(pushes'[0], k, config'[k]) \/ Covered(t, k)
      <4>1. CASE Head(chain).key # "win" \/ k # "win" \/ Head(chain).value = config["win"]
            BY <1>0, <1>1, <2>3, <4>1 DEF OnlySends
      <4>2. CASE Head(chain).key = "win" /\ k = "win" /\ Head(chain).value # config["win"]
        <5>1. 1 \in 1..Len(chain) /\ chain[1].key = "win" /\ chain[1].value # config["win"]
              BY <2>1, <4>2
        <5>2. PICK l \in 1 + 1..Len(chain) : chain[l].key = "win"
              BY <1>0, <5>1 DEF ChainOK
        <5>3. l - 1 \in 1..Len(t) /\ l - 1 \in 1..Len(chain) - 1 /\ (l - 1) + 1 = l
              BY <2>1
        <5>4. t[l - 1].key = "win"
              BY <2>1, <5>2, <5>3
        <5> QED BY <4>2, <5>3, <5>4 DEF Covered
      <4> QED BY <4>1, <4>2
    <3> QED BY <2>1, <3>1, <3>2 DEF SendsNew
  <2> QED BY <1>0, <1>3, <2>6, <2>7, Before, NoneAwaited DEF StageInv
<1> QED BY <1>2, <1>3

\* A connection or a reload, beside nothing else: all parts are sent as they are.
LEMMA BesideConverges ==
  ASSUME StageInv, S!StageAssumption, S!Connected \/ S!ReloadModel
  PROVE  Converges'
<1> SUFFICES ASSUME ~overlap, ~S!Busy PROVE Converges'
    BY DEF Converges, S!Connected, S!ReloadModel
<1>0. StageShape /\ UNCHANGED <<wire, back, config, chain>> /\ Awaited' = Awaited
      BY DEF StageInv, S!Connected, S!ReloadModel, Awaited
<1>1. PICK n \in Numbers \ {0} : n = starts'
      BY <1>0, BesideIs
<1>2. /\ \A i \in Numbers \ {n} : pushes'[i] = pushes[i]
      /\ pushes'[n].todo # <<>> /\ ~pushes'[n].waits
      /\ \A k \in S!Keys : \E j \in 1..Len(pushes'[n].todo) : pushes'[n].todo[j].key = k
      /\ \A j \in 1..Len(pushes'[n].todo) : pushes'[n].todo[j].value = config[pushes'[n].todo[j].key]
      BY <1>0, <1>1, BesideIs
<1>3. CASE Awaited
      BY <1>0, <1>1, <1>2, <1>3, NowDoomed DEF ToDo
<1>4. CASE ~Awaited
  <2>1. Unsent(pushes'[n]) = pushes'[n].todo
        BY <1>2 DEF Unsent
  <2>2. \A k \in S!Keys : ToSend(pushes'[n], k) /\ OnlySends(pushes'[n], k, config[k])
        BY <1>2, <2>1 DEF ToSend, OnlySends
  <2>3. \A i \in Numbers \ {n} : \A k, v : OnlySends(pushes'[i], k, v)
        BY <1>0, <1>2, AtRest
  <2>4. \A k \in S!Keys : Coming(k)' /\ SendsNew(k)'
        BY <1>0, <2>2, <2>3 DEF Coming, SendsNew
  <2> QED BY <1>0, <1>4, <2>4, NoneAwaited
<1> QED BY <1>3, <1>4

\* A request goes out, behind all the others.
LEMMA SendConverges ==
  ASSUME StageInv, S!StageAssumption, NEW i \in Numbers, link, S!Send(i)
  PROVE  Converges'
<1> SUFFICES ASSUME ~overlap PROVE Converges'
    BY DEF Converges, S!Send
<1>0. /\ StageShape /\ PushesOK /\ ValuesOK /\ UNCHANGED <<late, back, shown, config, chain>> /\ Awaited' = Awaited
      /\ pushes[i] \in PushRec /\ wire \in Seq(WireMsg) /\ late \in Seq(WireMsg)
      BY DEF StageInv, StageShape, S!Send, Awaited, PushesOK, MsgsOK, LateOK, WireMsg
<1>1. /\ pushes'[i].waits /\ pushes'[i].todo = pushes[i].todo /\ pushes[i].todo # <<>> /\ ~pushes[i].waits
      /\ \A n \in Numbers \ {i} : pushes'[n] = pushes[n]
      BY <1>0, SendIs
<1>2. PICK q \in Seq(Item) : q = pushes[i].todo
      BY <1>0 DEF PushRec
<1>3. PICK t \in Seq(Item) : /\ t = Tail(q) /\ Head(q) = q[1] /\ Len(q) \in Nat \ {0} /\ Len(t) = Len(q) - 1
                             /\ \A j \in 1..Len(q) - 1 : t[j] = q[j + 1]
  <2>1. q # <<>>
        BY <1>1, <1>2
  <2> QED BY <2>1, TailIs
<1>4. Unsent(pushes[i]) = q /\ Unsent(pushes'[i]) = t
      BY <1>1, <1>2, <1>3 DEF Unsent
<1>5. q[1] \in Item /\ 1 \in 1..Len(q)
      BY <1>3
<1>6. PICK e : e = [by |-> i, part |-> q[1]]
      OBVIOUS
<1>7. e \in WireMsg /\ e.part = q[1]
      BY <1>5, <1>6 DEF WireMsg
<1>8. wire' = Append(wire, e)
      BY <1>2, <1>3, <1>6 DEF S!Send
<1>9. PICK w \in Seq(WireMsg) : w = wire' /\ Len(w) = Len(wire) + 1 /\ Len(wire) \in Nat
      BY <1>0, <1>7, <1>8, AppendIs
<1>13. PICK a \in Seq(WireMsg) : a = late \o wire /\ late' \o wire' = Append(a, e)
       BY <1>0, <1>7, <1>8, Behind
<1>10. wire' # <<>>
  <2>1. Len(w) # 0
        BY <1>9
  <2> QED BY <1>9, <2>1
<1>11. CASE Awaited
       BY <1>0, <1>10, <1>11, NowDoomed DEF ToDo
<1>12. CASE ~Awaited
  <2>1. \A j \in 1..Len(t) : j + 1 \in 1..Len(q) /\ t[j] = q[j + 1]
        BY <1>3
  <2>2. \A k \in S!Keys : SendsNew(k) => SendsNew(k)'
    <3>1. \A k, v : OnlySends(pushes[i], k, v) => OnlySends(pushes'[i], k, v)
          BY <1>4, <2>1 DEF OnlySends
    <3> QED BY <1>0, <1>1, <3>1, SendsNewRests
  <2>3. ASSUME NEW k \in S!Keys, Coming(k), SendsNew(k) PROVE Coming(k)'
    <3>1. CASE Covered(chain, k)
          BY <1>0, <3>1 DEF Coming
    <3>2. CASE ~Covered(chain, k)
      <4>0. PICK v : v = config[k]
            OBVIOUS
      <4>1. q[1].key = k => q[1].value = v
            BY <1>4, <1>5, <2>3, <3>2, <4>0 DEF SendsNew, OnlySends
      <4>2. q[1].key = k \/ Final(late \o wire, shown, k, v) => Final(late' \o wire', shown, k, v)
            BY <1>7, <1>13, <4>1, FinalSend
      <4>3. ASSUME NEW n \in Numbers, ToSend(pushes[n], k)
            PROVE  q[1].key = k \/ ToSend(pushes'[n], k)
        <5>1. CASE n # i
              BY <1>1, <4>3, <5>1
        <5>2. CASE n = i
          <6>1. PICK j \in 1..Len(q) : q[j].key = k
                BY <1>4, <4>3, <5>2 DEF ToSend
          <6>2. CASE j = 1
                BY <6>1, <6>2
          <6>3. CASE j # 1
            <7>1. j - 1 \in 1..Len(t) /\ j - 1 \in 1..Len(q) - 1 /\ (j - 1) + 1 = j
                  BY <1>3, <6>3
            <7>2. t[j - 1].key = k
                  BY <1>3, <6>1, <7>1
            <7> QED BY <1>4, <5>2, <7>1, <7>2 DEF ToSend
          <6> QED BY <6>2, <6>3
        <5> QED BY <5>1, <5>2
      <4>4. q[1].key = k \/ Final(late \o wire, shown, k, v) => Coming(k)'
            BY <1>0, <4>0, <4>2 DEF Coming
      <4>5. (\E n \in Numbers : ToSend(pushes'[n], k)) => Coming(k)'
            BY DEF Coming
      <4> QED BY <2>3, <3>2, <4>0, <4>3, <4>4, <4>5 DEF Coming
    <3> QED BY <3>1, <3>2
  <2> QED BY <1>0, <1>12, <2>2, <2>3, Before, NoneAwaited DEF StageInv
<1> QED BY <1>11, <1>12

\* The executor answers, after its edits; what it is still to show is as before.
LEMMA TakenConverges ==
  ASSUME StageInv, S!StageAssumption, S!Taken, UNCHANGED <<config, chain, pushes, link, overlap>>,
         \A k \in S!Keys : \A v : Final(late \o wire, shown, k, v) => Final(late' \o wire', shown', k, v)
  PROVE  Converges'
<1> SUFFICES ASSUME link, ~overlap PROVE Converges'
    BY DEF Converges
<1>0. wire \in Seq(WireMsg) /\ back \in Seq(BackMsg) /\ wire # <<>> /\ wire' = Tail(wire)
      BY DEF StageInv, StageShape, MsgsOK, WireMsg, BackMsg, S!Taken
<1>1. PICK e : e = [by |-> Head(wire).by, stage |-> 0]
      OBVIOUS
<1>2. Head(wire).by # -1 /\ e \in BackMsg
  <2>1. Head(wire).by \in Numbers /\ 0 \in S!Versions
    <3>1. MsgsOK /\ 0 \in S!Versions
          BY StartsIn DEF StageInv, StageShape, S!Versions
    <3> QED BY <1>0, <3>1, MsgTyped
  <2> QED BY <1>1, <2>1 DEF BackMsg, Numbers
<1>3. back' = Append(back, e)
      BY <1>1 DEF S!Taken
<1>4. PICK b \in Seq(BackMsg) : /\ b = back' /\ Len(back) \in Nat /\ Len(b) = Len(back) + 1 /\ b[Len(back) + 1] = e
                                /\ \A j \in 1..Len(back) : b[j] = back[j]
  <2>1. e \in BackMsg /\ back \in Seq(BackMsg)
        BY <1>0, <1>2
  <2> QED BY <2>1, <1>3, AppendIs
<1>5. \A j \in 1..Len(b) : j \in 1..Len(back) \/ b[j].by # -1
  <2>1. \A j \in 1..Len(b) : j \in 1..Len(back) \/ j = Len(back) + 1
        BY <1>4
  <2> QED BY <1>1, <1>2, <1>4, <2>1
<1>6. back'[Len(back')].by # -1
      BY <1>1, <1>2, <1>4
<1>7. CASE Awaited'
      BY <1>6, <1>7, NowDoomed
<1>8. CASE ~Awaited'
  <2>1. ~Awaited
    <3>1. \A j \in 1..Len(back) : j \in 1..Len(b) /\ b[j] = back[j]
          BY <1>4
    <3> QED BY <1>4, <1>8, <3>1 DEF Awaited
  <2>2. \A k \in S!Keys : Coming(k) => Coming(k)'
        BY <1>0, ComingRests
  <2>3. \A k \in S!Keys : SendsNew(k) => SendsNew(k)'
        BY <1>0, SendsNewRests
  <2> QED BY <1>8, <2>1, <2>2, <2>3, Before, NoneAwaited
<1> QED BY <1>7, <1>8

\* It does what it is asked, at once or later.
LEMMA HandleConverges ==
  ASSUME StageInv, S!StageAssumption, S!Handle \/ S!HandleLate
  PROVE  Converges'
<1>0. /\ wire \in Seq(WireMsg) /\ late \in Seq(WireMsg) /\ shown \in S!Values /\ wire # <<>> /\ wire' = Tail(wire)
      /\ S!Taken /\ UNCHANGED <<config, chain, pushes, link, overlap>>
      BY DEF StageInv, StageShape, ValuesOK, MsgsOK, LateOK, WireMsg, S!Handle, S!HandleLate, S!Taken
<1>1. CASE S!Handle
  <2>1. shown' = [shown EXCEPT ![Head(wire).part.key] = Head(wire).part.value] /\ late = <<>> /\ late' = <<>>
        BY <1>1 DEF S!Handle, S!Does
  <2>2. wire' \in Seq(WireMsg)
        BY <1>0, TailIs
  <2>3. late \o wire = wire /\ late' \o wire' = wire'
        BY <1>0, <2>1, <2>2, ConcatEmptySeq
  <2>5. ASSUME NEW k \in S!Keys, NEW v, Final(wire, shown, k, v) PROVE Final(wire', shown', k, v)
        BY <1>0, <2>1, <2>5, FinalHandle
  <2>4. \A k \in S!Keys : \A v : Final(late \o wire, shown, k, v) => Final(late' \o wire', shown', k, v)
        BY <2>3, <2>5
  <2> QED BY <1>0, <2>4, TakenConverges
<1>2. CASE S!HandleLate
  <2>1. shown' = shown /\ late' = Append(late, Head(wire))
        BY <1>2 DEF S!HandleLate
  <2>2. late' \o wire' = late \o wire
        BY <1>0, <2>1, Handed
  <2>3. \A k \in S!Keys : \A v : Final(late \o wire, shown, k, v) => Final(late' \o wire', shown', k, v)
        BY <2>1, <2>2
  <2> QED BY <1>0, <2>3, TakenConverges
<1> QED BY <1>1, <1>2

\* What it was late with is done: no edit of the panel waits for that.
LEMMA RenderConverges ==
  ASSUME StageInv, S!StageAssumption, S!Render
  PROVE  Converges'
<1> SUFFICES ASSUME link, ~overlap PROVE Converges'
    BY DEF Converges, S!Render
<1>0. /\ wire \in Seq(WireMsg) /\ late \in Seq(WireMsg) /\ shown \in S!Values /\ late # <<>> /\ late' = Tail(late)
      /\ shown' = [shown EXCEPT ![Head(late).part.key] = Head(late).part.value]
      /\ UNCHANGED <<config, chain, pushes, wire, back>>
      BY DEF StageInv, StageShape, ValuesOK, MsgsOK, LateOK, WireMsg, S!Render, S!Does
<1>1. /\ late \o wire \in Seq(WireMsg) /\ late \o wire # <<>> /\ Head(late \o wire) = Head(late)
      /\ late' \o wire' = Tail(late \o wire)
      BY <1>0, FirstOfBoth
<1>2. \A k \in S!Keys : \A v : Final(late \o wire, shown, k, v) => Final(late' \o wire', shown', k, v)
  <2>1. PICK a \in Seq(WireMsg) : a = late \o wire
        BY <1>1
  <2>2. PICK s \in S!Values : s = shown
        BY <1>0
  <2>3. PICK t, u : t = late' \o wire' /\ u = shown'
        OBVIOUS
  <2>4. a # <<>> /\ t = Tail(a) /\ u = [s EXCEPT ![Head(a).part.key] = Head(a).part.value]
        BY <1>0, <1>1, <2>1, <2>2, <2>3
  <2>5. ASSUME NEW k \in S!Keys, NEW v, Final(a, s, k, v) PROVE Final(t, u, k, v)
        BY <2>4, <2>5, FinalHandle
  <2> QED BY <2>1, <2>2, <2>3, <2>5
<1>3. \A k \in S!Keys : Coming(k) => Coming(k)'
      BY <1>0, <1>2, ComingRests
<1>4. \A k \in S!Keys : SendsNew(k) => SendsNew(k)'
      BY <1>0, SendsNewRests
<1>5. Awaited' = Awaited
      BY <1>0 DEF Awaited
<1>6. ~PanelOnly
      BY <1>0 DEF PanelOnly, S!UnderWay
<1>7. CASE Awaited
  <2>1. Doomed
        BY <1>6, <1>7, Before DEF WillShow
  <2> QED BY <1>0, <1>5, <1>7, <2>1, NowDoomed DEF Doomed, ToDo
<1>8. CASE ~Awaited
      BY <1>3, <1>4, <1>5, <1>8, Before, NoneAwaited
<1> QED BY <1>7, <1>8

\* An edit of the panel while nothing is under way.
LEMMA PanelConverges ==
  ASSUME StageInv, S!StageAssumption, S!Panel
  PROVE  Converges'
<1> SUFFICES ASSUME ~overlap, ~S!Busy, chain = <<>>, late = <<>> PROVE Converges'
    BY DEF Converges, S!Panel, S!UnderWay
<1>0. /\ StageShape /\ back \in Seq(BackMsg) /\ shown \in S!Values /\ link
      /\ shown' = [shown EXCEPT !["stage"] = edits'] /\ UNCHANGED <<config, chain, pushes, wire, late>> /\ edits' \in S!Versions
      BY EditedIs DEF StageInv, StageShape, ValuesOK, MsgsOK, BackMsg, S!Panel
<1>1. PICK e : e = [by |-> -1, stage |-> edits']
      OBVIOUS
<1>2. back' = Append(back, e) /\ e \in BackMsg /\ e.by = -1 /\ e.stage = edits'
      BY <1>0, <1>1 DEF S!Panel, BackMsg
<1>3. PICK b \in Seq(BackMsg) : b = back' /\ Len(back) \in Nat /\ Len(b) = Len(back) + 1 /\ b[Len(back) + 1] = e
      BY <1>0, <1>2, AppendIs
<1>4. Len(b) \in 1..Len(b) /\ b[Len(b)] = e
      BY <1>3
<1>5. Awaited' /\ back'[Len(back')].stage = edits'
      BY <1>2, <1>3, <1>4 DEF Awaited
<1>6. shown'["stage"] = edits' /\ \A k \in S!Keys : k # "stage" => shown'[k] = shown[k]
      BY <1>0, KeysAre DEF S!Values
<1>7. ~S!Busy'
      BY <1>0 DEF S!Busy
<1>8. PanelOnly'
      BY <1>0, <1>5, <1>6, <1>7 DEF PanelOnly, S!UnderWay
<1>9. WillShow
      BY <1>0, Before, DoomedIsBusy
<1>10. \A k \in S!Keys : k # "stage" => \A v : Final(late \o wire, shown, k, v) => Final(late' \o wire', shown', k, v)
       BY <1>0, <1>6 DEF Final
<1>11. \A k \in S!Keys : k # "stage" /\ Coming(k) => Coming(k)'
       BY <1>0, <1>10, ComingRests
<1>12. \A k \in S!Keys : SendsNew(k)'
       BY <1>0, <1>9, SendsNewRests DEF WillShow
<1>13. Coming("rest")' /\ Coming("win")'
       BY <1>9, <1>11, KeysAre DEF WillShow
<1> QED BY <1>8, <1>12, <1>13 DEF Converges, WillShow

\* The service hears of it with nothing under way.
LEMMA ChangedConverges ==
  ASSUME StageInv, S!StageAssumption, S!StageChanged
  PROVE  Converges'
<1> SUFFICES ASSUME link, ~overlap, ~S!Busy, chain = <<>>, late = <<>> PROVE Converges'
    BY DEF Converges, S!StageChanged, S!UnderWay
<1>0. /\ StageShape /\ PushesOK /\ back \in Seq(BackMsg) /\ config \in S!Values /\ link
      /\ back # <<>> /\ Head(back).by = -1 /\ back' = Tail(back)
      /\ config' = [config EXCEPT !["stage"] = Head(back).stage] /\ UNCHANGED <<shown, chain, wire, late, starts>>
      /\ S!Written(Head(back).stage) /\ Head(back).stage \in S!Versions /\ DOMAIN pushes = Numbers
      BY MsgTyped DEF StageInv, StageShape, ValuesOK, MsgsOK, BackMsg, S!StageChanged, PushesOK
<1>1. /\ PushesOK' /\ wire = <<>> /\ \A i \in Numbers : pushes'[i].todo = <<>>
      BY <1>0, WrittenIs, AtRest
<1>2. ~S!Busy' /\ DOMAIN pushes' = Numbers
      BY <1>1 DEF S!Busy, PushesOK
<1>3. \A i \in Numbers : \A k, v : OnlySends(pushes'[i], k, v)
  <2>1. \A i \in Numbers : Len(Unsent(pushes'[i])) = 0
    <3>1. ASSUME NEW i \in Numbers PROVE Len(Unsent(pushes'[i])) = 0
      <4>1. PICK p \in PushRec : p = pushes'[i]
            BY <1>1 DEF PushesOK
      <4>2. p.todo = <<>> /\ (p.waits => p.todo # <<>>)
            BY <1>1, <4>1 DEF PushesOK
      <4> QED BY <4>1, <4>2, UnsentIs
    <3> QED BY <3>1
  <2> QED BY <2>1 DEF OnlySends
<1>4. PICK t \in Seq(BackMsg) : /\ t = back' /\ Head(back) = back[1] /\ Len(back) \in Nat \ {0} /\ Len(t) = Len(back) - 1
                                /\ \A j \in 1..Len(back) - 1 : t[j] = back[j + 1]
      BY <1>0, TailIs
<1>5. Awaited
  <2>1. 1 \in 1..Len(back)
        BY <1>4
  <2> QED BY <1>0, <1>4, <2>1 DEF Awaited
<1>6. WillShow /\ PanelOnly
      BY <1>0, <1>5, Before, DoomedIsBusy DEF WillShow
<1>7. \A k \in S!Keys : (k # "stage" => config'[k] = config[k]) /\ config'["stage"] = back[1].stage
      BY <1>0, <1>4, KeysAre DEF S!Values
<1>8. \A k \in S!Keys : ~Covered(chain, k) /\ \A i \in Numbers : ~ToSend(pushes[i], k)
  <2>1. Len(chain) = 0
        OBVIOUS
  <2>2. \A k : ~Covered(chain, k)
        BY <2>1 DEF Covered
  <2>3. \A i \in Numbers : \A k, v : ~ToSend(pushes[i], k) /\ OnlySends(pushes[i], k, v)
        BY <1>0, AtRest
  <2> QED BY <2>2, <2>3
<1>9. \A k \in S!Keys : k # "stage" /\ Coming(k) => Coming(k)'
      BY <1>0, <1>7, <1>8 DEF Coming
<1>10. \A k \in S!Keys : SendsNew(k)'
       BY <1>3 DEF SendsNew
<1>11. CASE t = <<>>
  <2>1. Len(t) = 0
        BY <1>11
  <2>a. Len(back) = 1 /\ Len(back') = 0
        BY <1>4, <2>1
  <2>2. Len(back) = 1 /\ ~Awaited'
        BY <2>a DEF Awaited
  <2>3. config'["stage"] = shown["stage"]
        BY <1>6, <1>7, <2>2, KeysAre DEF PanelOnly
  <2>4. Final(late' \o wire', shown', "stage", config'["stage"])
    <3>1. late' \o wire' = <<>> /\ Len(late' \o wire') = 0
          BY <1>0, <1>1, NothingLeft
    <3> QED BY <1>0, <2>3, <3>1 DEF Final
  <2>5. Coming("stage")'
        BY <2>4 DEF Coming
  <2> QED BY <1>6, <1>9, <1>10, <2>2, <2>5, KeysAre DEF Converges, WillShow
<1>12. CASE t # <<>>
  <2>1. Len(t) # 0
        BY <1>12, EmptySeq
  <2>2. Len(t) \in 1..Len(t) /\ Len(t) \in 1..Len(back) - 1 /\ Len(t) + 1 = Len(back) /\ Len(back) \in 1..Len(back)
        BY <1>4, <2>1
  <2>3. t[Len(t)] = back[Len(back)]
        BY <1>4, <2>2
  <2>4. back[Len(back)].by = -1
        BY <1>0, <2>2, AtRest
  <2>5. Awaited' /\ back'[Len(back')].stage = shown'["stage"]
        BY <1>0, <1>4, <1>6, <2>2, <2>3, <2>4 DEF PanelOnly, Awaited
  <2>6. PanelOnly'
        BY <1>0, <1>2, <2>5 DEF PanelOnly, S!UnderWay
  <2> QED BY <1>6, <1>9, <1>10, <2>6, KeysAre DEF Converges, WillShow
<1> QED BY <1>11, <1>12

LEMMA StageStep ==
  ASSUME StageInv, S!StageAssumption, S!Next \/ UNCHANGED stage
  PROVE  StageInv'
<1>0. StageShape /\ StageShape' /\ PushesOK /\ ValuesOK /\ DOMAIN pushes = Numbers
      BY ShapeStep DEF StageInv, StageShape, PushesOK
<1> SUFFICES Converges'
    BY <1>0 DEF StageInv
<1>1. CASE S!Reload \/ \E k \in S!Keys : S!Update(k)
      BY <1>0, <1>1, EditsEdit, EditConverges
<1>2. CASE S!Persist \/ UNCHANGED stage
  <2>1. UNCHANGED <<config, chain, pushes, link, wire, late, back, shown, overlap>>
        BY <1>2 DEF S!Persist, stage
  <2> QED BY <2>1, RestConverges
<1>3. CASE S!RunJob
      BY <1>3, RunJobConverges
<1>4. CASE S!Connected \/ S!ReloadModel
      BY <1>4, BesideConverges
<1>5. CASE S!Break
      BY <1>5 DEF S!Break, Converges
\* A push goes on to its next step.
<1>6. ASSUME NEW i \in Numbers, pushes[i].todo # <<>>,
             UNCHANGED <<config, chain, link, wire, late, shown, starts, overlap>>,
             pushes' = [pushes EXCEPT ![i] = S!NextStep(@)], pushes[i].waits,
             back' = back \/ (back # <<>> /\ Head(back).by # -1 /\ back' = Tail(back))
      PROVE  Converges'
  <2>1. /\ Unsent(pushes'[i]) = Tail(pushes[i].todo) /\ \A n \in Numbers \ {i} : pushes'[n] = pushes[n]
        BY <1>0, <1>6, PushGoesOn
  <2>2. \A n \in Numbers : Unsent(pushes'[n]) = Unsent(pushes[n])
        BY <1>6, <2>1 DEF Unsent
  <2>3. \A n \in Numbers : ~pushes[n].waits /\ pushes[n].todo # <<>> =>
           ~pushes'[n].waits /\ pushes'[n].todo # <<>>
        BY <1>6, <2>1
  <2>4. S!Busy
        BY <1>0, <1>6 DEF S!Busy
  <2> QED BY <1>6, <2>2, <2>3, <2>4, RestConverges
<1>7. ASSUME NEW i \in Numbers, S!Send(i) PROVE Converges'
  <2>1. CASE link
        BY <1>7, <2>1, SendConverges
  <2>2. CASE ~link
        BY <1>7, <2>2 DEF S!Send, Converges
  <2> QED BY <2>1, <2>2
<1>8. ASSUME NEW i \in Numbers, S!TimesOut(i) PROVE Converges'
  <2>1. /\ pushes[i].waits /\ pushes' = [pushes EXCEPT ![i] = S!NextStep(@)]
        /\ UNCHANGED <<config, chain, link, wire, late, back, shown, starts, overlap>>
        BY <1>8 DEF S!TimesOut
  <2>2. pushes[i].todo # <<>>
        BY <1>0, <2>1 DEF PushesOK
  <2> QED BY <1>6, <2>1, <2>2
<1>9. CASE S!Answer
  <2>1. PICK i \in Numbers : i = Head(back).by
        BY <1>0, <1>9, AnswerIs
  <2>2. /\ back # <<>> /\ back' = Tail(back) /\ Head(back).by # -1
        /\ UNCHANGED <<config, chain, link, wire, late, shown, starts, overlap>>
        BY <1>9 DEF S!Answer
  <2>3. pushes[i].waits /\ pushes[i].todo # <<>> /\ pushes' = [pushes EXCEPT ![i] = S!NextStep(@)]
        BY <1>0, <1>9, <2>1, AnswerIs
  <2> QED BY <1>6, <2>2, <2>3
<1>10. CASE S!Handle \/ S!HandleLate
       BY <1>10, HandleConverges
<1>13. CASE S!Render
       BY <1>13, RenderConverges
<1>11. CASE S!Panel
       BY <1>11, PanelConverges
<1>12. CASE S!StageChanged
       BY <1>12, ChangedConverges
<1> QED BY <1>0, <1>1, <1>2, <1>3, <1>4, <1>5, <1>7, <1>8, <1>9, <1>10, <1>11, <1>12, <1>13 DEF S!Next

LEMMA StageBegins ==
  ASSUME S!Init, S!StageAssumption
  PROVE  StageInv
<1>1. /\ ValuesOK /\ S!Saved
  <2>1. 0 \in S!Versions /\ 0 \in 0..MaxEdits /\ 0 \in 0..MaxPushes
        BY StartsIn DEF S!Versions, Numbers
  <2>2. config \in S!Values /\ disk = config /\ last = [config EXCEPT !["win"] = -1] /\ shown = config
        BY <2>1 DEF S!Init, S!Values
  <2>3. last \in [S!Keys -> S!Versions \cup {-1}] /\ \A k \in S!Keys : last[k] \in {config[k], -1}
        BY <2>2 DEF S!Values
  <2> QED BY <2>1, <2>2, <2>3 DEF S!Init, ValuesOK, S!Saved
<1>2. Len(<<>>) = 0 /\ Len(chain) = 0 /\ Len(wire) = 0 /\ Len(back) = 0
      BY DEF S!Init
<1>3. ChainOK
      BY <1>2 DEF S!Init, ChainOK
<1>4. PushesOK
  <2>1. pushes = [i \in Numbers |-> S!NoPush]
        BY DEF S!Init, Numbers
  <2> QED BY <2>1, NoPushTyped DEF PushesOK
<1>5. MsgsOK /\ LateOK
      BY <1>2, EmptySeq DEF S!Init, MsgsOK, LateOK
<1>6. Converges
      BY DEF S!Init, Converges
<1> QED BY <1>1, <1>3, <1>4, <1>5, <1>6 DEF StageInv, StageShape

\* At rest what is shown is what is wanted.
LEMMA StageRests ==
  ASSUME StageInv
  PROVE  S!TypeOK /\ S!Saved /\ S!Shown
<1>0. ValuesOK /\ ChainOK /\ PushesOK /\ StageShape
      BY DEF StageInv, StageShape
<1>1. S!TypeOK
  <2>1. {config, disk, shown} \subseteq S!Values /\ last \in [S!Keys -> S!Versions \cup {-1}] /\ persist \in BOOLEAN /\ link \in BOOLEAN
        /\ edits \in 0..MaxEdits /\ starts \in 0..MaxPushes /\ overlap \in BOOLEAN
        BY <1>0 DEF ValuesOK
  <2>2. ASSUME NEW j \in 1..Len(chain) PROVE chain[j].key \in S!Keys /\ chain[j].value \in S!Versions
    <3>1. chain[j] \in Item
          BY <1>0, <2>2 DEF ChainOK
    <3> QED BY <3>1 DEF Item
  <2>3. \A i \in DOMAIN pushes : pushes[i].waits \/ pushes[i].cur => pushes[i].todo # <<>>
        BY <1>0 DEF PushesOK
  <2> QED BY <2>1, <2>2, <2>3 DEF S!TypeOK
<1>2. ASSUME link, S!Quiet, ~overlap PROVE shown = config
  <2>1. chain = <<>> /\ wire = <<>> /\ late = <<>> /\ back = <<>> /\ ~S!Busy
        BY <1>2 DEF S!Quiet
  <2>2. Len(chain) = 0 /\ Len(late \o wire) = 0 /\ Len(back) = 0
        BY <2>1, NothingLeft
  <2>3. ~Awaited
        BY <2>2 DEF Awaited
  <2>4. \A k \in S!Keys : Coming(k)
        BY <1>2, <2>3, Before
  <2>5. \A k : ~Covered(chain, k)
        BY <2>2 DEF Covered
  <2>6. \A i \in Numbers : \A k, v : ~ToSend(pushes[i], k) /\ OnlySends(pushes[i], k, v)
        BY <1>0, <2>1, AtRest
  <2>7. \A k \in S!Keys : Final(late \o wire, shown, k, config[k])
        BY <2>4, <2>5, <2>6 DEF Coming
  <2>8. \A k \in S!Keys : shown[k] = config[k]
        BY <2>2, <2>7 DEF Final
  <2>9. shown \in [S!Keys -> S!Versions] /\ config \in [S!Keys -> S!Versions]
        BY <1>0 DEF ValuesOK, S!Values
  <2> QED BY <2>8, <2>9
<1>3. S!Saved
      BY <1>0 DEF StageShape
<1> QED BY <1>1, <1>2, <1>3 DEF S!Shown

\* The inductive invariant of the stage, in the behaviours that are its own.
THEOREM StageInvariance == PartsSpec => [](part = "stage" => StageInv)
<1>1. PartsInit => (part = "stage" => StageInv)
      BY StageBegins, PartsAssumption DEF PartsInit
<1>2. (part = "stage" => StageInv) /\ [PartsNext]_<<part, vars, stage, lookup>> => (part = "stage" => StageInv)'
  <2> SUFFICES ASSUME part = "stage" => StageInv, [PartsNext]_<<part, vars, stage, lookup>>, part' = "stage"
               PROVE  StageInv'
      OBVIOUS
  <2>1. part = "stage" /\ (S!Next \/ UNCHANGED stage)
        BY DEF PartsNext
  <2> QED BY <2>1, StageStep, PartsAssumption
<1> QED BY <1>1, <1>2, PTL DEF PartsSpec

\* Whatever edits of pages and of the executor's panel, reloads and lost links
\* come together: the file is the configuration or will be, and at rest a
\* connected executor shows the configuration, if no push went beside another
\* one or beside an edit (applyConfigRuntime(), onExecutorStageChanged()).
THEOREM StageCorrect == PartsSpec => []Shown
<1>1. (part = "stage" => StageInv) => Shown
      BY StageRests DEF Shown
<1> QED BY <1>1, StageInvariance, PTL

-----------------------------------------------------------------------------
(* Look-ups: what they ask for, and the inductive invariant.               *)

Req   == [kind : {"must", "may", "fed", "key", "signed may", "signed must", "chunk"}, limit : Nat]
Lists == {"kugou", "netease", "qq"}
Asked == {"search", "info", "url", "lyric"}

\* Requests to make, the last of which is not for the key.
Todo(t)     == t \in Seq(Req) /\ t # <<>> /\ t[Len(t)].kind # "key"
ListTodo(t) == Todo(t) /\ \A i \in 1..Len(t) : t[i].kind \in {"must", "chunk"}

\* A play list is asked of the n-th provider; those before gave nothing.
AtProvider(j, n) ==
  /\ j.all[n] = j.p /\ Len(j.left) = Len(j.all) - n
  /\ \A i \in 1..Len(j.left) : j.left[i] = j.all[n + i]
  /\ j.failed = {j.all[i] : i \in 1..(n - 1)}

AllFailed(all, failed) == failed = {all[i] : i \in 1..Len(all)}

ListOK(j) ==
  /\ j.at \in {"runs", "found", "none found"}
  /\ \A i \in 1..Len(j.todo) : j.todo[i].kind \in {"must", "chunk"}
  /\ j.at = "none found" => AllFailed(j.all, j.failed)
  /\ j.at \in {"runs", "found"} => \E n \in 1..Len(j.all) : AtProvider(j, n)

JobRec ==
  [at : {"none", "runs", "found", "none found", "error"}, op : Asked \cup {"none", "playlist"},
   p : K!Names \cup {"none"}, todo : Seq(Req), left : Seq(Lists), all : Seq(Lists),
   failed : SUBSET K!Names, sign : Nat, gave : BOOLEAN]

JobOK(j, most) ==
  /\ j \in JobRec /\ j.sign <= most
  /\ j.at = "runs" <=> j.todo # <<>>
  /\ j.todo # <<>> => Todo(j.todo)
  /\ j.op = "playlist" => ListOK(j)

LookupInv ==
  /\ DOMAIN job = Clients /\ \A c \in Clients : JobOK(job[c], key)
  /\ cached \in 0..key /\ key \in 1..MaxKeys /\ started \in 0..MaxLookups /\ fed \subseteq Clients

-----------------------------------------------------------------------------
(* Lemmas about the tables of providers.                                   *)

LEMMA ReqsAre ==
  /\ \A n \in Nat : K!Must(n) \in Req /\ K!Must(n).kind = "must" /\ K!May(n) \in Req /\ K!May(n).kind = "may"
                   /\ K!Fed(n) \in Req /\ K!Fed(n).kind = "fed"
  /\ K!Key \in Req /\ K!Chunk \in Req /\ K!Chunk.kind = "chunk"
  /\ \A k \in {"signed may", "signed must"} : K!Signed(k) \in Req /\ K!Signed(k).kind # "key"
BY DEF K!Must, K!May, K!Fed, K!Key, K!Chunk, K!Signed, Req

LEMMA TodosAre ==
  ASSUME NEW a \in Req, a.kind # "key"
  PROVE  Todo(<<a>>) /\ \A b \in Req : Todo(<<b, a>>) /\ \A c \in Req : Todo(<<c, b, a>>)
<1>1. Todo(<<a>>)
  <2>1. <<a>> \in Seq(Req) /\ Len(<<a>>) = 1 /\ <<a>>[1] = a /\ <<a>> # <<>>
        OBVIOUS
  <2> QED BY <2>1 DEF Todo
<1>2. ASSUME NEW b \in Req PROVE Todo(<<b, a>>)
  <2>1. <<b, a>> \in Seq(Req) /\ Len(<<b, a>>) = 2 /\ <<b, a>>[2] = a /\ <<b, a>> # <<>>
        OBVIOUS
  <2> QED BY <2>1 DEF Todo
<1>3. ASSUME NEW b \in Req, NEW c \in Req PROVE Todo(<<c, b, a>>)
  <2>1. <<c, b, a>> \in Seq(Req) /\ Len(<<c, b, a>>) = 3 /\ <<c, b, a>>[3] = a /\ <<c, b, a>> # <<>>
        OBVIOUS
  <2> QED BY <2>1 DEF Todo
<1> QED BY <1>1, <1>2, <1>3

LEMMA NamesAre == K!Names = {"kuwo", "kugou", "migu", "bilivideo", "netease", "qq"} /\ DOMAIN K!Registry = 1..6
                  /\ \A i \in 1..6 : K!Registry[i] \in K!Names
<1>1. DOMAIN K!Registry = 1..6
      BY DEF K!Registry
<1>2. \A i \in 1..6 : i = 1 \/ i = 2 \/ i = 3 \/ i = 4 \/ i = 5 \/ i = 6
      OBVIOUS
<1>3. /\ K!Registry[1] = "kuwo" /\ K!Registry[2] = "kugou" /\ K!Registry[3] = "migu"
      /\ K!Registry[4] = "bilivideo" /\ K!Registry[5] = "netease" /\ K!Registry[6] = "qq"
      BY DEF K!Registry
<1> QED BY <1>1, <1>2, <1>3 DEF K!Names

LEMMA MethodsAre ==
  \A p \in K!Names, op \in Asked : \A t \in K!Methods[p][op] : Todo(t)
<1>0. /\ \A n \in {8, 10} : Todo(<<K!Must(n)>>) /\ Todo(<<K!May(n)>>) /\ Todo(<<K!Fed(n)>>)
      /\ Todo(<<K!May(8), K!May(8)>>) /\ Todo(<<K!May(8), K!May(8), K!May(8)>>) /\ Todo(<<K!Must(8), K!Must(8)>>)
      /\ Todo(<<K!Key, K!Signed("signed may")>>) /\ Todo(<<K!Must(8), K!Key, K!Signed("signed must")>>)
      BY ReqsAre, TodosAre
<1>1. \A t \in K!KuwoSearch \cup K!KuwoInfo \cup K!KuwoUrl \cup K!KuwoLyric : Todo(t)
      BY <1>0 DEF K!KuwoSearch, K!KuwoInfo, K!KuwoUrl, K!KuwoLyric
<1>2. \A t \in K!KugouSearch \cup K!KugouInfo \cup K!KugouUrl \cup K!KugouLyric : Todo(t)
      BY <1>0 DEF K!KugouSearch, K!KugouInfo, K!KugouUrl, K!KugouLyric
<1>3. \A t \in K!MiguSearch \cup K!MiguInfo \cup K!MiguUrl \cup K!MiguLyric : Todo(t)
      BY <1>0 DEF K!MiguSearch, K!MiguInfo, K!MiguUrl, K!MiguLyric
<1>4. \A t \in K!BiliSearch \cup K!BiliInfo \cup K!BiliUrl \cup K!BiliLyric : Todo(t)
      BY <1>0 DEF K!BiliSearch, K!BiliInfo, K!BiliUrl, K!BiliLyric
<1>5. \A t \in K!NeteaseSearch \cup K!NeteaseInfo \cup K!NeteaseUrl \cup K!NeteaseLyric : Todo(t)
      BY <1>0 DEF K!NeteaseSearch, K!NeteaseInfo, K!NeteaseUrl, K!NeteaseLyric
<1>6. \A t \in K!QqSearch \cup K!QqInfo \cup K!QqUrl \cup K!QqLyric : Todo(t)
      BY <1>0 DEF K!QqSearch, K!QqInfo, K!QqUrl, K!QqLyric
<1>7. ASSUME NEW op \in Asked PROVE \A t \in K!Methods["kuwo"][op] : Todo(t)
      BY <1>1 DEF K!Methods, Asked
<1>8. ASSUME NEW op \in Asked PROVE \A t \in K!Methods["kugou"][op] : Todo(t)
      BY <1>2 DEF K!Methods, Asked
<1>9. ASSUME NEW op \in Asked PROVE \A t \in K!Methods["migu"][op] : Todo(t)
      BY <1>3 DEF K!Methods, Asked
<1>10. ASSUME NEW op \in Asked PROVE \A t \in K!Methods["bilivideo"][op] : Todo(t)
       BY <1>4 DEF K!Methods, Asked
<1>11. ASSUME NEW op \in Asked PROVE \A t \in K!Methods["netease"][op] : Todo(t)
       BY <1>5 DEF K!Methods, Asked
<1>12. ASSUME NEW op \in Asked PROVE \A t \in K!Methods["qq"][op] : Todo(t)
       BY <1>6 DEF K!Methods, Asked
<1> QED BY NamesAre, <1>7, <1>8, <1>9, <1>10, <1>11, <1>12

LEMMA ListsAre ==
  ASSUME K!LookupAssumption
  PROVE  /\ \A p \in Lists : \A t \in K!Methods[p]["playlist"] : ListTodo(t)
         /\ Lists \subseteq K!Names
<1>1. \A n \in {8, 10} : ListTodo(<<K!Must(n)>>)
  <2>1. ASSUME NEW n \in {8, 10} PROVE ListTodo(<<K!Must(n)>>)
    <3>1. PICK a \in Req : a = K!Must(n) /\ a.kind = "must"
          BY ReqsAre
    <3>2. Len(<<a>>) = 1 /\ <<a>>[1] = a
          OBVIOUS
    <3>3. Todo(<<a>>)
          BY <3>1, TodosAre
    <3> QED BY <3>1, <3>2, <3>3 DEF ListTodo
  <2> QED BY <2>1
<1>2. \A t \in K!KugouList \cup K!QqList : ListTodo(t)
      BY <1>1 DEF K!KugouList, K!QqList
<1>3. ASSUME NEW t \in K!NeteaseList PROVE ListTodo(t)
  <2>1. PICK n \in 1..MaxChunks : t = <<K!Must(10)>> \o [i \in 1..n |-> K!Chunk]
        BY <1>3 DEF K!NeteaseList
  <2>2. n \in Nat \ {0}
        BY <2>1 DEF K!LookupAssumption
  <2>3. PICK a \in Req, b \in Req : a = K!Must(10) /\ a.kind = "must" /\ b = K!Chunk /\ b.kind = "chunk"
        BY ReqsAre
  <2>4. PICK r : r = [i \in 1..n |-> b]
        OBVIOUS
  <2>5. r \in Seq(Req) /\ Len(r) = n /\ \A i \in 1..n : r[i] = b
        BY <2>2, <2>3, <2>4
  <2>6. t = <<a>> \o r
        BY <2>1, <2>3, <2>4
  <2>7. <<a>> \in Seq(Req) /\ Len(<<a>>) = 1 /\ <<a>>[1] = a
        OBVIOUS
  <2>8. /\ t \in Seq(Req) /\ Len(t) = n + 1
        /\ \A i \in 1..n + 1 : t[i] = IF i <= 1 THEN <<a>>[i] ELSE r[i - 1]
        BY <2>2, <2>5, <2>6, <2>7
  <2>9. t # <<>>
    <3>1. Len(t) # 0
          BY <2>2, <2>8
    <3> QED BY <3>1
  <2>10. \A i \in 1..n + 1 : t[i].kind \in {"must", "chunk"}
    <3>1. ASSUME NEW i \in 1..n + 1 PROVE t[i].kind \in {"must", "chunk"}
      <4>1. CASE i = 1
            BY <2>3, <2>7, <2>8, <4>1
      <4>2. CASE i # 1
        <5>1. i - 1 \in 1..n /\ ~(i <= 1)
              BY <2>2, <4>2
        <5>2. t[i] = b
              BY <2>5, <2>8, <5>1
        <5> QED BY <2>3, <5>2
      <4> QED BY <4>1, <4>2
    <3> QED BY <3>1
  <2>11. n + 1 \in 1..n + 1
         BY <2>2
  <2> QED BY <2>8, <2>9, <2>10, <2>11 DEF ListTodo, Todo
<1>4. /\ K!Methods["kugou"]["playlist"] = K!KugouList /\ K!Methods["qq"]["playlist"] = K!QqList
      /\ K!Methods["netease"]["playlist"] = K!NeteaseList
      BY DEF K!Methods
<1> QED BY <1>2, <1>3, <1>4, NamesAre DEF Lists

LEMMA Joined == ASSUME NEW T, NEW a \in Seq(T), NEW b \in Seq(T) PROVE a \o b \in Seq(T)
OBVIOUS

LEMMA TakersAre == \A r, p : K!Takers(r, p) \in Seq(Lists)
<1>1. ASSUME NEW ps PROVE K!Order(ps) \in Seq(Lists)
  <2>1. PICK a, b, c : /\ a = IF "kugou" \in ps THEN <<"kugou">> ELSE <<>>
                       /\ b = IF "netease" \in ps THEN <<"netease">> ELSE <<>>
                       /\ c = IF "qq" \in ps THEN <<"qq">> ELSE <<>>
        OBVIOUS
  <2>2. a \in Seq(Lists) /\ b \in Seq(Lists) /\ c \in Seq(Lists)
    <3>1. <<>> \in Seq(Lists) /\ \A x \in Lists : <<x>> \in Seq(Lists)
          OBVIOUS
    <3>2. "kugou" \in Lists /\ "netease" \in Lists /\ "qq" \in Lists
          BY DEF Lists
    <3> QED BY <2>1, <3>1, <3>2
  <2>3. K!Order(ps) = (a \o b) \o c
        BY <2>1 DEF K!Order
  <2>4. a \o b \in Seq(Lists)
        BY <2>2, Joined
  <2> QED BY <2>2, <2>3, <2>4, Joined
<1>2. ASSUME NEW r, NEW p PROVE K!Takers(r, p) \in Seq(Lists)
  <2>1. PICK x, y : x \in Seq(Lists) /\ y \in Seq(Lists) /\ K!Takers(r, p) = x \o y
        BY <1>1 DEF K!Takers
  <2> QED BY <2>1, Joined
<1> QED BY <1>2

LEMMA MatchIs == \A k, s : K!Match(k, s) \in K!Names \cup {"none"} /\ K!Resolved(s) \in K!Names
<1>1. \A s : K!Resolved(s) \in K!Names
      BY NamesAre DEF K!Resolved
<1>2. ASSUME NEW T, T \subseteq 1..6, T # {}
      PROVE  (CHOOSE i \in T : \A j \in T : i <= j) \in 1..6
  <2>1. \E i \in T : \A j \in T : i <= j
    <3>1. \A i \in T : i = 1 \/ i = 2 \/ i = 3 \/ i = 4 \/ i = 5 \/ i = 6
          BY <1>2
    <3>2. CASE 1 \in T
          BY <3>1, <3>2
    <3>3. CASE 1 \notin T /\ 2 \in T
          BY <3>1, <3>3
    <3>4. CASE 1 \notin T /\ 2 \notin T /\ 3 \in T
          BY <3>1, <3>4
    <3>5. CASE 1 \notin T /\ 2 \notin T /\ 3 \notin T /\ 4 \in T
          BY <3>1, <3>5
    <3>6. CASE 1 \notin T /\ 2 \notin T /\ 3 \notin T /\ 4 \notin T /\ 5 \in T
          BY <3>1, <3>6
    <3>7. CASE 1 \notin T /\ 2 \notin T /\ 3 \notin T /\ 4 \notin T /\ 5 \notin T
      <4>1. \A i \in T : i = 6
            BY <3>1, <3>7
      <4>2. PICK i \in T : i = 6
            BY <1>2, <4>1
      <4> QED BY <4>1, <4>2
    <3> QED BY <3>2, <3>3, <3>4, <3>5, <3>6, <3>7
  <2> QED BY <1>2, <2>1
<1>3. ASSUME NEW k, NEW s PROVE K!Match(k, s) \in K!Names \cup {"none"}
  <2>1. PICK T : T = {i \in DOMAIN K!Registry : k \in K!IsSong[K!Registry[i]]}
        OBVIOUS
  <2>2. T \subseteq 1..6
        BY <2>1, NamesAre
  <2>3. T # {} => K!Registry[CHOOSE i \in T : \A j \in T : i <= j] \in K!Names
        BY <1>2, <2>2, NamesAre
  <2> QED BY <1>1, <2>1, <2>3 DEF K!Match
<1> QED BY <1>1, <1>3

-----------------------------------------------------------------------------
(* Look-ups: what the steps of a job make of it.                           *)

\* The next provider to ask is the first of left; all before it gave nothing.
Passed(j, n) ==
  /\ Len(j.left) = Len(j.all) - n /\ \A i \in 1..Len(j.left) : j.left[i] = j.all[n + i]
  /\ j.failed = {j.all[i] : i \in 1..n}

LEMMA NoReqs == <<>> \in Seq(Req) /\ Len(<<>>) = 0
OBVIOUS

LEMMA RestOfTodo ==
  ASSUME NEW t, Todo(t), Len(t) # 1
  PROVE  Todo(Tail(t)) /\ (ListTodo(t) => ListTodo(Tail(t)))
<1>1. t \in Seq(Req) /\ t # <<>> /\ t[Len(t)].kind # "key"
      BY DEF Todo
<1>2. PICK u \in Seq(Req) : /\ u = Tail(t) /\ Len(t) \in Nat \ {0} /\ Len(u) = Len(t) - 1
                            /\ \A i \in 1..Len(t) - 1 : u[i] = t[i + 1]
      BY <1>1, TailIs
<1>3. Len(u) # 0 /\ Len(u) \in 1..Len(t) - 1 /\ Len(u) + 1 = Len(t) /\ \A i \in 1..Len(u) : i + 1 \in 1..Len(t)
      BY <1>2
<1>4. u # <<>> /\ u[Len(u)] = t[Len(t)]
      BY <1>2, <1>3
<1>5. Todo(u)
      BY <1>1, <1>4 DEF Todo
<1>6. ASSUME ListTodo(t) PROVE ListTodo(u)
      BY <1>2, <1>3, <1>5, <1>6 DEF ListTodo
<1> QED BY <1>2, <1>5, <1>6

LEMMA KeyIsNotAll ==
  ASSUME NEW t, Todo(t), Head(t).kind = "key"
  PROVE  Len(t) # 1
<1>1. t \in Seq(Req) /\ t # <<>> /\ t[Len(t)].kind # "key"
      BY DEF Todo
<1>2. Head(t) = t[1]
      BY <1>1
<1> QED BY <1>1, <1>2

LEMMA EnteredIs ==
  ASSUME NEW j \in JobRec, key \in Nat, cached \in 0..key, j.sign <= key, NEW t, Todo(t), NEW e, e = K!Entered(j, t)
  PROVE  /\ e \in JobRec /\ e.sign <= key /\ Todo(e.todo) /\ e.at = j.at /\ e.op = j.op
         /\ ListTodo(t) => e = [j EXCEPT !.todo = t]
<1>1. t \in Seq(Req) /\ t # <<>> /\ cached \in Nat /\ 0 <= key /\ cached <= key
      BY DEF Todo
<1>2. CASE Head(t).kind = "key"
  <2>1. Todo(Tail(t))
        BY <1>2, KeyIsNotAll, RestOfTodo
  <2>2. ~ListTodo(t)
    <3>1. Head(t) = t[1] /\ 1 \in 1..Len(t)
          BY <1>1, TailIs
    <3> QED BY <1>2, <3>1 DEF ListTodo
  <2>3. e = [j EXCEPT !.todo = Tail(t), !.sign = cached] \/ e = [j EXCEPT !.todo = t, !.sign = 0]
        BY <1>1, <1>2 DEF K!Entered
  <2>4. Tail(t) \in Seq(Req)
        BY <2>1 DEF Todo
  <2>5. ASSUME NEW q \in Seq(Req), Todo(q), NEW n \in Nat, n <= key, e = [j EXCEPT !.todo = q, !.sign = n]
        PROVE  e \in JobRec /\ e.sign <= key /\ Todo(e.todo) /\ e.at = j.at /\ e.op = j.op
    <3>1. e.todo = q /\ e.sign = n
          BY <2>5 DEF JobRec
    <3> QED BY <2>5, <3>1 DEF JobRec
  <2> QED BY <1>1, <2>1, <2>2, <2>3, <2>4, <2>5
<1>3. CASE Head(t).kind # "key"
  <2>1. e = [j EXCEPT !.todo = t]
        BY <1>3 DEF K!Entered
  <2>2. e.todo = t /\ e.sign = j.sign
        BY <2>1 DEF JobRec
  <2> QED BY <1>1, <2>1, <2>2 DEF JobRec
<1> QED BY <1>2, <1>3

LEMMA NextListIs ==
  ASSUME NEW j \in JobRec, NEW most, j.sign <= most, j.op = "playlist", j.at = "runs",
         NEW n \in 0..Len(j.all), Passed(j, n), NEW e \in K!NextList(j), K!LookupAssumption
  PROVE  JobOK(e, most)
<1>0. PICK L \in Seq(Lists), A \in Seq(Lists) : L = j.left /\ A = j.all
      BY DEF JobRec
<1>1. Len(L) = Len(A) - n /\ (\A i \in 1..Len(L) : L[i] = A[n + i]) /\ j.failed = {A[i] : i \in 1..n} /\ Len(A) \in Nat
      /\ n \in Nat
      BY <1>0 DEF Passed
<1>2. CASE L = <<>>
  <2>1. Len(A) = n
        BY <1>1, <1>2
  <2>2. e = [j EXCEPT !.at = "none found", !.p = "none", !.todo = <<>>]
        BY <1>0, <1>2 DEF K!NextList
  <2>3. e.at = "none found" /\ e.todo = <<>> /\ e.failed = j.failed /\ e.all = A /\ e.sign = j.sign /\ e.op = "playlist"
        BY <1>0, <2>2 DEF JobRec
  <2>4. e \in JobRec
        BY <2>2, NoReqs DEF JobRec
  <2>5. AllFailed(e.all, e.failed)
        BY <1>1, <2>1, <2>3 DEF AllFailed
  <2>6. ListOK(e)
    <3>a. Len(e.todo) = 0
          BY <2>3, NoReqs
    <3>1. 1..Len(e.todo) = {}
          BY <3>a
    <3> QED BY <2>3, <2>5, <3>1 DEF ListOK
  <2> QED BY <2>3, <2>4, <2>6 DEF JobOK
<1>3. CASE L # <<>>
  <2>1. PICK t \in Seq(Lists) : /\ t = Tail(L) /\ Head(L) \in Lists /\ Head(L) = L[1] /\ Len(L) \in Nat \ {0}
                                /\ Len(t) = Len(L) - 1 /\ \A i \in 1..Len(L) - 1 : t[i] = L[i + 1]
        BY <1>3, TailIs
  <2>2. PICK q \in K!Methods[Head(L)]["playlist"] :
          e = [j EXCEPT !.p = Head(L), !.left = t, !.todo = q, !.gave = FALSE]
        BY <1>0, <1>3, <2>1 DEF K!NextList
  <2>3. ListTodo(q) /\ Head(L) \in K!Names
        BY <2>1, <2>2, ListsAre
  <2>4. Todo(q) /\ q \in Seq(Req) /\ q # <<>>
        BY <2>3 DEF ListTodo, Todo
  <2>5. /\ e.at = "runs" /\ e.todo = q /\ e.failed = j.failed /\ e.all = A /\ e.left = t /\ e.p = Head(L)
        /\ e.sign = j.sign /\ e.op = "playlist"
        BY <1>0, <2>2 DEF JobRec
  <2>6. e \in JobRec
        BY <2>1, <2>2, <2>3, <2>4 DEF JobRec
  <2>7. n + 1 \in 1..Len(A) /\ 1 \in 1..Len(L) /\ (n + 1) - 1 = n
        BY <1>1, <2>1
  <2>8. \A i \in 1..Len(t) : t[i] = A[(n + 1) + i]
    <3>1. ASSUME NEW i \in 1..Len(t) PROVE t[i] = A[(n + 1) + i]
      <4>1. i \in 1..Len(L) - 1 /\ i + 1 \in 1..Len(L) /\ n + (i + 1) = (n + 1) + i
            BY <1>1, <2>1
      <4>2. t[i] = L[i + 1]
            BY <2>1, <4>1
      <4>3. L[i + 1] = A[n + (i + 1)]
            BY <1>1, <4>1
      <4> QED BY <4>1, <4>2, <4>3
    <3> QED BY <3>1
  <2>9. Len(t) = Len(A) - (n + 1) /\ A[n + 1] = Head(L)
        BY <1>1, <2>1, <2>7
  <2>10. AtProvider(e, n + 1)
         BY <1>1, <2>5, <2>7, <2>8, <2>9 DEF AtProvider
  <2>11. \A i \in 1..Len(q) : q[i].kind \in {"must", "chunk"}
         BY <2>3 DEF ListTodo
  <2>12. ListOK(e)
         BY <2>5, <2>7, <2>10, <2>11 DEF ListOK
  <2> QED BY <2>4, <2>5, <2>6, <2>12 DEF JobOK
<1> QED BY <1>2, <1>3

LEMMA FailedIs ==
  ASSUME NEW j, NEW most, JobOK(j, most), j.at = "runs", NEW e \in K!Failed(j), K!LookupAssumption
  PROVE  JobOK(e, most)
<1>0. j \in JobRec /\ j.sign <= most
      BY DEF JobOK
<1>1. CASE j.op = "playlist"
  <2>1. PICK n \in 1..Len(j.all) : AtProvider(j, n)
        BY <1>1 DEF JobOK, ListOK
  <2>2. PICK x : x = [j EXCEPT !.failed = @ \cup {j.p}]
        OBVIOUS
  <2>a. PICK q \in Seq(Lists) : q = j.all
        BY <1>0 DEF JobRec
  <2>b. Len(q) \in Nat /\ q[n] \in Lists
        BY <2>1, <2>a
  <2>3. j.all \in Seq(Lists) /\ Len(j.all) \in Nat /\ j.p = j.all[n] /\ j.all[n] \in Lists
        BY <2>1, <2>a, <2>b DEF AtProvider
  <2>4. x \in JobRec
        BY <1>0, <2>2, <2>3, ListsAre DEF JobRec
  <2>5. /\ x.all = j.all /\ x.left = j.left /\ x.failed = j.failed \cup {j.p} /\ x.sign = j.sign
        /\ x.op = "playlist" /\ x.at = "runs"
        BY <1>0, <1>1, <2>2 DEF JobRec
  <2>6. \A i : i \in 1..n <=> i \in 1..(n - 1) \/ i = n
        BY <2>1, <2>3
  <2>7. x.failed = {x.all[i] : i \in 1..n}
        BY <2>1, <2>3, <2>5, <2>6 DEF AtProvider
  <2>8. Passed(x, n) /\ n \in 0..Len(x.all)
        BY <2>1, <2>3, <2>5, <2>7 DEF Passed, AtProvider
  <2>9. e \in K!NextList(x)
        BY <1>1, <2>2 DEF K!Failed
  <2> QED BY <1>0, <2>4, <2>5, <2>8, <2>9, NextListIs
<1>2. CASE j.op # "playlist"
  <2>1. e = [j EXCEPT !.at = "error", !.todo = <<>>]
        BY <1>2 DEF K!Failed
  <2>2. e \in JobRec /\ e.at = "error" /\ e.todo = <<>> /\ e.sign = j.sign /\ e.op = j.op
        BY <1>0, <2>1, NoReqs DEF JobRec
  <2> QED BY <1>0, <1>2, <2>2 DEF JobOK
<1> QED BY <1>1, <1>2

LEMMA DoneIs ==
  ASSUME NEW j, NEW most, JobOK(j, most), j.at = "runs", NEW e \in K!Done(j), K!LookupAssumption
  PROVE  JobOK(e, most)
<1>1. CASE j.op = "playlist" /\ ~j.gave
      BY <1>1, FailedIs DEF K!Done
<1>2. CASE ~(j.op = "playlist" /\ ~j.gave)
  <2>1. e = [j EXCEPT !.at = "found", !.todo = <<>>] /\ j \in JobRec /\ j.sign <= most
        BY <1>2 DEF K!Done, JobOK
  <2>2. e \in JobRec /\ e.at = "found" /\ e.todo = <<>> /\ e.sign = j.sign /\ e.op = j.op
        /\ e.all = j.all /\ e.left = j.left /\ e.failed = j.failed /\ e.p = j.p
        BY <2>1, NoReqs DEF JobRec
  <2>4. j.op = "playlist" => ListOK(e)
        BY <2>2, NoReqs DEF JobOK, ListOK, AtProvider
  <2> QED BY <2>1, <2>2, <2>4 DEF JobOK
<1> QED BY <1>1, <1>2

LEMMA ForwardIs ==
  ASSUME NEW j, key \in Nat, cached \in 0..key, JobOK(j, key), j.at = "runs", NEW e \in K!Forward(j), K!LookupAssumption
  PROVE  JobOK(e, key)
<1>0. j \in JobRec /\ j.sign <= key /\ Todo(j.todo) /\ j.todo \in Seq(Req)
      BY DEF JobOK, JobRec
<1>1. CASE Len(j.todo) = 1
      BY <1>1, DoneIs DEF K!Forward
<1>2. CASE Len(j.todo) # 1
  <2>1. e = K!Entered(j, Tail(j.todo)) /\ Todo(Tail(j.todo))
        BY <1>0, <1>2, RestOfTodo DEF K!Forward
  <2>2. /\ e \in JobRec /\ e.sign <= key /\ Todo(e.todo) /\ e.at = j.at /\ e.op = j.op
        /\ ListTodo(Tail(j.todo)) => e = [j EXCEPT !.todo = Tail(j.todo)]
        BY <1>0, <2>1, EnteredIs
  <2>3. ASSUME j.op = "playlist" PROVE ListOK(e)
    <3>1. ListTodo(Tail(j.todo))
          BY <1>0, <1>2, <2>3, RestOfTodo DEF JobOK, ListOK, ListTodo
    <3>2. e.todo = Tail(j.todo) /\ e.all = j.all /\ e.left = j.left /\ e.failed = j.failed /\ e.p = j.p
          BY <1>0, <2>2, <3>1 DEF JobRec
    <3>3. PICK n \in 1..Len(j.all) : AtProvider(j, n)
          BY <2>3 DEF JobOK, ListOK
    <3>4. n \in 1..Len(e.all) /\ AtProvider(e, n)
          BY <3>2, <3>3 DEF AtProvider
    <3>5. \A i \in 1..Len(e.todo) : e.todo[i].kind \in {"must", "chunk"}
          BY <3>1, <3>2 DEF ListTodo
    <3>6. e.at = "runs"
          BY <2>2
    <3> QED BY <3>4, <3>5, <3>6 DEF ListOK
  <2>4. e.todo # <<>>
        BY <2>2 DEF Todo
  <2> QED BY <2>2, <2>3, <2>4 DEF JobOK
<1> QED BY <1>1, <1>2

LEMMA SetsIs ==
  ASSUME LookupInv, NEW c \in Clients, NEW e, K!Sets(c, e), JobOK(e, key), UNCHANGED key,
         cached' \in 0..key, started' \in 0..MaxLookups
  PROVE  LookupInv'
<1>1. DOMAIN job' = Clients /\ job'[c] = e /\ (\A d \in Clients \ {c} : job'[d] = job[d]) /\ fed' \subseteq Clients
      BY DEF LookupInv, K!Sets
<1>2. \A d \in Clients : JobOK(job'[d], key)
      BY <1>1 DEF LookupInv
<1> QED BY <1>1, <1>2 DEF LookupInv

LEMMA AsksKeeps ==
  ASSUME LookupInv, K!LookupAssumption, NEW c \in Clients, NEW op \in Asked, NEW p \in K!Names,
         K!Starts(c), K!Asks(c, op, p), UNCHANGED <<cached, key>>
  PROVE  LookupInv'
<1>1. cached \in 0..key /\ key \in Nat /\ started' \in 0..MaxLookups
      BY DEF LookupInv, K!Starts, K!LookupAssumption
<1>2. PICK todo \in K!Methods[p][op] :
        K!Sets(c, K!Entered([K!NoJob EXCEPT !.at = "runs", !.op = op, !.p = p], todo))
      BY DEF K!Asks
<1>3. PICK j : j = [K!NoJob EXCEPT !.at = "runs", !.op = op, !.p = p]
      OBVIOUS
<1>4. j \in JobRec /\ j.at = "runs" /\ j.op = op /\ j.sign = 0
  <2>1. <<>> \in Seq(Lists)
        OBVIOUS
  <2>2. j = [at |-> "runs", op |-> op, p |-> p, todo |-> <<>>, left |-> <<>>, all |-> <<>>,
             failed |-> {}, sign |-> 0, gave |-> FALSE]
        BY <1>3 DEF K!NoJob
  <2> QED BY <2>1, <2>2, NoReqs DEF JobRec
<1>5. Todo(todo)
      BY MethodsAre
<1>6. PICK e : e = K!Entered(j, todo)
      OBVIOUS
<1>7. e \in JobRec /\ e.sign <= key /\ Todo(e.todo) /\ e.at = "runs" /\ e.op = op
  <2>1. j.sign <= key
        BY <1>1, <1>4
  <2> QED BY <1>1, <1>4, <1>5, <1>6, <2>1, EnteredIs
<1>8. JobOK(e, key)
      BY <1>7 DEF JobOK, Todo, Asked
<1> QED BY <1>1, <1>2, <1>3, <1>6, <1>8, SetsIs

LEMMA PlaylistKeeps ==
  ASSUME LookupInv, K!LookupAssumption, NEW c \in Clients, NEW r, NEW s, K!Playlist(c, r, s)
  PROVE  LookupInv'
<1>1. cached \in 0..key /\ key \in Nat /\ started' \in 0..MaxLookups /\ UNCHANGED <<cached, key>>
      BY DEF LookupInv, K!Starts, K!LookupAssumption, K!Playlist
<1>2. PICK ps \in Seq(Lists) : ps = K!Takers(r, s)
      BY TakersAre
<1>3. PICK j : j = [K!NoJob EXCEPT !.at = "runs", !.op = "playlist", !.left = ps, !.all = ps]
      OBVIOUS
<1>4. PICK e \in K!NextList(j) : K!Sets(c, e)
      BY <1>2, <1>3 DEF K!Playlist
<1>5. j = [at |-> "runs", op |-> "playlist", p |-> "none", todo |-> <<>>, left |-> ps, all |-> ps,
           failed |-> {}, sign |-> 0, gave |-> FALSE]
      BY <1>3 DEF K!NoJob
<1>6. j \in JobRec /\ j.at = "runs" /\ j.op = "playlist" /\ j.sign = 0 /\ j.left = ps /\ j.all = ps /\ j.failed = {}
      BY <1>5, NoReqs DEF JobRec
<1>7. Passed(j, 0) /\ 0 \in 0..Len(j.all)
      BY <1>6 DEF Passed
<1>8. JobOK(e, key)
      BY <1>1, <1>4, <1>6, <1>7, NextListIs
<1> QED BY <1>1, <1>4, <1>8, SetsIs

\* A key that is given or taken, and whether a list has had songs, change
\* nothing in what is still to be asked of whom.
LEMMA Altered ==
  ASSUME NEW j, NEW most, JobOK(j, most), NEW g \in BOOLEAN, NEW n \in Nat, n <= most,
         NEW e, e = [j EXCEPT !.gave = g] \/ e = [j EXCEPT !.sign = n]
  PROVE  JobOK(e, most) /\ e.at = j.at
<1>1. j \in JobRec /\ j.sign <= most
      BY DEF JobOK
<1>2. /\ e \in JobRec /\ e.at = j.at /\ e.op = j.op /\ e.p = j.p /\ e.todo = j.todo /\ e.left = j.left
      /\ e.all = j.all /\ e.failed = j.failed /\ e.sign \in {j.sign, n}
      BY <1>1 DEF JobRec
<1>3. ASSUME ListOK(j) PROVE ListOK(e)
  <2>1. \A i : AtProvider(j, i) => AtProvider(e, i)
        BY <1>2 DEF AtProvider
  <2>2. j.at \in {"runs", "found"} => \E i \in 1..Len(e.all) : AtProvider(e, i)
        BY <1>2, <1>3, <2>1 DEF ListOK
  <2>3. e.at \in {"runs", "found", "none found"} /\ \A i \in 1..Len(e.todo) : e.todo[i].kind \in {"must", "chunk"}
        BY <1>2, <1>3 DEF ListOK
  <2>4. e.at = "none found" => AllFailed(e.all, e.failed)
        BY <1>2, <1>3 DEF ListOK
  <2>5. e.at \in {"runs", "found"} => \E i \in 1..Len(e.all) : AtProvider(e, i)
        BY <1>2, <2>2
  <2> QED BY <2>3, <2>4, <2>5 DEF ListOK
<1> QED BY <1>1, <1>2, <1>3 DEF JobOK

LEMMA LookupStep ==
  ASSUME LookupInv, K!LookupAssumption, K!Next \/ UNCHANGED lookup
  PROVE  LookupInv'
<1>0. /\ cached \in 0..key /\ key \in Nat /\ key \in 1..MaxKeys /\ MaxKeys \in Nat /\ started \in 0..MaxLookups
      /\ \A c \in Clients : JobOK(job[c], key)
      BY DEF LookupInv, K!LookupAssumption
<1>1. CASE UNCHANGED lookup
      BY <1>1 DEF lookup, LookupInv
<1>2. CASE K!Expires
      BY <1>0, <1>2 DEF K!Expires, LookupInv
<1>3. CASE K!Rotates
  <2>1. UNCHANGED <<job, cached, started, fed>> /\ key' = key + 1 /\ key' \in 1..MaxKeys /\ cached' \in 0..key'
        BY <1>0, <1>3 DEF K!Rotates
  <2>2. \A c \in Clients : JobOK(job[c], key')
    <3>1. ASSUME NEW c \in Clients PROVE JobOK(job[c], key')
      <4>1. job[c].sign \in Nat /\ job[c].sign <= key
            BY <1>0 DEF JobOK, JobRec
      <4>2. job[c].sign <= key'
            BY <1>0, <2>1, <4>1
      <4> QED BY <1>0, <4>2 DEF JobOK
    <3> QED BY <3>1
  <2> QED BY <2>1, <2>2 DEF LookupInv
\* A job that runs has something to ask.
<1>4. ASSUME NEW c \in Clients, K!Running(c)
      PROVE  /\ job[c].at = "runs" /\ Todo(job[c].todo) /\ JobOK(job[c], key) /\ job[c] \in JobRec
             /\ job[c].todo \in Seq(Req) /\ Head(job[c].todo) = job[c].todo[1] /\ 1 \in 1..Len(job[c].todo)
  <2>1. job[c].at = "runs" /\ JobOK(job[c], key) /\ Todo(job[c].todo) /\ job[c] \in JobRec
        BY <1>0, <1>4 DEF K!Running, JobOK
  <2>2. job[c].todo \in Seq(Req) /\ job[c].todo # <<>>
        BY <2>1 DEF Todo
  <2>3. PICK q \in Seq(Req) : q = job[c].todo /\ q # <<>>
        BY <2>2
  <2>4. Head(q) = q[1] /\ 1 \in 1..Len(q)
        BY <2>3, TailIs
  <2> QED BY <2>1, <2>2, <2>3, <2>4
<1>5. ASSUME NEW c \in Clients, NEW e, K!Sets(c, e), JobOK(e, key), UNCHANGED <<key, started>>, cached' \in 0..key
      PROVE  LookupInv'
      BY <1>0, <1>5, SetsIs
<1>6. ASSUME NEW c \in Clients, K!KeyGiven(c) PROVE LookupInv'
  <2>1. K!Running(c) /\ K!Sets(c, [job[c] EXCEPT !.sign = key]) /\ UNCHANGED <<cached, key, started>>
        BY <1>6 DEF K!KeyGiven
  <2>2. JobOK([job[c] EXCEPT !.sign = key], key)
    <3>1. PICK e : e = [job[c] EXCEPT !.sign = key] /\ TRUE \in BOOLEAN
          OBVIOUS
    <3>2. key \in Nat /\ key <= key
          BY <1>0
    <3> QED BY <1>0, <3>1, <3>2, Altered
  <2> QED BY <1>0, <1>5, <2>1, <2>2
<1>7. ASSUME NEW c \in Clients, K!KeyTaken(c) PROVE LookupInv'
  <2>1. /\ K!Running(c) /\ K!Sets(c, [job[c] EXCEPT !.todo = Tail(@)]) /\ UNCHANGED <<key, started>>
        /\ cached' = job[c].sign /\ Head(job[c].todo).kind = "key"
        BY <1>7 DEF K!KeyTaken, K!Request
  <2>2. PICK j : j = job[c] /\ j.at = "runs" /\ Todo(j.todo) /\ JobOK(j, key) /\ j \in JobRec /\ Head(j.todo).kind = "key"
                 /\ Head(j.todo) = j.todo[1] /\ 1 \in 1..Len(j.todo)
        BY <1>4, <2>1
  <2>3. Todo(Tail(j.todo))
        BY <2>2, KeyIsNotAll, RestOfTodo
  <2>4. j.op # "playlist"
        BY <2>2 DEF JobOK, ListOK
  <2>5. PICK e : e = [j EXCEPT !.todo = Tail(@)]
        OBVIOUS
  <2>6. Tail(j.todo) \in Seq(Req) /\ Tail(j.todo) # <<>>
        BY <2>3 DEF Todo
  <2>7. e \in JobRec /\ e.at = "runs" /\ e.op = j.op /\ e.todo = Tail(j.todo) /\ e.sign = j.sign
        BY <2>2, <2>5, <2>6 DEF JobRec
  <2>8. JobOK(e, key)
        BY <2>2, <2>3, <2>4, <2>6, <2>7 DEF JobOK
  <2>9. cached' \in 0..key
    <3>1. j.sign \in Nat /\ j.sign <= key
          BY <2>2 DEF JobOK, JobRec
    <3> QED BY <1>0, <2>1, <2>2, <3>1
  <2> QED BY <1>5, <2>1, <2>2, <2>5, <2>8, <2>9
<1>8. ASSUME NEW c \in Clients, K!Answered(c) PROVE LookupInv'
  <2>1. PICK g \in BOOLEAN : g = (job[c].gave \/ K!Request(c) = "chunk" \/ job[c].p # "netease")
        OBVIOUS
  <2>2. PICK j : j = [job[c] EXCEPT !.gave = g]
        OBVIOUS
  <2>3. K!Running(c) /\ K!Becomes(c, K!Forward(j)) /\ UNCHANGED <<cached, key, started>>
        BY <1>8, <2>1, <2>2 DEF K!Answered
  <2>4. JobOK(j, key) /\ j.at = "runs"
        BY <1>0, <1>4, <2>2, <2>3, Altered
  <2>5. PICK e \in K!Forward(j) : K!Sets(c, e)
        BY <2>3 DEF K!Becomes
  <2>6. JobOK(e, key)
        BY <1>0, <2>4, <2>5, ForwardIs
  <2> QED BY <1>0, <1>5, <2>3, <2>5, <2>6
<1>9. ASSUME NEW c \in Clients, K!Fails(c) \/ K!TimesOut(c) PROVE LookupInv'
  <2>1. K!Running(c) /\ UNCHANGED <<cached, key, started>> /\ \E e \in K!Failed(job[c]) : K!Sets(c, e)
        BY <1>9 DEF K!Fails, K!TimesOut, K!Becomes
  <2>2. PICK e \in K!Failed(job[c]) : K!Sets(c, e)
        BY <2>1
  <2>3. JobOK(e, key)
        BY <1>4, <2>1, <2>2, FailedIs
  <2> QED BY <1>0, <1>5, <2>1, <2>2, <2>3
<1>10. ASSUME NEW c \in Clients, K!Drips(c) \/ K!Silent(c) PROVE LookupInv'
       BY <1>10 DEF K!Drips, K!Silent, LookupInv
<1>11. ASSUME NEW c \in Clients, K!Empty(c) PROVE LookupInv'
  <2>1. K!Running(c) /\ UNCHANGED <<cached, key, started>>
        BY <1>11 DEF K!Empty
  <2>2. PICK j : j = job[c] /\ j.at = "runs" /\ Todo(j.todo) /\ JobOK(j, key) /\ j \in JobRec
                 /\ Head(j.todo) = j.todo[1] /\ 1 \in 1..Len(j.todo)
        BY <1>4, <2>1
  <2>3. PICK e : K!Sets(c, e) /\ (\/ Head(j.todo).kind \in {"may", "signed may"} /\ e = [j EXCEPT !.at = "none found", !.todo = <<>>]
                                  \/ e \in K!Forward(j) \/ e \in K!Failed(j))
        BY <1>11, <2>2 DEF K!Empty, K!Becomes, K!Request
  <2>4. CASE e \in K!Forward(j)
        BY <1>0, <1>5, <2>1, <2>2, <2>3, <2>4, ForwardIs
  <2>5. CASE e \in K!Failed(j)
        BY <1>0, <1>5, <2>1, <2>2, <2>3, <2>5, FailedIs
  <2>6. CASE Head(j.todo).kind \in {"may", "signed may"} /\ e = [j EXCEPT !.at = "none found", !.todo = <<>>]
    <3>1. j.op # "playlist"
          BY <2>2, <2>6 DEF JobOK, ListOK
    <3>2. e \in JobRec /\ e.at = "none found" /\ e.op = j.op /\ e.todo = <<>> /\ e.sign = j.sign
          BY <2>2, <2>6, NoReqs DEF JobRec
    <3>3. JobOK(e, key)
          BY <2>2, <3>1, <3>2 DEF JobOK
    <3> QED BY <1>0, <1>5, <2>1, <2>3, <3>3
  <2> QED BY <2>3, <2>4, <2>5, <2>6
<1>12. ASSUME NEW c \in Clients, NEW op \in Asked, NEW s, K!Ask(c, op, s) PROVE LookupInv'
       BY <1>12, MatchIs, AsksKeeps DEF K!Ask
<1>13. ASSUME NEW c \in Clients, NEW k, NEW s, K!Resolve(c, k, s) PROVE LookupInv'
  <2>1. "info" \in Asked /\ "search" \in Asked
        BY DEF Asked
  <2>2. PICK op \in Asked, p \in K!Names : K!Starts(c) /\ K!Asks(c, op, p) /\ UNCHANGED <<cached, key>>
        BY <1>13, <2>1, MatchIs DEF K!Resolve
  <2> QED BY <2>2, AsksKeeps
<1>14. ASSUME NEW c \in Clients, NEW r, NEW s, K!Playlist(c, r, s) PROVE LookupInv'
       BY <1>14, PlaylistKeeps
<1>15. Asked = {"search", "info", "url", "lyric"}
       BY DEF Asked
<1> QED BY <1>1, <1>2, <1>3, <1>6, <1>7, <1>8, <1>9, <1>10, <1>11, <1>12, <1>13, <1>14, <1>15 DEF K!Next

LEMMA LookupBegins ==
  ASSUME K!Init, K!LookupAssumption
  PROVE  LookupInv
<1>1. K!NoJob \in JobRec /\ K!NoJob.at = "none" /\ K!NoJob.todo = <<>> /\ K!NoJob.sign = 0 /\ K!NoJob.op = "none"
  <2>1. <<>> \in Seq(Lists)
        OBVIOUS
  <2> QED BY <2>1, NoReqs DEF K!NoJob, JobRec
<1>2. JobOK(K!NoJob, 1)
      BY <1>1 DEF JobOK
<1> QED BY <1>2 DEF K!Init, LookupInv, K!LookupAssumption

LEMMA LookupIsRight ==
  ASSUME LookupInv, K!LookupAssumption
  PROVE  K!TypeOK /\ K!FirstThatWorks
<1>0. /\ cached \in 0..key /\ key \in 1..MaxKeys /\ MaxKeys \in Nat /\ started \in 0..MaxLookups
      /\ fed \subseteq Clients /\ \A c \in Clients : JobOK(job[c], key)
      BY DEF LookupInv, K!LookupAssumption
<1>1. ASSUME NEW c \in Clients
      PROVE  /\ job[c].at \in {"none", "runs", "found", "none found", "error"}
             /\ job[c].p \in K!Names \cup {"none"} /\ job[c].sign \in 0..MaxKeys /\ job[c].failed \subseteq K!Names
             /\ K!Running(c) <=> job[c].todo # <<>>
  <2>1. job[c] \in JobRec /\ job[c].sign <= key
        BY <1>0 DEF JobOK
  <2>2. job[c].sign \in 0..MaxKeys
    <3>1. job[c].sign \in Nat
          BY <2>1 DEF JobRec
    <3> QED BY <1>0, <2>1, <3>1
  <2> QED BY <1>0, <2>1, <2>2 DEF JobOK, JobRec, K!Running
<1>2. ASSUME NEW c \in Clients, job[c].op = "playlist"
      PROVE  /\ job[c].at # "error"
             /\ job[c].at = "none found" => job[c].failed = {job[c].all[i] : i \in DOMAIN job[c].all}
             /\ job[c].at = "found" =>
                  \E n \in DOMAIN job[c].all :
                    job[c].all[n] = job[c].p /\ job[c].failed = {job[c].all[i] : i \in 1..(n - 1)}
  <2>1. ListOK(job[c]) /\ job[c] \in JobRec
        BY <1>0, <1>2 DEF JobOK
  <2>2. DOMAIN job[c].all = 1..Len(job[c].all)
    <3>1. PICK q \in Seq(Lists) : q = job[c].all
          BY <2>1 DEF JobRec
    <3>2. DOMAIN q = 1..Len(q)
          OBVIOUS
    <3> QED BY <3>1, <3>2
  <2> QED BY <2>1, <2>2 DEF ListOK, AtProvider, AllFailed
<1>3. K!TypeOK
      BY <1>0, <1>1 DEF K!TypeOK
<1>4. K!FirstThatWorks
      BY <1>2 DEF K!FirstThatWorks
<1> QED BY <1>3, <1>4

\* The inductive invariant of the look-ups, in the behaviours that are their own.
THEOREM LookupInvariance == PartsSpec => [](part = "lookup" => LookupInv)
<1>1. PartsInit => (part = "lookup" => LookupInv)
      BY LookupBegins, PartsAssumption DEF PartsInit
<1>2. (part = "lookup" => LookupInv) /\ [PartsNext]_<<part, vars, stage, lookup>> => (part = "lookup" => LookupInv)'
  <2> SUFFICES ASSUME part = "lookup" => LookupInv, [PartsNext]_<<part, vars, stage, lookup>>, part' = "lookup"
               PROVE  LookupInv'
      OBVIOUS
  <2>1. part = "lookup" /\ (K!Next \/ UNCHANGED lookup)
        BY DEF PartsNext
  <2> QED BY <2>1, LookupStep, PartsAssumption
<1> QED BY <1>1, <1>2, PTL DEF PartsSpec

\* Whatever the services answer, refuse or leave unanswered, a play list is that
\* of the first provider in the caller's order that has one, and there is none
\* only if all that know the reference have been asked (playlist() of
\* music/registry.ts); a look-up runs as long as it has something to ask.
THEOREM LookupCorrect == PartsSpec => []FirstThatWorks
<1>1. (part = "lookup" => LookupInv) => FirstThatWorks
      BY LookupIsRight, PartsAssumption DEF FirstThatWorks
<1> QED BY <1>1, LookupInvariance, PTL

=============================================================================
