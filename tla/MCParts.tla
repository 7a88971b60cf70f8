------------------------------ MODULE MCParts ------------------------------
(***************************************************************************)
(* The parts of the service that share no state with one another, checked  *)
(* in one run: what it says (Brain), the stage (Stage) and the look-ups    *)
(* (Lookup).  A behaviour is one of one of them.                           *)
(***************************************************************************)
EXTENDS Brain, TLC

CONSTANTS
  MaxEdits, MaxPushes,                     \* see Stage
  Clients, MaxLookups, MaxKeys, MaxChunks  \* see Lookup

VARIABLES
  part,
  config, disk, persist, last, chain, pushes, link, wire, late, back, shown, edits, starts, overlap,
  job, cached, key, started, fed

stage  == <<config, disk, persist, last, chain, pushes, link, wire, late, back, shown, edits, starts, overlap>>
lookup == <<job, cached, key, started, fed>>

ModelAnswers == {<<>>, <<"tts", "danmaku">>, <<"ability", "silent">>}

S == INSTANCE Stage
K == INSTANCE Lookup

\* What each of the parts asks of the values given to it.
ASSUME PartsAssumption == S!StageAssumption /\ K!LookupAssumption

-----------------------------------------------------------------------------
PartsInit == part \in {"brain", "stage", "lookup"} /\ Init /\ S!Init /\ K!Init

PartsNext ==
  /\ UNCHANGED part
  /\ \/ part = "brain" /\ Next /\ UNCHANGED <<stage, lookup>>
     \/ part = "stage" /\ S!Next /\ UNCHANGED <<vars, lookup>>
     \/ part = "lookup" /\ K!Next /\ UNCHANGED <<vars, stage>>

PartsSpec == PartsInit /\ [][PartsNext]_<<part, vars, stage, lookup>>

-----------------------------------------------------------------------------
(* Properties.                                                             *)

\* Brain, which is BrainSafe: every request is dealt with.
AllAnswered == Fairness => Answered

\* Stage: the file is the configuration, and the executor shows it.
Shown == part = "stage" => S!TypeOK /\ S!Saved /\ S!Shown
\* The chain of jobs moves on whatever becomes of one.
Applies == S!Fairness => S!Applies

\* Lookup: a play list is that of the first service that gives one.
FirstThatWorks == part = "lookup" => K!TypeOK /\ K!FirstThatWorks
\* Every look-up ends, unless kuwo drips for ever.
LookupsEnd == K!Fairness => K!LookupsEnd
=============================================================================
