------------------------------ MODULE MCWires ------------------------------
(***************************************************************************)
(* The two ends of the backend's connections, checked in one run: the      *)
(* client of an executor (Executor) and the server of the pages (Hub).     *)
(* They share no state: a behaviour is one of one of them.                 *)
(***************************************************************************)
EXTENDS Executor

CONSTANTS
  k1, k2, k3,           \* sockets of Executor
  Pages, Others, Calls  \* see Hub

VARIABLES
  part,
  net, peers, byKind, alive, inbox, serving, outbox,
  cur, left, declaring, declared, connected, timer, call, up

hub == <<net, peers, byKind, alive, inbox, serving, outbox,
         cur, left, declaring, declared, connected, timer, call, up>>

H == INSTANCE Hub

\* What Hub asks of these values.
ASSUME WiresAssumption == H!HubAssumption

WiresInit == part \in {"executor", "hub"} /\ Init /\ H!Init

WiresNext ==
  /\ UNCHANGED part
  /\ \/ part = "executor" /\ Next /\ UNCHANGED hub
     \/ part = "hub" /\ H!Next /\ UNCHANGED vars

WiresSpec == WiresInit /\ [][WiresNext]_<<part, vars, hub>>

\* Executor, which is ExecutorSafe: it finds an executor that is there, and a
\* start ends.
ExecutorFound == Fairness => Recovers

\* Hub: a connection is under the kind it declared.
HubSafe == part = "hub" => H!TypeOK /\ H!OneKind
\* A dead connection leaves the tables.
DeadOnesLeave == H!Fairness => H!DeadOnesLeave
=============================================================================
