------------------------------ MODULE Channel ------------------------------
(***************************************************************************)
(* What the plugin's link promises the room: a channel that holds a few    *)
(* events, hands each over at most once and in their order, and loses one  *)
(* only when it is full or something has failed.  Link implements it.      *)
(***************************************************************************)
EXTENDS Naturals, Sequences, FiniteSets

CONSTANTS
  MaxEvents,  \* bound on the events
  Holds       \* how many it holds whatever happens

VARIABLES
  made,       \* events put so far, numbered
  inside,     \* the events in the channel
  got,        \* the events taken out, in order
  faulty,     \* something has failed
  stopped     \* an operator has stopped one of the ends

vars == <<made, inside, got, faulty, stopped>>

Init == made = 0 /\ inside = {} /\ got = <<>> /\ faulty = FALSE /\ stopped = FALSE

Put ==
  /\ made < MaxEvents /\ made' = made + 1
  /\ \/ inside' = inside \cup {made + 1}
     \/ (faulty \/ Cardinality(inside) >= Holds) /\ inside' = inside
  /\ UNCHANGED <<got, faulty, stopped>>

\* The oldest first, as long as no one has stopped it.
Get(e) ==
  /\ e \in inside /\ inside' = inside \ {e}
  /\ ~stopped => \A x \in inside : e <= x
  /\ got' = Append(got, e)
  /\ UNCHANGED <<made, faulty, stopped>>

Fails ==
  /\ faulty' = TRUE /\ stopped' \in {stopped, TRUE}
  /\ inside' \subseteq inside
  /\ UNCHANGED <<made, got>>

Next == Put \/ Fails \/ \E e \in inside : Get(e)

Spec == Init /\ [][Next]_vars
=============================================================================
