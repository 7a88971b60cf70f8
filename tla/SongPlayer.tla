----------------------------- MODULE SongPlayer -----------------------------
(***************************************************************************)
(* What the song-request machine promises the room, without its calls to   *)
(* the providers and to the executor: who asks for a song gets a numbered  *)
(* entry; entries wait in line, and only the operator changes the line;    *)
(* the first one leaves it to come up, and what comes up goes on or is     *)
(* dropped; what is on may be noted in the history, which then has exactly *)
(* one entry open.  Jukebox implements it.                                 *)
(***************************************************************************)
EXTENDS Naturals, Sequences, SequencesExt

CONSTANTS
  Songs,
  Callers,    \* who may ask for a song
  House       \* on whose behalf a song is played when no one asks

VARIABLES
  made,       \* the number of the last entry
  waiting,    \* the entries in line
  coming,     \* the entry whose song is being fetched
  on,         \* the entry whose song plays
  noted       \* the number of the entry open in the history

Entry(n, s, who) == [id |-> n, song |-> s, by |-> who]
None == [id |-> 0, song |-> "none", by |-> "none"]

Init == made = 0 /\ waiting = <<>> /\ coming = None /\ on = None /\ noted = 0

\* With the line q, either nothing comes up or the first entry of q does.
Proceeds(q) ==
  \/ coming' = None /\ waiting' = q
  \/ q # <<>> /\ coming' = Head(q) /\ waiting' = Tail(q)

\* A new entry waits behind the others, or, on the operator's word, before
\* them; it comes up at once where nothing else does.
Order ==
  /\ made' = made + 1
  /\ \E s \in Songs, who \in Callers :
       \E q \in {Append(waiting, Entry(made + 1, s, who)), <<Entry(made + 1, s, who)>> \o waiting} :
         \/ waiting' = q /\ UNCHANGED <<coming, noted>>
         \/ coming = None /\ coming' = Head(q) /\ waiting' = Tail(q) /\ noted' = 0
  /\ UNCHANGED on

\* A song no one asked for: it never waits.
Fill ==
  /\ coming = None
  /\ made' = made + 1
  /\ \E s \in Songs : coming' = Entry(made + 1, s, House)
  /\ UNCHANGED <<waiting, on, noted>>

\* The operator takes an entry out, moves one to the front, or clears the line.
Edit ==
  /\ \/ waiting' = <<>>
     \/ \E k \in DOMAIN waiting :
          waiting' \in {RemoveAt(waiting, k), <<waiting[k]>> \o RemoveAt(waiting, k)}
  /\ UNCHANGED <<made, coming, on, noted>>

\* The next entry comes up; what is on is no longer the one of the history.
Advance ==
  /\ coming = None /\ Proceeds(waiting) /\ noted' = 0
  /\ UNCHANGED <<made, on>>

PutOn ==
  /\ coming # None /\ noted = 0
  /\ on' = coming /\ coming' = None
  /\ UNCHANGED <<made, waiting, noted>>

Note ==
  /\ on # None /\ noted = 0 /\ noted' = on.id
  /\ UNCHANGED <<made, waiting, coming, on>>

\* Silence: what is on and what comes up are dropped, the line perhaps too;
\* the next entry may come up at once.
Stop ==
  /\ on' = None /\ noted' = 0
  /\ \E q \in {waiting, <<>>} : Proceeds(q)
  /\ UNCHANGED made

\* What is on starts again, before all that waits.
Again ==
  /\ on # None /\ coming = None
  /\ coming' = on /\ on' = None /\ noted' = 0
  /\ UNCHANGED <<made, waiting>>

Next == Order \/ Fill \/ Edit \/ Advance \/ PutOn \/ Note \/ Stop \/ Again

Spec == Init /\ [][Next]_<<made, waiting, coming, on, noted>>
=============================================================================
