------------------------------- MODULE MCTts -------------------------------
(* Values for the runs of Tts. *)
EXTENDS Tts

Failures == {"synthFails", "playFails", "undecodable", "crash", "drop"}
=============================================================================
