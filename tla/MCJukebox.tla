----------------------------- MODULE MCJukebox -----------------------------
(* Values for the runs of Jukebox. *)
EXTENDS Jukebox, TLC

CoreOps   == {"start", "stop", "restart", "add", "skip", "playNow", "previous", "pause"}
CoreFaults == {"urlFails", "lookupFails"}

FaultOps    == {"start", "add", "skip"}
FaultFaults == {"urlFails", "playFails", "timeout", "crash", "drop", "lateExecutor"}

ControlOps    == {"start", "add", "edit", "pause", "seek", "chime"}
ControlFaults == {"playFails", "idleFails", "undecodable"}

RestartOps == {"start", "restart", "add"}

\* Songs are alike, and so are callers.
Symmetry == Permutations(Songs) \cup Permutations(Clients)
=============================================================================
