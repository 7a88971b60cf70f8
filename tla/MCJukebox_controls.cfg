SPECIFICATION Spec
CONSTANTS
  Songs = {s1, s2}
  Users = {u1}
  Clients = {c1, c2}
  MaxPerUser = 2
  MaxQueueSize = 2
  MaxRetries = 1
  IdleRefs = TRUE
  Ops <- ControlOps
  Faults <- ControlFaults
  MaxItems = 2
  MaxGen = 0
  MaxCrashes = 0
  MaxWire = 1
SYMMETRY Symmetry
INVARIANTS ControlsSafe
PROPERTY ChimeIsNoSong
CHECK_DEADLOCK FALSE
