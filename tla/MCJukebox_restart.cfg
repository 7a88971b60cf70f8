SPECIFICATION Spec
CONSTANTS
  Songs = {s1, s2}
  Users = {u1}
  Clients = {c1}
  MaxPerUser = 3
  MaxQueueSize = 3
  MaxRetries = 1
  IdleRefs = FALSE
  Ops <- RestartOps
  Faults = {}
  MaxItems = 2
  MaxGen = 1
  MaxCrashes = 0
  MaxWire = 2
INVARIANT NoStall
CHECK_DEADLOCK FALSE
