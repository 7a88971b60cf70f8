SPECIFICATION FairSpec
CONSTANTS
  Songs = {s1, s2}
  Users = {u1}
  Clients = {c1}
  MaxPerUser = 2
  MaxQueueSize = 2
  MaxRetries = 1
  IdleRefs = FALSE
  Ops <- FaultOps
  Faults <- FaultFaults
  MaxItems = 3
  MaxGen = 0
  MaxCrashes = 1
  MaxWire = 2
INVARIANTS FaultsSafe
PROPERTIES QueueDrains ImplementsSongPlayer
CHECK_DEADLOCK FALSE
