SPECIFICATION Spec
CONSTANTS
  Songs = {s1, s2, s3}
  Users = {u1}
  Clients = {c1, c2}
  MaxPerUser = 1
  MaxQueueSize = 2
  MaxRetries = 1
  IdleRefs = FALSE
  Ops <- CoreOps
  Faults <- CoreFaults
  MaxItems = 3
  MaxGen = 1
  MaxCrashes = 0
  MaxWire = 2
SYMMETRY Symmetry
INVARIANTS ControlsSafe StaleAdvanceIsSilent SkipIsKept QuotaHolds ExecutorAgrees
PROPERTIES SkipIsServed ImplementsSongPlayer
CHECK_DEADLOCK FALSE
