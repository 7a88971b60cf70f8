SPECIFICATION FairSpec
CONSTANTS
  c1 = c1
  r1 = r1
  r2 = r2
  r3 = r3
  Commands = {c1}
  Rules = {r1, r2, r3}
  Action <- Actions
  Cooldown <- Cooldowns
  Kinds <- AllKinds
  Quiet = 2
  MaxWait = 3
  Span = 2
  Density = 3
  MaxBatch = 4
  Faults <- AllFaults
  MaxEvents = 4
  MaxLag = 1
  MaxAge = 2
  MaxToggles = 1
  OldAge = 4
INVARIANTS Safe FiredInTime
PROPERTIES UrgentFirst EventuallyDealtWith
CHECK_DEADLOCK FALSE
