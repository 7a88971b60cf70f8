SPECIFICATION FairSpec
CONSTANTS
  Faults <- Failures
  MaxParts = 2
  MaxSaid = 3
  MaxStops = 1
  MaxMishaps = 1
INVARIANTS Safe StopSilences
PROPERTIES InOrder SpeechDrains
CHECK_DEADLOCK FALSE
