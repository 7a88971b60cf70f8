SPECIFICATION PartsSpec
CONSTANTS
  Answers <- ModelAnswers
  MaxRounds = 2
  Rate = 1
  Window = 2
  MemorySize = 1
  MaxRequests = 2
  MaxOthers = 2
  MaxTime = 2
  MaxEdits = 2
  MaxPushes = 2
  Clients = {c1, c2}
  MaxLookups = 2
  MaxKeys = 2
  MaxChunks = 2
INVARIANTS BrainSafe FirstThatWorks Shown
PROPERTIES AllAnswered LookupsEnd Applies
CHECK_DEADLOCK FALSE
