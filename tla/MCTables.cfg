SPECIFICATION TablesSpec
CONSTANTS
  Names = {n1, n2}
  Http = {h}
  Stdio = {s}
  MaxEdits = 2
  MaxChanges = 1
  MaxFails = 1
  Callers = {c1, c2}
  MaxCodes = 2
  MaxOps = 4
  Users = {u1, u2}
  Givers = {u1}
  MaxHistory = 2
  MaxViewers = 1
  FeedLines = 1
  Pool = 2
  OldRecords = {r}
  MaxEvents = 3
  MaxDays = 2
  MaxCrashes = 1
  MaxSwitches = 1
  MaxRefused = 1
SYMMETRY Symmetry
INVARIANTS Tools Applied Fresh Sessions Remembered
CHECK_DEADLOCK FALSE
