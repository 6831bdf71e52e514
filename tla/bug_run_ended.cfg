SPECIFICATION Spec
CONSTANTS
  t1 = t1
  t2 = t2
  t3 = t3
  r1 = r1
  r2 = r2
  r3 = r3
  Keys <- KeysResults
  TaskIDs = {t1, t2, run}
  RunTask = run
  Results = {"done"}
  NoResult = NoResult
  MaxCommands = 9
  Order <- Chain
  DependsOn <- ChainDeps
  Guarded = {}
  Routable = {t1, t2}
  Start = start
  Requests = {r1, r2}
  Menu <- MenuResults
  AdapterOutcomes = {"accepted"}
  ResultOutcomes = {"completed"}
  MayLapse = {}
  Survivals <- Scheduled
  MaxActive = 1
  MaxCrashes = 1
  MaxFaults = 0
SYMMETRY Symmetry
INVARIANTS
  RunEndsCompleted
CHECK_DEADLOCK FALSE
