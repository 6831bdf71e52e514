SPECIFICATION Spec
CONSTANTS
  t1 = t1
  t2 = t2
  t3 = t3
  r1 = r1
  r2 = r2
  r3 = r3
  Keys <- KeysPolls
  TaskIDs = {t1, run}
  RunTask = run
  Results = {"done"}
  NoResult = NoResult
  MaxCommands = 9
  Order <- One
  DependsOn <- NoDeps
  Guarded = {}
  Routable = {t1}
  Start = start
  Requests = {r1, r2, r3}
  Menu <- MenuPolls
  AdapterOutcomes = {"accepted"}
  ResultOutcomes = {"completed", "failed"}
  MayLapse = {}
  Survivals <- Whole
  MaxActive = 1
  MaxCrashes = 0
  MaxFaults = 0
SYMMETRY Symmetry
INVARIANTS
  SucceededIsTerminal
CHECK_DEADLOCK FALSE
