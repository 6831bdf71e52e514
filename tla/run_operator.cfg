SPECIFICATION Spec
CONSTANTS
  t1 = t1
  t2 = t2
  t3 = t3
  r1 = r1
  r2 = r2
  r3 = r3
  Keys <- KeysOperator
  TaskIDs = {t1, run}
  RunTask = run
  Results = {"done"}
  NoResult = NoResult
  MaxCommands = 9
  Order <- One
  DependsOn <- NoDeps
  Guarded = {}
  Routable = {t1}
  Start = start
  Requests = {r1, r2}
  Menu <- MenuOperator
  AdapterOutcomes = {"accepted", "lost"}
  ResultOutcomes = {"running", "failed"}
  MayLapse = {}
  Survivals <- Operated
  MaxActive = 2
  MaxCrashes = 1
  MaxFaults = 0
INVARIANTS
  FencesCoverAll
  LedgerAhead
PROPERTIES
  StopIsFinal
  RetryAfterResolution
  NoneLeftRequested
CHECK_DEADLOCK FALSE
