SPECIFICATION Spec
CONSTANTS
  t1 = t1
  t2 = t2
  t3 = t3
  r1 = r1
  r2 = r2
  r3 = r3
  Keys <- KeysControls
  TaskIDs = {t1, run}
  RunTask = run
  Results = {"done"}
  NoResult = NoResult
  MaxCommands = 9
  Order <- One
  DependsOn <- NoDeps
  Guarded = {}
  Routable = {t1}
  Start = start
  Requests = {r1, r2}
  Menu <- MenuControls
  AdapterOutcomes = {"accepted"}
  ResultOutcomes = {"running", "failed", "cancelled", "completed"}
  MayLapse = {}
  Survivals <- Whole
  MaxActive = 1
  MaxCrashes = 1
  MaxFaults = 0
SYMMETRY Symmetry
INVARIANTS
  AcknowledgedStopRecovered
CHECK_DEADLOCK FALSE
