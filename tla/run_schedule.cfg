SPECIFICATION Spec
CONSTANTS
  t1 = t1
  t2 = t2
  t3 = t3
  r1 = r1
  r2 = r2
  r3 = r3
  Keys <- KeysWork
  TaskIDs = {t1, t2, run}
  RunTask = run
  Results = {"done"}
  NoResult = NoResult
  MaxCommands = 2
  Order <- Chain
  DependsOn <- ChainDeps
  Guarded = {t1}
  Routable = {t1, t2}
  Start = start
  Requests = {r1, r2, r3}
  Menu <- MenuWork
  AdapterOutcomes = {"accepted", "refused", "lost"}
  ResultOutcomes = {"running", "failed", "cancelled", "completed"}
  MayLapse = {t1}
  Survivals <- Scheduled
  MaxActive = 2
  MaxCrashes = 1
  MaxFaults = 1
INVARIANTS
  TypeOK
  CallsDurable
  PollExclusive
  DecidedOnce
PROPERTIES
  PromiseKept
CHECK_DEADLOCK FALSE
