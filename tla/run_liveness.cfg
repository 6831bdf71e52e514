SPECIFICATION FairSpec
CONSTANTS
  t1 = t1
  t2 = t2
  t3 = t3
  r1 = r1
  r2 = r2
  r3 = r3
  Keys <- KeysJoin
  TaskIDs = {t1, t2, t3, run}
  RunTask = run
  Results = {"done"}
  NoResult = NoResult
  MaxCommands = 9
  Order <- Join
  DependsOn <- JoinDeps
  Guarded = {t1}
  Routable = {t1, t2, t3}
  Start = start
  Requests = {r1, r2, r3}
  Menu <- MenuJoin
  AdapterOutcomes = {"accepted"}
  ResultOutcomes = {"running", "completed"}
  MayLapse = {}
  Survivals <- Whole
  MaxActive = 2
  MaxCrashes = 0
  MaxFaults = 0
INVARIANTS
  OneCallPerKey
PROPERTIES
  RequestsEnd
  PollReleased
  DependantsReleased
  GrantReleases
CHECK_DEADLOCK FALSE
