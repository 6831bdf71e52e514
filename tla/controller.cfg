SPECIFICATION Spec
CONSTANTS
  Keys = {k1, k2}
  TaskIDs = {t1}
  Results = {r1}
  NoResult = NoResult
  MaxCommands = 1
  Holders = {h1, h2}
  NoHolder = NoHolder
  SavedFences = {0, 1}
  Tokens = {0, 3}
  MaxFence = 4
  MaxClock = 2
  TTLs = {1, 2}
SYMMETRY Symmetry
INVARIANTS
  TypeOK
  AnswersRecorded
  FencesCover
  LeaseTokensUnique
  CommandsCounted
PROPERTIES
  LifecycleSpec
  LeaseCommitsOrdered
  LeaseExclusive
  StoppedGrantsNothing
