SPECIFICATION FairSpec
CONSTANTS
  Runs = {r1, r2}
  Streams = {c1}
  NoRow = NoRow
  NoWrite = NoWrite
  MaxEvents = 3
  MaxCrashes = 1
  MaxBacklog = 2
  MaxBundle = 2
  Types <- SomeTypes
  Appended <- SomeAppended
INVARIANTS
  TypeOK
  Reopenable
  ProjectionIsReplay
  HoldsTheLog
  ExportSound
PROPERTIES
  LogKept
  InterruptedRunsMarked
  StreamDelivers

CHECK_DEADLOCK FALSE
