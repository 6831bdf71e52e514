SPECIFICATION FairSpec
CONSTANTS
  MaxCalls = 3
  Adapters <- AllAdapters
INVARIANTS
  Classified
  AcceptedHadEffect
  EffectsRepeatOnlyAnswered
PROPERTIES
  CallsEnd
CHECK_DEADLOCK FALSE
