SPECIFICATION Spec
CONSTANTS
  PlanLen = 3
  Cas = {2}
  SinkKeeps = FALSE
  MaxLog = 9
  MaxSaved = 1
  MaxCrashes = 1
  MaxSinkFailures = 1
  MaxExecutorFailures = 1
INVARIANTS
  TypeOK
  HistoryGivesPhase
  HistoryGivesTarget
  PastGateCovered
  WalksAreTrue
PROPERTIES
  ImplementsLifecycle
CHECK_DEADLOCK FALSE
