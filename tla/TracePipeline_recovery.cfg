SPECIFICATION Spec
CONSTANTS
  BufferMax = 3
  BatchMax = 2
  FsyncMax = 2
  RecoverOnStart = {TRUE}
  Invalid = {}
  Refused = {}
  MaxEvents = 3
  MaxCrashes = 1
  MaxFailures = 1
  MaxErrors = 0
  MaxLate = 1
INVARIANT TypeOK
INVARIANT LossBounded
INVARIANT ReplayInOrder
PROPERTY FlushMissesOnlyTheBatch
CHECK_DEADLOCK FALSE
