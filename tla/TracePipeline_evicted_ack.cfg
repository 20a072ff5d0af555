SPECIFICATION Spec
CONSTANTS
  BufferMax = 2
  BatchMax = 2
  FsyncMax = 2
  RecoverOnStart = {TRUE}
  Invalid = {}
  Refused = {}
  MaxEvents = 3
  MaxCrashes = 0
  MaxFailures = 1
  MaxErrors = 0
  MaxLate = 1
INVARIANT AckMeansIngested
CHECK_DEADLOCK FALSE
