SPECIFICATION FairSpec
CONSTANTS
  BufferMax = 1
  BatchMax = 2
  FsyncMax = 2
  RecoverOnStart = {TRUE, FALSE}
  Invalid = {}
  Refused = {2}
  MaxEvents = 2
  MaxCrashes = 1
  MaxFailures = 1
  MaxErrors = 1
  MaxLate = 0
INVARIANT AckCoversSettled
PROPERTY EventuallySettled
CHECK_DEADLOCK FALSE
