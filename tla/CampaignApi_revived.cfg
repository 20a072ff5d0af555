SPECIFICATION Spec
CONSTANTS
  Requests = {r1, r2}
  MaxLog = 4
PROPERTIES
  CancelledForGood
CHECK_DEADLOCK FALSE
