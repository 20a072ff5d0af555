SPECIFICATION Spec
CONSTANTS
  Requests = {r1, r2}
  MaxLog = 6
INVARIANTS
  TypeOK
  RowIsProjection
  NoPhaseSkipped
PROPERTIES
  CurrentRequestsImplementLifecycle
CHECK_DEADLOCK FALSE
