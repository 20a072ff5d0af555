SPECIFICATION Spec
CONSTANTS
  r0 = r0
  r1 = r1
  r2 = r2
  t1 = t1
  t2 = t2
  None = None
  Releases = {r0, r1, r2}
  Prior <- ThePrior
  Threads = {t1}
  MaxTxns = 4
  Tasks = 2
  MaxCrashes = 0
PROPERTIES
  OnlyCompletedLeavesActive
CHECK_DEADLOCK FALSE
