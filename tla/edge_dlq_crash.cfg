CONSTANTS
  Replicas = {r1, r2}
  p1 = p1
  p2 = p2
  Partitions = {p1}
  LogLen = 2
  Bad <- FirstBad
  BatchSize = 2
  DlqCap = 1
  MaxFaults <- CrashOnly
  NoOne = NoOne
SPECIFICATION Spec
INVARIANT DeadLetterKept
CHECK_DEADLOCK FALSE
