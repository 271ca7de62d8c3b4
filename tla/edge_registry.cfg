CONSTANTS
  Replicas = {r1, r2}
  p1 = p1
  p2 = p2
  Partitions = {p1}
  LogLen = 2
  Bad <- NoBad
  BatchSize = 1
  DlqCap = 1
  MaxFaults <- RegistryOnly
  NoOne = NoOne
SPECIFICATION Spec
INVARIANT AtLeastOnce
CHECK_DEADLOCK FALSE
