CONSTANTS
  Replicas = {r1, r2}
  p1 = p1
  p2 = p2
  Partitions = {p1, p2}
  LogLen = 2
  Bad <- NoBad
  BatchSize = 2
  DlqCap = 1
  MaxFaults <- WriterFaults
  NoOne = NoOne
SPECIFICATION Spec
INVARIANTS AtLeastOnce DuplicatesArePaidFor
PROPERTY CommittedMonotonic
SYMMETRY Symmetry
CONSTRAINT AtMostThree
CHECK_DEADLOCK FALSE
