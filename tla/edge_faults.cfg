CONSTANTS
  Replicas = {r1, r2}
  p1 = p1
  p2 = p2
  Partitions = {p1}
  LogLen = 2
  Bad <- FirstBad
  BatchSize = 2
  DlqCap = 1
  MaxFaults <- LossFaults
  NoOne = NoOne
SPECIFICATION FairSpec
INVARIANT OnlyCrashedLettersVanish
CHECK_DEADLOCK FALSE
PROPERTIES EventuallyAccounted DeliverySpec
