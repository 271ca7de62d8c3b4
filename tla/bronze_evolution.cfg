CONSTANTS
  stream = stream
  backfill = backfill
  Apps = {stream}
  Continuous = {stream}
  NTopics = 1
  Logs <- Evolving
  Versions = 2
  MaxBackfills = 0
  MaxFailures = 1
  MaxRollbacks = 0
SPECIFICATION Spec
INVARIANT NoMisreadRow
CHECK_DEADLOCK FALSE
