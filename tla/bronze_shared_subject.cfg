CONSTANTS
  stream = stream
  backfill = backfill
  Apps = {stream}
  Continuous = {stream}
  NTopics = 2
  Logs <- Evolving
  Versions = 2
  MaxBackfills = 0
  MaxFailures = 0
  MaxRollbacks = 0
SPECIFICATION Spec
INVARIANT ReaderIsListed
CHECK_DEADLOCK FALSE
