CONSTANTS
  stream = stream
  backfill = backfill
  Apps = {stream, backfill}
  Continuous = {stream}
  NTopics = 1
  Logs <- Streams
  Versions = 2
  MaxBackfills = 1
  MaxFailures = 2
  MaxRollbacks = 1
SPECIFICATION FairSpec
INVARIANTS NoDuplicateRow NoRowLost ReaderIsListed
PROPERTIES TableSpec EventuallyIngested
CHECK_DEADLOCK FALSE
