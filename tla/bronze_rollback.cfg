CONSTANTS
  stream = stream
  backfill = backfill
  Apps = {stream}
  Continuous = {stream}
  NTopics = 1
  Logs <- Plain
  Versions = 1
  MaxBackfills = 0
  MaxFailures = 1
  MaxRollbacks = 1
SPECIFICATION Spec
INVARIANT CommittedIsIngested
CHECK_DEADLOCK FALSE
