CONSTANTS
  silver = silver
  Runs = {r1, r2}
  Pipelines = {silver}
  PipelineOf <- OnePipeline
  Configured = {}
  FreshnessSla <- Sla
  StaleAfter = 1
  Window = 9
  Limit = 1
  MinHistory = 1
  Paging = TRUE
  SlackMin = "P2"
  QueriesResolve = FALSE
  MaxTime = 2
  MaxCrashes = 1
  MaxLost = 0
SPECIFICATION FairSpec
CHECK_DEADLOCK FALSE
PROPERTY EveryRunClosed
