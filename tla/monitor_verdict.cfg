CONSTANTS
  silver = silver
  Runs = {r1}
  Pipelines = {silver}
  PipelineOf <- OnePipeline
  Configured = {silver}
  FreshnessSla <- Sla
  StaleAfter = 1
  Window = 9
  Limit = 2
  MinHistory = 1
  Paging = TRUE
  SlackMin = "P2"
  QueriesResolve = TRUE
  MaxTime = 3
  MaxCrashes = 0
  MaxLost = 0
SPECIFICATION Spec
PROPERTY VerdictStands
CHECK_DEADLOCK FALSE
