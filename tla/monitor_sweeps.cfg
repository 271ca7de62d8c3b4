CONSTANTS
  silver = silver
  Runs = {r1, r2}
  Pipelines = {silver}
  PipelineOf <- OnePipeline
  Configured = {silver}
  FreshnessSla <- Sla
  StaleAfter = 1
  Window = 9
  Limit = 1
  MinHistory = 1
  Paging = TRUE
  SlackMin = "P2"
  QueriesResolve = TRUE
  MaxTime = 2
  MaxCrashes = 1
  MaxLost = 1
SPECIFICATION Spec
SYMMETRY Symmetry
INVARIANT FailuresAreReported
CHECK_DEADLOCK FALSE
