CONSTANTS
    hourly = h
    nightly1 = n1
    nightly2 = n2
    backfill = b
    Run <- Slots
    DagOf <- MCDagOf
    ExecutionTimeout <- MCExecutionTimeout
    SubmitTimeout = 2
    StaleAfter = 2
    MaxOrphans = 1
SPECIFICATION Spec
INVARIANTS TypeOK AttendedRunsKept
PROPERTY RunsEnd
