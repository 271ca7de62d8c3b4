CONSTANTS
    Retention = 1
    DryRun = FALSE
    Unoptimizable = {}
    OtherTargets = {2}
    OtherRows = 1
    MaxIngest = 1
    MaxRuns = 2
SPECIFICATION Spec
INVARIANT NeverOverstated
