CONSTANTS
    Retention = 1
    DryRun = FALSE
    Unoptimizable = {}
    OtherTargets = {2}
    OtherRows = 1
    MaxIngest = 1
    MaxRuns = 1
SPECIFICATION Spec
PROPERTY NoWayBack
