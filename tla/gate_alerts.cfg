SPECIFICATION Spec
CONSTANTS
    Null = Null
    NumberOf <- MCNumberOf
    Starts = {}
    Contains = {}
    PandasTypes <- MCTypes
    SparkTypes <- MCTypes
    Files <- MCFiles
    Specs <- FrameworkSpecs
    Tables <- MCEvolvedTables
    Slack = TRUE
    PagerDuty = TRUE
    ScoreTable = TRUE
    RaiseOnFailure = TRUE
    MaxBreaks = 2
    MaxAttempts = 2
CHECK_DEADLOCK FALSE
INVARIANTS
    OutcomeMatchesReport
    AlertsHaveReports
    UnpagedP1Fails
