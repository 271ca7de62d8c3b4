SPECIFICATION FairSpec
CONSTANTS
    Null = Null
    NumberOf <- MCNumberOf
    Starts = {}
    Contains = {}
    PandasTypes <- MCTypes
    SparkTypes <- MCTypes
    Files <- MCFiles
    Specs <- GateSpecs
    Tables <- MCEvolvedTables
    Slack = TRUE
    PagerDuty = TRUE
    ScoreTable = TRUE
    RaiseOnFailure = TRUE
    MaxBreaks = 2
    MaxAttempts = 2
CHECK_DEADLOCK FALSE
INVARIANTS
    PassMeansHealthy
    EveryTableTried
    UnpagedP1Fails
    OutcomeMatchesReport
    AlertsHaveReports
PROPERTIES
    GateDecides
