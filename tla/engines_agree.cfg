SPECIFICATION Spec
CONSTANTS
    Null = Null
    NumberOf <- MCNumberOf
    Starts <- MCStarts
    Contains <- MCContains
    PandasTypes <- MCPandasTypes
    SparkTypes <- MCSparkTypes
CHECK_DEADLOCK FALSE
CONSTANTS
    MaxRows = 3
    MaxSuite = 2
INVARIANTS
    SameVerdicts
    OffendersAreCounted
