CONSTANTS
    Topics = 1
    MaxSignals = 1
SPECIFICATION Spec
CHECK_DEADLOCK FALSE
INVARIANT NoneAbandoned
