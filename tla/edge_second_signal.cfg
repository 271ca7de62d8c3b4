CONSTANTS
    Topics = 1
    MaxSignals = 2
SPECIFICATION Spec
CHECK_DEADLOCK FALSE
INVARIANT NoSelfDeadlock
