SPECIFICATION Spec
CONSTANTS
    Timeout = 1
    MaxCalls = 3
    MaxReads = 2
    MaxTime = 3
INVARIANTS
    DeadlineBoundsCalls
