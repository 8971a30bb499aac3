SPECIFICATION LiveSpec
CONSTANTS
    Timeout = 2
    MaxCalls = 3
    MaxReads = 2
    MaxTime = 3
INVARIANTS
    EffortCoversTraffic
    DialogueIsBounded
    VerdictIsEarned
PROPERTIES
    EndsInTime
    RunEnds
