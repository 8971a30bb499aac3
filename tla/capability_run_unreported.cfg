SPECIFICATION Spec
CONSTANTS
    Limit = 1
    FrozenRounds = 1
    Requests <- PlainRequest
    MaxTime = 3
    MaxOutside = 0
INVARIANTS
    InconclusiveIsReported
