SPECIFICATION Spec
CONSTANTS
    Limit = 1
    FrozenRounds = 1
    Requests <- MCRequests
    MaxTime = 3
    MaxOutside = 2
INVARIANTS
    ReportMatchesProbes
    CompletedOnProof
    ReceiptClosesLedger
    LedgerFollowsLifecycle
PROPERTIES
    ProbeIsExact
    KeepsPromise
