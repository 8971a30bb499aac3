SPECIFICATION LiveSpec
CONSTANTS
    Dispatches = 2
    Streams = {stdout, stderr}
    ProbeTimeout = 2
    RunTime = 2
    Limit = 1
    MaxOutput = 2
    MaxTime = 2
INVARIANTS
    ResultIsEarned
    NobodyLeftRunning
    LedgerIsOrdered
    ReportRestsOnLedger
PROPERTIES
    VerifiedIsWhole
    RunEnds
