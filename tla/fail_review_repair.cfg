SPECIFICATION Spec
CONSTANTS
    Runs = {r1, r2}
    NoRun = NoRun
    Arguments <- MCArguments
    MaxOutside = 2
INVARIANTS
    OneRunPerOutput
    LedgerIsOneChain
    CompletedWasEarned
    ReceiptClosesLedger
PROPERTIES
    KeepsBounds
CHECK_DEADLOCK FALSE
