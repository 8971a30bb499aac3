\* Two runners, two plans, crashes anywhere: the receipt, and the end of every run.
SPECIFICATION FairSpec
CONSTANTS
    r1 = r1
    r2 = r2
    t1 = t1
    t2 = t2
    h1 = h1
    NoPlan = NoPlan
    Runners = {r1, r2}
    Triggers = {t1, t2}
    Hashes = {h1}
    Plans <- MCPlans
    Notices <- MCNotices
    Batches <- MCBatches
    Timeouts = {0, 1}
    MaxSkew = 0
    MaxTime = 3
INVARIANTS
    ReceiptTellsTruth
    LaunchUnderPinnedPlan
    OutcomesAreHonest
PROPERTIES
    KeepsPromise
    RunsTerminate
