\* Expected violation: the launch is not bounded by expires_at.
SPECIFICATION Spec
CONSTANTS
    r1 = r1
    r2 = r2
    t1 = t1
    t2 = t2
    h1 = h1
    NoPlan = NoPlan
    Runners = {r1, r2}
    Triggers = {t1, t2}
    Hashes = {h1}
    Plans <- MCOnePlan
    Notices <- MCNotices
    Batches <- MCShortBatches
    Timeouts = {1}
    MaxSkew = 0
    MaxTime = 2
INVARIANTS
    NoLaunchAfterExpiry
