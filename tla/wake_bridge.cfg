\* The runner and its adapter together: launches rest on durable notifications, and a fresh trigger is acted on.
SPECIFICATION AttentiveSpec
CONSTANTS
    me = me
    peer = peer
    i1 = i1
    a = a
    b = b
    x = x
    y = y
    h1 = h1
    Host = Host
    Agents = {me, peer}
    Identities = {i1}
    MessageIds = {a, b}
    Bodies = {x, y}
    Configs <- MCConfigs
    NoConfig = NoConfig
    Appendable <- MCAppendable
    Batches = {1, 2}
    Timeouts = {}
    MaxSkew = 0
    MaxEntries = 2
    MaxTime = 2
    Hashes = {h1}
    Plans <- MCPlans
    NoPlan = NoPlan
    RunTimeouts = {0, 1}
INVARIANTS
    LaunchHasDurableTrigger
    ConfirmedOnlyWhenCompleted
    NothingAheadOfTheTrigger
PROPERTIES
    TriggerWakes
