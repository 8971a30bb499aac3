\* Trimming, conflicts, stale and foreign entries, crashes: nothing is lost, every
\* call ends, and a host that keeps polling receives every entry or learns what blocks it.
SPECIFICATION FairSpec
CONSTANTS
    me = me
    peer = peer
    i1 = i1
    i2 = i2
    a = a
    b = b
    x = x
    y = y
    Agents = {me, peer}
    Identities = {i1, i2}
    MessageIds = {a, b}
    Bodies = {x, y}
    Configs <- MCConfigs
    NoConfig = NoConfig
    Appendable <- MCAppendable
    Batches = {1, 2}
    Timeouts = {1}
    MaxSkew = 0
    MaxEntries = 3
    MaxTime = 1
INVARIANTS
    NoSilentGap
    RowsComeFromStream
    HandedOverInOrder
PROPERTIES
    KeepsPromise
    CallsEnd
    ServedArrives
