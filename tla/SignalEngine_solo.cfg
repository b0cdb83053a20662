CONSTANTS
    p1 = p1
    p2 = p2
    k1 = k1
    k2 = k2
    work = work
    review = review
    done = done
    Procs = {p1}
    Keys = {k1, k2}
    NoKey = NoKey
    States = {work, review, done}
    InitialState = work
    Target <- MCTarget
    Fallback <- MCFallback
    MaxCalls = 3
    MaxViews = 1
    MaxCrashes = 2
SPECIFICATION FairSpec
INVARIANTS
    EngineHoldsHistory
    SnapshotIsPointInTime
PROPERTIES
    CallsReturn
CHECK_DEADLOCK FALSE
