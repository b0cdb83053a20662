CONSTANTS
    p1 = p1
    p2 = p2
    k1 = k1
    k2 = k2
    Procs = {p1, p2}
    Keys = {k1, k2}
    NoKey = NoKey
    Outcomes <- MCOutcomes
    MaxIdleTurns = 1
    MaxRefetches = 1
    MaxSubmits = 3
    MaxFetches <- MCMaxFetches
    MaxCrashes <- MCMaxCrashes
SPECIFICATION Spec
SYMMETRY Symmetry
INVARIANTS
    DeliveredOnce
    EngineCountsAsLedger
    WindowReachesView
PROPERTIES
    BypassIsEarned
CHECK_DEADLOCK FALSE
