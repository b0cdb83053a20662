CONSTANTS
    p1 = p1
    p2 = p2
    k1 = k1
    k2 = k2
    work = work
    review = review
    done = done
    Procs = {p1, p2}
    Keys = {k1}
    NoKey = NoKey
    States = {work, review, done}
    InitialState = work
    Target <- MCTarget
    Fallback <- MCFallback
    MaxCalls = 2
    MaxViews = 0
    MaxCrashes = 1
SPECIFICATION Spec
SYMMETRY Symmetry
INVARIANTS
    TypeOK
    SubmissionsHappenOnce
    DecisionsAreExplained
    OwnAnswersStand
PROPERTIES
    PromiseKept
CHECK_DEADLOCK FALSE
