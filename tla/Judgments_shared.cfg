SPECIFICATION Spec
CONSTANTS
    Judges = {1, 2}
    Definitions <- MCDefinitions
    Total = 2
    Limit = 1
    ResetAfter = 0
    Threshold = 2
INVARIANTS
    VerdictsAreEarned
    BoundsAreKept
PROPERTIES
    EveryJudgmentEnds
