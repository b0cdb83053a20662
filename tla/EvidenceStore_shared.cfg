CONSTANTS
    p1 = p1
    p2 = p2
    k1 = k1
    k2 = k2
    Procs = {p1, p2}
    Keys = {k1, k2}
    NoKey = NoKey
    Versions = {1, 2}
    Types = {"text"}
    MaxCalls = 3
    MaxEdits = 1
    MaxFaults = 1

SPECIFICATION Spec

SYMMETRY MCSymmetry

INVARIANTS
    EvidenceIsKept
    CapturesOneVersion
    AnswersAgree
    ExportIsConsistent
\* The calls are used up.
CHECK_DEADLOCK FALSE
