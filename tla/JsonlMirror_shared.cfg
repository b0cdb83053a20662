CONSTANTS
    p1 = p1
    p2 = p2
    Procs = {p1, p2}
    Absent = Absent
    Dead = Dead
    SegmentLines = 2
    ChunkLines = 2
    MaxAttempts = 2
    Loads <- AloneOrTogether
SPECIFICATION FairSpec
INVARIANTS
    
    MirrorIsRepaired
    CommittedSurvives
PROPERTIES
    AsksEnd
CHECK_DEADLOCK FALSE
