SPECIFICATION Spec
CONSTANTS
    Procs = {p1}
    Layouts = {FALSE}
    MaxRuns = 2
    MaxEvents = 2
    MaxOps = 3
    MaxCrashes = 1
    Clients = {c1}
    MaxConnects = 1
INVARIANTS
    DeliversInOrder
PROPERTIES
    DeliversAll
CHECK_DEADLOCK FALSE
