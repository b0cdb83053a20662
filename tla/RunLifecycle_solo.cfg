SPECIFICATION Spec
CONSTANTS
    Procs = {p1}
    States <- MCStates
    Signals <- MCSignals
    Initial = "draft"
    Terminals = {"done"}
    Target <- MCTarget
    Action <- MCAction
    OnEnter <- MCOnEnter
    OnExit <- MCOnExit
    Submittable = {"submit", "spin"}
    MaxDrain = 3
    MaxSubmits = 2
    MaxCrashes = 1
    MaxForeign = 1

    
    
    
PROPERTIES
    RuntimeStatesAreLeft
CHECK_DEADLOCK FALSE
