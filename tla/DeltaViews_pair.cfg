CONSTANTS
    k1 = k1
    k2 = k2
    A = A
    B = B
    a1 = a1
    a2 = a2
    Agents = {a1, a2}
    Viewers = {a1}
    Keys = {k1, k2}
    States = {A, B}
    Initial = A
    Scope <- MCScope
    OnEnter <- MCOnEnter
    OnExit <- MCOnExit
    Submissions <- MCSubmissions
    None = None
    Histories <- MCHistories
    MaxCalls <- MCMaxCalls
    MaxFaults = 1
SPECIFICATION DeltaSpec
INVARIANTS
    AgentHoldsItsView
CHECK_DEADLOCK FALSE
