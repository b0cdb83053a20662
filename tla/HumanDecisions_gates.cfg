SPECIFICATION Spec
CONSTANTS
    Agents = {a1}
    Terminals = {t1}
    Payloads = {d1, d2}
    NoPayload = NoPayload
    Keys = {k1}
    NoKey = NoKey
    MaxAttempts = 2
    MaxCalls = 4
    MaxCrashes = 1
SYMMETRY MCSymmetry
INVARIANTS
    ApprovalsAreInformed
    
    RefusedGatesWaitForAPerson
    ResponsesAreWhole
CHECK_DEADLOCK FALSE
