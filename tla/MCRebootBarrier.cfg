SPECIFICATION Spec
CONSTANTS
    c1 = c1
    c2 = c2
    k1 = k1
    k2 = k2
    t1 = t1
    t2 = t2
    a1 = a1
    None = None
    Client = {c1, c2}
    Own = c1
    Trigger = {t1}
    Action = {a1}
    Checker = {k1, k2}
    NeedRoot = {k2}
    MaxRuns = 2
    GateRuns = 1
    MaxFaults = 1
INVARIANTS
    RebootTypeOK
    CompletedIsProved
    IssuedOnce
    RootIsChecked
PROPERTIES
    EveryRestartCompletes
    EveryRequestEnds
