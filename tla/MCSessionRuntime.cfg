SPECIFICATION FairSpec
CONSTANTS
    c1 = c1
    c2 = c2
    c3 = c3
    e1 = e1
    m1 = m1
    ModuleOf <- MCModuleOf
    None = None
    Caller = {c1, c2, c3, e1}
    Ensurer = {e1}
    MaxAttempts = 2
    MaxFaults = 3
    LinkFaults = {TRUE, FALSE}
INVARIANTS
    TypeOK
    CallKeepsClient
PROPERTY
    CallsReturnWhileLinked
CHECK_DEADLOCK FALSE
