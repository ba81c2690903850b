SPECIFICATION Spec
CHECK_DEADLOCK FALSE
CONSTANTS
    Nil = Nil
    Refused = Refused
    Failed = Failed
    None = None
    r1 = r1
    r2 = r2
    h1 = h1
    h2 = h2
    Resource = {r1, r2}
    Host = {h1, h2}
    MainHost = h1
    Scenarios <- MCScenarios
    FaultTypes = {"symlink"}
    MaxFaults = 2
    VaryAllow = {"symlink"}
SYMMETRY Symmetric
INVARIANTS
    EngineTypeOK
    StateMatchesHost
    OthersKept
    RefusalIsHarmless
    DeletedIsGone
    WrittenIsInEffect
    KeysInUseStay
    SSHStaysAllowed
    
    OnlyTheKnownHost
PROPERTY
    PinHolds
