SPECIFICATION Spec
CONSTANTS
    p1 = p1
    p2 = p2
    w1 = w1
    w2 = w2
    r1 = r1
    r2 = r2
    t1 = t1
    t2 = t2
    None = None
    Key <- MCKey
    Pid = {p1, p2}
    Workspace = {w1, w2}
    Request = {r1, r2}
    WorkspaceOf <- MCWorkspaceOf
    LockSetOf <- MCLockSetOf
    Thread = {t1, t2}
    MaxOps = 2
    MaxBoot = 2
    RebootPids = 1
SYMMETRY Symmetry
INVARIANTS
    TypeOK
    ClaimsNeverConflict
    ClaimsAreIndexed
    IndexMatchesFile
