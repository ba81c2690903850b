SPECIFICATION LeaseSpec
CONSTANTS
    p1 = p1
    p2 = p2
    p3 = p3
    p4 = p4
    p5 = p5
    w1 = w1
    w2 = w2
    r1 = r1
    r2 = r2
    t1 = t1
    t2 = t2
    t3 = t3
    None = None
    Key <- MCKey
    Pid = {p1, p2, p3, p4, p5}
    Workspace = {w1, w2}
    Request = {r1, r2}
    WorkspaceOf <- MCWorkspaceOf
    LockSetOf <- MCLockSetOf
    Thread = {t1, t2}
    MaxOps = 4
    MaxBoot = 1
    RebootPids = 0
    MaxAttempts <- MCTwoAttempts
    MaxLosses <- MCMutationLoss
    Orphans = {}
SYMMETRY Symmetry
INVARIANT
    MutationExclusion
CHECK_DEADLOCK FALSE
