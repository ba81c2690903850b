SPECIFICATION Spec
CONSTANTS
    w1 = w1
    w2 = w2
    w3 = w3
    k1 = k1
    k2 = k2
    None = None
    Worker = {w1, w2, w3}
    Target = {k1, k2}
    MaxConns = 1
    MaxAttempts = 2
    MaxFaults = 1
    Target0 <- mcTarget
    Want0 <- mcWant
    MaxRemovals = 1
INVARIANT
    WithinLimit
