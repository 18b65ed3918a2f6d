CONSTANTS
    NoTimeout = NoTimeout
    NoKey = NoKey
    NoConn = NoConn
    h1a = h1a
    h1b = h1b
    h2a = h2a
    h2b = h2b
    c1 = c1
    c2 = c2
    a1 = a1
    a2 = a2
    a3 = a3
    Keys = {k1}
    Conns <- ConnsShared
    SharedConns <- SharedShared
    Checkouts <- CheckoutsMC
    Attempts <- AttemptsMC
    MaxIdle = 2
    Timeout = 1
    HasTimer = TRUE
    MinCheck = 2
    MaxTime = 2
SPECIFICATION Spec
SYMMETRY SharingSymmetry
CHECK_DEADLOCK FALSE
INVARIANT SharedIdleOnce
PROPERTY ShareRefinement
