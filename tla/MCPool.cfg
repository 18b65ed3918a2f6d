CONSTANTS
    NoTimeout = NoTimeout
    NoKey = NoKey
    NoConn = NoConn
    h1a = h1a
    h1b = h1b
    h2a = h2a
    h2b = h2b
    c1 = c1
    c2 = c2
    a1 = a1
    a2 = a2
    a3 = a3
    Keys = {k1}
    Conns <- ConnsMC
    SharedConns <- SharedMC
    Checkouts <- CheckoutsMC
    Attempts <- AttemptsMC
    MaxIdle = 2
    Timeout = 1
    HasTimer = TRUE
    MinCheck = 2
    MaxTime = 2
SPECIFICATION Spec
SYMMETRY Symmetry
INVARIANT TypeOK
INVARIANT MapsWellFormed
INVARIANT UniqueExclusive
INVARIANT NoIdleWhileWaiting
INVARIANT SingleFlight
INVARIANT SharedIdleOnce
PROPERTY CheckoutYieldsUsable
PROPERTY WaiterOutcomeStable
PROPERTY UsableIdleKept
PROPERTY LeaseRefinement
PROPERTY WaitersServedFifo
PROPERTY ConnLostOnlyForCause
CHECK_DEADLOCK FALSE
