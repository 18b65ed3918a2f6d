\* Two keys: connected, the dedup gate, clear_expired and the waiter
\* queues must act on their own key only.
CONSTANTS
    NoTimeout = NoTimeout
    NoKey = NoKey
    NoConn = NoConn
    h1a = h1a
    h1b = h1b
    h2a = h2a
    h2b = h2b
    c1 = c1
    c2 = c2
    a1 = a1
    a2 = a2
    a3 = a3
    Keys = {k1, k2}
    Conns <- ConnsMC
    SharedConns <- SharedMC
    Checkouts <- CheckoutsMC
    Attempts <- AttemptsMC
    MaxIdle = 1
    Timeout = 1
    HasTimer = TRUE
    MinCheck = 2
    MaxTime = 1
SPECIFICATION Spec
SYMMETRY TwoKeySymmetry
INVARIANT SingleFlight
INVARIANT MapsWellFormed
INVARIANT NoIdleWhileWaiting
PROPERTY WaiterOutcomeStable
\* Bounded Checkouts, attempts and clock: the run ends when they are used up.
CHECK_DEADLOCK FALSE
