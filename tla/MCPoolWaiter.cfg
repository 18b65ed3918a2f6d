CONSTANTS
    NoTimeout = NoTimeout
    NoKey = NoKey
    NoConn = NoConn
    h1a = h1a
    h1b = h1b
    h2a = h2a
    h2b = h2b
    c1 = c1
    c2 = c2
    a1 = a1
    a2 = a2
    a3 = a3
    Keys = {k1}
    Conns <- ConnsMC
    SharedConns <- SharedMC
    Checkouts = {c1, c2}
    Attempts = {a1}
    MaxIdle = 1
    Timeout = 1
    HasTimer = FALSE
    MinCheck = 2
    MaxTime = 2
SPECIFICATION Spec
PROPERTY WaiterServedByPut
\* Bounded Checkouts, attempts and clock: the run ends when they are used up.
CHECK_DEADLOCK FALSE
