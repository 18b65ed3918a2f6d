\* The eight tests of `mod tests` in pool.rs, each against its own pool.
CONSTANTS
    NoTimeout = NoTimeout
    NoKey = NoKey
    NoConn = NoConn
    Foo = Foo
    V41 = V41
    V5 = V5
    V99 = V99
    C1 = C1
    C2 = C2
    A1 = A1
    A2 = A2
    A3 = A3
    Tests = {"smoke", "returns_none_if_expired", "removes_expired", "max_idle_per_host", "timer_removes_expired", "task_unparked", "drop_cleans_up_waiters", "drop_if_closed"}
INIT TestInit
NEXT TestNext
INVARIANT TestPasses
\* A test script ends: its last state has no successor.
CHECK_DEADLOCK FALSE
