CONSTANTS
    NoTimeout = NoTimeout
    Conns = {a, b}
    Shared = {b}
    MaxLen = 3
    MaxTime = 2
SPECIFICATION Spec
INVARIANT PopMatchesSpec
\* The list only grows up to MaxLen: the run enumerates inputs and stops.
CHECK_DEADLOCK FALSE
