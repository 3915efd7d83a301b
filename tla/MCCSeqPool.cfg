\* Nine requests over a counter of two bits: it wraps twice.
CONSTANTS
    Modulus = 4
    MaxIssued = 9
SPECIFICATION PoolSpec
INVARIANTS
    ResponsesMatch
    NoStranger
\* The bound on requests is reached.
CHECK_DEADLOCK FALSE
