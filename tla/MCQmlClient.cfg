\* Two players on one connection that comes and goes.
CONSTANTS
    Player = {1, 2}
    HasToken = TRUE
    MaxSessions = 2
    MaxCSeq = 6
    MaxSignals = 2
SPECIFICATION QmlSpec
INVARIANTS
    NoDanglingClient
    SessionsAccountedFor
    NobodyForgotten
\* The client may crash, and the bounds are reached.
CHECK_DEADLOCK FALSE
