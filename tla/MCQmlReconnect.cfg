\* The assertion in requestDescribe, against a player whose stream has ended.
CONSTANTS
    Player = {1}
    HasToken = FALSE
    MaxSessions = 1
    MaxCSeq = 3
    MaxSignals = 1
SPECIFICATION QmlSpec
PROPERTY DescribesWhileOpen
CHECK_DEADLOCK FALSE
