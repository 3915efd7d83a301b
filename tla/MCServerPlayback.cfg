\* Two playback sessions on one connection, three requests racing the callbacks,
\* over the send queue of WsServer.
CONSTANTS
    MediaTypes = {"Describe"}
    RefusedMethods = {"DESCRIBE"}
    MaxSessions = 2
    MaxRequests = 3
    MaxCandidates = 1
SPECIFICATION WsSpec
INVARIANTS
    AnsweredAtMostOnce
    ResponsesAnswerRequests
    SilentAfterEnd
    SetupAppliedWhole
PROPERTIES
    InitialRequestsSettle
    TransportSettles
\* The connection ends, and the bounds are reached.
CHECK_DEADLOCK FALSE
