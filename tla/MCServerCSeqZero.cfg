\* The 502 of a subscription whose peer ends before it is prepared.
CONSTANTS
    MediaTypes = {"Subscribe"}
    RefusedMethods = {}
    MaxSessions = 1
    MaxRequests = 1
    MaxCandidates = 1
SPECIFICATION Spec
INVARIANT ResponsesAnswerRequests
CHECK_DEADLOCK FALSE
