\* Two recordings, one after the other, of one client against one server.
CONSTANTS
    MaxTakes = 2
    MaxOffers = 2
    MaxClientRequests = 8
    MediaTypes = {"Record"}
    RefusedMethods = {}
    MaxSessions = 2
    MaxRequests = 8
    MaxCandidates = 1
SPECIFICATION FairCallSpec
INVARIANTS
    RequestsInStep
    SessionAgreed
    NoOrphan
    CandidatesReachTheirSession
PROPERTIES
    ServerDropsOnCrossing
    ClientDropsOnCrossing
    RecordSettles
\* The connection ends, and the bounds are reached.
CHECK_DEADLOCK FALSE
