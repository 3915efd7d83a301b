\* One client that describes or subscribes to a stream of one server.
CONSTANTS
    MaxOffers = 2
    MaxClientRequests = 6
    MediaTypes = {"Describe", "Subscribe"}
    RefusedMethods = {}
    MaxSessions = 1
    MaxRequests = 6
    MaxCandidates = 2
SPECIFICATION FairPlaySpec
INVARIANTS
    PlaySessionAgreed
    CandidatesInStep
    NoOnePlaysAlone
PROPERTY PlaybackStarts
\* The connection ends.
CHECK_DEADLOCK FALSE
