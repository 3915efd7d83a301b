\* A session of any kind whose peer gathers two candidates.
CONSTANTS
    MediaTypes = {"Describe", "Record", "Subscribe"}
    RefusedMethods = {"SETUP"}
    MaxSessions = 1
    MaxRequests = 2
    MaxCandidates = 2
SPECIFICATION Spec
INVARIANTS
    AnnouncedFirst
    QueueOnlyUntilPrepared
    CandidatesInOrder
PROPERTY ImplementsMediaDialog
\* The connection ends, and the bounds are reached.
CHECK_DEADLOCK FALSE
