\* One browser, two requests at a time.
CONSTANTS
    Configurations <- MCConfigurations
    Connection = {k1, k2}
    Cookie = {c1, c2}
    NoCookie = NoCookie
    ExpiredCookie = ExpiredCookie
    Idle = Idle
    MaxAge = 1
    CleanupInterval = 3
    MaxUpload = 1
    MaxTime = 4
    MaxRequests = 3
SPECIFICATION FairHttpSpec
INVARIANTS
    TokenCoversCookie
    ExpiredSoonGone
    HonouredWhileFresh
PROPERTIES
    ServedWithinPromise
    TokenArrives
CHECK_DEADLOCK FALSE
