\* Two sockets, side by side or one after the other at the same address.
CONSTANTS
    Address = {a1, a2}
    AuthRequired = TRUE
    MaxSockets = 2
    MaxMessages = 2
    MaxCallbacks = 1
SPECIFICATION FairQtSpec
INVARIANTS
    NoStaleNotification
    SessionOutlivesItsActions
    SoleOwnerDestroys
    RequestsInOrder
PROPERTIES
    SocketDeleted
    RefusedIsDisconnected
\* The bounds are reached.
CHECK_DEADLOCK FALSE
