---------------------------- MODULE WsServerProps ----------------------------
(***************************************************************************)
(* What the send queue and the writeable callback give the session above   *)
(* them.  The session's own properties are those of ServerSessionProps.    *)
(***************************************************************************)
EXTENDS WsServer, ServerSessionProps

\* No request for a writeable callback is lost between send(), disconnect(),
\* the write that asks again for the next message and the write that empties
\* the queue: again and again the connection is closed, or it is not marked by
\* disconnect() and everything handed to the transport is written
\* (WsServer.cpp 214-236, 391-453).
TransportSettles ==
    []<>(link = "closed" \/ (link = "open" /\ queued = 0))
=============================================================================
