------------------------ MODULE ClientRecordSession ------------------------
(***************************************************************************)
(* A client that records to a WebRTSP server: ClientRecordSession on top   *)
(* of the base rtsp::Session (RtspSession/) and the one connection WsClient *)
(* gives it (Client/WsClient.cpp).                                         *)
(*                                                                         *)
(* The application calls startRecord and stopRecord, at first once OPTIONS *)
(* has been answered (as Apps/RecordTest does); the streamer is a          *)
(* WebRTCPeer, known only by its callbacks and destroyed by stopRecord.    *)
(* What the server says is an argument of the handlers: module RecordCall  *)
(* brings the two sides together.                                          *)
(*                                                                         *)
(* A candidate is <<take, n>>, the n-th its streamer gathered in the       *)
(* application's take-th recording.                                        *)
(***************************************************************************)
EXTENDS ClientSignalling

CONSTANTS
    MaxTakes,           \* bound: recordings the application starts
    MaxOffers           \* bound: candidates one streamer gathers

VARIABLES
    streamer,           \* "none", "preparing" or "prepared": Private::streamer
    iceCandidates,      \* Private::iceCandidates
    recordRequested,    \* Private::recordRequested
    session,            \* Private::session
    take,               \* history: recordings started
    offered,            \* history: candidates the streamer of this take gathered
    hasty               \* history: takes stopped before they asked to RECORD

clientVars == <<streamer, iceCandidates, recordRequested, session, signallingVars,
                take, offered, hasty>>

-----------------------------------------------------------------------------
\* The session and its streamer are deleted with the connection.
ClientGone(how) ==
    /\ clientLink' = how
    /\ streamer' = "none"
    /\ iceCandidates' = <<>>
    /\ recordRequested' = FALSE
    /\ session' = NoSessionId
    /\ pending' = {}
    /\ UNCHANGED <<cseq, toServer, take, offered, hasty>>

ClientClose == ClientGone("closed")

ClientWriteable ==
    /\ clientLink = "terminating"
    /\ ClientClose

ClientConnectionLost ==
    /\ clientLink \in {"open", "terminating"}
    /\ ClientClose

-----------------------------------------------------------------------------
(* The application.                                                        *)

startRecord ==
    /\ clientLink = "open"
    /\ streamer = "none"
    /\ \A r \in pending : r.head # "OPTIONS"
    /\ take < MaxTakes
    /\ streamer' = "preparing"
    /\ take' = take + 1
    /\ offered' = 0
    /\ UNCHANGED <<iceCandidates, recordRequested, session, pending, cseq,
                   clientLink, toServer, hasty>>

StopStreamer ==
    /\ clientLink = "open"
    /\ streamer # "none"
    /\ streamer' = "none"
    /\ hasty' = IF recordRequested THEN hasty ELSE hasty \cup {take}
    /\ UNCHANGED <<iceCandidates, take, offered>>

\* Slip: the session id survives its TEARDOWN.
stopRecordKeepingSession ==
    /\ StopStreamer
    /\ session # NoSessionId
    /\ ClientRequest("TEARDOWN", session, <<>>)
    /\ recordRequested' = FALSE
    /\ UNCHANGED <<clientLink, session>>

\* Slip: the server is not told.
stopRecordSilently ==
    /\ StopStreamer
    /\ session' = NoSessionId
    /\ recordRequested' = FALSE
    /\ UNCHANGED <<pending, cseq, clientLink, toServer>>

\* Before the answer to RECORD there is no session to tear down, and the
\* connection is given up instead.
stopRecord ==
    /\ StopStreamer
    /\ \/ /\ ~recordRequested
          /\ UNCHANGED <<recordRequested, session, pending, cseq, clientLink, toServer>>
       \/ /\ recordRequested
          /\ session # NoSessionId
          /\ ClientRequest("TEARDOWN", session, <<>>)
          /\ session' = NoSessionId
          /\ recordRequested' = FALSE
          /\ UNCHANGED clientLink
       \/ /\ recordRequested
          /\ session = NoSessionId
          /\ ClientDisconnect
          /\ UNCHANGED <<recordRequested, session, pending, cseq, toServer>>

-----------------------------------------------------------------------------
(* The streamer's callbacks.                                               *)

streamerPrepared ==
    /\ streamer = "preparing"
    /\ streamer' = "prepared"
    /\ \/ /\ ClientRequest("RECORD", NoSessionId, <<>>)
          /\ recordRequested' = TRUE
          /\ UNCHANGED clientLink
       \/ /\ ClientDisconnect                            \* sdp().empty()
          /\ UNCHANGED <<pending, cseq, toServer, recordRequested>>
    /\ UNCHANGED <<iceCandidates, session, take, offered, hasty>>

\* Slip: a candidate does not wait for the session.
iceCandidateAtOnce ==
    /\ streamer # "none"
    /\ offered < MaxOffers
    /\ offered' = offered + 1
    /\ ClientRequest("SETUP", session, <<<<take, offered + 1>>>>)
    /\ UNCHANGED <<streamer, iceCandidates, recordRequested, session, clientLink,
                   take, hasty>>

iceCandidate ==
    /\ streamer # "none"
    /\ offered < MaxOffers
    /\ offered' = offered + 1
    /\ IF session = NoSessionId
       THEN /\ iceCandidates' = Append(iceCandidates, <<take, offered + 1>>)
            /\ UNCHANGED <<pending, cseq, toServer>>
       ELSE /\ ClientRequest("SETUP", session, <<<<take, offered + 1>>>>)
            /\ UNCHANGED iceCandidates
    /\ UNCHANGED <<streamer, recordRequested, session, clientLink, take, hasty>>

eos ==
    /\ streamer # "none"
    /\ ClientDisconnect
    /\ UNCHANGED <<streamer, iceCandidates, recordRequested, session, pending, cseq,
                   toServer, take, offered, hasty>>

-----------------------------------------------------------------------------
(* What the server says.                                                   *)

\* The server's Public header lists what a recording needs, or it does not.
onOptionsResponse(r, m) ==
    \/ /\ m.head = "OK"
       /\ Settled(r)
       /\ UNCHANGED <<streamer, iceCandidates, recordRequested, session, cseq,
                      clientLink, toServer, take, offered, hasty>>
    \/ ClientClose

\* Slip: the candidates that waited for the session are not sent.
onRecordResponseNoFlush(r, m) ==
    \/ /\ m.head # "OK"
       /\ ClientClose
    \/ /\ m.head = "OK"
       /\ streamer # "none"
       /\ session' = m.session
       /\ iceCandidates' = <<>>
       /\ Settled(r)
       /\ UNCHANGED <<streamer, recordRequested, cseq, clientLink, toServer, take,
                      offered, hasty>>

\* setRemoteSdp() on a streamer that stopRecord has destroyed is a null
\* pointer's method.
onRecordResponse(r, m) ==
    \/ /\ m.head # "OK"
       /\ ClientClose
    \/ /\ m.head = "OK"
       /\ streamer = "none"
       /\ ClientGone("crashed")
    \/ /\ m.head = "OK"
       /\ streamer # "none"
       /\ session' = m.session
       /\ iceCandidates' = <<>>
       /\ IF iceCandidates = <<>>
          THEN Settled(r) /\ UNCHANGED <<cseq, toServer>>
          ELSE RequestAfter({r}, "SETUP", m.session, iceCandidates)
       /\ UNCHANGED <<streamer, recordRequested, clientLink, take, offered, hasty>>

onSetupResponse(r, m) ==
    IF m.head = "OK" /\ m.session = session
    THEN /\ Settled(r)
         /\ UNCHANGED <<streamer, iceCandidates, recordRequested, session, cseq,
                        clientLink, toServer, take, offered, hasty>>
    ELSE ClientClose

onTeardownResponse(r) ==
    /\ Settled(r)
    /\ UNCHANGED <<streamer, iceCandidates, recordRequested, session, cseq,
                   clientLink, toServer, take, offered, hasty>>

\* Session::handleResponse: no such request is a protocol error.
ClientHandleResponse(m) ==
    \/ /\ \A r \in pending : r.cseq # m.cseq
       /\ ClientClose
    \/ \E r \in pending :
          /\ r.cseq = m.cseq
          /\ \/ r.head = "OPTIONS" /\ onOptionsResponse(r, m)
             \/ r.head = "RECORD" /\ onRecordResponse(r, m)
             \/ r.head = "SETUP" /\ onSetupResponse(r, m)
             \/ r.head = "TEARDOWN" /\ onTeardownResponse(r)

onSetupRequest(m) ==
    IF m.session = session
    THEN /\ ClientResponds(m)
         /\ UNCHANGED <<streamer, iceCandidates, recordRequested, session, pending,
                        cseq, clientLink, take, offered, hasty>>
    ELSE ClientClose

\* TEARDOWN, like every other request, is left to the default handler.
ClientHandleRequest(m) ==
    IF m.head = "SETUP" THEN onSetupRequest(m) ELSE ClientClose

ClientReceives(m) ==
    /\ clientLink \in {"open", "terminating"}
    /\ \/ m.kind = "request" /\ ClientHandleRequest(m)
       \/ m.kind = "response" /\ ClientHandleResponse(m)

-----------------------------------------------------------------------------
ClientInit ==
    /\ SignallingInit
    /\ streamer = "none"
    /\ iceCandidates = <<>>
    /\ recordRequested = FALSE
    /\ session = NoSessionId
    /\ take = 0
    /\ offered = 0
    /\ hasty = {}

ClientOwnStep ==
    \/ startRecord
    \/ stopRecord
    \/ streamerPrepared
    \/ iceCandidate
    \/ eos
    \/ ClientWriteable
    \/ ClientConnectionLost
=============================================================================
