--------------------------- MODULE ClientSession ---------------------------
(***************************************************************************)
(* A client that plays a stream of a WebRTSP server: ClientSession         *)
(* (RtspSession/ClientSession.cpp).  It either asks for a stream with      *)
(* DESCRIBE, and offers to PLAY once its receiver is prepared, or          *)
(* subscribes and waits for the server to RECORD to it.                    *)
(*                                                                         *)
(* The receiver is a WebRTCPeer, known only by its three callbacks, which  *)
(* it makes after prepare().  What the server says is an argument of the   *)
(* handlers: module PlayCall brings the two sides together.  A candidate   *)
(* is its number in the order its peer gathered it.                        *)
(***************************************************************************)
EXTENDS ClientSignalling

CONSTANT MaxOffers      \* bound: candidates the receiver gathers

VARIABLES
    receiver,           \* Private::receiver: "created", "preparing" (prepare() was
                        \* called), "prepared" or "none"
    playing,            \* receiver->play() was called
    session,            \* Private::session
    recordRequestCSeq,  \* Private::recordRequestCSeq
    offered,            \* history: how many candidates the receiver gathered
    given               \* history: the server's candidates the receiver was given

InvalidCSeq == 0    \* RtspParser/Common.h

-----------------------------------------------------------------------------
(* The session and its receiver are deleted with the connection.           *)
ClientClose ==
    /\ clientLink' = "closed"
    /\ receiver' = "none"
    /\ playing' = FALSE
    /\ session' = NoSessionId
    /\ recordRequestCSeq' = InvalidCSeq
    /\ pending' = {}
    /\ UNCHANGED <<cseq, toServer, offered, given>>

ClientWriteable ==
    /\ clientLink = "terminating"
    /\ ClientClose

ClientConnectionLost ==
    /\ clientLink \in {"open", "terminating"}
    /\ ClientClose

-----------------------------------------------------------------------------
(* The receiver's callbacks.                                               *)

\* Slip: the receiver plays what it has only asked for.
receiverPreparedPlaying ==
    /\ receiver = "preparing"
    /\ receiver' = "prepared"
    /\ playing' = TRUE
    /\ recordRequestCSeq' = InvalidCSeq
    /\ IF recordRequestCSeq # InvalidCSeq
       THEN /\ ClientResponds([cseq |-> recordRequestCSeq, session |-> session])
            /\ UNCHANGED <<pending, cseq>>
       ELSE ClientRequest("PLAY", session, <<>>)
    /\ UNCHANGED <<session, clientLink, offered, given>>

receiverPrepared ==
    /\ receiver = "preparing"
    /\ receiver' = "prepared"
    /\ \/ /\ ClientDisconnect                            \* sdp().empty()
          /\ UNCHANGED <<playing, recordRequestCSeq, pending, cseq, toServer>>
       \/ /\ recordRequestCSeq # InvalidCSeq
          /\ ClientResponds([cseq |-> recordRequestCSeq, session |-> session])
          /\ playing' = TRUE
          /\ recordRequestCSeq' = InvalidCSeq
          /\ UNCHANGED <<pending, cseq, clientLink>>
       \/ /\ recordRequestCSeq = InvalidCSeq
          /\ ClientRequest("PLAY", session, <<>>)
          /\ UNCHANGED <<playing, recordRequestCSeq, clientLink>>
    /\ UNCHANGED <<session, offered, given>>

\* A candidate is sent at once: prepare() was not called without a session.
iceCandidate ==
    /\ receiver \in {"preparing", "prepared"}
    /\ offered < MaxOffers
    /\ offered' = offered + 1
    /\ ClientRequest("SETUP", session, <<offered + 1>>)
    /\ UNCHANGED <<receiver, playing, session, recordRequestCSeq, clientLink, given>>

eos ==
    /\ receiver \in {"preparing", "prepared"}
    /\ ClientDisconnect
    /\ UNCHANGED <<receiver, playing, session, recordRequestCSeq, offered, given,
                   pending, cseq, toServer>>

-----------------------------------------------------------------------------
(* Responses of the server.                                                *)

\* The server's Public header decides, and the virtual playSupportState and
\* subscribeSupportState.
onOptionsResponse(r, m) ==
    \/ ClientClose
    \/ /\ m.head = "OK"
       /\ \E method \in {"DESCRIBE", "SUBSCRIBE"} : RequestAfter({r}, method, NoSessionId, <<>>)
       /\ UNCHANGED <<receiver, playing, session, recordRequestCSeq, clientLink, offered, given>>

onDescribeResponse(r, m) ==
    IF m.head = "OK" /\ m.session # NoSessionId
    THEN /\ Settled(r)
         /\ session' = m.session
         /\ receiver' = "preparing"
         /\ UNCHANGED <<playing, recordRequestCSeq, offered, given, cseq, clientLink, toServer>>
    ELSE ClientClose

onSubscribeResponse(r, m) ==
    IF m.head = "OK" /\ m.session # NoSessionId
    THEN /\ Settled(r)
         /\ session' = m.session
         /\ UNCHANGED <<receiver, playing, recordRequestCSeq, offered, given, cseq,
                        clientLink, toServer>>
    ELSE ClientClose

onSetupResponse(r, m) ==
    IF m.head = "OK" /\ m.session = session
    THEN /\ Settled(r)
         /\ UNCHANGED <<receiver, playing, session, recordRequestCSeq, offered, given,
                        cseq, clientLink, toServer>>
    ELSE ClientClose

onPlayResponse(r, m) ==
    IF m.head = "OK" /\ m.session = session
    THEN /\ Settled(r)
         /\ playing' = TRUE
         /\ UNCHANGED <<receiver, session, recordRequestCSeq, offered, given, cseq,
                        clientLink, toServer>>
    ELSE ClientClose

\* Session::handleResponse: no such request is a protocol error.
ClientHandleResponse(m) ==
    \/ /\ \A r \in pending : r.cseq # m.cseq
       /\ ClientClose
    \/ \E r \in pending :
          /\ r.cseq = m.cseq
          /\ \/ r.head = "OPTIONS" /\ onOptionsResponse(r, m)
             \/ r.head = "DESCRIBE" /\ onDescribeResponse(r, m)
             \/ r.head = "SUBSCRIBE" /\ onSubscribeResponse(r, m)
             \/ r.head = "SETUP" /\ onSetupResponse(r, m)
             \/ r.head = "PLAY" /\ onPlayResponse(r, m)

-----------------------------------------------------------------------------
(* Requests of the server.                                                 *)

onRecordRequest(m) ==
    IF m.session = session
    THEN /\ recordRequestCSeq' = m.cseq
         /\ receiver' = "preparing"
         /\ UNCHANGED <<playing, session, offered, given, pending, cseq, clientLink, toServer>>
    ELSE ClientClose

onSetupRequest(m) ==
    IF m.session = session
    THEN /\ given' = given \o m.body
         /\ ClientResponds(m)
         /\ UNCHANGED <<receiver, playing, session, recordRequestCSeq, offered,
                        pending, cseq, clientLink>>
    ELSE ClientClose

\* TEARDOWN, like every other request, is left to the default handler.
ClientHandleRequest(m) ==
    \/ m.head = "RECORD" /\ onRecordRequest(m)
    \/ m.head = "SETUP" /\ onSetupRequest(m)
    \/ m.head \notin {"RECORD", "SETUP"} /\ ClientClose

ClientReceives(m) ==
    /\ clientLink \in {"open", "terminating"}
    /\ \/ m.kind = "request" /\ ClientHandleRequest(m)
       \/ m.kind = "response" /\ ClientHandleResponse(m)

-----------------------------------------------------------------------------
ClientInit ==
    /\ SignallingInit
    /\ receiver = "created"
    /\ playing = FALSE
    /\ session = NoSessionId
    /\ recordRequestCSeq = InvalidCSeq
    /\ offered = 0
    /\ given = <<>>

ClientOwnStep ==
    \/ receiverPrepared
    \/ iceCandidate
    \/ eos
    \/ ClientWriteable
    \/ ClientConnectionLost
=============================================================================
