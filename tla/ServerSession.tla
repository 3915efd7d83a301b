---------------------------- MODULE ServerSession ----------------------------
(***************************************************************************)
(* One WebRTSP signalling connection as the server sees it:                *)
(* rtsp::ServerSession (RtspSession/ServerSession.cpp) on top of the base  *)
(* rtsp::Session (RtspSession/Session.cpp).                                *)
(*                                                                         *)
(* The environment is the remote client, whose n-th request carries CSeq n *)
(* (Session::createRequest on its side), and one WebRTCPeer per media      *)
(* session, which lives in the RtStreaming submodule and is known here     *)
(* only by its three callbacks: prepared, iceCandidate and eos.            *)
(*                                                                         *)
(* A candidate is its number in the order the peer gathered it; an SDP is  *)
(* only empty or not; CSeqs do not wrap here (module CSeqPool covers the   *)
(* wrap).  Connection teardown has the two forms of the code: disconnect() *)
(* only marks the connection, which stays alive until its next writeable   *)
(* callback, and a handler that returns false closes it at once.           *)
(***************************************************************************)
EXTENDS Naturals, Sequences, FiniteSets

CONSTANTS
    MediaTypes,     \* the kinds of media session this server offers
    RefusedMethods, \* the methods authorize() may refuse (RECORD has its own check)
    MaxSessions,    \* bound: media session ids
    MaxRequests,    \* bound: requests of the client
    MaxCandidates   \* bound: candidates one peer gathers

AllTypes == {"Describe", "Record", "Subscribe"}

Methods == {"OPTIONS", "LIST", "DESCRIBE", "SETUP", "PLAY", "SUBSCRIBE",
            "RECORD", "TEARDOWN", "GET_PARAMETER", "SET_PARAMETER"}

ASSUME MediaTypesAssumption == MediaTypes \subseteq AllTypes
ASSUME RefusedMethodsAssumption == RefusedMethods \subseteq Methods \ {"RECORD"}
ASSUME BoundsAssumption ==
    /\ MaxSessions \in Nat
    /\ MaxRequests \in Nat
    /\ MaxCandidates \in Nat

VARIABLES
    mediaSessions,  \* Private::mediaSessions; NoSession where the map has no entry
    nextSessionId,  \* Private::_nextSessionId
    sentRequests,   \* Session::_sentRequests, a set of messages keyed by CSeq
    nextCSeq,       \* Session::_nextCSeq
    link,           \* SessionData: "open", "terminating" (terminateSession) or "closed"
    wire,           \* messages handed to the transport while it could still write them
    inbox,          \* history: the requests the handlers accepted, the n-th has CSeq n
    gathered        \* history: how many candidates each session's peer gathered

vars == <<mediaSessions, nextSessionId, sentRequests, nextCSeq,
          link, wire, inbox, gathered>>

-----------------------------------------------------------------------------
SessionId == 1..MaxSessions

NoId == 0           \* an empty MediaSessionId, also an id this server never issued

InvalidCSeq == 0    \* RtspParser/Common.h

MediaSession == [type     : AllTypes \cup {"None"},
                 cseq     : Nat,
                 queue    : Seq(Nat),
                 prepared : BOOLEAN,
                 playing  : BOOLEAN,
                 remote   : Nat]

NoSession == [type |-> "None", cseq |-> InvalidCSeq, queue |-> <<>>,
              prepared |-> FALSE, playing |-> FALSE, remote |-> 0]

\* Slip: the session remembers the next request's CSeq instead of its own.
NewSessionNextCSeq(type, cseq) ==
    [NoSession EXCEPT !.type = type, !.cseq = cseq + 1]

NewSession(type, cseq) ==
    [NoSession EXCEPT !.type = type, !.cseq = cseq]

Live(s) == s \in SessionId /\ mediaSessions[s].type # "None"

\* Messages: "head" is the method of a request and the status of a response.
Request(method, cseq, s, body) ==
    [kind |-> "request", head |-> method, cseq |-> cseq, session |-> s, body |-> body]

Response(status, cseq, s) ==
    [kind |-> "response", head |-> status, cseq |-> cseq, session |-> s, body |-> <<>>]

Statuses == {"OK", "BAD_REQUEST", "UNAUTHORIZED", "NOT_FOUND",
             "BAD_GATEWAY", "SERVICE_UNAVAILABLE"}

Message == [kind : {"request", "response"}, head : Methods \cup Statuses,
            cseq : Nat, session : Nat, body : Seq(Nat)]

\* A body of a client's SETUP: the well-formed lines before the first malformed one.
SetupBody == [lines : Nat, malformed : BOOLEAN]

NoBody == [lines |-> 0, malformed |-> FALSE]

ClientRequest == [method : Methods, session : Nat, body : SetupBody]

-----------------------------------------------------------------------------
(* What the transport does with the messages of a step.  Once              *)
(* terminateSession is set the writeable callback closes the connection    *)
(* before it looks at the queue, so nothing handed over later is written.  *)
Emit(messages) ==
    wire' = IF link = "open" THEN wire \o messages ELSE wire

disconnect ==
    link' = IF link = "open" THEN "terminating" ELSE link

\* A handler returned false or the connection ended: the session is deleted.
Close ==
    /\ link' = "closed"
    /\ mediaSessions' = [s \in SessionId |-> NoSession]
    /\ sentRequests' = {}
    /\ UNCHANGED <<nextSessionId, nextCSeq, wire, inbox, gathered>>

\* createRequest + sendRequest, after the messages "first" of the same handler.
SendRequest(first, method, s, body) ==
    LET request == Request(method, nextCSeq, s, body) IN
    /\ sentRequests' = sentRequests \cup {request}
    /\ nextCSeq' = nextCSeq + 1
    /\ Emit(Append(first, request))

\* The messages "first", then sendIceCandidates: the whole queue in one SETUP.
SendThenFlush(first, s) ==
    IF mediaSessions[s].queue = <<>>
    THEN Emit(first) /\ UNCHANGED <<sentRequests, nextCSeq>>
    ELSE SendRequest(first, "SETUP", s, mediaSessions[s].queue)

-----------------------------------------------------------------------------
(* Callbacks of the peers.  Only a live session has a peer, and a peer     *)
(* reports prepared once; a callback that was already under way when the   *)
(* session was erased is LateCallback.                                     *)

\* Slip: sendIceCandidates does not clear the queue it has sent.
PreparedKeepingQueue(s) == [mediaSessions EXCEPT ![s].prepared = TRUE]

Flushed(mediaSession) == [mediaSession EXCEPT !.queue = <<>>]

Prepared(s) ==
    [mediaSessions EXCEPT ![s] = Flushed([@ EXCEPT !.prepared = TRUE])]

\* Each of the three prepared callbacks, when the peer has no SDP to offer.
PreparedWithoutSdp(s) ==
    /\ Live(s)
    /\ ~mediaSessions[s].prepared
    /\ mediaSessions' = [mediaSessions EXCEPT ![s].prepared = TRUE]
    /\ disconnect
    /\ UNCHANGED <<nextSessionId, sentRequests, nextCSeq, wire, inbox, gathered>>

\* streamerPrepared and recorderPrepared: answer the initial request.
InitialRequestAnswered(s, type) ==
    /\ Live(s)
    /\ mediaSessions[s].type = type
    /\ ~mediaSessions[s].prepared
    /\ mediaSessions' = Prepared(s)
    /\ SendThenFlush(<<Response("OK", mediaSessions[s].cseq, s)>>, s)
    /\ UNCHANGED <<nextSessionId, link, inbox, gathered>>

streamerPrepared(s) == InitialRequestAnswered(s, "Describe")

recorderPrepared(s) == InitialRequestAnswered(s, "Record")

\* The streamer of a subscription is announced by a RECORD request.
recordToClientStreamerPrepared(s) ==
    /\ Live(s)
    /\ mediaSessions[s].type = "Subscribe"
    /\ ~mediaSessions[s].prepared
    /\ mediaSessions' = Prepared(s)
    /\ LET record == Request("RECORD", nextCSeq, s, <<>>)
           setup == Request("SETUP", nextCSeq + 1, s, mediaSessions[s].queue)
           sent == IF mediaSessions[s].queue = <<>>
                   THEN <<record>> ELSE <<record, setup>>
       IN  /\ sentRequests' = sentRequests \cup {sent[i] : i \in DOMAIN sent}
           /\ nextCSeq' = nextCSeq + Len(sent)
           /\ Emit(sent)
    /\ UNCHANGED <<nextSessionId, link, inbox, gathered>>

\* Slip: every candidate is relayed at once, prepared or not.
iceCandidateAtOnce(s) ==
    /\ Live(s)
    /\ gathered[s] < MaxCandidates
    /\ gathered' = [gathered EXCEPT ![s] = @ + 1]
    /\ SendRequest(<<>>, "SETUP", s, <<gathered[s] + 1>>)
    /\ UNCHANGED <<mediaSessions, nextSessionId, link, inbox>>

\* Slip: a waiting candidate is put in front of the earlier ones.
iceCandidateInFront(s) ==
    /\ Live(s)
    /\ ~mediaSessions[s].prepared
    /\ gathered[s] < MaxCandidates
    /\ gathered' = [gathered EXCEPT ![s] = @ + 1]
    /\ mediaSessions' =
           [mediaSessions EXCEPT ![s].queue = <<gathered[s] + 1>> \o @]
    /\ UNCHANGED <<nextSessionId, sentRequests, nextCSeq, link, wire, inbox>>

iceCandidate(s) ==
    /\ Live(s)
    /\ gathered[s] < MaxCandidates
    /\ gathered' = [gathered EXCEPT ![s] = @ + 1]
    /\ IF mediaSessions[s].prepared
       THEN /\ SendRequest(<<>>, "SETUP", s, <<gathered[s] + 1>>)
            /\ UNCHANGED mediaSessions
       ELSE /\ mediaSessions' =
                   [mediaSessions EXCEPT ![s].queue = Append(@, gathered[s] + 1)]
            /\ UNCHANGED <<sentRequests, nextCSeq, wire>>
    /\ UNCHANGED <<nextSessionId, link, inbox>>

\* Slip: eos does not look at prepared.
eosAlwaysBadGateway(s) ==
    /\ Live(s)
    /\ Emit(<<Response("BAD_GATEWAY", mediaSessions[s].cseq, s)>>)
    /\ mediaSessions' = [mediaSessions EXCEPT ![s] = NoSession]
    /\ UNCHANGED <<nextSessionId, sentRequests, nextCSeq, link, inbox, gathered>>

\* Slip: eos of a session that is not prepared just forgets it.
eosUnanswered(s) ==
    /\ Live(s)
    /\ IF mediaSessions[s].prepared
       THEN SendRequest(<<>>, "TEARDOWN", s, <<>>)
       ELSE UNCHANGED <<sentRequests, nextCSeq, wire>>
    /\ mediaSessions' = [mediaSessions EXCEPT ![s] = NoSession]
    /\ UNCHANGED <<nextSessionId, link, inbox, gathered>>

eos(s) ==
    /\ Live(s)
    /\ IF mediaSessions[s].prepared
       THEN SendRequest(<<>>, "TEARDOWN", s, <<>>)
       ELSE /\ Emit(<<Response("BAD_GATEWAY", mediaSessions[s].cseq, s)>>)
            /\ UNCHANGED <<sentRequests, nextCSeq>>
    /\ mediaSessions' = [mediaSessions EXCEPT ![s] = NoSession]
    /\ UNCHANGED <<nextSessionId, link, inbox, gathered>>

\* Every callback but a subscription's prepared answers an unknown id this way
\* (that one asserts, and without assertions ignores it).
LateCallback(s) ==
    /\ link = "open"
    /\ s < nextSessionId
    /\ ~Live(s)
    /\ disconnect
    /\ UNCHANGED <<mediaSessions, nextSessionId, sentRequests, nextCSeq,
                   wire, inbox, gathered>>

-----------------------------------------------------------------------------
(* Requests of the client.  A client names a session the server has told   *)
(* it about, whether or not it still exists, or NoId.                      *)

Announced(s) == \E i \in 1..Len(wire) : wire[i].session = s

CanReceive ==
    /\ link # "closed"
    /\ Len(inbox) < MaxRequests

Accept(method, s, body) ==
    /\ CanReceive
    /\ inbox' = Append(inbox, [method |-> method, session |-> s, body |-> body])

\* The handler returned false.
Reject == CanReceive /\ Close

Answer(status, s) == Emit(<<Response(status, Len(inbox) + 1, s)>>)

\* authorize() refused a request other than RECORD.
Unauthorized(method) ==
    /\ Accept(method, NoId, NoBody)
    /\ Answer("UNAUTHORIZED", NoId)
    /\ UNCHANGED <<mediaSessions, nextSessionId, sentRequests, nextCSeq, link, gathered>>

\* LIST, SUBSCRIBE and SET_PARAMETER are left to Session's default handlers.
DefaultRequestHandler == Reject

onOptionsRequest ==
    /\ Accept("OPTIONS", NoId, NoBody)
    /\ Answer("OK", NoId)
    /\ UNCHANGED <<mediaSessions, nextSessionId, sentRequests, nextCSeq, link, gathered>>

onGetParameterRequest ==
    /\ Accept("GET_PARAMETER", NoId, NoBody)
    /\ \E status \in {"OK", "BAD_REQUEST"} : Answer(status, NoId)
    /\ UNCHANGED <<mediaSessions, nextSessionId, sentRequests, nextCSeq, link, gathered>>

\* Slip: nextSessionId() does not advance.
CreateMediaSessionSameId(session) ==
    /\ session.type \in MediaTypes
    /\ nextSessionId \in SessionId
    /\ mediaSessions' = [mediaSessions EXCEPT ![nextSessionId] = session]
    /\ UNCHANGED nextSessionId

\* nextSessionId() and mediaSessions.emplace(): the id is fresh.
CreateMediaSession(session) ==
    /\ session.type \in MediaTypes
    /\ nextSessionId \in SessionId
    /\ mediaSessions' = [mediaSessions EXCEPT ![nextSessionId] = session]
    /\ nextSessionId' = nextSessionId + 1

onDescribeRequest ==
    /\ Accept("DESCRIBE", NoId, NoBody)
    /\ \/ /\ \E status \in {"NOT_FOUND", "SERVICE_UNAVAILABLE"} : Answer(status, NoId)
          /\ UNCHANGED <<mediaSessions, nextSessionId>>
       \/ /\ CreateMediaSession(NewSession("Describe", Len(inbox) + 1))
          /\ UNCHANGED wire
    /\ UNCHANGED <<sentRequests, nextCSeq, link, gathered>>

\* Rejected when disabled, not authorized, without SDP or without a peer;
\* otherwise setRemoteSdp() and play() follow prepare() at once.
onRecordRequest ==
    \/ Reject
    \/ /\ Accept("RECORD", NoId, NoBody)
       /\ CreateMediaSession([NewSession("Record", Len(inbox) + 1) EXCEPT !.playing = TRUE])
       /\ UNCHANGED <<sentRequests, nextCSeq, link, wire, gathered>>

\* Slip: a malformed line ends the loop instead of failing the request.
onSetupRequestPartial(s, body) ==
    IF Live(s)
    THEN /\ Accept("SETUP", s, body)
         /\ mediaSessions' = [mediaSessions EXCEPT ![s].remote = @ + body.lines]
         /\ Answer("OK", s)
         /\ UNCHANGED <<nextSessionId, sentRequests, nextCSeq, link, gathered>>
    ELSE Reject

\* Lines are applied one by one; the first malformed one fails the request.
onSetupRequest(s, body) ==
    IF Live(s) /\ ~body.malformed
    THEN /\ Accept("SETUP", s, body)
         /\ mediaSessions' = [mediaSessions EXCEPT ![s].remote = @ + body.lines]
         /\ Answer("OK", s)
         /\ UNCHANGED <<nextSessionId, sentRequests, nextCSeq, link, gathered>>
    ELSE Reject

onPlayRequest(s) ==
    IF Live(s) /\ mediaSessions[s].type = "Describe"
    THEN /\ Accept("PLAY", s, NoBody)
         /\ mediaSessions' = [mediaSessions EXCEPT ![s].playing = TRUE]
         /\ Answer("OK", s)
         /\ UNCHANGED <<nextSessionId, sentRequests, nextCSeq, link, gathered>>
    ELSE Reject

\* Slip: TEARDOWN stops the peer but keeps the session.
onTeardownRequestKeeping(s) ==
    IF Live(s)
    THEN /\ Accept("TEARDOWN", s, NoBody)
         /\ Answer("OK", s)
         /\ UNCHANGED <<mediaSessions, nextSessionId, sentRequests, nextCSeq, link, gathered>>
    ELSE Reject

onTeardownRequest(s) ==
    IF Live(s)
    THEN /\ Accept("TEARDOWN", s, NoBody)
         /\ mediaSessions' = [mediaSessions EXCEPT ![s] = NoSession]
         /\ Answer("OK", s)
         /\ UNCHANGED <<nextSessionId, sentRequests, nextCSeq, link, gathered>>
    ELSE Reject

\* Called by the application for an id it took from nextSessionId().
startRecordToClient ==
    /\ link # "closed"
    /\ \/ /\ CreateMediaSession(NewSession("Subscribe", InvalidCSeq))
          /\ UNCHANGED link
       \/ /\ "Subscribe" \in MediaTypes                  \* no peer
          /\ disconnect
          /\ UNCHANGED <<mediaSessions, nextSessionId>>
    /\ UNCHANGED <<sentRequests, nextCSeq, wire, inbox, gathered>>

-----------------------------------------------------------------------------
(* Responses of the client to the requests it has been sent.               *)

\* What the virtual onXxxResponse handlers decide.
ResponseAccepted(request, ok) ==
    /\ ok
    /\ request.head = "RECORD" => /\ Live(request.session)
                                  /\ mediaSessions[request.session].type = "Subscribe"

handleResponse(cseq, ok) ==
    /\ link # "closed"
    /\ \E i \in 1..Len(wire) : wire[i].kind = "request" /\ wire[i].cseq = cseq
    /\ LET found == {r \in sentRequests : r.cseq = cseq} IN
       IF \E r \in found : ResponseAccepted(r, ok)
       THEN /\ sentRequests' = sentRequests \ found
            /\ mediaSessions' =
                   [s \in SessionId |->
                       IF \E r \in found : r.head = "RECORD" /\ r.session = s
                       THEN [mediaSessions[s] EXCEPT !.playing = TRUE]
                       ELSE mediaSessions[s]]
            /\ UNCHANGED <<nextSessionId, nextCSeq, link, wire, inbox, gathered>>
       ELSE Close

\* The writeable callback finds terminateSession set.
Writeable ==
    /\ link = "terminating"
    /\ Close

\* The client went away, or the network did.
ConnectionLost ==
    /\ link # "closed"
    /\ Close

-----------------------------------------------------------------------------
Init ==
    /\ mediaSessions = [s \in SessionId |-> NoSession]
    /\ nextSessionId = 1
    /\ sentRequests = {}
    /\ nextCSeq = 1
    /\ link = "open"
    /\ wire = <<>>
    /\ inbox = <<>>
    /\ gathered = [s \in SessionId |-> 0]

KnownToClient == {s \in SessionId : Announced(s)} \cup {NoId}

SetupBodies == [lines : 0..1, malformed : BOOLEAN]

PeerCallback(s) ==
    \/ PreparedWithoutSdp(s)
    \/ streamerPrepared(s)
    \/ recorderPrepared(s)
    \/ recordToClientStreamerPrepared(s)
    \/ iceCandidate(s)
    \/ eos(s)
    \/ LateCallback(s)

ClientStep ==
    \/ \E method \in RefusedMethods : Unauthorized(method)
    \/ DefaultRequestHandler
    \/ onOptionsRequest
    \/ onGetParameterRequest
    \/ onDescribeRequest
    \/ onRecordRequest
    \/ \E s \in KnownToClient :
          \/ \E body \in SetupBodies : onSetupRequest(s, body)
          \/ onPlayRequest(s)
          \/ onTeardownRequest(s)
    \/ \E cseq \in 1..(nextCSeq - 1), ok \in BOOLEAN : handleResponse(cseq, ok)

Next ==
    \/ \E s \in SessionId : PeerCallback(s)
    \/ ClientStep
    \/ startRecordToClient
    \/ Writeable
    \/ ConnectionLost

Spec == Init /\ [][Next]_vars

\* A peer ends its preparation, one way or the other.
PeerSettles(s) ==
    \/ PreparedWithoutSdp(s)
    \/ streamerPrepared(s)
    \/ recorderPrepared(s)
    \/ recordToClientStreamerPrepared(s)
    \/ eos(s) /\ ~mediaSessions[s].prepared
=============================================================================
