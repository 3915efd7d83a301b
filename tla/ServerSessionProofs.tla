------------------------- MODULE ServerSessionProofs -------------------------
(***************************************************************************)
(* Proofs about ServerSession, for every server configuration and every    *)
(* bound: what it owes and what it has said of its sessions, and that it   *)
(* implements MediaDialog.                                                 *)
(***************************************************************************)
EXTENDS ServerSessionProps, SequenceTheorems, FiniteSetTheorems, WellFoundedInduction, TLAPS

-----------------------------------------------------------------------------
(* Type correctness.                                                       *)

LEMMA RequestType ==
    ASSUME NEW method \in Methods, NEW cseq \in Nat, NEW s \in Nat, NEW body \in Seq(Nat)
    PROVE  Request(method, cseq, s, body) \in Message
BY DEF Request, Message

LEMMA ResponseType ==
    ASSUME NEW status \in Statuses, NEW cseq \in Nat, NEW s \in Nat
    PROVE  Response(status, cseq, s) \in Message
BY DEF Response, Message

LEMMA NewSessionType ==
    ASSUME NEW type \in AllTypes, NEW cseq \in Nat
    PROVE  /\ NewSession(type, cseq) \in MediaSession
           /\ NoSession \in MediaSession
<1>1. NoSession \in MediaSession
  BY DEF NoSession, MediaSession, InvalidCSeq, AllTypes
<1>2. [NoSession EXCEPT !.type = type] \in MediaSession
  BY <1>1 DEF MediaSession
<1>3. NewSession(type, cseq) = [[NoSession EXCEPT !.type = type] EXCEPT !.cseq = cseq]
  BY DEF NewSession, NoSession
<1> QED
  BY <1>1, <1>2, <1>3 DEF MediaSession

LEMMA FlushedType ==
    ASSUME NEW m \in MediaSession
    PROVE  Flushed(m) \in MediaSession
<1>1. <<>> \in Seq(Nat)
  OBVIOUS
<1> QED
  BY <1>1 DEF Flushed, MediaSession

LEMMA SessionIdNat == SessionId \subseteq Nat /\ NoId \in Nat
BY BoundsAssumption DEF SessionId, NoId

LEMMA EmitType ==
    ASSUME TypeOK, NEW messages \in Seq(Message), Emit(messages)
    PROVE  wire' \in Seq(Message)
BY DEF TypeOK, Emit

LEMMA SendRequestType ==
    ASSUME TypeOK, NEW first \in Seq(Message), NEW method \in Methods,
           NEW s \in Nat, NEW body \in Seq(Nat), SendRequest(first, method, s, body)
    PROVE  /\ wire' \in Seq(Message)
           /\ sentRequests' \subseteq Message
           /\ nextCSeq' \in Nat \ {0}
<1> DEFINE request == Request(method, nextCSeq, s, body)
<1>1. request \in Message
  BY RequestType DEF TypeOK
<1>2. Append(first, request) \in Seq(Message)
  BY <1>1
<1>3. Emit(Append(first, request))
  BY DEF SendRequest
<1>4. wire' \in Seq(Message)
  BY <1>2, <1>3, EmitType
<1>5. sentRequests' = sentRequests \cup {request} /\ nextCSeq' = nextCSeq + 1
  BY DEF SendRequest
<1> QED
  BY <1>1, <1>4, <1>5 DEF TypeOK

LEMMA CloseType ==
    ASSUME TypeOK, Close
    PROVE  TypeOK'
<1>1. NoSession \in MediaSession
  BY DEF NoSession, MediaSession, InvalidCSeq, AllTypes
<1> QED
  BY <1>1 DEF TypeOK, Close

LEMMA AcceptType ==
    ASSUME TypeOK, NEW method \in Methods, NEW s \in Nat, NEW body \in SetupBody,
           Accept(method, s, body)
    PROVE  inbox' \in Seq(ClientRequest)
BY DEF TypeOK, Accept, ClientRequest

LEMMA AnswerType ==
    ASSUME TypeOK, NEW status \in Statuses, NEW s \in Nat, Answer(status, s)
    PROVE  wire' \in Seq(Message)
<1> DEFINE response == Response(status, Len(inbox) + 1, s)
<1>1. response \in Message
  BY ResponseType DEF TypeOK
<1>2. <<response>> \in Seq(Message)
  BY <1>1
<1>3. Emit(<<response>>)
  BY DEF Answer
<1> QED
  BY <1>2, <1>3, EmitType

LEMMA CreateMediaSessionType ==
    ASSUME TypeOK, NEW session \in MediaSession, CreateMediaSession(session)
    PROVE  /\ mediaSessions' \in [SessionId -> MediaSession]
           /\ nextSessionId' \in 1..(MaxSessions + 1)
BY BoundsAssumption DEF TypeOK, CreateMediaSession, SessionId

\* The fields a handler may set keep a media session a media session.
LEMMA SessionUpdateType ==
    ASSUME TypeOK, NEW s \in SessionId
    PROVE  /\ [mediaSessions EXCEPT ![s].prepared = TRUE] \in [SessionId -> MediaSession]
           /\ Prepared(s) \in [SessionId -> MediaSession]
           /\ [mediaSessions EXCEPT ![s].playing = TRUE] \in [SessionId -> MediaSession]
           /\ [mediaSessions EXCEPT ![s] = NoSession] \in [SessionId -> MediaSession]
           /\ \A n \in Nat : [mediaSessions EXCEPT ![s].remote = @ + n]
                                 \in [SessionId -> MediaSession]
           /\ \A n \in Nat : [mediaSessions EXCEPT ![s].queue = Append(@, n)]
                                 \in [SessionId -> MediaSession]
<1>1. NoSession \in MediaSession
  BY DEF NoSession, MediaSession, InvalidCSeq, AllTypes
<1>2. mediaSessions \in [SessionId -> MediaSession]
  BY DEF TypeOK
<1>3. [mediaSessions EXCEPT ![s] = NoSession] \in [SessionId -> MediaSession]
  BY <1>1, <1>2
<1>4. \A m \in MediaSession : [mediaSessions EXCEPT ![s] = m] \in [SessionId -> MediaSession]
  BY <1>2
<1> DEFINE old == mediaSessions[s]
<1>5. old \in MediaSession
  BY <1>2
<1>6. /\ [old EXCEPT !.prepared = TRUE] \in MediaSession
      /\ [old EXCEPT !.playing = TRUE] \in MediaSession
      /\ \A n \in Nat : [old EXCEPT !.remote = old.remote + n] \in MediaSession
      /\ \A n \in Nat : [old EXCEPT !.queue = Append(old.queue, n)] \in MediaSession
  <2>1. \A n \in Nat : [old EXCEPT !.remote = old.remote + n] \in MediaSession
    BY <1>5 DEF MediaSession
  <2>2. \A n \in Nat : [old EXCEPT !.queue = Append(old.queue, n)] \in MediaSession
    <3>1. \A n \in Nat : Append(old.queue, n) \in Seq(Nat)
      BY <1>5 DEF MediaSession
    <3> QED
      BY <1>5, <3>1 DEF MediaSession
  <2> QED
    BY <1>5, <2>1, <2>2 DEF MediaSession
<1>7. Flushed([old EXCEPT !.prepared = TRUE]) \in MediaSession
  BY <1>6, FlushedType
<1>8. Prepared(s) = [mediaSessions EXCEPT ![s] = Flushed([old EXCEPT !.prepared = TRUE])]
  BY DEF Prepared
<1> QED
  BY <1>3, <1>4, <1>6, <1>7, <1>8

LEMMA TypeInit == Init => TypeOK
<1>1. NoSession \in MediaSession
  BY DEF NoSession, MediaSession, InvalidCSeq, AllTypes
<1> QED
  BY <1>1, BoundsAssumption DEF Init, TypeOK, SessionId

LEMMA InitialRequestAnsweredType ==
    ASSUME TypeOK, NEW s \in SessionId, NEW type \in AllTypes, InitialRequestAnswered(s, type)
    PROVE  TypeOK'
<1>1. mediaSessions' \in [SessionId -> MediaSession]
  BY SessionUpdateType DEF InitialRequestAnswered
<1>2. wire' \in Seq(Message) /\ sentRequests' \subseteq Message /\ nextCSeq' \in Nat \ {0}
  <2> DEFINE response == Response("OK", mediaSessions[s].cseq, s)
  <2>1. SendThenFlush(<<response>>, s)
    BY DEF InitialRequestAnswered
  <2>2. mediaSessions[s] \in MediaSession /\ s \in Nat
    BY SessionIdNat DEF TypeOK
  <2>3. response \in Message
    BY <2>2, ResponseType DEF Statuses, MediaSession
  <2>4. <<response>> \in Seq(Message)
    BY <2>3
  <2>5. CASE mediaSessions[s].queue = <<>>
    BY <2>1, <2>4, <2>5, EmitType DEF SendThenFlush, TypeOK
  <2>6. CASE mediaSessions[s].queue # <<>>
    <3>1. SendRequest(<<response>>, "SETUP", s, mediaSessions[s].queue)
      BY <2>1, <2>6 DEF SendThenFlush
    <3> QED
      BY <2>2, <2>4, <3>1, SendRequestType DEF Methods, MediaSession
  <2> QED
    BY <2>5, <2>6
<1> QED
  BY <1>1, <1>2 DEF InitialRequestAnswered, TypeOK

LEMMA PreparedWithoutSdpType ==
    ASSUME TypeOK, NEW s \in SessionId, PreparedWithoutSdp(s)
    PROVE  TypeOK'
<1>1. mediaSessions' \in [SessionId -> MediaSession]
  BY SessionUpdateType DEF PreparedWithoutSdp
<1> QED
  BY <1>1 DEF PreparedWithoutSdp, TypeOK, disconnect

LEMMA recordToClientStreamerPreparedType ==
    ASSUME TypeOK, NEW s \in SessionId, recordToClientStreamerPrepared(s)
    PROVE  TypeOK'
<1> DEFINE record == Request("RECORD", nextCSeq, s, <<>>)
           setup == Request("SETUP", nextCSeq + 1, s, mediaSessions[s].queue)
           sent == IF mediaSessions[s].queue = <<>> THEN <<record>> ELSE <<record, setup>>
<1>1. mediaSessions' \in [SessionId -> MediaSession]
  BY SessionUpdateType DEF recordToClientStreamerPrepared
<1>2. record \in Message /\ setup \in Message
  <2>1. mediaSessions[s].queue \in Seq(Nat) /\ s \in Nat /\ nextCSeq \in Nat
    BY SessionIdNat DEF TypeOK, MediaSession
  <2>2. <<>> \in Seq(Nat)
    OBVIOUS
  <2>3. "RECORD" \in Methods /\ "SETUP" \in Methods
    BY DEF Methods
  <2>4. record \in Message
    BY <2>1, <2>2, <2>3, RequestType
  <2>5. setup \in Message
    BY <2>1, <2>3, RequestType
  <2> QED
    BY <2>4, <2>5
<1>3. sent \in Seq(Message) /\ Len(sent) \in Nat
  BY <1>2
<1>4. /\ sentRequests' = sentRequests \cup {sent[i] : i \in DOMAIN sent}
      /\ nextCSeq' = nextCSeq + Len(sent)
      /\ Emit(sent)
      /\ UNCHANGED <<nextSessionId, link, inbox, gathered>>
  BY DEF recordToClientStreamerPrepared
<1>5. {sent[i] : i \in DOMAIN sent} \subseteq Message
  BY <1>3
<1>6. wire' \in Seq(Message)
  BY <1>3, <1>4, EmitType
<1> QED
  BY <1>1, <1>3, <1>4, <1>5, <1>6 DEF TypeOK

LEMMA iceCandidateType ==
    ASSUME TypeOK, NEW s \in SessionId, iceCandidate(s)
    PROVE  TypeOK'
<1>1. gathered[s] + 1 \in Nat /\ s \in Nat
  BY SessionIdNat DEF TypeOK
<1>2. gathered' \in [SessionId -> Nat]
  BY <1>1 DEF TypeOK, iceCandidate
<1>3. CASE mediaSessions[s].prepared
  <2>1. SendRequest(<<>>, "SETUP", s, <<gathered[s] + 1>>)
    BY <1>3 DEF iceCandidate
  <2>2. wire' \in Seq(Message) /\ sentRequests' \subseteq Message /\ nextCSeq' \in Nat \ {0}
    <3>1. <<>> \in Seq(Message) /\ <<gathered[s] + 1>> \in Seq(Nat) /\ "SETUP" \in Methods
      BY <1>1 DEF Methods
    <3> QED
      BY <1>1, <2>1, <3>1, SendRequestType
  <2> QED
    BY <1>2, <1>3, <2>2 DEF iceCandidate, TypeOK
<1>4. CASE ~mediaSessions[s].prepared
  <2>1. mediaSessions' = [mediaSessions EXCEPT ![s].queue = Append(@, gathered[s] + 1)]
    BY <1>4 DEF iceCandidate
  <2>2. mediaSessions' \in [SessionId -> MediaSession]
    BY <1>1, <2>1, SessionUpdateType
  <2> QED
    BY <1>2, <1>4, <2>2 DEF iceCandidate, TypeOK
<1> QED
  BY <1>3, <1>4

LEMMA eosType ==
    ASSUME TypeOK, NEW s \in SessionId, eos(s)
    PROVE  TypeOK'
<1>1. mediaSessions' \in [SessionId -> MediaSession]
  BY SessionUpdateType DEF eos
<1>2. s \in Nat /\ mediaSessions[s].cseq \in Nat
  BY SessionIdNat DEF TypeOK, MediaSession
<1>3. wire' \in Seq(Message) /\ sentRequests' \subseteq Message /\ nextCSeq' \in Nat \ {0}
  <2>1. CASE mediaSessions[s].prepared
    <3>1. SendRequest(<<>>, "TEARDOWN", s, <<>>)
      BY <2>1 DEF eos
    <3>2. <<>> \in Seq(Message) /\ <<>> \in Seq(Nat) /\ "TEARDOWN" \in Methods
      BY DEF Methods
    <3> QED
      BY <1>2, <3>1, <3>2, SendRequestType
  <2>2. CASE ~mediaSessions[s].prepared
    <3> DEFINE response == Response("BAD_GATEWAY", mediaSessions[s].cseq, s)
    <3>1. Emit(<<response>>) /\ UNCHANGED <<sentRequests, nextCSeq>>
      BY <2>2 DEF eos
    <3>2. response \in Message
      BY <1>2, ResponseType DEF Statuses
    <3>3. <<response>> \in Seq(Message)
      BY <3>2
    <3> QED
      BY <3>1, <3>3, EmitType DEF TypeOK
  <2> QED
    BY <2>1, <2>2
<1> QED
  BY <1>1, <1>3 DEF eos, TypeOK

LEMMA PeerCallbackType ==
    ASSUME TypeOK, NEW s \in SessionId, PeerCallback(s)
    PROVE  TypeOK'
<1>1. CASE streamerPrepared(s)
  BY <1>1, InitialRequestAnsweredType DEF streamerPrepared, AllTypes
<1>2. CASE recorderPrepared(s)
  BY <1>2, InitialRequestAnsweredType DEF recorderPrepared, AllTypes
<1>3. CASE recordToClientStreamerPrepared(s)
  BY <1>3, recordToClientStreamerPreparedType
<1>4. CASE iceCandidate(s)
  BY <1>4, iceCandidateType
<1>5. CASE eos(s)
  BY <1>5, eosType
<1>6. CASE LateCallback(s)
  BY <1>6 DEF LateCallback, disconnect, TypeOK
<1>7. CASE PreparedWithoutSdp(s)
  BY <1>7, PreparedWithoutSdpType
<1> QED
  BY <1>1, <1>2, <1>3, <1>4, <1>5, <1>6, <1>7 DEF PeerCallback

\* The lines of a SETUP are the client's, however many it has.
LEMMA onSetupRequestType ==
    ASSUME TypeOK, NEW s \in KnownToClient, NEW body \in SetupBody, onSetupRequest(s, body)
    PROVE  TypeOK'
<1>1. s \in Nat
  BY SessionIdNat DEF KnownToClient
<1>2. CASE Reject
  BY <1>2, CloseType DEF Reject
<1>3. CASE Live(s) /\ ~Reject
  <2>1. /\ Accept("SETUP", s, body)
        /\ mediaSessions' = [mediaSessions EXCEPT ![s].remote = @ + body.lines]
        /\ Answer("OK", s)
        /\ UNCHANGED <<nextSessionId, sentRequests, nextCSeq, link, gathered>>
    BY <1>3 DEF onSetupRequest
  <2>2. mediaSessions' \in [SessionId -> MediaSession]
    <3>1. body.lines \in Nat /\ s \in SessionId
      BY <1>3 DEF SetupBody, Live
    <3> QED
      BY <2>1, <3>1, SessionUpdateType
  <2>3. wire' \in Seq(Message)
    BY <1>1, <2>1, AnswerType DEF Statuses
  <2>4. inbox' \in Seq(ClientRequest)
    BY <1>1, <2>1, AcceptType DEF Methods
  <2> QED
    BY <2>1, <2>2, <2>3, <2>4 DEF TypeOK
<1> QED
  BY <1>2, <1>3 DEF onSetupRequest

LEMMA ClientStepType ==
    ASSUME TypeOK, ClientStep
    PROVE  TypeOK'
<1>1. NoId \in Nat /\ NoBody \in SetupBody /\ Len(inbox) + 1 \in Nat
  BY DEF NoId, NoBody, SetupBody, TypeOK
<1>2. ASSUME NEW method \in RefusedMethods, Unauthorized(method)
      PROVE  TypeOK'
  <2>1. method \in Methods /\ "UNAUTHORIZED" \in Statuses
    BY RefusedMethodsAssumption DEF Statuses
  <2>2. wire' \in Seq(Message)
    BY <1>1, <1>2, <2>1, AnswerType DEF Unauthorized
  <2>3. inbox' \in Seq(ClientRequest)
    BY <1>1, <1>2, <2>1, AcceptType DEF Unauthorized
  <2> QED
    BY <1>2, <2>2, <2>3 DEF Unauthorized, TypeOK
<1>3. CASE DefaultRequestHandler
  BY <1>3, CloseType DEF DefaultRequestHandler, Reject
<1>4. CASE onOptionsRequest
  <2>1. wire' \in Seq(Message)
    BY <1>1, <1>4, AnswerType DEF onOptionsRequest, Statuses
  <2>2. inbox' \in Seq(ClientRequest)
    BY <1>1, <1>4, AcceptType DEF onOptionsRequest, Methods
  <2> QED
    BY <1>4, <2>1, <2>2 DEF onOptionsRequest, TypeOK
<1>5. CASE onGetParameterRequest
  <2>1. wire' \in Seq(Message)
    BY <1>1, <1>5, AnswerType DEF onGetParameterRequest, Statuses
  <2>2. inbox' \in Seq(ClientRequest)
    BY <1>1, <1>5, AcceptType DEF onGetParameterRequest, Methods
  <2> QED
    BY <1>5, <2>1, <2>2 DEF onGetParameterRequest, TypeOK
<1>6. CASE onDescribeRequest
  <2>1. inbox' \in Seq(ClientRequest)
    BY <1>1, <1>6, AcceptType DEF onDescribeRequest, Methods
  <2>2. CASE \E status \in {"NOT_FOUND", "SERVICE_UNAVAILABLE"} :
                 Answer(status, NoId) /\ UNCHANGED <<mediaSessions, nextSessionId>>
    <3>1. wire' \in Seq(Message)
      BY <1>1, <2>2, AnswerType DEF Statuses
    <3> QED
      BY <1>6, <2>1, <2>2, <3>1 DEF onDescribeRequest, TypeOK
  <2>3. CASE CreateMediaSession(NewSession("Describe", Len(inbox) + 1)) /\ UNCHANGED wire
    <3>1. NewSession("Describe", Len(inbox) + 1) \in MediaSession
      BY <1>1, NewSessionType DEF AllTypes
    <3> QED
      BY <1>6, <2>1, <2>3, <3>1, CreateMediaSessionType DEF onDescribeRequest, TypeOK
  <2> QED
    BY <1>6, <2>2, <2>3 DEF onDescribeRequest
<1>7. CASE onRecordRequest
  <2> DEFINE session == [NewSession("Record", Len(inbox) + 1) EXCEPT !.playing = TRUE]
  <2>1. CASE Reject
    BY <2>1, CloseType DEF Reject
  <2>2. CASE /\ Accept("RECORD", NoId, NoBody)
             /\ CreateMediaSession(session)
             /\ UNCHANGED <<sentRequests, nextCSeq, link, wire, gathered>>
    <3>1. inbox' \in Seq(ClientRequest)
      BY <1>1, <2>2, AcceptType DEF Methods
    <3>2. NewSession("Record", Len(inbox) + 1) \in MediaSession
      BY <1>1, NewSessionType DEF AllTypes
    <3>3. session \in MediaSession
      BY <3>2 DEF MediaSession
    <3> QED
      BY <2>2, <3>1, <3>3, CreateMediaSessionType DEF TypeOK
  <2> QED
    BY <1>7, <2>1, <2>2 DEF onRecordRequest
<1>8. ASSUME NEW s \in KnownToClient, NEW body \in SetupBodies, onSetupRequest(s, body)
      PROVE  TypeOK'
  BY <1>8, onSetupRequestType DEF SetupBodies, SetupBody
<1>9. ASSUME NEW s \in KnownToClient, onPlayRequest(s)
      PROVE  TypeOK'
  <2>1. s \in Nat
    BY SessionIdNat DEF KnownToClient
  <2>2. CASE Reject
    BY <2>2, CloseType DEF Reject
  <2>3. CASE Live(s) /\ ~Reject
    <3>1. /\ Accept("PLAY", s, NoBody)
          /\ mediaSessions' = [mediaSessions EXCEPT ![s].playing = TRUE]
          /\ Answer("OK", s)
          /\ UNCHANGED <<nextSessionId, sentRequests, nextCSeq, link, gathered>>
      BY <1>9, <2>3 DEF onPlayRequest
    <3>2. mediaSessions' \in [SessionId -> MediaSession]
      BY <2>3, <3>1, SessionUpdateType DEF Live
    <3>3. wire' \in Seq(Message)
      BY <2>1, <3>1, AnswerType DEF Statuses
    <3>4. inbox' \in Seq(ClientRequest)
      BY <1>1, <2>1, <3>1, AcceptType DEF Methods
    <3> QED
      BY <3>1, <3>2, <3>3, <3>4 DEF TypeOK
  <2> QED
    BY <1>9, <2>2, <2>3 DEF onPlayRequest
<1>10. ASSUME NEW s \in KnownToClient, onTeardownRequest(s)
       PROVE  TypeOK'
  <2>1. s \in Nat
    BY SessionIdNat DEF KnownToClient
  <2>2. CASE Reject
    BY <2>2, CloseType DEF Reject
  <2>3. CASE Live(s)
    <3>1. /\ Accept("TEARDOWN", s, NoBody)
          /\ mediaSessions' = [mediaSessions EXCEPT ![s] = NoSession]
          /\ Answer("OK", s)
          /\ UNCHANGED <<nextSessionId, sentRequests, nextCSeq, link, gathered>>
      BY <1>10, <2>3 DEF onTeardownRequest
    <3>2. mediaSessions' \in [SessionId -> MediaSession]
      BY <2>3, <3>1, SessionUpdateType DEF Live
    <3>3. wire' \in Seq(Message)
      BY <2>1, <3>1, AnswerType DEF Statuses
    <3>4. inbox' \in Seq(ClientRequest)
      BY <1>1, <2>1, <3>1, AcceptType DEF Methods
    <3> QED
      BY <3>1, <3>2, <3>3, <3>4 DEF TypeOK
  <2> QED
    BY <1>10, <2>2, <2>3 DEF onTeardownRequest
<1>11. ASSUME NEW cseq \in 1..(nextCSeq - 1), NEW ok \in BOOLEAN, handleResponse(cseq, ok)
       PROVE  TypeOK'
  <2>1. CASE Close
    BY <2>1, CloseType
  <2>2. CASE ~Close
    <3> DEFINE found == {r \in sentRequests : r.cseq = cseq}
    <3>1. /\ sentRequests' = sentRequests \ found
          /\ mediaSessions' =
                 [s \in SessionId |->
                     IF \E r \in found : r.head = "RECORD" /\ r.session = s
                     THEN [mediaSessions[s] EXCEPT !.playing = TRUE]
                     ELSE mediaSessions[s]]
          /\ UNCHANGED <<nextSessionId, nextCSeq, link, wire, inbox, gathered>>
      BY <1>11, <2>2 DEF handleResponse
    <3>2. ASSUME NEW s \in SessionId
          PROVE  [mediaSessions[s] EXCEPT !.playing = TRUE] \in MediaSession
      BY DEF TypeOK, MediaSession
    <3>3. mediaSessions' \in [SessionId -> MediaSession]
      BY <3>1, <3>2 DEF TypeOK
    <3> QED
      BY <3>1, <3>3 DEF TypeOK
  <2> QED
    BY <2>1, <2>2
<1> QED
  BY <1>2, <1>3, <1>4, <1>5, <1>6, <1>7, <1>8, <1>9, <1>10, <1>11 DEF ClientStep

LEMMA TypeStep ==
    ASSUME TypeOK, [Next]_vars
    PROVE  TypeOK'
<1>1. ASSUME NEW s \in SessionId, PeerCallback(s)
      PROVE  TypeOK'
  BY <1>1, PeerCallbackType
<1>2. CASE ClientStep
  BY <1>2, ClientStepType
<1>3. CASE startRecordToClient
  <2>1. NewSession("Subscribe", InvalidCSeq) \in MediaSession
    BY NewSessionType DEF InvalidCSeq, AllTypes
  <2>2. CASE CreateMediaSession(NewSession("Subscribe", InvalidCSeq)) /\ UNCHANGED link
    BY <1>3, <2>1, <2>2, CreateMediaSessionType DEF startRecordToClient, TypeOK
  <2>3. CASE disconnect /\ UNCHANGED <<mediaSessions, nextSessionId>>
    BY <1>3, <2>3 DEF startRecordToClient, disconnect, TypeOK
  <2> QED
    BY <1>3, <2>2, <2>3 DEF startRecordToClient
<1>4. CASE Writeable
  BY <1>4, CloseType DEF Writeable
<1>5. CASE ConnectionLost
  BY <1>5, CloseType DEF ConnectionLost
<1>6. CASE UNCHANGED vars
  BY <1>6 DEF vars, TypeOK
<1> QED
  BY <1>1, <1>2, <1>3, <1>4, <1>5, <1>6 DEF Next

\* The state always has the shape the code's types give it, whatever the
\* peers and the client do.
THEOREM TypeCorrect == Spec => []TypeOK
BY TypeInit, TypeStep, PTL DEF Spec

-----------------------------------------------------------------------------
(* The dialog with the client.  Every step appends some messages "new" to  *)
(* the wire; what the invariants need of a step is said about "new" and    *)
(* about the sessions that owe an answer or have been announced.           *)

Grows(new) ==
    /\ new \in Seq(Message)
    /\ wire' = wire \o new
    /\ Len(inbox) <= Len(inbox')
    /\ \A c \in 1..Len(inbox) : inbox'[c] = inbox[c]

\* At most one response, first, to a request that has none yet.
NewAnswer(new) ==
    \A k \in 1..Len(new) :
        new[k].kind = "response" =>
            /\ k = 1
            /\ new[k].cseq <= Len(inbox')
            /\ new[k].cseq # InvalidCSeq => Unanswered(new[k].cseq)

StillOwes(s, new) ==
    /\ Owes(s)
    /\ mediaSessions'[s].cseq = mediaSessions[s].cseq
    /\ \A k \in 1..Len(new) :
           new[k].kind = "response" => new[k].cseq # mediaSessions[s].cseq

\* Session s was created by the request of this step.
StartsToOwe(s, new) ==
    /\ s = nextSessionId
    /\ new = <<>>
    /\ Len(inbox') = Len(inbox) + 1
    /\ mediaSessions'[s].cseq = Len(inbox')
    /\ inbox'[Len(inbox')].method \in {"DESCRIBE", "RECORD"}

AnswerStep(new) ==
    /\ Grows(new)
    /\ NewAnswer(new)
    /\ \A s \in SessionId : Owes(s)' => StillOwes(s, new) \/ StartsToOwe(s, new)
    /\ \A s \in SessionId : mediaSessions'[s].type = "Subscribe"
                               => mediaSessions'[s].cseq = InvalidCSeq

AnnounceStep(new) ==
    /\ Grows(new)
    /\ \A s \in SessionId :
           Live(s)' /\ mediaSessions'[s].prepared /\ link' = "open" =>
               \/ Live(s) /\ mediaSessions[s].prepared /\ link = "open"
               \/ \E k \in 1..Len(new) : IsAnnouncement(new[k], s, inbox')
    /\ \A k \in 1..Len(new) :
           new[k].kind = "request" /\ new[k].head # "RECORD" =>
               \/ \E j \in 1..Len(wire) : Announces(j, new[k].session)
               \/ \E l \in 1..(k - 1) : IsAnnouncement(new[l], new[k].session, inbox')

LEMMA WireGrows ==
    ASSUME TypeOK, NEW new \in Seq(Message), wire' = wire \o new
    PROVE  /\ Len(wire) \in Nat /\ Len(new) \in Nat
           /\ Len(wire') = Len(wire) + Len(new)
           /\ \A i \in 1..Len(wire) : wire'[i] = wire[i]
           /\ \A k \in 1..Len(new) : wire'[Len(wire) + k] = new[k]
           /\ \A i \in 1..Len(wire') : i \in 1..Len(wire)
                  \/ \E k \in 1..Len(new) : i = Len(wire) + k
<1>1. wire \in Seq(Message)
  BY DEF TypeOK
<1>2. /\ Len(wire') = Len(wire) + Len(new)
      /\ \A i \in 1..Len(wire) : wire'[i] = wire[i]
  BY <1>1, ConcatProperties
<1>3. \A k \in 1..Len(new) : wire'[Len(wire) + k] = new[k]
  BY <1>1, ConcatProperties
<1>4. Len(wire) \in Nat /\ Len(new) \in Nat
  BY <1>1
<1>5. ASSUME NEW i \in 1..Len(wire'), i \notin 1..Len(wire)
      PROVE  \E k \in 1..Len(new) : i = Len(wire) + k
  <2>1. i - Len(wire) \in 1..Len(new) /\ i = Len(wire) + (i - Len(wire))
    BY <1>2, <1>4, <1>5
  <2> QED
    BY <2>1
<1> QED
  BY <1>2, <1>3, <1>4, <1>5

LEMMA AnswerInvStep ==
    ASSUME TypeOK, TypeOK', AnswerInv, NEW new, AnswerStep(new)
    PROVE  AnswerInv'
<1>1. /\ new \in Seq(Message) /\ wire' = wire \o new
      /\ Len(inbox) \in Nat /\ Len(inbox') \in Nat /\ Len(inbox) <= Len(inbox')
      /\ \A c \in 1..Len(inbox) : inbox'[c] = inbox[c]
  BY DEF AnswerStep, Grows, TypeOK
<1>2. /\ Len(wire) \in Nat /\ Len(new) \in Nat
      /\ Len(wire') = Len(wire) + Len(new)
      /\ \A i \in 1..Len(wire) : wire'[i] = wire[i]
      /\ \A k \in 1..Len(new) : wire'[Len(wire) + k] = new[k]
      /\ \A i \in 1..Len(wire') : i \in 1..Len(wire)
             \/ \E k \in 1..Len(new) : i = Len(wire) + k
  BY <1>1, WireGrows
<1>3. /\ \A i \in 1..Len(wire) : wire[i].cseq \in Nat
      /\ \A k \in 1..Len(new) : new[k].cseq \in Nat
  <2>1. /\ \A i \in 1..Len(wire) : wire[i] \in Message
        /\ \A k \in 1..Len(new) : new[k] \in Message
    BY <1>1 DEF TypeOK
  <2> QED
    BY <2>1 DEF Message
<1>4. \A i \in 1..Len(wire') : IsResponse(i)' => wire'[i].cseq <= Len(inbox')
  BY <1>1, <1>2, <1>3 DEF AnswerInv, AnswerStep, NewAnswer, IsResponse
<1>5. AnsweredAtMostOnce'
  <2> SUFFICES ASSUME NEW i \in 1..Len(wire'), NEW j \in 1..Len(wire'),
                      IsResponse(i)', IsResponse(j)', wire'[i].cseq = wire'[j].cseq,
                      wire'[i].cseq # InvalidCSeq
               PROVE  i = j
    BY DEF AnsweredAtMostOnce
  <2>1. CASE i \in 1..Len(wire) /\ j \in 1..Len(wire)
    BY <1>2, <2>1 DEF AnswerInv, AnsweredAtMostOnce, IsResponse
  <2>2. ASSUME NEW k \in 1..Len(new), new[k].kind = "response", new[k].cseq # InvalidCSeq,
               NEW h \in 1..Len(wire), IsResponse(h)
        PROVE  wire[h].cseq # new[k].cseq
    BY <2>2 DEF AnswerStep, NewAnswer, Unanswered
  <2>3. ASSUME NEW k \in 1..Len(new), new[k].kind = "response"
        PROVE  k = 1
    BY <2>3 DEF AnswerStep, NewAnswer
  <2>4. CASE i \in 1..Len(wire) /\ j \notin 1..Len(wire)
    <3>1. PICK k \in 1..Len(new) : j = Len(wire) + k
      BY <1>2, <2>4
    <3>2. wire'[j] = new[k] /\ wire'[i] = wire[i]
      BY <1>2, <2>4, <3>1
    <3> QED
      BY <2>2, <2>4, <3>2 DEF IsResponse
  <2>5. CASE i \notin 1..Len(wire) /\ j \in 1..Len(wire)
    <3>1. PICK k \in 1..Len(new) : i = Len(wire) + k
      BY <1>2, <2>5
    <3>2. wire'[i] = new[k] /\ wire'[j] = wire[j]
      BY <1>2, <2>5, <3>1
    <3> QED
      BY <2>2, <2>5, <3>2 DEF IsResponse
  <2>6. CASE i \notin 1..Len(wire) /\ j \notin 1..Len(wire)
    <3>1. PICK k \in 1..Len(new) : i = Len(wire) + k
      BY <1>2, <2>6
    <3>2. PICK l \in 1..Len(new) : j = Len(wire) + l
      BY <1>2, <2>6
    <3>3. wire'[i] = new[k] /\ wire'[j] = new[l]
      BY <1>2, <3>1, <3>2
    <3>4. k = 1 /\ l = 1
      BY <2>3, <3>3 DEF IsResponse
    <3> QED
      BY <3>1, <3>2, <3>4
  <2> QED
    BY <2>1, <2>4, <2>5, <2>6
<1>6. ASSUME NEW s \in SessionId, Owes(s)'
      PROVE  OwedRequest(s)'
  <2>1. CASE StillOwes(s, new)
    <3> DEFINE c == mediaSessions[s].cseq
    <3>1. OwedRequest(s)
      BY <2>1 DEF AnswerInv, StillOwes
    <3>2. c \in 1..Len(inbox') /\ inbox'[c].method \in {"DESCRIBE", "RECORD"}
      BY <1>1, <3>1 DEF OwedRequest
    <3>3. \A i \in 1..Len(wire') : IsResponse(i)' => wire'[i].cseq # c
      BY <1>2, <2>1, <3>1 DEF OwedRequest, Unanswered, StillOwes, IsResponse
    <3> QED
      BY <2>1, <3>2, <3>3 DEF OwedRequest, StillOwes, Unanswered
  <2>2. CASE StartsToOwe(s, new)
    <3>1. \A i \in 1..Len(wire') : IsResponse(i)' => wire'[i].cseq # Len(inbox) + 1
      BY <1>1, <1>2, <1>3, <2>2 DEF AnswerInv, StartsToOwe, IsResponse
    <3> QED
      BY <1>1, <2>2, <3>1 DEF OwedRequest, StartsToOwe, Unanswered
  <2> QED
    BY <1>6, <2>1, <2>2 DEF AnswerStep
<1>7. ASSUME NEW s \in SessionId, NEW t \in SessionId, Owes(s)', Owes(t)',
             mediaSessions'[s].cseq = mediaSessions'[t].cseq
      PROVE  s = t
  <2>1. ASSUME NEW u \in SessionId, StillOwes(u, new)
        PROVE  mediaSessions'[u].cseq \in 1..Len(inbox)
    BY <2>1 DEF AnswerInv, StillOwes, OwedRequest
  <2>2. ASSUME NEW u \in SessionId, StartsToOwe(u, new)
        PROVE  mediaSessions'[u].cseq \notin 1..Len(inbox) /\ u = nextSessionId
    BY <1>1, <2>2 DEF StartsToOwe
  <2>3. /\ StillOwes(s, new) \/ StartsToOwe(s, new)
        /\ StillOwes(t, new) \/ StartsToOwe(t, new)
    BY <1>7 DEF AnswerStep
  <2>4. CASE StillOwes(s, new) /\ StillOwes(t, new)
    BY <1>7, <2>4 DEF AnswerInv, StillOwes
  <2> QED
    BY <1>7, <2>1, <2>2, <2>3, <2>4
<1> QED
  BY <1>4, <1>5, <1>6, <1>7 DEF AnswerInv, AnswerStep

LEMMA AnnounceInvStep ==
    ASSUME TypeOK, TypeOK', AnnounceInv, NEW new, AnnounceStep(new)
    PROVE  AnnounceInv'
<1>1. /\ new \in Seq(Message) /\ wire' = wire \o new
      /\ Len(inbox) \in Nat /\ Len(inbox') \in Nat /\ Len(inbox) <= Len(inbox')
      /\ \A c \in 1..Len(inbox) : inbox'[c] = inbox[c]
  BY DEF AnnounceStep, Grows, TypeOK
<1>2. /\ Len(wire) \in Nat /\ Len(new) \in Nat
      /\ Len(wire') = Len(wire) + Len(new)
      /\ \A i \in 1..Len(wire) : wire'[i] = wire[i]
      /\ \A k \in 1..Len(new) : wire'[Len(wire) + k] = new[k]
      /\ \A i \in 1..Len(wire') : i \in 1..Len(wire)
             \/ \E k \in 1..Len(new) : i = Len(wire) + k
  BY <1>1, WireGrows
<1>3. ASSUME NEW j \in 1..Len(wire), NEW s, Announces(j, s)
      PROVE  j \in 1..Len(wire') /\ Announces(j, s)'
  BY <1>1, <1>2, <1>3 DEF Announces, IsAnnouncement
<1>4. ASSUME NEW k \in 1..Len(new), NEW s, IsAnnouncement(new[k], s, inbox'),
             NEW i, i = Len(wire) + k
      PROVE  i \in 1..Len(wire') /\ Announces(i, s)'
  <2>1. i \in 1..Len(wire') /\ wire'[i] = new[k]
    BY <1>2, <1>4
  <2> QED
    BY <1>4, <2>1 DEF Announces
<1>5. ASSUME NEW s \in SessionId, Live(s)', mediaSessions'[s].prepared, link' = "open"
      PROVE  \E j \in 1..Len(wire') : Announces(j, s)'
  <2>1. CASE Live(s) /\ mediaSessions[s].prepared /\ link = "open"
    BY <1>3, <2>1 DEF AnnounceInv
  <2>2. CASE \E k \in 1..Len(new) : IsAnnouncement(new[k], s, inbox')
    BY <1>4, <2>2
  <2> QED
    BY <1>5, <2>1, <2>2 DEF AnnounceStep
<1>6. ASSUME NEW i \in 1..Len(wire'), IsRequest(i)', wire'[i].head # "RECORD"
      PROVE  \E j \in 1..(i - 1) : Announces(j, wire[i].session)'
  <2>1. CASE i \in 1..Len(wire)
    <3>1. PICK j \in 1..(i - 1) : Announces(j, wire[i].session)
      BY <1>2, <1>6, <2>1 DEF AnnounceInv, AnnouncedFirst, IsRequest
    <3>2. j \in 1..Len(wire)
      BY <1>2, <2>1, <3>1
    <3> QED
      BY <1>2, <1>3, <2>1, <3>1, <3>2
  <2>2. CASE i \notin 1..Len(wire)
    <3>1. PICK k \in 1..Len(new) : i = Len(wire) + k
      BY <1>2, <2>2
    <3>2. wire'[i] = new[k]
      BY <1>2, <3>1
    <3>3. \/ \E j \in 1..Len(wire) : Announces(j, new[k].session)
          \/ \E l \in 1..(k - 1) : IsAnnouncement(new[l], new[k].session, inbox')
      BY <1>6, <3>2 DEF AnnounceStep, IsRequest
    <3>4. CASE \E j \in 1..Len(wire) : Announces(j, new[k].session)
      <4>1. PICK j \in 1..Len(wire) : Announces(j, new[k].session)
        BY <3>4
      <4>2. j \in 1..(i - 1)
        BY <1>2, <3>1
      <4> QED
        BY <1>3, <3>2, <4>1, <4>2
    <3>5. CASE \E l \in 1..(k - 1) : IsAnnouncement(new[l], new[k].session, inbox')
      <4>1. PICK l \in 1..(k - 1) : IsAnnouncement(new[l], new[k].session, inbox')
        BY <3>5
      <4>2. l \in 1..Len(new) /\ Len(wire) + l \in 1..(i - 1)
        BY <1>2, <3>1
      <4> QED
        BY <1>4, <3>2, <4>1, <4>2
    <3> QED
      BY <3>3, <3>4, <3>5
  <2> QED
    BY <2>1, <2>2
<1> QED
  BY <1>5, <1>6 DEF AnnounceInv, AnnouncedFirst

-----------------------------------------------------------------------------
(* Each action is such a step.                                             *)

Steps == \E new : AnswerStep(new) /\ AnnounceStep(new)

\* A session that is there after the step was there before, with the fields
\* the dialog depends on unchanged.
SessionsKept ==
    \A s \in SessionId : mediaSessions'[s].type # "None" =>
        /\ mediaSessions'[s].type = mediaSessions[s].type
        /\ mediaSessions'[s].cseq = mediaSessions[s].cseq
        /\ mediaSessions'[s].prepared = mediaSessions[s].prepared

LEMMA SubscribeNotNone == "Subscribe" # "None"
OBVIOUS

LEMMA AcceptGrows ==
    ASSUME TypeOK, NEW method, NEW s, NEW body, Accept(method, s, body)
    PROVE  /\ Len(inbox) \in Nat /\ Len(inbox') = Len(inbox) + 1
           /\ \A c \in 1..Len(inbox) : inbox'[c] = inbox[c]
           /\ inbox'[Len(inbox')].method = method
<1> DEFINE request == [method |-> method, session |-> s, body |-> body]
<1>1. inbox \in Seq(ClientRequest) /\ inbox' = Append(inbox, request)
  BY DEF TypeOK, Accept
<1>2. Len(inbox) \in Nat /\ Len(inbox') = Len(inbox) + 1
  BY <1>1
<1>3. \A c \in 1..Len(inbox) : inbox'[c] = inbox[c]
  BY <1>1
<1>4. inbox'[Len(inbox')] = request
  BY <1>1, <1>2
<1> QED
  BY <1>2, <1>3, <1>4

LEMMA EmptyGrows ==
    ASSUME TypeOK, wire' = wire, NEW requests \in Nat, requests = Len(inbox'),
           Len(inbox) <= requests, \A c \in 1..Len(inbox) : inbox'[c] = inbox[c]
    PROVE  Grows(<<>>)
<1>1. wire \in Seq(Message)
  BY DEF TypeOK
<1>2. <<>> \in Seq(Message) /\ wire \o <<>> = wire
  BY <1>1
<1> QED
  BY <1>2 DEF Grows

\* Nothing is sent, no request taken, no session created.
LEMMA QuietStep ==
    ASSUME TypeOK, AnswerInv, SessionsKept, wire' = wire, inbox' = inbox,
           link' = "open" => link = "open"
    PROVE  Steps
<1>1. Len(inbox) \in Nat
  BY DEF TypeOK
<1>2. Grows(<<>>)
  BY <1>1, EmptyGrows
<1>3. AnswerStep(<<>>)
  BY <1>2 DEF AnswerStep, NewAnswer, SessionsKept, StillOwes, Owes, Live, AnswerInv
<1>4. AnnounceStep(<<>>)
  BY <1>2 DEF AnnounceStep, SessionsKept, Live
<1> QED
  BY <1>3, <1>4 DEF Steps

LEMMA CloseStep ==
    ASSUME TypeOK, AnswerInv, Close
    PROVE  Steps
<1>1. SessionsKept
  BY DEF Close, SessionsKept, NoSession
<1> QED
  BY <1>1, QuietStep DEF Close

\* The messages of an Emit that the transport can still write.
Sent(messages) == IF link = "open" THEN messages ELSE <<>>

LEMMA AppendToOne ==
    ASSUME NEW a \in Message, NEW b \in Message
    PROVE  Append(<<a>>, b) = <<a, b>>
<1>1. <<a>> \in Seq(Message) /\ <<a, b>> \in Seq(Message)
  OBVIOUS
<1>2. Append(<<a>>, b) \in Seq(Message)
  BY <1>1
<1>3. Len(Append(<<a>>, b)) = 2 /\ Len(<<a, b>>) = 2
  BY <1>1
<1>4. \A i \in 1..2 : Append(<<a>>, b)[i] = <<a, b>>[i]
  BY <1>1
<1> QED
  BY <1>1, <1>2, <1>3, <1>4, SeqEqual

LEMMA EmitGrows ==
    ASSUME TypeOK, NEW messages \in Seq(Message), Emit(messages)
    PROVE  Sent(messages) \in Seq(Message) /\ wire' = wire \o Sent(messages)
<1>1. wire \in Seq(Message) /\ wire \o <<>> = wire
  BY DEF TypeOK
<1> QED
  BY <1>1 DEF Emit, Sent

\* Session s was created for a subscription: it owes no answer.
Subscribed(s) ==
    /\ mediaSessions'[s].type = "Subscribe"
    /\ mediaSessions'[s].cseq = InvalidCSeq
    /\ ~mediaSessions'[s].prepared

Kept(s) ==
    /\ mediaSessions'[s].type = mediaSessions[s].type
    /\ mediaSessions'[s].cseq = mediaSessions[s].cseq
    /\ mediaSessions'[s].prepared = mediaSessions[s].prepared

\* A request answered by its own handler, which may also create a subscription.
LEMMA AnsweredOrSubscribed ==
    ASSUME TypeOK, AnswerInv, link' = "open" => link = "open",
           \A t \in SessionId : mediaSessions'[t].type # "None" => Kept(t) \/ Subscribed(t),
           NEW method, NEW named, NEW body, Accept(method, named, body),
           NEW s \in Nat, NEW status \in Statuses, Answer(status, s)
    PROVE  Steps
<1> DEFINE response == Response(status, Len(inbox) + 1, s)
           new == Sent(<<response>>)
<1>1. /\ Len(inbox) \in Nat /\ Len(inbox') = Len(inbox) + 1
      /\ \A c \in 1..Len(inbox) : inbox'[c] = inbox[c]
  BY AcceptGrows
<1>2. response \in Message
  BY <1>1, ResponseType
<1>3. <<response>> \in Seq(Message) /\ Emit(<<response>>)
  BY <1>2 DEF Answer
<1>4. Grows(new)
  <2>1. new \in Seq(Message) /\ wire' = wire \o new
    BY <1>3, EmitGrows
  <2> QED
    BY <1>1, <2>1 DEF Grows
<1>5. response.cseq = Len(inbox) + 1 /\ response.kind = "response"
  BY DEF Response
<1>6. \A k \in 1..Len(new) : k = 1 /\ new[k] = response
  BY DEF Sent
<1>7. Unanswered(Len(inbox) + 1)
  <2>1. \A i \in 1..Len(wire) : wire[i] \in Message
    BY DEF TypeOK
  <2> QED
    BY <1>1, <2>1 DEF AnswerInv, Unanswered, Message
<1>8. NewAnswer(new)
  BY <1>1, <1>5, <1>6, <1>7 DEF NewAnswer
<1>9. ASSUME NEW t \in SessionId, Owes(t)'
      PROVE  StillOwes(t, new)
  <2>1. Owes(t) /\ mediaSessions'[t].cseq = mediaSessions[t].cseq
    BY <1>9 DEF Kept, Subscribed, Owes, Live
  <2>2. mediaSessions[t].cseq \in 1..Len(inbox)
    BY <2>1 DEF AnswerInv, OwedRequest
  <2> QED
    BY <1>1, <1>5, <1>6, <2>1, <2>2 DEF StillOwes
<1>10. AnswerStep(new)
  BY <1>4, <1>8, <1>9, SubscribeNotNone DEF AnswerStep, Kept, Subscribed, AnswerInv
<1>11. AnnounceStep(new)
  BY <1>4, <1>5, <1>6 DEF AnnounceStep, Kept, Subscribed, Live
<1> QED
  BY <1>10, <1>11 DEF Steps

\* A request answered by its own handler.
LEMMA AnsweredByHandler ==
    ASSUME TypeOK, AnswerInv, SessionsKept, UNCHANGED link,
           NEW method, NEW s \in Nat, NEW body, NEW status \in Statuses,
           Accept(method, s, body), Answer(status, s)
    PROVE  Steps
<1>1. \A t \in SessionId : mediaSessions'[t].type # "None" => Kept(t) \/ Subscribed(t)
  BY DEF SessionsKept, Kept
<1> QED
  BY <1>1, AnsweredOrSubscribed

\* A request that creates a media session and is answered later.
LEMMA AnsweredLater ==
    ASSUME TypeOK, AnswerInv, NEW method \in {"DESCRIBE", "RECORD"}, NEW s, NEW body,
           Accept(method, s, body), NEW session \in MediaSession,
           session.type # "Subscribe", session.cseq = Len(inbox) + 1, ~session.prepared,
           CreateMediaSession(session), UNCHANGED <<wire, link>>
    PROVE  Steps
<1>1. /\ Len(inbox) \in Nat /\ Len(inbox') = Len(inbox) + 1
      /\ \A c \in 1..Len(inbox) : inbox'[c] = inbox[c]
      /\ inbox'[Len(inbox')].method = method
  BY AcceptGrows
<1>2. Grows(<<>>)
  BY <1>1, EmptyGrows
<1>3. /\ nextSessionId \in SessionId
      /\ mediaSessions' = [mediaSessions EXCEPT ![nextSessionId] = session]
      /\ mediaSessions \in [SessionId -> MediaSession]
  BY DEF CreateMediaSession, TypeOK
<1>4. ASSUME NEW t \in SessionId, Owes(t)'
      PROVE  StillOwes(t, <<>>) \/ StartsToOwe(t, <<>>)
  <2>1. CASE t = nextSessionId
    BY <1>1, <1>3, <2>1 DEF StartsToOwe
  <2>2. CASE t # nextSessionId
    BY <1>3, <1>4, <2>2 DEF StillOwes, Owes, Live
  <2> QED
    BY <2>1, <2>2
<1>5. AnswerStep(<<>>)
  BY <1>2, <1>3, <1>4 DEF AnswerStep, NewAnswer, AnswerInv
<1>6. AnnounceStep(<<>>)
  BY <1>2, <1>3 DEF AnnounceStep, Live
<1> QED
  BY <1>5, <1>6 DEF Steps

\* Only requests are sent and no session starts to owe an answer.
LEMMA RequestsSent ==
    ASSUME TypeOK, AnswerInv, inbox' = inbox, NEW messages \in Seq(Message),
           Emit(messages), \A k \in 1..Len(messages) : messages[k].kind = "request",
           \A s \in SessionId : Owes(s)' =>
               Owes(s) /\ mediaSessions'[s].cseq = mediaSessions[s].cseq,
           \A s \in SessionId : mediaSessions'[s].type = "Subscribe" =>
               mediaSessions'[s].cseq = InvalidCSeq
    PROVE  Grows(Sent(messages)) /\ AnswerStep(Sent(messages))
<1> DEFINE new == Sent(messages)
<1>1. Grows(new)
  <2>1. new \in Seq(Message) /\ wire' = wire \o new
    BY EmitGrows
  <2>2. Len(inbox) \in Nat
    BY DEF TypeOK
  <2> QED
    BY <2>1, <2>2 DEF Grows
<1>2. \A k \in 1..Len(new) : new[k].kind # "response"
  BY DEF Sent
<1> QED
  BY <1>1, <1>2 DEF AnswerStep, NewAnswer, StillOwes

LEMMA InitialRequestAnsweredStep ==
    ASSUME TypeOK, AnswerInv, NEW s \in SessionId, NEW type \in {"Describe", "Record"},
           InitialRequestAnswered(s, type)
    PROVE  Steps
<1> DEFINE c == mediaSessions[s].cseq
           response == Response("OK", c, s)
           setup == Request("SETUP", nextCSeq, s, mediaSessions[s].queue)
           messages == IF mediaSessions[s].queue = <<>>
                       THEN <<response>> ELSE <<response, setup>>
           new == Sent(messages)
<1>1. /\ mediaSessions \in [SessionId -> MediaSession]
      /\ mediaSessions[s] \in MediaSession
      /\ s \in Nat /\ nextCSeq \in Nat /\ Len(inbox) \in Nat
  BY SessionIdNat DEF TypeOK
<1>2. OwedRequest(s) /\ Owes(s) /\ inbox' = inbox
  BY DEF InitialRequestAnswered, Owes, AnswerInv
<1>3. \A t \in SessionId : t # s => mediaSessions'[t] = mediaSessions[t]
  BY <1>1 DEF InitialRequestAnswered, Prepared
<1>4. /\ mediaSessions'[s].prepared
      /\ mediaSessions'[s].type = type
  BY <1>1 DEF InitialRequestAnswered, Prepared, Flushed, MediaSession
<1>5. \A t \in SessionId : Owes(t)' => t # s /\ Owes(t)
                                      /\ mediaSessions'[t].cseq = mediaSessions[t].cseq
  BY <1>3, <1>4 DEF Owes, Live
<1>6. \A t \in SessionId : mediaSessions'[t].type = "Subscribe"
                            => mediaSessions'[t].cseq = InvalidCSeq
  BY <1>3, <1>4 DEF AnswerInv
<1>7. SendThenFlush(<<response>>, s) /\ UNCHANGED link
  BY DEF InitialRequestAnswered
<1>8. response \in Message /\ setup \in Message
  <2>1. c \in Nat /\ mediaSessions[s].queue \in Seq(Nat)
    BY <1>1 DEF MediaSession
  <2>2. response \in Message
    BY <1>1, <2>1, ResponseType DEF Statuses
  <2>3. setup \in Message
    BY <1>1, <2>1, RequestType DEF Methods
  <2> QED
    BY <2>2, <2>3
<1>9. messages \in Seq(Message)
  BY <1>8
<1>10. Emit(messages)
  <2>1. Append(<<response>>, setup) = <<response, setup>>
    BY <1>8, AppendToOne
  <2>2. CASE mediaSessions[s].queue = <<>>
    BY <1>7, <2>2 DEF SendThenFlush
  <2>3. CASE mediaSessions[s].queue # <<>>
    <3>1. Emit(Append(<<response>>, setup))
      BY <1>7, <2>3 DEF SendThenFlush, SendRequest
    <3> QED
      BY <2>1, <2>3, <3>1
  <2> QED
    BY <2>2, <2>3
<1>11. new \in Seq(Message) /\ wire' = wire \o new
  BY <1>9, <1>10, EmitGrows
<1>12. Grows(new)
  BY <1>1, <1>2, <1>11 DEF Grows
<1>13. /\ response.kind = "response" /\ response.cseq = c
       /\ response.session = s /\ response.head = "OK"
       /\ setup.kind = "request" /\ setup.session = s
  BY DEF Response, Request
<1>14. /\ \A k \in 1..Len(new) : /\ k = 1 => new[k] = response
                                 /\ k # 1 => k = 2 /\ new[k] = setup
       /\ link = "open" => 1 \in 1..Len(new)
       /\ Len(new) \in Nat
  BY DEF Sent
<1>15. NewAnswer(new)
  BY <1>2, <1>13, <1>14 DEF NewAnswer, OwedRequest
<1>16. ASSUME NEW t \in SessionId, Owes(t)'
       PROVE  StillOwes(t, new)
  <2>1. Owes(t) /\ t # s /\ mediaSessions'[t].cseq = mediaSessions[t].cseq
    BY <1>5, <1>16
  <2>2. mediaSessions[t].cseq # c
    BY <1>2, <2>1 DEF AnswerInv
  <2> QED
    BY <1>13, <1>14, <2>1, <2>2 DEF StillOwes
<1>17. AnswerStep(new)
  BY <1>6, <1>12, <1>15, <1>16 DEF AnswerStep
<1>18. IsAnnouncement(response, s, inbox')
  BY <1>2, <1>13 DEF IsAnnouncement, OwedRequest
<1>19. ASSUME NEW t \in SessionId, Live(t)', mediaSessions'[t].prepared, link' = "open"
       PROVE  \/ Live(t) /\ mediaSessions[t].prepared /\ link = "open"
              \/ \E k \in 1..Len(new) : IsAnnouncement(new[k], t, inbox')
  <2>1. CASE t = s
    BY <1>7, <1>14, <1>18, <1>19, <2>1
  <2>2. CASE t # s
    BY <1>3, <1>7, <1>19, <2>2 DEF Live
  <2> QED
    BY <2>1, <2>2
<1>20. ASSUME NEW k \in 1..Len(new), new[k].kind = "request"
       PROVE  \E l \in 1..(k - 1) : IsAnnouncement(new[l], new[k].session, inbox')
  <2>1. k = 2 /\ new[k] = setup /\ 1 \in 1..Len(new)
    BY <1>13, <1>14, <1>20
  <2>2. 1 \in 1..(k - 1) /\ IsAnnouncement(new[1], new[k].session, inbox')
    BY <1>13, <1>14, <1>18, <2>1
  <2> QED
    BY <2>2
<1>21. AnnounceStep(new)
  BY <1>12, <1>19, <1>20 DEF AnnounceStep
<1> QED
  BY <1>17, <1>21 DEF Steps

LEMMA PreparedWithoutSdpStep ==
    ASSUME TypeOK, AnswerInv, NEW s \in SessionId, PreparedWithoutSdp(s)
    PROVE  Steps
<1>1. /\ mediaSessions \in [SessionId -> MediaSession]
      /\ mediaSessions[s] \in MediaSession
      /\ inbox' = inbox /\ wire' = wire
      /\ mediaSessions' = [mediaSessions EXCEPT ![s].prepared = TRUE]
  BY DEF TypeOK, PreparedWithoutSdp
<1>2. \A t \in SessionId : t # s => mediaSessions'[t] = mediaSessions[t]
  BY <1>1
<1>3. /\ mediaSessions'[s].prepared
      /\ mediaSessions'[s].type = mediaSessions[s].type
      /\ mediaSessions'[s].cseq = mediaSessions[s].cseq
  BY <1>1 DEF MediaSession
<1>4. \A t \in SessionId : Owes(t)' => Owes(t)
                                      /\ mediaSessions'[t].cseq = mediaSessions[t].cseq
  BY <1>2, <1>3 DEF Owes, Live
<1>5. \A t \in SessionId : mediaSessions'[t].type = "Subscribe"
                            => mediaSessions'[t].cseq = InvalidCSeq
  BY <1>2, <1>3 DEF AnswerInv
<1>6. Grows(<<>>)
  <2>1. Len(inbox) \in Nat
    BY DEF TypeOK
  <2> QED
    BY <1>1, <2>1, EmptyGrows
<1>7. AnswerStep(<<>>)
  BY <1>4, <1>5, <1>6 DEF AnswerStep, NewAnswer, StillOwes
<1>8. link' # "open"
  BY DEF PreparedWithoutSdp, disconnect
<1>9. AnnounceStep(<<>>)
  BY <1>6, <1>8 DEF AnnounceStep
<1> QED
  BY <1>7, <1>9 DEF Steps

LEMMA recordToClientStreamerPreparedStep ==
    ASSUME TypeOK, AnswerInv, NEW s \in SessionId, recordToClientStreamerPrepared(s)
    PROVE  Steps
<1> DEFINE record == Request("RECORD", nextCSeq, s, <<>>)
           setup == Request("SETUP", nextCSeq + 1, s, mediaSessions[s].queue)
           messages == IF mediaSessions[s].queue = <<>> THEN <<record>> ELSE <<record, setup>>
           new == Sent(messages)
<1>1. /\ mediaSessions \in [SessionId -> MediaSession]
      /\ mediaSessions[s] \in MediaSession
      /\ s \in Nat /\ nextCSeq \in Nat
  BY SessionIdNat DEF TypeOK
<1>2. /\ Live(s) /\ mediaSessions[s].type = "Subscribe" /\ inbox' = inbox
      /\ mediaSessions' = Prepared(s) /\ UNCHANGED link
      /\ Emit(messages)
  BY DEF recordToClientStreamerPrepared
<1>3. record \in Message /\ setup \in Message
  <2>1. <<>> \in Seq(Nat) /\ "RECORD" \in Methods /\ "SETUP" \in Methods
    BY DEF Methods
  <2>2. mediaSessions[s].queue \in Seq(Nat) /\ nextCSeq + 1 \in Nat
    BY <1>1 DEF MediaSession
  <2>3. record \in Message
    BY <1>1, <2>1, RequestType
  <2>4. setup \in Message
    BY <1>1, <2>1, <2>2, RequestType
  <2> QED
    BY <2>3, <2>4
<1>4. messages \in Seq(Message)
  BY <1>3
<1>5. /\ record.kind = "request" /\ record.head = "RECORD" /\ record.session = s
      /\ setup.kind = "request" /\ setup.session = s
  BY DEF Request
<1>6. \A t \in SessionId : t # s => mediaSessions'[t] = mediaSessions[t]
  BY <1>1, <1>2 DEF Prepared
<1>7. /\ mediaSessions'[s].type = "Subscribe"
      /\ mediaSessions'[s].cseq = mediaSessions[s].cseq
  BY <1>1, <1>2 DEF Prepared, Flushed, MediaSession
<1>8. AnswerStep(new) /\ Grows(new)
  <2>1. \A k \in 1..Len(messages) : messages[k].kind = "request"
    BY <1>5
  <2>2. \A t \in SessionId : Owes(t)' =>
            Owes(t) /\ mediaSessions'[t].cseq = mediaSessions[t].cseq
    BY <1>6, <1>7 DEF Owes, Live
  <2>3. \A t \in SessionId : mediaSessions'[t].type = "Subscribe" =>
            mediaSessions'[t].cseq = InvalidCSeq
    BY <1>2, <1>6, <1>7 DEF AnswerInv
  <2> QED
    BY <1>2, <1>4, <2>1, <2>2, <2>3, RequestsSent
<1>9. /\ \A k \in 1..Len(new) : /\ k = 1 => new[k] = record
                                /\ k # 1 => k = 2 /\ new[k] = setup
      /\ link = "open" => 1 \in 1..Len(new)
      /\ Len(new) \in Nat
  BY DEF Sent
<1>10. IsAnnouncement(record, s, inbox')
  BY <1>5 DEF IsAnnouncement
<1>11. ASSUME NEW t \in SessionId, Live(t)', mediaSessions'[t].prepared, link' = "open"
       PROVE  \/ Live(t) /\ mediaSessions[t].prepared /\ link = "open"
              \/ \E k \in 1..Len(new) : IsAnnouncement(new[k], t, inbox')
  <2>1. CASE t = s
    BY <1>2, <1>9, <1>10, <1>11, <2>1
  <2>2. CASE t # s
    BY <1>2, <1>6, <1>11, <2>2 DEF Live
  <2> QED
    BY <2>1, <2>2
<1>12. ASSUME NEW k \in 1..Len(new), new[k].head # "RECORD"
       PROVE  \E l \in 1..(k - 1) : IsAnnouncement(new[l], new[k].session, inbox')
  <2>1. k = 2 /\ new[k] = setup /\ 1 \in 1..Len(new)
    BY <1>5, <1>9, <1>12
  <2>2. 1 \in 1..(k - 1) /\ IsAnnouncement(new[1], new[k].session, inbox')
    BY <1>5, <1>9, <1>10, <2>1
  <2> QED
    BY <2>2
<1>13. AnnounceStep(new)
  BY <1>8, <1>11, <1>12 DEF AnnounceStep
<1> QED
  BY <1>8, <1>13 DEF Steps

\* SETUP or TEARDOWN in a session that has been prepared.
LEMMA PreparedSessionTalks ==
    ASSUME TypeOK, AnswerInv, AnnounceInv, NEW s \in SessionId, Live(s),
           mediaSessions[s].prepared, NEW method \in Methods, NEW body \in Seq(Nat),
           SendRequest(<<>>, method, s, body), SessionsKept, UNCHANGED <<link, inbox>>
    PROVE  Steps
<1> DEFINE request == Request(method, nextCSeq, s, body)
           messages == Append(<<>>, request)
           new == Sent(messages)
<1>1. request \in Message
  <2>1. s \in Nat /\ nextCSeq \in Nat
    BY SessionIdNat DEF TypeOK
  <2> QED
    BY <2>1, RequestType
<1>2. messages = <<request>> /\ messages \in Seq(Message) /\ Emit(messages)
  BY <1>1 DEF SendRequest
<1>3. request.kind = "request" /\ request.session = s
  BY DEF Request
<1>4. AnswerStep(new) /\ Grows(new)
  <2>1. \A k \in 1..Len(messages) : messages[k].kind = "request"
    BY <1>2, <1>3
  <2>2. \A t \in SessionId : Owes(t)' =>
            Owes(t) /\ mediaSessions'[t].cseq = mediaSessions[t].cseq
    BY DEF Owes, Live, SessionsKept
  <2>3. \A t \in SessionId : mediaSessions'[t].type = "Subscribe" =>
            mediaSessions'[t].cseq = InvalidCSeq
    BY SubscribeNotNone DEF AnswerInv, SessionsKept
  <2> QED
    BY <1>2, <2>1, <2>2, <2>3, RequestsSent
<1>5. \A k \in 1..Len(new) : new[k] = request /\ link = "open"
  BY <1>2 DEF Sent
<1>6. link = "open" => \E j \in 1..Len(wire) : Announces(j, s)
  BY DEF AnnounceInv
<1>7. AnnounceStep(new)
  BY <1>3, <1>4, <1>5, <1>6 DEF AnnounceStep, SessionsKept, Live
<1> QED
  BY <1>4, <1>7 DEF Steps

LEMMA iceCandidateStep ==
    ASSUME TypeOK, AnswerInv, AnnounceInv, NEW s \in SessionId, iceCandidate(s)
    PROVE  Steps
<1>1. /\ mediaSessions \in [SessionId -> MediaSession]
      /\ mediaSessions[s] \in MediaSession /\ gathered[s] + 1 \in Nat
  BY DEF TypeOK
<1>2. CASE mediaSessions[s].prepared
  <2>1. /\ Live(s) /\ UNCHANGED <<mediaSessions, link, inbox>>
        /\ SendRequest(<<>>, "SETUP", s, <<gathered[s] + 1>>)
    BY <1>2 DEF iceCandidate
  <2>2. <<gathered[s] + 1>> \in Seq(Nat) /\ "SETUP" \in Methods
    BY <1>1 DEF Methods
  <2>3. SessionsKept
    BY <2>1 DEF SessionsKept
  <2> QED
    BY <1>2, <2>1, <2>2, <2>3, PreparedSessionTalks
<1>3. CASE ~mediaSessions[s].prepared
  <2>1. /\ UNCHANGED <<sentRequests, nextCSeq, wire, link, inbox>>
        /\ mediaSessions' = [mediaSessions EXCEPT ![s].queue = Append(@, gathered[s] + 1)]
    BY <1>3 DEF iceCandidate
  <2>2. SessionsKept
    BY <1>1, <2>1 DEF SessionsKept, MediaSession
  <2> QED
    BY <2>1, <2>2, QuietStep
<1> QED
  BY <1>2, <1>3

LEMMA eosStep ==
    ASSUME TypeOK, AnswerInv, AnnounceInv, NEW s \in SessionId, eos(s)
    PROVE  Steps
<1> DEFINE c == mediaSessions[s].cseq
           response == Response("BAD_GATEWAY", c, s)
           new == Sent(<<response>>)
<1>1. /\ mediaSessions \in [SessionId -> MediaSession]
      /\ mediaSessions[s] \in MediaSession /\ s \in Nat /\ c \in Nat
      /\ Len(inbox) \in Nat
  BY SessionIdNat DEF TypeOK, MediaSession
<1>2. /\ Live(s) /\ inbox' = inbox /\ UNCHANGED link
      /\ mediaSessions' = [mediaSessions EXCEPT ![s] = NoSession]
  BY DEF eos
<1>3. SessionsKept /\ mediaSessions'[s].type = "None"
  BY <1>1, <1>2 DEF SessionsKept, NoSession
<1>4. CASE mediaSessions[s].prepared
  <2>1. SendRequest(<<>>, "TEARDOWN", s, <<>>)
    BY <1>4 DEF eos
  <2>2. <<>> \in Seq(Nat) /\ "TEARDOWN" \in Methods
    BY DEF Methods
  <2> QED
    BY <1>2, <1>3, <1>4, <2>1, <2>2, PreparedSessionTalks
<1>5. CASE ~mediaSessions[s].prepared
  <2>1. response \in Message
    BY <1>1, ResponseType DEF Statuses
  <2>2. <<response>> \in Seq(Message) /\ Emit(<<response>>)
    BY <1>5, <2>1 DEF eos
  <2>3. new \in Seq(Message) /\ wire' = wire \o new
    BY <2>2, EmitGrows
  <2>4. Grows(new)
    BY <1>1, <1>2, <2>3 DEF Grows
  <2>5. response.kind = "response" /\ response.cseq = c
    BY DEF Response
  <2>6. \A k \in 1..Len(new) : k = 1 /\ new[k] = response
    BY DEF Sent
  <2>7. \/ Owes(s) /\ OwedRequest(s)
        \/ mediaSessions[s].type = "Subscribe" /\ c = InvalidCSeq
    BY <1>2, <1>5 DEF AnswerInv, Owes
  <2>8. NewAnswer(new)
    BY <1>1, <1>2, <2>5, <2>6, <2>7 DEF NewAnswer, OwedRequest, InvalidCSeq
  <2>9. ASSUME NEW t \in SessionId, Owes(t)'
        PROVE  StillOwes(t, new)
    <3>1. Owes(t) /\ t # s /\ mediaSessions'[t].cseq = mediaSessions[t].cseq
      BY <1>3, <2>9 DEF SessionsKept, Owes, Live
    <3>2. mediaSessions[t].cseq # c
      BY <2>7, <3>1 DEF AnswerInv, OwedRequest, InvalidCSeq
    <3> QED
      BY <2>5, <2>6, <3>1, <3>2 DEF StillOwes
  <2>10. AnswerStep(new)
    BY <1>3, <2>4, <2>8, <2>9, SubscribeNotNone DEF AnswerStep, SessionsKept, AnswerInv
  <2>11. AnnounceStep(new)
    BY <1>2, <1>3, <2>4, <2>5, <2>6 DEF AnnounceStep, SessionsKept, Live
  <2> QED
    BY <2>10, <2>11 DEF Steps
<1> QED
  BY <1>4, <1>5

LEMMA PeerCallbackStep ==
    ASSUME TypeOK, AnswerInv, AnnounceInv, NEW s \in SessionId, PeerCallback(s)
    PROVE  Steps
<1>1. CASE streamerPrepared(s)
  BY <1>1, InitialRequestAnsweredStep DEF streamerPrepared
<1>2. CASE recorderPrepared(s)
  BY <1>2, InitialRequestAnsweredStep DEF recorderPrepared
<1>3. CASE recordToClientStreamerPrepared(s)
  BY <1>3, recordToClientStreamerPreparedStep
<1>4. CASE iceCandidate(s)
  BY <1>4, iceCandidateStep
<1>5. CASE eos(s)
  BY <1>5, eosStep
<1>6. CASE LateCallback(s)
  <2>1. SessionsKept
    BY <1>6 DEF LateCallback, SessionsKept
  <2> QED
    BY <1>6, <2>1, QuietStep DEF LateCallback, disconnect
<1>7. CASE PreparedWithoutSdp(s)
  BY <1>7, PreparedWithoutSdpStep
<1> QED
  BY <1>1, <1>2, <1>3, <1>4, <1>5, <1>6, <1>7 DEF PeerCallback

LEMMA onSetupRequestStep ==
    ASSUME TypeOK, AnswerInv, NEW s \in KnownToClient, NEW body, onSetupRequest(s, body)
    PROVE  Steps
<1>1. CASE Reject
  BY <1>1, CloseStep DEF Reject
<1>2. CASE Live(s) /\ ~Reject
  <2>1. /\ Accept("SETUP", s, body) /\ Answer("OK", s) /\ UNCHANGED link
        /\ mediaSessions' = [mediaSessions EXCEPT ![s].remote = @ + body.lines]
        /\ mediaSessions \in [SessionId -> MediaSession]
    BY <1>2 DEF onSetupRequest, TypeOK
  <2>2. SessionsKept
    BY <2>1 DEF SessionsKept, MediaSession
  <2>3. s \in Nat
    BY SessionIdNat DEF KnownToClient
  <2> QED
    BY <2>1, <2>2, <2>3, AnsweredByHandler DEF Statuses
<1> QED
  BY <1>1, <1>2 DEF onSetupRequest

LEMMA ClientStepStep ==
    ASSUME TypeOK, AnswerInv, ClientStep
    PROVE  Steps
<1>1. /\ NoId \in Nat /\ Len(inbox) + 1 \in Nat
      /\ mediaSessions \in [SessionId -> MediaSession]
  BY DEF NoId, TypeOK
<1>3. mediaSessions' = mediaSessions => SessionsKept
  BY DEF SessionsKept
<1>4. ASSUME NEW method \in RefusedMethods, Unauthorized(method)
      PROVE  Steps
  BY <1>1, <1>3, <1>4, AnsweredByHandler DEF Unauthorized, Statuses
<1>5. CASE DefaultRequestHandler
  BY <1>5, CloseStep DEF DefaultRequestHandler, Reject
<1>6. CASE onOptionsRequest
  BY <1>1, <1>3, <1>6, AnsweredByHandler DEF onOptionsRequest, Statuses
<1>7. CASE onGetParameterRequest
  BY <1>1, <1>3, <1>7, AnsweredByHandler DEF onGetParameterRequest, Statuses
<1>8. CASE onDescribeRequest
  <2> DEFINE session == NewSession("Describe", Len(inbox) + 1)
  <2>1. CASE \E status \in {"NOT_FOUND", "SERVICE_UNAVAILABLE"} :
                 Answer(status, NoId) /\ UNCHANGED <<mediaSessions, nextSessionId>>
    BY <1>1, <1>3, <1>8, <2>1, AnsweredByHandler DEF onDescribeRequest, Statuses
  <2>2. CASE CreateMediaSession(session) /\ UNCHANGED wire
    <3>1. session \in MediaSession
      BY <1>1, NewSessionType DEF AllTypes
    <3>2. /\ session.type # "Subscribe" /\ session.cseq = Len(inbox) + 1
          /\ ~session.prepared
      BY DEF NewSession, NoSession
    <3> QED
      BY <1>8, <2>2, <3>1, <3>2, AnsweredLater DEF onDescribeRequest
  <2> QED
    BY <1>8, <2>1, <2>2 DEF onDescribeRequest
<1>9. CASE onRecordRequest
  <2> DEFINE plain == NewSession("Record", Len(inbox) + 1)
             session == [plain EXCEPT !.playing = TRUE]
  <2>1. CASE Reject
    BY <2>1, CloseStep DEF Reject
  <2>2. CASE /\ Accept("RECORD", NoId, NoBody)
             /\ CreateMediaSession(session)
             /\ UNCHANGED <<sentRequests, nextCSeq, link, wire, gathered>>
    <3>1. plain \in MediaSession
      BY <1>1, NewSessionType DEF AllTypes
    <3>2. /\ plain.type # "Subscribe" /\ plain.cseq = Len(inbox) + 1
          /\ ~plain.prepared
      BY DEF NewSession, NoSession
    <3>3. /\ session \in MediaSession
          /\ session.type # "Subscribe" /\ session.cseq = Len(inbox) + 1
          /\ ~session.prepared
      BY <3>1, <3>2 DEF MediaSession
    <3> QED
      BY <2>2, <3>3, AnsweredLater
  <2> QED
    BY <1>9, <2>1, <2>2 DEF onRecordRequest
<1>10. ASSUME NEW s \in KnownToClient, NEW body \in SetupBodies, onSetupRequest(s, body)
       PROVE  Steps
  BY <1>10, onSetupRequestStep
<1>11. ASSUME NEW s \in KnownToClient, onPlayRequest(s)
       PROVE  Steps
  <2>1. CASE Reject
    BY <2>1, CloseStep DEF Reject
  <2>2. CASE Live(s) /\ ~Reject
    <3>1. /\ Accept("PLAY", s, NoBody) /\ Answer("OK", s) /\ UNCHANGED link
          /\ mediaSessions' = [mediaSessions EXCEPT ![s].playing = TRUE]
      BY <1>11, <2>2 DEF onPlayRequest
    <3>2. SessionsKept
      BY <1>1, <3>1 DEF SessionsKept, MediaSession
    <3>3. s \in Nat
      BY SessionIdNat DEF KnownToClient
    <3> QED
      BY <3>1, <3>2, <3>3, AnsweredByHandler DEF Statuses
  <2> QED
    BY <1>11, <2>1, <2>2 DEF onPlayRequest
<1>12. ASSUME NEW s \in KnownToClient, onTeardownRequest(s)
       PROVE  Steps
  <2>1. CASE Reject
    BY <2>1, CloseStep DEF Reject
  <2>2. CASE Live(s) /\ ~Reject
    <3>1. /\ Accept("TEARDOWN", s, NoBody) /\ Answer("OK", s) /\ UNCHANGED link
          /\ mediaSessions' = [mediaSessions EXCEPT ![s] = NoSession]
      BY <1>12, <2>2 DEF onTeardownRequest
    <3>2. SessionsKept
      BY <1>1, <3>1 DEF SessionsKept, NoSession
    <3>3. s \in Nat
      BY SessionIdNat DEF KnownToClient
    <3> QED
      BY <3>1, <3>2, <3>3, AnsweredByHandler DEF Statuses
  <2> QED
    BY <1>12, <2>1, <2>2 DEF onTeardownRequest
<1>13. ASSUME NEW cseq \in 1..(nextCSeq - 1), NEW ok \in BOOLEAN, handleResponse(cseq, ok)
       PROVE  Steps
  <2>1. CASE Close
    BY <2>1, CloseStep
  <2>2. CASE ~Close
    <3> DEFINE found == {r \in sentRequests : r.cseq = cseq}
    <3>1. /\ mediaSessions' =
                 [s \in SessionId |->
                     IF \E r \in found : r.head = "RECORD" /\ r.session = s
                     THEN [mediaSessions[s] EXCEPT !.playing = TRUE]
                     ELSE mediaSessions[s]]
          /\ UNCHANGED <<nextSessionId, nextCSeq, link, wire, inbox, gathered>>
      BY <1>13, <2>2 DEF handleResponse
    <3>2. ASSUME NEW s \in SessionId
          PROVE  \/ mediaSessions'[s] = mediaSessions[s]
                 \/ mediaSessions'[s] = [mediaSessions[s] EXCEPT !.playing = TRUE]
      BY <3>1
    <3>3. SessionsKept
      BY <1>1, <3>2 DEF SessionsKept, MediaSession
    <3> QED
      BY <3>1, <3>3, QuietStep
  <2> QED
    BY <2>1, <2>2
<1> QED
  BY <1>4, <1>5, <1>6, <1>7, <1>8, <1>9, <1>10, <1>11, <1>12, <1>13 DEF ClientStep

LEMMA startRecordToClientStep ==
    ASSUME TypeOK, AnswerInv, startRecordToClient
    PROVE  Steps
<1> DEFINE session == NewSession("Subscribe", InvalidCSeq)
<1>1. Len(inbox) \in Nat /\ mediaSessions \in [SessionId -> MediaSession]
  BY DEF TypeOK
<1>2. UNCHANGED <<wire, inbox>>
  BY DEF startRecordToClient
<1>3. CASE CreateMediaSession(session) /\ UNCHANGED link
  <2>1. /\ nextSessionId \in SessionId
        /\ mediaSessions' = [mediaSessions EXCEPT ![nextSessionId] = session]
    BY <1>3 DEF CreateMediaSession
  <2>2. /\ session.type = "Subscribe" /\ session.cseq = InvalidCSeq
        /\ ~session.prepared
    BY DEF NewSession, NoSession
  <2>3. Grows(<<>>)
    BY <1>1, <1>2, EmptyGrows
  <2>4. \A t \in SessionId : \/ mediaSessions'[t] = mediaSessions[t]
                             \/ mediaSessions'[t] = session
    BY <1>1, <2>1
  <2>5. AnswerStep(<<>>)
    BY <2>2, <2>3, <2>4 DEF AnswerStep, NewAnswer, AnswerInv, StillOwes, Owes, Live
  <2>6. AnnounceStep(<<>>)
    BY <1>3, <2>2, <2>3, <2>4 DEF AnnounceStep, Live
  <2> QED
    BY <2>5, <2>6 DEF Steps
<1>4. CASE disconnect /\ UNCHANGED <<mediaSessions, nextSessionId>>
  <2>1. SessionsKept
    BY <1>4 DEF SessionsKept
  <2> QED
    BY <1>2, <1>4, <2>1, QuietStep DEF disconnect
<1> QED
  BY <1>3, <1>4 DEF startRecordToClient

LEMMA DialogStep ==
    ASSUME TypeOK, AnswerInv, AnnounceInv, [Next]_vars
    PROVE  AnswerInv' /\ AnnounceInv'
<1>1. TypeOK'
  BY TypeStep
<1>2. Steps
  <2>1. ASSUME NEW s \in SessionId, PeerCallback(s)
        PROVE  Steps
    BY <2>1, PeerCallbackStep
  <2>2. CASE ClientStep
    BY <2>2, ClientStepStep
  <2>3. CASE startRecordToClient
    BY <2>3, startRecordToClientStep
  <2>4. CASE Writeable \/ ConnectionLost
    BY <2>4, CloseStep DEF Writeable, ConnectionLost
  <2>5. CASE UNCHANGED vars
    <3>1. SessionsKept
      BY <2>5 DEF vars, SessionsKept
    <3> QED
      BY <2>5, <3>1, QuietStep DEF vars
  <2> QED
    BY <2>1, <2>2, <2>3, <2>4, <2>5 DEF Next
<1>3. PICK new : AnswerStep(new) /\ AnnounceStep(new)
  BY <1>2 DEF Steps
<1> QED
  BY <1>1, <1>3, AnswerInvStep, AnnounceInvStep

LEMMA DialogInit == Init => AnswerInv /\ AnnounceInv
<1>1. SUFFICES ASSUME Init PROVE AnswerInv /\ AnnounceInv
  OBVIOUS
<1>2. /\ \A s \in SessionId : mediaSessions[s] = NoSession
      /\ Len(wire) = 0
  BY <1>1 DEF Init
<1>3. NoSession.type = "None"
  BY DEF NoSession
<1> QED
  BY <1>2, <1>3 DEF AnswerInv, AnnounceInv, AnsweredAtMostOnce, AnnouncedFirst, Owes, Live

\* The inductive invariant of the dialog.
THEOREM DialogInvariant == Spec => [](AnswerInv /\ AnnounceInv)
<1>1. Init => TypeOK /\ AnswerInv /\ AnnounceInv
  BY TypeInit, DialogInit
<1>2. TypeOK /\ AnswerInv /\ AnnounceInv /\ [Next]_vars
          => (TypeOK /\ AnswerInv /\ AnnounceInv)'
  BY TypeStep, DialogStep
<1> QED
  BY <1>1, <1>2, PTL DEF Spec

\* No request of the client is answered twice: streamerPrepared, eos and the
\* request handlers never answer the same CSeq, in any order of callbacks and
\* requests and for any number of sessions.
THEOREM AnsweredOnce == Spec => []AnsweredAtMostOnce
<1>1. AnswerInv => AnsweredAtMostOnce
  BY DEF AnswerInv
<1> QED
  BY <1>1, DialogInvariant, PTL

\* The server never sends a SETUP or a TEARDOWN in a media session the client
\* has not been told about.
THEOREM AnnouncedBeforeUse == Spec => []AnnouncedFirst
<1>1. AnnounceInv => AnnouncedFirst
  BY DEF AnnounceInv
<1> QED
  BY <1>1, DialogInvariant, PTL

-----------------------------------------------------------------------------
(* Sessions.  Candidates wait until their session is known and no longer,  *)
(* a session that has ended is not named again, and a SETUP is applied     *)
(* whole when it is answered OK.                                           *)

(* What a step does: the messages "new" it appends to the wire, and what   *)
(* becomes of the sessions.                                                *)

EndsSession(m, requests) ==
    \/ m.kind = "request" /\ m.head = "TEARDOWN"
    \/ m.kind = "response" /\ m.head = "BAD_GATEWAY"
    \/ /\ m.kind = "response" /\ m.head = "OK"
       /\ m.cseq \in 1..Len(requests)
       /\ requests[m.cseq].method = "TEARDOWN"

\* A new message names a session that is there, or none, or one that is just
\* created; one that ends its session is the last; a response is some request's,
\* unless there is a subscription.
NamesStep(new) ==
    /\ Grows(new)
    /\ nextSessionId <= nextSessionId'
    /\ \A c \in 1..Len(inbox') :
           c \notin 1..Len(inbox) => inbox'[c].session < nextSessionId
    /\ \A k \in 1..Len(new) :
           \/ new[k].session = NoId
           \/ Live(new[k].session)
           \/ new[k].session = nextSessionId /\ nextSessionId < nextSessionId'
    /\ \A k \in 1..Len(new) : EndsSession(new[k], inbox') =>
           k = Len(new) /\ Live(new[k].session) /\ ~Live(new[k].session)'
    /\ \A k \in 1..Len(new) : new[k].kind = "response" =>
           \/ new[k].cseq \in 1..Len(inbox')
           \/ \E s \in SessionId : mediaSessions[s].type = "Subscribe"

\* No session is named when it is created.
SaysStep(new) ==
    /\ NamesStep(new)
    /\ \A k \in 1..Len(new) : new[k].session = NoId \/ Live(new[k].session)

Created(s) ==
    /\ s = nextSessionId
    /\ nextSessionId' = nextSessionId + 1
    /\ mediaSessions'[s].type \in MediaTypes
    /\ ~mediaSessions'[s].prepared
    /\ mediaSessions'[s].remote = 0

\* Session s waits on, or talks on.
Continues(s, new) ==
    /\ mediaSessions'[s].prepared = mediaSessions[s].prepared
    /\ mediaSessions[s].prepared => mediaSessions'[s].queue = mediaSessions[s].queue
    /\ ~mediaSessions[s].prepared => \A k \in 1..Len(new) : new[k].session # s

GetsPrepared(s, new) ==
    /\ mediaSessions'[s].prepared
    /\ mediaSessions'[s].queue = <<>>
    /\ \E k \in 1..Len(new) : new[k].session = s

\* Sessions are created or stay; a connection does not open again.
SessionsStep ==
    /\ link' = "open" => link = "open"
    /\ \A s \in SessionId : Live(s)' =>
           \/ Created(s)
           \/ Live(s) /\ mediaSessions'[s].type = mediaSessions[s].type

QueueStep(new) ==
    /\ link' = "open" => link = "open"
    /\ \A s \in SessionId : Live(s)' =>
           \/ Created(s)
           \/ /\ Live(s)
              /\ mediaSessions'[s].type = mediaSessions[s].type
              /\ link' = "open" => Continues(s, new) \/ GetsPrepared(s, new)

AppliesNone(new) ==
    /\ \A k \in 1..Len(new) :
           /\ new[k].kind = "response"
           /\ new[k].head = "OK"
           /\ new[k].cseq \in 1..Len(inbox')
           => inbox'[new[k].cseq].method # "SETUP"
    /\ \A s \in SessionId : Live(s)' =>
           \/ Created(s)
           \/ Live(s) /\ mediaSessions'[s].remote = mediaSessions[s].remote

AppliesSetup(s, body) ==
    /\ ~body.malformed
    /\ body.lines \in Nat
    /\ Len(inbox') = Len(inbox) + 1
    /\ inbox'[Len(inbox')].session = s
    /\ inbox'[Len(inbox')].body = body
    /\ \A t \in SessionId : Live(t)' =>
           /\ Live(t)
           /\ mediaSessions'[t].remote =
                  IF t = s THEN mediaSessions[t].remote + body.lines
                  ELSE mediaSessions[t].remote

\* "new" is written, or the connection is ending.
AppliesSetupStep(new) ==
    \E s, body :
        /\ AppliesSetup(s, body)
        /\ \A k \in 1..Len(new) : k = 1 /\ new[k].cseq = Len(inbox')
        /\ link = "open" => /\ 1 \in 1..Len(new)
                            /\ new[1].kind = "response"
                            /\ new[1].head = "OK"
                            /\ inbox'[Len(inbox')].method = "SETUP"

TalkStep(new) ==
    /\ SaysStep(new)
    /\ QueueStep(new)
    /\ AppliesNone(new) \/ AppliesSetupStep(new)

Talks == \E new : TalkStep(new)

\* What a step leaves of the past.
LEMMA PastKept ==
    ASSUME TypeOK, TypeOK', NEW new, Grows(new)
    PROVE  /\ new \in Seq(Message)
           /\ Len(inbox) \in Nat /\ Len(inbox') \in Nat /\ Len(inbox) <= Len(inbox')
           /\ Len(wire) \in Nat /\ Len(new) \in Nat /\ Len(wire') = Len(wire) + Len(new)
           /\ \A c \in 1..Len(inbox) : inbox'[c] = inbox[c] /\ c \in 1..Len(inbox')
           /\ \A i \in 1..Len(wire) : wire'[i] = wire[i] /\ i \in 1..Len(wire')
           /\ \A k \in 1..Len(new) : /\ wire'[Len(wire) + k] = new[k]
                                     /\ Len(wire) + k \in 1..Len(wire')
           /\ \A i \in 1..Len(wire') : i \in 1..Len(wire)
                  \/ \E k \in 1..Len(new) : i = Len(wire) + k
           /\ \A k \in 1..Len(new) : /\ new[k].cseq \in Nat /\ new[k].session \in Nat
                                     /\ new[k].kind \in {"request", "response"}
           /\ \A i \in 1..Len(wire) : /\ wire[i].cseq \in Nat /\ wire[i].session \in Nat
                                      /\ wire[i].kind \in {"request", "response"}
<1>1. /\ new \in Seq(Message) /\ wire' = wire \o new
      /\ Len(inbox) \in Nat /\ Len(inbox') \in Nat /\ Len(inbox) <= Len(inbox')
      /\ \A c \in 1..Len(inbox) : inbox'[c] = inbox[c] /\ c \in 1..Len(inbox')
  BY DEF Grows, TypeOK
<1>2. /\ Len(wire) \in Nat /\ Len(new) \in Nat /\ Len(wire') = Len(wire) + Len(new)
      /\ \A i \in 1..Len(wire) : wire'[i] = wire[i]
      /\ \A k \in 1..Len(new) : wire'[Len(wire) + k] = new[k]
      /\ \A i \in 1..Len(wire') : i \in 1..Len(wire)
             \/ \E k \in 1..Len(new) : i = Len(wire) + k
  BY <1>1, WireGrows
<1>3. /\ \A i \in 1..Len(wire) : i \in 1..Len(wire')
      /\ \A k \in 1..Len(new) : Len(wire) + k \in 1..Len(wire')
  BY <1>2
<1>4. /\ \A i \in 1..Len(wire) : wire[i] \in Message
      /\ \A k \in 1..Len(new) : new[k] \in Message
  BY <1>1 DEF TypeOK
<1>5. /\ \A k \in 1..Len(new) : /\ new[k].cseq \in Nat /\ new[k].session \in Nat
                                /\ new[k].kind \in {"request", "response"}
      /\ \A i \in 1..Len(wire) : /\ wire[i].cseq \in Nat /\ wire[i].session \in Nat
                                 /\ wire[i].kind \in {"request", "response"}
  BY <1>4 DEF Message
<1> QED
  BY <1>1, <1>2, <1>3, <1>5

\* What ended a session still does.
LEMMA EndsKept ==
    ASSUME TypeOK, TypeOK', NEW new, Grows(new), NEW s
    PROVE  /\ \A i \in 1..Len(wire) : Ends(i, s) => Ends(i, s)'
           /\ \A i \in Ended(s) : i \in Ended(s)'
           /\ \A k \in 1..Len(new) :
                  new[k].session = s /\ EndsSession(new[k], inbox')
                      => Len(wire) + k \in Ended(s)'
<1>1. ASSUME NEW i \in 1..Len(wire), Ends(i, s)
      PROVE  Ends(i, s)' /\ i \in Ended(s)'
  <2>1. wire'[i] = wire[i] /\ i \in 1..Len(wire')
    BY PastKept
  <2>2. \A c \in 1..Len(inbox) : inbox'[c] = inbox[c] /\ c \in 1..Len(inbox')
    BY PastKept
  <2>3. Ends(i, s)'
    BY <1>1, <2>1, <2>2 DEF Ends, IsRequest, IsResponse
  <2> QED
    BY <2>1, <2>3 DEF Ended
<1>2. ASSUME NEW k \in 1..Len(new), new[k].session = s, EndsSession(new[k], inbox'),
             NEW i, i = Len(wire) + k
      PROVE  i \in Ended(s)'
  <2>1. wire'[i] = new[k] /\ i \in 1..Len(wire')
    BY <1>2, PastKept
  <2>2. Ends(i, s)'
    BY <1>2, <2>1 DEF Ends, IsRequest, IsResponse, EndsSession
  <2> QED
    BY <2>1, <2>2 DEF Ended
<1> QED
  BY <1>1, <1>2 DEF Ended

-----------------------------------------------------------------------------
(* Such a step keeps the invariant.                                        *)

LEMMA IdsStep ==
    ASSUME TypeOK, TypeOK', IdsInv, NEW new, NamesStep(new), SessionsStep
    PROVE  IdsInv'
<1>1. /\ new \in Seq(Message) /\ wire' = wire \o new
      /\ Len(inbox) \in Nat /\ Len(inbox') \in Nat
      /\ \A c \in 1..Len(inbox) : inbox'[c] = inbox[c]
      /\ nextSessionId \in Nat \ {0} /\ nextSessionId' \in Nat
      /\ nextSessionId <= nextSessionId'
  BY BoundsAssumption DEF NamesStep, Grows, TypeOK
<1>2. SessionId \subseteq Nat
  BY SessionIdNat
<1>3. ASSUME NEW s \in SessionId, Live(s)'
      PROVE  s < nextSessionId'
  BY <1>1, <1>2, <1>3 DEF SessionsStep, Created, IdsInv
<1>4. ASSUME NEW i \in 1..Len(wire')
      PROVE  wire'[i].session < nextSessionId'
  <2>1. CASE i \in 1..Len(wire)
    <3>1. wire'[i] = wire[i] /\ wire[i] \in Message
      BY <1>1, <2>1, WireGrows DEF TypeOK
    <3>2. wire[i].session \in Nat /\ wire[i].session < nextSessionId
      BY <2>1, <3>1 DEF IdsInv, Message
    <3> QED
      BY <1>1, <3>1, <3>2
  <2>2. CASE i \notin 1..Len(wire)
    <3>1. PICK k \in 1..Len(new) : wire'[i] = new[k]
      BY <1>1, <2>2, WireGrows
    <3>2. \/ new[k].session = NoId
          \/ Live(new[k].session)
          \/ new[k].session = nextSessionId /\ nextSessionId < nextSessionId'
      BY DEF NamesStep
    <3>3. new[k].session \in Nat /\ new[k].session < nextSessionId'
      <4>1. CASE new[k].session = NoId
        BY <1>1, <4>1 DEF NoId
      <4>2. CASE Live(new[k].session)
        <5>1. new[k].session \in SessionId
          BY <4>2 DEF Live
        <5>2. new[k].session < nextSessionId
          BY <4>2, <5>1 DEF IdsInv
        <5>3. new[k].session \in Nat
          BY <1>2, <5>1
        <5> QED
          BY <1>1, <5>2, <5>3
      <4>3. CASE new[k].session = nextSessionId /\ nextSessionId < nextSessionId'
        BY <1>1, <4>3
      <4> QED
        BY <3>2, <4>1, <4>2, <4>3
    <3> QED
      BY <1>1, <3>1, <3>3
  <2> QED
    BY <2>1, <2>2
<1>5. ASSUME NEW c \in 1..Len(inbox')
      PROVE  inbox'[c].session < nextSessionId'
  <2>1. inbox'[c] \in ClientRequest
    BY DEF TypeOK
  <2>2. inbox'[c].session \in Nat /\ inbox'[c].session < nextSessionId
    BY <1>1, <2>1 DEF NamesStep, IdsInv, ClientRequest
  <2> QED
    BY <1>1, <2>2
<1> QED
  BY <1>3, <1>4, <1>5 DEF IdsInv

\* What ends a session on the wire is known from the message.
LEMMA EndsIsEndsSession ==
    ASSUME NEW i \in 1..Len(wire), Ends(i, wire[i].session)
    PROVE  EndsSession(wire[i], inbox)
BY DEF Ends, EndsSession, IsRequest, IsResponse

LEMMA EndStep ==
    ASSUME TypeOK, TypeOK', AnswerInv, IdsInv, EndInv, SilentAfterEnd,
           NEW new, NamesStep(new), SessionsStep
    PROVE  EndInv' /\ SilentAfterEnd'
<1>1. /\ new \in Seq(Message) /\ wire' = wire \o new
      /\ Len(inbox) \in Nat /\ Len(inbox') \in Nat
      /\ \A c \in 1..Len(inbox) : inbox'[c] = inbox[c]
  <2>1. Grows(new)
    BY DEF NamesStep
  <2> QED
    BY <2>1, PastKept DEF Grows
<1>2. /\ Len(wire) \in Nat /\ Len(new) \in Nat
      /\ Len(wire') = Len(wire) + Len(new)
      /\ \A i \in 1..Len(wire) : wire'[i] = wire[i]
      /\ \A k \in 1..Len(new) : wire'[Len(wire) + k] = new[k]
      /\ \A i \in 1..Len(wire') : i \in 1..Len(wire)
             \/ \E k \in 1..Len(new) : i = Len(wire) + k
  BY <1>1, WireGrows
\* An old message ends what it ended before: its request has long arrived.
<1>3. ASSUME NEW i \in 1..Len(wire), Ends(i, wire[i].session)'
      PROVE  Ends(i, wire[i].session)
  <2>1. wire'[i] = wire[i] /\ wire[i].cseq \in Nat
    <3>1. wire[i] \in Message
      BY DEF TypeOK
    <3> QED
      BY <1>2, <3>1 DEF Message
  <2>2. wire[i].kind = "response" => wire[i].cseq <= Len(inbox)
    BY DEF AnswerInv, IsResponse
  <2> QED
    BY <1>1, <1>3, <2>1, <2>2 DEF Ends, IsRequest, IsResponse
<1>4. ASSUME NEW k \in 1..Len(new), NEW i, i = Len(wire) + k, Ends(i, wire[i].session)'
      PROVE  k = Len(new) /\ Live(new[k].session) /\ ~Live(new[k].session)'
  <2>1. wire'[i] = new[k]
    BY <1>2, <1>4
  <2>2. EndsSession(new[k], inbox')
    BY <1>4, <2>1 DEF Ends, EndsSession, IsRequest, IsResponse
  <2> QED
    BY <2>2 DEF NamesStep
<1>5. ASSUME NEW i \in 1..Len(wire), Ends(i, wire[i].session)
      PROVE  /\ wire[i].session \in SessionId /\ wire[i].session # nextSessionId
             /\ ~Live(wire[i].session) /\ ~Live(wire[i].session)'
  <2>1. wire[i].session \in SessionId /\ ~Live(wire[i].session)
    BY <1>5 DEF EndInv
  <2>2. wire[i].session # nextSessionId
    BY <2>1, SessionIdNat, BoundsAssumption DEF IdsInv, TypeOK
  <2> QED
    BY <1>2, <2>1, <2>2 DEF SessionsStep, Created, Live
<1>6. EndInv'
  <2> SUFFICES ASSUME NEW i \in 1..Len(wire'), Ends(i, wire[i].session)'
               PROVE  wire'[i].session \in SessionId /\ ~Live(wire[i].session)'
    BY DEF EndInv
  <2>1. CASE i \in 1..Len(wire)
    BY <1>2, <1>3, <1>5, <2>1
  <2>2. CASE i \notin 1..Len(wire)
    <3>1. PICK k \in 1..Len(new) : i = Len(wire) + k
      BY <1>2, <2>2
    <3> QED
      BY <1>2, <1>4, <3>1 DEF Live
  <2> QED
    BY <2>1, <2>2
<1>7. SilentAfterEnd'
  <2> SUFFICES ASSUME NEW i \in 1..Len(wire'), NEW j \in 1..Len(wire'), i < j,
                      Ends(i, wire[i].session)'
               PROVE  wire'[j].session # wire'[i].session
    BY DEF SilentAfterEnd
  <2>1. CASE i \in 1..Len(wire) /\ j \in 1..Len(wire)
    BY <1>2, <1>3, <2>1 DEF SilentAfterEnd
  <2>2. CASE i \in 1..Len(wire) /\ j \notin 1..Len(wire)
    <3>1. PICK k \in 1..Len(new) : j = Len(wire) + k
      BY <1>2, <2>2
    <3>2. wire'[j] = new[k] /\ wire'[i] = wire[i]
      BY <1>2, <2>2, <3>1
    <3>3. \/ new[k].session = NoId
          \/ Live(new[k].session)
          \/ new[k].session = nextSessionId
      BY DEF NamesStep
    <3>4. /\ wire[i].session \in SessionId /\ ~Live(wire[i].session)
          /\ wire[i].session # nextSessionId
      BY <1>3, <1>5, <2>2
    <3> QED
      BY <3>2, <3>3, <3>4, BoundsAssumption DEF SessionId, NoId
  <2>3. CASE i \notin 1..Len(wire)
    <3>1. PICK k \in 1..Len(new) : i = Len(wire) + k
      BY <1>2, <2>3
    <3>2. k = Len(new)
      BY <1>4, <3>1
    <3> QED
      BY <1>2, <3>1, <3>2
  <2> QED
    BY <2>1, <2>2, <2>3
<1> QED
  BY <1>6, <1>7

LEMMA QueueOnlyStep ==
    ASSUME TypeOK, TypeOK', IdsInv, QueueOnlyUntilPrepared,
           NEW new, SaysStep(new), QueueStep(new)
    PROVE  QueueOnlyUntilPrepared'
<1>1. new \in Seq(Message) /\ wire' = wire \o new
  BY DEF SaysStep, NamesStep, Grows
<1>2. /\ Len(wire) \in Nat /\ Len(new) \in Nat
      /\ Len(wire') = Len(wire) + Len(new)
      /\ \A i \in 1..Len(wire) : wire'[i] = wire[i]
      /\ \A k \in 1..Len(new) : wire'[Len(wire) + k] = new[k]
      /\ \A i \in 1..Len(wire') : i \in 1..Len(wire)
             \/ \E k \in 1..Len(new) : i = Len(wire) + k
  BY <1>1, WireGrows
<1>3. ASSUME NEW s
      PROVE  Announced(s)' <=> Announced(s) \/ \E k \in 1..Len(new) : new[k].session = s
  <2>1. Announced(s) => Announced(s)'
    BY <1>2 DEF Announced
  <2>2. ASSUME NEW k \in 1..Len(new), new[k].session = s
        PROVE  Announced(s)'
    <3>1. Len(wire) + k \in 1..Len(wire')
      BY <1>2
    <3> QED
      BY <1>2, <2>2, <3>1 DEF Announced
  <2>3. ASSUME Announced(s)', ~Announced(s)
        PROVE  \E k \in 1..Len(new) : new[k].session = s
    BY <1>2, <2>3 DEF Announced
  <2> QED
    BY <2>1, <2>2, <2>3
<1> SUFFICES ASSUME NEW s \in SessionId, Live(s)', link' = "open"
             PROVE  IF mediaSessions'[s].prepared
                    THEN mediaSessions'[s].queue = <<>> /\ Announced(s)'
                    ELSE ~Announced(s)'
  BY DEF QueueOnlyUntilPrepared
<1>4. link = "open"
  BY DEF QueueStep
<1>5. CASE Created(s)
  <2>1. /\ s \in Nat \ {0} /\ nextSessionId = s
        /\ \A i \in 1..Len(wire) : wire[i].session \in Nat
    <3>1. \A i \in 1..Len(wire) : wire[i] \in Message
      BY DEF TypeOK
    <3>2. s \in Nat \ {0} /\ nextSessionId = s
      BY <1>5, BoundsAssumption DEF Created, SessionId
    <3> QED
      BY <3>1, <3>2 DEF Message
  <2>2. ~Announced(s)
    BY <2>1 DEF Announced, IdsInv
  <2>3. ~Live(s)
    BY <2>1 DEF IdsInv
  <2>4. \A k \in 1..Len(new) : new[k].session # s
    BY <2>1, <2>3 DEF SaysStep, NamesStep, NoId
  <2> QED
    BY <1>3, <1>5, <2>2, <2>4 DEF Created
<1>6. CASE Live(s) /\ Continues(s, new)
  BY <1>3, <1>4, <1>6 DEF Continues, QueueOnlyUntilPrepared
<1>7. CASE Live(s) /\ GetsPrepared(s, new)
  BY <1>3, <1>7 DEF GetsPrepared
<1> QED
  BY <1>5, <1>6, <1>7 DEF QueueStep

\* The SETUPs of session s that were answered OK, as SetupAppliedWhole has it.
Applied(s) ==
    {c \in 1..Len(inbox) :
        /\ inbox[c].method = "SETUP"
        /\ inbox[c].session = s
        /\ \E i \in Answers(c) : wire[i].head = "OK"}

LEMMA AppliedNoneStep ==
    ASSUME TypeOK, TypeOK', AnswerInv, IdsInv, SetupAppliedWhole,
           NEW new, SaysStep(new), QueueStep(new), AppliesNone(new)
    PROVE  SetupAppliedWhole'
<1>1. /\ new \in Seq(Message) /\ wire' = wire \o new
      /\ Len(inbox) \in Nat /\ Len(inbox') \in Nat /\ Len(inbox) <= Len(inbox')
      /\ \A c \in 1..Len(inbox) : inbox'[c] = inbox[c]
  BY DEF SaysStep, NamesStep, Grows, TypeOK
<1>2. /\ Len(wire) \in Nat /\ Len(new) \in Nat
      /\ Len(wire') = Len(wire) + Len(new)
      /\ \A i \in 1..Len(wire) : wire'[i] = wire[i]
      /\ \A k \in 1..Len(new) : wire'[Len(wire) + k] = new[k]
      /\ \A i \in 1..Len(wire') : i \in 1..Len(wire)
             \/ \E k \in 1..Len(new) : i = Len(wire) + k
  BY <1>1, WireGrows
<1>3. ASSUME NEW s, NEW c \in Applied(s)'
      PROVE  c \in Applied(s) /\ inbox'[c] = inbox[c]
  <2>1. /\ c \in 1..Len(inbox') /\ inbox'[c].method = "SETUP"
        /\ inbox'[c].session = s
    BY <1>3 DEF Applied
  <2>2. PICK i \in 1..Len(wire') : /\ wire'[i].kind = "response"
                                   /\ wire'[i].cseq = c
                                   /\ wire'[i].head = "OK"
    BY <1>3 DEF Applied, Answers, IsResponse
  <2>3. i \in 1..Len(wire)
    BY <1>2, <2>1, <2>2 DEF AppliesNone
  <2>4. wire[i] = wire'[i] /\ wire[i].cseq <= Len(inbox)
    BY <1>2, <2>2, <2>3 DEF AnswerInv, IsResponse
  <2>5. c \in 1..Len(inbox) /\ i \in Answers(c)
    BY <1>1, <2>1, <2>2, <2>3, <2>4 DEF Answers, IsResponse
  <2> QED
    BY <1>1, <2>1, <2>2, <2>4, <2>5 DEF Applied
<1>4. ASSUME NEW s, NEW c \in Applied(s)
      PROVE  c \in Applied(s)'
  <2>1. PICK i \in Answers(c) : wire[i].head = "OK"
    BY DEF Applied
  <2>2. i \in 1..Len(wire') /\ wire'[i] = wire[i]
    BY <1>2, <2>1 DEF Answers
  <2> QED
    BY <1>1, <2>1, <2>2 DEF Applied, Answers, IsResponse
<1> SUFFICES ASSUME NEW s \in SessionId
             PROVE  /\ \A c \in Applied(s)' : ~inbox'[c].body.malformed
                    /\ Live(s)' /\ link' = "open" =>
                           /\ (mediaSessions'[s].remote = 0)
                                  <=> (\A c \in Applied(s)' : inbox'[c].body.lines = 0)
                           /\ \A c \in Applied(s)' :
                                  inbox'[c].body.lines <= mediaSessions'[s].remote
  BY DEF SetupAppliedWhole, Applied
<1>5. \A c \in Applied(s) : ~inbox[c].body.malformed
  BY DEF SetupAppliedWhole, Applied
<1>6. ASSUME Live(s)', link' = "open"
      PROVE  /\ (mediaSessions'[s].remote = 0)
                    <=> (\A c \in Applied(s)' : inbox'[c].body.lines = 0)
             /\ \A c \in Applied(s)' : inbox'[c].body.lines <= mediaSessions'[s].remote
  <2>1. CASE Created(s)
    <3>1. ASSUME NEW c \in Applied(s)'
          PROVE  FALSE
      <4>1. /\ c \in 1..Len(inbox) /\ inbox[c].session = s
        BY <1>3 DEF Applied
      <4>2. s < nextSessionId /\ s = nextSessionId /\ s \in Nat
        BY <2>1, <4>1, SessionIdNat DEF IdsInv, Created
      <4> QED
        BY <4>2
    <3> QED
      BY <2>1, <3>1 DEF Created
  <2>2. CASE Live(s) /\ mediaSessions'[s].remote = mediaSessions[s].remote
    <3>1. link = "open"
      BY <1>6 DEF QueueStep
    <3>2. /\ (mediaSessions[s].remote = 0)
                 <=> (\A c \in Applied(s) : inbox[c].body.lines = 0)
          /\ \A c \in Applied(s) : inbox[c].body.lines <= mediaSessions[s].remote
      BY <2>2, <3>1 DEF SetupAppliedWhole, Applied
    <3> QED
      BY <1>3, <1>4, <2>2, <3>2
  <2> QED
    BY <1>6, <2>1, <2>2 DEF AppliesNone
<1> QED
  BY <1>3, <1>5, <1>6

LEMMA AppliedSetupStep ==
    ASSUME TypeOK, TypeOK', AnswerInv, SetupAppliedWhole,
           NEW new, SaysStep(new), QueueStep(new), AppliesSetupStep(new)
    PROVE  SetupAppliedWhole'
<1>1. /\ new \in Seq(Message) /\ wire' = wire \o new
      /\ Len(inbox) \in Nat /\ Len(inbox') \in Nat
      /\ \A c \in 1..Len(inbox) : inbox'[c] = inbox[c]
  BY DEF SaysStep, NamesStep, Grows, TypeOK
<1>2. /\ Len(wire) \in Nat /\ Len(new) \in Nat
      /\ Len(wire') = Len(wire) + Len(new)
      /\ \A i \in 1..Len(wire) : wire'[i] = wire[i]
      /\ \A k \in 1..Len(new) : wire'[Len(wire) + k] = new[k]
      /\ \A i \in 1..Len(wire') : i \in 1..Len(wire)
             \/ \E k \in 1..Len(new) : i = Len(wire) + k
  BY <1>1, WireGrows
<1>3. PICK z, body :
          /\ AppliesSetup(z, body)
          /\ \A k \in 1..Len(new) : k = 1 /\ new[k].cseq = Len(inbox')
          /\ link = "open" => /\ 1 \in 1..Len(new)
                              /\ new[1].kind = "response"
                              /\ new[1].head = "OK"
                              /\ inbox'[Len(inbox')].method = "SETUP"
  BY DEF AppliesSetupStep
<1>0. PICK now \in Nat : now = Len(inbox')
  BY <1>1
<1>4. /\ ~body.malformed /\ body.lines \in Nat
      /\ now = Len(inbox) + 1
      /\ inbox'[now].session = z /\ inbox'[now].body = body
  BY <1>0, <1>3 DEF AppliesSetup
<1>5. ASSUME NEW s, NEW c \in Applied(s)', c # now
      PROVE  c \in Applied(s) /\ inbox'[c] = inbox[c]
  <2>1. /\ c \in 1..Len(inbox') /\ inbox'[c].method = "SETUP"
        /\ inbox'[c].session = s
    BY <1>5 DEF Applied
  <2>2. PICK i \in 1..Len(wire') : /\ wire'[i].kind = "response"
                                   /\ wire'[i].cseq = c
                                   /\ wire'[i].head = "OK"
    BY <1>5 DEF Applied, Answers, IsResponse
  <2>3. i \in 1..Len(wire)
    BY <1>0, <1>2, <1>3, <1>5, <2>2
  <2>4. wire[i] = wire'[i] /\ i \in Answers(c)
    BY <1>2, <2>2, <2>3 DEF Answers, IsResponse
  <2>5. c \in 1..Len(inbox)
    BY <1>0, <1>1, <1>4, <1>5, <2>1
  <2> QED
    BY <1>1, <2>1, <2>2, <2>4, <2>5 DEF Applied
<1>6. ASSUME NEW s, NEW c \in Applied(s)
      PROVE  c \in Applied(s)'
  <2>1. PICK i \in Answers(c) : wire[i].head = "OK"
    BY DEF Applied
  <2>2. i \in 1..Len(wire') /\ wire'[i] = wire[i]
    BY <1>2, <2>1 DEF Answers
  <2>3. c \in 1..Len(inbox') /\ inbox'[c] = inbox[c]
    BY <1>0, <1>1, <1>4 DEF Applied
  <2> QED
    BY <2>1, <2>2, <2>3 DEF Applied, Answers, IsResponse
<1>7. \A s : now \in Applied(s)' => s = z
  BY <1>4 DEF Applied
<1>8. link = "open" => now \in Applied(z)'
  <2> SUFFICES ASSUME link = "open"
               PROVE  now \in Applied(z)'
    OBVIOUS
  <2>0. PICK i \in Nat : i = Len(wire) + 1
    BY <1>2
  <2>1. /\ 1 \in 1..Len(new) /\ new[1].kind = "response" /\ new[1].head = "OK"
        /\ new[1].cseq = now /\ inbox'[now].method = "SETUP"
    BY <1>0, <1>3
  <2>2. i \in 1..Len(wire') /\ wire'[i] = new[1]
    BY <1>2, <2>1, <2>0
  <2>3. i \in Answers(now)' /\ wire'[i].head = "OK"
    BY <2>1, <2>2 DEF Answers, IsResponse
  <2>4. now \in 1..Len(inbox')
    BY <1>0, <1>1, <1>4
  <2> QED
    BY <1>4, <2>1, <2>3, <2>4 DEF Applied
<1> SUFFICES ASSUME NEW s \in SessionId
             PROVE  /\ \A c \in Applied(s)' : ~inbox'[c].body.malformed
                    /\ Live(s)' /\ link' = "open" =>
                           /\ (mediaSessions'[s].remote = 0)
                                  <=> (\A c \in Applied(s)' : inbox'[c].body.lines = 0)
                           /\ \A c \in Applied(s)' :
                                  inbox'[c].body.lines <= mediaSessions'[s].remote
  BY DEF SetupAppliedWhole, Applied
<1>9. \A c \in Applied(s)' : ~inbox'[c].body.malformed
  <2>1. \A c \in Applied(s) : ~inbox[c].body.malformed
    BY DEF SetupAppliedWhole, Applied
  <2> QED
    BY <1>4, <1>5, <2>1
<1>10. ASSUME Live(s)', link' = "open"
       PROVE  /\ (mediaSessions'[s].remote = 0)
                     <=> (\A c \in Applied(s)' : inbox'[c].body.lines = 0)
              /\ \A c \in Applied(s)' : inbox'[c].body.lines <= mediaSessions'[s].remote
  <2> DEFINE old == mediaSessions[s].remote
  <2>1. link = "open"
    BY <1>10 DEF QueueStep
  <2>2. /\ Live(s)
        /\ mediaSessions'[s].remote = IF s = z THEN old + body.lines ELSE old
    BY <1>3, <1>10 DEF AppliesSetup
  <2>3. /\ (old = 0) <=> (\A c \in Applied(s) : inbox[c].body.lines = 0)
        /\ \A c \in Applied(s) : inbox[c].body.lines <= old
    BY <2>1, <2>2 DEF SetupAppliedWhole, Applied
  <2>4. old \in Nat
    BY DEF TypeOK, MediaSession
  <2>5. \A c \in Applied(s) : inbox[c].body.lines \in Nat
    <3>1. \A c \in Applied(s) : inbox[c] \in ClientRequest
      BY DEF Applied, TypeOK
    <3> QED
      BY <3>1 DEF ClientRequest, SetupBody
  <2>6. \A c \in Applied(s) : inbox'[c] = inbox[c] /\ c \in Applied(s)'
    BY <1>1, <1>6 DEF Applied
  <2> HIDE DEF old
  <2>7. CASE s = z
    <3>1. mediaSessions'[s].remote = old + body.lines
      BY <2>2, <2>7
    <3>2. /\ now \in Applied(s)' /\ inbox'[now].body.lines = body.lines
      BY <1>4, <1>8, <2>1, <2>7
    <3>3. ASSUME NEW c \in Applied(s)'
          PROVE  inbox'[c].body.lines <= old + body.lines
      <4>1. CASE c = now
        BY <1>4, <2>4, <3>2, <4>1
      <4>2. CASE c # now
        BY <1>4, <1>5, <2>3, <2>4, <2>5, <4>2
      <4> QED
        BY <4>1, <4>2
    <3>4. (old + body.lines = 0) <=> old = 0 /\ body.lines = 0
      BY <1>4, <2>4
    <3>5. (\A c \in Applied(s)' : inbox'[c].body.lines = 0)
              <=> old = 0 /\ body.lines = 0
      BY <1>5, <2>3, <2>6, <3>2
    <3> QED
      BY <3>1, <3>3, <3>4, <3>5
  <2>8. CASE s # z
    <3>1. \A c \in Applied(s)' : c \in Applied(s) /\ inbox'[c] = inbox[c]
      BY <1>5, <1>7, <2>8
    <3> QED
      BY <2>2, <2>3, <2>6, <2>8, <3>1
  <2> QED
    BY <2>7, <2>8
<1> QED
  BY <1>9, <1>10

\* Only what is offered is created.
LEMMA OfferStep ==
    ASSUME OfferInv, SessionsStep
    PROVE  OfferInv'
BY DEF OfferInv, SessionsStep, Created

LEMMA TalkStepKeeps ==
    ASSUME TypeOK, TypeOK', AnswerInv, SilenceInv, NEW new, TalkStep(new)
    PROVE  SilenceInv'
<1>1. SaysStep(new) /\ NamesStep(new) /\ QueueStep(new) /\ SessionsStep
  BY DEF TalkStep, SaysStep, QueueStep, SessionsStep
<1>2. IdsInv' /\ EndInv' /\ OfferInv' /\ SilentAfterEnd' /\ QueueOnlyUntilPrepared'
  BY <1>1, IdsStep, EndStep, OfferStep, QueueOnlyStep DEF SilenceInv
<1>3. SetupAppliedWhole'
  BY <1>1, AppliedNoneStep, AppliedSetupStep DEF TalkStep, SilenceInv
<1> QED
  BY <1>2, <1>3 DEF SilenceInv

-----------------------------------------------------------------------------
(* Each action is such a step.                                             *)

\* Session s stays as it is, or at least so as far as the invariant looks.
Stays(s) ==
    /\ Live(s)
    /\ mediaSessions'[s].type = mediaSessions[s].type
    /\ mediaSessions'[s].remote = mediaSessions[s].remote
    /\ link' = "open" =>
           /\ mediaSessions'[s].prepared = mediaSessions[s].prepared
           /\ mediaSessions[s].prepared => mediaSessions'[s].queue = mediaSessions[s].queue

\* The requests of the client grow by one that names s, or not at all.
TakesRequestOf(s) ==
    \/ inbox' = inbox
    \/ \E method, body : Accept(method, s, body)

LEMMA InboxGrows ==
    ASSUME TypeOK, NEW s, TakesRequestOf(s)
    PROVE  /\ Len(inbox) \in Nat /\ Len(inbox') \in Nat /\ Len(inbox) <= Len(inbox')
           /\ \A c \in 1..Len(inbox) : inbox'[c] = inbox[c]
           /\ \A c \in 1..Len(inbox') : c \notin 1..Len(inbox) => inbox'[c].session = s
<1>1. inbox \in Seq(ClientRequest)
  BY DEF TypeOK
<1>2. CASE inbox' = inbox
  BY <1>1, <1>2
<1>3. CASE \E method, body : Accept(method, s, body)
  <2>1. PICK method, body : Accept(method, s, body)
    BY <1>3
  <2> DEFINE request == [method |-> method, session |-> s, body |-> body]
  <2>2. inbox' = Append(inbox, request)
    BY <2>1 DEF Accept
  <2>3. /\ Len(inbox) \in Nat /\ Len(inbox') = Len(inbox) + 1
        /\ \A c \in 1..Len(inbox) : inbox'[c] = inbox[c]
        /\ inbox'[Len(inbox) + 1] = request
    BY <1>1, <2>2
  <2> QED
    BY <2>3
<1> QED
  BY <1>2, <1>3 DEF TakesRequestOf

LEMMA NextIdNat == TypeOK => nextSessionId \in Nat \ {0}
BY BoundsAssumption DEF TypeOK

\* Nothing is sent.
LEMMA QuietTalks ==
    ASSUME TypeOK, wire' = wire, TakesRequestOf(NoId),
           link' = "open" => link = "open", nextSessionId <= nextSessionId',
           \A s \in SessionId : Live(s)' => Created(s) \/ Stays(s)
    PROVE  Talks
<1>1. /\ Len(inbox) \in Nat /\ Len(inbox') \in Nat /\ Len(inbox) <= Len(inbox')
      /\ \A c \in 1..Len(inbox) : inbox'[c] = inbox[c]
      /\ \A c \in 1..Len(inbox') : c \notin 1..Len(inbox) => inbox'[c].session = NoId
  BY InboxGrows
<1>2. Grows(<<>>)
  BY <1>1, EmptyGrows
<1>3. SaysStep(<<>>)
  BY <1>1, <1>2, NextIdNat DEF SaysStep, NamesStep, NoId
<1>4. QueueStep(<<>>)
  BY DEF QueueStep, Stays, Continues
<1>5. AppliesNone(<<>>)
  BY DEF AppliesNone, Stays
<1> QED
  BY <1>3, <1>4, <1>5 DEF TalkStep, Talks

LEMMA CloseTalks ==
    ASSUME TypeOK, Close
    PROVE  Talks
<1>1. /\ wire' = wire /\ TakesRequestOf(NoId) /\ link' # "open"
      /\ nextSessionId <= nextSessionId'
  BY NextIdNat DEF Close, TakesRequestOf
<1>2. \A s \in SessionId : ~Live(s)'
  BY DEF Close, Live, NoSession
<1> QED
  BY <1>1, <1>2, QuietTalks

LEMMA CreateTalks ==
    ASSUME TypeOK, NEW session \in MediaSession, CreateMediaSession(session),
           ~session.prepared, session.remote = 0
    PROVE  /\ nextSessionId <= nextSessionId'
           /\ \A s \in SessionId : Live(s)' => Created(s) \/ Stays(s)
<1>1. /\ session.type \in MediaTypes
      /\ nextSessionId \in SessionId
      /\ mediaSessions' = [mediaSessions EXCEPT ![nextSessionId] = session]
      /\ nextSessionId' = nextSessionId + 1
      /\ mediaSessions \in [SessionId -> MediaSession]
  BY DEF CreateMediaSession, TypeOK
<1>2. ASSUME NEW s \in SessionId, Live(s)'
      PROVE  Created(s) \/ Stays(s)
  <2>1. CASE s = nextSessionId
    BY <1>1, <2>1 DEF Created
  <2>2. CASE s # nextSessionId
    <3>1. mediaSessions'[s] = mediaSessions[s]
      BY <1>1, <2>2
    <3> QED
      BY <1>2, <3>1 DEF Stays, Live
  <2> QED
    BY <2>1, <2>2
<1> QED
  BY <1>1, <1>2, NextIdNat

\* One message, if it can still be written.
LEMMA OneSent ==
    ASSUME TypeOK, NEW m \in Message, Emit(<<m>>)
    PROVE  \E new \in Seq(Message) :
               /\ wire' = wire \o new
               /\ Len(new) \in 0..1
               /\ \A k \in 1..Len(new) : k = 1 /\ new[k] = m
               /\ link = "open" => 1 \in 1..Len(new)
               /\ link # "open" => new = <<>>
<1>1. <<m>> \in Seq(Message) /\ wire \in Seq(Message) /\ wire \o <<>> = wire
  BY DEF TypeOK
<1>2. CASE link = "open"
  <2>1. wire' = wire \o <<m>>
    BY <1>2 DEF Emit
  <2>2. /\ Len(<<m>>) \in 0..1 /\ 1 \in 1..Len(<<m>>)
        /\ \A k \in 1..Len(<<m>>) : k = 1 /\ <<m>>[k] = m
    BY <1>1
  <2>3. <<m>> \in Seq(Message)
    BY <1>1
  <2>4. WITNESS <<m>> \in Seq(Message)
  <2> QED
    BY <1>1, <1>2, <2>1, <2>2
<1>3. CASE link # "open"
  <2>1. wire' = wire \o <<>>
    BY <1>1, <1>3 DEF Emit
  <2>2. /\ <<>> \in Seq(Message) /\ Len(<<>>) \in 0..1
        /\ \A k \in 1..Len(<<>>) : k = 1 /\ <<>>[k] = m
    OBVIOUS
  <2>3. WITNESS <<>> \in Seq(Message)
  <2> QED
    BY <1>3, <2>1, <2>2
<1> QED
  BY <1>2, <1>3

\* A request that its handler answers, but for a SETUP that it applies.
LEMMA AnsweredTalks ==
    ASSUME TypeOK, IdsInv, QueueOnlyUntilPrepared,
           NEW method, NEW s \in KnownToClient, NEW body,
           NEW status \in Statuses, status # "BAD_GATEWAY",
           s = NoId \/ Live(s),
           status = "OK" /\ method = "TEARDOWN" => Live(s) /\ ~Live(s)',
           ~(status = "OK" /\ method = "SETUP"),
           Accept(method, s, body), Answer(status, s), UNCHANGED <<link, nextSessionId>>,
           \A t \in SessionId : Live(t)' => Stays(t)
    PROVE  Talks
<1> DEFINE m == Response(status, Len(inbox) + 1, s)
<1>1. /\ Len(inbox) \in Nat /\ Len(inbox') = Len(inbox) + 1
      /\ \A c \in 1..Len(inbox) : inbox'[c] = inbox[c]
      /\ inbox'[Len(inbox')].method = method
  BY AcceptGrows
<1>2. \A c \in 1..Len(inbox') : c \notin 1..Len(inbox) => inbox'[c].session = s
  <2>1. TakesRequestOf(s)
    BY DEF TakesRequestOf
  <2> QED
    BY <2>1, InboxGrows
<1>3. /\ s \in Nat /\ s < nextSessionId
  <2>1. s \in Nat
    BY SessionIdNat DEF KnownToClient
  <2>2. Live(s) => s \in SessionId
    BY DEF Live
  <2> QED
    BY <2>1, <2>2, NextIdNat DEF IdsInv, NoId
<1>4. m \in Message
  BY <1>1, <1>3, ResponseType
<1>5. /\ m.kind = "response" /\ m.cseq = Len(inbox') /\ m.session = s /\ m.head = status
  BY <1>1 DEF Response
<1>6. Emit(<<m>>)
  BY DEF Answer
<1> HIDE DEF m
<1>7. PICK new \in Seq(Message) :
          /\ wire' = wire \o new
          /\ Len(new) \in 0..1
          /\ \A k \in 1..Len(new) : k = 1 /\ new[k] = m
  BY <1>4, <1>6, OneSent
<1>8. Grows(new)
  BY <1>1, <1>7 DEF Grows
<1>9. \A k \in 1..Len(new) : EndsSession(new[k], inbox') =>
          k = Len(new) /\ Live(new[k].session) /\ ~Live(new[k].session)'
  <2> SUFFICES ASSUME NEW k \in 1..Len(new), EndsSession(new[k], inbox')
               PROVE  k = Len(new) /\ Live(new[k].session) /\ ~Live(new[k].session)'
    OBVIOUS
  <2>1. k = Len(new) /\ new[k] = m
    BY <1>7
  <2>2. status = "OK" /\ method = "TEARDOWN"
    BY <1>1, <1>5, <2>1 DEF EndsSession
  <2> QED
    BY <1>5, <2>1, <2>2 DEF Live
<1>10. SaysStep(new)
  <2>1. nextSessionId <= nextSessionId'
    BY NextIdNat
  <2>2. \A k \in 1..Len(new) : /\ new[k].session = NoId \/ Live(new[k].session)
                               /\ new[k].cseq \in 1..Len(inbox')
    BY <1>1, <1>5, <1>7
  <2> QED
    BY <1>2, <1>3, <1>8, <1>9, <2>1, <2>2 DEF SaysStep, NamesStep
<1>11. QueueStep(new)
  <2>1. ASSUME NEW t \in SessionId, Live(t)', link' = "open"
        PROVE  Continues(t, new)
    <3>1. Stays(t) /\ link = "open"
      BY <2>1
    <3>2. ~mediaSessions[t].prepared => s # t
      <4>1. Live(t) /\ t # NoId
        BY <3>1, BoundsAssumption DEF Stays, SessionId, NoId
      <4>2. ~mediaSessions[t].prepared => ~Announced(t)
        BY <3>1, <4>1 DEF QueueOnlyUntilPrepared
      <4> QED
        BY <4>1, <4>2 DEF KnownToClient
    <3> QED
      BY <1>5, <1>7, <2>1, <3>1, <3>2 DEF Continues, Stays
  <2> QED
    BY <2>1 DEF QueueStep, Stays
<1>12. AppliesNone(new)
  BY <1>1, <1>5, <1>7 DEF AppliesNone, Stays
<1> QED
  BY <1>10, <1>11, <1>12 DEF TalkStep, Talks

LEMMA SetupTalks ==
    ASSUME TypeOK, IdsInv, QueueOnlyUntilPrepared,
           NEW s \in KnownToClient, NEW body \in SetupBody, onSetupRequest(s, body)
    PROVE  Talks
<1>1. CASE Reject
  BY <1>1, CloseTalks DEF Reject
<1>2. CASE ~Reject
  <2> DEFINE m == Response("OK", Len(inbox) + 1, s)
  <2>1. /\ Live(s) /\ ~body.malformed
        /\ Accept("SETUP", s, body)
        /\ mediaSessions' = [mediaSessions EXCEPT ![s].remote = @ + body.lines]
        /\ Answer("OK", s)
        /\ UNCHANGED <<nextSessionId, link>>
    BY <1>2 DEF onSetupRequest
  <2>2. /\ Len(inbox) \in Nat /\ Len(inbox') = Len(inbox) + 1
        /\ \A c \in 1..Len(inbox) : inbox'[c] = inbox[c]
        /\ inbox'[Len(inbox')].method = "SETUP"
    BY <2>1, AcceptGrows
  <2>3. /\ inbox'[Len(inbox')].session = s /\ inbox'[Len(inbox')].body = body
        /\ \A c \in 1..Len(inbox') : c \notin 1..Len(inbox) => inbox'[c].session = s
    <3>1. inbox \in Seq(ClientRequest)
      BY DEF TypeOK
    <3>2. inbox' = Append(inbox, [method |-> "SETUP", session |-> s, body |-> body])
      BY <2>1 DEF Accept
    <3>3. inbox'[Len(inbox) + 1] = [method |-> "SETUP", session |-> s, body |-> body]
      BY <3>1, <3>2
    <3>4. \A c \in 1..Len(inbox') : c \notin 1..Len(inbox) => c = Len(inbox) + 1
      BY <2>2
    <3> QED
      BY <2>2, <3>3, <3>4
  <2>4. s \in SessionId /\ s \in Nat /\ s < nextSessionId /\ s # NoId
    BY <2>1, SessionIdNat, BoundsAssumption DEF Live, IdsInv, SessionId, NoId
  <2>5. m \in Message
    BY <2>2, <2>4, ResponseType DEF Statuses
  <2>6. /\ m.kind = "response" /\ m.cseq = Len(inbox') /\ m.session = s /\ m.head = "OK"
    BY <2>2 DEF Response
  <2>7. Emit(<<m>>)
    BY <2>1 DEF Answer
  <2> HIDE DEF m
  <2>8. PICK new \in Seq(Message) :
            /\ wire' = wire \o new
            /\ Len(new) \in 0..1
            /\ \A k \in 1..Len(new) : k = 1 /\ new[k] = m
            /\ link = "open" => 1 \in 1..Len(new)
    BY <2>5, <2>7, OneSent
  <2>9. ASSUME NEW t \in SessionId
        PROVE  /\ mediaSessions'[t].type = mediaSessions[t].type
               /\ mediaSessions'[t].prepared = mediaSessions[t].prepared
               /\ mediaSessions'[t].queue = mediaSessions[t].queue
               /\ mediaSessions'[t].remote =
                      IF t = s THEN mediaSessions[t].remote + body.lines
                      ELSE mediaSessions[t].remote
    <3>1. mediaSessions \in [SessionId -> MediaSession] /\ mediaSessions[t] \in MediaSession
      BY DEF TypeOK
    <3> QED
      BY <2>1, <3>1 DEF MediaSession
  <2>10. SaysStep(new)
    <3>1. Grows(new)
      BY <2>2, <2>8 DEF Grows
    <3>2. nextSessionId <= nextSessionId'
      BY <2>1, NextIdNat
    <3>3. \A k \in 1..Len(new) : /\ Live(new[k].session)
                                  /\ ~EndsSession(new[k], inbox')
                                  /\ new[k].cseq \in 1..Len(inbox')
      BY <2>1, <2>2, <2>6, <2>8 DEF EndsSession
    <3> QED
      BY <2>3, <2>4, <3>1, <3>2, <3>3 DEF SaysStep, NamesStep
  <2>11. QueueStep(new)
    <3>1. link = "open" => mediaSessions[s].prepared
      BY <2>1, <2>4 DEF QueueOnlyUntilPrepared, KnownToClient
    <3>2. ASSUME NEW t \in SessionId, link' = "open"
          PROVE  Continues(t, new)
      BY <2>1, <2>6, <2>8, <2>9, <3>1, <3>2 DEF Continues
    <3> QED
      BY <2>1, <2>9, <3>2 DEF QueueStep, Live
  <2>12. AppliesSetupStep(new)
    <3>1. AppliesSetup(s, body)
      <4>1. body.lines \in Nat
        BY DEF SetupBody
      <4> QED
        BY <2>1, <2>2, <2>3, <2>9, <4>1 DEF AppliesSetup, Live
    <3>2. \A k \in 1..Len(new) : k = 1 /\ new[k].cseq = Len(inbox')
      BY <2>6, <2>8
    <3>3. link = "open" => /\ 1 \in 1..Len(new)
                           /\ new[1].kind = "response"
                           /\ new[1].head = "OK"
                           /\ inbox'[Len(inbox')].method = "SETUP"
      BY <2>2, <2>6, <2>8
    <3> QED
      BY <3>1, <3>2, <3>3 DEF AppliesSetupStep
  <2> QED
    BY <2>10, <2>11, <2>12 DEF TalkStep, Talks
<1> QED
  BY <1>1, <1>2

\* A prepared session sends one request.
LEMMA PreparedTalks ==
    ASSUME TypeOK, NEW s \in SessionId, Live(s), mediaSessions[s].prepared,
           NEW method \in {"SETUP", "TEARDOWN"}, NEW body \in Seq(Nat),
           SendRequest(<<>>, method, s, body), UNCHANGED <<inbox, nextSessionId, link>>,
           method = "TEARDOWN" => ~Live(s)',
           \A t \in SessionId : Live(t)' => Stays(t)
    PROVE  Talks
<1> DEFINE m == Request(method, nextCSeq, s, body)
<1>1. m \in Message
  BY RequestType, SessionIdNat DEF TypeOK, Methods
<1>2. Emit(<<m>>)
  <2>1. Append(<<>>, m) = <<m>>
    OBVIOUS
  <2> QED
    BY <2>1 DEF SendRequest
<1>3. m.kind = "request" /\ m.session = s /\ m.head = method
  BY DEF Request
<1> HIDE DEF m
<1>4. PICK new \in Seq(Message) :
          /\ wire' = wire \o new
          /\ Len(new) \in 0..1
          /\ \A k \in 1..Len(new) : k = 1 /\ new[k] = m
  BY <1>1, <1>2, OneSent
<1>5. SaysStep(new)
  <2>1. Grows(new)
    <3>1. Len(inbox) \in Nat
      BY DEF TypeOK
    <3> QED
      BY <1>4, <3>1 DEF Grows
  <2>2. nextSessionId <= nextSessionId'
    BY NextIdNat
  <2>3. ASSUME NEW k \in 1..Len(new)
        PROVE  /\ Live(new[k].session) /\ new[k].kind # "response"
               /\ EndsSession(new[k], inbox') => k = Len(new) /\ ~Live(new[k].session)'
    <3>1. k = Len(new) /\ new[k] = m
      BY <1>4
    <3> QED
      BY <1>3, <3>1 DEF EndsSession, Live
  <2> QED
    BY <2>1, <2>2, <2>3 DEF SaysStep, NamesStep
<1>6. QueueStep(new)
  BY <1>3, <1>4 DEF QueueStep, Continues, Stays
<1>7. AppliesNone(new)
  BY <1>3, <1>4 DEF AppliesNone, Stays
<1> QED
  BY <1>5, <1>6, <1>7 DEF TalkStep, Talks

LEMMA ForgottenStays ==
    ASSUME TypeOK, NEW s \in SessionId, mediaSessions' = [mediaSessions EXCEPT ![s] = NoSession]
    PROVE  ~Live(s)' /\ \A t \in SessionId : Live(t)' => Stays(t)
<1>1. mediaSessions \in [SessionId -> MediaSession]
  BY DEF TypeOK
<1>2. ~Live(s)'
  BY <1>1 DEF Live, NoSession
<1>3. \A t \in SessionId : t # s => mediaSessions'[t] = mediaSessions[t]
  BY <1>1
<1> QED
  BY <1>2, <1>3 DEF Stays, Live

LEMMA eosTalks ==
    ASSUME TypeOK, AnswerInv, NEW s \in SessionId, eos(s)
    PROVE  Talks
<1>1. /\ Live(s) /\ UNCHANGED <<inbox, nextSessionId, link>>
      /\ mediaSessions' = [mediaSessions EXCEPT ![s] = NoSession]
  BY DEF eos
<1>2. ~Live(s)' /\ \A t \in SessionId : Live(t)' => Stays(t)
  BY <1>1, ForgottenStays
<1>3. CASE mediaSessions[s].prepared
  <2>1. SendRequest(<<>>, "TEARDOWN", s, <<>>) /\ <<>> \in Seq(Nat)
    BY <1>3 DEF eos
  <2> QED
    BY <1>1, <1>2, <1>3, <2>1, PreparedTalks
<1>4. CASE ~mediaSessions[s].prepared
  <2> DEFINE m == Response("BAD_GATEWAY", mediaSessions[s].cseq, s)
  <2>1. m \in Message
    <3>1. mediaSessions[s].cseq \in Nat /\ s \in Nat
      BY SessionIdNat DEF TypeOK, MediaSession
    <3> QED
      BY <3>1, ResponseType DEF Statuses
  <2>2. Emit(<<m>>)
    BY <1>4 DEF eos
  <2>3. /\ m.kind = "response" /\ m.session = s /\ m.head = "BAD_GATEWAY"
        /\ m.cseq = mediaSessions[s].cseq
    BY DEF Response
  <2>4. \/ mediaSessions[s].type = "Subscribe"
        \/ m.cseq \in 1..Len(inbox')
    BY <1>1, <1>4, <2>3 DEF AnswerInv, Owes, OwedRequest
  <2> HIDE DEF m
  <2>5. PICK new \in Seq(Message) :
            /\ wire' = wire \o new
            /\ Len(new) \in 0..1
            /\ \A k \in 1..Len(new) : k = 1 /\ new[k] = m
    BY <2>1, <2>2, OneSent
  <2>6. SaysStep(new)
    <3>1. Grows(new)
      <4>1. Len(inbox) \in Nat
        BY DEF TypeOK
      <4> QED
        BY <1>1, <2>5, <4>1 DEF Grows
    <3>2. nextSessionId <= nextSessionId'
      BY <1>1, NextIdNat
    <3>3. ASSUME NEW k \in 1..Len(new)
          PROVE  k = Len(new) /\ Live(new[k].session) /\ ~Live(new[k].session)'
      BY <1>1, <1>2, <2>3, <2>5 DEF Live
    <3>4. \A k \in 1..Len(new) : \/ new[k].cseq \in 1..Len(inbox')
                                  \/ \E t \in SessionId : mediaSessions[t].type = "Subscribe"
      BY <2>4, <2>5
    <3> QED
      BY <1>1, <3>1, <3>2, <3>3, <3>4 DEF SaysStep, NamesStep
  <2>7. QueueStep(new)
    <3>1. ASSUME NEW t \in SessionId, Live(t)', link' = "open"
          PROVE  Continues(t, new)
      <4>1. t # s /\ Stays(t)
        BY <1>2, <3>1
      <4> QED
        BY <2>3, <2>5, <3>1, <4>1 DEF Continues, Stays
    <3> QED
      BY <1>1, <1>2, <3>1 DEF QueueStep, Stays
  <2>8. AppliesNone(new)
    BY <1>2, <2>3, <2>5 DEF AppliesNone, Stays
  <2> QED
    BY <2>6, <2>7, <2>8 DEF TalkStep, Talks
<1> QED
  BY <1>3, <1>4

\* The messages of the callback that prepares session s: the announcement and,
\* if candidates are waiting, the SETUP that carries them.
Announcement(s, a, setup) == IF mediaSessions[s].queue = <<>> THEN <<a>> ELSE <<a, setup>>

LEMMA AnnouncementSent ==
    ASSUME TypeOK, NEW s \in SessionId, NEW a \in Message, NEW setup \in Message,
           Emit(Announcement(s, a, setup))
    PROVE  \E new \in Seq(Message) :
               /\ wire' = wire \o new
               /\ \A k \in 1..Len(new) : new[k] = a \/ new[k] = setup
               /\ link = "open" => 1 \in 1..Len(new)
<1>1. Announcement(s, a, setup) \in Seq(Message)
  BY DEF Announcement
<1>2. PICK new \in Seq(Message) :
          /\ wire' = wire \o new
          /\ new = Sent(Announcement(s, a, setup))
  BY <1>1, EmitGrows
<1>3. \A k \in 1..Len(new) : new[k] = a \/ new[k] = setup
  BY <1>2 DEF Sent, Announcement
<1>4. link = "open" => 1 \in 1..Len(new)
  BY <1>2 DEF Sent, Announcement
<1> QED
  BY <1>2, <1>3, <1>4

LEMMA PreparingTalks ==
    ASSUME TypeOK, NEW s \in SessionId, Live(s),
           NEW a \in Message, NEW setup \in Message, a.session = s, setup.session = s,
           setup.kind = "request", setup.head = "SETUP",
           ~EndsSession(a, inbox),
           a.kind = "response" => /\ a.cseq \in 1..Len(inbox)
                                  /\ inbox[a.cseq].method # "SETUP",
           Emit(Announcement(s, a, setup)), mediaSessions' = Prepared(s),
           UNCHANGED <<inbox, nextSessionId, link>>
    PROVE  Talks
<1>1. PICK new \in Seq(Message) :
          /\ wire' = wire \o new
          /\ \A k \in 1..Len(new) : new[k] = a \/ new[k] = setup
          /\ link = "open" => 1 \in 1..Len(new)
  BY AnnouncementSent
<1>2. ASSUME NEW t \in SessionId, t # s
      PROVE  mediaSessions'[t] = mediaSessions[t]
  BY <1>2 DEF Prepared, TypeOK
<1>3. /\ mediaSessions'[s].prepared
      /\ mediaSessions'[s].queue = <<>>
      /\ mediaSessions'[s].type = mediaSessions[s].type
      /\ mediaSessions'[s].remote = mediaSessions[s].remote
  <2>1. mediaSessions \in [SessionId -> MediaSession] /\ mediaSessions[s] \in MediaSession
    BY DEF TypeOK
  <2> QED
    BY <2>1 DEF Prepared, Flushed, MediaSession
<1>4. SaysStep(new)
  <2>1. Grows(new)
    <3>1. Len(inbox) \in Nat
      BY DEF TypeOK
    <3> QED
      BY <1>1, <3>1 DEF Grows
  <2>2. nextSessionId <= nextSessionId'
    BY NextIdNat
  <2>3. \A k \in 1..Len(new) : Live(new[k].session)
    BY <1>1
  <2>4. \A k \in 1..Len(new) : ~EndsSession(new[k], inbox')
    BY <1>1 DEF EndsSession
  <2>5. \A k \in 1..Len(new) : new[k].kind = "response" => new[k].cseq \in 1..Len(inbox')
    BY <1>1
  <2>6. \A c \in 1..Len(inbox') :
            c \notin 1..Len(inbox) => inbox'[c].session < nextSessionId
    OBVIOUS
  <2> QED
    BY <2>1, <2>2, <2>3, <2>4, <2>5, <2>6 DEF SaysStep, NamesStep
<1>5. QueueStep(new)
  <2>1. ASSUME NEW t \in SessionId, Live(t)'
        PROVE  /\ Live(t)
               /\ mediaSessions'[t].type = mediaSessions[t].type
               /\ link' = "open" => Continues(t, new) \/ GetsPrepared(t, new)
    <3>1. CASE t = s
      BY <1>1, <1>3, <3>1 DEF GetsPrepared
    <3>2. CASE t # s
      BY <1>1, <1>2, <2>1, <3>2 DEF Continues, Live
    <3> QED
      BY <3>1, <3>2
  <2> QED
    BY <2>1 DEF QueueStep
<1>6. AppliesNone(new)
  <2>1. \A t \in SessionId : Live(t)' =>
            Live(t) /\ mediaSessions'[t].remote = mediaSessions[t].remote
    BY <1>2, <1>3 DEF Live
  <2> QED
    BY <1>1, <2>1 DEF AppliesNone
<1> QED
  BY <1>4, <1>5, <1>6 DEF TalkStep, Talks

LEMMA InitialRequestAnsweredTalks ==
    ASSUME TypeOK, AnswerInv, NEW s \in SessionId, NEW type \in {"Describe", "Record"},
           InitialRequestAnswered(s, type)
    PROVE  Talks
<1> DEFINE c == mediaSessions[s].cseq
           a == Response("OK", c, s)
           setup == Request("SETUP", nextCSeq, s, mediaSessions[s].queue)
<1>1. OwedRequest(s) /\ Live(s)
  BY DEF InitialRequestAnswered, Owes, AnswerInv
<1>2. a \in Message /\ setup \in Message
  <2>1. c \in Nat /\ mediaSessions[s].queue \in Seq(Nat) /\ s \in Nat /\ nextCSeq \in Nat
    BY SessionIdNat DEF TypeOK, MediaSession
  <2> QED
    BY <2>1, ResponseType, RequestType DEF Statuses, Methods
<1>3. Emit(Announcement(s, a, setup))
  <2>1. SendThenFlush(<<a>>, s)
    BY DEF InitialRequestAnswered
  <2>2. CASE mediaSessions[s].queue = <<>>
    BY <2>1, <2>2 DEF SendThenFlush, Announcement
  <2>3. CASE mediaSessions[s].queue # <<>>
    <3>1. Emit(Append(<<a>>, setup))
      BY <2>1, <2>3 DEF SendThenFlush, SendRequest
    <3>2. Append(<<a>>, setup) = <<a, setup>>
      BY <1>2, AppendToOne
    <3> QED
      BY <2>3, <3>1, <3>2 DEF Announcement
  <2> QED
    BY <2>2, <2>3
<1>4. /\ a.kind = "response" /\ a.head = "OK" /\ a.session = s
      /\ a.cseq \in 1..Len(inbox)
      /\ inbox[a.cseq].method \in {"DESCRIBE", "RECORD"}
      /\ setup.kind = "request" /\ setup.head = "SETUP" /\ setup.session = s
  BY <1>1 DEF Response, Request, OwedRequest
<1>5. mediaSessions' = Prepared(s) /\ UNCHANGED <<inbox, nextSessionId, link>>
  BY DEF InitialRequestAnswered
<1> HIDE DEF a, setup
<1>6. ~EndsSession(a, inbox) /\ inbox[a.cseq].method # "SETUP"
  BY <1>4 DEF EndsSession
<1> QED
  BY <1>1, <1>2, <1>3, <1>4, <1>5, <1>6, PreparingTalks

LEMMA recordToClientStreamerPreparedTalks ==
    ASSUME TypeOK, NEW s \in SessionId, recordToClientStreamerPrepared(s)
    PROVE  Talks
<1> DEFINE a == Request("RECORD", nextCSeq, s, <<>>)
           setup == Request("SETUP", nextCSeq + 1, s, mediaSessions[s].queue)
<1>1. /\ Live(s) /\ mediaSessions' = Prepared(s)
      /\ Emit(Announcement(s, a, setup))
      /\ UNCHANGED <<inbox, nextSessionId, link>>
  BY DEF recordToClientStreamerPrepared, Announcement
<1>2. a \in Message /\ setup \in Message
  <2>1. mediaSessions[s].queue \in Seq(Nat) /\ s \in Nat /\ nextCSeq \in Nat
    BY SessionIdNat DEF TypeOK, MediaSession
  <2>2. <<>> \in Seq(Nat) /\ nextCSeq + 1 \in Nat
    BY <2>1
  <2> QED
    BY <2>1, <2>2, RequestType DEF Methods
<1>3. /\ a.kind = "request" /\ a.head = "RECORD" /\ a.session = s
      /\ setup.kind = "request" /\ setup.head = "SETUP" /\ setup.session = s
  BY DEF Request
<1> HIDE DEF a, setup
<1>4. ~EndsSession(a, inbox) /\ a.kind # "response"
  BY <1>3 DEF EndsSession
<1> QED
  BY <1>1, <1>2, <1>3, <1>4, PreparingTalks

LEMMA iceCandidateTalks ==
    ASSUME TypeOK, NEW s \in SessionId, iceCandidate(s)
    PROVE  Talks
<1>1. /\ gathered[s] + 1 \in Nat
      /\ mediaSessions \in [SessionId -> MediaSession]
      /\ Live(s) /\ UNCHANGED <<nextSessionId, link, inbox>>
  BY DEF TypeOK, iceCandidate
<1>2. CASE mediaSessions[s].prepared
  <2>1. /\ SendRequest(<<>>, "SETUP", s, <<gathered[s] + 1>>)
        /\ UNCHANGED mediaSessions
    BY <1>2 DEF iceCandidate
  <2>2. <<gathered[s] + 1>> \in Seq(Nat)
    BY <1>1
  <2>3. \A t \in SessionId : Live(t)' => Stays(t)
    BY <2>1 DEF Stays, Live
  <2> QED
    BY <1>1, <1>2, <2>1, <2>2, <2>3, PreparedTalks
<1>3. CASE ~mediaSessions[s].prepared
  <2>1. /\ wire' = wire
        /\ mediaSessions' = [mediaSessions EXCEPT ![s].queue = Append(@, gathered[s] + 1)]
    BY <1>3 DEF iceCandidate
  <2>2. ASSUME NEW t \in SessionId, Live(t)'
        PROVE  Stays(t)
    <3>1. CASE t = s
      <4>1. mediaSessions[s] \in MediaSession
        BY <1>1
      <4>2. /\ mediaSessions'[s].type = mediaSessions[s].type
            /\ mediaSessions'[s].remote = mediaSessions[s].remote
            /\ mediaSessions'[s].prepared = mediaSessions[s].prepared
        BY <1>1, <2>1, <4>1 DEF MediaSession
      <4> QED
        BY <1>1, <1>3, <3>1, <4>2 DEF Stays
    <3>2. CASE t # s
      BY <1>1, <2>1, <2>2, <3>2 DEF Stays, Live
    <3> QED
      BY <3>1, <3>2
  <2> QED
    BY <1>1, <2>1, <2>2, QuietTalks, NextIdNat DEF TakesRequestOf
<1> QED
  BY <1>2, <1>3

LEMMA PeerCallbackTalks ==
    ASSUME TypeOK, AnswerInv, NEW s \in SessionId, PeerCallback(s)
    PROVE  Talks
<1>1. CASE streamerPrepared(s)
  BY <1>1, InitialRequestAnsweredTalks DEF streamerPrepared
<1>2. CASE recorderPrepared(s)
  BY <1>2, InitialRequestAnsweredTalks DEF recorderPrepared
<1>3. CASE recordToClientStreamerPrepared(s)
  BY <1>3, recordToClientStreamerPreparedTalks
<1>4. CASE iceCandidate(s)
  BY <1>4, iceCandidateTalks
<1>5. CASE eos(s)
  BY <1>5, eosTalks
<1>6. CASE LateCallback(s)
  <2>1. /\ UNCHANGED <<mediaSessions, nextSessionId, wire, inbox>> /\ link' # "open"
    BY <1>6 DEF LateCallback, disconnect
  <2>2. \A t \in SessionId : Live(t)' => Stays(t)
    BY <2>1 DEF Stays, Live
  <2> QED
    BY <2>1, <2>2, QuietTalks, NextIdNat DEF TakesRequestOf
<1>7. CASE PreparedWithoutSdp(s)
  <2>1. /\ UNCHANGED <<nextSessionId, wire, inbox>> /\ link' # "open"
        /\ mediaSessions' = [mediaSessions EXCEPT ![s].prepared = TRUE]
    BY <1>7 DEF PreparedWithoutSdp, disconnect
  <2>2. ASSUME NEW t \in SessionId, Live(t)'
        PROVE  Stays(t)
    <3>1. mediaSessions \in [SessionId -> MediaSession] /\ mediaSessions[t] \in MediaSession
      BY DEF TypeOK
    <3>2. /\ mediaSessions'[t].type = mediaSessions[t].type
          /\ mediaSessions'[t].remote = mediaSessions[t].remote
      BY <2>1, <3>1 DEF MediaSession
    <3> QED
      BY <2>1, <2>2, <3>2 DEF Stays, Live
  <2> QED
    BY <2>1, <2>2, QuietTalks, NextIdNat DEF TakesRequestOf
<1> QED
  BY <1>1, <1>2, <1>3, <1>4, <1>5, <1>6, <1>7 DEF PeerCallback

LEMMA ClientStepTalks ==
    ASSUME TypeOK, IdsInv, QueueOnlyUntilPrepared, ClientStep
    PROVE  Talks
<1>1. /\ NoId \in KnownToClient
      /\ mediaSessions \in [SessionId -> MediaSession]
      /\ Len(inbox) + 1 \in Nat
  BY DEF KnownToClient, TypeOK
<1>2. UNCHANGED mediaSessions => \A t \in SessionId : Live(t)' => Stays(t)
  BY DEF Stays, Live
<1>3. ASSUME NEW method \in RefusedMethods, Unauthorized(method)
      PROVE  Talks
  BY <1>1, <1>2, <1>3, AnsweredTalks DEF Unauthorized, Statuses
<1>4. CASE DefaultRequestHandler
  BY <1>4, CloseTalks DEF DefaultRequestHandler, Reject
<1>5. CASE onOptionsRequest
  BY <1>1, <1>2, <1>5, AnsweredTalks DEF onOptionsRequest, Statuses
<1>6. CASE onGetParameterRequest
  BY <1>1, <1>2, <1>6, AnsweredTalks DEF onGetParameterRequest, Statuses
<1>7. CASE onDescribeRequest
  <2> DEFINE session == NewSession("Describe", Len(inbox) + 1)
  <2>1. CASE \E status \in {"NOT_FOUND", "SERVICE_UNAVAILABLE"} :
                 Answer(status, NoId) /\ UNCHANGED <<mediaSessions, nextSessionId>>
    BY <1>1, <1>2, <1>7, <2>1, AnsweredTalks DEF onDescribeRequest, Statuses
  <2>2. CASE CreateMediaSession(session) /\ UNCHANGED wire
    <3>1. session \in MediaSession
      BY <1>1, NewSessionType DEF AllTypes
    <3>2. ~session.prepared /\ session.remote = 0
      BY DEF NewSession, NoSession
    <3>3. TakesRequestOf(NoId) /\ UNCHANGED link
      BY <1>7 DEF onDescribeRequest, TakesRequestOf
    <3> QED
      BY <2>2, <3>1, <3>2, <3>3, CreateTalks, QuietTalks
  <2> QED
    BY <1>7, <2>1, <2>2 DEF onDescribeRequest
<1>8. CASE onRecordRequest
  <2> DEFINE plain == NewSession("Record", Len(inbox) + 1)
             session == [plain EXCEPT !.playing = TRUE]
  <2>1. CASE Reject
    BY <2>1, CloseTalks DEF Reject
  <2>2. CASE /\ Accept("RECORD", NoId, NoBody)
             /\ CreateMediaSession(session)
             /\ UNCHANGED <<sentRequests, nextCSeq, link, wire, gathered>>
    <3>1. plain \in MediaSession
      BY <1>1, NewSessionType DEF AllTypes
    <3>2. ~plain.prepared /\ plain.remote = 0
      BY DEF NewSession, NoSession
    <3>3. session \in MediaSession /\ ~session.prepared /\ session.remote = 0
      BY <3>1, <3>2 DEF MediaSession
    <3>4. TakesRequestOf(NoId)
      BY <2>2 DEF TakesRequestOf
    <3> QED
      BY <2>2, <3>3, <3>4, CreateTalks, QuietTalks
  <2> QED
    BY <1>8, <2>1, <2>2 DEF onRecordRequest
<1>9. ASSUME NEW s \in KnownToClient, NEW body \in SetupBodies, onSetupRequest(s, body)
      PROVE  Talks
  BY <1>9, SetupTalks DEF SetupBodies, SetupBody
<1>10. ASSUME NEW s \in KnownToClient, onPlayRequest(s)
       PROVE  Talks
  <2>1. CASE Reject
    BY <2>1, CloseTalks DEF Reject
  <2>2. CASE ~Reject
    <3>1. /\ Live(s) /\ Accept("PLAY", s, NoBody) /\ Answer("OK", s)
          /\ mediaSessions' = [mediaSessions EXCEPT ![s].playing = TRUE]
          /\ UNCHANGED <<nextSessionId, link>>
      BY <1>10, <2>2 DEF onPlayRequest
    <3>2. ASSUME NEW t \in SessionId, Live(t)'
          PROVE  Stays(t)
      BY <1>1, <3>1, <3>2 DEF Stays, Live, MediaSession
    <3> QED
      BY <3>1, <3>2, AnsweredTalks DEF Statuses
  <2> QED
    BY <2>1, <2>2
<1>11. ASSUME NEW s \in KnownToClient, onTeardownRequest(s)
       PROVE  Talks
  <2>1. CASE Reject
    BY <2>1, CloseTalks DEF Reject
  <2>2. CASE ~Reject
    <3>1. /\ Live(s) /\ Accept("TEARDOWN", s, NoBody) /\ Answer("OK", s)
          /\ mediaSessions' = [mediaSessions EXCEPT ![s] = NoSession]
          /\ UNCHANGED <<nextSessionId, link>>
      BY <1>11, <2>2 DEF onTeardownRequest
    <3>2. s \in SessionId
      BY <3>1 DEF Live
    <3>3. ~Live(s)' /\ \A t \in SessionId : Live(t)' => Stays(t)
      BY <3>1, <3>2, ForgottenStays
    <3> QED
      BY <3>1, <3>3, AnsweredTalks DEF Statuses
  <2> QED
    BY <2>1, <2>2
<1>12. ASSUME NEW cseq \in 1..(nextCSeq - 1), NEW ok \in BOOLEAN, handleResponse(cseq, ok)
       PROVE  Talks
  <2>1. CASE Close
    BY <2>1, CloseTalks
  <2>2. CASE ~Close
    <3> DEFINE found == {r \in sentRequests : r.cseq = cseq}
    <3>1. /\ mediaSessions' =
                 [s \in SessionId |->
                     IF \E r \in found : r.head = "RECORD" /\ r.session = s
                     THEN [mediaSessions[s] EXCEPT !.playing = TRUE]
                     ELSE mediaSessions[s]]
          /\ UNCHANGED <<nextSessionId, link, wire, inbox>>
      BY <1>12, <2>2 DEF handleResponse
    <3>2. ASSUME NEW t \in SessionId, Live(t)'
          PROVE  Stays(t)
      <4>1. \/ mediaSessions'[t] = mediaSessions[t]
            \/ mediaSessions'[t] = [mediaSessions[t] EXCEPT !.playing = TRUE]
        BY <3>1
      <4> QED
        BY <1>1, <3>2, <4>1 DEF Stays, Live, MediaSession
    <3> QED
      BY <3>1, <3>2, QuietTalks, NextIdNat DEF TakesRequestOf
  <2> QED
    BY <2>1, <2>2
<1> QED
  BY <1>3, <1>4, <1>5, <1>6, <1>7, <1>8, <1>9, <1>10, <1>11, <1>12 DEF ClientStep

LEMMA startRecordToClientTalks ==
    ASSUME TypeOK, startRecordToClient
    PROVE  Talks
<1> DEFINE session == NewSession("Subscribe", InvalidCSeq)
<1>1. wire' = wire /\ TakesRequestOf(NoId)
  BY DEF startRecordToClient, TakesRequestOf
<1>2. CASE CreateMediaSession(session) /\ UNCHANGED link
  <2>1. session \in MediaSession
    BY NewSessionType DEF AllTypes, InvalidCSeq
  <2>2. ~session.prepared /\ session.remote = 0
    BY DEF NewSession, NoSession
  <2> QED
    BY <1>1, <1>2, <2>1, <2>2, CreateTalks, QuietTalks
<1>3. CASE disconnect /\ UNCHANGED <<mediaSessions, nextSessionId>>
  <2>1. link' # "open"
    BY <1>3 DEF disconnect
  <2>2. \A t \in SessionId : Live(t)' => Stays(t)
    BY <1>3, <2>1 DEF Stays, Live
  <2> QED
    BY <1>1, <1>3, <2>1, <2>2, QuietTalks, NextIdNat
<1> QED
  BY <1>2, <1>3 DEF startRecordToClient

LEMMA NextTalks ==
    ASSUME TypeOK, AnswerInv, SilenceInv, [Next]_vars
    PROVE  Talks
<1>1. IdsInv /\ QueueOnlyUntilPrepared
  BY DEF SilenceInv
<1>2. ASSUME NEW s \in SessionId, PeerCallback(s)
      PROVE  Talks
  BY <1>2, PeerCallbackTalks
<1>3. CASE ClientStep
  BY <1>1, <1>3, ClientStepTalks
<1>4. CASE startRecordToClient
  BY <1>4, startRecordToClientTalks
<1>5. CASE Writeable \/ ConnectionLost
  BY <1>5, CloseTalks DEF Writeable, ConnectionLost
<1>6. CASE UNCHANGED vars
  <2>1. \A t \in SessionId : Live(t)' => Stays(t)
    BY <1>6 DEF vars, Stays, Live
  <2> QED
    BY <1>6, <2>1, QuietTalks, NextIdNat DEF vars, TakesRequestOf
<1> QED
  BY <1>2, <1>3, <1>4, <1>5, <1>6 DEF Next

LEMMA SilenceStep ==
    ASSUME TypeOK, AnswerInv, SilenceInv, [Next]_vars
    PROVE  SilenceInv'
<1>1. TypeOK'
  BY TypeStep
<1>2. PICK new : TalkStep(new)
  BY NextTalks DEF Talks
<1> QED
  BY <1>1, <1>2, TalkStepKeeps

\* Without subscriptions no session has CSeq 0 to answer.
LEMMA ResponsesStep ==
    ASSUME "Subscribe" \notin MediaTypes,
           TypeOK, AnswerInv, SilenceInv, ResponsesAnswerRequests, [Next]_vars
    PROVE  ResponsesAnswerRequests'
<1>1. PICK new : TalkStep(new)
  BY NextTalks DEF Talks
<1>2. /\ new \in Seq(Message) /\ wire' = wire \o new
      /\ Len(inbox) \in Nat /\ Len(inbox') \in Nat /\ Len(inbox) <= Len(inbox')
  <2>1. TypeOK'
    BY TypeStep
  <2> QED
    BY <1>1, <2>1 DEF TalkStep, SaysStep, NamesStep, Grows, TypeOK
<1>3. \A s \in SessionId : mediaSessions[s].type # "Subscribe"
  BY SubscribeNotNone DEF SilenceInv, OfferInv, Live
<1>4. \A k \in 1..Len(new) : new[k].kind = "response" => new[k].cseq \in 1..Len(inbox')
  BY <1>1, <1>3 DEF TalkStep, SaysStep, NamesStep
<1> SUFFICES ASSUME NEW i \in 1..Len(wire'), IsResponse(i)'
             PROVE  wire'[i].cseq \in 1..Len(inbox')
  BY DEF ResponsesAnswerRequests
<1>5. CASE i \in 1..Len(wire)
  <2>1. wire'[i] = wire[i]
    BY <1>2, <1>5, WireGrows
  <2>2. wire[i].cseq \in 1..Len(inbox)
    BY <1>5, <2>1 DEF ResponsesAnswerRequests, IsResponse
  <2>3. 1..Len(inbox) \subseteq 1..Len(inbox')
    BY <1>2
  <2> QED
    BY <2>1, <2>2, <2>3
<1>6. CASE i \notin 1..Len(wire)
  <2>1. /\ \A k \in 1..Len(new) : wire'[Len(wire) + k] = new[k]
        /\ \E k \in 1..Len(new) : i = Len(wire) + k
    BY <1>2, <1>6, WireGrows
  <2>2. PICK k \in 1..Len(new) : wire'[i] = new[k]
    BY <2>1
  <2> QED
    BY <1>4, <2>2 DEF IsResponse
<1> QED
  BY <1>5, <1>6

LEMMA SilenceInit == Init => SilenceInv
<1> SUFFICES ASSUME Init PROVE SilenceInv
  OBVIOUS
<1>1. /\ \A s \in SessionId : ~Live(s)
      /\ Len(wire) = 0 /\ Len(inbox) = 0
  BY DEF Init, Live, NoSession
<1>2. IdsInv /\ EndInv /\ OfferInv
  BY <1>1 DEF IdsInv, EndInv, OfferInv
<1>3. SilentAfterEnd /\ QueueOnlyUntilPrepared /\ SetupAppliedWhole
  BY <1>1 DEF SilentAfterEnd, QueueOnlyUntilPrepared, SetupAppliedWhole
<1> QED
  BY <1>2, <1>3 DEF SilenceInv

\* The inductive invariant: ids go up, so a session that ended on the wire is
\* gone for good and one that is being prepared has never been named.
THEOREM SilenceInvariant == Spec => []SilenceInv
<1>1. Init => TypeOK /\ AnswerInv /\ AnnounceInv /\ SilenceInv
  BY TypeInit, DialogInit, SilenceInit
<1>2. TypeOK /\ AnswerInv /\ AnnounceInv /\ SilenceInv /\ [Next]_vars
          => (TypeOK /\ AnswerInv /\ AnnounceInv /\ SilenceInv)'
  BY TypeStep, DialogStep, SilenceStep
<1> QED
  BY <1>1, <1>2, PTL DEF Spec

\* Once a TEARDOWN, its answer or a 502 has ended a session, the server never
\* names it again, whatever callbacks and requests come late.
THEOREM AlwaysSilentAfterEnd == Spec => []SilentAfterEnd
<1>1. SilenceInv => SilentAfterEnd
  BY DEF SilenceInv
<1> QED
  BY <1>1, SilenceInvariant, PTL

\* Candidates wait until their session is announced and none is left waiting
\* afterwards (iceCandidate 228, sendIceCandidates 117).
THEOREM AlwaysQueueOnlyUntilPrepared == Spec => []QueueOnlyUntilPrepared
<1>1. SilenceInv => QueueOnlyUntilPrepared
  BY DEF SilenceInv
<1> QED
  BY <1>1, SilenceInvariant, PTL

\* A SETUP answered OK has no malformed line, and all of it reached the peer
\* (onSetupRequest 544, 575).
THEOREM AlwaysAppliedWhole == Spec => []SetupAppliedWhole
<1>1. SilenceInv => SetupAppliedWhole
  BY DEF SilenceInv
<1> QED
  BY <1>1, SilenceInvariant, PTL

\* Where nothing is subscribed to, every response carries the CSeq of a request
\* of the client; a subscription whose peer fails early is the only exception
\* (eos 259 answers with the CSeq the session was given, which is 0 there).
THEOREM ResponsesAlwaysAnswerRequests ==
    ASSUME "Subscribe" \notin MediaTypes
    PROVE  Spec => []ResponsesAnswerRequests
<1>1. Init => /\ TypeOK /\ AnswerInv /\ AnnounceInv /\ SilenceInv
              /\ ResponsesAnswerRequests
  <2>1. Init => ResponsesAnswerRequests
    BY DEF Init, ResponsesAnswerRequests
  <2> QED
    BY <2>1, TypeInit, DialogInit, SilenceInit
<1>2. TypeOK /\ AnswerInv /\ AnnounceInv /\ SilenceInv /\ ResponsesAnswerRequests
          /\ [Next]_vars
          => (/\ TypeOK /\ AnswerInv /\ AnnounceInv /\ SilenceInv
              /\ ResponsesAnswerRequests)'
  BY TypeStep, DialogStep, SilenceStep, ResponsesStep
<1> QED
  BY <1>1, <1>2, PTL DEF Spec

-----------------------------------------------------------------------------
(* Candidates.  At most the last message of a step carries some, and they  *)
(* go on where the wire and the queue of their session left off.           *)

\* A step that appends "new" leaves the wire as it was.
LEMMA WirePast ==
    ASSUME TypeOK, NEW new \in Seq(Message), wire' = wire \o new, NEW s
    PROVE  /\ Len(wire) \in Nat /\ Len(new) \in Nat /\ Len(wire') = Len(wire) + Len(new)
           /\ \A i \in 1..Len(wire) : wire'[i] = wire[i] /\ (Brings(i, s)' <=> Brings(i, s))
           /\ \A k \in 1..Len(new), i \in 1..Len(wire') : i = Len(wire) + k =>
                  wire'[i] = new[k] /\ (Brings(i, s)' <=> Carries(new[k], s))
           /\ \A i \in 1..Len(wire') : i \in 1..Len(wire)
                  \/ \E k \in 1..Len(new) : i = Len(wire) + k
<1>1. /\ Len(wire) \in Nat /\ Len(new) \in Nat /\ Len(wire') = Len(wire) + Len(new)
      /\ \A i \in 1..Len(wire) : wire'[i] = wire[i]
      /\ \A k \in 1..Len(new) : wire'[Len(wire) + k] = new[k]
      /\ \A i \in 1..Len(wire') : i \in 1..Len(wire)
             \/ \E k \in 1..Len(new) : i = Len(wire) + k
  BY WireGrows
<1>2. \A i \in 1..Len(wire) : Brings(i, s)' <=> Brings(i, s)
  BY <1>1 DEF Brings
<1>3. ASSUME NEW k \in 1..Len(new), NEW i \in 1..Len(wire'), i = Len(wire) + k
      PROVE  wire'[i] = new[k] /\ (Brings(i, s)' <=> Carries(new[k], s))
  BY <1>1, <1>3 DEF Brings
<1> QED
  BY <1>1, <1>2, <1>3

\* What the first h messages brought they still do.
LEMMA UpToPast ==
    ASSUME TypeOK, NEW new \in Seq(Message), wire' = wire \o new,
           NEW s, NEW h \in 0..Len(wire), NEW n, UpTo(s, h, n)
    PROVE  UpTo(s, h, n)'
<1>1. /\ Len(wire) \in Nat
      /\ \A i \in 1..Len(wire) : wire'[i] = wire[i] /\ (Brings(i, s)' <=> Brings(i, s))
  BY WirePast
<1>2. 1..h \subseteq 1..Len(wire)
  BY <1>1
<1>3. CASE n = 0 /\ \A i \in 1..h : ~Brings(i, s)
  BY <1>1, <1>2, <1>3 DEF UpTo
<1>4. CASE ~(n = 0 /\ \A i \in 1..h : ~Brings(i, s))
  <2>1. PICK j \in 1..h : /\ Brings(j, s)
                          /\ wire[j].body[Len(wire[j].body)] = n
                          /\ \A i \in (j + 1)..h : ~Brings(i, s)
    BY <1>4 DEF UpTo
  <2>2. (j + 1)..h \subseteq 1..Len(wire) /\ j \in 1..Len(wire)
    BY <1>1
  <2>3. /\ Brings(j, s)' /\ wire'[j].body[Len(wire'[j].body)] = n
        /\ \A i \in (j + 1)..h : ~Brings(i, s)'
    BY <1>1, <2>1, <2>2
  <2> QED
    BY <2>3 DEF UpTo
<1> QED
  BY <1>3, <1>4

\* Messages without candidates of s bring none.
LEMMA UpToFurther ==
    ASSUME TypeOK, NEW new \in Seq(Message), wire' = wire \o new,
           NEW s, NEW m \in 0..Len(new), \A k \in 1..m : ~Carries(new[k], s),
           NEW n, UpTo(s, Len(wire), n), NEW h, h = Len(wire) + m
    PROVE  UpTo(s, h, n)'
<1>1. /\ Len(wire) \in Nat /\ Len(new) \in Nat
      /\ \A i \in 1..Len(wire) : wire'[i] = wire[i] /\ (Brings(i, s)' <=> Brings(i, s))
      /\ \A k \in 1..Len(new), i \in 1..Len(wire') :
             i = Len(wire) + k => (Brings(i, s)' <=> Carries(new[k], s))
      /\ Len(wire') = Len(wire) + Len(new)
  BY WirePast
<1>2. ASSUME NEW i \in (Len(wire) + 1)..h
      PROVE  ~Brings(i, s)'
  <2>1. i - Len(wire) \in 1..m /\ i - Len(wire) \in 1..Len(new)
        /\ Len(wire) + (i - Len(wire)) = i
    BY <1>1
  <2>2. PICK k \in 1..m : k \in 1..Len(new) /\ i = Len(wire) + k /\ i \in 1..Len(wire')
    <3>1. i - Len(wire) \in 1..Len(new) /\ i = Len(wire) + (i - Len(wire))
          /\ i \in 1..Len(wire')
      BY <1>1, <2>1
    <3> QED
      BY <2>1, <3>1
  <2> QED
    BY <1>1, <2>2
<1>3. CASE n = 0 /\ \A i \in 1..Len(wire) : ~Brings(i, s)
  <2>1. \A i \in 1..h : i \in 1..Len(wire) \/ i \in (Len(wire) + 1)..h
    BY <1>1
  <2> QED
    BY <1>1, <1>2, <1>3, <2>1 DEF UpTo
<1>4. CASE ~(n = 0 /\ \A i \in 1..Len(wire) : ~Brings(i, s))
  <2>1. PICK j \in 1..Len(wire) : /\ Brings(j, s)
                                  /\ wire[j].body[Len(wire[j].body)] = n
                                  /\ \A i \in (j + 1)..Len(wire) : ~Brings(i, s)
    BY <1>4 DEF UpTo
  <2>2. /\ j \in 1..h
        /\ \A i \in (j + 1)..h : i \in (j + 1)..Len(wire) \/ i \in (Len(wire) + 1)..h
        /\ (j + 1)..Len(wire) \subseteq 1..Len(wire)
    BY <1>1
  <2>3. \A i \in (j + 1)..h : ~Brings(i, s)'
    BY <1>1, <1>2, <2>1, <2>2
  <2>4. Brings(j, s)' /\ wire'[j].body[Len(wire'[j].body)] = n
    BY <1>1, <2>1
  <2> QED
    BY <2>2, <2>3, <2>4 DEF UpTo
<1> QED
  BY <1>3, <1>4

\* Candidates that are sent last are what the wire brings up to.
LEMMA UpToSent ==
    ASSUME TypeOK, NEW new \in Seq(Message), wire' = wire \o new, NEW s,
           Len(new) # 0, Carries(new[Len(new)], s),
           NEW n, n = new[Len(new)].body[Len(new[Len(new)].body)]
    PROVE  UpTo(s, Len(wire), n)'
<1>1. /\ Len(wire) \in Nat /\ Len(new) \in Nat /\ Len(wire') = Len(wire) + Len(new)
      /\ \A k \in 1..Len(new), i \in 1..Len(wire') : i = Len(wire) + k =>
             wire'[i] = new[k] /\ (Brings(i, s)' <=> Carries(new[k], s))
  BY WirePast
<1>2. Len(new) \in 1..Len(new)
  BY <1>1
<1>3. PICK h \in 1..Len(wire') : h = Len(wire')
  BY <1>1, <1>2
<1>4. h = Len(wire) + Len(new)
  BY <1>1, <1>3
<1>5. Brings(h, s)' /\ wire'[h] = new[Len(new)]
  BY <1>1, <1>2, <1>4
<1>6. (h + 1)..h = {}
  BY <1>3
<1>7. UpTo(s, h, n)'
  BY <1>3, <1>5, <1>6 DEF UpTo
<1> QED
  BY <1>3, <1>7
\* Messages that carry nothing, or what their session has next.
LEMMA RelayedKept ==
    ASSUME TypeOK, RelayedInOrder, NEW new \in Seq(Message), wire' = wire \o new,
           \A k \in 1..Len(new), s \in SessionId : Carries(new[k], s) =>
               /\ new[k].body # <<>> /\ Follows(new[k].body, s, Len(wire))
               /\ \A l \in 1..(k - 1) : ~Carries(new[l], s)
    PROVE  RelayedInOrder'
<1> SUFFICES ASSUME NEW s \in SessionId, NEW i \in 1..Len(wire'), Brings(i, s)'
             PROVE  wire'[i].body # <<>> /\ Follows(wire[i].body, s, i - 1)'
  BY DEF RelayedInOrder
<1>1. /\ Len(wire) \in Nat /\ Len(new) \in Nat
      /\ \A j \in 1..Len(wire) : wire'[j] = wire[j] /\ (Brings(j, s)' <=> Brings(j, s))
      /\ \A k \in 1..Len(new), j \in 1..Len(wire') : j = Len(wire) + k =>
             wire'[j] = new[k] /\ (Brings(j, s)' <=> Carries(new[k], s))
      /\ \A j \in 1..Len(wire') : j \in 1..Len(wire)
             \/ \E k \in 1..Len(new) : j = Len(wire) + k
  BY WirePast
<1>2. CASE i \in 1..Len(wire)
  <2>1. wire'[i] = wire[i] /\ wire[i].body # <<>> /\ Follows(wire[i].body, s, i - 1)
    BY <1>1, <1>2 DEF RelayedInOrder
  <2>2. i - 1 \in 0..Len(wire)
    BY <1>1, <1>2
  <2>3. ASSUME NEW body, body = wire[i].body PROVE Follows(body, s, i - 1)'
    <3>1. CASE body = <<>>
      BY <3>1 DEF Follows
    <3>2. CASE body # <<>>
      <4>1. UpTo(s, i - 1, body[1] - 1) /\ Consecutive(body, body[1] - 1)
        BY <2>1, <2>3, <3>2 DEF Follows
      <4>2. UpTo(s, i - 1, body[1] - 1)'
        BY <2>2, <4>1, UpToPast
      <4> QED
        BY <4>1, <4>2 DEF Follows, Consecutive
    <3> QED
      BY <3>1, <3>2
  <2> QED
    BY <2>1, <2>3 DEF Follows
<1>3. CASE i \notin 1..Len(wire)
  <2>1. PICK k \in 1..Len(new) : i = Len(wire) + k
    BY <1>1, <1>3
  <2>2. wire'[i] = new[k] /\ Carries(new[k], s)
    BY <1>1, <2>1
  <2>3. /\ new[k].body # <<>> /\ Follows(new[k].body, s, Len(wire))
        /\ \A l \in 1..(k - 1) : ~Carries(new[l], s)
    BY <2>2
  <2>4. PICK body : body = new[k].body
    OBVIOUS
  <2>5. UpTo(s, Len(wire), body[1] - 1) /\ Consecutive(body, body[1] - 1)
    BY <2>3, <2>4 DEF Follows
  <2>6. k - 1 \in 0..Len(new) /\ i - 1 = Len(wire) + (k - 1)
    BY <1>1, <2>1
  <2>7. UpTo(s, i - 1, body[1] - 1)'
    BY <2>3, <2>5, <2>6, UpToFurther
  <2>8. Follows(body, s, i - 1)'
    BY <2>5, <2>7 DEF Follows, Consecutive
  <2> QED
    BY <2>2, <2>3, <2>4, <2>8 DEF Follows
<1> QED
  BY <1>2, <1>3

\* As far as candidates go, session s stays as it is.
Rests(s) ==
    /\ Live(s)
    /\ mediaSessions'[s].prepared = mediaSessions[s].prepared
    /\ mediaSessions'[s].queue = mediaSessions[s].queue

LEMMA QueuedKept ==
    ASSUME TypeOK, NEW new \in Seq(Message), wire' = wire \o new,
           NEW s \in SessionId, Queued(s), Rests(s), gathered'[s] = gathered[s],
           link' = "open" => link = "open",
           \A k \in 1..Len(new) : ~Carries(new[k], s)
    PROVE  Queued(s)'
<1>1. /\ Len(wire) \in Nat /\ Len(new) \in Nat /\ Len(wire') = Len(wire) + Len(new)
      /\ \A i \in 1..Len(wire) : Brings(i, s)' <=> Brings(i, s)
      /\ \A k \in 1..Len(new), i \in 1..Len(wire') :
             i = Len(wire) + k => (Brings(i, s)' <=> Carries(new[k], s))
      /\ \A i \in 1..Len(wire') : i \in 1..Len(wire)
             \/ \E k \in 1..Len(new) : i = Len(wire) + k
  BY WirePast
<1>2. (\A i \in 1..Len(wire) : ~Brings(i, s)) => \A i \in 1..Len(wire') : ~Brings(i, s)'
  BY <1>1
<1>3. ASSUME NEW n, UpTo(s, Len(wire), n)
      PROVE  UpTo(s, Len(wire), n)'
  <2>1. PICK h : h = Len(wire) + Len(new)
    OBVIOUS
  <2>2. PICK m \in 0..Len(new) : m = Len(new)
    BY <1>1
  <2>3. (\A k \in 1..m : ~Carries(new[k], s)) /\ h = Len(wire) + m
    BY <2>1, <2>2
  <2>4. UpTo(s, h, n)'
    BY <1>3, <2>3, UpToFurther
  <2> QED
    BY <1>1, <2>1, <2>4 DEF UpTo
<1>4. PICK n : n = gathered[s]
  OBVIOUS
<1>5. /\ mediaSessions'[s].prepared /\ link' = "open" =>
             mediaSessions'[s].queue = <<>> /\ UpTo(s, Len(wire), n)'
  BY <1>3, <1>4 DEF Queued, Rests
<1>6. mediaSessions'[s].prepared /\ link' = "open" =>
          mediaSessions'[s].queue = <<>> /\ UpTo(s, Len(wire), gathered[s])'
  BY <1>4, <1>5
<1>7. /\ Consecutive(mediaSessions[s].queue, 0)'
      /\ ~mediaSessions'[s].prepared => gathered'[s] = Len(mediaSessions'[s].queue)
      /\ mediaSessions'[s].queue # <<>> \/ ~mediaSessions'[s].prepared =>
             \A i \in 1..Len(wire') : ~Brings(i, s)'
  BY <1>2 DEF Queued, Rests, Consecutive
<1> QED
  BY <1>6, <1>7 DEF Queued

\* Nothing was ever relayed of a session that is just created.
LEMMA QueuedCreated ==
    ASSUME TypeOK, IdsInv, CandidateInv, NEW new \in Seq(Message), wire' = wire \o new,
           NEW s \in SessionId, Created(s), mediaSessions'[s].queue = <<>>,
           gathered'[s] = gathered[s], \A k \in 1..Len(new) : ~Carries(new[k], s)
    PROVE  Queued(s)'
<1>1. s = nextSessionId /\ s \in Nat /\ ~mediaSessions'[s].prepared
  BY SessionIdNat DEF Created
<1>2. gathered'[s] = 0
  BY <1>1 DEF CandidateInv
<1>3. \A i \in 1..Len(wire) : ~Brings(i, s)
  BY <1>1 DEF IdsInv, Brings, Carries
<1>4. \A i \in 1..Len(wire') : ~Brings(i, s)'
  <2>1. /\ \A i \in 1..Len(wire) : Brings(i, s)' <=> Brings(i, s)
        /\ \A k \in 1..Len(new), i \in 1..Len(wire') :
               i = Len(wire) + k => (Brings(i, s)' <=> Carries(new[k], s))
        /\ \A i \in 1..Len(wire') : i \in 1..Len(wire)
               \/ \E k \in 1..Len(new) : i = Len(wire) + k
    BY WirePast
  <2> QED
    BY <1>3, <2>1
<1>5. Consecutive(mediaSessions[s].queue, 0)' /\ Len(mediaSessions'[s].queue) = 0
  BY DEF Consecutive
<1> QED
  BY <1>1, <1>2, <1>4, <1>5 DEF Queued

-----------------------------------------------------------------------------
(* Each action keeps the candidates in order.                              *)

\* No candidate is gathered or relayed.
Idles ==
    /\ gathered' = gathered
    /\ link' = "open" => link = "open"
    /\ nextSessionId <= nextSessionId'
    /\ \A s \in SessionId : Live(s)' =>
           \/ Created(s) /\ mediaSessions'[s].queue = <<>>
           \/ Rests(s)

LEMMA IdlesKeepOrder ==
    ASSUME TypeOK, TypeOK', IdsInv, CandidateInv, Idles,
           NEW new \in Seq(Message), wire' = wire \o new,
           \A k \in 1..Len(new), s \in SessionId : ~Carries(new[k], s)
    PROVE  CandidateInv'
<1>1. RelayedInOrder'
  BY RelayedKept DEF CandidateInv
<1>2. ASSUME NEW s \in SessionId, Live(s)'
      PROVE  Queued(s)'
  <2>1. gathered'[s] = gathered[s]
    BY DEF Idles
  <2>2. CASE Created(s) /\ mediaSessions'[s].queue = <<>>
    BY <2>1, <2>2, QueuedCreated
  <2>3. CASE Rests(s)
    <3>1. Queued(s) /\ (link' = "open" => link = "open")
      BY <2>3 DEF Rests, CandidateInv, Idles
    <3> QED
      BY <2>1, <2>3, <3>1, QueuedKept
  <2> QED
    BY <1>2, <2>2, <2>3 DEF Idles
<1>3. \A s \in SessionId : nextSessionId' <= s => gathered'[s] = 0
  <2>1. nextSessionId \in Nat /\ nextSessionId' \in Nat /\ nextSessionId <= nextSessionId'
        /\ SessionId \subseteq Nat
    BY SessionIdNat, BoundsAssumption DEF TypeOK, Idles
  <2>2. \A s \in SessionId : nextSessionId' <= s => nextSessionId <= s
    BY <2>1
  <2> QED
    BY <2>2 DEF CandidateInv, Idles
<1> QED
  BY <1>1, <1>2, <1>3 DEF CandidateInv

LEMMA QuietIdles ==
    ASSUME TypeOK, TypeOK', IdsInv, CandidateInv, Idles, wire' = wire
    PROVE  CandidateInv'
<1>1. /\ <<>> \in Seq(Message) /\ wire' = wire \o <<>>
      /\ \A k \in 1..Len(<<>>), s \in SessionId : ~Carries(<<>>[k], s)
  BY DEF TypeOK
<1> QED
  BY <1>1, IdlesKeepOrder

\* One message without candidates.
LEMMA SpeakingIdles ==
    ASSUME TypeOK, TypeOK', IdsInv, CandidateInv, Idles,
           NEW m \in Message, Emit(<<m>>), ~(m.kind = "request" /\ m.head = "SETUP")
    PROVE  CandidateInv'
<1>1. PICK new \in Seq(Message) :
          /\ wire' = wire \o new
          /\ \A k \in 1..Len(new) : new[k] = m
  BY OneSent
<1> QED
  BY <1>1, IdlesKeepOrder DEF Carries

LEMMA CloseKeepsOrder ==
    ASSUME TypeOK, TypeOK', IdsInv, CandidateInv, Close
    PROVE  CandidateInv'
<1>1. \A s \in SessionId : ~Live(s)'
  BY DEF Close, Live, NoSession
<1>2. Idles /\ wire' = wire
  BY <1>1, NextIdNat DEF Close, Idles
<1> QED
  BY <1>2, QuietIdles

\* The sessions may change but for their queues.
LEMMA SessionsRest ==
    ASSUME TypeOK, NEW s \in SessionId, NEW m,
           mediaSessions' = [mediaSessions EXCEPT ![s] = m],
           m.type # "None" => /\ m.type = mediaSessions[s].type
                              /\ m.prepared = mediaSessions[s].prepared
                              /\ m.queue = mediaSessions[s].queue
    PROVE  \A t \in SessionId : Live(t)' => Rests(t)
<1>1. mediaSessions \in [SessionId -> MediaSession]
  BY DEF TypeOK
<1>2. ASSUME NEW t \in SessionId, Live(t)'
      PROVE  Rests(t)
  <2>1. CASE t = s
    BY <1>1, <1>2, <2>1 DEF Rests, Live
  <2>2. CASE t # s
    BY <1>1, <1>2, <2>2 DEF Rests, Live
  <2> QED
    BY <2>1, <2>2
<1> QED
  BY <1>2

LEMMA CreateIdles ==
    ASSUME TypeOK, NEW session \in MediaSession, CreateMediaSession(session),
           ~session.prepared, session.remote = 0, session.queue = <<>>,
           UNCHANGED gathered, link' = "open" => link = "open"
    PROVE  Idles
<1>1. /\ session.type \in MediaTypes
      /\ nextSessionId \in SessionId
      /\ mediaSessions' = [mediaSessions EXCEPT ![nextSessionId] = session]
      /\ nextSessionId' = nextSessionId + 1
      /\ mediaSessions \in [SessionId -> MediaSession]
  BY DEF CreateMediaSession, TypeOK
<1>2. ASSUME NEW s \in SessionId, Live(s)'
      PROVE  \/ Created(s) /\ mediaSessions'[s].queue = <<>>
             \/ Rests(s)
  <2>1. CASE s = nextSessionId
    BY <1>1, <2>1 DEF Created
  <2>2. CASE s # nextSessionId
    BY <1>1, <1>2, <2>2 DEF Rests, Live
  <2> QED
    BY <2>1, <2>2
<1>3. nextSessionId <= nextSessionId'
  BY <1>1, NextIdNat
<1> QED
  BY <1>2, <1>3 DEF Idles
\* Only session s gathers or relays.
LEMMA OthersRest ==
    ASSUME TypeOK, IdsInv, CandidateInv, NEW s \in SessionId, Live(s),
           NEW new \in Seq(Message), wire' = wire \o new,
           \A k \in 1..Len(new), t \in SessionId : t # s => ~Carries(new[k], t),
           \A t \in SessionId : t # s =>
               /\ gathered'[t] = gathered[t]
               /\ mediaSessions'[t] = mediaSessions[t],
           link' = "open" => link = "open", nextSessionId' = nextSessionId,
           RelayedInOrder', Queued(s)'
    PROVE  CandidateInv'
<1>1. ASSUME NEW t \in SessionId, Live(t)'
      PROVE  Queued(t)'
  <2>1. CASE t = s
    BY <2>1
  <2>2. CASE t # s
    <3>1. Rests(t) /\ gathered'[t] = gathered[t] /\ \A k \in 1..Len(new) : ~Carries(new[k], t)
      BY <1>1, <2>2 DEF Rests, Live
    <3>2. Queued(t)
      BY <3>1 DEF Rests, CandidateInv
    <3> QED
      BY <3>1, <3>2, QueuedKept
  <2> QED
    BY <2>1, <2>2
<1>2. ASSUME NEW t \in SessionId, nextSessionId' <= t
      PROVE  gathered'[t] = 0
  <2>1. s < nextSessionId /\ s \in Nat /\ t \in Nat /\ nextSessionId \in Nat
    BY SessionIdNat, NextIdNat DEF IdsInv
  <2>2. t # s /\ gathered[t] = 0
    BY <1>2, <2>1 DEF CandidateInv
  <2> QED
    BY <2>2
<1> QED
  BY <1>1, <1>2 DEF CandidateInv

LEMMA PreparedWithoutSdpKeeps ==
    ASSUME TypeOK, TypeOK', IdsInv, CandidateInv, NEW s \in SessionId, PreparedWithoutSdp(s)
    PROVE  CandidateInv'
<1>1. /\ Live(s) /\ ~mediaSessions[s].prepared /\ link' # "open"
      /\ mediaSessions' = [mediaSessions EXCEPT ![s].prepared = TRUE]
      /\ UNCHANGED <<nextSessionId, wire, inbox, gathered>>
  BY DEF PreparedWithoutSdp, disconnect
<1>2. /\ \A t \in SessionId : t # s => mediaSessions'[t] = mediaSessions[t]
      /\ mediaSessions'[s].queue = mediaSessions[s].queue
      /\ mediaSessions'[s].prepared
  BY <1>1 DEF TypeOK, MediaSession
<1>3. Queued(s)
  BY <1>1 DEF CandidateInv
<1>4. Queued(s)'
  BY <1>1, <1>2, <1>3 DEF Queued, Consecutive, Brings
<1>5. /\ <<>> \in Seq(Message) /\ wire' = wire \o <<>>
      /\ \A k \in 1..Len(<<>>), t \in SessionId : ~Carries(<<>>[k], t)
  BY <1>1 DEF TypeOK
<1>6. RelayedInOrder'
  BY <1>5, RelayedKept DEF CandidateInv
<1> QED
  BY <1>1, <1>2, <1>4, <1>5, <1>6, OthersRest

\* The callback that prepares session s flushes its queue behind the announcement.
LEMMA PreparingKeeps ==
    ASSUME TypeOK, TypeOK', IdsInv, CandidateInv,
           NEW s \in SessionId, Live(s), ~mediaSessions[s].prepared,
           NEW a \in Message, NEW setup \in Message,
           ~(a.kind = "request" /\ a.head = "SETUP"),
           Carries(setup, s), setup.body = mediaSessions[s].queue,
           Emit(Announcement(s, a, setup)), mediaSessions' = Prepared(s),
           UNCHANGED <<nextSessionId, link, gathered>>
    PROVE  CandidateInv'
<1> DEFINE q == mediaSessions[s].queue
<1>1. /\ \A t \in SessionId : t # s => mediaSessions'[t] = mediaSessions[t]
      /\ mediaSessions'[s].prepared /\ mediaSessions'[s].queue = <<>>
      /\ q \in Seq(Nat) /\ Len(q) \in Nat
  <2>1. mediaSessions \in [SessionId -> MediaSession] /\ mediaSessions[s] \in MediaSession
    BY DEF TypeOK
  <2> QED
    BY <2>1 DEF Prepared, Flushed, MediaSession
<1>2. /\ Consecutive(q, 0) /\ gathered[s] = Len(q)
      /\ \A i \in 1..Len(wire) : ~Brings(i, s)
      /\ RelayedInOrder
  BY DEF CandidateInv, Queued
<1>3. UpTo(s, Len(wire), 0)
  BY <1>2 DEF UpTo
<1>4. Consecutive(mediaSessions[s].queue, 0)'
  BY <1>1 DEF Consecutive
<1>5. \A t \in SessionId : ~Carries(a, t)
  BY DEF Carries
<1>6. PICK new \in Seq(Message) : wire' = wire \o new /\ new = Sent(Announcement(s, a, setup))
  <2>1. Announcement(s, a, setup) \in Seq(Message)
    BY DEF Announcement
  <2> QED
    BY <2>1, EmitGrows
<1>7. \A k \in 1..Len(new), t \in SessionId : t # s => ~Carries(new[k], t)
  <2>1. \A k \in 1..Len(new) : new[k] = a \/ new[k] = setup
    BY <1>6 DEF Sent, Announcement
  <2> QED
    BY <1>5, <2>1 DEF Carries
<1>8. CASE link # "open" \/ q = <<>>
  <2>1. \A k \in 1..Len(new), t \in SessionId : ~Carries(new[k], t)
    <3>1. \A k \in 1..Len(new) : new[k] = a
      BY <1>6, <1>8 DEF Sent, Announcement
    <3> QED
      BY <1>5, <3>1
  <2>2. RelayedInOrder'
    BY <1>2, <1>6, <2>1, RelayedKept
  <2>3. link' = "open" => UpTo(s, Len(wire), gathered[s])'
    <3> HAVE link' = "open"
    <3>1. gathered'[s] = 0
      BY <1>1, <1>2, <1>8
    <3>2. /\ Len(wire) \in Nat /\ Len(new) \in Nat /\ Len(wire') = Len(wire) + Len(new)
          /\ Len(new) \in 0..Len(new)
      BY <1>6, WirePast
    <3>3. PICK h : h = Len(wire) + Len(new)
      OBVIOUS
    <3>4. UpTo(s, h, 0)'
      BY <1>3, <1>6, <2>1, <3>2, <3>3, UpToFurther
    <3> QED
      BY <3>1, <3>2, <3>3, <3>4 DEF UpTo
  <2>4. Queued(s)'
    BY <1>1, <1>4, <2>3 DEF Queued
  <2> QED
    BY <1>1, <1>6, <1>7, <2>2, <2>4, OthersRest
<1>9. CASE link = "open" /\ q # <<>>
  <2>1. /\ new = <<a, setup>> /\ Len(new) = 2 /\ new[1] = a /\ new[2] = setup
    BY <1>6, <1>9 DEF Sent, Announcement
  <2>2. q[1] = 1 /\ q[Len(q)] = Len(q)
    BY <1>1, <1>2, <1>9 DEF Consecutive
  <2>3. Follows(q, s, Len(wire))
    BY <1>2, <1>3, <2>2 DEF Follows
  <2>4. RelayedInOrder'
    <3>1. ASSUME NEW k \in 1..Len(new), NEW t \in SessionId, Carries(new[k], t)
          PROVE  /\ new[k].body # <<>> /\ Follows(new[k].body, t, Len(wire))
                 /\ \A l \in 1..(k - 1) : ~Carries(new[l], t)
      <4>1. t = s
        BY <1>7, <3>1
      <4>2. k = 2
        BY <1>5, <2>1, <3>1
      <4> QED
        BY <1>5, <1>9, <2>1, <2>3, <4>1, <4>2
    <3> QED
      BY <1>2, <1>6, <3>1, RelayedKept
  <2>5. UpTo(s, Len(wire), gathered[s])'
    <3>1. PICK n : n = Len(q)
      OBVIOUS
    <3>2. Len(new) # 0 /\ Carries(new[Len(new)], s) /\ n = new[Len(new)].body[Len(new[Len(new)].body)]
      BY <2>1, <2>2, <3>1
    <3>3. UpTo(s, Len(wire), n)'
      BY <1>6, <3>2, UpToSent
    <3> QED
      BY <1>2, <3>1, <3>3
  <2>6. Queued(s)'
    BY <1>1, <1>4, <2>5 DEF Queued
  <2> QED
    BY <1>1, <1>6, <1>7, <2>4, <2>6, OthersRest
<1> QED
  BY <1>8, <1>9

LEMMA InitialRequestAnsweredKeeps ==
    ASSUME TypeOK, TypeOK', IdsInv, CandidateInv, NEW s \in SessionId, NEW type,
           InitialRequestAnswered(s, type)
    PROVE  CandidateInv'
<1> DEFINE a == Response("OK", mediaSessions[s].cseq, s)
           setup == Request("SETUP", nextCSeq, s, mediaSessions[s].queue)
<1>1. a \in Message /\ setup \in Message
  <2>1. /\ mediaSessions[s].cseq \in Nat /\ mediaSessions[s].queue \in Seq(Nat)
        /\ s \in Nat /\ nextCSeq \in Nat
    BY SessionIdNat DEF TypeOK, MediaSession
  <2> QED
    BY <2>1, ResponseType, RequestType DEF Statuses, Methods
<1>2. Emit(Announcement(s, a, setup))
  <2>1. SendThenFlush(<<a>>, s)
    BY DEF InitialRequestAnswered
  <2>2. CASE mediaSessions[s].queue = <<>>
    BY <2>1, <2>2 DEF SendThenFlush, Announcement
  <2>3. CASE mediaSessions[s].queue # <<>>
    <3>1. Emit(Append(<<a>>, setup))
      BY <2>1, <2>3 DEF SendThenFlush, SendRequest
    <3>2. Append(<<a>>, setup) = <<a, setup>>
      BY <1>1, AppendToOne
    <3> QED
      BY <2>3, <3>1, <3>2 DEF Announcement
  <2> QED
    BY <2>2, <2>3
<1>3. /\ a.kind = "response" /\ Carries(setup, s) /\ setup.body = mediaSessions[s].queue
  BY DEF Response, Request, Carries
<1>4. /\ Live(s) /\ ~mediaSessions[s].prepared /\ mediaSessions' = Prepared(s)
      /\ UNCHANGED <<nextSessionId, link, gathered>>
  BY DEF InitialRequestAnswered
<1> HIDE DEF a, setup
<1> QED
  BY <1>1, <1>2, <1>3, <1>4, PreparingKeeps

LEMMA recordToClientStreamerPreparedKeeps ==
    ASSUME TypeOK, TypeOK', IdsInv, CandidateInv, NEW s \in SessionId,
           recordToClientStreamerPrepared(s)
    PROVE  CandidateInv'
<1> DEFINE a == Request("RECORD", nextCSeq, s, <<>>)
           setup == Request("SETUP", nextCSeq + 1, s, mediaSessions[s].queue)
<1>1. /\ Live(s) /\ ~mediaSessions[s].prepared /\ mediaSessions' = Prepared(s)
      /\ Emit(Announcement(s, a, setup))
      /\ UNCHANGED <<nextSessionId, link, gathered>>
  BY DEF recordToClientStreamerPrepared, Announcement
<1>2. a \in Message /\ setup \in Message
  <2>1. mediaSessions[s].queue \in Seq(Nat) /\ s \in Nat /\ nextCSeq \in Nat
    BY SessionIdNat DEF TypeOK, MediaSession
  <2>2. <<>> \in Seq(Nat) /\ nextCSeq + 1 \in Nat
    BY <2>1
  <2> QED
    BY <2>1, <2>2, RequestType DEF Methods
<1>3. /\ a.head = "RECORD" /\ Carries(setup, s) /\ setup.body = mediaSessions[s].queue
  BY DEF Request, Carries
<1> HIDE DEF a, setup
<1> QED
  BY <1>1, <1>2, <1>3, PreparingKeeps

\* A candidate of a prepared session is relayed, if it can still be written.
LEMMA RelayingKeeps ==
    ASSUME TypeOK, TypeOK', IdsInv, CandidateInv,
           NEW s \in SessionId, iceCandidate(s), mediaSessions[s].prepared
    PROVE  CandidateInv'
<1> DEFINE m == Request("SETUP", nextCSeq, s, <<gathered[s] + 1>>)
<1>1. /\ Live(s) /\ mediaSessions' = mediaSessions
      /\ SendRequest(<<>>, "SETUP", s, <<gathered[s] + 1>>)
      /\ gathered' = [gathered EXCEPT ![s] = @ + 1]
      /\ UNCHANGED <<nextSessionId, link>>
  BY DEF iceCandidate
<1>2. /\ gathered[s] \in Nat /\ gathered'[s] = gathered[s] + 1
      /\ \A t \in SessionId : t # s => gathered'[t] = gathered[t]
  BY <1>1 DEF TypeOK
<1>3. m \in Message
  <2>1. <<gathered[s] + 1>> \in Seq(Nat)
    BY <1>2
  <2> QED
    BY <2>1, RequestType, SessionIdNat DEF TypeOK, Methods
<1>4. Emit(<<m>>)
  <2>1. Append(<<>>, m) = <<m>>
    OBVIOUS
  <2> QED
    BY <1>1, <2>1 DEF SendRequest
<1>5. m.body = <<gathered[s] + 1>> /\ \A t : Carries(m, t) <=> t = s
  BY DEF Request, Carries
<1> HIDE DEF m
<1>6. PICK new \in Seq(Message) :
          /\ wire' = wire \o new
          /\ Len(new) \in 0..1
          /\ \A k \in 1..Len(new) : k = 1 /\ new[k] = m
          /\ link = "open" => 1 \in 1..Len(new)
          /\ link # "open" => new = <<>>
  BY <1>3, <1>4, OneSent
<1>7. Queued(s) /\ RelayedInOrder
  BY <1>1 DEF CandidateInv
<1>8. Consecutive(mediaSessions[s].queue, 0)'
  BY <1>1, <1>7 DEF Queued, Consecutive
<1>9. \A k \in 1..Len(new), t \in SessionId : t # s => ~Carries(new[k], t)
  BY <1>5, <1>6
<1>10. CASE link = "open"
  <2>1. /\ mediaSessions[s].queue = <<>> /\ UpTo(s, Len(wire), gathered[s])
    BY <1>7, <1>10 DEF Queued
  <2>2. /\ Len(new) = 1 /\ new[1] = m
        /\ m.body # <<>> /\ Len(m.body) = 1 /\ m.body[1] = gathered[s] + 1
    <3>1. 1 \in 1..Len(new) /\ Len(new) = 1 /\ new[1] = m
      BY <1>6, <1>10
    <3>2. m.body = <<gathered[s] + 1>>
      BY <1>5
    <3>3. m.body # <<>> /\ Len(m.body) = 1 /\ m.body[1] = gathered[s] + 1
      BY <3>2
    <3> QED
      BY <3>1, <3>3
  <2>3. Follows(m.body, s, Len(wire))
    <3>1. gathered[s] = m.body[1] - 1
      BY <1>2, <2>2
    <3>2. Consecutive(m.body, m.body[1] - 1)
      BY <1>2, <2>2 DEF Consecutive
    <3> QED
      BY <2>1, <3>1, <3>2 DEF Follows
  <2>4. RelayedInOrder'
    <3>1. ASSUME NEW k \in 1..Len(new), NEW t \in SessionId, Carries(new[k], t)
          PROVE  /\ new[k].body # <<>> /\ Follows(new[k].body, t, Len(wire))
                 /\ \A l \in 1..(k - 1) : ~Carries(new[l], t)
      <4>1. t = s /\ k = 1 /\ new[k] = m
        BY <1>6, <1>9, <3>1
      <4> QED
        BY <2>2, <2>3, <4>1
    <3> QED
      BY <1>6, <1>7, <3>1, RelayedKept
  <2>5. UpTo(s, Len(wire), gathered[s])'
    <3>1. PICK n : n = gathered[s] + 1
      OBVIOUS
    <3>2. Len(new) # 0 /\ Carries(new[Len(new)], s) /\ n = new[Len(new)].body[Len(new[Len(new)].body)]
      <4>1. Len(new) # 0 /\ new[Len(new)] = m
        BY <2>2
      <4>2. n = m.body[Len(m.body)]
        BY <2>2, <3>1
      <4> QED
        BY <1>5, <4>1, <4>2
    <3>3. UpTo(s, Len(wire), n)'
      BY <1>6, <2>2, <3>2, UpToSent
    <3> QED
      BY <1>2, <3>1, <3>3
  <2>6. Queued(s)'
    BY <1>1, <1>8, <2>1, <2>5 DEF Queued
  <2> QED
    BY <1>1, <1>2, <1>6, <1>9, <2>4, <2>6, OthersRest
<1>11. CASE link # "open"
  <2>1. wire' = wire /\ new = <<>>
    <3>1. wire \in Seq(Message) /\ wire \o <<>> = wire
      BY DEF TypeOK
    <3> QED
      BY <1>6, <1>11, <3>1
  <2>2. RelayedInOrder'
    <3>1. \A k \in 1..Len(new) : FALSE
      BY <2>1
    <3> QED
      BY <1>6, <1>7, <3>1, RelayedKept
  <2>3. Queued(s)'
    BY <1>1, <1>7, <1>8, <1>11, <2>1 DEF Queued, Brings
  <2> QED
    BY <1>1, <1>2, <1>6, <1>9, <2>2, <2>3, OthersRest
<1> QED
  BY <1>10, <1>11

\* A candidate of a session that is not prepared waits behind the earlier ones.
LEMMA QueueingKeeps ==
    ASSUME TypeOK, TypeOK', IdsInv, CandidateInv,
           NEW s \in SessionId, iceCandidate(s), ~mediaSessions[s].prepared
    PROVE  CandidateInv'
<1>1. /\ Live(s) /\ wire' = wire
      /\ mediaSessions' = [mediaSessions EXCEPT ![s].queue = Append(@, gathered[s] + 1)]
      /\ gathered' = [gathered EXCEPT ![s] = @ + 1]
      /\ UNCHANGED <<nextSessionId, link>>
  BY DEF iceCandidate
<1>2. /\ gathered[s] \in Nat /\ gathered'[s] = gathered[s] + 1
      /\ \A t \in SessionId : t # s => gathered'[t] = gathered[t]
  BY <1>1 DEF TypeOK
<1>3. /\ mediaSessions[s].queue \in Seq(Nat)
      /\ mediaSessions'[s].queue = Append(mediaSessions[s].queue, gathered[s] + 1)
      /\ mediaSessions'[s].prepared = mediaSessions[s].prepared
      /\ \A t \in SessionId : t # s => mediaSessions'[t] = mediaSessions[t]
  BY <1>1 DEF TypeOK, MediaSession
<1>4. /\ Consecutive(mediaSessions[s].queue, 0) /\ gathered[s] = Len(mediaSessions[s].queue)
      /\ \A i \in 1..Len(wire) : ~Brings(i, s)
      /\ RelayedInOrder
  BY <1>1 DEF CandidateInv, Queued
<1>5. /\ Len(mediaSessions'[s].queue) = gathered'[s]
      /\ \A k \in 1..Len(mediaSessions'[s].queue) :
             \/ k \in 1..Len(mediaSessions[s].queue)
                /\ mediaSessions'[s].queue[k] = mediaSessions[s].queue[k]
             \/ k = gathered[s] + 1 /\ mediaSessions'[s].queue[k] = gathered[s] + 1
  BY <1>2, <1>3, <1>4
<1>6. Consecutive(mediaSessions[s].queue, 0)'
  <2>1. \A k \in 1..Len(mediaSessions'[s].queue) : mediaSessions'[s].queue[k] = 0 + k
    <3>1. ASSUME NEW k \in 1..Len(mediaSessions'[s].queue)
          PROVE  mediaSessions'[s].queue[k] = k
      <4>1. CASE /\ k \in 1..Len(mediaSessions[s].queue)
                 /\ mediaSessions'[s].queue[k] = mediaSessions[s].queue[k]
        BY <1>4, <4>1 DEF Consecutive
      <4>2. CASE k = gathered[s] + 1 /\ mediaSessions'[s].queue[k] = gathered[s] + 1
        BY <4>2
      <4> QED
        BY <1>5, <4>1, <4>2
    <3> QED
      BY <3>1
  <2> QED
    BY <2>1 DEF Consecutive
<1>7. Queued(s)'
  BY <1>1, <1>3, <1>4, <1>5, <1>6 DEF Queued, Brings
<1>8. /\ <<>> \in Seq(Message) /\ wire' = wire \o <<>>
      /\ \A k \in 1..Len(<<>>), t \in SessionId : ~Carries(<<>>[k], t)
  BY <1>1 DEF TypeOK
<1>9. RelayedInOrder'
  BY <1>4, <1>8, RelayedKept
<1> QED
  BY <1>1, <1>2, <1>3, <1>7, <1>8, <1>9, OthersRest

LEMMA eosKeepsOrder ==
    ASSUME TypeOK, TypeOK', IdsInv, CandidateInv, NEW s \in SessionId, eos(s)
    PROVE  CandidateInv'
<1>1. \A t \in SessionId : Live(t)' => Rests(t)
  BY SessionsRest DEF eos, NoSession
<1>2. Idles
  BY <1>1, NextIdNat DEF eos, Idles
<1>3. PICK m : /\ Emit(<<m>>) /\ m \in Message
               /\ m.head \in {"TEARDOWN", "BAD_GATEWAY"}
  <2>1. CASE mediaSessions[s].prepared
    <3> DEFINE m == Request("TEARDOWN", nextCSeq, s, <<>>)
    <3>1. Append(<<>>, m) = <<m>>
      OBVIOUS
    <3>2. Emit(<<m>>)
      BY <2>1, <3>1 DEF eos, SendRequest
    <3>3. m \in Message
      <4>1. <<>> \in Seq(Nat)
        OBVIOUS
      <4> QED
        BY <4>1, RequestType, SessionIdNat DEF TypeOK, Methods
    <3>4. m.head = "TEARDOWN"
      BY DEF Request
    <3> QED
      BY <3>2, <3>3, <3>4
  <2>2. CASE ~mediaSessions[s].prepared
    <3> DEFINE m == Response("BAD_GATEWAY", mediaSessions[s].cseq, s)
    <3>1. Emit(<<m>>)
      BY <2>2 DEF eos
    <3>2. m \in Message
      <4>1. mediaSessions[s].cseq \in Nat /\ s \in Nat
        BY SessionIdNat DEF TypeOK, MediaSession
      <4> QED
        BY <4>1, ResponseType DEF Statuses
    <3>3. m.head = "BAD_GATEWAY"
      BY DEF Response
    <3> QED
      BY <3>1, <3>2, <3>3
  <2> QED
    BY <2>1, <2>2
<1> QED
  BY <1>2, <1>3, SpeakingIdles

LEMMA PeerCallbackKeepsOrder ==
    ASSUME TypeOK, TypeOK', IdsInv, CandidateInv, NEW s \in SessionId, PeerCallback(s)
    PROVE  CandidateInv'
<1>1. CASE PreparedWithoutSdp(s)
  BY <1>1, PreparedWithoutSdpKeeps
<1>2. CASE streamerPrepared(s) \/ recorderPrepared(s)
  BY <1>2, InitialRequestAnsweredKeeps DEF streamerPrepared, recorderPrepared
<1>3. CASE recordToClientStreamerPrepared(s)
  BY <1>3, recordToClientStreamerPreparedKeeps
<1>4. CASE iceCandidate(s)
  BY <1>4, RelayingKeeps, QueueingKeeps
<1>5. CASE eos(s)
  BY <1>5, eosKeepsOrder
<1>6. CASE LateCallback(s)
  <2>1. Idles /\ wire' = wire
    BY <1>6, NextIdNat DEF LateCallback, disconnect, Idles, Rests, Live
  <2> QED
    BY <2>1, QuietIdles
<1> QED
  BY <1>1, <1>2, <1>3, <1>4, <1>5, <1>6 DEF PeerCallback

\* An answer carries no candidates.
LEMMA AnsweringKeeps ==
    ASSUME TypeOK, TypeOK', IdsInv, CandidateInv,
           NEW s \in Nat, NEW status \in Statuses, Answer(status, s),
           UNCHANGED <<nextSessionId, link, gathered>>,
           \A t \in SessionId : Live(t)' => Rests(t)
    PROVE  CandidateInv'
<1> DEFINE m == Response(status, Len(inbox) + 1, s)
<1>1. m \in Message
  <2>1. Len(inbox) + 1 \in Nat
    BY DEF TypeOK
  <2> QED
    BY <2>1, ResponseType
<1>2. Emit(<<m>>) /\ m.kind = "response"
  BY DEF Answer, Response
<1>3. Idles
  BY NextIdNat DEF Idles
<1> HIDE DEF m
<1> QED
  BY <1>1, <1>2, <1>3, SpeakingIdles

LEMMA onSetupRequestKeepsOrder ==
    ASSUME TypeOK, TypeOK', IdsInv, CandidateInv,
           NEW s \in Nat, NEW body, onSetupRequest(s, body)
    PROVE  CandidateInv'
<1>1. CASE Reject
  BY <1>1, CloseKeepsOrder DEF Reject
<1>2. CASE ~Reject
  <2>1. /\ Live(s) /\ s \in SessionId /\ Answer("OK", s)
        /\ mediaSessions' = [mediaSessions EXCEPT ![s].remote = @ + body.lines]
        /\ UNCHANGED <<nextSessionId, link, gathered>>
    BY <1>2 DEF onSetupRequest, Live
  <2> DEFINE m == [mediaSessions[s] EXCEPT !.remote = @ + body.lines]
  <2>2. mediaSessions' = [mediaSessions EXCEPT ![s] = m]
    BY <2>1
  <2>3. /\ m.type = mediaSessions[s].type
        /\ m.prepared = mediaSessions[s].prepared
        /\ m.queue = mediaSessions[s].queue
    BY <2>1 DEF TypeOK, MediaSession
  <2>4. \A t \in SessionId : Live(t)' => Rests(t)
    BY <2>1, <2>2, <2>3, SessionsRest
  <2> QED
    BY <2>1, <2>4, AnsweringKeeps DEF Statuses
<1> QED
  BY <1>1, <1>2

LEMMA onPlayRequestKeepsOrder ==
    ASSUME TypeOK, TypeOK', IdsInv, CandidateInv, NEW s \in Nat, onPlayRequest(s)
    PROVE  CandidateInv'
<1>1. CASE Reject
  BY <1>1, CloseKeepsOrder DEF Reject
<1>2. CASE ~Reject
  <2>1. /\ Live(s) /\ s \in SessionId /\ Answer("OK", s)
        /\ mediaSessions' = [mediaSessions EXCEPT ![s].playing = TRUE]
        /\ UNCHANGED <<nextSessionId, link, gathered>>
    BY <1>2 DEF onPlayRequest, Live
  <2> DEFINE m == [mediaSessions[s] EXCEPT !.playing = TRUE]
  <2>2. mediaSessions' = [mediaSessions EXCEPT ![s] = m]
    BY <2>1
  <2>3. /\ m.type = mediaSessions[s].type
        /\ m.prepared = mediaSessions[s].prepared
        /\ m.queue = mediaSessions[s].queue
    BY <2>1 DEF TypeOK, MediaSession
  <2>4. \A t \in SessionId : Live(t)' => Rests(t)
    BY <2>1, <2>2, <2>3, SessionsRest
  <2> QED
    BY <2>1, <2>4, AnsweringKeeps DEF Statuses
<1> QED
  BY <1>1, <1>2

LEMMA onTeardownRequestKeepsOrder ==
    ASSUME TypeOK, TypeOK', IdsInv, CandidateInv, NEW s \in Nat, onTeardownRequest(s)
    PROVE  CandidateInv'
<1>1. CASE Reject
  BY <1>1, CloseKeepsOrder DEF Reject
<1>2. CASE ~Reject
  <2>1. /\ Live(s) /\ s \in SessionId /\ Answer("OK", s)
        /\ mediaSessions' = [mediaSessions EXCEPT ![s] = NoSession]
        /\ UNCHANGED <<nextSessionId, link, gathered>>
    BY <1>2 DEF onTeardownRequest, Live
  <2>2. \A t \in SessionId : Live(t)' => Rests(t)
    BY <2>1, SessionsRest DEF NoSession
  <2> QED
    BY <2>1, <2>2, AnsweringKeeps DEF Statuses
<1> QED
  BY <1>1, <1>2

LEMMA handleResponseKeepsOrder ==
    ASSUME TypeOK, TypeOK', IdsInv, CandidateInv, NEW cseq, NEW ok, handleResponse(cseq, ok)
    PROVE  CandidateInv'
<1>1. CASE Close
  BY <1>1, CloseKeepsOrder
<1>2. CASE ~Close
  <2> DEFINE found == {r \in sentRequests : r.cseq = cseq}
  <2>1. /\ mediaSessions' =
               [s \in SessionId |->
                   IF \E r \in found : r.head = "RECORD" /\ r.session = s
                   THEN [mediaSessions[s] EXCEPT !.playing = TRUE]
                   ELSE mediaSessions[s]]
        /\ UNCHANGED <<nextSessionId, link, wire, gathered>>
    BY <1>2 DEF handleResponse
  <2>2. ASSUME NEW t \in SessionId, Live(t)'
        PROVE  Rests(t)
    <3>1. \/ mediaSessions'[t] = mediaSessions[t]
          \/ mediaSessions'[t] = [mediaSessions[t] EXCEPT !.playing = TRUE]
      BY <2>1
    <3>2. mediaSessions[t] \in MediaSession
      BY DEF TypeOK
    <3> QED
      BY <2>2, <3>1, <3>2 DEF Rests, Live, MediaSession
  <2>3. Idles
    BY <2>1, <2>2, NextIdNat DEF Idles
  <2> QED
    BY <2>1, <2>3, QuietIdles
<1> QED
  BY <1>1, <1>2

\* A request that says nothing of candidates leaves the queues as they are.
LEMMA ClientStepKeepsOrder ==
    ASSUME TypeOK, TypeOK', IdsInv, CandidateInv, ClientStep
    PROVE  CandidateInv'
<1>1. /\ \A s \in KnownToClient : s \in Nat
      /\ NoId \in Nat /\ Len(inbox) + 1 \in Nat
  BY SessionIdNat DEF KnownToClient, TypeOK
<1>2. UNCHANGED mediaSessions => \A t \in SessionId : Live(t)' => Rests(t)
  BY DEF Rests, Live
<1>3. CASE \E method \in RefusedMethods : Unauthorized(method)
  BY <1>1, <1>2, <1>3, AnsweringKeeps DEF Unauthorized, Statuses
<1>4. CASE DefaultRequestHandler
  BY <1>4, CloseKeepsOrder DEF DefaultRequestHandler, Reject
<1>5. CASE onOptionsRequest \/ onGetParameterRequest
  BY <1>1, <1>2, <1>5, AnsweringKeeps DEF onOptionsRequest, onGetParameterRequest, Statuses
<1>6. CASE onDescribeRequest
  <2> DEFINE session == NewSession("Describe", Len(inbox) + 1)
  <2>1. CASE \E status \in {"NOT_FOUND", "SERVICE_UNAVAILABLE"} :
                 Answer(status, NoId) /\ UNCHANGED <<mediaSessions, nextSessionId>>
    BY <1>1, <1>2, <1>6, <2>1, AnsweringKeeps DEF onDescribeRequest, Statuses
  <2>2. CASE CreateMediaSession(session) /\ UNCHANGED wire
    <3>1. session \in MediaSession
      BY <1>1, NewSessionType DEF AllTypes
    <3>2. ~session.prepared /\ session.remote = 0 /\ session.queue = <<>>
      BY DEF NewSession, NoSession
    <3>3. UNCHANGED <<link, gathered>>
      BY <1>6 DEF onDescribeRequest
    <3> QED
      BY <2>2, <3>1, <3>2, <3>3, CreateIdles, QuietIdles
  <2> QED
    BY <1>6, <2>1, <2>2 DEF onDescribeRequest
<1>7. CASE onRecordRequest
  <2> DEFINE plain == NewSession("Record", Len(inbox) + 1)
             session == [plain EXCEPT !.playing = TRUE]
  <2>1. CASE Reject
    BY <2>1, CloseKeepsOrder DEF Reject
  <2>2. CASE /\ CreateMediaSession(session)
             /\ UNCHANGED <<sentRequests, nextCSeq, link, wire, gathered>>
    <3>1. plain \in MediaSession
      BY <1>1, NewSessionType DEF AllTypes
    <3>2. ~plain.prepared /\ plain.remote = 0 /\ plain.queue = <<>>
      BY DEF NewSession, NoSession
    <3>3. /\ session \in MediaSession
          /\ ~session.prepared /\ session.remote = 0 /\ session.queue = <<>>
      BY <3>1, <3>2 DEF MediaSession
    <3> QED
      BY <2>2, <3>3, CreateIdles, QuietIdles
  <2> QED
    BY <1>7, <2>1, <2>2 DEF onRecordRequest
<1>8. ASSUME NEW s \in KnownToClient,
             \/ \E body \in SetupBodies : onSetupRequest(s, body)
             \/ onPlayRequest(s)
             \/ onTeardownRequest(s)
      PROVE  CandidateInv'
  BY <1>1, <1>8, onSetupRequestKeepsOrder, onPlayRequestKeepsOrder, onTeardownRequestKeepsOrder
<1>9. CASE \E cseq \in 1..(nextCSeq - 1), ok \in BOOLEAN : handleResponse(cseq, ok)
  BY <1>9, handleResponseKeepsOrder
<1> QED
  BY <1>3, <1>4, <1>5, <1>6, <1>7, <1>8, <1>9 DEF ClientStep

LEMMA startRecordToClientKeepsOrder ==
    ASSUME TypeOK, TypeOK', IdsInv, CandidateInv, startRecordToClient
    PROVE  CandidateInv'
<1> DEFINE session == NewSession("Subscribe", InvalidCSeq)
<1>1. UNCHANGED <<wire, gathered>>
  BY DEF startRecordToClient
<1>2. CASE CreateMediaSession(session) /\ UNCHANGED link
  <2>1. session \in MediaSession
    BY NewSessionType DEF AllTypes, InvalidCSeq
  <2>2. ~session.prepared /\ session.remote = 0 /\ session.queue = <<>>
    BY DEF NewSession, NoSession
  <2> QED
    BY <1>1, <1>2, <2>1, <2>2, CreateIdles, QuietIdles
<1>3. CASE disconnect /\ UNCHANGED <<mediaSessions, nextSessionId>>
  <2>1. Idles
    BY <1>1, <1>3, NextIdNat DEF disconnect, Idles, Rests, Live
  <2> QED
    BY <1>1, <2>1, QuietIdles
<1> QED
  BY <1>2, <1>3 DEF startRecordToClient

LEMMA CandidateStep ==
    ASSUME TypeOK, IdsInv, CandidateInv, [Next]_vars
    PROVE  CandidateInv'
<1>1. TypeOK'
  BY TypeStep
<1>2. CASE \E s \in SessionId : PeerCallback(s)
  BY <1>1, <1>2, PeerCallbackKeepsOrder
<1>3. CASE ClientStep
  BY <1>1, <1>3, ClientStepKeepsOrder
<1>4. CASE startRecordToClient
  BY <1>1, <1>4, startRecordToClientKeepsOrder
<1>5. CASE Writeable \/ ConnectionLost
  BY <1>1, <1>5, CloseKeepsOrder DEF Writeable, ConnectionLost
<1>6. CASE UNCHANGED vars
  <2>1. Idles /\ wire' = wire
    BY <1>6, NextIdNat DEF vars, Idles, Rests, Live
  <2> QED
    BY <1>1, <2>1, QuietIdles
<1> QED
  BY <1>2, <1>3, <1>4, <1>5, <1>6 DEF Next

LEMMA CandidateInit == Init => CandidateInv
<1> SUFFICES ASSUME Init PROVE CandidateInv
  OBVIOUS
<1>1. /\ \A s \in SessionId : ~Live(s)
      /\ Len(wire) = 0
  BY DEF Init, Live, NoSession
<1>2. \A s \in SessionId : gathered[s] = 0
  BY DEF Init
<1> QED
  BY <1>1, <1>2 DEF CandidateInv, RelayedInOrder

\* What waits in a queue starts with the first candidate.
LEMMA CandidatesFollow ==
    ASSUME TypeOK, CandidateInv
    PROVE  CandidatesInOrder
<1>1. \A s \in SessionId : \A i \in 1..Len(wire) : Brings(i, s) => Follows(wire[i].body, s, i - 1)
  BY DEF CandidateInv, RelayedInOrder
<1>2. ASSUME NEW s \in SessionId, Live(s)
      PROVE  /\ Follows(mediaSessions[s].queue, s, Len(wire))
             /\ link = "open" =>
                    UpTo(s, Len(wire), gathered[s] - Len(mediaSessions[s].queue))
  <2> DEFINE q == mediaSessions[s].queue
  <2>1. q \in Seq(Nat) /\ Len(q) \in Nat /\ gathered[s] \in Nat
    BY DEF TypeOK, MediaSession
  <2>2. Queued(s)
    BY <1>2 DEF CandidateInv
  <2>3. ASSUME q # <<>> \/ ~mediaSessions[s].prepared
        PROVE  UpTo(s, Len(wire), 0)
    BY <2>2, <2>3 DEF Queued, UpTo
  <2>4. CASE q # <<>>
    <3>1. q[1] = 1 /\ Consecutive(q, 0)
      BY <2>1, <2>2, <2>4 DEF Queued, Consecutive
    <3>2. Follows(q, s, Len(wire))
      BY <2>3, <2>4, <3>1 DEF Follows
    <3>3. link = "open" => gathered[s] - Len(q) = 0
      BY <2>1, <2>2, <2>4 DEF Queued
    <3> QED
      BY <2>3, <2>4, <3>2, <3>3
  <2>5. CASE q = <<>>
    <3>1. Len(q) = 0 /\ gathered[s] - Len(q) = gathered[s] /\ Follows(q, s, Len(wire))
      BY <2>1, <2>5 DEF Follows
    <3>2. CASE mediaSessions[s].prepared
      BY <2>2, <3>1, <3>2 DEF Queued
    <3>3. CASE ~mediaSessions[s].prepared
      BY <2>2, <2>3, <3>1, <3>3 DEF Queued
    <3> QED
      BY <3>2, <3>3
  <2> QED
    BY <2>4, <2>5
<1> QED
  BY <1>1, <1>2 DEF CandidatesInOrder

\* Every candidate the peer gathered has been relayed or waits in the queue, once
\* and in order (iceCandidate 228, sendIceCandidates 117): the switch from queueing
\* to relaying neither loses nor repeats one, whatever else happens meanwhile.
THEOREM CandidatesAlwaysInOrder == Spec => []CandidatesInOrder
<1>1. Init => TypeOK /\ AnswerInv /\ AnnounceInv /\ SilenceInv /\ CandidateInv
  BY TypeInit, DialogInit, SilenceInit, CandidateInit
<1>2. TypeOK /\ AnswerInv /\ AnnounceInv /\ SilenceInv /\ CandidateInv /\ [Next]_vars
          => (TypeOK /\ AnswerInv /\ AnnounceInv /\ SilenceInv /\ CandidateInv)'
  BY TypeStep, DialogStep, SilenceStep, CandidateStep DEF SilenceInv
<1>3. TypeOK /\ CandidateInv => CandidatesInOrder
  BY CandidatesFollow
<1> QED
  BY <1>1, <1>2, <1>3, PTL DEF Spec

-----------------------------------------------------------------------------
(* The refinement of MediaDialog.  An induction first: what has left of   *)
(* the candidates is a recursive function over the wire.                   *)

\* Induction over the naturals, for a set instead of a predicate.
LEMMA Induction ==
    ASSUME NEW S, 0 \in S, \A n \in Nat : n \in S => n + 1 \in S
    PROVE  Nat \subseteq S
<1> DEFINE T == Nat \ S
<1>1. SUFFICES ASSUME T # {}
               PROVE  FALSE
  OBVIOUS
<1>2. IsWellFoundedOn(OpToRel(<, Nat), Nat)
  BY NatLessThanWellFounded
<1>3. PICK x \in T : \A y \in T : ~(<<y, x>> \in OpToRel(<, Nat))
  <2> HIDE DEF T
  <2>1. T \subseteq Nat
    BY DEF T
  <2> QED
    BY <1>1, <1>2, <2>1, WFMin
<1>4. \A y \in T : ~(y < x)
  BY <1>3 DEF OpToRel
<1>5. x - 1 \in Nat
  OBVIOUS
<1>6. x - 1 \in T
  BY <1>5
<1> QED
  BY <1>4, <1>6

-----------------------------------------------------------------------------
(* The candidates that have left.                                          *)

\* A message that brings candidates brings the numbers of some.
LEMMA BringsSome ==
    ASSUME TypeOK, RelayedInOrder, NEW s \in SessionId, NEW h \in 1..Len(wire), Brings(h, s)
    PROVE  LET body == wire[h].body IN
           /\ body \in Seq(Nat) /\ Len(body) \in Nat \ {0}
           /\ body[1] \in Nat /\ body[Len(body)] \in Nat
           /\ UpTo(s, h - 1, body[1] - 1)
           /\ \A k \in 1..Len(body) : body[k] = body[1] - 1 + k
<1> DEFINE body == wire[h].body
<1>1. wire[h] \in Message
  BY DEF TypeOK
<1>2. body \in Seq(Nat)
  BY <1>1 DEF Message
<1>3. body # <<>> /\ Follows(body, s, h - 1)
  BY DEF RelayedInOrder
<1> HIDE DEF body
<1>4. Len(body) \in Nat \ {0} /\ body[1] \in Nat /\ body[Len(body)] \in Nat
  BY <1>2, <1>3
<1>5. UpTo(s, h - 1, body[1] - 1) /\ \A k \in 1..Len(body) : body[k] = body[1] - 1 + k
  BY <1>3 DEF Follows, Consecutive
<1> QED
  BY <1>2, <1>4, <1>5 DEF body

\* Counting to m and on for as long as b goes is counting to the end of both.
LEMMA CountOn ==
    ASSUME NEW m \in Nat, NEW b \in Seq(Nat), \A k \in 1..Len(b) : b[k] = m + k
    PROVE  [i \in 1..(m + Len(b)) |-> i] = [i \in 1..m |-> i] \o b
<1> DEFINE a == [i \in 1..m |-> i]
           c == [i \in 1..(m + Len(b)) |-> i]
<1>1. a \in Seq(Nat) /\ Len(a) = m
  OBVIOUS
<1>2. Len(b) \in Nat
  OBVIOUS
<1>3. c \in Seq(Nat) /\ Len(c) = m + Len(b)
  BY <1>2
<1>4. a \o b \in Seq(Nat) /\ Len(a \o b) = m + Len(b)
  BY <1>1
<1>5. ASSUME NEW i \in 1..(m + Len(b))
      PROVE  c[i] = (a \o b)[i]
  <2>1. CASE i <= m
    <3>1. i \in 1..m /\ a[i] = i
      BY <1>2, <2>1
    <3> QED
      BY <1>1, <1>2, <3>1
  <2>2. CASE ~(i <= m)
    <3>1. i - m \in 1..Len(b) /\ b[i - m] = i
      <4>1. i - m \in 1..Len(b) /\ m + (i - m) = i
        BY <1>2, <2>2
      <4> QED
        BY <4>1
    <3>2. (a \o b)[i] = b[i - m]
      <4> HIDE DEF a
      <4>1. i \in 1..(Len(a) + Len(b)) /\ ~(i <= Len(a))
        BY <1>1, <2>2
      <4>2. (a \o b)[i] = b[i - Len(a)]
        BY <1>1, <4>1, ConcatProperties
      <4> QED
        BY <1>1, <4>2
    <3> QED
      BY <3>1, <3>2
  <2> QED
    BY <2>1, <2>2
<1> HIDE DEF a, c
<1>6. c = a \o b
  BY <1>3, <1>4, <1>5, SeqEqual
<1> QED
  BY <1>6 DEF a, c

\* There is one last candidate.
LEMMA UpToUnique ==
    ASSUME TypeOK, NEW s, NEW h \in 0..Len(wire), NEW m, NEW n, UpTo(s, h, m), UpTo(s, h, n)
    PROVE  m = n
BY DEF UpTo, TypeOK

\* A message either brings the last candidate or leaves it.
LEMMA UpToStep ==
    ASSUME TypeOK, NEW s, NEW h \in 1..Len(wire), NEW n
    PROVE  /\ ~Brings(h, s) /\ UpTo(s, h - 1, n) => UpTo(s, h, n)
           /\ Brings(h, s) => UpTo(s, h, wire[h].body[Len(wire[h].body)])
BY DEF UpTo, TypeOK

\* On every prefix of a wire in order there is a last candidate.
LEMMA UpToSome ==
    ASSUME TypeOK, RelayedInOrder, NEW s \in SessionId, NEW h \in 0..Len(wire)
    PROVE  \E n \in Nat : UpTo(s, h, n)
<1> DEFINE P(k) == \E n \in Nat : UpTo(s, k, n)
           S == {k \in Nat : k <= Len(wire) => P(k)}
<1>1. 0 \in S
  BY DEF UpTo
<1>2. ASSUME NEW k \in Nat, k \in S
      PROVE  k + 1 \in S
  <2>1. CASE k + 1 <= Len(wire)
    <3>1. k + 1 \in 1..Len(wire) /\ (k + 1) - 1 = k /\ P(k)
      BY <1>2, <2>1 DEF TypeOK
    <3>2. CASE Brings(k + 1, s)
      <4>1. UpTo(s, k + 1, wire[k + 1].body[Len(wire[k + 1].body)])
        BY <3>1, <3>2, UpToStep
      <4>2. wire[k + 1].body[Len(wire[k + 1].body)] \in Nat
        BY <3>1, <3>2, BringsSome
      <4> QED
        BY <4>1, <4>2
    <3>3. CASE ~Brings(k + 1, s)
      BY <3>1, <3>3, UpToStep
    <3> QED
      BY <3>2, <3>3
  <2> QED
    BY <2>1
<1>3. Nat \subseteq S
  <2> HIDE DEF S
  <2> QED
    BY <1>1, <1>2, Induction
<1>4. h \in Nat /\ h <= Len(wire)
  BY DEF TypeOK
<1> QED
  BY <1>3, <1>4

\* What has left are the candidates up to the last one.
LEMMA RelayedIs ==
    ASSUME TypeOK, RelayedInOrder, NEW s \in SessionId, NEW n, UpTo(s, Len(wire), n)
    PROVE  Relayed(s) = [i \in 1..n |-> i]
<1> DEFINE L == Len(wire)
           upTo[h \in 0..L] ==
               IF h = 0 THEN <<>>
               ELSE IF Brings(h, s) THEN upTo[h - 1] \o wire[h].body
               ELSE upTo[h - 1]
           N(h) == CHOOSE m \in Nat : UpTo(s, h, m)
           f == [h \in 0..L |-> [i \in 1..N(h) |-> i]]
           D(g, h) == IF h = 0 THEN <<>>
                      ELSE IF Brings(h, s) THEN g[h - 1] \o wire[h].body
                      ELSE g[h - 1]
<1>1. L \in Nat
  BY DEF TypeOK
<1>2. \A h \in 0..L : N(h) \in Nat /\ UpTo(s, h, N(h))
  BY UpToSome
<1> HIDE DEF N
<1>3. N(0) = 0 /\ N(L) = n
  <2>1. UpTo(s, 0, 0)
    BY DEF UpTo
  <2> QED
    BY <1>1, <1>2, <2>1, UpToUnique
<1>4. ASSUME NEW h \in 1..L
      PROVE  f[h] = IF Brings(h, s) THEN f[h - 1] \o wire[h].body ELSE f[h - 1]
  <2>1. h \in 0..L /\ h - 1 \in 0..L
    BY <1>1
  <2>2. CASE Brings(h, s)
    <3> DEFINE b == wire[h].body
    <3>1. /\ b \in Seq(Nat) /\ Len(b) \in Nat \ {0}
          /\ UpTo(s, h - 1, b[1] - 1)
          /\ \A k \in 1..Len(b) : b[k] = b[1] - 1 + k
      BY <2>2, BringsSome
    <3>2. UpTo(s, h, b[Len(b)])
      BY <2>2, UpToStep
    <3> HIDE DEF b
    <3>3. N(h - 1) = b[1] - 1 /\ N(h) = b[Len(b)]
      BY <1>2, <2>1, <3>1, <3>2, UpToUnique
    <3>4. N(h - 1) \in Nat /\ N(h) = N(h - 1) + Len(b)
      <4>1. b[Len(b)] = b[1] - 1 + Len(b)
        BY <3>1
      <4>2. N(h - 1) \in Nat
        BY <1>2, <2>1
      <4> QED
        BY <3>3, <4>1, <4>2
    <3>6. \A k \in 1..Len(b) : b[k] = N(h - 1) + k
      BY <3>1, <3>3
    <3>7. [i \in 1..N(h) |-> i] = [i \in 1..N(h - 1) |-> i] \o b
      BY <3>1, <3>4, <3>6, CountOn
    <3> QED
      BY <2>1, <2>2, <3>7 DEF b
  <2>3. CASE ~Brings(h, s)
    <3>1. UpTo(s, h, N(h - 1))
      BY <1>2, <2>1, <2>3, UpToStep
    <3>2. N(h) = N(h - 1)
      BY <1>2, <2>1, <3>1, UpToUnique
    <3> QED
      BY <2>1, <2>3, <3>2
  <2> QED
    BY <2>2, <2>3
<1>5. f[0] = <<>>
  BY <1>1, <1>3
<1>6. f = [h \in 0..L |-> D(f, h)]
  <2>1. ASSUME NEW h \in 0..L
        PROVE  f[h] = D(f, h)
    <3> HIDE DEF f
    <3>1. h = 0 \/ h \in 1..L
      BY <1>1
    <3> QED
      BY <1>4, <1>5, <3>1
  <2> QED
    BY <2>1
<1>7. upTo = CHOOSE g : g = [h \in 0..L |-> D(g, h)]
  OBVIOUS
<1> HIDE DEF upTo
<1>8. upTo = [h \in 0..L |-> D(upTo, h)]
  BY <1>6, <1>7
<1> DEFINE S == {h \in Nat : h <= L => upTo[h] = f[h]}
<1>9. 0 \in S
  BY <1>1, <1>5, <1>8
<1>10. ASSUME NEW k \in Nat, k \in S
       PROVE  k + 1 \in S
  <2>1. CASE k + 1 <= L
    <3>1. k + 1 \in 1..L /\ k + 1 \in 0..L /\ k + 1 # 0 /\ (k + 1) - 1 = k /\ k <= L
      BY <1>1, <2>1
    <3>2. upTo[k] = f[k]
      BY <1>10, <3>1
    <3>3. upTo[k + 1] = D(upTo, k + 1)
      BY <1>8, <3>1
    <3>4. f[k + 1] = IF Brings(k + 1, s) THEN f[k] \o wire[k + 1].body ELSE f[k]
      BY <1>4, <3>1
    <3> HIDE DEF f
    <3>5. upTo[k + 1] = f[k + 1]
      BY <3>1, <3>2, <3>3, <3>4
    <3> QED
      BY <3>5
  <2> QED
    BY <2>1
<1>11. Nat \subseteq S
  <2> HIDE DEF S
  <2> QED
    BY <1>9, <1>10, Induction
<1>12. upTo[L] = [i \in 1..n |-> i]
  <2>1. L \in S /\ L \in 0..L
    <3> HIDE DEF S
    <3> QED
      BY <1>1, <1>11
  <2>2. upTo[L] = f[L]
    BY <1>1, <2>1
  <2> QED
    BY <1>3, <2>1, <2>2
<1>13. Relayed(s) = upTo[L]
  BY DEF Relayed, upTo
<1> QED
  BY <1>12, <1>13

-----------------------------------------------------------------------------
(* What a step says: nothing, one message, or the announcement of a        *)
(* session together with the candidates that waited for it.                *)

\* Session s relays its candidates at once.
Relaying(s) ==
    /\ s \in SessionId
    /\ mediaSessions[s].type # "None"
    /\ mediaSessions[s].prepared
    /\ link = "open"

\* The step says m, a SETUP only of a session that relays.
SaysOne(m) ==
    /\ wire' = wire \o <<m>>
    /\ m.kind = "request" /\ m.head = "SETUP" => Relaying(m.session)'

\* The step announces s and relays what waited for that.
SaysTwo(s, a, setup) ==
    /\ wire' = wire \o <<a, setup>>
    /\ a.session = s
    /\ ~(a.kind = "request" /\ a.head = "SETUP")
    /\ Carries(setup, s)
    /\ Relaying(s)'
    /\ ~Announced(s)

Says ==
    \/ wire' = wire
    \/ \E m \in Message : SaysOne(m)
    \/ \E s \in SessionId, a, setup \in Message : SaysTwo(s, a, setup)

\* A message that is no SETUP may be said at any time.
LEMMA SpokenOne ==
    ASSUME NEW m \in Message, Emit(<<m>>), ~(m.kind = "request" /\ m.head = "SETUP")
    PROVE  Says
BY DEF Says, SaysOne, Emit

\* An answer to the client.
LEMMA AnswerSaid ==
    ASSUME TypeOK, NEW status \in Statuses, NEW s \in Nat, Answer(status, s)
    PROVE  Says
<1> DEFINE m == Response(status, Len(inbox) + 1, s)
<1>1. m \in Message /\ Emit(<<m>>)
  <2>1. Len(inbox) + 1 \in Nat
    BY DEF TypeOK
  <2> QED
    BY <2>1, ResponseType DEF Answer
<1>2. m.kind = "response"
  BY DEF Response
<1> QED
  BY <1>1, <1>2, SpokenOne

\* The announcement of a session, alone or with what waited for it.
LEMMA PreparingSaid ==
    ASSUME TypeOK, QueueOnlyUntilPrepared,
           NEW s \in SessionId, Live(s), ~mediaSessions[s].prepared,
           NEW a \in Message, NEW setup \in Message, a.session = s,
           ~(a.kind = "request" /\ a.head = "SETUP"), Carries(setup, s),
           Emit(Announcement(s, a, setup)), mediaSessions' = Prepared(s), UNCHANGED link
    PROVE  Says
<1>1. CASE link # "open"
  BY <1>1 DEF Emit, Says
<1>2. CASE link = "open" /\ mediaSessions[s].queue = <<>>
  <2>1. Emit(<<a>>)
    BY <1>2 DEF Announcement
  <2> QED
    BY <2>1, SpokenOne
<1>3. CASE link = "open" /\ mediaSessions[s].queue # <<>>
  <2>1. wire' = wire \o <<a, setup>>
    BY <1>3 DEF Announcement, Emit
  <2>2. ~Announced(s)
    BY <1>3 DEF QueueOnlyUntilPrepared
  <2>3. Relaying(s)'
    <3>1. mediaSessions \in [SessionId -> MediaSession] /\ mediaSessions[s] \in MediaSession
      BY DEF TypeOK
    <3>2. mediaSessions'[s].type = mediaSessions[s].type /\ mediaSessions'[s].prepared
      BY <3>1 DEF Prepared, Flushed, MediaSession
    <3> QED
      BY <1>3, <3>2 DEF Relaying, Live
  <2> QED
    BY <2>1, <2>2, <2>3 DEF SaysTwo, Says
<1> QED
  BY <1>1, <1>2, <1>3

\* The answer to a DESCRIBE or a RECORD.
LEMMA InitialRequestAnsweredSaid ==
    ASSUME TypeOK, QueueOnlyUntilPrepared, NEW s \in SessionId, NEW type,
           InitialRequestAnswered(s, type)
    PROVE  Says
<1> DEFINE a == Response("OK", mediaSessions[s].cseq, s)
           setup == Request("SETUP", nextCSeq, s, mediaSessions[s].queue)
<1>1. a \in Message /\ setup \in Message
  <2>1. /\ mediaSessions[s].cseq \in Nat /\ mediaSessions[s].queue \in Seq(Nat)
        /\ s \in Nat /\ nextCSeq \in Nat
    BY SessionIdNat DEF TypeOK, MediaSession
  <2> QED
    BY <2>1, ResponseType, RequestType DEF Statuses, Methods
<1>2. Emit(Announcement(s, a, setup))
  <2>1. SendThenFlush(<<a>>, s)
    BY DEF InitialRequestAnswered
  <2>2. CASE mediaSessions[s].queue = <<>>
    BY <2>1, <2>2 DEF SendThenFlush, Announcement
  <2>3. CASE mediaSessions[s].queue # <<>>
    <3>1. Emit(Append(<<a>>, setup))
      BY <2>1, <2>3 DEF SendThenFlush, SendRequest
    <3>2. Append(<<a>>, setup) = <<a, setup>>
      BY <1>1, AppendToOne
    <3> QED
      BY <2>3, <3>1, <3>2 DEF Announcement
  <2> QED
    BY <2>2, <2>3
<1>3. a.kind = "response" /\ a.session = s /\ Carries(setup, s)
  BY DEF Response, Request, Carries
<1>4. Live(s) /\ ~mediaSessions[s].prepared /\ mediaSessions' = Prepared(s) /\ UNCHANGED link
  BY DEF InitialRequestAnswered
<1> HIDE DEF a, setup
<1> QED
  BY <1>1, <1>2, <1>3, <1>4, PreparingSaid

\* The RECORD of a subscription.
LEMMA recordToClientStreamerPreparedSaid ==
    ASSUME TypeOK, QueueOnlyUntilPrepared, NEW s \in SessionId,
           recordToClientStreamerPrepared(s)
    PROVE  Says
<1> DEFINE a == Request("RECORD", nextCSeq, s, <<>>)
           setup == Request("SETUP", nextCSeq + 1, s, mediaSessions[s].queue)
<1>1. /\ Live(s) /\ ~mediaSessions[s].prepared /\ mediaSessions' = Prepared(s)
      /\ Emit(Announcement(s, a, setup)) /\ UNCHANGED link
  BY DEF recordToClientStreamerPrepared, Announcement
<1>2. a \in Message /\ setup \in Message
  <2>1. mediaSessions[s].queue \in Seq(Nat) /\ s \in Nat /\ nextCSeq \in Nat
    BY SessionIdNat DEF TypeOK, MediaSession
  <2>2. <<>> \in Seq(Nat) /\ nextCSeq + 1 \in Nat
    BY <2>1
  <2> QED
    BY <2>1, <2>2, RequestType DEF Methods
<1>3. a.head = "RECORD" /\ a.session = s /\ Carries(setup, s)
  BY DEF Request, Carries
<1> HIDE DEF a, setup
<1> QED
  BY <1>1, <1>2, <1>3, PreparingSaid

\* A candidate, once its session is prepared.
LEMMA iceCandidateSaid ==
    ASSUME TypeOK, NEW s \in SessionId, iceCandidate(s)
    PROVE  Says
<1>1. CASE mediaSessions[s].prepared
  <2> DEFINE m == Request("SETUP", nextCSeq, s, <<gathered[s] + 1>>)
  <2>1. /\ Live(s) /\ mediaSessions' = mediaSessions /\ UNCHANGED link
        /\ SendRequest(<<>>, "SETUP", s, <<gathered[s] + 1>>)
    BY <1>1 DEF iceCandidate
  <2>2. m \in Message /\ m.session = s
    <3>1. <<gathered[s] + 1>> \in Seq(Nat)
      BY DEF TypeOK
    <3> QED
      BY <3>1, RequestType, SessionIdNat DEF TypeOK, Methods, Request
  <2>3. Emit(<<m>>)
    BY <2>1 DEF SendRequest
  <2>4. CASE link # "open"
    BY <2>3, <2>4 DEF Emit, Says
  <2>5. CASE link = "open"
    <3>1. wire' = wire \o <<m>>
      BY <2>3, <2>5 DEF Emit
    <3>2. Relaying(s)'
      BY <1>1, <2>1, <2>5 DEF Relaying, Live
    <3> HIDE DEF m
    <3> QED
      BY <2>2, <3>1, <3>2 DEF SaysOne, Says
  <2> QED
    BY <2>4, <2>5
<1>2. CASE ~mediaSessions[s].prepared
  BY <1>2 DEF iceCandidate, Says
<1> QED
  BY <1>1, <1>2

\* The end of a session: its TEARDOWN, or the refusal of its request.
LEMMA eosSaid ==
    ASSUME TypeOK, NEW s \in SessionId, eos(s)
    PROVE  Says
<1> DEFINE b == Response("BAD_GATEWAY", mediaSessions[s].cseq, s)
           t == Request("TEARDOWN", nextCSeq, s, <<>>)
<1>1. b \in Message /\ t \in Message
  <2>1. mediaSessions[s].cseq \in Nat /\ s \in Nat /\ nextCSeq \in Nat /\ <<>> \in Seq(Nat)
    BY SessionIdNat DEF TypeOK, MediaSession
  <2> QED
    BY <2>1, ResponseType, RequestType DEF Statuses, Methods
<1>2. Emit(<<t>>) \/ Emit(<<b>>)
  BY DEF eos, SendRequest
<1>3. b.kind = "response" /\ t.head = "TEARDOWN"
  BY DEF Request, Response
<1> HIDE DEF b, t
<1> QED
  BY <1>1, <1>2, <1>3, SpokenOne

\* The requests and answers of the client.
LEMMA ClientStepSaid ==
    ASSUME TypeOK, ClientStep
    PROVE  Says
<1>1. Close => Says
  BY DEF Close, Says
<1>2. NoId \in Nat /\ KnownToClient \subseteq Nat
  BY SessionIdNat DEF KnownToClient
<1>3. ASSUME NEW method \in RefusedMethods, Unauthorized(method)
      PROVE  Says
  BY <1>2, <1>3, AnswerSaid DEF Unauthorized, Statuses
<1>4. CASE DefaultRequestHandler
  BY <1>1, <1>4 DEF DefaultRequestHandler, Reject
<1>5. CASE onOptionsRequest
  BY <1>2, <1>5, AnswerSaid DEF onOptionsRequest, Statuses
<1>6. CASE onGetParameterRequest
  BY <1>2, <1>6, AnswerSaid DEF onGetParameterRequest, Statuses
<1>7. CASE onDescribeRequest
  <2>1. \/ \E status \in {"NOT_FOUND", "SERVICE_UNAVAILABLE"} : Answer(status, NoId)
        \/ wire' = wire
    BY <1>7 DEF onDescribeRequest
  <2> QED
    BY <1>2, <2>1, AnswerSaid DEF Statuses, Says
<1>8. CASE onRecordRequest
  BY <1>1, <1>8 DEF onRecordRequest, Reject, Says
<1>9. ASSUME NEW s \in KnownToClient, NEW body \in SetupBodies, onSetupRequest(s, body)
      PROVE  Says
  <2>1. Answer("OK", s) \/ Close
    BY <1>9 DEF onSetupRequest, Reject
  <2> QED
    BY <1>1, <1>2, <2>1, AnswerSaid DEF Statuses
<1>10. ASSUME NEW s \in KnownToClient, onPlayRequest(s)
       PROVE  Says
  <2>1. Answer("OK", s) \/ Close
    BY <1>10 DEF onPlayRequest, Reject
  <2> QED
    BY <1>1, <1>2, <2>1, AnswerSaid DEF Statuses
<1>11. ASSUME NEW s \in KnownToClient, onTeardownRequest(s)
       PROVE  Says
  <2>1. Answer("OK", s) \/ Close
    BY <1>11 DEF onTeardownRequest, Reject
  <2> QED
    BY <1>1, <1>2, <2>1, AnswerSaid DEF Statuses
<1>12. ASSUME NEW cseq, NEW ok, handleResponse(cseq, ok)
       PROVE  Says
  <2>1. wire' = wire \/ Close
    BY <1>12 DEF handleResponse
  <2> QED
    BY <1>1, <2>1 DEF Says
<1> QED
  BY <1>3, <1>4, <1>5, <1>6, <1>7, <1>8, <1>9, <1>10, <1>11, <1>12 DEF ClientStep

\* Every step of the server says nothing, one message, or those two.
LEMMA NextSays ==
    ASSUME TypeOK, QueueOnlyUntilPrepared, [Next]_vars
    PROVE  Says
<1>1. ASSUME NEW s \in SessionId, PeerCallback(s)
      PROVE  Says
  <2>1. CASE streamerPrepared(s)
    BY <2>1, InitialRequestAnsweredSaid DEF streamerPrepared
  <2>2. CASE recorderPrepared(s)
    BY <2>2, InitialRequestAnsweredSaid DEF recorderPrepared
  <2>3. CASE recordToClientStreamerPrepared(s)
    BY <2>3, recordToClientStreamerPreparedSaid
  <2>4. CASE iceCandidate(s)
    BY <2>4, iceCandidateSaid
  <2>5. CASE eos(s)
    BY <2>5, eosSaid
  <2>6. CASE LateCallback(s) \/ PreparedWithoutSdp(s)
    BY <2>6 DEF LateCallback, PreparedWithoutSdp, Says
  <2> QED
    BY <1>1, <2>1, <2>2, <2>3, <2>4, <2>5, <2>6 DEF PeerCallback
<1>2. CASE ClientStep
  BY <1>2, ClientStepSaid
<1>3. CASE startRecordToClient
  BY <1>3 DEF startRecordToClient, Says
<1>4. CASE Writeable \/ ConnectionLost
  BY <1>4 DEF Writeable, ConnectionLost, Close, Says
<1>5. CASE UNCHANGED vars
  BY <1>5 DEF vars, Says
<1> QED
  BY <1>1, <1>2, <1>3, <1>4, <1>5 DEF Next

-----------------------------------------------------------------------------
(* No peer gathers more than its bound.                                    *)

\* Gathering stops at the bound.
LEMMA GatheredStep ==
    ASSUME TypeOK, GatheredInv, [Next]_vars
    PROVE  GatheredInv'
<1>1. ASSUME NEW s \in SessionId, iceCandidate(s)
      PROVE  GatheredInv'
  BY <1>1, BoundsAssumption DEF iceCandidate, GatheredInv, TypeOK
<1>2. ASSUME gathered' = gathered
      PROVE  GatheredInv'
  BY <1>2 DEF GatheredInv
<1>3. ASSUME NEW s \in SessionId, PeerCallback(s), ~iceCandidate(s)
      PROVE  gathered' = gathered
  BY <1>3 DEF PeerCallback, PreparedWithoutSdp, streamerPrepared, recorderPrepared,
              InitialRequestAnswered, recordToClientStreamerPrepared, eos, LateCallback
<1>4. CASE ClientStep
  <2>1. gathered' = gathered
    BY <1>4 DEF ClientStep, Unauthorized, DefaultRequestHandler, onOptionsRequest,
                onGetParameterRequest, onDescribeRequest, onRecordRequest, onSetupRequest,
                onPlayRequest, onTeardownRequest, handleResponse, Reject, Close
  <2> QED
    BY <1>2, <2>1
<1>5. CASE startRecordToClient \/ Writeable \/ ConnectionLost \/ UNCHANGED vars
  BY <1>2, <1>5 DEF startRecordToClient, Writeable, ConnectionLost, Close, vars
<1> QED
  BY <1>1, <1>2, <1>3, <1>4, <1>5 DEF Next

-----------------------------------------------------------------------------
(* What the messages of a step change of the dialog.                       *)

\* All that the dialog depends on.
SpokenInv ==
    /\ TypeOK /\ AnswerInv /\ AnnounceInv /\ SilenceInv /\ CandidateInv /\ GatheredInv

\* The messages that have been sent are read as before.
LEMMA ReadAsBefore ==
    ASSUME TypeOK, TypeOK', AnswerInv, NEW new, Grows(new), NEW s
    PROVE  /\ \A i \in 1..Len(wire) : /\ Announces(i, s)' <=> Announces(i, s)
                                      /\ Ends(i, s)' <=> Ends(i, s)
           /\ \A k \in 1..Len(new), j \in 1..Len(wire') : j = Len(wire) + k =>
                  /\ Announces(j, s)' <=> IsAnnouncement(new[k], s, inbox')
                  /\ Ends(j, s)' <=> new[k].session = s /\ EndsSession(new[k], inbox')
<1>1. /\ Len(inbox) \in Nat /\ Len(inbox') \in Nat /\ Len(inbox) <= Len(inbox')
      /\ \A c \in 1..Len(inbox) : inbox'[c] = inbox[c] /\ c \in 1..Len(inbox')
      /\ \A i \in 1..Len(wire) : wire'[i] = wire[i] /\ wire[i].cseq \in Nat
      /\ \A k \in 1..Len(new) : wire'[Len(wire) + k] = new[k]
  BY PastKept
<1>2. ASSUME NEW i \in 1..Len(wire)
      PROVE  (Announces(i, s)' <=> Announces(i, s)) /\ (Ends(i, s)' <=> Ends(i, s))
  <2>1. wire'[i] = wire[i] /\ wire[i].cseq \in Nat
    BY <1>1
  <2>2. wire[i].kind = "response" => wire[i].cseq <= Len(inbox)
    BY DEF AnswerInv, IsResponse
  <2>3. wire[i].kind = "response" =>
            (wire[i].cseq \in 1..Len(inbox') <=> wire[i].cseq \in 1..Len(inbox))
    BY <1>1, <2>1, <2>2
  <2> QED
    BY <1>1, <2>1, <2>3 DEF Announces, IsAnnouncement, Ends, IsRequest, IsResponse
<1>3. ASSUME NEW k \in 1..Len(new), NEW j \in 1..Len(wire'), j = Len(wire) + k
      PROVE  /\ Announces(j, s)' <=> IsAnnouncement(new[k], s, inbox')
             /\ Ends(j, s)' <=> new[k].session = s /\ EndsSession(new[k], inbox')
  <2>1. wire'[j] = new[k]
    BY <1>1, <1>3
  <2> QED
    BY <2>1 DEF Announces, Ends, EndsSession, IsRequest, IsResponse
<1> QED
  BY <1>2, <1>3

\* The phase of a session is what the messages that name it make of it.
LEMMA PhaseAfter ==
    ASSUME TypeOK, TypeOK', AnswerInv, NEW new, Grows(new), NEW s
    PROVE  Phase(s)' =
               IF \/ \E i \in 1..Len(wire) : Ends(i, s)
                  \/ \E k \in 1..Len(new) : new[k].session = s /\ EndsSession(new[k], inbox')
               THEN "ended"
               ELSE IF \/ \E i \in 1..Len(wire) : Announces(i, s)
                       \/ \E k \in 1..Len(new) : IsAnnouncement(new[k], s, inbox')
                    THEN "announced" ELSE "unknown"
<1>1. /\ \A i \in 1..Len(wire) : i \in 1..Len(wire')
      /\ \A k \in 1..Len(new) : Len(wire) + k \in 1..Len(wire')
      /\ \A i \in 1..Len(wire') : i \in 1..Len(wire)
             \/ \E k \in 1..Len(new) : i = Len(wire) + k
  BY PastKept
<1>2. (\E i \in 1..Len(wire') : Ends(i, s)') <=>
          \/ \E i \in 1..Len(wire) : Ends(i, s)
          \/ \E k \in 1..Len(new) : new[k].session = s /\ EndsSession(new[k], inbox')
  BY <1>1, ReadAsBefore
<1>3. (\E i \in 1..Len(wire') : Announces(i, s)') <=>
          \/ \E i \in 1..Len(wire) : Announces(i, s)
          \/ \E k \in 1..Len(new) : IsAnnouncement(new[k], s, inbox')
  BY <1>1, ReadAsBefore
<1> QED
  BY <1>2, <1>3 DEF Phase

\* Messages about other sessions leave the phase of a session.
LEMMA PhaseKept ==
    ASSUME TypeOK, TypeOK', AnswerInv, NEW new, Grows(new), NEW s,
           \A k \in 1..Len(new) : new[k].session # s
    PROVE  Phase(s)' = Phase(s)
<1>1. \A k \in 1..Len(new) : ~IsAnnouncement(new[k], s, inbox')
  BY DEF IsAnnouncement
<1> QED
  BY <1>1, PhaseAfter DEF Phase

\* Messages that answer another request leave the answers to this one.
LEMMA NoAnswer ==
    ASSUME TypeOK, TypeOK', NEW new, Grows(new), NEW c,
           \A k \in 1..Len(new) : new[k].kind = "response" => new[k].cseq # c
    PROVE  Answers(c)' = Answers(c)
<1>1. /\ Len(wire) \in Nat /\ Len(new) \in Nat /\ Len(wire') = Len(wire) + Len(new)
      /\ \A i \in 1..Len(wire) : wire'[i] = wire[i] /\ i \in 1..Len(wire')
      /\ \A k \in 1..Len(new) : /\ wire'[Len(wire) + k] = new[k]
                                /\ Len(wire) + k \in 1..Len(wire')
      /\ \A i \in 1..Len(wire') : i \in 1..Len(wire)
             \/ \E k \in 1..Len(new) : i = Len(wire) + k
  BY PastKept
<1>2. \A i \in 1..Len(wire) : i \in Answers(c)' <=> i \in Answers(c)
  BY <1>1 DEF Answers, IsResponse
<1>3. \A k \in 1..Len(new) : Len(wire) + k \notin Answers(c)'
  BY <1>1 DEF Answers, IsResponse
<1>4. Answers(c)' \subseteq 1..Len(wire') /\ Answers(c) \subseteq 1..Len(wire)
  BY DEF Answers
<1> QED
  BY <1>1, <1>2, <1>3, <1>4

\* At most one answer is given, and only to a request that has none.
LEMMA AnswersAfter ==
    ASSUME TypeOK, TypeOK', AnsweredAtMostOnce', NEW new, Grows(new),
           \A k \in 1..Len(new) : new[k].kind = "response" => k = 1
    PROVE  Dialog!AnswerOneOrNone
<1>1. /\ Len(wire) \in Nat /\ Len(new) \in Nat /\ Len(wire') = Len(wire) + Len(new)
      /\ \A i \in 1..Len(wire) : wire'[i] = wire[i] /\ i \in 1..Len(wire')
      /\ \A k \in 1..Len(new) : /\ wire'[Len(wire) + k] = new[k]
                                /\ Len(wire) + k \in 1..Len(wire')
      /\ \A i \in 1..Len(wire') : i \in 1..Len(wire)
             \/ \E k \in 1..Len(new) : i = Len(wire) + k
  BY PastKept
<1>2. CASE \E c \in 1..MaxRequests : 1 \in 1..Len(new) /\ new[1].kind = "response" /\ new[1].cseq = c
  <2>1. PICK c \in 1..MaxRequests :
            1 \in 1..Len(new) /\ new[1].kind = "response" /\ new[1].cseq = c
    BY <1>2
  <2>2. PICK j \in 1..Len(wire') : j = Len(wire) + 1 /\ j \notin 1..Len(wire)
    BY <1>1, <2>1
  <2>3. IsResponse(j)' /\ wire'[j].cseq = c /\ c # InvalidCSeq
    BY <1>1, <2>1, <2>2 DEF IsResponse, InvalidCSeq
  <2>4. \A i \in 1..Len(wire') : IsResponse(i)' /\ wire'[i].cseq = c => i = j
    BY <2>3 DEF AnsweredAtMostOnce
  <2>5. Answers(c)' = {j}
    BY <2>3, <2>4 DEF Answers
  <2>6. Answers(c) = {}
    BY <1>1, <2>2, <2>4 DEF Answers, IsResponse
  <2>7. Cardinality(Answers(c)) = 0 /\ Cardinality(Answers(c)') = 1
    BY <2>5, <2>6, FS_EmptySet, FS_Singleton
  <2>8. \A d \in 1..MaxRequests : d # c => Answers(d)' = Answers(d)
    BY NoAnswer, <2>1
  <2>9. AnswerCounts[c] = 0 /\ AnswerCounts' = [AnswerCounts EXCEPT ![c] = 1]
    BY <2>7, <2>8 DEF AnswerCounts
  <2> QED
    BY <2>9 DEF Dialog!AnswerOneOrNone, Dialog!AnswerOnce
<1>3. CASE ~\E c \in 1..MaxRequests : 1 \in 1..Len(new) /\ new[1].kind = "response" /\ new[1].cseq = c
  <2>1. \A c \in 1..MaxRequests : Answers(c)' = Answers(c)
    BY NoAnswer, <1>3
  <2>2. AnswerCounts' = AnswerCounts
    BY <2>1 DEF AnswerCounts
  <2> QED
    BY <2>2 DEF Dialog!AnswerOneOrNone
<1> QED
  BY <1>2, <1>3

-----------------------------------------------------------------------------
(* What it changes of the candidates.                                      *)

\* Lemmas as formulas, to be taken to the next state.
RelayedFact ==
    TypeOK /\ RelayedInOrder =>
        \A s \in SessionId : \A n :
            UpTo(s, Len(wire), n) => Relayed(s) = [i \in 1..n |-> i]

UpToFact ==
    TypeOK => \A s, m, n : \A h \in 0..Len(wire) : UpTo(s, h, m) /\ UpTo(s, h, n) => m = n

\* Both hold in every state, so in the next one too.
LEMMA RelayedFacts == RelayedFact /\ UpToFact
<1>1. RelayedFact
  BY RelayedIs DEF RelayedFact
<1>2. UpToFact
  BY UpToUnique DEF UpToFact
<1> QED
  BY <1>1, <1>2

\* RelayedIs in the next state.
LEMMA RelayedUpTo ==
    ASSUME TypeOK', CandidateInv', NEW s \in SessionId, NEW n, UpTo(s, Len(wire), n)'
    PROVE  Relayed(s)' = [i \in 1..n |-> i]
<1>1. RelayedFact'
  BY RelayedFacts, PTL
<1>2. RelayedInOrder'
  BY DEF CandidateInv
<1> QED
  BY <1>1, <1>2 DEF RelayedFact

\* What has left are the first candidates, however many.
LEMMA RelayedSome ==
    ASSUME TypeOK, CandidateInv, NEW s \in SessionId
    PROVE  \E n \in Nat : UpTo(s, Len(wire), n) /\ Relayed(s) = [i \in 1..n |-> i]
<1>1. RelayedInOrder /\ Len(wire) \in 0..Len(wire)
  BY DEF CandidateInv, TypeOK
<1>2. PICK n \in Nat : UpTo(s, Len(wire), n)
  BY <1>1, UpToSome
<1> QED
  BY <1>1, <1>2, RelayedIs

\* Messages that bring nothing for a session leave its candidates.
LEMMA CandidatesKept ==
    ASSUME TypeOK, TypeOK', CandidateInv, CandidateInv', NEW new, Grows(new),
           NEW s \in SessionId, \A k \in 1..Len(new) : ~Carries(new[k], s)
    PROVE  Relayed(s)' = Relayed(s)
<1>1. PICK n \in Nat : UpTo(s, Len(wire), n) /\ Relayed(s) = [i \in 1..n |-> i]
  BY RelayedSome
<1>2. /\ new \in Seq(Message) /\ wire' = wire \o new
      /\ Len(new) \in 0..Len(new) /\ Len(wire') = Len(wire) + Len(new)
  BY PastKept DEF Grows
<1>3. PICK h : h = Len(wire')
  OBVIOUS
<1>4. UpTo(s, h, n)'
  BY <1>1, <1>2, <1>3, UpToFurther
<1>5. UpTo(s, Len(wire), n)'
  BY <1>3, <1>4
<1> QED
  BY <1>1, <1>5, RelayedUpTo

\* Candidates that are sent go on where those before them left off.
LEMMA CandidatesAdded ==
    ASSUME TypeOK, TypeOK', CandidateInv, CandidateInv', GatheredInv',
           NEW new, Grows(new), NEW s \in SessionId, Relaying(s)',
           Len(new) # 0, Carries(new[Len(new)], s),
           \A k \in 1..(Len(new) - 1) : ~Carries(new[k], s)
    PROVE  \E n \in Len(Relayed(s))..MaxCandidates : Relayed(s)' = [i \in 1..n |-> i]
<1>1. PICK m \in Nat : UpTo(s, Len(wire), m) /\ Relayed(s) = [i \in 1..m |-> i]
  BY RelayedSome
<1>2. /\ new \in Seq(Message) /\ wire' = wire \o new
      /\ Len(wire) \in Nat /\ Len(new) \in Nat \ {0}
      /\ Len(wire') = Len(wire) + Len(new)
      /\ wire'[Len(wire) + Len(new)] = new[Len(new)]
  BY PastKept DEF Grows
<1> DEFINE body == new[Len(new)].body
<1>3. PICK h \in 1..Len(wire') : h = Len(wire')
  BY <1>2
<1>4. wire'[h] = new[Len(new)] /\ Brings(h, s)'
  BY <1>2, <1>3 DEF Brings
<1>5. body \in Seq(Nat) /\ Len(body) \in Nat
  <2>1. new[Len(new)] \in Message
    BY <1>2
  <2>2. body \in Seq(Nat)
    BY <2>1 DEF Message
  <2> HIDE DEF body
  <2> QED
    BY <2>2
<1>6. body # <<>> /\ Follows(body, s, h - 1)'
  BY <1>4 DEF CandidateInv, RelayedInOrder
<1>7. UpTo(s, h - 1, body[1] - 1)' /\ \A k \in 1..Len(body) : body[k] = body[1] - 1 + k
  BY <1>6 DEF Follows, Consecutive
<1>8. UpTo(s, h - 1, m)'
  <2>1. Len(new) - 1 \in 0..Len(new) /\ h - 1 = Len(wire) + (Len(new) - 1)
    BY <1>2, <1>3
  <2>2. PICK g : g = h - 1
    OBVIOUS
  <2>3. UpTo(s, g, m)'
    BY <1>1, <1>2, <2>1, <2>2, UpToFurther
  <2> QED
    BY <2>2, <2>3
<1>9. UpToFact'
  BY RelayedFacts, PTL
<1>10. m = body[1] - 1
  <2>1. h - 1 \in 0..Len(wire')
    BY <1>3
  <2> QED
    BY <1>7, <1>8, <1>9, <2>1 DEF UpToFact
<1>11. UpTo(s, Len(wire), gathered[s])'
  BY DEF CandidateInv, Queued, Relaying, Live
<1>12. gathered'[s] = body[Len(body)]
  <2>1. PICK n : n = body[Len(body)]
    OBVIOUS
  <2>2. UpTo(s, Len(wire), n)'
    BY <1>2, <2>1, UpToSent
  <2>3. Len(wire') \in 0..Len(wire')
    BY <1>2
  <2> QED
    BY <1>9, <1>11, <2>1, <2>2, <2>3 DEF UpToFact
<1> HIDE DEF body
<1>13. gathered'[s] = m + Len(body) /\ gathered'[s] \in Nat
  <2>1. Len(body) \in 1..Len(body)
    BY <1>5, <1>6
  <2>2. body[Len(body)] = body[1] - 1 + Len(body)
    BY <1>7, <2>1
  <2> QED
    BY <1>5, <1>10, <1>12, <2>2
<1>14. gathered'[s] <= MaxCandidates
  BY DEF GatheredInv
<1>15. Len(Relayed(s)) = m
  BY <1>1
<1>16. gathered'[s] \in Len(Relayed(s))..MaxCandidates
  BY <1>5, <1>13, <1>14, <1>15, BoundsAssumption
<1>17. Relayed(s)' = [i \in 1..gathered'[s] |-> i]
  <2>1. PICK n : n = gathered'[s]
    OBVIOUS
  <2>2. UpTo(s, Len(wire), n)'
    BY <1>11, <2>1
  <2>3. Relayed(s)' = [i \in 1..n |-> i]
    BY <2>2, RelayedUpTo
  <2> QED
    BY <2>1, <2>3
<1> QED
  BY <1>16, <1>17

-----------------------------------------------------------------------------
(* What a step says is a step of the dialog.                               *)

\* A step of the dialog, or none.
DialogMoves == Dialog!DialogNext \/ UNCHANGED Dialog!dialogVars

\* A session that has ended is not named again.
SilentFact ==
    SilentAfterEnd =>
        \A s : \A i, j \in 1..Len(wire) : i < j /\ Ends(i, s) => wire[j].session # s

\* Said of SilentAfterEnd in every state.
LEMMA SilentHolds == SilentFact
<1>1. \A s : \A i \in 1..Len(wire) : Ends(i, s) => wire[i].session = s
  BY DEF Ends
<1> QED
  BY <1>1 DEF SilentFact, SilentAfterEnd

\* A session that is named now had not ended before.
LEMMA NamedNotEnded ==
    ASSUME TypeOK, TypeOK', AnswerInv, SilentAfterEnd', NEW new, Grows(new),
           NEW k \in 1..Len(new)
    PROVE  LET s == new[k].session IN
           /\ \A i \in 1..Len(wire) : ~Ends(i, s)
           /\ Phase(s) \in {"unknown", "announced"}
<1> DEFINE s == new[k].session
<1>1. /\ Len(wire) \in Nat
      /\ \A i \in 1..Len(wire) : wire'[i] = wire[i] /\ i \in 1..Len(wire')
      /\ wire'[Len(wire) + k] = new[k] /\ Len(wire) + k \in 1..Len(wire')
  BY PastKept
<1>2. PICK j \in 1..Len(wire') : j = Len(wire) + k
  BY <1>1
<1>3. ASSUME NEW i \in 1..Len(wire), Ends(i, s)
      PROVE  FALSE
  <2>1. PICK t : t = s
    OBVIOUS
  <2>2. Ends(i, t)'
    BY <1>3, <2>1, ReadAsBefore
  <2>3. i < j /\ wire'[j].session = t
    BY <1>1, <1>2, <2>1
  <2>4. SilentFact'
    BY SilentHolds, PTL
  <2> QED
    BY <1>1, <1>2, <2>2, <2>3, <2>4 DEF SilentFact
<1> QED
  BY <1>3 DEF Phase

\* A session the server relays candidates of has been announced.
LEMMA CarriedIsAnnounced ==
    ASSUME TypeOK, TypeOK', AnswerInv, AnnouncedFirst', NEW new, Grows(new),
           NEW k \in 1..Len(new), NEW s, Carries(new[k], s)
    PROVE  \/ \E i \in 1..Len(wire) : Announces(i, s)
           \/ \E l \in 1..Len(new) : IsAnnouncement(new[l], s, inbox')
<1>1. /\ \A i \in 1..Len(wire') : i \in 1..Len(wire)
             \/ \E l \in 1..Len(new) : i = Len(wire) + l
      /\ wire'[Len(wire) + k] = new[k] /\ Len(wire) + k \in 1..Len(wire')
      /\ Len(wire) \in Nat /\ Len(new) \in Nat
  BY PastKept
<1>2. PICK j \in 1..Len(wire') : j = Len(wire) + k
  BY <1>1
<1>3. IsRequest(j)' /\ wire'[j].head # "RECORD" /\ wire'[j].session = s
  BY <1>1, <1>2 DEF Carries, IsRequest
<1>4. PICK i \in 1..(j - 1) : Announces(i, s)'
  BY <1>3 DEF AnnouncedFirst
<1>5. i \in 1..Len(wire')
  BY <1>1, <1>2
<1> QED
  BY <1>1, <1>4, <1>5, ReadAsBefore

\* A step that says nothing changes nothing of the dialog.
LEMMA NothingSaid ==
    ASSUME SpokenInv, SpokenInv', Grows(<<>>)
    PROVE  DialogMoves
<1>1. TypeOK /\ TypeOK' /\ AnswerInv /\ CandidateInv /\ CandidateInv' /\ AnsweredAtMostOnce'
  BY DEF SpokenInv, AnswerInv
<1>2. \A s \in SessionId : Phase(s)' = Phase(s)
  BY <1>1, PhaseKept
<1>3. \A s \in SessionId : Relayed(s)' = Relayed(s)
  BY <1>1, CandidatesKept
<1>4. Dialog!AnswerOneOrNone
  BY <1>1, AnswersAfter
<1>5. Phases' = Phases /\ Candidates' = Candidates
  BY <1>2, <1>3 DEF Phases, Candidates
<1> QED
  BY <1>4, <1>5 DEF DialogMoves, Dialog!AnswerOneOrNone, Dialog!DialogNext, Dialog!Answer,
                    Dialog!dialogVars

\* A session that has not been announced has relayed nothing.
LEMMA UnknownRelaysNothing ==
    ASSUME TypeOK, CandidateInv, AnnouncedFirst, NEW s \in SessionId, Phase(s) = "unknown"
    PROVE  Relayed(s) = <<>>
<1>1. \A i \in 1..Len(wire) : ~Announces(i, s)
  BY DEF Phase
<1>2. ASSUME NEW i \in 1..Len(wire), Brings(i, s)
      PROVE  FALSE
  <2>1. PICK j \in 1..(i - 1) : Announces(j, s)
    BY <1>2 DEF AnnouncedFirst, Brings, Carries, IsRequest
  <2>2. j \in 1..Len(wire)
    BY DEF TypeOK
  <2> QED
    BY <1>1, <2>1, <2>2
<1>3. UpTo(s, Len(wire), 0)
  BY <1>2 DEF UpTo
<1>4. Relayed(s) = [i \in 1..0 |-> i]
  BY <1>3, RelayedIs DEF CandidateInv
<1> QED
  BY <1>4

\* One message answers, announces, relays or ends, or changes nothing.
LEMMA OneSaid ==
    ASSUME SpokenInv, SpokenInv', NEW m \in Message, Grows(<<m>>), SaysOne(m)
    PROVE  DialogMoves
<1> DEFINE new == <<m>>
           s == m.session
<1>1. /\ TypeOK /\ TypeOK' /\ AnswerInv /\ CandidateInv /\ CandidateInv' /\ GatheredInv'
      /\ AnsweredAtMostOnce' /\ SilentAfterEnd' /\ AnnouncedFirst' /\ AnnouncedFirst
  BY DEF SpokenInv, AnswerInv, AnnounceInv, SilenceInv
<1>2. /\ Len(new) = 1 /\ new[1] = m /\ 1 \in 1..Len(new)
      /\ \A k \in 1..Len(new) : k = 1 /\ new[k] = m
  OBVIOUS
<1>3. Grows(new)
  OBVIOUS
<1> HIDE DEF new
<1>4. Dialog!AnswerOneOrNone
  BY <1>1, <1>2, <1>3, AnswersAfter
<1>5. (\A i \in 1..Len(wire) : ~Ends(i, s)) /\ Phase(s) \in {"unknown", "announced"}
  BY <1>1, <1>2, <1>3, NamedNotEnded
<1>6. \A t \in SessionId : t # s => Phase(t)' = Phase(t)
  BY <1>1, <1>2, <1>3, PhaseKept
<1>7. Phase(s)' = IF EndsSession(m, inbox') THEN "ended"
                  ELSE IF Phase(s) = "announced" \/ IsAnnouncement(m, s, inbox')
                  THEN "announced" ELSE "unknown"
  <2>1. /\ (\E k \in 1..Len(new) : new[k].session = s /\ EndsSession(new[k], inbox'))
               <=> EndsSession(m, inbox')
        /\ (\E k \in 1..Len(new) : IsAnnouncement(new[k], s, inbox'))
               <=> IsAnnouncement(m, s, inbox')
    BY <1>2
  <2>2. (\E i \in 1..Len(wire) : Announces(i, s)) <=> Phase(s) = "announced"
    BY <1>5 DEF Phase
  <2> QED
    BY <1>1, <1>3, <1>5, <2>1, <2>2, PhaseAfter
<1>8. CASE m.kind = "request" /\ m.head = "SETUP"
  <2>1. s \in SessionId /\ Relaying(s)' /\ Carries(m, s)
    BY <1>8 DEF SaysOne, Relaying, Carries
  <2>2. ~EndsSession(m, inbox') /\ ~IsAnnouncement(m, s, inbox') /\ m.kind # "response"
    BY <1>8 DEF EndsSession, IsAnnouncement
  <2>3. Phase(s) = "announced"
    <3>1. \/ \E i \in 1..Len(wire) : Announces(i, s)
          \/ \E l \in 1..Len(new) : IsAnnouncement(new[l], s, inbox')
      BY <1>1, <1>2, <1>3, <2>1, CarriedIsAnnounced
    <3> QED
      BY <1>2, <1>5, <2>2, <3>1 DEF Phase
  <2>4. Phases' = Phases
    BY <1>6, <1>7, <2>2, <2>3 DEF Phases
  <2>5. AnswerCounts' = AnswerCounts
    <3>1. \A c \in 1..MaxRequests : Answers(c)' = Answers(c)
      BY <1>1, <1>2, <1>3, <2>2, NoAnswer
    <3> QED
      BY <3>1 DEF AnswerCounts
  <2>6. \A t \in SessionId : t # s => Relayed(t)' = Relayed(t)
    <3>1. \A t : t # s => \A k \in 1..Len(new) : ~Carries(new[k], t)
      BY <1>2 DEF Carries
    <3> QED
      BY <1>1, <1>3, <3>1, CandidatesKept
  <2>7. PICK n \in Len(Relayed(s))..MaxCandidates : Relayed(s)' = [i \in 1..n |-> i]
    <3>1. /\ Len(new) # 0 /\ Carries(new[Len(new)], s)
          /\ \A k \in 1..(Len(new) - 1) : ~Carries(new[k], s)
      BY <1>2, <2>1
    <3> QED
      BY <1>1, <1>3, <2>1, <3>1, CandidatesAdded
  <2>8. Candidates' = [Candidates EXCEPT ![s] = [i \in 1..n |-> i]]
    BY <2>1, <2>6, <2>7 DEF Candidates
  <2>9. Dialog!RelayBatch(s)
    BY <2>1, <2>7, <2>8 DEF Dialog!RelayBatch, Candidates
  <2>10. Dialog!Relay(s)
    BY <2>1, <2>3, <2>4, <2>5, <2>9 DEF Dialog!Relay, Phases
  <2> QED
    BY <2>1, <2>10 DEF DialogMoves, Dialog!DialogNext, SessionId
<1>9. CASE ~(m.kind = "request" /\ m.head = "SETUP")
  <2>1. Candidates' = Candidates
    <3>1. \A t \in SessionId : Relayed(t)' = Relayed(t)
      <4>1. \A t, k : k \in 1..Len(new) => ~Carries(new[k], t)
        BY <1>2, <1>9 DEF Carries
      <4> QED
        BY <1>1, <1>3, <4>1, CandidatesKept
    <3> QED
      BY <3>1 DEF Candidates
  <2>2. ASSUME Phases' = Phases
        PROVE  DialogMoves
    BY <1>4, <2>1, <2>2 DEF DialogMoves, Dialog!AnswerOneOrNone, Dialog!DialogNext,
                            Dialog!Answer, Dialog!dialogVars
  <2>3. CASE s \notin SessionId
    BY <1>6, <2>2, <2>3 DEF Phases
  <2>4. CASE s \in SessionId /\ EndsSession(m, inbox')
    <3>1. Phases' = [Phases EXCEPT ![s] = "ended"]
      BY <1>6, <1>7, <2>4 DEF Phases
    <3>2. Dialog!End(s)
      BY <1>4, <1>5, <2>1, <2>4, <3>1 DEF Dialog!End, Phases
    <3> QED
      BY <2>4, <3>2 DEF DialogMoves, Dialog!DialogNext, SessionId
  <2>5. CASE /\ s \in SessionId /\ ~EndsSession(m, inbox')
             /\ Phase(s) = "unknown" /\ IsAnnouncement(m, s, inbox')
    <3>1. Phases' = [Phases EXCEPT ![s] = "announced"]
      BY <1>6, <1>7, <2>5 DEF Phases
    <3>2. Relayed(s) = <<>> /\ Candidates[s] = <<>>
      BY <1>1, <2>5, UnknownRelaysNothing DEF Candidates
    <3>3. 0 \in Len(Candidates[s])..MaxCandidates /\ [i \in 1..0 |-> i] = <<>>
      BY <3>2, BoundsAssumption
    <3>4. Candidates' = [Candidates EXCEPT ![s] = [i \in 1..0 |-> i]]
      BY <2>1, <2>5, <3>2, <3>3 DEF Candidates
    <3>5. Dialog!RelayBatch(s)
      BY <3>3, <3>4 DEF Dialog!RelayBatch
    <3>6. Dialog!Announce(s)
      BY <1>4, <2>5, <3>1, <3>5 DEF Dialog!Announce, Phases
    <3> QED
      BY <2>5, <3>6 DEF DialogMoves, Dialog!DialogNext, SessionId
  <2>6. CASE /\ s \in SessionId /\ ~EndsSession(m, inbox')
             /\ ~(Phase(s) = "unknown" /\ IsAnnouncement(m, s, inbox'))
    <3>1. Phase(s)' = Phase(s)
      BY <1>5, <1>7, <2>6
    <3> QED
      BY <1>6, <2>2, <3>1 DEF Phases
  <2> QED
    BY <2>3, <2>4, <2>5, <2>6
<1> QED
  BY <1>8, <1>9

\* The announcement with the waiting candidates is one Announce.
LEMMA TwoSaid ==
    ASSUME SpokenInv, SpokenInv', NEW s \in SessionId, NEW a \in Message, NEW setup \in Message,
           Grows(<<a, setup>>), SaysTwo(s, a, setup)
    PROVE  DialogMoves
<1> DEFINE new == <<a, setup>>
<1>1. /\ TypeOK /\ TypeOK' /\ AnswerInv /\ CandidateInv /\ CandidateInv' /\ GatheredInv'
      /\ AnsweredAtMostOnce' /\ SilentAfterEnd' /\ AnnouncedFirst'
  BY DEF SpokenInv, AnswerInv, AnnounceInv, SilenceInv
<1>2. /\ Len(new) = 2 /\ new[1] = a /\ new[2] = setup /\ 1 \in 1..Len(new) /\ 2 \in 1..Len(new)
      /\ \A k \in 1..Len(new) : k = 1 \/ k = 2
      /\ Grows(new)
  OBVIOUS
<1> HIDE DEF new
<1>3. /\ a.session = s /\ setup.session = s /\ setup.kind = "request" /\ setup.head = "SETUP"
      /\ ~(a.kind = "request" /\ a.head = "SETUP") /\ Relaying(s)' /\ Carries(setup, s)
  BY DEF SaysTwo, Carries
<1>4. Dialog!AnswerOneOrNone
  BY <1>1, <1>2, <1>3, AnswersAfter
<1>5. \A i \in 1..Len(wire) : wire[i].session # s
  BY DEF SaysTwo, Announced
<1>6. Phase(s) = "unknown" /\ (\A i \in 1..Len(wire) : ~Ends(i, s) /\ ~Announces(i, s))
  BY <1>5 DEF Phase, Ends, Announces, IsAnnouncement
<1>7. \A k \in 1..Len(new) : ~EndsSession(new[k], inbox')
  <2>1. ~EndsSession(setup, inbox')
    BY <1>3 DEF EndsSession
  <2>2. ~EndsSession(a, inbox')
    <3>1. /\ Len(wire) \in Nat
          /\ wire'[Len(wire) + 1] = a /\ Len(wire) + 1 \in 1..Len(wire')
          /\ wire'[Len(wire) + 2] = setup /\ Len(wire) + 2 \in 1..Len(wire')
      BY <1>1, <1>2, PastKept
    <3>2. PICK i \in 1..Len(wire'), j \in 1..Len(wire') : i = Len(wire) + 1 /\ j = Len(wire) + 2
      BY <3>1
    <3>3. i < j /\ wire'[j].session = s
      BY <1>3, <3>1, <3>2
    <3>4. SilentFact'
      BY SilentHolds, PTL
    <3>5. ~Ends(i, s)'
      BY <1>1, <3>3, <3>4 DEF SilentFact
    <3>6. Ends(i, s)' <=> new[1].session = s /\ EndsSession(new[1], inbox')
      BY <1>1, <1>2, <3>2, ReadAsBefore
    <3> QED
      BY <1>2, <1>3, <3>5, <3>6
  <2> QED
    BY <1>2, <2>1, <2>2
<1>8. Phase(s)' = "announced"
  <2>1. \/ \E i \in 1..Len(wire) : Announces(i, s)
        \/ \E l \in 1..Len(new) : IsAnnouncement(new[l], s, inbox')
    BY <1>1, <1>2, <1>3, CarriedIsAnnounced
  <2> QED
    BY <1>1, <1>2, <1>6, <1>7, <2>1, PhaseAfter
<1>9. \A t \in SessionId : t # s => Phase(t)' = Phase(t)
  <2>1. \A t : t # s => \A k \in 1..Len(new) : new[k].session # t
    BY <1>2, <1>3
  <2> QED
    BY <1>1, <1>2, <2>1, PhaseKept
<1>10. \A t \in SessionId : t # s => Relayed(t)' = Relayed(t)
  <2>1. \A t : t # s => \A k \in 1..Len(new) : ~Carries(new[k], t)
    BY <1>2, <1>3 DEF Carries
  <2> QED
    BY <1>1, <1>2, <2>1, CandidatesKept
<1>11. PICK n \in Len(Relayed(s))..MaxCandidates : Relayed(s)' = [i \in 1..n |-> i]
  <2>1. /\ Len(new) # 0 /\ Carries(new[Len(new)], s)
        /\ \A k \in 1..(Len(new) - 1) : ~Carries(new[k], s)
    BY <1>2, <1>3 DEF Carries
  <2> QED
    BY <1>1, <1>2, <1>3, <2>1, CandidatesAdded
<1>12. Phases' = [Phases EXCEPT ![s] = "announced"] /\ Phases[s] = "unknown"
  BY <1>6, <1>8, <1>9 DEF Phases
<1>13. Candidates' = [Candidates EXCEPT ![s] = [i \in 1..n |-> i]] /\ Candidates[s] = Relayed(s)
  BY <1>10, <1>11 DEF Candidates
<1>14. Dialog!RelayBatch(s)
  BY <1>11, <1>13 DEF Dialog!RelayBatch
<1>15. Dialog!Announce(s)
  BY <1>4, <1>12, <1>14 DEF Dialog!Announce
<1> QED
  BY <1>15 DEF DialogMoves, Dialog!DialogNext, SessionId

\* Every step of the server is a step of the dialog.
LEMMA DialogMovesOn ==
    ASSUME SpokenInv, SpokenInv', [Next]_vars
    PROVE  DialogMoves
<1>1. Says
  BY NextSays DEF SpokenInv, SilenceInv
<1>2. PICK old : Grows(old)
  BY NextTalks DEF SpokenInv, Talks, TalkStep, SaysStep, NamesStep
<1>3. /\ Len(inbox) <= Len(inbox')
      /\ \A c \in 1..Len(inbox) : inbox'[c] = inbox[c]
  BY <1>2 DEF Grows
<1>4. CASE wire' = wire
  <2>1. Grows(<<>>)
    BY <1>3, <1>4 DEF Grows, SpokenInv, TypeOK
  <2> QED
    BY <2>1, NothingSaid
<1>5. ASSUME NEW m \in Message, SaysOne(m)
      PROVE  DialogMoves
  <2>1. Grows(<<m>>)
    BY <1>3, <1>5 DEF Grows, SaysOne
  <2> QED
    BY <1>5, <2>1, OneSaid
<1>6. ASSUME NEW s \in SessionId, NEW a \in Message, NEW setup \in Message, SaysTwo(s, a, setup)
      PROVE  DialogMoves
  <2>1. Grows(<<a, setup>>)
    BY <1>3, <1>6 DEF Grows, SaysTwo
  <2> QED
    BY <1>6, <2>1, TwoSaid
<1> QED
  BY <1>1, <1>4, <1>5, <1>6 DEF Says

\* The dialog starts as it should.
LEMMA DialogStarts ==
    ASSUME Init
    PROVE  Dialog!DialogInit
<1>1. wire = <<>> /\ Len(wire) = 0
  BY DEF Init
<1>2. \A c \in 1..MaxRequests : Answers(c) = {}
  BY <1>1 DEF Answers
<1>3. AnswerCounts = [c \in 1..MaxRequests |-> 0]
  BY <1>2, FS_EmptySet DEF AnswerCounts
<1>4. \A s \in SessionId : Phase(s) = "unknown"
  BY <1>1 DEF Phase
<1>5. TypeOK /\ CandidateInv /\ AnnounceInv
  BY TypeInit, CandidateInit, DialogInit
<1>6. \A s \in SessionId : Relayed(s) = <<>>
  BY <1>4, <1>5, UnknownRelaysNothing DEF AnnounceInv
<1>7. /\ Phases = [s \in 1..MaxSessions |-> "unknown"]
      /\ Candidates = [s \in 1..MaxSessions |-> <<>>]
  BY <1>4, <1>6 DEF Phases, Candidates, SessionId
<1> QED
  BY <1>3, <1>7 DEF Dialog!DialogInit

\* Every server session is one of those MediaDialog describes: seen as the answers
\* given, the sessions announced and ended and the candidates relayed, each handler
\* of ServerSession does one of the things promised, or nothing.
THEOREM SessionImplementsDialog == Spec => ImplementsMediaDialog
<1>1. Init => SpokenInv
  <2>1. Init => GatheredInv
    BY BoundsAssumption DEF Init, GatheredInv
  <2> QED
    BY <2>1, TypeInit, DialogInit, SilenceInit, CandidateInit DEF SpokenInv
<1>2. SpokenInv /\ [Next]_vars => SpokenInv'
  BY TypeStep, DialogStep, SilenceStep, CandidateStep, GatheredStep DEF SpokenInv, SilenceInv
<1>3. Spec => []SpokenInv
  BY <1>1, <1>2, PTL DEF Spec
<1>4. Init => Dialog!DialogInit
  BY DialogStarts
<1>5. SpokenInv /\ SpokenInv' /\ [Next]_vars => [Dialog!DialogNext]_(Dialog!dialogVars)
  BY DialogMovesOn DEF DialogMoves
<1> QED
  BY <1>3, <1>4, <1>5, PTL DEF Spec, ImplementsMediaDialog, Dialog!DialogSpec
=============================================================================
