---------------------------- MODULE PlayCallProofs ----------------------------
(***************************************************************************)
(* Proofs about PlayCall, for every bound: the two ends of a playback      *)
(* agree on their session, neither of them plays alone, and the candidates *)
(* of either side reach the other's peer in order.                         *)
(***************************************************************************)
EXTENDS PlayCallProps, ServerSessionProofs

-----------------------------------------------------------------------------
(* What a step of the server does, in terms of the messages "new" that it  *)
(* appends to the wire.                                                    *)

\* What a new message may say.
Fits(m) ==
    /\ m.kind = "request" =>
           /\ m.head \in {"RECORD", "SETUP", "TEARDOWN"}
           /\ Live(m.session)
           /\ m.head = "RECORD" => mediaSessions[m.session].type = "Subscribe"
           /\ m.cseq \in nextCSeq..(nextCSeq' - 1)
    /\ m.kind = "response" /\ m.cseq \in 1..Len(inbox') =>
           /\ inbox'[m.cseq].method = "OPTIONS" => m.session = NoId
           /\ inbox'[m.cseq].method = "PLAY" /\ m.session \in SessionId =>
                  mediaSessions'[m.session].playing

Rising(new) ==
    \A k, l \in 1..Len(new) :
        k < l /\ new[k].kind = "request" /\ new[l].kind = "request"
            => new[k].cseq < new[l].cseq

SpeaksStep(new) ==
    /\ Grows(new)
    /\ nextCSeq <= nextCSeq'
    /\ \A c \in 1..Len(inbox') : c \notin 1..Len(inbox) => inbox'[c].method \in ClientHeads
    /\ \A k \in 1..Len(new) : Fits(new[k])
    /\ Rising(new)

Started(s) == Created(s) /\ ~mediaSessions'[s].playing

\* The client's answer to a RECORD is the one being read.
Confirmed ==
    /\ 1 \in 1..Len(toServer) /\ Told(1)
    /\ \E r \in sentRequests : r.head = "RECORD" /\ r.cseq = toServer[1].cseq

GoesOn(s) ==
    /\ Live(s)
    /\ mediaSessions'[s].type = mediaSessions[s].type
    /\ mediaSessions[s].playing => mediaSessions'[s].playing
    /\ mediaSessions[s].type = "Subscribe" /\ mediaSessions'[s].playing
           => mediaSessions[s].playing \/ Confirmed

\* While the connection lasts, no session ends unsaid, and what the server
\* waits for it asks.
KeepsStep(new) ==
    /\ nextSessionId <= nextSessionId'
    /\ \A s \in SessionId : Live(s)' => Started(s) \/ GoesOn(s)
    /\ link' = "open" =>
           /\ link = "open"
           /\ \A s \in SessionId : Live(s) /\ ~Live(s)' =>
                  \E k \in 1..Len(new) : new[k].session = s /\ EndsSession(new[k], inbox')
           /\ \A k \in 1..Len(new) : new[k].session \in SessionId =>
                  Live(new[k].session) \/ mediaSessions'[new[k].session].type # "None"
           /\ \A r \in sentRequests' : r \in sentRequests
                  \/ \E k \in 1..Len(new) : new[k] = r /\ r.kind = "request"

PlayStep(new) == SpeaksStep(new) /\ KeepsStep(new)

PlaySteps ==
    /\ SessionsStep
    /\ \E new : NamesStep(new)
    /\ \E new : PlayStep(new)

\* The last request, if there is a new one, is one that a playing client makes.
Expected == \A c \in 1..Len(inbox') :
                c \notin 1..Len(inbox) => inbox'[c].method \in ClientHeads

-----------------------------------------------------------------------------
(* Each step of the server is such a step.                                 *)

LEMMA GrowsExpected ==
    ASSUME TypeOK, NEW method, NEW s, NEW body, Accept(method, s, body)
    PROVE  /\ Len(inbox) \in Nat /\ Len(inbox') = Len(inbox) + 1
           /\ \A c \in 1..Len(inbox) : inbox'[c] = inbox[c]
           /\ \A c \in 1..Len(inbox') : c \notin 1..Len(inbox) =>
                  /\ c = Len(inbox')
                  /\ inbox'[c].method = method
                  /\ inbox'[c].session = s
<1>1. /\ Len(inbox) \in Nat /\ Len(inbox') = Len(inbox) + 1
      /\ \A c \in 1..Len(inbox) : inbox'[c] = inbox[c]
      /\ inbox'[Len(inbox')].method = method
  BY AcceptGrows
<1>2. \A c \in 1..Len(inbox') : c \notin 1..Len(inbox) => inbox'[c].session = s
  <2>1. TakesRequestOf(s)
    BY DEF TakesRequestOf
  <2> QED
    BY <2>1, InboxGrows
<1>3. \A c \in 1..Len(inbox') : c \notin 1..Len(inbox) => c = Len(inbox')
  BY <1>1
<1> QED
  BY <1>1, <1>2, <1>3

\* Nothing is sent.
LEMMA QuietPlays ==
    ASSUME TypeOK, wire' = wire, TakesRequestOf(NoId), Expected, nextCSeq' = nextCSeq,
           nextSessionId <= nextSessionId', link' = "open" => link = "open",
           \A s \in SessionId : Live(s)' => Started(s) \/ GoesOn(s),
           link' = "open" => \A s \in SessionId : Live(s) => Live(s)',
           link' = "open" => sentRequests' \subseteq sentRequests
    PROVE  PlaySteps
<1>1. /\ Len(inbox) \in Nat /\ Len(inbox') \in Nat /\ Len(inbox) <= Len(inbox')
      /\ \A c \in 1..Len(inbox) : inbox'[c] = inbox[c]
      /\ \A c \in 1..Len(inbox') : c \notin 1..Len(inbox) => inbox'[c].session = NoId
  BY InboxGrows
<1>2. Grows(<<>>)
  BY <1>1, EmptyGrows
<1>3. NamesStep(<<>>)
  BY <1>1, <1>2, NextIdNat DEF NamesStep, NoId
<1>4. SessionsStep
  BY DEF SessionsStep, Started, GoesOn
<1>5. SpeaksStep(<<>>)
  BY <1>2 DEF SpeaksStep, Expected, Rising, TypeOK
<1>6. KeepsStep(<<>>)
  BY DEF KeepsStep
<1> QED
  BY <1>3, <1>4, <1>5, <1>6 DEF PlaySteps, PlayStep

\* A session as it was, but for what does not matter here.
Unmoved(s) ==
    /\ Live(s)
    /\ mediaSessions'[s].type = mediaSessions[s].type
    /\ mediaSessions'[s].playing = mediaSessions[s].playing

LEMMA UnmovedGoesOn ==
    ASSUME NEW s, Unmoved(s)
    PROVE  GoesOn(s)
BY DEF Unmoved, GoesOn

\* The same requests as before.
LEMMA SameRequests ==
    ASSUME inbox' = inbox
    PROVE  TakesRequestOf(NoId) /\ Expected
BY DEF TakesRequestOf, Expected

LEMMA ClosePlays ==
    ASSUME TypeOK, Close
    PROVE  PlaySteps
<1>1. \A s \in SessionId : ~Live(s)'
  BY DEF Close, Live, NoSession
<1>2. /\ wire' = wire /\ inbox' = inbox /\ link' # "open" /\ nextCSeq' = nextCSeq
      /\ nextSessionId <= nextSessionId'
  BY NextIdNat DEF Close
<1> QED
  BY <1>1, <1>2, SameRequests, QuietPlays

LEMMA RejectPlays ==
    ASSUME TypeOK, Reject
    PROVE  PlaySteps /\ link' = "closed"
BY ClosePlays DEF Reject, Close

\* A request that its handler answers.
LEMMA AnsweredPlays ==
    ASSUME TypeOK, IdsInv,
           NEW method \in ClientHeads, NEW named, NEW body, Accept(method, named, body),
           named = NoId \/ Live(named),
           NEW s \in Nat, NEW status \in Statuses, status # "BAD_GATEWAY", Answer(status, s),
           \/ s = NoId
           \/ Live(s)
           \/ s = nextSessionId /\ nextSessionId < nextSessionId',
           method = "OPTIONS" => s = NoId,
           method = "PLAY" /\ s \in SessionId => mediaSessions'[s].playing,
           nextSessionId <= nextSessionId', UNCHANGED <<sentRequests, nextCSeq>>,
           link' = "open" => link = "open",
           \A t \in SessionId : Live(t)' => Started(t) \/ GoesOn(t),
           link' = "open" => \A t \in SessionId : Live(t) => Live(t)',
           link' = "open" /\ s \in SessionId => mediaSessions'[s].type # "None"
    PROVE  PlaySteps
<1> DEFINE m == Response(status, Len(inbox) + 1, s)
<1>1. /\ Len(inbox) \in Nat /\ Len(inbox') = Len(inbox) + 1
      /\ \A c \in 1..Len(inbox) : inbox'[c] = inbox[c]
      /\ \A c \in 1..Len(inbox') : c \notin 1..Len(inbox) =>
             c = Len(inbox') /\ inbox'[c].method = method /\ inbox'[c].session = named
  BY GrowsExpected
<1>2. named < nextSessionId
  <2>1. Live(named) => named \in SessionId
    BY DEF Live
  <2> QED
    BY <2>1, NextIdNat DEF IdsInv, NoId
<1>3. m \in Message
  BY <1>1, ResponseType
<1>4. m.kind = "response" /\ m.cseq = Len(inbox') /\ m.session = s /\ m.head = status
  BY <1>1 DEF Response
<1>5. Emit(<<m>>)
  BY DEF Answer
<1> HIDE DEF m
<1>6. PICK new \in Seq(Message) :
          /\ wire' = wire \o new
          /\ Len(new) \in 0..1
          /\ \A k \in 1..Len(new) : k = 1 /\ new[k] = m
  BY <1>3, <1>5, OneSent
<1>7. Grows(new)
  BY <1>1, <1>6 DEF Grows
<1>8. /\ Len(inbox') \in 1..Len(inbox') /\ Len(inbox') \notin 1..Len(inbox)
      /\ inbox'[Len(inbox')].method = method
  BY <1>1
<1>9. NamesStep(new)
  <2>1. \A k \in 1..Len(new) : ~EndsSession(new[k], inbox')
    BY <1>4, <1>6, <1>8 DEF EndsSession, ClientHeads
  <2>2. \A c \in 1..Len(inbox') : c \notin 1..Len(inbox) => inbox'[c].session < nextSessionId
    BY <1>1, <1>2
  <2> QED
    BY <1>4, <1>6, <1>7, <1>8, <2>1, <2>2 DEF NamesStep
<1>10. SessionsStep
  BY DEF SessionsStep, Started, GoesOn
<1>11. SpeaksStep(new)
  <2>1. \A k \in 1..Len(new) : Fits(new[k])
    BY <1>4, <1>6, <1>8 DEF Fits
  <2>2. Rising(new)
    BY <1>4, <1>6 DEF Rising
  <2>3. nextCSeq <= nextCSeq'
    BY DEF TypeOK
  <2> QED
    BY <1>1, <1>7, <2>1, <2>2, <2>3 DEF SpeaksStep
<1>12. KeepsStep(new)
  BY <1>4, <1>6 DEF KeepsStep
<1> QED
  BY <1>9, <1>10, <1>11, <1>12 DEF PlaySteps, PlayStep

LEMMA onOptionsRequestPlays ==
    ASSUME TypeOK, IdsInv, onOptionsRequest
    PROVE  PlaySteps
<1>1. \A t \in SessionId : (Live(t) <=> Live(t)') /\ (Live(t)' => GoesOn(t))
  BY DEF onOptionsRequest, Live, GoesOn
<1>2. /\ NoId \in Nat /\ NoId \notin SessionId
      /\ "OPTIONS" \in ClientHeads /\ "OK" \in Statuses
      /\ nextSessionId <= nextSessionId'
  BY NextIdNat DEF NoId, ClientHeads, Statuses, onOptionsRequest, SessionId
<1> QED
  BY <1>1, <1>2, AnsweredPlays DEF onOptionsRequest

LEMMA StartedPlays ==
    ASSUME TypeOK, NEW session1 \in MediaSession, CreateMediaSession(session1),
           ~session1.prepared, session1.remote = 0, ~session1.playing, session1.type # "None"
    PROVE  /\ nextSessionId \in SessionId
           /\ nextSessionId <= nextSessionId' /\ nextSessionId < nextSessionId'
           /\ mediaSessions'[nextSessionId] = session1
           /\ \A s \in SessionId : Live(s)' => Started(s) \/ GoesOn(s)
           /\ \A s \in SessionId : Live(s) => Live(s)'
           /\ \A s \in SessionId : s # nextSessionId => mediaSessions'[s] = mediaSessions[s]
<1>1. /\ session1.type \in MediaTypes
      /\ nextSessionId \in SessionId
      /\ mediaSessions' = [mediaSessions EXCEPT ![nextSessionId] = session1]
      /\ nextSessionId' = nextSessionId + 1
      /\ mediaSessions \in [SessionId -> MediaSession]
  BY DEF CreateMediaSession, TypeOK
<1>2. /\ mediaSessions'[nextSessionId] = session1
      /\ \A s \in SessionId : s # nextSessionId => mediaSessions'[s] = mediaSessions[s]
  BY <1>1
<1>3. ASSUME NEW s \in SessionId, Live(s)'
      PROVE  Started(s) \/ GoesOn(s)
  <2>1. CASE s = nextSessionId
    BY <1>1, <1>2, <2>1 DEF Started, Created
  <2>2. CASE s # nextSessionId
    BY <1>2, <1>3, <2>2 DEF GoesOn, Live
  <2> QED
    BY <2>1, <2>2
<1>4. \A s \in SessionId : Live(s) => Live(s)'
  BY <1>2 DEF Live
<1> QED
  BY <1>1, <1>2, <1>3, <1>4, NextIdNat

LEMMA onDescribeRequestPlays ==
    ASSUME TypeOK, IdsInv, onDescribeRequest
    PROVE  PlaySteps
<1> DEFINE session1 == NewSession("Describe", Len(inbox) + 1)
<1>1. /\ Accept("DESCRIBE", NoId, NoBody) /\ "DESCRIBE" \in ClientHeads
      /\ UNCHANGED <<sentRequests, nextCSeq, link>>
      /\ NoId \in Nat /\ NoId \notin SessionId
  BY DEF onDescribeRequest, ClientHeads, NoId, SessionId
<1>2. CASE /\ \E status \in {"NOT_FOUND", "SERVICE_UNAVAILABLE"} : Answer(status, NoId)
           /\ UNCHANGED <<mediaSessions, nextSessionId>>
  <2>1. PICK status \in {"NOT_FOUND", "SERVICE_UNAVAILABLE"} : Answer(status, NoId)
    BY <1>2
  <2>2. status \in Statuses /\ status # "BAD_GATEWAY"
    BY DEF Statuses
  <2>3. \A t \in SessionId : (Live(t) <=> Live(t)') /\ (Live(t)' => GoesOn(t))
    BY <1>2 DEF Live, GoesOn
  <2> QED
    BY <1>1, <1>2, <2>1, <2>2, <2>3, NextIdNat, AnsweredPlays
<1>3. CASE CreateMediaSession(session1) /\ UNCHANGED wire
  <2>1. Len(inbox) + 1 \in Nat
    BY DEF TypeOK
  <2>2. session1 \in MediaSession
    BY <2>1, NewSessionType DEF AllTypes
  <2>3. /\ ~session1.prepared /\ session1.remote = 0 /\ ~session1.playing
        /\ session1.type # "None"
    BY DEF NewSession, NoSession
  <2>4. TakesRequestOf(NoId) /\ Expected
    BY <1>1, GrowsExpected DEF TakesRequestOf, Expected
  <2> HIDE DEF session1
  <2> QED
    BY <1>1, <1>3, <2>2, <2>3, <2>4, StartedPlays, QuietPlays
<1> QED
  BY <1>2, <1>3 DEF onDescribeRequest

LEMMA onSubscribeRequestPlays ==
    ASSUME TypeOK, IdsInv, onSubscribeRequest
    PROVE  PlaySteps
<1> DEFINE session1 == NewSession("Subscribe", InvalidCSeq)
<1>1. /\ Accept("SUBSCRIBE", NoId, NoBody) /\ "SUBSCRIBE" \in ClientHeads
      /\ Answer("OK", nextSessionId) /\ "OK" \in Statuses
      /\ UNCHANGED <<sentRequests, nextCSeq>>
      /\ nextSessionId \in Nat
  BY NextIdNat DEF onSubscribeRequest, ClientHeads, Statuses
<1>2. CASE CreateMediaSession(session1) /\ UNCHANGED link
  <2>1. session1 \in MediaSession
    BY NewSessionType DEF AllTypes, InvalidCSeq
  <2>2. /\ ~session1.prepared /\ session1.remote = 0 /\ ~session1.playing
        /\ session1.type # "None"
    BY DEF NewSession, NoSession
  <2> HIDE DEF session1
  <2> QED
    BY <1>1, <1>2, <2>1, <2>2, StartedPlays, AnsweredPlays
<1>3. CASE /\ disconnect
           /\ nextSessionId' = nextSessionId + 1
           /\ UNCHANGED mediaSessions
  <2>1. link' # "open"
    BY <1>3 DEF disconnect
  <2>2. \A t \in SessionId : Live(t)' => GoesOn(t)
    BY <1>3 DEF Live, GoesOn
  <2>3. nextSessionId <= nextSessionId' /\ nextSessionId < nextSessionId'
    BY <1>1, <1>3
  <2> QED
    BY <1>1, <2>1, <2>2, <2>3, AnsweredPlays
<1> QED
  BY <1>2, <1>3 DEF onSubscribeRequest

LEMMA onSetupRequestPlays ==
    ASSUME TypeOK, IdsInv, NEW s, NEW body, onSetupRequest(s, body)
    PROVE  PlaySteps
<1>1. CASE Reject
  BY <1>1, RejectPlays
<1>2. CASE ~Reject
  <2>1. /\ Live(s) /\ Accept("SETUP", s, body) /\ Answer("OK", s)
        /\ mediaSessions' = [mediaSessions EXCEPT ![s].remote = @ + body.lines]
        /\ UNCHANGED <<nextSessionId, sentRequests, nextCSeq, link>>
    BY <1>2 DEF onSetupRequest
  <2>2. \A t \in SessionId : (Live(t) <=> Live(t)') /\ (Live(t)' => Unmoved(t))
    <3>1. mediaSessions \in [SessionId -> MediaSession]
      BY DEF TypeOK
    <3> QED
      BY <2>1, <3>1 DEF Live, Unmoved, MediaSession
  <2>3. s \in Nat /\ s \in SessionId /\ "SETUP" \in ClientHeads /\ "OK" \in Statuses
    BY <2>1, SessionIdNat DEF Live, ClientHeads, Statuses
  <2>4. mediaSessions'[s].type # "None" /\ nextSessionId <= nextSessionId'
    BY <2>1, <2>2, <2>3, NextIdNat DEF Live
  <2> QED
    BY <2>1, <2>2, <2>3, <2>4, UnmovedGoesOn, AnsweredPlays
<1> QED
  BY <1>1, <1>2

LEMMA onPlayRequestPlays ==
    ASSUME TypeOK, IdsInv, NEW s, onPlayRequest(s)
    PROVE  PlaySteps
<1>1. CASE Reject
  BY <1>1, RejectPlays
<1>2. CASE ~Reject
  <2>1. /\ Live(s) /\ mediaSessions[s].type = "Describe"
        /\ Accept("PLAY", s, NoBody) /\ Answer("OK", s)
        /\ mediaSessions' = [mediaSessions EXCEPT ![s].playing = TRUE]
        /\ UNCHANGED <<nextSessionId, sentRequests, nextCSeq, link>>
    BY <1>2 DEF onPlayRequest
  <2>2. s \in Nat /\ s \in SessionId /\ "PLAY" \in ClientHeads /\ "OK" \in Statuses
    BY <2>1, SessionIdNat DEF Live, ClientHeads, Statuses
  <2>3. mediaSessions \in [SessionId -> MediaSession]
    BY DEF TypeOK
  <2>4. /\ mediaSessions'[s].playing /\ mediaSessions'[s].type = "Describe"
        /\ \A t \in SessionId : t # s => mediaSessions'[t] = mediaSessions[t]
    BY <2>1, <2>2, <2>3 DEF MediaSession
  <2>5. \A t \in SessionId : (Live(t) <=> Live(t)') /\ (Live(t)' => GoesOn(t))
    BY <2>1, <2>2, <2>4 DEF Live, GoesOn
  <2>6. mediaSessions'[s].type # "None" /\ nextSessionId <= nextSessionId'
    BY <2>1, <2>4, NextIdNat
  <2> QED
    BY <2>1, <2>2, <2>4, <2>5, <2>6, AnsweredPlays
<1> QED
  BY <1>1, <1>2

LEMMA handleResponsePlays ==
    ASSUME TypeOK, 1 \in 1..Len(toServer), Told(1), NEW ok, handleResponse(toServer[1].cseq, ok)
    PROVE  PlaySteps
<1>1. CASE Close
  BY <1>1, ClosePlays
<1>2. CASE ~Close
  <2> DEFINE found == {r \in sentRequests : r.cseq = toServer[1].cseq}
  <2>1. /\ sentRequests' = sentRequests \ found
        /\ mediaSessions' =
               [s \in SessionId |->
                   IF \E r \in found : r.head = "RECORD" /\ r.session = s
                   THEN [mediaSessions[s] EXCEPT !.playing = TRUE]
                   ELSE mediaSessions[s]]
        /\ UNCHANGED <<nextSessionId, nextCSeq, link, wire, inbox>>
    BY <1>2 DEF handleResponse
  <2>2. mediaSessions \in [SessionId -> MediaSession]
    BY DEF TypeOK
  <2>3. ASSUME NEW t \in SessionId
        PROVE  (Live(t) <=> Live(t)') /\ (Live(t)' => GoesOn(t))
    <3>1. CASE \E r \in found : r.head = "RECORD" /\ r.session = t
      <4>1. mediaSessions'[t] = [mediaSessions[t] EXCEPT !.playing = TRUE]
        BY <2>1, <3>1
      <4>2. Confirmed
        BY <3>1 DEF Confirmed
      <4> QED
        BY <2>2, <4>1, <4>2 DEF Live, GoesOn, MediaSession
    <3>2. CASE ~\E r \in found : r.head = "RECORD" /\ r.session = t
      <4>1. mediaSessions'[t] = mediaSessions[t]
        BY <2>1, <3>2
      <4> QED
        BY <4>1 DEF Live, GoesOn
    <3> QED
      BY <3>1, <3>2
  <2>4. nextSessionId <= nextSessionId' /\ sentRequests' \subseteq sentRequests
    BY <2>1, NextIdNat
  <2> QED
    BY <2>1, <2>3, <2>4, SameRequests, QuietPlays
<1> QED
  BY <1>1, <1>2

-----------------------------------------------------------------------------
(* The callbacks of the server's peers.                                    *)

\* Requests, and the answer to what a session owes.
LEMMA SentPlays ==
    ASSUME TypeOK, NEW messages \in Seq(Message), Emit(messages),
           UNCHANGED <<inbox, link, nextSessionId>>, nextCSeq <= nextCSeq',
           \A k \in 1..Len(messages) : Fits(messages[k]) /\ Live(messages[k].session),
           Rising(messages),
           \A t \in SessionId : Live(t)' => GoesOn(t),
           \A t \in SessionId : Live(t) /\ ~Live(t)' =>
               \E k \in 1..Len(messages) :
                   messages[k].session = t /\ EndsSession(messages[k], inbox),
           \A r \in sentRequests' : r \in sentRequests
               \/ \E k \in 1..Len(messages) : messages[k] = r /\ r.kind = "request"
    PROVE  \E new : PlayStep(new)
<1> DEFINE new == Sent(messages)
<1>1. new \in Seq(Message) /\ wire' = wire \o new
  BY EmitGrows
<1>2. /\ \A k \in 1..Len(new) : k \in 1..Len(messages) /\ new[k] = messages[k]
      /\ link = "open" => new = messages
  BY DEF Sent
<1>3. Len(inbox) \in Nat /\ inbox' = inbox /\ nextSessionId \in Nat
  BY NextIdNat DEF TypeOK
<1> HIDE DEF new
<1>4. Grows(new)
  BY <1>1, <1>3 DEF Grows
<1>5. Rising(new)
  BY <1>2 DEF Rising
<1>6. SpeaksStep(new)
  BY <1>2, <1>3, <1>4, <1>5 DEF SpeaksStep
<1>7. KeepsStep(new)
  BY <1>2, <1>3 DEF KeepsStep
<1> QED
  BY <1>6, <1>7 DEF PlayStep

\* The CSeq a session that is not prepared was given is that of no OPTIONS or
\* PLAY, and of no request at all when it is a subscription.
LEMMA OwedFits ==
    ASSUME TypeOK, AnswerInv, NEW s \in SessionId, Live(s), ~mediaSessions[s].prepared,
           inbox' = inbox, NEW m, m.kind = "response", m.cseq = mediaSessions[s].cseq
    PROVE  Fits(m)
<1>1. CASE mediaSessions[s].type = "Subscribe"
  BY <1>1 DEF AnswerInv, InvalidCSeq, Fits
<1>2. CASE mediaSessions[s].type # "Subscribe"
  <2>1. Owes(s)
    BY <1>2 DEF Owes
  <2>2. inbox[mediaSessions[s].cseq].method \in {"DESCRIBE", "RECORD"}
    BY <2>1 DEF AnswerInv, OwedRequest
  <2> QED
    BY <2>2 DEF Fits
<1> QED
  BY <1>1, <1>2

\* What stays of the sessions when s is prepared.
LEMMA PreparedUnmoved ==
    ASSUME TypeOK, NEW s \in SessionId, Live(s), mediaSessions' = Prepared(s)
    PROVE  \A t \in SessionId : (Live(t) <=> Live(t)') /\ (Live(t)' => GoesOn(t))
<1> SUFFICES ASSUME NEW t \in SessionId
             PROVE  (Live(t) <=> Live(t)') /\ (Live(t)' => GoesOn(t))
  OBVIOUS
<1>1. mediaSessions \in [SessionId -> MediaSession] /\ mediaSessions[t] \in MediaSession
  BY DEF TypeOK
<1>2. (Live(t) <=> Live(t)') /\ (Live(t)' => Unmoved(t))
  BY <1>1 DEF Prepared, Flushed, MediaSession, Live, Unmoved
<1> QED
  BY <1>2, UnmovedGoesOn

LEMMA InitialRequestAnsweredPlays ==
    ASSUME TypeOK, AnswerInv, NEW s \in SessionId, NEW type, InitialRequestAnswered(s, type)
    PROVE  \E new : PlayStep(new)
<1>1. /\ Live(s) /\ ~mediaSessions[s].prepared
      /\ mediaSessions' = Prepared(s)
      /\ SendThenFlush(<<Response("OK", mediaSessions[s].cseq, s)>>, s)
      /\ UNCHANGED <<nextSessionId, link, inbox>>
  BY DEF InitialRequestAnswered
<1>2. /\ mediaSessions[s].cseq \in Nat /\ mediaSessions[s].queue \in Seq(Nat)
      /\ s \in Nat /\ nextCSeq \in Nat
  BY SessionIdNat DEF TypeOK, MediaSession
<1>3. PICK answer \in Message : answer = Response("OK", mediaSessions[s].cseq, s)
  BY <1>2, ResponseType DEF Statuses
<1>4. PICK setup \in Message : setup = Request("SETUP", nextCSeq, s, mediaSessions[s].queue)
  BY <1>2, RequestType DEF Methods
<1>5. /\ answer.kind = "response" /\ answer.cseq = mediaSessions[s].cseq
      /\ answer.session = s
      /\ setup.kind = "request" /\ setup.head = "SETUP" /\ setup.cseq = nextCSeq
      /\ setup.session = s
  BY <1>3, <1>4 DEF Response, Request
<1>6. Fits(answer)
  BY <1>1, <1>5, OwedFits
<1>7. \A t \in SessionId : (Live(t) <=> Live(t)') /\ (Live(t)' => GoesOn(t))
  BY <1>1, PreparedUnmoved
<1>8. CASE mediaSessions[s].queue = <<>>
  <2>1. Emit(<<answer>>) /\ UNCHANGED <<sentRequests, nextCSeq>>
    BY <1>1, <1>3, <1>8 DEF SendThenFlush
  <2>2. <<answer>> \in Seq(Message) /\ Rising(<<answer>>)
    BY DEF Rising
  <2>3. \A k \in 1..Len(<<answer>>) : Fits(<<answer>>[k]) /\ Live(<<answer>>[k].session)
    BY <1>1, <1>5, <1>6
  <2>4. nextCSeq <= nextCSeq'
    BY <1>2, <2>1
  <2> QED
    BY <1>1, <1>7, <2>1, <2>2, <2>3, <2>4, SentPlays
<1>9. CASE mediaSessions[s].queue # <<>>
  <2>1. SendRequest(<<answer>>, "SETUP", s, mediaSessions[s].queue)
    BY <1>1, <1>3, <1>9 DEF SendThenFlush
  <2>2. /\ sentRequests' = sentRequests \cup {setup} /\ nextCSeq' = nextCSeq + 1
        /\ Emit(<<answer, setup>>)
    BY <1>4, <2>1, AppendToOne DEF SendRequest
  <2>3. PICK messages \in Seq(Message) : messages = <<answer, setup>>
    <3>1. <<answer, setup>> \in Seq(Message)
      OBVIOUS
    <3> QED
      BY <3>1
  <2>4. Len(messages) = 2 /\ messages[1] = answer /\ messages[2] = setup
    BY <2>3
  <2>5. Fits(setup)
    BY <1>1, <1>2, <1>5, <2>2 DEF Fits
  <2>6. \A k \in 1..Len(messages) : Fits(messages[k]) /\ Live(messages[k].session)
    BY <1>1, <1>5, <1>6, <2>4, <2>5
  <2>7. Rising(messages)
    BY <1>5, <2>4 DEF Rising
  <2>8. \A r \in sentRequests' : r \in sentRequests
            \/ \E k \in 1..Len(messages) : messages[k] = r /\ r.kind = "request"
    BY <1>5, <2>2, <2>4
  <2>9. nextCSeq <= nextCSeq' /\ Emit(messages)
    BY <1>2, <2>2, <2>3 DEF Emit
  <2> QED
    BY <1>1, <1>7, <2>3, <2>6, <2>7, <2>8, <2>9, SentPlays
<1> QED
  BY <1>8, <1>9

OneOrTwo(messages, first, second) ==
    /\ Len(messages) \in 1..2
    /\ messages[1] = first
    /\ Len(messages) = 2 => messages[2] = second

LEMMA recordToClientStreamerPreparedPlays ==
    ASSUME TypeOK, NEW s \in SessionId, recordToClientStreamerPrepared(s)
    PROVE  \E new : PlayStep(new)
<1> DEFINE record0 == Request("RECORD", nextCSeq, s, <<>>)
           setup0 == Request("SETUP", nextCSeq + 1, s, mediaSessions[s].queue)
           sent0 == IF mediaSessions[s].queue = <<>> THEN <<record0>> ELSE <<record0, setup0>>
<1>1. /\ Live(s) /\ mediaSessions[s].type = "Subscribe"
      /\ mediaSessions' = Prepared(s)
      /\ sentRequests' = sentRequests \cup {sent0[i] : i \in DOMAIN sent0}
      /\ nextCSeq' = nextCSeq + Len(sent0)
      /\ Emit(sent0)
      /\ UNCHANGED <<nextSessionId, link, inbox>>
  BY DEF recordToClientStreamerPrepared
<1>2. /\ mediaSessions[s].queue \in Seq(Nat) /\ <<>> \in Seq(Nat)
      /\ s \in Nat /\ nextCSeq \in Nat /\ nextCSeq + 1 \in Nat
  BY SessionIdNat DEF TypeOK, MediaSession
<1>3. PICK record \in Message : record = record0
  BY <1>2, RequestType DEF Methods
<1>4. PICK setup \in Message : setup = setup0
  BY <1>2, RequestType DEF Methods
<1>5. /\ record.kind = "request" /\ record.head = "RECORD" /\ record.cseq = nextCSeq
      /\ record.session = s
      /\ setup.kind = "request" /\ setup.head = "SETUP" /\ setup.cseq = nextCSeq + 1
      /\ setup.session = s
  BY <1>3, <1>4 DEF Request
<1>6. \A t \in SessionId : (Live(t) <=> Live(t)') /\ (Live(t)' => GoesOn(t))
  BY <1>1, PreparedUnmoved
<1>7. PICK messages \in Seq(Message) : messages = sent0 /\ OneOrTwo(messages, record, setup)
  <2>1. CASE mediaSessions[s].queue = <<>>
    <3>1. <<record>> \in Seq(Message) /\ sent0 = <<record>>
      BY <1>3, <2>1
    <3>2. OneOrTwo(<<record>>, record, setup)
      BY DEF OneOrTwo
    <3> QED
      BY <3>1, <3>2
  <2>2. CASE mediaSessions[s].queue # <<>>
    <3>1. <<record, setup>> \in Seq(Message) /\ sent0 = <<record, setup>>
      BY <1>3, <1>4, <2>2
    <3>2. OneOrTwo(<<record, setup>>, record, setup)
      BY DEF OneOrTwo
    <3> QED
      BY <3>1, <3>2
  <2> QED
    BY <2>1, <2>2
<1>8. /\ Len(messages) \in 1..2
      /\ messages[1] = record
      /\ Len(messages) = 2 => messages[2] = setup
  BY <1>7 DEF OneOrTwo
<1> HIDE DEF sent0
<1>9. /\ sentRequests' = sentRequests \cup {messages[i] : i \in 1..Len(messages)}
      /\ nextCSeq' = nextCSeq + Len(messages)
      /\ Emit(messages)
  <2>1. DOMAIN messages = 1..Len(messages)
    OBVIOUS
  <2>2. {sent0[i] : i \in DOMAIN sent0} = {messages[i] : i \in 1..Len(messages)}
    BY <1>7, <2>1
  <2> QED
    BY <1>1, <1>7, <2>2 DEF Emit
<1>10. Fits(record) /\ (Len(messages) = 2 => Fits(setup))
  <2>1. /\ nextCSeq \in nextCSeq..(nextCSeq' - 1)
        /\ Len(messages) = 2 => nextCSeq + 1 \in nextCSeq..(nextCSeq' - 1)
    BY <1>2, <1>8, <1>9
  <2> QED
    BY <1>1, <1>5, <2>1 DEF Fits
<1>11. \A k \in 1..Len(messages) : \/ messages[k] = record
                                   \/ Len(messages) = 2 /\ messages[k] = setup
  BY <1>8
<1>12. \A k \in 1..Len(messages) : /\ Fits(messages[k]) /\ Live(messages[k].session)
                                   /\ messages[k].kind = "request"
  BY <1>1, <1>5, <1>10, <1>11
<1>13. Rising(messages)
  <2>1. \A k, l \in 1..Len(messages) : k < l => k = 1 /\ l = 2 /\ Len(messages) = 2
    <3>1. \A n \in 1..2 : \A k, l \in 1..n : k < l => k = 1 /\ l = 2 /\ n = 2
      OBVIOUS
    <3> QED
      BY <1>8, <3>1
  <2> QED
    BY <1>2, <1>5, <1>8, <2>1 DEF Rising
<1>14. nextCSeq <= nextCSeq'
  BY <1>2, <1>8, <1>9
<1> QED
  BY <1>1, <1>6, <1>9, <1>12, <1>13, <1>14, SentPlays

\* A prepared session sends a request.
LEMMA RequestPlays ==
    ASSUME TypeOK, NEW s \in SessionId, Live(s), NEW method \in {"SETUP", "TEARDOWN"},
           NEW body \in Seq(Nat), SendRequest(<<>>, method, s, body),
           UNCHANGED <<inbox, link, nextSessionId>>,
           \A t \in SessionId : Live(t)' => GoesOn(t),
           \A t \in SessionId : Live(t) /\ ~Live(t)' => t = s /\ method = "TEARDOWN"
    PROVE  \E new : PlayStep(new)
<1>1. s \in Nat /\ nextCSeq \in Nat /\ method \in Methods
  BY SessionIdNat DEF TypeOK, Methods
<1>2. PICK m \in Message : m = Request(method, nextCSeq, s, body)
  BY <1>1, RequestType
<1>3. m.kind = "request" /\ m.cseq = nextCSeq /\ m.session = s /\ m.head = method
  BY <1>2 DEF Request
<1>4. Append(<<>>, m) = <<m>>
  OBVIOUS
<1>5. /\ sentRequests' = sentRequests \cup {m} /\ nextCSeq' = nextCSeq + 1
      /\ Emit(<<m>>)
  BY <1>2, <1>4 DEF SendRequest
<1>6. PICK messages \in Seq(Message) : messages = <<m>>
  <2>1. <<m>> \in Seq(Message)
    OBVIOUS
  <2> QED
    BY <2>1
<1>7. \A k \in 1..Len(messages) : k = 1 /\ messages[k] = m
  BY <1>6
<1>8. 1 \in 1..Len(messages) /\ messages[1] = m
  BY <1>6
<1>9. Fits(m)
  BY <1>1, <1>3, <1>5 DEF Fits
<1>10. Rising(messages)
  BY <1>7 DEF Rising
<1>11. \A t \in SessionId : Live(t) /\ ~Live(t)' =>
           \E k \in 1..Len(messages) : messages[k].session = t /\ EndsSession(messages[k], inbox)
  BY <1>3, <1>8 DEF EndsSession
<1>12. nextCSeq <= nextCSeq' /\ Emit(messages)
  BY <1>1, <1>5, <1>6 DEF Emit
<1>13. \A r \in sentRequests' : r \in sentRequests
           \/ \E k \in 1..Len(messages) : messages[k] = r /\ r.kind = "request"
  BY <1>3, <1>5, <1>8
<1> QED
  BY <1>3, <1>7, <1>9, <1>10, <1>11, <1>12, <1>13, SentPlays

LEMMA iceCandidatePlays ==
    ASSUME TypeOK, NEW s \in SessionId, iceCandidate(s)
    PROVE  \E new : PlayStep(new)
<1>1. Live(s) /\ UNCHANGED <<inbox, link, nextSessionId>>
  BY DEF iceCandidate
<1>2. CASE mediaSessions[s].prepared
  <2>1. SendRequest(<<>>, "SETUP", s, <<gathered[s] + 1>>) /\ UNCHANGED mediaSessions
    BY <1>2 DEF iceCandidate
  <2>2. <<gathered[s] + 1>> \in Seq(Nat)
    BY DEF TypeOK
  <2>3. \A t \in SessionId : (Live(t) <=> Live(t)') /\ (Live(t)' => GoesOn(t))
    BY <2>1 DEF Live, GoesOn
  <2> QED
    BY <1>1, <2>1, <2>2, <2>3, RequestPlays
<1>3. CASE ~mediaSessions[s].prepared
  <2>1. /\ mediaSessions' =
               [mediaSessions EXCEPT ![s].queue = Append(@, gathered[s] + 1)]
        /\ UNCHANGED <<sentRequests, nextCSeq, wire>>
    BY <1>3 DEF iceCandidate
  <2>2. mediaSessions \in [SessionId -> MediaSession]
    BY DEF TypeOK
  <2>3. \A t \in SessionId : (Live(t) <=> Live(t)') /\ (Live(t)' => Unmoved(t))
    BY <2>1, <2>2 DEF Live, Unmoved, MediaSession
  <2>4. nextSessionId <= nextSessionId'
    BY <1>1, NextIdNat
  <2> QED
    BY <1>1, <2>1, <2>3, <2>4, UnmovedGoesOn, SameRequests, QuietPlays DEF PlaySteps
<1> QED
  BY <1>2, <1>3

LEMMA eosPlays ==
    ASSUME TypeOK, AnswerInv, NEW s \in SessionId, eos(s)
    PROVE  \E new : PlayStep(new)
<1>1. /\ Live(s) /\ UNCHANGED <<inbox, link, nextSessionId>>
      /\ mediaSessions' = [mediaSessions EXCEPT ![s] = NoSession]
  BY DEF eos
<1>2. /\ \A t \in SessionId : Live(t)' => GoesOn(t)
      /\ \A t \in SessionId : Live(t) /\ ~Live(t)' => t = s
  <2>1. mediaSessions \in [SessionId -> MediaSession]
    BY DEF TypeOK
  <2>2. ~Live(s)'
    BY <1>1, <2>1 DEF Live, NoSession
  <2>3. \A t \in SessionId : t # s => mediaSessions'[t] = mediaSessions[t]
    BY <1>1, <2>1
  <2> QED
    BY <2>2, <2>3 DEF Live, GoesOn
<1>3. CASE mediaSessions[s].prepared
  <2>1. SendRequest(<<>>, "TEARDOWN", s, <<>>) /\ <<>> \in Seq(Nat)
    BY <1>3 DEF eos
  <2> QED
    BY <1>1, <1>2, <2>1, RequestPlays
<1>4. CASE ~mediaSessions[s].prepared
  <2>1. mediaSessions[s].cseq \in Nat /\ s \in Nat
    BY SessionIdNat DEF TypeOK, MediaSession
  <2>2. PICK m \in Message : m = Response("BAD_GATEWAY", mediaSessions[s].cseq, s)
    BY <2>1, ResponseType DEF Statuses
  <2>3. Emit(<<m>>) /\ UNCHANGED <<sentRequests, nextCSeq>>
    BY <1>4, <2>2 DEF eos
  <2>4. /\ m.kind = "response" /\ m.session = s /\ m.head = "BAD_GATEWAY"
        /\ m.cseq = mediaSessions[s].cseq
    BY <2>2 DEF Response
  <2>5. PICK messages \in Seq(Message) : messages = <<m>>
    <3>1. <<m>> \in Seq(Message)
      OBVIOUS
    <3> QED
      BY <3>1
  <2>6. /\ \A k \in 1..Len(messages) : k = 1 /\ messages[k] = m
        /\ 1 \in 1..Len(messages) /\ messages[1] = m
    BY <2>5
  <2>7. Fits(m)
    BY <1>1, <1>4, <2>4, OwedFits
  <2>8. Rising(messages)
    BY <2>6 DEF Rising
  <2>9. \A t \in SessionId : Live(t) /\ ~Live(t)' =>
            \E k \in 1..Len(messages) : messages[k].session = t /\ EndsSession(messages[k], inbox)
    BY <1>2, <2>4, <2>6 DEF EndsSession
  <2>10. nextCSeq <= nextCSeq' /\ Emit(messages)
    BY <2>3, <2>5 DEF TypeOK, Emit
  <2> QED
    BY <1>1, <1>2, <2>3, <2>4, <2>5, <2>6, <2>7, <2>8, <2>9, <2>10, SentPlays
<1> QED
  BY <1>3, <1>4

LEMMA PeerCallbackPlays ==
    ASSUME TypeOK, AnswerInv, NEW s \in SessionId, PeerCallback(s)
    PROVE  PlaySteps
<1>1. \E new : PlayStep(new)
  <2>1. CASE PreparedWithoutSdp(s)
    <3>1. /\ mediaSessions' = [mediaSessions EXCEPT ![s].prepared = TRUE]
          /\ link' # "open" /\ UNCHANGED <<nextSessionId, nextCSeq, wire, inbox>>
      BY <2>1 DEF PreparedWithoutSdp, disconnect
    <3>2. mediaSessions \in [SessionId -> MediaSession]
      BY DEF TypeOK
    <3>3. \A t \in SessionId : Live(t)' => Unmoved(t)
      BY <3>1, <3>2 DEF Live, Unmoved, MediaSession
    <3>4. nextSessionId <= nextSessionId'
      BY <3>1, NextIdNat
    <3> QED
      BY <3>1, <3>3, <3>4, UnmovedGoesOn, SameRequests, QuietPlays DEF PlaySteps
  <2>2. CASE streamerPrepared(s) \/ recorderPrepared(s)
    BY <2>2, InitialRequestAnsweredPlays DEF streamerPrepared, recorderPrepared
  <2>3. CASE recordToClientStreamerPrepared(s)
    BY <2>3, recordToClientStreamerPreparedPlays
  <2>4. CASE iceCandidate(s)
    BY <2>4, iceCandidatePlays
  <2>5. CASE eos(s)
    BY <2>5, eosPlays
  <2>6. CASE LateCallback(s)
    <3>1. /\ link' # "open"
          /\ UNCHANGED <<mediaSessions, nextSessionId, nextCSeq, wire, inbox>>
      BY <2>6 DEF LateCallback, disconnect
    <3>2. \A t \in SessionId : Live(t)' => Unmoved(t)
      BY <3>1 DEF Live, Unmoved
    <3>3. nextSessionId <= nextSessionId'
      BY <3>1, NextIdNat
    <3> QED
      BY <3>1, <3>2, <3>3, UnmovedGoesOn, SameRequests, QuietPlays DEF PlaySteps
  <2> QED
    BY <2>1, <2>2, <2>3, <2>4, <2>5, <2>6 DEF PeerCallback
<1>2. PICK new : TalkStep(new)
  BY PeerCallbackTalks DEF Talks
<1>3. NamesStep(new) /\ SessionsStep
  BY <1>2 DEF TalkStep, SaysStep, QueueStep, SessionsStep
<1> QED
  BY <1>1, <1>3 DEF PlaySteps

-----------------------------------------------------------------------------
(* The server keeps what it guarantees every client.                       *)

\* The message at the head of the channel.
LEMMA HeadMessage ==
    ASSUME PlayTypeOK, toServer # <<>>
    PROVE  /\ Head(toServer) = toServer[1]
           /\ toServer[1] \in ClientsRequest \cup ClientsResponse
           /\ Len(toServer) \in Nat \ {0}
           /\ 1 \in 1..Len(toServer)
           /\ Tail(toServer) \in Seq(ClientsRequest \cup ClientsResponse)
           /\ Len(Tail(toServer)) = Len(toServer) - 1
           /\ \A i \in 1..Len(Tail(toServer)) :
                  i + 1 \in 1..Len(toServer) /\ Tail(toServer)[i] = toServer[i + 1]
<1>1. toServer \in Seq(ClientsRequest \cup ClientsResponse)
  BY DEF PlayTypeOK
<1> QED
  BY <1>1

Body(m) == [lines |-> Len(m.body), malformed |-> FALSE]

LEMMA BodyType ==
    ASSUME NEW m \in ClientsRequest \cup ClientsResponse
    PROVE  Body(m) \in SetupBody
<1>1. m.body \in Seq(Nat)
  BY DEF ClientsRequest, ClientsResponse
<1>2. Len(m.body) \in Nat
  BY <1>1
<1> QED
  BY <1>2 DEF Body, SetupBody

LEMMA HeardIsKnown ==
    ASSUME ServerInv, PlayTypeOK, NEW s, Heard(s)
    PROVE  s \in KnownToClient
<1>1. PICK j \in 1..heard : wire[j].session = s
  BY DEF Heard
<1>2. j \in 1..Len(wire)
  BY <1>1 DEF PlayTypeOK
<1>3. wire[j] \in Message
  BY <1>2 DEF ServerInv, TypeOK
<1>4. s \in Nat /\ s < nextSessionId
  BY <1>1, <1>2, <1>3 DEF ServerInv, IdsInv, Message
<1>5. s = NoId \/ s \in SessionId
  BY <1>4, BoundsAssumption DEF ServerInv, TypeOK, SessionId, NoId
<1> QED
  BY <1>1, <1>2, <1>5 DEF KnownToClient, Announced

\* What a step of the server has to give.
ServesWell ==
    /\ TypeOK' /\ AnswerInv' /\ AnnounceInv'
    /\ PlaySteps

LEMMA ServedWell ==
    ASSUME ServerInv, TypeOK', Steps, PlaySteps
    PROVE  ServesWell
<1>1. PICK new : AnswerStep(new) /\ AnnounceStep(new)
  BY DEF Steps
<1> QED
  BY <1>1, AnswerInvStep, AnnounceInvStep DEF ServerInv, ServesWell

LEMMA onSubscribeRequestServes ==
    ASSUME ServerInv, onSubscribeRequest
    PROVE  ServesWell
<1>1. TypeOK /\ AnswerInv /\ IdsInv
  BY DEF ServerInv
<1>2. /\ NoId \in Nat /\ NoBody \in SetupBody /\ nextSessionId \in Nat
      /\ "OK" \in Statuses /\ "SUBSCRIBE" \in Methods
      /\ InvalidCSeq \in Nat /\ "Subscribe" \in AllTypes
  BY <1>1, NextIdNat DEF NoId, NoBody, SetupBody, Statuses, Methods, InvalidCSeq, AllTypes
<1> DEFINE session1 == NewSession("Subscribe", InvalidCSeq)
<1>3. session1 \in MediaSession
  BY <1>2, NewSessionType
<1>4. /\ session1.type = "Subscribe" /\ session1.cseq = InvalidCSeq /\ ~session1.prepared
  BY DEF NewSession, NoSession
<1>5. /\ Accept("SUBSCRIBE", NoId, NoBody) /\ nextSessionId \in SessionId
      /\ Answer("OK", nextSessionId)
      /\ \/ CreateMediaSession(session1) /\ UNCHANGED link
         \/ disconnect /\ nextSessionId' = nextSessionId + 1 /\ UNCHANGED mediaSessions
      /\ UNCHANGED <<sentRequests, nextCSeq, gathered>>
  BY DEF onSubscribeRequest
<1> HIDE DEF session1
<1>6. wire' \in Seq(Message) /\ inbox' \in Seq(ClientRequest)
  BY <1>1, <1>2, <1>5, AnswerType, AcceptType
<1>7. /\ mediaSessions' \in [SessionId -> MediaSession]
      /\ nextSessionId' \in 1..(MaxSessions + 1)
  <2>1. CASE CreateMediaSession(session1)
    BY <1>1, <1>3, <2>1, CreateMediaSessionType
  <2>2. CASE nextSessionId' = nextSessionId + 1 /\ UNCHANGED mediaSessions
    BY <1>1, <1>5, <2>2, BoundsAssumption DEF TypeOK, SessionId
  <2> QED
    BY <1>5, <2>1, <2>2
<1>8. TypeOK'
  <2>1. link' \in {"open", "terminating", "closed"}
    BY <1>1, <1>5 DEF TypeOK, disconnect
  <2> QED
    BY <1>1, <1>5, <1>6, <1>7, <2>1 DEF TypeOK
<1>9. \A t \in SessionId : mediaSessions'[t].type # "None" => Kept(t) \/ Subscribed(t)
  <2>1. CASE CreateMediaSession(session1)
    <3>1. /\ mediaSessions' = [mediaSessions EXCEPT ![nextSessionId] = session1]
          /\ mediaSessions \in [SessionId -> MediaSession]
      BY <1>1, <2>1 DEF CreateMediaSession, TypeOK
    <3>2. /\ mediaSessions'[nextSessionId] = session1
          /\ \A t \in SessionId : t # nextSessionId => mediaSessions'[t] = mediaSessions[t]
      BY <1>5, <3>1
    <3> QED
      BY <1>4, <3>2 DEF Kept, Subscribed
  <2>2. CASE UNCHANGED mediaSessions
    BY <2>2 DEF Kept
  <2> QED
    BY <1>5, <2>1, <2>2
<1>10. link' = "open" => link = "open"
  BY <1>5 DEF disconnect
<1>11. Steps
  BY <1>1, <1>2, <1>5, <1>9, <1>10, AnsweredOrSubscribed
<1> QED
  BY <1>1, <1>8, <1>11, ServedWell, onSubscribeRequestPlays

LEMMA ServerHandlesServes ==
    ASSUME ServerInv, PlayTypeOK, WireInv, ChannelInv, ServerReceives
    PROVE  ServesWell
<1>1. PICK m \in ClientsRequest \cup ClientsResponse : m = toServer[1]
  BY HeadMessage DEF ServerReceives
<1>2. /\ ServerHandles(m) /\ 1 \in 1..Len(toServer)
      /\ TypeOK /\ AnswerInv /\ AnnounceInv /\ IdsInv
  BY <1>1, HeadMessage DEF ServerReceives, ServerInv
<1>3. ASSUME ClientStep
      PROVE  TypeOK' /\ Steps
  BY <1>2, <1>3, ClientStepType, ClientStepStep
<1>4. CASE m.kind = "response"
  <2>1. handleResponse(m.cseq, m.head = "OK")
    BY <1>2, <1>4 DEF ServerHandles
  <2>2. PICK i \in 1..Len(wire) : wire[i].kind = "request" /\ wire[i].cseq = m.cseq
    BY <2>1 DEF handleResponse
  <2>3. m.cseq \in 1..(nextCSeq - 1)
    BY <2>2 DEF WireInv, IsRequest
  <2>4. ClientStep
    BY <2>1, <2>3 DEF ClientStep
  <2>5. PlaySteps
    BY <1>1, <1>2, <1>4, <2>1, handleResponsePlays DEF Told
  <2> QED
    BY <1>3, <2>4, <2>5, ServedWell
<1>5. CASE m.kind = "request"
  <2>1. m.head \in {"SETUP", "PLAY"} => m.session \in KnownToClient
    BY <1>1, <1>2, <1>5, HeardIsKnown DEF Asked, ChannelInv
  <2>2. CASE m.head = "OPTIONS" /\ onOptionsRequest
    <3>1. ClientStep
      BY <2>2 DEF ClientStep
    <3> QED
      BY <1>2, <1>3, <2>2, <3>1, ServedWell, onOptionsRequestPlays
  <2>3. CASE m.head = "DESCRIBE" /\ onDescribeRequest
    <3>1. ClientStep
      BY <2>3 DEF ClientStep
    <3> QED
      BY <1>2, <1>3, <2>3, <3>1, ServedWell, onDescribeRequestPlays
  <2>4. CASE m.head = "SUBSCRIBE" /\ onSubscribeRequest
    BY <2>4, onSubscribeRequestServes
  <2>5. CASE m.head = "PLAY" /\ onPlayRequest(m.session)
    <3>1. ClientStep
      BY <2>1, <2>5 DEF ClientStep
    <3> QED
      BY <1>2, <1>3, <2>5, <3>1, ServedWell, onPlayRequestPlays
  <2>6. CASE m.head = "SETUP" /\ onSetupRequest(m.session, Body(m))
    <3>1. TypeOK' /\ Steps
      BY <1>2, <2>1, <2>6, BodyType, onSetupRequestType, onSetupRequestStep
    <3> QED
      BY <1>2, <2>6, <3>1, ServedWell, onSetupRequestPlays
  <2> QED
    BY <1>2, <1>5, <2>2, <2>3, <2>4, <2>5, <2>6 DEF ServerHandles, Body
<1> QED
  BY <1>2, <1>4, <1>5 DEF ServerHandles

LEMMA ServerOwnStepServes ==
    ASSUME ServerInv, ServerOwnStep
    PROVE  ServesWell
<1>1. TypeOK /\ AnswerInv /\ AnnounceInv
  BY DEF ServerInv
<1>2. ASSUME NEW s \in SessionId, PeerCallback(s)
      PROVE  ServesWell
  BY <1>1, <1>2, PeerCallbackType, PeerCallbackStep, PeerCallbackPlays, ServedWell
<1>3. CASE Close
  BY <1>1, <1>3, CloseType, CloseStep, ClosePlays, ServedWell
<1> QED
  BY <1>2, <1>3 DEF ServerOwnStep, Writeable, ConnectionLost

LEMMA IdleServes ==
    ASSUME ServerInv, UNCHANGED vars
    PROVE  ServesWell
<1>1. TypeOK /\ AnswerInv /\ AnnounceInv
  BY DEF ServerInv
<1>2. TypeOK' /\ AnswerInv' /\ AnnounceInv'
  BY <1>1, TypeStep, DialogStep
<1>3. /\ \A s \in SessionId : (Live(s) <=> Live(s)') /\ (Live(s)' => Unmoved(s))
      /\ wire' = wire /\ inbox' = inbox /\ nextCSeq' = nextCSeq /\ link' = link
      /\ nextSessionId' = nextSessionId /\ sentRequests' = sentRequests
  BY DEF vars, Live, Unmoved
<1>4. PlaySteps
  BY <1>1, <1>3, SameRequests, UnmovedGoesOn, QuietPlays, NextIdNat
<1> QED
  BY <1>2, <1>4 DEF ServesWell

LEMMA ServesKeeps ==
    ASSUME ServerInv, ServesWell
    PROVE  ServerInv'
<1>1. PICK new : NamesStep(new)
  BY DEF ServesWell, PlaySteps
<1> QED
  BY <1>1, IdsStep, EndStep DEF ServesWell, PlaySteps, ServerInv

-----------------------------------------------------------------------------
(* What the server has written stays right.                                *)

\* A session that is there was there, unless nobody has heard of it.
LEMMA NamedGoesOn ==
    ASSUME TypeOK, IdsInv, NEW new, KeepsStep(new), NEW s, Live(s)',
           Announced(s) \/ Live(s)
    PROVE  GoesOn(s)
<1>1. s \in SessionId
  BY DEF Live
<1>2. s < nextSessionId
  BY <1>1 DEF IdsInv, Announced
<1>3. s \in Nat /\ nextSessionId \in Nat
  BY <1>1, SessionIdNat, NextIdNat
<1>4. ~Started(s)
  BY <1>2, <1>3 DEF Started, Created
<1> QED
  BY <1>1, <1>4 DEF KeepsStep

LEMMA WireInvStep ==
    ASSUME TypeOK, TypeOK', AnswerInv, IdsInv, WireInv, NEW new, PlayStep(new)
    PROVE  WireInv'
<1>1. SpeaksStep(new) /\ KeepsStep(new) /\ Grows(new)
  BY DEF PlayStep, SpeaksStep
<1>2. /\ Len(inbox) \in Nat /\ Len(inbox') \in Nat /\ Len(inbox) <= Len(inbox')
      /\ Len(wire) \in Nat /\ Len(new) \in Nat /\ Len(wire') = Len(wire) + Len(new)
      /\ \A c \in 1..Len(inbox) : inbox'[c] = inbox[c] /\ c \in 1..Len(inbox')
      /\ \A i \in 1..Len(wire) : wire'[i] = wire[i] /\ i \in 1..Len(wire')
      /\ \A k \in 1..Len(new) : wire'[Len(wire) + k] = new[k]
      /\ \A i \in 1..Len(wire') : i \in 1..Len(wire)
             \/ \E k \in 1..Len(new) : i = Len(wire) + k
      /\ \A i \in 1..Len(wire) : wire[i].cseq \in Nat
  BY <1>1, PastKept
<1>3. nextCSeq \in Nat \ {0} /\ nextCSeq' \in Nat /\ nextCSeq <= nextCSeq'
  BY <1>1 DEF TypeOK, SpeaksStep
<1>4. ASSUME NEW i \in 1..Len(wire'), i \notin 1..Len(wire)
      PROVE  \E k \in 1..Len(new) : /\ i = Len(wire) + k /\ wire'[i] = new[k]
                                    /\ Fits(new[k])
  BY <1>1, <1>2, <1>4 DEF SpeaksStep
<1>5. ASSUME NEW i \in 1..Len(wire), IsRequest(i)'
      PROVE  /\ wire'[i].head \in {"RECORD", "SETUP", "TEARDOWN"}
             /\ wire'[i].session # NoId
             /\ wire'[i].cseq \in 1..(nextCSeq - 1)
  BY <1>2, <1>5 DEF WireInv, IsRequest
<1>6. ASSUME NEW i \in 1..Len(wire'), i \notin 1..Len(wire), IsRequest(i)'
      PROVE  /\ wire'[i].head \in {"RECORD", "SETUP", "TEARDOWN"}
             /\ wire'[i].session # NoId
             /\ wire'[i].cseq \in nextCSeq..(nextCSeq' - 1)
             /\ Live(wire'[i].session)
             /\ wire'[i].head = "RECORD" => mediaSessions[wire'[i].session].type = "Subscribe"
  <2>1. PICK k \in 1..Len(new) : wire'[i] = new[k] /\ Fits(new[k])
    BY <1>4, <1>6
  <2>2. new[k].kind = "request"
    BY <1>6, <2>1 DEF IsRequest
  <2> QED
    BY <2>1, <2>2 DEF Fits, Live, SessionId, NoId
<1>7. \A i \in 1..Len(wire') : IsRequest(i)' =>
          /\ wire'[i].head \in {"RECORD", "SETUP", "TEARDOWN"}
          /\ wire'[i].session # NoId
          /\ wire'[i].cseq \in 1..(nextCSeq' - 1)
  BY <1>3, <1>5, <1>6
<1>8. ASSUME NEW i \in 1..Len(wire'), NEW j \in 1..Len(wire'),
             i < j, IsRequest(i)', IsRequest(j)'
      PROVE  wire'[i].cseq < wire'[j].cseq
  <2>1. CASE i \in 1..Len(wire) /\ j \in 1..Len(wire)
    BY <1>2, <1>8, <2>1 DEF WireInv, IsRequest
  <2>2. CASE i \in 1..Len(wire) /\ j \notin 1..Len(wire)
    BY <1>3, <1>5, <1>6, <1>8, <2>2
  <2>3. CASE i \notin 1..Len(wire)
    <3>1. PICK k \in 1..Len(new) : i = Len(wire) + k /\ wire'[i] = new[k]
      BY <1>4, <2>3
    <3>2. j \notin 1..Len(wire)
      BY <1>2, <1>8, <3>1
    <3>3. PICK l \in 1..Len(new) : j = Len(wire) + l /\ wire'[j] = new[l]
      BY <1>4, <3>2
    <3>4. k < l
      BY <1>2, <1>8, <3>1, <3>3
    <3> QED
      BY <1>1, <1>8, <3>1, <3>3, <3>4 DEF SpeaksStep, Rising, IsRequest
  <2> QED
    BY <2>1, <2>2, <2>3
<1>9. \A c \in 1..Len(inbox') : inbox'[c].method \in ClientHeads
  BY <1>1, <1>2 DEF WireInv, SpeaksStep
<1>10. ASSUME NEW i \in 1..Len(wire'), Records(i)',
              NEW t, t = wire'[i].session, Live(t)'
       PROVE  mediaSessions'[t].type = "Subscribe"
  <2>1. CASE i \in 1..Len(wire)
    <3>1. wire'[i] = wire[i] /\ Records(i)
      BY <1>2, <1>10, <2>1 DEF Records, IsRequest
    <3>2. Announced(t)
      BY <1>10, <2>1, <3>1 DEF Announced
    <3>3. GoesOn(t)
      BY <1>1, <1>10, <3>2, NamedGoesOn
    <3> QED
      BY <1>10, <2>1, <3>1, <3>3 DEF WireInv, GoesOn
  <2>2. CASE i \notin 1..Len(wire)
    <3>1. Live(t) /\ mediaSessions[t].type = "Subscribe"
      BY <1>6, <1>10, <2>2 DEF Records
    <3>2. GoesOn(t)
      BY <1>1, <1>10, <3>1, NamedGoesOn
    <3> QED
      BY <3>1, <3>2 DEF GoesOn
  <2> QED
    BY <2>1, <2>2
<1>11. ASSUME NEW i \in 1..Len(wire'), IsResponse(i)', wire'[i].cseq \in 1..Len(inbox'),
              NEW t, t = wire'[i].session
       PROVE  /\ inbox'[wire'[i].cseq].method = "OPTIONS" => t = NoId
              /\ inbox'[wire'[i].cseq].method = "PLAY" /\ Live(t)' => mediaSessions'[t].playing
  <2>1. CASE i \in 1..Len(wire)
    <3>1. wire'[i] = wire[i] /\ IsResponse(i)
      BY <1>2, <1>11, <2>1 DEF IsResponse
    <3>2. wire[i].cseq \in 1..Len(inbox)
      BY <1>2, <1>11, <2>1, <3>1 DEF AnswerInv
    <3>3. inbox'[wire[i].cseq] = inbox[wire[i].cseq]
      BY <1>2, <3>2
    <3>4. /\ inbox[wire[i].cseq].method = "OPTIONS" => t = NoId
          /\ inbox[wire[i].cseq].method = "PLAY" /\ Live(t) => mediaSessions[t].playing
      BY <1>11, <2>1, <3>1, <3>2 DEF WireInv
    <3>5. ASSUME inbox[wire[i].cseq].method = "PLAY", Live(t)'
          PROVE  mediaSessions'[t].playing
      <4>1. Announced(t)
        BY <1>11, <2>1, <3>1 DEF Announced
      <4>2. GoesOn(t)
        BY <1>1, <3>5, <4>1, NamedGoesOn
      <4> QED
        BY <3>4, <3>5, <4>2 DEF GoesOn
    <3> QED
      BY <3>1, <3>3, <3>4, <3>5
  <2>2. CASE i \notin 1..Len(wire)
    <3>1. PICK k \in 1..Len(new) : wire'[i] = new[k] /\ Fits(new[k])
      BY <1>4, <2>2
    <3>2. new[k].kind = "response"
      BY <1>11, <3>1 DEF IsResponse
    <3>3. Live(t)' => t \in SessionId
      BY DEF Live
    <3> QED
      BY <1>11, <3>1, <3>2, <3>3 DEF Fits
  <2> QED
    BY <2>1, <2>2
<1>12. \A i \in 1..Len(wire') : (Records(i) /\ Live(wire[i].session))' =>
           mediaSessions'[wire'[i].session].type = "Subscribe"
  BY <1>10 DEF Live
<1>13. \A i \in 1..Len(wire') : IsResponse(i)' /\ wire'[i].cseq \in 1..Len(inbox') =>
           /\ inbox'[wire'[i].cseq].method = "OPTIONS" => wire'[i].session = NoId
           /\ inbox'[wire'[i].cseq].method = "PLAY" /\ Live(wire[i].session)' =>
                  mediaSessions'[wire'[i].session].playing
  BY <1>11 DEF Live
<1> QED
  BY <1>7, <1>8, <1>9, <1>12, <1>13 DEF WireInv

LEMMA OpenInvStep ==
    ASSUME TypeOK, TypeOK', OpenInv, NEW new, PlayStep(new)
    PROVE  OpenInv'
<1> SUFFICES ASSUME link' = "open"
             PROVE  /\ \A s \in SessionId : Announced(s)' => Live(s)' \/ Ended(s)' # {}
                    /\ \A r \in sentRequests' :
                           \E i \in 1..Len(wire') : IsRequest(i)' /\ wire'[i] = r
  BY DEF OpenInv
<1>1. KeepsStep(new) /\ Grows(new) /\ link = "open"
  BY DEF PlayStep, SpeaksStep, KeepsStep
<1>2. /\ \A i \in 1..Len(wire) : wire'[i] = wire[i] /\ i \in 1..Len(wire')
      /\ \A k \in 1..Len(new) : wire'[Len(wire) + k] = new[k] /\ Len(wire) + k \in 1..Len(wire')
      /\ \A i \in 1..Len(wire') : i \in 1..Len(wire)
             \/ \E k \in 1..Len(new) : i = Len(wire) + k
  BY <1>1, PastKept
<1>3. ASSUME NEW s \in SessionId, Announced(s)'
      PROVE  Live(s)' \/ Ended(s)' # {}
  <2>1. ASSUME Live(s), ~Live(s)'
        PROVE  Ended(s)' # {}
    <3>1. PICK k \in 1..Len(new) : new[k].session = s /\ EndsSession(new[k], inbox')
      BY <1>1, <2>1 DEF KeepsStep
    <3>2. Len(wire) + k \in Ended(s)'
      BY <1>1, <3>1, EndsKept
    <3> QED
      BY <3>2
  <2>2. ASSUME Ended(s) # {}
        PROVE  Ended(s)' # {}
    <3>1. \A e \in Ended(s) : e \in Ended(s)'
      BY <1>1, EndsKept
    <3> QED
      BY <2>2, <3>1
  <2>3. PICK i \in 1..Len(wire') : wire'[i].session = s
    BY <1>3 DEF Announced
  <2>4. CASE i \in 1..Len(wire)
    <3>1. Announced(s)
      BY <1>2, <2>3, <2>4 DEF Announced
    <3> QED
      BY <1>1, <2>1, <2>2, <3>1 DEF OpenInv
  <2>5. CASE i \notin 1..Len(wire)
    <3>1. PICK k \in 1..Len(new) : new[k].session = s
      BY <1>2, <2>3, <2>5
    <3>2. Live(s) \/ mediaSessions'[s].type # "None"
      BY <1>1, <3>1 DEF KeepsStep
    <3>3. mediaSessions'[s].type # "None" => Live(s)'
      BY DEF Live
    <3> QED
      BY <2>1, <3>2, <3>3
  <2> QED
    BY <2>4, <2>5
<1>4. ASSUME NEW r \in sentRequests'
      PROVE  \E i \in 1..Len(wire') : IsRequest(i)' /\ wire'[i] = r
  <2>1. CASE r \in sentRequests
    <3>1. PICK i \in 1..Len(wire) : IsRequest(i) /\ wire[i] = r
      BY <1>1, <2>1 DEF OpenInv
    <3> QED
      BY <1>2, <3>1 DEF IsRequest
  <2>2. CASE \E k \in 1..Len(new) : new[k] = r /\ r.kind = "request"
    BY <1>2, <2>2 DEF IsRequest
  <2> QED
    BY <1>1, <1>4, <2>1, <2>2 DEF KeepsStep
<1> QED
  BY <1>3, <1>4

-----------------------------------------------------------------------------
(* What the server's steps leave of the playback.                          *)

\* The server accepted request m.
Taken(m) ==
    /\ Len(inbox') = Len(inbox) + 1
    /\ \A c \in 1..Len(inbox) : inbox'[c] = inbox[c]
    /\ inbox'[Len(inbox')].method = m.head
    /\ link # "closed"

\* The server takes d messages from the channel, none or one.
Takes(d) ==
    /\ d \in {0, 1}
    /\ Len(toServer) \in Nat
    /\ Len(toServer') = Len(toServer) - d
    /\ \A i \in 1..Len(toServer') : i + d \in 1..Len(toServer) /\ toServer'[i] = toServer[i + d]
    /\ \A i \in 1..Len(toServer) : i > d => i - d \in 1..Len(toServer') /\ toServer'[i - d] = toServer[i]
    /\ d = 1 => 1 \in 1..Len(toServer)

ServerTurn(new, d) ==
    /\ PlayStep(new)
    /\ Takes(d)
    /\ UNCHANGED <<receiver, playing, session, recordRequestCSeq, offered, given,
                   pending, cseq, clientLink, heard>>
    /\ link' # "closed" => link # "closed"
    /\ \/ link' = "closed" /\ inbox' = inbox
       \/ inbox' = inbox /\ (d = 1 => Told(1))
       \/ d = 1 /\ Asked(1) /\ Taken(toServer[1])

LEMMA AcceptTakes ==
    ASSUME TypeOK, NEW m, NEW s, NEW body, Accept(m.head, s, body)
    PROVE  Taken(m)
BY AcceptGrows DEF Taken, Accept, CanReceive

LEMMA ReceivedRequest ==
    ASSUME TypeOK, NEW m, m.kind = "request", ServerHandles(m)
    PROVE  /\ (link' = "closed" /\ inbox' = inbox) \/ Taken(m)
           /\ link' # "closed" => link # "closed"
<1>1. CASE Reject
  BY <1>1 DEF Reject, Close
<1>2. CASE \E s, body : Accept(m.head, s, body)
  <2>1. Taken(m)
    BY <1>2, AcceptTakes
  <2> QED
    BY <2>1 DEF Taken
<1>3. Reject \/ \E s, body : Accept(m.head, s, body)
  BY DEF ServerHandles, onOptionsRequest, onDescribeRequest, onSubscribeRequest,
         onPlayRequest, onSetupRequest
<1> QED
  BY <1>1, <1>2, <1>3

LEMMA ReceivesTurn ==
    ASSUME TypeOK, PlayTypeOK, PlaySteps, ServerReceives
    PROVE  \E new : ServerTurn(new, 1)
<1>1. /\ link # "closed" /\ toServer # <<>>
      /\ ServerHandles(toServer[1])
      /\ toServer' = Tail(toServer)
      /\ UNCHANGED <<receiver, playing, session, recordRequestCSeq, offered, given,
                     pending, cseq, clientLink, heard>>
  BY HeadMessage DEF ServerReceives
<1>2. Takes(1)
  BY <1>1, HeadMessage DEF Takes
<1>3. PICK new : PlayStep(new)
  BY DEF PlaySteps
<1>4. CASE toServer[1].kind = "request"
  BY <1>1, <1>2, <1>3, <1>4, ReceivedRequest DEF ServerTurn, Asked
<1>5. CASE toServer[1].kind = "response"
  <2>1. inbox' = inbox
    BY <1>1, <1>5 DEF ServerHandles, handleResponse, Close
  <2> QED
    BY <1>1, <1>2, <1>3, <1>5, <2>1 DEF ServerTurn, Told
<1> QED
  BY <1>1, <1>4, <1>5 DEF ServerHandles

LEMMA OwnStepTurn ==
    ASSUME PlayTypeOK, PlaySteps, ServerOwnStep
    PROVE  \E new : ServerTurn(new, 0)
<1>1. UNCHANGED <<receiver, playing, session, recordRequestCSeq, offered, given,
                  pending, cseq, clientLink, heard, toServer>>
  BY DEF ServerOwnStep, clientVars
<1>2. Takes(0)
  <2>1. toServer' = toServer /\ Len(toServer) \in Nat
    BY <1>1 DEF PlayTypeOK
  <2> QED
    BY <2>1 DEF Takes
<1>3. PICK new : PlayStep(new)
  BY DEF PlaySteps
<1>4. inbox' = inbox /\ (link' # "closed" => link # "closed")
  <2>1. ASSUME NEW s \in SessionId, PeerCallback(s)
        PROVE  inbox' = inbox /\ (link' # "closed" => link # "closed")
    BY <2>1 DEF PeerCallback, PreparedWithoutSdp, streamerPrepared, recorderPrepared,
                InitialRequestAnswered, recordToClientStreamerPrepared, iceCandidate, eos,
                LateCallback, disconnect
  <2> QED
    BY <2>1 DEF ServerOwnStep, Writeable, ConnectionLost, Close
<1> QED
  BY <1>1, <1>2, <1>3, <1>4 DEF ServerTurn

\* What the client has heard stays, and what it was an answer to.
LEMMA HeardKept ==
    ASSUME TypeOK, TypeOK', AnswerInv, PlayTypeOK, heard' = heard, NEW new, Grows(new)
    PROVE  /\ heard \in Nat /\ heard' <= Len(wire')
           /\ \A j \in 1..heard : j \in 1..Len(wire) /\ wire'[j] = wire[j]
           /\ \A s : Heard(s)' <=> Heard(s)
           /\ \A j \in 1..heard : Records(j)' <=> Records(j)
           /\ \A j \in 1..heard : \A s : Announces(j, s)' => Announces(j, s)
<1>1. heard \in 0..Len(wire) /\ heard' = heard
  BY DEF PlayTypeOK
<1>2. /\ Len(wire) \in Nat /\ Len(wire') \in Nat /\ Len(wire) <= Len(wire')
      /\ \A j \in 1..Len(wire) : wire'[j] = wire[j] /\ wire[j].cseq \in Nat
      /\ Len(inbox) \in Nat
      /\ \A c \in 1..Len(inbox) : inbox'[c] = inbox[c]
  BY PastKept
<1>3. \A j \in 1..heard : j \in 1..Len(wire) /\ wire'[j] = wire[j]
  BY <1>1, <1>2
<1>4. ASSUME NEW s
      PROVE  Heard(s)' <=> Heard(s)
  BY <1>1, <1>3 DEF Heard
<1>5. \A j \in 1..heard : Records(j)' <=> Records(j)
  BY <1>3 DEF Records, IsRequest
<1>6. ASSUME NEW j \in 1..heard, NEW s, Announces(j, s)'
      PROVE  Announces(j, s)
  <2>1. IsAnnouncement(wire[j], s, inbox')
    BY <1>3, <1>6 DEF Announces, IsAnnouncement
  <2>2. wire[j].kind = "response" => wire[j].cseq <= Len(inbox)
    BY <1>3 DEF AnswerInv, IsResponse
  <2>3. wire[j].kind = "response" /\ wire[j].cseq \in 1..Len(inbox')
            => wire[j].cseq \in 1..Len(inbox)
    BY <1>2, <1>3, <2>2
  <2>4. wire[j].cseq \in 1..Len(inbox) => inbox'[wire[j].cseq] = inbox[wire[j].cseq]
    BY <1>2
  <2> QED
    BY <2>1, <2>3, <2>4 DEF Announces, IsAnnouncement
<1> QED
  BY <1>1, <1>2, <1>3, <1>4, <1>5, <1>6

\* The next request to be read is the one the server will number.
LEMMA HeadIsNext ==
    ASSUME TypeOK, PlayTypeOK, ChannelInv, link # "closed", 1 \in 1..Len(toServer), Asked(1)
    PROVE  toServer[1].cseq = Len(inbox) + 1
<1>1. /\ Len(inbox) \in Nat /\ cseq \in Nat /\ Len(toServer) \in Nat
      /\ toServer[1].cseq \in (Len(inbox) + 1)..(cseq - 1)
  BY DEF TypeOK, PlayTypeOK, ChannelInv
<1> DEFINE c == Len(inbox) + 1
<1>2. c \in (Len(inbox) + 1)..(cseq - 1)
  BY <1>1
<1>3. CASE \E i \in 1..Len(toServer) : Asked(i) /\ toServer[i].cseq = c
  <2>1. PICK i \in 1..Len(toServer) : Asked(i) /\ toServer[i].cseq = c
    BY <1>3
  <2>2. i > 1 => toServer[1].cseq < toServer[i].cseq
    BY <2>1 DEF ChannelInv
  <2> QED
    BY <1>1, <2>1, <2>2
<1>4. CASE \A i \in 1..Len(toServer) : Asked(i) => toServer[i].cseq < c
  BY <1>1, <1>4
<1> QED
  BY <1>2, <1>3, <1>4 DEF ChannelInv

LEMMA ChannelTurn ==
    ASSUME TypeOK, TypeOK', AnswerInv, PlayTypeOK, ChannelInv, NEW new, NEW d, ServerTurn(new, d)
    PROVE  ChannelInv'
<1>1. /\ Takes(d) /\ cseq' = cseq /\ clientLink' = clientLink /\ heard' = heard
      /\ Grows(new) /\ (link' # "closed" => link # "closed")
  BY DEF ServerTurn, PlayStep, SpeaksStep
<1>2. /\ Len(inbox) \in Nat /\ Len(inbox') \in Nat /\ cseq \in Nat /\ Len(toServer) \in Nat
      /\ d \in {0, 1} /\ Len(toServer') \in Nat
  BY <1>1 DEF TypeOK, PlayTypeOK, Takes
<1>3. \A s : Heard(s)' <=> Heard(s)
  BY <1>1, HeardKept
<1>4. \A i \in 1..Len(toServer') : /\ i + d \in 1..Len(toServer)
                                   /\ toServer'[i] = toServer[i + d]
                                   /\ Asked(i)' <=> Asked(i + d)
  BY <1>1 DEF Takes, Asked
<1>5. \A i, j \in 1..Len(toServer') :
          i < j /\ Asked(i)' /\ Asked(j)' => toServer'[i].cseq < toServer'[j].cseq
  <2> SUFFICES ASSUME NEW i \in 1..Len(toServer'), NEW j \in 1..Len(toServer'),
                      i < j, Asked(i)', Asked(j)'
               PROVE  toServer'[i].cseq < toServer'[j].cseq
    OBVIOUS
  <2>1. /\ i + d \in 1..Len(toServer) /\ toServer'[i] = toServer[i + d] /\ Asked(i + d)
        /\ j + d \in 1..Len(toServer) /\ toServer'[j] = toServer[j + d] /\ Asked(j + d)
    BY <1>4
  <2>2. i + d < j + d
    BY <1>2
  <2> QED
    BY <2>1, <2>2 DEF ChannelInv
<1>6. \A i \in 1..Len(toServer') :
          Asked(i)' /\ toServer'[i].head \in {"SETUP", "PLAY"} =>
              toServer'[i].session # NoId /\ Heard(toServer'[i].session)
  <2>1. \A i \in 1..Len(toServer) : Asked(i) /\ toServer[i].head \in {"SETUP", "PLAY"} =>
            toServer[i].session # NoId /\ Heard(toServer[i].session)
    BY DEF ChannelInv
  <2> QED
    BY <1>4, <2>1
<1>7. ASSUME NEW i \in 1..Len(toServer'), Asked(i)'
      PROVE  toServer'[i].cseq \in (Len(inbox) + 1)..(cseq - 1)
  BY <1>4, <1>7 DEF ChannelInv
<1>8. ASSUME link' # "closed", NEW c \in (Len(inbox) + 1)..(cseq - 1)
      PROVE  \/ \E i \in 1..Len(toServer) : Asked(i) /\ toServer[i].cseq = c
             \/ /\ clientLink # "open"
                /\ \A i \in 1..Len(toServer') : Asked(i)' => toServer'[i].cseq < c
  <2>1. CASE \A i \in 1..Len(toServer) : Asked(i) => toServer[i].cseq < c
    BY <1>1, <1>4, <1>8, <2>1 DEF ChannelInv
  <2> QED
    BY <1>1, <1>8, <2>1 DEF ChannelInv
<1>9. CASE d = 1 /\ Asked(1) /\ Taken(toServer[1])
  <2>1. /\ toServer[1].cseq = Len(inbox) + 1 /\ Len(inbox') = Len(inbox) + 1
        /\ 1 \in 1..Len(toServer)
    BY <1>1, <1>9, HeadIsNext DEF Taken, Takes
  <2>2. Len(inbox') < cseq
    <3>1. toServer[1].cseq \in (Len(inbox) + 1)..(cseq - 1)
      BY <1>9, <2>1 DEF ChannelInv
    <3> QED
      BY <1>2, <2>1, <3>1
  <2>3. ASSUME NEW i \in 1..Len(toServer'), Asked(i)'
        PROVE  toServer'[i].cseq \in (Len(inbox') + 1)..(cseq - 1)
    <3>1. toServer[1].cseq < toServer[i + 1].cseq
      BY <1>2, <1>4, <1>9, <2>1, <2>3 DEF ChannelInv
    <3> QED
      BY <1>2, <1>4, <1>7, <1>9, <2>1, <2>3, <3>1
  <2>4. ASSUME link' # "closed", NEW c \in (Len(inbox') + 1)..(cseq - 1)
        PROVE  \/ \E i \in 1..Len(toServer') : Asked(i)' /\ toServer'[i].cseq = c
               \/ /\ clientLink # "open"
                  /\ \A i \in 1..Len(toServer') : Asked(i)' => toServer'[i].cseq < c
    <3>1. c \in (Len(inbox) + 1)..(cseq - 1) /\ c # toServer[1].cseq
      BY <1>2, <2>1
    <3>2. ASSUME NEW i \in 1..Len(toServer), Asked(i), toServer[i].cseq = c
          PROVE  \E h \in 1..Len(toServer') : Asked(h)' /\ toServer'[h].cseq = c
      <4>1. i > d
        BY <1>9, <3>1, <3>2
      <4>2. i - d \in 1..Len(toServer') /\ toServer'[i - d] = toServer[i]
        BY <1>1, <4>1 DEF Takes
      <4> QED
        BY <3>2, <4>2 DEF Asked
    <3> QED
      BY <1>8, <2>4, <3>1, <3>2
  <2> QED
    BY <1>1, <1>3, <1>5, <1>6, <2>2, <2>3, <2>4 DEF ChannelInv
<1>10. CASE inbox' = inbox
  <2>1. CASE link' = "closed"
    BY <1>1, <1>3, <1>5, <1>6, <1>7, <1>10, <2>1 DEF ChannelInv
  <2>2. CASE link' # "closed"
    <3>1. \A i \in 1..d : ~Asked(i)
      BY <1>2, <1>10, <2>2 DEF ServerTurn, Taken, Asked, Told
    <3>2. ASSUME NEW c \in (Len(inbox) + 1)..(cseq - 1),
                 NEW i \in 1..Len(toServer), Asked(i), toServer[i].cseq = c
          PROVE  \E h \in 1..Len(toServer') : Asked(h)' /\ toServer'[h].cseq = c
      <4>1. i > d
        BY <1>2, <3>1, <3>2
      <4>2. i - d \in 1..Len(toServer') /\ toServer'[i - d] = toServer[i]
        BY <1>1, <4>1 DEF Takes
      <4> QED
        BY <3>2, <4>2 DEF Asked
    <3>3. ASSUME NEW c \in (Len(inbox) + 1)..(cseq - 1)
          PROVE  \/ \E i \in 1..Len(toServer') : Asked(i)' /\ toServer'[i].cseq = c
                 \/ /\ clientLink # "open"
                    /\ \A i \in 1..Len(toServer') : Asked(i)' => toServer'[i].cseq < c
      BY <1>8, <2>2, <3>2
    <3> QED
      BY <1>1, <1>3, <1>5, <1>6, <1>7, <1>10, <3>3 DEF ChannelInv
  <2> QED
    BY <2>1, <2>2
<1> QED
  BY <1>9, <1>10 DEF ServerTurn

LEMMA PendingTurn ==
    ASSUME TypeOK, TypeOK', PlayTypeOK, ChannelInv, PendingInv,
           NEW new, NEW d, ServerTurn(new, d)
    PROVE  PendingInv'
<1>1. /\ Takes(d) /\ Grows(new)
      /\ UNCHANGED <<pending, cseq, clientLink>>
  BY DEF ServerTurn, PlayStep, SpeaksStep
<1>2. /\ Len(inbox) \in Nat /\ Len(inbox') \in Nat
      /\ \A c \in 1..Len(inbox) : inbox'[c] = inbox[c]
  BY <1>1, PastKept
<1> SUFFICES ASSUME clientLink = "open"
             PROVE  PendingInv'
  BY <1>1 DEF PendingInv
<1>3. /\ \A r \in pending : r.cseq \in 1..(cseq - 1)
      /\ \A r, q \in pending : r.cseq = q.cseq => r = q
  BY DEF PendingInv
<1>4. ASSUME NEW i \in 1..Len(toServer'), Asked(i)'
      PROVE  toServer'[i] \in pending
  <2>1. i + d \in 1..Len(toServer) /\ toServer'[i] = toServer[i + d]
    BY <1>1 DEF Takes
  <2> QED
    BY <1>4, <2>1 DEF PendingInv, Asked
<1>5. ASSUME NEW r \in pending, r.cseq <= Len(inbox')
      PROVE  inbox'[r.cseq].method = r.head
  <2>1. r.cseq \in Nat \ {0}
    BY <1>3 DEF PlayTypeOK
  <2>2. CASE r.cseq <= Len(inbox)
    <3>1. inbox[r.cseq].method = r.head
      BY <2>2 DEF PendingInv
    <3> QED
      BY <1>2, <2>1, <2>2, <3>1
  <2>3. CASE ~(r.cseq <= Len(inbox))
    <3>1. d = 1 /\ Asked(1) /\ Taken(toServer[1]) /\ 1 \in 1..Len(toServer)
      BY <1>1, <1>2, <1>5, <2>1, <2>3 DEF ServerTurn, Takes
    <3>2. r.cseq = Len(inbox') /\ Len(inbox') = Len(inbox) + 1
      BY <1>2, <1>5, <2>1, <2>3, <3>1 DEF Taken
    <3>3. toServer[1].cseq = Len(inbox) + 1
      BY <3>1, HeadIsNext DEF Taken
    <3>4. r = toServer[1]
      BY <1>3, <3>1, <3>2, <3>3 DEF PendingInv
    <3> QED
      BY <3>1, <3>2, <3>4 DEF Taken
  <2> QED
    BY <2>2, <2>3
<1> QED
  BY <1>1, <1>3, <1>4, <1>5 DEF PendingInv

LEMMA PlayerTurn ==
    ASSUME TypeOK, TypeOK', AnswerInv, PlayTypeOK, PlayerInv, NEW new, NEW d, ServerTurn(new, d)
    PROVE  PlayerInv'
<1>1. /\ Grows(new)
      /\ UNCHANGED <<receiver, playing, session, recordRequestCSeq, pending, clientLink, heard>>
  BY DEF ServerTurn, PlayStep, SpeaksStep
<1>2. /\ \A s : Heard(s)' <=> Heard(s)
      /\ \A j \in 1..heard : wire'[j] = wire[j]
      /\ \A j \in 1..heard : Records(j)' <=> Records(j)
      /\ \A j \in 1..heard : \A s : Announces(j, s)' => Announces(j, s)
  BY <1>1, HeardKept
<1> SUFFICES ASSUME clientLink # "closed"
             PROVE  PlayerInv'
  BY <1>1 DEF PlayerInv
<1>3. /\ session = NoId => receiver = "created"
      /\ receiver = "created" =>
             /\ clientLink = "open" /\ ~playing /\ recordRequestCSeq = InvalidCSeq
             /\ \A r \in pending : r.head \notin {"SETUP", "PLAY"}
      /\ \A r \in pending : r.head \in {"OPTIONS", "DESCRIBE", "SUBSCRIBE"} =>
             session = NoId /\ pending = {r}
  BY DEF PlayerInv
<1>4. \A j \in 1..heard : wire'[j].session \in {NoId, session}
  BY <1>2 DEF PlayerInv
<1>5. session # NoId => Heard(session)
  BY DEF PlayerInv
<1>6. session # NoId => \A j \in 1..heard : \A s : s = session /\ Announces(j, s)' => receiver # "created"
  BY <1>2 DEF PlayerInv
<1>7. recordRequestCSeq # InvalidCSeq => \E j \in 1..heard :
          Records(j)' /\ wire'[j].cseq = recordRequestCSeq /\ wire'[j].session = session
  BY <1>2 DEF PlayerInv
<1>8. (session # NoId)' =>
          /\ Heard(session)'
          /\ \A j \in 1..heard' : Announces(j, session)' => receiver' # "created"
  <2>1. ASSUME NEW s, s = session, s # NoId
        PROVE  Heard(s)' /\ \A j \in 1..heard' : Announces(j, s)' => receiver' # "created"
    BY <1>1, <1>2, <1>5, <1>6, <2>1
  <2>2. session' = session
    BY <1>1
  <2> QED
    BY <2>1, <2>2
<1> QED
  BY <1>1, <1>3, <1>4, <1>7, <1>8 DEF PlayerInv

LEMMA AloneTurn ==
    ASSUME TypeOK, TypeOK', AnswerInv, IdsInv, PlayTypeOK, OpenInv, PlayerInv, AloneInv,
           NEW new, NEW d, ServerTurn(new, d)
    PROVE  AloneInv'
<1>1. /\ Grows(new) /\ SpeaksStep(new) /\ KeepsStep(new) /\ Takes(d)
      /\ UNCHANGED <<playing, session, clientLink, heard>>
  BY DEF ServerTurn, PlayStep, SpeaksStep
<1>2. /\ nextCSeq \in Nat /\ nextCSeq' \in Nat /\ nextCSeq <= nextCSeq'
      /\ Len(toServer) \in Nat /\ Len(toServer') \in Nat /\ d \in {0, 1}
      /\ toServer \in Seq(ClientsRequest \cup ClientsResponse)
  BY <1>1 DEF TypeOK, SpeaksStep, Takes, PlayTypeOK
<1>3. ASSUME NEW j \in 1..Len(toServer'), Told(j)'
      PROVE  /\ j + d \in 1..Len(toServer) /\ toServer'[j] = toServer[j + d] /\ Told(j + d)
             /\ toServer'[j].cseq < nextCSeq
             /\ toServer'[j].cseq \in Nat
  <2>1. j + d \in 1..Len(toServer) /\ toServer'[j] = toServer[j + d]
    BY <1>1 DEF Takes
  <2>2. Told(j + d)
    BY <1>3, <2>1 DEF Told
  <2>3. toServer[j + d] \in ClientsRequest \cup ClientsResponse
    BY <1>2, <2>1
  <2>4. toServer[j + d].cseq \in Nat
    BY <2>3 DEF ClientsRequest, ClientsResponse
  <2> QED
    BY <2>1, <2>2, <2>4 DEF AloneInv
<1>4. \A j \in 1..Len(toServer') : Told(j)' => toServer'[j].cseq < nextCSeq'
  BY <1>2, <1>3
<1>5. Connected' => Connected
  BY <1>1 DEF Connected, KeepsStep
<1>6. ASSUME Connected, NEW s \in SessionId,
             Live(s)', mediaSessions'[s].type = "Subscribe", mediaSessions'[s].playing
      PROVE  playing
  <2>1. GoesOn(s)
    BY <1>1, <1>6 DEF KeepsStep, Started
  <2>2. CASE mediaSessions[s].playing
    BY <1>6, <2>1, <2>2 DEF GoesOn, AloneInv
  <2>3. CASE Confirmed
    <3>1. 1 \in 1..Len(toServer) /\ Told(1)
      BY <2>3 DEF Confirmed
    <3>2. PICK r \in sentRequests : r.head = "RECORD" /\ r.cseq = toServer[1].cseq
      BY <2>3 DEF Confirmed
    <3>3. PICK i \in 1..Len(wire) : IsRequest(i) /\ wire[i] = r
      BY <1>6, <3>2 DEF OpenInv, Connected
    <3>4. Records(i) /\ wire[i].cseq = toServer[1].cseq
      BY <3>2, <3>3 DEF Records
    <3> QED
      BY <1>6, <3>1, <3>4 DEF AloneInv
  <2> QED
    BY <1>6, <2>1, <2>2, <2>3 DEF GoesOn
<1>7. ASSUME Connected, NEW j \in 1..Len(toServer'), NEW i \in 1..Len(wire'),
             Told(j)', Records(i)', wire'[i].cseq = toServer'[j].cseq
      PROVE  playing
  <2>1. CASE i \in 1..Len(wire)
    <3>1. wire'[i] = wire[i]
      BY <1>1, <2>1, PastKept
    <3>2. Records(i) /\ wire[i].cseq = toServer[j + d].cseq
      BY <1>3, <1>7, <3>1 DEF Records, IsRequest
    <3> QED
      BY <1>3, <1>7, <2>1, <3>2 DEF AloneInv
  <2>2. CASE i \notin 1..Len(wire)
    <3>0. /\ \A l \in 1..Len(wire') : l \in 1..Len(wire)
                                        \/ \E k \in 1..Len(new) : l = Len(wire) + k
          /\ \A k \in 1..Len(new) : wire'[Len(wire) + k] = new[k]
      BY <1>1, PastKept
    <3>1. PICK k \in 1..Len(new) : i = Len(wire) + k /\ wire'[i] = new[k]
      BY <2>2, <3>0
    <3>2. new[k].cseq \in nextCSeq..(nextCSeq' - 1)
      BY <1>1, <1>7, <3>1 DEF SpeaksStep, Fits, Records, IsRequest
    <3>3. toServer'[j].cseq < nextCSeq /\ toServer'[j].cseq \in Nat
      BY <1>3, <1>7
    <3>4. new[k].cseq = toServer'[j].cseq
      BY <1>7, <3>1
    <3> QED
      BY <1>2, <3>2, <3>3, <3>4
  <2> QED
    BY <2>1, <2>2
<1>8. ASSUME Connected, NEW s, s = session, Live(s)', mediaSessions'[s].type = "Describe", playing
      PROVE  mediaSessions'[s].playing
  <2>1. s # NoId
    BY <1>8 DEF Live, SessionId, NoId
  <2>2. Heard(s)
    BY <1>8, <2>1 DEF PlayerInv, Connected
  <2>3. Announced(s)
    BY <2>2 DEF Heard, Announced, PlayTypeOK
  <2>4. GoesOn(s)
    BY <1>1, <1>8, <2>3, NamedGoesOn
  <2>5. s \in SessionId
    BY <1>8 DEF Live
  <2>6. mediaSessions[s].playing
    BY <1>8, <2>4 DEF AloneInv, GoesOn
  <2> QED
    BY <2>4, <2>6 DEF GoesOn
<1>9. Connected' =>
          (Live(session) /\ mediaSessions[session].type = "Describe" /\ playing
               => mediaSessions[session].playing)'
  <2>1. session' = session /\ playing' = playing
    BY <1>1
  <2> QED
    BY <1>5, <1>8, <2>1 DEF Live
<1> QED
  BY <1>1, <1>4, <1>5, <1>6, <1>7, <1>9 DEF AloneInv

LEMMA AgreedTurn ==
    ASSUME TypeOK, TypeOK', PlayTypeOK, PlaySessionAgreed, NEW new, NEW d, ServerTurn(new, d)
    PROVE  PlaySessionAgreed'
<1>1. /\ Grows(new) /\ KeepsStep(new) /\ UNCHANGED <<session, clientLink, heard>>
  BY DEF ServerTurn, PlayStep, SpeaksStep
<1>2. heard \in 0..Len(wire) /\ Len(wire) \in Nat
  BY DEF PlayTypeOK, TypeOK
<1>3. Together' => Together /\ link' = "open"
  BY <1>1 DEF Together, Connected, KeepsStep
<1>4. ASSUME Together, link' = "open", NEW s, s = session, ~Live(s)'
      PROVE  \E i \in Ended(s)' : i > heard
  <2>1. CASE ~Live(s)
    <3>1. PICK i \in Ended(s) : i > heard
      BY <1>4, <2>1 DEF PlaySessionAgreed
    <3>2. i \in Ended(s)'
      BY <1>1, EndsKept
    <3> QED
      BY <3>1, <3>2
  <2>2. CASE Live(s)
    <3>1. PICK k \in 1..Len(new) : new[k].session = s /\ EndsSession(new[k], inbox')
      BY <1>1, <1>4, <2>2 DEF KeepsStep, Live
    <3>2. Len(wire) + k \in Ended(s)'
      BY <1>1, <3>1, EndsKept
    <3>3. Len(wire) + k > heard
      BY <1>2
    <3> QED
      BY <3>2, <3>3
  <2> QED
    BY <2>1, <2>2
<1>5. ASSUME Together'
      PROVE  ~Live(session)' => \E i \in Ended(session)' : i > heard'
  <2>1. session' = session /\ heard' = heard
    BY <1>1
  <2>2. ASSUME NEW s, s = session'
        PROVE  ~Live(s)' => \E i \in Ended(s)' : i > heard'
    BY <1>3, <1>4, <1>5, <2>1, <2>2
  <2> QED
    BY <2>2
<1> QED
  BY <1>5 DEF PlaySessionAgreed

LEMMA PlayTypeTurn ==
    ASSUME TypeOK, TypeOK', AnswerInv, PlayTypeOK, NEW new, NEW d, ServerTurn(new, d),
           ServerReceives \/ ServerOwnStep
    PROVE  PlayTypeOK'
<1>1. Grows(new) /\ heard' = heard
  BY DEF ServerTurn, PlayStep, SpeaksStep
<1>2. heard' \in 0..Len(wire')
  <2>1. Len(wire') \in Nat
    BY DEF TypeOK
  <2> QED
    BY <1>1, <2>1, HeardKept
<1>3. toServer' \in Seq(ClientsRequest \cup ClientsResponse) /\ applied' \in [SessionId -> Seq(Nat)]
  <2>1. CASE ServerReceives
    <3>1. PICK m \in ClientsRequest \cup ClientsResponse : m = Head(toServer)
      BY <2>1, HeadMessage DEF ServerReceives
    <3>2. m.body \in Seq(Nat)
      BY DEF ClientsRequest, ClientsResponse
    <3>3. applied' \in {applied, [applied EXCEPT ![m.session] = @ \o m.body]}
      BY <2>1, <3>1 DEF ServerReceives
    <3>4. \A q \in Seq(Nat) : q \o m.body \in Seq(Nat)
      BY <3>2
    <3>5. applied' \in [SessionId -> Seq(Nat)]
      BY <3>3, <3>4 DEF PlayTypeOK
    <3> QED
      BY <2>1, <3>5, HeadMessage DEF ServerReceives
  <2>2. CASE ServerOwnStep
    BY <2>2 DEF ServerOwnStep, clientVars, PlayTypeOK
  <2> QED
    BY <2>1, <2>2
<1> QED
  BY <1>2, <1>3 DEF PlayTypeOK, ServerTurn

-----------------------------------------------------------------------------
(* What a step of the client does.                                         *)

\* The requests that the message being read answers.
JustAnswered ==
    {r \in pending : /\ heard' = heard + 1
                     /\ IsResponse(heard + 1) /\ wire[heard + 1].cseq = r.cseq}

Listens ==
    /\ toServer' = toServer
    /\ cseq' = cseq
    /\ pending' = pending \ JustAnswered

\* The client makes request q, of a session it has heard of.
Makes(q) ==
    /\ q \in ClientsRequest
    /\ q.cseq = cseq
    /\ q.head \in {"SETUP", "PLAY"} =>
           q.session # NoId /\ \E j \in 1..heard' : wire[j].session = q.session
    /\ toServer' = Append(toServer, q)
    /\ cseq' = cseq + 1
    /\ pending' = (pending \ JustAnswered) \cup {q}

\* The client answers with q a request it has read, a RECORD when it plays.
Replies(q) ==
    /\ q \in ClientsResponse
    /\ \E j \in 1..heard' : /\ IsRequest(j) /\ wire[j].cseq = q.cseq
                            /\ Records(j) => playing'
    /\ toServer' = Append(toServer, q)
    /\ cseq' = cseq
    /\ pending' = pending \ JustAnswered

ClientTurn ==
    /\ UNCHANGED <<vars, applied>>
    /\ heard' \in {heard, heard + 1} /\ heard' <= Len(wire)
    /\ \/ clientLink' # "open" /\ toServer' = toServer /\ cseq' \in {cseq, cseq + 1}
       \/ /\ clientLink' = "open" /\ clientLink = "open"
          /\ Listens \/ \E q : Makes(q) \/ Replies(q)

\* The client's own variables have their types still.
PlayerType ==
    /\ receiver' \in {"none", "created", "preparing", "prepared"}
    /\ playing' \in BOOLEAN
    /\ session' \in Nat
    /\ recordRequestCSeq' \in Nat
    /\ offered' \in Nat
    /\ given' \in Seq(Nat)
    /\ pending' \subseteq ClientsRequest
    /\ clientLink' \in {"open", "terminating", "closed"}

\* What the wire and the server's side say does not change with the client.
LEMMA WireUnmoved ==
    ASSUME UNCHANGED vars
    PROVE  /\ \A s : Live(s)' <=> Live(s)
           /\ \A s : Announced(s)' <=> Announced(s)
           /\ \A s : Ended(s)' = Ended(s)
           /\ \A i, s : Ends(i, s)' <=> Ends(i, s)
           /\ \A i : (IsRequest(i)' <=> IsRequest(i)) /\ (IsResponse(i)' <=> IsResponse(i))
           /\ wire' = wire /\ inbox' = inbox /\ link' = link
           /\ mediaSessions' = mediaSessions /\ sentRequests' = sentRequests
           /\ nextCSeq' = nextCSeq
BY DEF vars, Live, Announced, Ended, Ends, IsRequest, IsResponse

LEMMA HeardGrows ==
    ASSUME TypeOK, PlayTypeOK, ClientTurn
    PROVE  /\ heard \in Nat /\ heard' \in Nat /\ heard' \in 0..Len(wire)
           /\ heard' = heard \/ heard' = heard + 1
           /\ heard \in 0..Len(wire) /\ Len(wire) \in Nat
           /\ \A s : Heard(s) => Heard(s)'
<1>1. /\ heard \in Nat /\ Len(wire) \in Nat /\ heard' \in Nat
      /\ heard' = heard \/ heard' = heard + 1
      /\ heard' <= Len(wire)
      /\ \A j \in 1..heard : j \in 1..heard'
  BY DEF TypeOK, PlayTypeOK, ClientTurn
<1>2. wire' = wire
  BY DEF ClientTurn, vars
<1>3. ASSUME NEW s, Heard(s)
      PROVE  Heard(s)'
  BY <1>1, <1>2, <1>3 DEF Heard
<1> QED
  BY <1>1, <1>3 DEF PlayTypeOK

\* A message joins the channel at its end.
LEMMA ChannelGrows ==
    ASSUME PlayTypeOK, NEW q \in ClientsRequest \cup ClientsResponse,
           toServer' = Append(toServer, q)
    PROVE  /\ Len(toServer) \in Nat /\ Len(toServer') = Len(toServer) + 1
           /\ toServer' \in Seq(ClientsRequest \cup ClientsResponse)
           /\ \A i \in 1..Len(toServer) : i \in 1..Len(toServer') /\ toServer'[i] = toServer[i]
           /\ toServer'[Len(toServer')] = q
           /\ \A i \in 1..Len(toServer') : i \in 1..Len(toServer) \/ i = Len(toServer')
<1>1. toServer \in Seq(ClientsRequest \cup ClientsResponse)
  BY DEF PlayTypeOK
<1>2. /\ Len(toServer) \in Nat /\ Len(toServer') = Len(toServer) + 1
      /\ toServer' \in Seq(ClientsRequest \cup ClientsResponse)
      /\ \A i \in 1..Len(toServer) : toServer'[i] = toServer[i]
      /\ toServer'[Len(toServer) + 1] = q
  BY <1>1
<1> QED
  BY <1>2

LEMMA ClientTypeTurn ==
    ASSUME TypeOK, PlayTypeOK, ClientTurn, PlayerType
    PROVE  PlayTypeOK'
<1>0. applied' = applied
  BY DEF ClientTurn
<1>1. heard' \in 0..Len(wire')
  BY HeardGrows, WireUnmoved DEF ClientTurn
<1>2. cseq' \in Nat \ {0}
  BY DEF PlayTypeOK, ClientTurn, Listens, Makes, Replies
<1>3. toServer' \in Seq(ClientsRequest \cup ClientsResponse)
  <2>1. CASE toServer' = toServer
    BY <2>1 DEF PlayTypeOK
  <2>2. CASE \E q : Makes(q) \/ Replies(q)
    BY <2>2, ChannelGrows DEF Makes, Replies
  <2> QED
    BY <2>1, <2>2 DEF ClientTurn, Listens
<1> QED
  BY <1>0, <1>1, <1>2, <1>3 DEF PlayTypeOK, PlayerType

LEMMA ClientChannelTurn ==
    ASSUME TypeOK, PlayTypeOK, ChannelInv, ClientTurn
    PROVE  ChannelInv'
<1>1. /\ inbox' = inbox /\ link' = link
      /\ \A s : Heard(s) => Heard(s)'
      /\ Len(inbox) \in Nat /\ cseq \in Nat /\ Len(toServer) \in Nat
      /\ cseq' \in {cseq, cseq + 1}
      /\ Len(inbox) < cseq
  BY WireUnmoved, HeardGrows
  DEF ClientTurn, TypeOK, PlayTypeOK, ChannelInv, Listens, Makes, Replies
<1>2. \A i \in 1..Len(toServer) : Asked(i) =>
          /\ toServer[i].cseq \in (Len(inbox) + 1)..(cseq - 1)
          /\ toServer[i].head \in {"SETUP", "PLAY"} =>
                 toServer[i].session # NoId /\ Heard(toServer[i].session)
  BY DEF ChannelInv
<1>3. \A i, j \in 1..Len(toServer) :
          i < j /\ Asked(i) /\ Asked(j) => toServer[i].cseq < toServer[j].cseq
  BY DEF ChannelInv
<1>4. CASE toServer' = toServer /\ (clientLink' = "open" => cseq' = cseq /\ clientLink = "open")
  <2>1. \A i \in 1..Len(toServer') : /\ i \in 1..Len(toServer) /\ toServer'[i] = toServer[i]
                                     /\ Asked(i)' <=> Asked(i)
    BY <1>4 DEF Asked
  <2>2. ASSUME link' # "closed", NEW c \in (Len(inbox) + 1)..(cseq' - 1)
        PROVE  \/ \E i \in 1..Len(toServer') : Asked(i)' /\ toServer'[i].cseq = c
               \/ /\ clientLink' # "open"
                  /\ \A i \in 1..Len(toServer') : Asked(i)' => toServer'[i].cseq < c
    <3>1. CASE c \in (Len(inbox) + 1)..(cseq - 1)
      <4>1. \/ \E i \in 1..Len(toServer) : Asked(i) /\ toServer[i].cseq = c
            \/ /\ clientLink # "open"
               /\ \A i \in 1..Len(toServer) : Asked(i) => toServer[i].cseq < c
        BY <1>1, <2>2, <3>1 DEF ChannelInv
      <4> QED
        BY <1>4, <2>1, <4>1 DEF Asked
    <3>2. CASE c = cseq
      <4>1. clientLink' # "open"
        <5>1. cseq' # cseq
          <6>1. c \in (Len(inbox) + 1)..(cseq' - 1) /\ cseq \in Nat /\ Len(inbox) \in Nat
            BY <1>1, <2>2
          <6>2. SUFFICES ASSUME cseq' = cseq PROVE FALSE
            OBVIOUS
          <6>3. c \in (Len(inbox) + 1)..(cseq - 1)
            BY <6>1, <6>2
          <6> QED
            BY <3>2, <6>1, <6>3
        <5> QED
          BY <1>4, <5>1
      <4>2. \A i \in 1..Len(toServer) : Asked(i) => toServer[i].cseq < c
        BY <1>1, <1>2, <3>2
      <4> QED
        BY <2>1, <4>1, <4>2
    <3> QED
      BY <1>1, <2>2, <3>1, <3>2
  <2>3. ASSUME NEW i \in 1..Len(toServer'), Asked(i)'
        PROVE  /\ toServer'[i].cseq \in (Len(inbox) + 1)..(cseq' - 1)
               /\ toServer'[i].head \in {"SETUP", "PLAY"} =>
                      toServer'[i].session # NoId /\ Heard(toServer'[i].session)
    BY <1>1, <1>2, <2>1, <2>3
  <2>4. \A i \in 1..Len(toServer') : Asked(i)' =>
            /\ toServer'[i].cseq \in (Len(inbox') + 1)..(cseq' - 1)
            /\ toServer'[i].head \in {"SETUP", "PLAY"} =>
                   toServer'[i].session # NoId /\ Heard(toServer[i].session)'
    BY <1>1, <1>4, <2>3
  <2>5. \A i, j \in 1..Len(toServer') :
            i < j /\ Asked(i)' /\ Asked(j)' => toServer'[i].cseq < toServer'[j].cseq
    BY <1>3, <2>1
  <2>6. Len(inbox') < cseq'
    BY <1>1
  <2>7. link' # "closed" => \A c \in (Len(inbox') + 1)..(cseq' - 1) :
            \/ \E i \in 1..Len(toServer') : Asked(i)' /\ toServer'[i].cseq = c
            \/ /\ clientLink' # "open"
               /\ \A i \in 1..Len(toServer') : Asked(i)' => toServer'[i].cseq < c
    BY <1>1, <2>2
  <2> QED
    BY <2>4, <2>5, <2>6, <2>7 DEF ChannelInv
<1>5. ASSUME NEW q \in ClientsRequest \cup ClientsResponse, toServer' = Append(toServer, q),
             clientLink = "open", clientLink' = "open",
             \/ Makes(q)
             \/ Replies(q)
      PROVE  ChannelInv'
  <2> DEFINE n == Len(toServer) + 1
  <2>1. /\ Len(toServer') = n
        /\ \A i \in 1..Len(toServer) : i \in 1..Len(toServer') /\ toServer'[i] = toServer[i]
        /\ toServer'[n] = q
        /\ \A i \in 1..Len(toServer') : i \in 1..Len(toServer) \/ i = n
    BY <1>5, ChannelGrows
  <2>2. \A i \in 1..Len(toServer) : Asked(i)' <=> Asked(i)
    BY <2>1 DEF Asked
  <2>3. q.kind = "request" => Makes(q)
    BY <1>5 DEF Replies, ClientsResponse, Makes
  <2>4. ASSUME NEW i \in 1..Len(toServer'), Asked(i)', NEW s, s = toServer'[i].session
        PROVE  /\ toServer'[i].cseq \in (Len(inbox') + 1)..(cseq' - 1)
               /\ toServer'[i].head \in {"SETUP", "PLAY"} => s # NoId /\ Heard(s)'
    <3>1. CASE i \in 1..Len(toServer)
      BY <1>1, <1>2, <2>1, <2>2, <2>4, <3>1
    <3>2. CASE i = n
      <4>1. toServer'[i] = q /\ Makes(q)
        BY <2>1, <2>3, <2>4, <3>2 DEF Asked
      <4>2. q.cseq = cseq /\ cseq' = cseq + 1
        BY <4>1 DEF Makes
      <4>3. q.head \in {"SETUP", "PLAY"} => s # NoId /\ Heard(s)'
        BY <2>4, <4>1, WireUnmoved DEF Makes, Heard, ClientTurn
      <4> QED
        BY <1>1, <4>1, <4>2, <4>3
    <3> QED
      BY <2>1, <3>1, <3>2
  <2>5. ASSUME NEW i \in 1..Len(toServer'), NEW j \in 1..Len(toServer'),
               i < j, Asked(i)', Asked(j)'
        PROVE  toServer'[i].cseq < toServer'[j].cseq
    <3>1. i \in 1..Len(toServer)
      BY <1>1, <2>1, <2>5
    <3>2. CASE j \in 1..Len(toServer)
      BY <1>3, <2>1, <2>2, <2>5, <3>1, <3>2
    <3>3. CASE j = n
      <4>1. toServer'[j] = q /\ Makes(q)
        BY <2>1, <2>3, <2>5, <3>3 DEF Asked
      <4>2. toServer'[j].cseq = cseq
        BY <4>1 DEF Makes
      <4>3. toServer'[i].cseq \in (Len(inbox) + 1)..(cseq - 1)
        BY <1>2, <2>1, <2>2, <2>5, <3>1
      <4> QED
        BY <1>1, <4>2, <4>3
    <3> QED
      BY <2>1, <3>2, <3>3
  <2>6. ASSUME link' # "closed", NEW c \in (Len(inbox') + 1)..(cseq' - 1)
        PROVE  \E i \in 1..Len(toServer') : Asked(i)' /\ toServer'[i].cseq = c
    <3>1. CASE c \in (Len(inbox) + 1)..(cseq - 1)
      <4>1. PICK i \in 1..Len(toServer) : Asked(i) /\ toServer[i].cseq = c
        BY <1>1, <1>5, <2>6, <3>1 DEF ChannelInv
      <4> QED
        BY <2>1, <2>2, <4>1
    <3>2. CASE c \notin (Len(inbox) + 1)..(cseq - 1)
      <4>1. c = cseq /\ cseq' = cseq + 1
        <5>1. c \in (Len(inbox) + 1)..(cseq' - 1)
          BY <1>1, <2>6
        <5>2. cseq' = cseq + 1
          BY <1>1, <3>2, <5>1
        <5> QED
          BY <1>1, <3>2, <5>1, <5>2
      <4>2. Makes(q)
        BY <1>1, <1>5, <4>1 DEF Replies
      <4>3. q.kind = "request" /\ q.cseq = c
        BY <4>1, <4>2 DEF Makes, ClientsRequest
      <4>4. n \in 1..Len(toServer')
        BY <1>1, <2>1
      <4>5. ASSUME NEW i \in 1..Len(toServer'), i = n
            PROVE  Asked(i)' /\ toServer'[i].cseq = c
        BY <2>1, <4>3, <4>5 DEF Asked
      <4> QED
        BY <4>4, <4>5
    <3> QED
      BY <3>1, <3>2
  <2>7. Len(inbox') < cseq'
    BY <1>1
  <2>8. \A i \in 1..Len(toServer') : Asked(i)' =>
            /\ toServer'[i].cseq \in (Len(inbox') + 1)..(cseq' - 1)
            /\ toServer'[i].head \in {"SETUP", "PLAY"} =>
                   toServer'[i].session # NoId /\ Heard(toServer[i].session)'
    BY <2>4
  <2> QED
    BY <2>5, <2>6, <2>7, <2>8 DEF ChannelInv
<1> QED
  BY <1>4, <1>5 DEF ClientTurn, Listens, Makes, Replies

\* The client makes request q: it is sent while the connection is open.
Asks(q, settled, method, s) ==
    /\ q \in ClientsRequest
    /\ q.head = method /\ q.session = s /\ q.cseq = cseq
    /\ cseq' = cseq + 1
    /\ pending' = (pending \ settled) \cup {q}
    /\ toServer' = IF clientLink = "open" THEN Append(toServer, q) ELSE toServer

LEMMA RequestMade ==
    ASSUME PlayTypeOK, NEW settled, NEW method \in ClientHeads, NEW s \in Nat,
           NEW body \in Seq(Nat), Client!RequestAfter(settled, method, s, body)
    PROVE  \E q : Asks(q, settled, method, s)
<1> DEFINE q == [kind |-> "request", head |-> method, cseq |-> cseq,
                 session |-> s, body |-> body]
<1>1. q \in ClientsRequest
  BY DEF PlayTypeOK, ClientsRequest
<1>2. /\ cseq' = cseq + 1
      /\ pending' = (pending \ settled) \cup {q}
      /\ toServer' = IF clientLink = "open" THEN toServer \o <<q>> ELSE toServer
  BY DEF Client!RequestAfter, Client!Send, Client!ClientMessage
<1>3. toServer \o <<q>> = Append(toServer, q)
  BY <1>1 DEF PlayTypeOK
<1>4. Asks(q, settled, method, s)
  BY <1>1, <1>2, <1>3 DEF Asks
<1> QED
  BY <1>4

LEMMA NothingAnswered ==
    ASSUME heard \in Nat, heard' = heard
    PROVE  JustAnswered = {}
BY DEF JustAnswered

LEMMA ClientPendingTurn ==
    ASSUME TypeOK, PlayTypeOK, AnswerInv, ChannelInv, PendingInv, ClientTurn
    PROVE  PendingInv'
<1> SUFFICES ASSUME clientLink' = "open"
             PROVE  PendingInv'
  BY DEF PendingInv
<1>1. /\ clientLink = "open"
      /\ wire' = wire /\ inbox' = inbox
      /\ heard' \in 0..Len(wire) /\ (heard' = heard \/ heard' = heard + 1)
      /\ heard \in Nat /\ Len(wire) \in Nat /\ Len(inbox) \in Nat /\ cseq \in Nat
      /\ Len(inbox) < cseq
  BY WireUnmoved, HeardGrows DEF ClientTurn, TypeOK, PlayTypeOK, ChannelInv
<1>2. /\ \A r \in pending : r.cseq \in 1..(cseq - 1)
      /\ \A r, q \in pending : r.cseq = q.cseq => r = q
      /\ \A i \in 1..Len(toServer) : Asked(i) => toServer[i] \in pending
      /\ \A r \in pending : r.cseq <= Len(inbox) => inbox[r.cseq].method = r.head
  BY <1>1 DEF PendingInv
<1> DEFINE kept == pending \ JustAnswered
<1>3. ASSUME NEW i \in 1..Len(toServer), Asked(i)
      PROVE  toServer[i] \in kept
  <2>1. toServer[i].cseq \in (Len(inbox) + 1)..(cseq - 1) /\ toServer[i] \in pending
    BY <1>2, <1>3 DEF ChannelInv
  <2>2. ASSUME toServer[i] \in JustAnswered
        PROVE  toServer[i].cseq <= Len(inbox)
    <3>1. heard + 1 \in 1..Len(wire) /\ IsResponse(heard + 1)
          /\ wire[heard + 1].cseq = toServer[i].cseq
      BY <1>1, <2>2 DEF JustAnswered
    <3> QED
      BY <3>1 DEF AnswerInv
  <2> QED
    BY <1>1, <2>1, <2>2
<1>4. CASE \E q : Makes(q)
  <2>1. PICK q : Makes(q)
    BY <1>4
  <2>2. /\ q \in ClientsRequest /\ toServer' = Append(toServer, q)
        /\ cseq' = cseq + 1 /\ q.cseq = cseq
        /\ pending' = kept \cup {q}
    BY <2>1 DEF Makes
  <2>3. ASSUME NEW i \in 1..Len(toServer'), Asked(i)'
        PROVE  toServer'[i] \in pending'
    <3>1. CASE i \in 1..Len(toServer)
      <4>1. toServer'[i] = toServer[i]
        BY <2>2, <3>1, ChannelGrows
      <4> QED
        BY <1>3, <2>2, <2>3, <3>1, <4>1 DEF Asked
    <3>2. CASE i \notin 1..Len(toServer)
      BY <2>2, <3>2, ChannelGrows
    <3> QED
      BY <3>1, <3>2
  <2>4. ASSUME NEW r \in pending'
        PROVE  /\ r.cseq \in 1..(cseq' - 1)
               /\ r.cseq <= Len(inbox') => inbox'[r.cseq].method = r.head
    <3>1. CASE r \in kept
      BY <1>1, <1>2, <2>2, <3>1
    <3>2. CASE r = q
      BY <1>1, <2>2, <3>2
    <3> QED
      BY <2>2, <3>1, <3>2
  <2>5. ASSUME NEW r \in pending', NEW t \in pending', r.cseq = t.cseq
        PROVE  r = t
    <3>1. ASSUME NEW u \in kept
          PROVE  u.cseq # cseq
      BY <1>1, <1>2
    <3> QED
      BY <1>2, <2>2, <2>5, <3>1
  <2> QED
    BY <2>3, <2>4, <2>5 DEF PendingInv
<1>5. CASE Listens \/ \E q : Replies(q)
  <2>1. pending' = kept /\ cseq' = cseq
    BY <1>5 DEF Listens, Replies
  <2>2. ASSUME NEW i \in 1..Len(toServer'), Asked(i)'
        PROVE  toServer'[i] \in pending'
    <3>1. CASE Listens
      BY <1>3, <2>1, <2>2, <3>1 DEF Listens, Asked
    <3>2. CASE \E q : Replies(q)
      <4>1. PICK q : q \in ClientsResponse /\ toServer' = Append(toServer, q)
        BY <3>2 DEF Replies
      <4>2. i \in 1..Len(toServer) /\ toServer'[i] = toServer[i]
        BY <2>2, <4>1, ChannelGrows DEF Asked, ClientsResponse
      <4> QED
        BY <1>3, <2>1, <2>2, <4>2 DEF Asked
    <3> QED
      BY <1>5, <3>1, <3>2
  <2> QED
    BY <1>1, <1>2, <2>1, <2>2 DEF PendingInv
<1> QED
  BY <1>1, <1>4, <1>5 DEF ClientTurn

LEMMA ClientAloneTurn ==
    ASSUME TypeOK, PlayTypeOK, WireInv, AloneInv, ClientTurn,
           clientLink' = "open" => (playing => playing'),
           Connected' => (Live(session) /\ mediaSessions[session].type = "Describe" /\ playing
                              => mediaSessions[session].playing)'
    PROVE  AloneInv'
<1>1. /\ wire' = wire /\ nextCSeq' = nextCSeq /\ mediaSessions' = mediaSessions
      /\ \A s : Live(s)' <=> Live(s)
      /\ \A i : IsRequest(i)' <=> IsRequest(i)
      /\ heard' \in 0..Len(wire) /\ Len(wire) \in Nat
      /\ nextCSeq \in Nat
  BY WireUnmoved, HeardGrows DEF ClientTurn, TypeOK
<1>2. Connected' => Connected /\ (playing => playing')
  BY WireUnmoved DEF ClientTurn, Connected
<1>3. \A i : Records(i)' <=> Records(i)
  BY <1>1 DEF Records
<1>4. /\ \A j \in 1..Len(toServer) : Told(j) => toServer[j].cseq < nextCSeq
      /\ Connected => \A j \in 1..Len(toServer), i \in 1..Len(wire) :
             Told(j) /\ Records(i) /\ wire[i].cseq = toServer[j].cseq => playing
      /\ Connected => \A s \in SessionId :
             Live(s) /\ mediaSessions[s].type = "Subscribe" /\ mediaSessions[s].playing
                 => playing
  BY DEF AloneInv
<1>5. ASSUME NEW j \in 1..Len(toServer'), Told(j)'
      PROVE  /\ toServer'[j].cseq < nextCSeq
             /\ Connected' => \A i \in 1..Len(wire) :
                    Records(i) /\ wire[i].cseq = toServer'[j].cseq => playing'
  <2>1. CASE j \in 1..Len(toServer) /\ toServer'[j] = toServer[j]
    <3>1. Told(j)
      BY <1>5, <2>1 DEF Told
    <3> QED
      BY <1>2, <1>4, <2>1, <3>1
  <2>2. CASE toServer' = toServer
    BY <2>1, <2>2
  <2>3. ASSUME NEW q, Makes(q)
        PROVE  j \in 1..Len(toServer) /\ toServer'[j] = toServer[j]
    <3>1. q \in ClientsRequest /\ toServer' = Append(toServer, q)
      BY <2>3 DEF Makes
    <3> QED
      BY <1>5, <3>1, ChannelGrows DEF Told, ClientsRequest
  <2>4. ASSUME NEW q, Replies(q), ~(j \in 1..Len(toServer) /\ toServer'[j] = toServer[j])
        PROVE  /\ toServer'[j].cseq < nextCSeq
               /\ \A i \in 1..Len(wire) :
                      Records(i) /\ wire[i].cseq = toServer'[j].cseq => playing'
    <3>1. q \in ClientsResponse /\ toServer' = Append(toServer, q)
      BY <2>4 DEF Replies
    <3>2. toServer'[j] = q
      BY <1>5, <2>4, <3>1, ChannelGrows
    <3>3. PICK k \in 1..heard' : /\ IsRequest(k) /\ wire[k].cseq = q.cseq
                                 /\ Records(k) => playing'
      BY <2>4 DEF Replies
    <3>4. k \in 1..Len(wire)
      BY <1>1
    <3>5. wire[k].cseq \in 1..(nextCSeq - 1)
      BY <3>3, <3>4 DEF WireInv
    <3>6. ASSUME NEW i \in 1..Len(wire), Records(i), wire[i].cseq = q.cseq
          PROVE  playing'
      <4>1. IsRequest(i) /\ wire[i].cseq = wire[k].cseq /\ wire[k].cseq \in Nat
        BY <3>3, <3>5, <3>6 DEF Records
      <4>2. ~(i < k) /\ ~(k < i)
        BY <3>3, <3>4, <4>1 DEF WireInv
      <4>3. i = k
        BY <1>1, <3>4, <4>2
      <4> QED
        BY <3>3, <3>6, <4>3
    <3> QED
      BY <1>1, <3>2, <3>3, <3>5, <3>6
  <2> QED
    BY <2>1, <2>2, <2>3, <2>4 DEF ClientTurn, Listens
<1>6. ASSUME Connected', NEW s \in SessionId,
             Live(s), mediaSessions[s].type = "Subscribe", mediaSessions[s].playing
      PROVE  playing'
  BY <1>2, <1>4, <1>6
<1>7. \A j \in 1..Len(toServer') : Told(j)' => toServer'[j].cseq < nextCSeq'
  BY <1>1, <1>5
<1>8. Connected' => \A j \in 1..Len(toServer'), i \in 1..Len(wire') :
          Told(j)' /\ Records(i)' /\ wire'[i].cseq = toServer'[j].cseq => playing'
  BY <1>1, <1>3, <1>5
<1>9. Connected' => \A s \in SessionId :
          Live(s)' /\ mediaSessions'[s].type = "Subscribe" /\ mediaSessions'[s].playing
              => playing'
  BY <1>1, <1>6
<1> QED
  BY <1>7, <1>8, <1>9 DEF AloneInv

\* What a step of the client has to keep besides the channel.
ClientKeeps ==
    /\ ClientTurn /\ PlayerType
    /\ PlayerInv' /\ ReceiverInv' /\ AloneInv' /\ PlaySessionAgreed'

LEMMA PlayInvType ==
    ASSUME PlayInv
    PROVE  /\ TypeOK /\ IdsInv /\ AnswerInv /\ PlayTypeOK /\ WireInv
           /\ heard \in 0..Len(wire) /\ heard \in Nat /\ Len(wire) \in Nat /\ heard <= Len(wire)
           /\ cseq \in Nat
           /\ \A i \in 1..Len(wire) : wire[i] \in Message /\ wire[i].session \in Nat
<1>1. TypeOK /\ IdsInv /\ AnswerInv /\ PlayTypeOK /\ WireInv
  BY DEF PlayInv, ServerInv
<1>2. \A i \in 1..Len(wire) : wire[i] \in Message
  BY <1>1 DEF TypeOK
<1> QED
  BY <1>1, <1>2 DEF TypeOK, PlayTypeOK, Message

LEMMA ClosesKeeps ==
    ASSUME PlayInv, UNCHANGED <<vars, applied>>,
           heard' \in {heard, heard + 1}, heard' <= Len(wire), Client!ClientClose
    PROVE  ClientKeeps
<1>1. /\ clientLink' = "closed" /\ receiver' = "none" /\ playing' = FALSE /\ session' = 0
      /\ recordRequestCSeq' = 0 /\ pending' = {}
      /\ UNCHANGED <<cseq, toServer, offered, given>>
  BY DEF Client!ClientClose, Client!NoSessionId, Client!InvalidCSeq
<1>2. TypeOK /\ PlayTypeOK /\ WireInv /\ AloneInv
  BY PlayInvType DEF PlayInv
<1>3. ClientTurn
  BY <1>1 DEF ClientTurn
<1>4. PlayerType
  BY <1>1, <1>2 DEF PlayerType, PlayTypeOK
<1>5. PlayerInv' /\ ReceiverInv' /\ PlaySessionAgreed' /\ ~Connected'
  BY <1>1 DEF PlayerInv, ReceiverInv, PlaySessionAgreed, Together, Connected
<1>6. AloneInv'
  BY <1>1, <1>2, <1>3, <1>5, ClientAloneTurn
<1> QED
  BY <1>3, <1>4, <1>5, <1>6 DEF ClientKeeps

\* A step that keeps the session: what is read is about it, and not its end.
LEMMA SameSessionKeeps ==
    ASSUME PlayInv, ClientTurn, PlayerType,
           clientLink # "closed", clientLink' # "closed", session # NoId, session' = session,
           playing => playing',
           playing' /\ Connected /\ Live(session) /\ mediaSessions[session].type = "Describe"
               => playing \/ mediaSessions[session].playing,
           receiver' = "created" =>
               /\ receiver = "created" /\ clientLink' = clientLink /\ playing' = playing
               /\ recordRequestCSeq' = recordRequestCSeq,
           \A r \in pending' : r \in pending
               \/ (r.head \in {"SETUP", "PLAY"} /\ receiver' # "created"),
           recordRequestCSeq' # InvalidCSeq => recordRequestCSeq' = recordRequestCSeq
               \/ \E j \in 1..heard' : /\ Records(j) /\ wire[j].cseq = recordRequestCSeq'
                                       /\ wire[j].session = session,
           heard' = heard + 1 =>
               /\ wire[heard + 1].session = session
               /\ Announces(heard + 1, session) => receiver' # "created"
               /\ clientLink' = "open" => ~Ends(heard + 1, session)
    PROVE  ClientKeeps
<1>1. /\ TypeOK /\ PlayTypeOK /\ WireInv /\ AloneInv /\ PlayerInv /\ PlaySessionAgreed
      /\ heard \in Nat /\ (heard' = heard \/ heard' = heard + 1)
      /\ heard' \in 0..Len(wire) /\ Len(wire) \in Nat
      /\ \A s : Heard(s) => Heard(s)'
  BY PlayInvType, HeardGrows DEF PlayInv
<1>2. /\ wire' = wire /\ inbox' = inbox /\ mediaSessions' = mediaSessions
      /\ \A s : Live(s)' <=> Live(s)
      /\ \A s : Ended(s)' = Ended(s)
      /\ \A i : IsRequest(i)' <=> IsRequest(i)
      /\ Connected' => Connected
  BY WireUnmoved DEF ClientTurn, Connected
<1>3. \A i : Records(i)' <=> Records(i)
  BY <1>2 DEF Records
<1>4. \A i, s : Announces(i, s)' <=> Announces(i, s)
  BY <1>2 DEF Announces
<1>5. ASSUME NEW j \in 1..heard', j \notin 1..heard
      PROVE  j = heard + 1 /\ heard' = heard + 1
  BY <1>1, <1>5
<1>6. /\ receiver = "created" =>
             /\ clientLink = "open" /\ ~playing /\ recordRequestCSeq = InvalidCSeq
             /\ \A r \in pending : r.head \notin {"SETUP", "PLAY"}
      /\ \A r \in pending : r.head \notin {"OPTIONS", "DESCRIBE", "SUBSCRIBE"}
      /\ \A j \in 1..heard : wire[j].session \in {NoId, session}
      /\ Heard(session)
      /\ \A j \in 1..heard : Announces(j, session) => receiver # "created"
      /\ recordRequestCSeq # InvalidCSeq => \E j \in 1..heard :
             Records(j) /\ wire[j].cseq = recordRequestCSeq /\ wire[j].session = session
  BY <1>1 DEF PlayerInv
<1>7. PlayerInv'
  <2>1. \A j \in 1..heard' : wire'[j].session \in {NoId, session'}
    BY <1>2, <1>5, <1>6
  <2>2. ASSUME NEW s, s = session
        PROVE  /\ Heard(s)'
               /\ \A j \in 1..heard' : Announces(j, s)' => receiver' # "created"
    BY <1>1, <1>4, <1>5, <1>6, <2>2
  <2>3. recordRequestCSeq' # InvalidCSeq => \E j \in 1..heard' :
            Records(j)' /\ wire'[j].cseq = recordRequestCSeq' /\ wire'[j].session = session'
    <3>1. \A j \in 1..heard : j \in 1..heard'
      BY <1>1
    <3> QED
      BY <1>2, <1>3, <1>6, <3>1
  <2>4. receiver' = "created" =>
             /\ clientLink' = "open" /\ ~playing' /\ recordRequestCSeq' = InvalidCSeq
             /\ \A r \in pending' : r.head \notin {"SETUP", "PLAY"}
    BY <1>6
  <2>5. \A r \in pending' : r.head \notin {"OPTIONS", "DESCRIBE", "SUBSCRIBE"}
    BY <1>6
  <2>6. session' # NoId => /\ Heard(session)'
                           /\ \A j \in 1..heard' : Announces(j, session)' => receiver' # "created"
    BY <2>2
  <2> QED
    BY <2>1, <2>3, <2>4, <2>5, <2>6 DEF PlayerInv
<1>8. PlaySessionAgreed'
  <2>1. ASSUME Connected', NEW s, s = session, ~Live(s)
        PROVE  \E i \in Ended(s) : i > heard'
    <3>1. PICK i \in Ended(s) : i > heard
      BY <1>1, <1>2, <2>1 DEF PlaySessionAgreed, Together, NoId, Client!NoSessionId
    <3>2. i \in Nat /\ Ends(i, s)
      BY <1>1 DEF Ended
    <3>3. ~(i = heard + 1 /\ heard' = heard + 1)
      BY <2>1, <3>2 DEF Connected
    <3> QED
      BY <1>1, <3>1, <3>2, <3>3
  <2>2. ASSUME Connected', NEW s, s = session, ~Live(s)'
        PROVE  \E i \in Ended(s)' : i > heard'
    BY <1>2, <2>1, <2>2
  <2>3. Connected' => (~Live(session)' => \E i \in Ended(session)' : i > heard')
    BY <2>2
  <2> QED
    BY <2>3 DEF PlaySessionAgreed, Together
<1>9. AloneInv'
  <2>1. ASSUME Connected', NEW s, s = session, Live(s), mediaSessions[s].type = "Describe",
               playing'
        PROVE  mediaSessions[s].playing
    BY <1>1, <1>2, <2>1 DEF AloneInv
  <2>2. Connected' => (Live(session)' /\ mediaSessions'[session'].type = "Describe" /\ playing'
                           => mediaSessions'[session'].playing)
    <3>1. ASSUME Connected', Live(session)', mediaSessions'[session'].type = "Describe", playing'
          PROVE  mediaSessions'[session'].playing
      <4>1. ASSUME NEW s, s = session', Live(s)'
            PROVE  Live(s)
        BY <1>2, <4>1
      <4>2. Live(session)
        BY <3>1, <4>1
      <4> QED
        BY <1>2, <2>1, <3>1, <4>2
    <3> QED
      BY <3>1
  <2> QED
    BY <1>1, <2>2, ClientAloneTurn
<1> QED
  BY <1>7, <1>8, <1>9 DEF ClientKeeps, ReceiverInv

-----------------------------------------------------------------------------
(* The receiver's callbacks, and what becomes of the connection.           *)

\* A receiver that prepares has a session.
LEMMA ReceiverHasSession ==
    ASSUME PlayInv, clientLink # "closed", receiver # "created"
    PROVE  session # NoId
BY DEF PlayInv, PlayerInv

LEMMA iceCandidateKeeps ==
    ASSUME PlayInv, clientLink # "closed", Client!iceCandidate, UNCHANGED <<vars, heard, applied>>
    PROVE  ClientKeeps
<1>1. /\ receiver # "created" /\ offered' = offered + 1
      /\ Client!ClientRequest("SETUP", session, <<offered + 1>>)
      /\ UNCHANGED <<receiver, playing, session, recordRequestCSeq, clientLink, given>>
  BY DEF Client!iceCandidate
<1>2. /\ TypeOK /\ PlayTypeOK /\ heard \in Nat /\ heard <= Len(wire)
      /\ session \in Nat /\ <<offered + 1>> \in Seq(Nat)
  BY PlayInvType DEF PlayTypeOK
<1>3. session # NoId
  BY <1>1, ReceiverHasSession
<1>4. PICK q : Asks(q, {}, "SETUP", session)
  BY <1>1, <1>2, RequestMade DEF Client!ClientRequest, ClientHeads
<1>5. /\ q \in ClientsRequest /\ q.head = "SETUP" /\ q.session = session /\ q.cseq = cseq
      /\ cseq' = cseq + 1
      /\ pending' = pending \cup {q}
      /\ toServer' = IF clientLink = "open" THEN Append(toServer, q) ELSE toServer
  BY <1>4 DEF Asks
<1>6. Heard(session)
  BY <1>3 DEF PlayInv, PlayerInv
<1>7. ClientTurn
  <2>1. CASE clientLink = "open"
    <3>1. Makes(q)
      BY <1>2, <1>3, <1>5, <1>6, <2>1, NothingAnswered DEF Makes, Heard
    <3> QED
      BY <1>1, <1>2, <2>1, <3>1 DEF ClientTurn
  <2>2. CASE clientLink # "open"
    BY <1>1, <1>2, <1>5, <2>2 DEF ClientTurn
  <2> QED
    BY <2>1, <2>2
<1>8. PlayerType
  BY <1>1, <1>2, <1>5 DEF PlayerType, PlayTypeOK
<1>9. heard' # heard + 1
  BY <1>2
<1> QED
  BY <1>1, <1>3, <1>5, <1>7, <1>8, <1>9, SameSessionKeeps

LEMMA eosKeeps ==
    ASSUME PlayInv, clientLink # "closed", Client!eos, UNCHANGED <<vars, heard, applied>>
    PROVE  ClientKeeps
<1>1. /\ receiver # "created"
      /\ UNCHANGED <<receiver, playing, session, recordRequestCSeq, offered, given,
                     pending, cseq, toServer>>
      /\ clientLink' = "terminating"
  BY PlayInvType DEF Client!eos, Client!ClientDisconnect, PlayTypeOK
<1>2. TypeOK /\ PlayTypeOK /\ heard \in Nat /\ heard <= Len(wire)
  BY PlayInvType
<1>3. session # NoId
  BY <1>1, ReceiverHasSession
<1>4. ClientTurn
  BY <1>1, <1>2 DEF ClientTurn
<1>5. PlayerType
  BY <1>1, <1>2 DEF PlayerType, PlayTypeOK
<1>6. heard' # heard + 1
  BY <1>2
<1> QED
  BY <1>1, <1>3, <1>4, <1>5, <1>6, SameSessionKeeps

\* The receiver plays at once what it was asked to record.
LEMMA RecordAnsweredKeeps ==
    ASSUME PlayInv, clientLink # "closed", UNCHANGED <<vars, heard, applied>>,
           receiver = "preparing", receiver' = "prepared", recordRequestCSeq # InvalidCSeq,
           Client!ClientResponds([cseq |-> recordRequestCSeq, session |-> session]),
           playing' = TRUE, recordRequestCSeq' = InvalidCSeq,
           UNCHANGED <<pending, cseq, clientLink, session, offered, given>>
    PROVE  ClientKeeps
<1>1. /\ TypeOK /\ PlayTypeOK /\ WireInv /\ heard \in Nat /\ heard \in 0..Len(wire)
      /\ Len(wire) \in Nat
  BY PlayInvType
<1>2. session # NoId
  BY ReceiverHasSession
<1>3. PICK q : /\ q = [kind |-> "response", head |-> "OK", cseq |-> recordRequestCSeq,
                       session |-> session, body |-> <<>>]
               /\ toServer' = IF clientLink = "open" THEN toServer \o <<q>> ELSE toServer
  BY DEF Client!ClientResponds, Client!Send, Client!ClientMessage
<1>4. q \in ClientsResponse /\ toServer \o <<q>> = Append(toServer, q)
  BY <1>1, <1>3 DEF ClientsResponse, PlayTypeOK
<1>5. PICK j \in 1..heard : /\ Records(j) /\ wire[j].cseq = recordRequestCSeq
                            /\ wire[j].session = session
  BY DEF PlayInv, PlayerInv
<1>6. ClientTurn
  <2>1. CASE clientLink = "open"
    <3>1. Replies(q)
      BY <1>1, <1>3, <1>4, <1>5, <2>1, NothingAnswered DEF Replies, Records
    <3> QED
      BY <1>1, <2>1, <3>1 DEF ClientTurn
  <2>2. CASE clientLink # "open"
    BY <1>1, <1>3, <2>2 DEF ClientTurn
  <2> QED
    BY <2>1, <2>2
<1>7. PlayerType
  BY <1>1 DEF PlayerType, PlayTypeOK, InvalidCSeq
<1>8. Live(session) => mediaSessions[session].type = "Subscribe"
  BY <1>1, <1>5 DEF WireInv
<1>9. heard' # heard + 1
  BY <1>1
<1> QED
  BY <1>2, <1>6, <1>7, <1>8, <1>9, SameSessionKeeps

LEMMA PlayRequestedKeeps ==
    ASSUME PlayInv, clientLink # "closed", UNCHANGED <<vars, heard, applied>>,
           receiver = "preparing", receiver' = "prepared",
           Client!ClientRequest("PLAY", session, <<>>),
           UNCHANGED <<playing, recordRequestCSeq, clientLink, session, offered, given>>
    PROVE  ClientKeeps
<1>1. /\ TypeOK /\ PlayTypeOK /\ heard \in Nat /\ heard <= Len(wire)
      /\ session \in Nat /\ <<>> \in Seq(Nat)
  BY PlayInvType DEF PlayTypeOK
<1>2. session # NoId
  BY ReceiverHasSession
<1>3. PICK q : Asks(q, {}, "PLAY", session)
  BY <1>1, RequestMade DEF Client!ClientRequest, ClientHeads
<1>4. /\ q \in ClientsRequest /\ q.head = "PLAY" /\ q.session = session /\ q.cseq = cseq
      /\ cseq' = cseq + 1
      /\ pending' = pending \cup {q}
      /\ toServer' = IF clientLink = "open" THEN Append(toServer, q) ELSE toServer
  BY <1>3 DEF Asks
<1>5. Heard(session)
  BY <1>2 DEF PlayInv, PlayerInv
<1>6. ClientTurn
  <2>1. CASE clientLink = "open"
    <3>1. Makes(q)
      BY <1>1, <1>2, <1>4, <1>5, <2>1, NothingAnswered DEF Makes, Heard
    <3> QED
      BY <1>1, <2>1, <3>1 DEF ClientTurn
  <2>2. CASE clientLink # "open"
    BY <1>1, <1>4, <2>2 DEF ClientTurn
  <2> QED
    BY <2>1, <2>2
<1>7. PlayerType
  BY <1>1, <1>4 DEF PlayerType, PlayTypeOK
<1>8. heard' # heard + 1
  BY <1>1
<1> QED
  BY <1>2, <1>4, <1>6, <1>7, <1>8, SameSessionKeeps

LEMMA receiverPreparedKeeps ==
    ASSUME PlayInv, clientLink # "closed", Client!receiverPrepared,
           UNCHANGED <<vars, heard, applied>>
    PROVE  ClientKeeps
<1>1. /\ receiver = "preparing" /\ receiver' = "prepared"
      /\ UNCHANGED <<session, offered, given>>
  BY DEF Client!receiverPrepared
<1>2. /\ TypeOK /\ PlayTypeOK /\ heard \in Nat /\ heard <= Len(wire)
      /\ Client!InvalidCSeq = InvalidCSeq
  BY PlayInvType DEF InvalidCSeq, Client!InvalidCSeq
<1>3. CASE /\ Client!ClientDisconnect
           /\ UNCHANGED <<playing, recordRequestCSeq, pending, cseq, toServer>>
  <2>1. clientLink' = "terminating"
    BY <1>2, <1>3 DEF Client!ClientDisconnect, PlayTypeOK
  <2>2. session # NoId
    BY <1>1, ReceiverHasSession
  <2>3. ClientTurn
    BY <1>2, <1>3, <2>1 DEF ClientTurn
  <2>4. PlayerType
    BY <1>1, <1>2, <1>3, <2>1 DEF PlayerType, PlayTypeOK
  <2>5. heard' # heard + 1
    BY <1>2
  <2>6. receiver' # "created" /\ clientLink' # "closed"
    BY <1>1, <2>1
  <2> QED
    BY <1>1, <1>3, <2>2, <2>3, <2>4, <2>5, <2>6, SameSessionKeeps
<1>4. CASE /\ recordRequestCSeq # InvalidCSeq
           /\ Client!ClientResponds([cseq |-> recordRequestCSeq, session |-> session])
           /\ playing' = TRUE
           /\ recordRequestCSeq' = InvalidCSeq
           /\ UNCHANGED <<pending, cseq, clientLink>>
  BY <1>1, <1>4, RecordAnsweredKeeps
<1>5. CASE /\ Client!ClientRequest("PLAY", session, <<>>)
           /\ UNCHANGED <<playing, recordRequestCSeq, clientLink>>
  BY <1>1, <1>5, PlayRequestedKeeps
<1> QED
  BY <1>2, <1>3, <1>4, <1>5 DEF Client!receiverPrepared

LEMMA OwnStepsKeep ==
    ASSUME PlayInv, ClientActs
    PROVE  ClientKeeps
<1>1. UNCHANGED <<vars, heard, applied>> /\ heard \in Nat /\ heard <= Len(wire)
  BY PlayInvType DEF ClientActs
<1>2. receiver \in {"preparing", "prepared"} => clientLink # "closed"
  BY DEF PlayInv, ReceiverInv
<1>3. CASE Client!receiverPrepared
  BY <1>1, <1>2, <1>3, receiverPreparedKeeps DEF Client!receiverPrepared
<1>4. CASE Client!iceCandidate
  BY <1>1, <1>2, <1>4, iceCandidateKeeps DEF Client!iceCandidate
<1>5. CASE Client!eos
  BY <1>1, <1>2, <1>5, eosKeeps DEF Client!eos
<1>6. CASE Client!ClientWriteable \/ Client!ClientConnectionLost
  BY <1>1, <1>6, ClosesKeeps DEF Client!ClientWriteable, Client!ClientConnectionLost
<1> QED
  BY <1>3, <1>4, <1>5, <1>6 DEF ClientActs, Client!ClientOwnStep

-----------------------------------------------------------------------------
(* The messages that the client reads.                                     *)

\* The next message is read.
Hears ==
    /\ heard' = heard + 1 /\ heard + 1 <= Len(wire)
    /\ UNCHANGED <<vars, applied>>
    /\ clientLink \in {"open", "terminating"}

LEMMA HeardNext ==
    ASSUME PlayInv, Hears
    PROVE  /\ TypeOK /\ PlayTypeOK /\ heard \in Nat /\ heard + 1 \in 1..Len(wire)
           /\ heard + 1 \in 1..heard' /\ heard' <= Len(wire)
           /\ wire[heard + 1] \in Message
           /\ wire[heard + 1].session \in Nat /\ wire[heard + 1].cseq \in Nat
           /\ wire[heard + 1].body \in Seq(Nat)
           /\ session \in Nat /\ cseq \in Nat
<1>1. /\ TypeOK /\ PlayTypeOK /\ heard \in Nat /\ heard + 1 \in 1..Len(wire)
      /\ heard + 1 \in 1..heard' /\ heard' <= Len(wire)
      /\ wire[heard + 1] \in Message
  BY PlayInvType DEF Hears
<1> QED
  BY <1>1 DEF Message, PlayTypeOK

LEMMA onRecordRequestKeeps ==
    ASSUME PlayInv, Hears, NEW m, m = wire[heard + 1], m.kind = "request", m.head = "RECORD",
           Client!onRecordRequest(m)
    PROVE  ClientKeeps
<1>1. CASE Client!ClientClose
  BY <1>1, HeardNext, ClosesKeeps DEF Hears
<1>2. CASE m.session = session
  <2>1. /\ recordRequestCSeq' = m.cseq /\ receiver' = "preparing"
        /\ UNCHANGED <<playing, session, offered, given, pending, cseq, clientLink, toServer>>
    BY <1>2 DEF Client!onRecordRequest
  <2>2. /\ TypeOK /\ PlayTypeOK /\ heard + 1 \in 1..Len(wire) /\ heard + 1 \in 1..heard'
        /\ heard' <= Len(wire) /\ m.cseq \in Nat
    BY HeardNext
  <2>3. IsRequest(heard + 1) /\ ~IsResponse(heard + 1) /\ Records(heard + 1)
    BY DEF IsRequest, IsResponse, Records
  <2>4. session # NoId
    BY <1>2, <2>2, <2>3 DEF PlayInv, WireInv
  <2>5. JustAnswered = {}
    BY <2>3 DEF JustAnswered
  <2>6. ClientTurn
    BY <2>1, <2>2, <2>5 DEF ClientTurn, Listens, Hears
  <2>7. PlayerType
    BY <2>1, <2>2 DEF PlayerType, PlayTypeOK
  <2>8. ~Ends(heard + 1, session)
    BY <2>3 DEF Ends
  <2>9. clientLink # "closed" /\ clientLink' # "closed"
    BY <2>1 DEF Hears
  <2>10. playing' /\ Connected /\ Live(session) /\ mediaSessions[session].type = "Describe"
             => playing
    BY <2>1
  <2>11. recordRequestCSeq' # InvalidCSeq =>
             \E j \in 1..heard' : /\ Records(j) /\ wire[j].cseq = recordRequestCSeq'
                                  /\ wire[j].session = session
    BY <1>2, <2>1, <2>2, <2>3
  <2> QED
    BY <1>2, <2>1, <2>4, <2>6, <2>7, <2>8, <2>9, <2>10, <2>11, SameSessionKeeps
<1> QED
  BY <1>1, <1>2 DEF Client!onRecordRequest

LEMMA onSetupRequestKeeps ==
    ASSUME PlayInv, Hears, NEW m, m = wire[heard + 1], m.kind = "request", m.head = "SETUP",
           Client!onSetupRequest(m)
    PROVE  ClientKeeps
<1>1. CASE Client!ClientClose
  BY <1>1, HeardNext, ClosesKeeps DEF Hears
<1>2. CASE m.session = session
  <2>1. /\ given' = given \o m.body
        /\ Client!ClientResponds(m)
        /\ UNCHANGED <<receiver, playing, session, recordRequestCSeq, offered,
                       pending, cseq, clientLink>>
    BY <1>2 DEF Client!onSetupRequest
  <2>2. /\ TypeOK /\ PlayTypeOK /\ heard + 1 \in 1..Len(wire) /\ heard + 1 \in 1..heard'
        /\ heard' <= Len(wire) /\ m.cseq \in Nat /\ m.session \in Nat /\ m.body \in Seq(Nat)
    BY HeardNext
  <2>3. /\ IsRequest(heard + 1) /\ ~IsResponse(heard + 1) /\ ~Records(heard + 1)
    BY DEF IsRequest, IsResponse, Records
  <2>4. session # NoId
    BY <1>2, <2>2, <2>3 DEF PlayInv, WireInv
  <2>5. JustAnswered = {}
    BY <2>3 DEF JustAnswered
  <2>6. PICK q : /\ q = [kind |-> "response", head |-> "OK", cseq |-> m.cseq,
                         session |-> m.session, body |-> <<>>]
                 /\ toServer' = IF clientLink = "open" THEN toServer \o <<q>> ELSE toServer
    BY <2>1 DEF Client!ClientResponds, Client!Send, Client!ClientMessage
  <2>7. q \in ClientsResponse /\ toServer \o <<q>> = Append(toServer, q)
    BY <2>2, <2>6 DEF ClientsResponse, PlayTypeOK
  <2>8. ClientTurn
    <3>1. CASE clientLink = "open"
      <4>1. Replies(q)
        BY <2>1, <2>2, <2>3, <2>5, <2>6, <2>7, <3>1 DEF Replies
      <4> QED
        BY <2>1, <2>2, <3>1, <4>1 DEF ClientTurn, Hears
    <3>2. CASE clientLink # "open"
      BY <2>1, <2>2, <2>6, <3>2 DEF ClientTurn, Hears
    <3> QED
      BY <3>1, <3>2
  <2>9. PlayerType
    <3>1. given \o m.body \in Seq(Nat)
      BY <2>2 DEF PlayTypeOK
    <3> QED
      BY <2>1, <2>2, <3>1 DEF PlayerType, PlayTypeOK
  <2>10. ~Ends(heard + 1, session) /\ ~Announces(heard + 1, session)
    BY <2>3 DEF Ends, Announces, IsAnnouncement, Records, IsRequest, IsResponse
  <2>11. clientLink # "closed" /\ clientLink' # "closed"
    BY <2>1 DEF Hears
  <2> QED
    BY <1>2, <2>1, <2>4, <2>8, <2>9, <2>10, <2>11, SameSessionKeeps
<1> QED
  BY <1>1, <1>2 DEF Client!onSetupRequest

\* The answer to request r is read.
LEMMA HeardAnswer ==
    ASSUME PlayInv, Hears, clientLink = "open", IsResponse(heard + 1),
           NEW r \in pending, r.cseq = wire[heard + 1].cseq
    PROVE  /\ r.cseq \in 1..Len(inbox) /\ inbox[wire[heard + 1].cseq].method = r.head
           /\ r.cseq \in Nat /\ r.cseq < cseq
           /\ JustAnswered = {r}
           /\ \A s : Announces(heard + 1, s) => r.head = "DESCRIBE"
           /\ \A s : Ends(heard + 1, s) => wire[heard + 1].head = "BAD_GATEWAY"
<1>1. /\ heard + 1 \in 1..Len(wire) /\ AnswerInv /\ PendingInv /\ WireInv
      /\ cseq \in Nat /\ Len(inbox) \in Nat
  BY HeardNext DEF PlayInv, ServerInv, TypeOK
<1>2. r.cseq \in 1..(cseq - 1) /\ r.cseq \in Nat
  BY <1>1 DEF PendingInv
<1>3. r.cseq <= Len(inbox)
  BY <1>1 DEF AnswerInv
<1>4. r.cseq \in 1..Len(inbox) /\ inbox[wire[heard + 1].cseq].method = r.head
  BY <1>1, <1>2, <1>3 DEF PendingInv
<1>5. JustAnswered = {r}
  BY <1>1 DEF JustAnswered, PendingInv, Hears
<1>6. r.head \in ClientHeads
  BY <1>1, <1>4 DEF WireInv
<1>7. \A s : Announces(heard + 1, s) => r.head = "DESCRIBE"
  BY <1>4, <1>6 DEF Announces, IsAnnouncement, IsResponse, ClientHeads
<1>8. \A s : Ends(heard + 1, s) => wire[heard + 1].head = "BAD_GATEWAY"
  BY <1>4, <1>6 DEF Ends, IsResponse, IsRequest, ClientHeads
<1> QED
  BY <1>1, <1>2, <1>4, <1>5, <1>7, <1>8

\* A request about the session is over.
LEMMA SettledKeeps ==
    ASSUME PlayInv, Hears, NEW m, m = wire[heard + 1], m.kind = "response", m.head = "OK",
           m.session = session, NEW r \in pending, r.cseq = m.cseq,
           r.head \in {"SETUP", "PLAY"}, Client!Settled(r),
           playing' = playing \/ (playing' = TRUE /\ r.head = "PLAY"),
           UNCHANGED <<receiver, session, recordRequestCSeq, offered, given, cseq,
                       clientLink, toServer>>
    PROVE  ClientKeeps
<1>1. /\ TypeOK /\ PlayTypeOK /\ heard + 1 \in 1..Len(wire) /\ heard + 1 \in 1..heard'
      /\ heard' <= Len(wire) /\ m.cseq \in Nat /\ m.session \in Nat
  BY HeardNext
<1>2. IsResponse(heard + 1)
  BY DEF IsResponse
<1>3. clientLink # "closed" /\ clientLink' # "closed"
  BY DEF Hears
<1>4. receiver # "created"
  BY <1>3 DEF PlayInv, PlayerInv
<1>5. session # NoId
  BY <1>3, <1>4, ReceiverHasSession
<1>6. ClientTurn
  <2>1. CASE clientLink = "open"
    <3>1. JustAnswered = {r}
      BY <1>2, <2>1, HeardAnswer
    <3>2. Listens
      BY <3>1 DEF Listens, Client!Settled
    <3> QED
      BY <1>1, <2>1, <3>2 DEF ClientTurn, Hears
  <2>2. CASE clientLink # "open"
    BY <1>1, <2>2 DEF ClientTurn, Hears, PlayTypeOK
  <2> QED
    BY <2>1, <2>2
<1>7. PlayerType
  BY <1>1 DEF PlayerType, PlayTypeOK, Client!Settled
<1>8. clientLink' = "open" => ~Ends(heard + 1, session)
  <2>1. "OK" # "BAD_GATEWAY"
    OBVIOUS
  <2> QED
    BY <1>2, <2>1, HeardAnswer
<1>9. ASSUME Connected, Live(session), r.head = "PLAY"
      PROVE  mediaSessions[session].playing
  <2>1. clientLink = "open"
    BY <1>9 DEF Connected
  <2>2. m.cseq \in 1..Len(inbox) /\ inbox[m.cseq].method = "PLAY"
    BY <1>2, <1>9, <2>1, HeardAnswer
  <2> QED
    BY <1>1, <1>2, <1>9, <2>2 DEF PlayInv, WireInv
<1>10. \A t \in pending' : t \in pending
  BY DEF Client!Settled
<1> QED
  BY <1>3, <1>4, <1>5, <1>6, <1>7, <1>8, <1>9, <1>10, SameSessionKeeps

\* The client learns its session: none of what was said before is about it.
LEMMA NewSessionKeeps ==
    ASSUME PlayInv, Hears, NEW m, m = wire[heard + 1], m.kind = "response", m.head = "OK",
           m.session # NoId, NEW r \in pending, r.cseq = m.cseq,
           r.head \in {"DESCRIBE", "SUBSCRIBE"}, Client!Settled(r),
           session' = m.session,
           receiver' = "preparing" \/ (receiver' = receiver /\ r.head = "SUBSCRIBE"),
           UNCHANGED <<playing, recordRequestCSeq, offered, given, cseq, clientLink, toServer>>
    PROVE  ClientKeeps
<1>1. /\ TypeOK /\ PlayTypeOK /\ heard \in Nat /\ heard + 1 \in 1..Len(wire)
      /\ heard + 1 \in 1..heard' /\ heard' = heard + 1
      /\ heard' <= Len(wire) /\ m.cseq \in Nat /\ m.session \in Nat
      /\ \A j \in 1..heard' : j \in 1..heard \/ j = heard + 1
  BY HeardNext DEF Hears
<1>2. IsResponse(heard + 1) /\ wire' = wire
  BY DEF IsResponse, Hears, vars
<1>3. clientLink # "closed"
  BY DEF Hears
<1>4. session = NoId /\ pending = {r}
  BY <1>3 DEF PlayInv, PlayerInv
<1>5. /\ receiver = "created" /\ clientLink = "open" /\ ~playing
      /\ recordRequestCSeq = InvalidCSeq
      /\ \A j \in 1..heard : wire[j].session = NoId
  BY <1>3, <1>4 DEF PlayInv, PlayerInv
<1>6. /\ JustAnswered = {r} /\ \A s : Announces(heard + 1, s) => r.head = "DESCRIBE"
      /\ ~Ends(heard + 1, m.session)
  <2>1. "OK" # "BAD_GATEWAY"
    OBVIOUS
  <2> QED
    BY <1>2, <1>5, <2>1, HeardAnswer
<1>7. ClientTurn
  <2>1. Listens
    BY <1>6 DEF Listens, Client!Settled
  <2> QED
    BY <1>1, <1>5, <2>1 DEF ClientTurn, Hears
<1>8. PlayerType
  BY <1>1 DEF PlayerType, PlayTypeOK, Client!Settled
<1>9. /\ \A s : Live(s)' <=> Live(s)
      /\ \A s : Ended(s)' = Ended(s)
      /\ \A i : IsRequest(i)' <=> IsRequest(i)
  BY <1>7, WireUnmoved DEF ClientTurn
<1>10. \A i, s : Announces(i, s)' <=> Announces(i, s)
  BY <1>7 DEF Announces, ClientTurn, vars
<1>11. pending' = {}
  BY <1>4 DEF Client!Settled
<1>12. ASSUME NEW s, s = m.session
       PROVE  /\ Heard(s)'
              /\ \A j \in 1..heard' : Announces(j, s)' => receiver' # "created"
  <2>1. Heard(s)'
    BY <1>1, <1>2, <1>12 DEF Heard
  <2>2. ASSUME NEW j \in 1..heard', Announces(j, s)
        PROVE  receiver' # "created"
    <3>1. wire[j].session = s
      BY <2>2 DEF Announces, IsAnnouncement
    <3>2. j = heard + 1
      BY <1>1, <1>5, <1>12, <3>1
    <3>3. r.head = "DESCRIBE"
      BY <1>6, <2>2, <3>2
    <3> QED
      BY <3>3
  <2> QED
    BY <1>10, <2>1, <2>2
<1>13. PlayerInv'
  <2>1. \A j \in 1..heard' : wire'[j].session \in {NoId, session'}
    BY <1>1, <1>2, <1>5
  <2>2. session' # NoId => /\ Heard(session)'
                           /\ \A j \in 1..heard' : Announces(j, session)' => receiver' # "created"
    BY <1>12
  <2> QED
    BY <1>5, <1>11, <2>1, <2>2 DEF PlayerInv
<1>14. PlaySessionAgreed'
  <2>1. ASSUME link = "open", NEW s, s = m.session, ~Live(s)
        PROVE  \E i \in Ended(s) : i > heard'
    <3>1. s \in SessionId
      <4>1. s < nextSessionId /\ s \in Nat
        BY <1>1, <2>1 DEF PlayInv, ServerInv, IdsInv
      <4> QED
        BY <1>1, <2>1, <4>1, BoundsAssumption DEF TypeOK, SessionId, NoId
    <3>2. Announced(s)
      BY <1>1, <2>1 DEF Announced
    <3>3. PICK i \in Ended(s) : TRUE
      BY <2>1, <3>1, <3>2 DEF PlayInv, OpenInv
    <3>4. i \in 1..Len(wire) /\ Ends(i, s) /\ wire[i].session = s
      BY <3>3 DEF Ended, Ends
    <3>5. i # heard + 1 /\ i \notin 1..heard
      BY <1>5, <1>6, <2>1, <3>4
    <3> QED
      BY <1>1, <3>4, <3>5
  <2>2. ASSUME link' = "open", NEW s, s = session', ~Live(s)'
        PROVE  \E i \in Ended(s)' : i > heard'
    <3>1. link = "open"
      BY <2>2 DEF Hears, vars
    <3> QED
      BY <1>9, <2>1, <2>2, <3>1
  <2>3. link' = "open" => (~Live(session)' => \E i \in Ended(session)' : i > heard')
    BY <2>2
  <2> QED
    BY <2>3 DEF PlaySessionAgreed, Together, Connected
<1>15. ReceiverInv'
  BY <1>3 DEF ReceiverInv
<1>16. AloneInv'
  BY <1>1, <1>5, <1>7, ClientAloneTurn DEF PlayInv
<1> QED
  BY <1>7, <1>8, <1>13, <1>14, <1>15, <1>16 DEF ClientKeeps

LEMMA onOptionsResponseKeeps ==
    ASSUME PlayInv, Hears, NEW m, m = wire[heard + 1], m.kind = "response",
           NEW r \in pending, r.cseq = m.cseq, r.head = "OPTIONS", m.head = "OK",
           NEW method \in {"DESCRIBE", "SUBSCRIBE"},
           Client!RequestAfter({r}, method, NoId, <<>>),
           UNCHANGED <<receiver, playing, session, recordRequestCSeq, clientLink, offered, given>>
    PROVE  ClientKeeps
<1>1. /\ TypeOK /\ PlayTypeOK /\ heard \in Nat /\ heard + 1 \in 1..Len(wire)
      /\ heard' = heard + 1
      /\ heard' <= Len(wire) /\ m.cseq \in Nat /\ m.session \in Nat
      /\ \A j \in 1..heard' : j \in 1..heard \/ j = heard + 1
  BY HeardNext DEF Hears
<1>2. IsResponse(heard + 1) /\ wire' = wire
  BY DEF IsResponse, Hears, vars
<1>3. clientLink # "closed"
  BY DEF Hears
<1>4. session = NoId /\ pending = {r}
  BY <1>3 DEF PlayInv, PlayerInv
<1>5. /\ receiver = "created" /\ clientLink = "open" /\ ~playing
      /\ recordRequestCSeq = InvalidCSeq
      /\ \A j \in 1..heard : wire[j].session = NoId
  BY <1>3, <1>4 DEF PlayInv, PlayerInv
<1>6. /\ JustAnswered = {r} /\ m.cseq \in 1..Len(inbox) /\ inbox[m.cseq].method = "OPTIONS"
  BY <1>2, <1>5, HeardAnswer
<1>7. m.session = NoId
  BY <1>1, <1>2, <1>6 DEF PlayInv, WireInv
<1>8. PICK q : Asks(q, {r}, method, NoId)
  <2>1. method \in ClientHeads /\ NoId \in Nat /\ <<>> \in Seq(Nat)
    BY DEF ClientHeads, NoId
  <2> QED
    BY <1>1, <2>1, RequestMade
<1>9. /\ q \in ClientsRequest /\ q.head = method /\ q.cseq = cseq /\ cseq' = cseq + 1
      /\ pending' = {q}
      /\ toServer' = Append(toServer, q)
  BY <1>4, <1>5, <1>8 DEF Asks
<1>10. ClientTurn
  <2>1. Makes(q)
    BY <1>4, <1>6, <1>9 DEF Makes
  <2> QED
    BY <1>1, <1>5, <2>1 DEF ClientTurn, Hears
<1>11. PlayerType
  BY <1>1, <1>9 DEF PlayerType, PlayTypeOK
<1>12. PlayerInv'
  BY <1>1, <1>2, <1>4, <1>5, <1>7, <1>9 DEF PlayerInv
<1>13. PlaySessionAgreed'
  BY <1>4 DEF PlaySessionAgreed, Together, NoId, Client!NoSessionId
<1>14. ReceiverInv'
  BY <1>3 DEF ReceiverInv
<1>15. AloneInv'
  BY <1>1, <1>5, <1>10, ClientAloneTurn DEF PlayInv
<1> QED
  BY <1>10, <1>11, <1>12, <1>13, <1>14, <1>15 DEF ClientKeeps

LEMMA HearsKeeps ==
    ASSUME PlayInv, ClientHears
    PROVE  ClientKeeps
<1> DEFINE m == wire[heard + 1]
<1>1. Hears /\ Client!ClientReceives(m)
  BY PlayInvType DEF ClientHears, Hears, Client!ClientReceives
<1>2. Client!ClientClose => ClientKeeps
  BY <1>1, HeardNext, ClosesKeeps DEF Hears
<1>3. CASE m.kind = "request" /\ Client!ClientHandleRequest(m)
  <2>1. CASE m.head = "RECORD" /\ Client!onRecordRequest(m)
    BY <1>1, <1>3, <2>1, onRecordRequestKeeps
  <2>2. CASE m.head = "SETUP" /\ Client!onSetupRequest(m)
    BY <1>1, <1>3, <2>2, onSetupRequestKeeps
  <2> QED
    BY <1>2, <1>3, <2>1, <2>2 DEF Client!ClientHandleRequest
<1>4. CASE m.kind = "response" /\ Client!ClientHandleResponse(m)
  <2>1. ASSUME NEW r \in pending, r.cseq = m.cseq, r.head = "OPTIONS",
               Client!onOptionsResponse(r, m)
        PROVE  ClientKeeps
    <3>1. Client!NoSessionId = NoId
      BY DEF Client!NoSessionId, NoId
    <3> QED
      BY <1>1, <1>2, <1>4, <2>1, <3>1, onOptionsResponseKeeps DEF Client!onOptionsResponse
  <2>2. ASSUME NEW r \in pending, r.cseq = m.cseq, r.head \in {"DESCRIBE", "SUBSCRIBE"},
               IF r.head = "DESCRIBE" THEN Client!onDescribeResponse(r, m)
               ELSE Client!onSubscribeResponse(r, m)
        PROVE  ClientKeeps
    <3>1. Client!NoSessionId = NoId
      BY DEF Client!NoSessionId, NoId
    <3> QED
      BY <1>1, <1>2, <1>4, <2>2, <3>1, NewSessionKeeps
      DEF Client!onDescribeResponse, Client!onSubscribeResponse
  <2>3. ASSUME NEW r \in pending, r.cseq = m.cseq, r.head \in {"SETUP", "PLAY"},
               IF r.head = "SETUP" THEN Client!onSetupResponse(r, m)
               ELSE Client!onPlayResponse(r, m)
        PROVE  ClientKeeps
    BY <1>1, <1>2, <1>4, <2>3, SettledKeeps
    DEF Client!onSetupResponse, Client!onPlayResponse
  <2> QED
    BY <1>2, <1>4, <2>1, <2>2, <2>3 DEF Client!ClientHandleResponse
<1> QED
  BY <1>1, <1>3, <1>4 DEF Client!ClientReceives

-----------------------------------------------------------------------------
(* The invariant of the playback.                                          *)

LEMMA PlayInitial ==
    ASSUME PlayInit
    PROVE  PlayInv
<1>1. /\ Init /\ heard = 0 /\ applied = [s \in SessionId |-> <<>>]
      /\ receiver = "created" /\ playing = FALSE /\ session = 0 /\ recordRequestCSeq = 0
      /\ offered = 0 /\ given = <<>> /\ clientLink = "open" /\ cseq = 2
  BY DEF PlayInit, Client!ClientInit, Client!SignallingInit, Client!NoSessionId,
         Client!InvalidCSeq
<1>2. PICK q : /\ q = [kind |-> "request", head |-> "OPTIONS", cseq |-> 1, session |-> 0,
                       body |-> <<>>]
               /\ pending = {q} /\ toServer = <<q>>
  BY DEF PlayInit, Client!ClientInit, Client!SignallingInit, Client!ClientMessage,
         Client!NoSessionId
<1>3. q \in ClientsRequest
  BY <1>2 DEF ClientsRequest, ClientHeads
<1>4. /\ wire = <<>> /\ inbox = <<>> /\ sentRequests = {} /\ link = "open"
      /\ nextCSeq = 1 /\ \A s \in SessionId : ~Live(s)
      /\ Len(wire) = 0 /\ Len(inbox) = 0
  BY <1>1 DEF Init, Live, NoSession
<1>5. /\ Len(toServer) = 1 /\ toServer[1] = q
      /\ \A i \in 1..Len(toServer) : i = 1
  BY <1>2
<1>6. ServerInv
  BY <1>1, TypeInit, DialogInit, SilenceInit DEF ServerInv, SilenceInv
<1>7. PlayTypeOK
  <2>1. toServer \in Seq(ClientsRequest \cup ClientsResponse)
    BY <1>2, <1>3
  <2>2. pending \subseteq ClientsRequest
    BY <1>2, <1>3
  <2>3. given \in Seq(Nat) /\ cseq \in Nat \ {0} /\ heard \in 0..Len(wire)
        /\ applied \in [SessionId -> Seq(Nat)]
    BY <1>1, <1>4
  <2> QED
    BY <1>1, <2>1, <2>2, <2>3 DEF PlayTypeOK
<1>8. WireInv /\ OpenInv
  BY <1>4 DEF WireInv, OpenInv, Announced
<1>9. ChannelInv
  <2>1. \A c \in (Len(inbox) + 1)..(cseq - 1) : c = 1
    BY <1>1, <1>4
  <2> QED
    BY <1>1, <1>2, <1>4, <1>5, <2>1 DEF ChannelInv, Asked
<1>10. PendingInv
  BY <1>1, <1>2, <1>4, <1>5 DEF PendingInv
<1>11. PlayerInv /\ ReceiverInv
  BY <1>1, <1>2 DEF PlayerInv, ReceiverInv, NoId, InvalidCSeq
<1>12. AloneInv
  BY <1>1, <1>2, <1>4, <1>5 DEF AloneInv, Told
<1>13. PlaySessionAgreed
  BY <1>1 DEF PlaySessionAgreed, Together, Client!NoSessionId
<1> QED
  BY <1>6, <1>7, <1>8, <1>9, <1>10, <1>11, <1>12, <1>13 DEF PlayInv

LEMMA ServerTurnKeeps ==
    ASSUME PlayInv, ServerInv', NEW new, NEW d, ServerTurn(new, d),
           ServerReceives \/ ServerOwnStep
    PROVE  PlayInv'
<1>1. /\ TypeOK /\ TypeOK' /\ IdsInv /\ AnswerInv /\ PlayTypeOK /\ PlayStep(new)
      /\ WireInv /\ OpenInv /\ ChannelInv /\ PendingInv /\ PlayerInv /\ ReceiverInv
      /\ AloneInv /\ PlaySessionAgreed
  BY DEF PlayInv, ServerInv, ServerTurn
<1>2. PlayTypeOK'
  BY <1>1, PlayTypeTurn
<1>3. WireInv' /\ OpenInv'
  BY <1>1, WireInvStep, OpenInvStep
<1>4. ChannelInv' /\ PendingInv'
  BY <1>1, ChannelTurn, PendingTurn
<1>5. PlayerInv' /\ AloneInv' /\ PlaySessionAgreed'
  BY <1>1, PlayerTurn, AloneTurn, AgreedTurn
<1>6. ReceiverInv'
  BY <1>1 DEF ReceiverInv, ServerTurn
<1> QED
  BY <1>2, <1>3, <1>4, <1>5, <1>6 DEF PlayInv

LEMMA ClientTurnKeeps ==
    ASSUME PlayInv, ServerInv', ClientKeeps
    PROVE  PlayInv'
<1>1. /\ TypeOK /\ PlayTypeOK /\ AnswerInv /\ WireInv /\ OpenInv
      /\ ChannelInv /\ PendingInv
      /\ ClientTurn /\ PlayerType
      /\ PlayerInv' /\ ReceiverInv' /\ AloneInv' /\ PlaySessionAgreed'
  BY DEF PlayInv, ServerInv, ClientKeeps
<1>2. PlayTypeOK'
  BY <1>1, ClientTypeTurn
<1>3. ChannelInv' /\ PendingInv'
  BY <1>1, ClientChannelTurn, ClientPendingTurn
<1>4. UNCHANGED vars
  BY <1>1 DEF ClientTurn
<1>5. WireInv'
  BY <1>1, <1>4 DEF WireInv, Records, IsRequest, IsResponse, Live, vars
<1>6. OpenInv'
  BY <1>1, <1>4 DEF OpenInv, Announced, Ended, Ends, IsRequest, IsResponse, Live, vars
<1> QED
  BY <1>1, <1>2, <1>3, <1>5, <1>6 DEF PlayInv

LEMMA IdleKeeps ==
    ASSUME PlayInv, UNCHANGED playVars
    PROVE  ClientKeeps
<1>1. /\ UNCHANGED <<vars, heard, applied>>
      /\ UNCHANGED <<receiver, playing, session, recordRequestCSeq, offered, given,
                     pending, cseq, clientLink, toServer>>
      /\ TypeOK /\ PlayTypeOK /\ heard \in Nat /\ heard <= Len(wire)
      /\ PlayerInv /\ ReceiverInv /\ AloneInv /\ PlaySessionAgreed
  BY PlayInvType DEF playVars, clientVars, PlayInv
<1>2. ClientTurn
  <2>1. Listens
    BY <1>1, NothingAnswered DEF Listens
  <2> QED
    BY <1>1, <2>1 DEF ClientTurn
<1>3. PlayerType
  BY <1>1 DEF PlayerType, PlayTypeOK
<1>4. PlayerInv'
  BY <1>1 DEF PlayerInv, Heard, Records, Announces, IsRequest, vars
<1>5. ReceiverInv' /\ AloneInv' /\ PlaySessionAgreed'
  <2>1. PlaySessionAgreed'
    BY <1>1 DEF PlaySessionAgreed, Together, Connected, Live, Ended, Ends, IsRequest,
                IsResponse, vars
  <2>2. AloneInv'
    BY <1>1 DEF AloneInv, Connected, Live, Told, Records, IsRequest, vars
  <2> QED
    BY <1>1, <2>1, <2>2 DEF ReceiverInv
<1> QED
  BY <1>2, <1>3, <1>4, <1>5 DEF ClientKeeps

LEMMA PlayInvKept ==
    ASSUME PlayInv, [PlayNext]_playVars
    PROVE  PlayInv'
<1>1. ServerInv /\ TypeOK /\ PlayTypeOK /\ WireInv /\ ChannelInv
  BY DEF PlayInv, ServerInv
<1>2. CASE ServerReceives
  <2>1. ServesWell
    BY <1>1, <1>2, ServerHandlesServes
  <2>2. PICK new : ServerTurn(new, 1)
    BY <1>1, <1>2, <2>1, ReceivesTurn DEF ServesWell
  <2> QED
    BY <1>1, <1>2, <2>1, <2>2, ServesKeeps, ServerTurnKeeps
<1>3. CASE ServerOwnStep
  <2>1. ServesWell
    BY <1>1, <1>3, ServerOwnStepServes
  <2>2. PICK new : ServerTurn(new, 0)
    BY <1>1, <1>3, <2>1, OwnStepTurn DEF ServesWell
  <2> QED
    BY <1>1, <1>3, <2>1, <2>2, ServesKeeps, ServerTurnKeeps
<1>4. ASSUME ClientKeeps
      PROVE  PlayInv'
  <2>1. UNCHANGED vars
    BY <1>4 DEF ClientKeeps, ClientTurn
  <2> QED
    BY <1>1, <1>4, <2>1, IdleServes, ServesKeeps, ClientTurnKeeps
<1> QED
  BY <1>2, <1>3, <1>4, HearsKeeps, OwnStepsKeep, IdleKeeps DEF PlayNext

-----------------------------------------------------------------------------
(* The theorems.                                                           *)

\* The invariant of the two ends of a playback and the channels between them,
\* whatever either of them does and whenever the connection breaks.
THEOREM PlayInvariant == PlaySpec => []PlayInv
<1>1. PlayInit => PlayInv
  BY PlayInitial
<1>2. PlayInv /\ [PlayNext]_playVars => PlayInv'
  BY PlayInvKept
<1> QED
  BY <1>1, <1>2, PTL DEF PlaySpec

\* The session id that the player keeps (ClientSession::onDescribeResponse,
\* onSubscribeResponse) is in the server's mediaSessions, or the message that
\* ends it is on its way.
THEOREM AlwaysPlaySessionAgreed == PlaySpec => []PlaySessionAgreed
<1>1. PlayInv => PlaySessionAgreed
  BY DEF PlayInv
<1> QED
  BY <1>1, PlayInvariant, PTL

\* The receiver of a described stream plays once the server's peer does
\* (ClientSession::onPlayResponse), the server's peer of a subscription once
\* the receiver does (ServerSession::onRecordResponse).
THEOREM NobodyPlaysAlone == PlaySpec => []NoOnePlaysAlone
<1>1. PlayInv => NoOnePlaysAlone
  BY DEF PlayInv, AloneInv, NoOnePlaysAlone, Together, Connected, Live
<1> QED
  BY <1>1, PlayInvariant, PTL

-----------------------------------------------------------------------------
(* The candidates of the server's peer reach the receiver.                 *)

\* The wire brings up to one candidate.
LEMMA UpToOne ==
    ASSUME NEW s, NEW h \in Nat, NEW n, NEW m, UpTo(s, h, n), UpTo(s, h, m)
    PROVE  n = m
<1>1. CASE n = 0 /\ \A i \in 1..h : ~Brings(i, s)
  BY <1>1 DEF UpTo
<1>2. CASE m = 0 /\ \A i \in 1..h : ~Brings(i, s)
  BY <1>2 DEF UpTo
<1>3. CASE /\ ~(n = 0 /\ \A i \in 1..h : ~Brings(i, s))
           /\ ~(m = 0 /\ \A i \in 1..h : ~Brings(i, s))
  <2>1. PICK j \in 1..h : /\ Brings(j, s) /\ wire[j].body[Len(wire[j].body)] = n
                          /\ \A i \in (j + 1)..h : ~Brings(i, s)
    BY <1>3 DEF UpTo
  <2>2. PICK k \in 1..h : /\ Brings(k, s) /\ wire[k].body[Len(wire[k].body)] = m
                          /\ \A i \in (k + 1)..h : ~Brings(i, s)
    BY <1>3 DEF UpTo
  <2>3. k \notin (j + 1)..h /\ j \notin (k + 1)..h
    BY <2>1, <2>2
  <2>4. j = k
    BY <2>3
  <2> QED
    BY <2>1, <2>2, <2>4
<1> QED
  BY <1>1, <1>2, <1>3

\* One message more.
LEMMA UpToNext ==
    ASSUME NEW s, NEW h \in Nat, NEW n
    PROVE  /\ UpTo(s, h, n) /\ ~Brings(h + 1, s) => UpTo(s, h + 1, n)
           /\ Brings(h + 1, s) /\ wire[h + 1].body[Len(wire[h + 1].body)] = n
                  => UpTo(s, h + 1, n)
<1>1. ASSUME UpTo(s, h, n), ~Brings(h + 1, s)
      PROVE  UpTo(s, h + 1, n)
  <2>1. CASE n = 0 /\ \A i \in 1..h : ~Brings(i, s)
    <3>1. \A i \in 1..(h + 1) : i \in 1..h \/ i = h + 1
      OBVIOUS
    <3> QED
      BY <1>1, <2>1, <3>1 DEF UpTo
  <2>2. CASE ~(n = 0 /\ \A i \in 1..h : ~Brings(i, s))
    <3>1. PICK j \in 1..h : /\ Brings(j, s) /\ wire[j].body[Len(wire[j].body)] = n
                            /\ \A i \in (j + 1)..h : ~Brings(i, s)
      BY <1>1, <2>2 DEF UpTo
    <3>2. /\ j \in 1..(h + 1)
          /\ \A i \in (j + 1)..(h + 1) : i \in (j + 1)..h \/ i = h + 1
      OBVIOUS
    <3> QED
      BY <1>1, <3>1, <3>2 DEF UpTo
  <2> QED
    BY <2>1, <2>2
<1>2. ASSUME Brings(h + 1, s), wire[h + 1].body[Len(wire[h + 1].body)] = n
      PROVE  UpTo(s, h + 1, n)
  <2>1. h + 1 \in 1..(h + 1) /\ (h + 1 + 1)..(h + 1) = {}
    OBVIOUS
  <2> QED
    BY <1>2, <2>1 DEF UpTo
<1> QED
  BY <1>1, <1>2

\* A batch that begins where the receiver stands.
LEMMA ConsecutiveOn ==
    ASSUME NEW a \in Seq(Nat), NEW b \in Seq(Nat),
           Consecutive(a, 0), Consecutive(b, Len(a))
    PROVE  Consecutive(a \o b, 0)
<1>1. /\ Len(a) \in Nat /\ Len(b) \in Nat /\ Len(a \o b) = Len(a) + Len(b)
      /\ \A k \in 1..Len(a) : (a \o b)[k] = a[k]
      /\ \A k \in 1..Len(b) : (a \o b)[Len(a) + k] = b[k]
  BY ConcatProperties
<1>2. ASSUME NEW k \in 1..Len(a \o b)
      PROVE  (a \o b)[k] = 0 + k
  <2>1. CASE k \in 1..Len(a)
    BY <1>1, <2>1 DEF Consecutive
  <2>2. CASE k \notin 1..Len(a)
    <3>1. PICK l \in 1..Len(b) : k = Len(a) + l
      <4>1. k - Len(a) \in 1..Len(b) /\ k = Len(a) + (k - Len(a))
        BY <1>1, <2>2
      <4> QED
        BY <4>1
    <3>2. (a \o b)[k] = b[l] /\ b[l] = Len(a) + l
      BY <1>1, <3>1 DEF Consecutive
    <3> QED
      BY <1>1, <3>1, <3>2
  <2> QED
    BY <2>1, <2>2
<1> QED
  BY <1>2 DEF Consecutive

LEMMA GivenTurn ==
    ASSUME TypeOK, PlayTypeOK, GivenInv, NEW new \in Seq(Message), wire' = wire \o new,
           UNCHANGED <<receiver, session, given, clientLink, heard>>
    PROVE  GivenInv'
<1>1. Consecutive(given, 0)' /\ (given' # <<>> => receiver' # "created")
  BY DEF GivenInv, Consecutive
<1>2. ASSUME NEW s, s = session, NEW h, h = heard, NEW n, n = Len(given),
             clientLink # "closed", s # NoId
      PROVE  UpTo(s, h, n)'
  <2>1. UpTo(s, h, n) /\ h \in 0..Len(wire)
    BY <1>2 DEF GivenInv, PlayTypeOK
  <2> QED
    BY <2>1, UpToPast
<1>3. ASSUME NEW s, s = session', NEW h, h = heard', NEW n, n = Len(given'),
             clientLink' # "closed", s # NoId
      PROVE  UpTo(s, h, n)'
  BY <1>2, <1>3
<1>4. clientLink' # "closed" /\ session' # NoId => UpTo(session, heard, Len(given))'
  BY <1>3
<1> QED
  BY <1>1, <1>4 DEF GivenInv

LEMMA UpToSame ==
    ASSUME wire' = wire, NEW s, NEW h, NEW n
    PROVE  UpTo(s, h, n)' <=> UpTo(s, h, n)
BY DEF UpTo, Brings

\* Nothing is given.
LEMMA GivenKept ==
    ASSUME PlayInv, GivenInv, UNCHANGED <<vars, session, given>>,
           heard' = heard \/ (heard' = heard + 1 /\ ~Brings(heard + 1, session)),
           receiver' = "created" => receiver = "created",
           clientLink' # "closed" => clientLink # "closed"
    PROVE  GivenInv'
<1>1. heard \in Nat /\ wire' = wire
  BY PlayInvType DEF vars
<1>2. Consecutive(given, 0)' /\ (given' # <<>> => receiver' # "created")
  BY DEF GivenInv, Consecutive
<1>3. ASSUME NEW s, s = session', NEW h, h = heard', NEW n, n = Len(given'),
             clientLink' # "closed", s # NoId
      PROVE  UpTo(s, h, n)'
  <2>1. UpTo(s, heard, n) /\ s = session
    BY <1>3 DEF GivenInv
  <2>2. UpTo(s, h, n)
    <3>1. CASE h = heard
      BY <2>1, <3>1
    <3>2. CASE h = heard + 1 /\ ~Brings(heard + 1, s)
      BY <1>1, <2>1, <3>2, UpToNext
    <3> QED
      BY <1>3, <2>1, <3>1, <3>2
  <2> QED
    BY <1>1, <2>2, UpToSame
<1>4. clientLink' # "closed" /\ session' # NoId => UpTo(session, heard, Len(given))'
  BY <1>3
<1> QED
  BY <1>2, <1>4 DEF GivenInv

LEMMA GivenClosed ==
    ASSUME GivenInv, Client!ClientClose
    PROVE  GivenInv'
<1>1. clientLink' = "closed" /\ receiver' = "none" /\ given' = given
  BY DEF Client!ClientClose
<1> QED
  BY <1>1 DEF GivenInv, Consecutive

\* The receiver is given the candidates of the SETUP that is read.
LEMMA GivenMore ==
    ASSUME PlayInv, GivenInv, RelayedInOrder, Hears,
           Brings(heard + 1, session), session \in SessionId,
           given' = given \o wire[heard + 1].body,
           UNCHANGED <<receiver, session, clientLink>>
    PROVE  GivenInv'
<1> DEFINE body == wire[heard + 1].body
<1>1. /\ PlayTypeOK /\ heard \in Nat /\ heard + 1 \in 1..Len(wire)
      /\ body \in Seq(Nat) /\ wire' = wire /\ heard' = heard + 1
      /\ given \in Seq(Nat) /\ clientLink # "closed"
  BY HeardNext DEF Hears, vars, PlayTypeOK
<1>2. session # NoId
  BY BoundsAssumption DEF SessionId, NoId
<1>3. body # <<>> /\ Follows(body, session, heard)
  <2>1. PICK i \in 1..Len(wire) : i = heard + 1
    BY <1>1
  <2>2. wire[i].body # <<>> /\ Follows(wire[i].body, session, i - 1) /\ i - 1 = heard
    BY <1>1, <2>1 DEF RelayedInOrder
  <2> QED
    BY <2>1, <2>2
<1>4. UpTo(session, heard, Len(given)) /\ Consecutive(given, 0)
  BY <1>1, <1>2 DEF GivenInv
<1>5. body[1] - 1 = Len(given) /\ Consecutive(body, body[1] - 1)
  BY <1>1, <1>3, <1>4, UpToOne DEF Follows
<1>6. Consecutive(given', 0)
  BY <1>1, <1>4, <1>5, ConsecutiveOn
<1>7. Len(given') = body[Len(body)]
  <2>1. /\ Len(given) \in Nat /\ Len(body) \in Nat /\ Len(given') = Len(given) + Len(body)
    BY <1>1
  <2>2. Len(body) \in 1..Len(body)
    BY <1>1, <1>3
  <2>3. body[Len(body)] = Len(given) + Len(body)
    BY <1>5, <2>2 DEF Consecutive
  <2> QED
    BY <2>1, <2>3
<1>8. ASSUME NEW s, s = session', NEW h, h = heard', NEW n, n = Len(given')
      PROVE  UpTo(s, h, n)'
  <2>1. UpTo(s, h, n)
    BY <1>1, <1>7, <1>8, UpToNext
  <2> QED
    BY <1>1, <2>1, UpToSame
<1>9. UpTo(session, heard, Len(given))'
  BY <1>8
<1>10. receiver # "created"
  <2>1. PICK i \in 1..Len(wire) : i = heard + 1
    BY <1>1
  <2>2. IsRequest(i) /\ wire[i].head # "RECORD" /\ wire[i].session = session
    BY <2>1 DEF Brings, Carries, IsRequest
  <2>3. PICK j \in 1..(i - 1) : Announces(j, session)
    BY <2>2 DEF PlayInv, ServerInv, AnnounceInv, AnnouncedFirst
  <2>4. j \in 1..heard
    BY <1>1, <2>1
  <2> QED
    BY <1>1, <1>2, <2>3, <2>4 DEF PlayInv, PlayerInv
<1>11. Consecutive(given, 0)'
  BY <1>6 DEF Consecutive
<1> QED
  BY <1>9, <1>10, <1>11 DEF GivenInv

\* A session begins: nothing of it was relayed before.
LEMMA GivenStart ==
    ASSUME PlayInv, GivenInv, Hears, session = NoId, IsResponse(heard + 1),
           given' = given, receiver' = "created" => receiver = "created"
    PROVE  GivenInv'
<1>1. /\ heard \in Nat /\ wire' = wire /\ heard' = heard + 1 /\ clientLink # "closed"
  BY HeardNext DEF Hears, vars
<1>2. receiver = "created" /\ \A j \in 1..heard : wire[j].session = NoId
  BY <1>1 DEF PlayInv, PlayerInv
<1>3. given = <<>>
  BY <1>2 DEF GivenInv
<1>4. ASSUME NEW s, s = session', s # NoId, NEW h, h = heard', NEW n, n = Len(given')
      PROVE  UpTo(s, h, n)'
  <2>1. n = 0
    BY <1>3, <1>4
  <2>2. \A j \in 1..h : ~Brings(j, s)
    <3>1. \A j \in 1..h : j \in 1..heard \/ j = heard + 1
      BY <1>1, <1>4
    <3>2. ~Brings(heard + 1, s)
      BY DEF Brings, Carries, IsResponse
    <3>3. \A j \in 1..heard : ~Brings(j, s)
      BY <1>2, <1>4 DEF Brings, Carries
    <3> QED
      BY <3>1, <3>2, <3>3
  <2>3. UpTo(s, h, n)
    BY <2>1, <2>2 DEF UpTo
  <2> QED
    BY <1>1, <2>3, UpToSame
<1>5. session' # NoId => UpTo(session, heard, Len(given))'
  BY <1>4
<1>6. Consecutive(given, 0)'
  BY <1>3 DEF Consecutive
<1> QED
  BY <1>3, <1>5, <1>6 DEF GivenInv


-----------------------------------------------------------------------------
(* The candidates of the receiver reach the server's peer.                 *)

\* A message joins the channel, or none.
Joins ==
    \/ toServer' = toServer
    \/ \E q \in ClientsRequest \cup ClientsResponse : toServer' = Append(toServer, q)

LEMMA OffersPast ==
    ASSUME PlayTypeOK, Joins
    PROVE  /\ Len(toServer) \in Nat
           /\ Len(toServer') \in {Len(toServer), Len(toServer) + 1}
           /\ \A i \in 1..Len(toServer) :
                  /\ toServer'[i] = toServer[i]
                  /\ Offers(i)' <=> Offers(i)
                  /\ Offered(i)' = Offered(i)
           /\ \A i \in 1..Len(toServer') :
                  i \notin 1..Len(toServer) => i = Len(toServer) + 1
<1>1. /\ Len(toServer) \in Nat
      /\ Len(toServer') \in {Len(toServer), Len(toServer) + 1}
      /\ \A i \in 1..Len(toServer) : toServer'[i] = toServer[i]
  <2>1. CASE toServer' = toServer
    BY <2>1 DEF PlayTypeOK
  <2>2. CASE toServer' # toServer
    BY <2>2, ChannelGrows DEF Joins
  <2> QED
    BY <2>1, <2>2
<1>2. ASSUME NEW i \in 1..Len(toServer)
      PROVE  (Offers(i)' <=> Offers(i)) /\ Offered(i)' = Offered(i)
  BY <1>1 DEF Offers, Asked, Offered
<1>3. \A i \in 1..Len(toServer') : i \notin 1..Len(toServer) => i = Len(toServer) + 1
  BY <1>1
<1> QED
  BY <1>1, <1>2, <1>3

LEMMA OfferedToPast ==
    ASSUME PlayTypeOK, Joins, applied' = applied,
           NEW s, NEW k \in 0..Len(toServer), NEW n, OfferedTo(s, k, n)
    PROVE  OfferedTo(s, k, n)'
<1>1. /\ Len(toServer) \in Nat
      /\ \A i \in 1..Len(toServer) : (Offers(i)' <=> Offers(i)) /\ Offered(i)' = Offered(i)
  BY OffersPast
<1>2. 1..k \subseteq 1..Len(toServer)
  BY <1>1
<1>3. CASE n = Len(applied[s]) /\ \A i \in 1..k : ~Offers(i)
  BY <1>1, <1>2, <1>3 DEF OfferedTo
<1>4. CASE ~(n = Len(applied[s]) /\ \A i \in 1..k : ~Offers(i))
  <2>1. PICK j \in 1..k : /\ Offers(j) /\ Offered(j) = n
                          /\ \A i \in (j + 1)..k : ~Offers(i)
    BY <1>4 DEF OfferedTo
  <2>2. (j + 1)..k \subseteq 1..Len(toServer) /\ j \in 1..Len(toServer)
    BY <1>1
  <2>3. Offers(j)' /\ Offered(j)' = n /\ \A i \in (j + 1)..k : ~Offers(i)'
    BY <1>1, <2>1, <2>2
  <2> QED
    BY <2>3 DEF OfferedTo
<1> QED
  BY <1>3, <1>4

\* One message more, after the step.
LEMMA OfferedToNext ==
    ASSUME NEW s, NEW k \in Nat, NEW n
    PROVE  /\ OfferedTo(s, k, n)' /\ ~Offers(k + 1)' => OfferedTo(s, k + 1, n)'
           /\ Offers(k + 1)' /\ Offered(k + 1)' = n => OfferedTo(s, k + 1, n)'
<1>1. ASSUME OfferedTo(s, k, n)', ~Offers(k + 1)'
      PROVE  OfferedTo(s, k + 1, n)'
  <2>1. CASE n = Len(applied'[s]) /\ \A i \in 1..k : ~Offers(i)'
    <3>1. \A i \in 1..(k + 1) : i \in 1..k \/ i = k + 1
      OBVIOUS
    <3> QED
      BY <1>1, <2>1, <3>1 DEF OfferedTo
  <2>2. CASE ~(n = Len(applied'[s]) /\ \A i \in 1..k : ~Offers(i)')
    <3>1. PICK j \in 1..k : /\ Offers(j)' /\ Offered(j)' = n
                            /\ \A i \in (j + 1)..k : ~Offers(i)'
      BY <1>1, <2>2 DEF OfferedTo
    <3>2. /\ j \in 1..(k + 1)
          /\ \A i \in (j + 1)..(k + 1) : i \in (j + 1)..k \/ i = k + 1
      OBVIOUS
    <3> QED
      BY <1>1, <3>1, <3>2 DEF OfferedTo
  <2> QED
    BY <2>1, <2>2
<1>2. ASSUME Offers(k + 1)', Offered(k + 1)' = n
      PROVE  OfferedTo(s, k + 1, n)'
  <2>1. k + 1 \in 1..(k + 1) /\ (k + 1 + 1)..(k + 1) = {}
    OBVIOUS
  <2> QED
    BY <1>2, <2>1 DEF OfferedTo
<1> QED
  BY <1>1, <1>2

LEMMA InTurnPast ==
    ASSUME PlayTypeOK, Joins, applied' = applied, NEW i \in 1..Len(toServer), InTurn(i)
    PROVE  InTurn(i)'
<1>1. /\ Len(toServer) \in Nat /\ toServer'[i] = toServer[i] /\ Offered(i)' = Offered(i)
  BY OffersPast
<1>2. PICK s : s = toServer[i].session
  OBVIOUS
<1>3. PICK n : n = Offered(i) - 1
  OBVIOUS
<1>4. i - 1 \in 0..Len(toServer)
  BY <1>1
<1>5. OfferedTo(s, i - 1, n)'
  BY <1>2, <1>3, <1>4, OfferedToPast DEF InTurn
<1>6. OfferedTo(toServer[i].session, i - 1, Offered(i) - 1)'
  BY <1>1, <1>2, <1>3, <1>5
<1> QED
  BY <1>1, <1>6 DEF InTurn

\* What the server's peer has been given.
AppliedInv ==
    \A s \in SessionId : Consecutive(applied[s], 0) /\ (applied[s] # <<>> => Announced(s))

LEMMA AppliedKept ==
    ASSUME AppliedInv, UNCHANGED <<vars, applied>>
    PROVE  AppliedInv'
BY DEF AppliedInv, Consecutive, Announced, vars

\* No candidate is offered.
LEMMA OfferedKept ==
    ASSUME PlayInv, OfferedInv, Joins, UNCHANGED <<vars, applied>>,
           \A i \in 1..Len(toServer') : i = Len(toServer) + 1 => ~Offers(i)',
           clientLink' = "open" => clientLink = "open" /\ UNCHANGED <<session, offered>>
    PROVE  OfferedInv'
<1>1. PlayTypeOK
  BY PlayInvType
<1>2. /\ Len(toServer) \in Nat
      /\ Len(toServer') \in {Len(toServer), Len(toServer) + 1}
      /\ \A i \in 1..Len(toServer) : toServer'[i] = toServer[i] /\ (Offers(i)' <=> Offers(i))
      /\ \A i \in 1..Len(toServer') : i \notin 1..Len(toServer) => i = Len(toServer) + 1
  BY <1>1, OffersPast
<1>3. \A i \in 1..Len(toServer') : Offers(i)' => i \in 1..Len(toServer) /\ Offers(i)
  BY <1>2
<1>4. AppliedInv'
  BY AppliedKept DEF OfferedInv, AppliedInv
<1>5. ASSUME link' # "closed"
      PROVE  /\ \A i \in 1..Len(toServer') : Offers(i)' => InTurn(i)'
             /\ \A i, j \in 1..Len(toServer') :
                    Offers(i)' /\ Offers(j)' => toServer'[i].session = toServer'[j].session
  <2>1. link # "closed"
    BY <1>5 DEF vars
  <2>2. ASSUME NEW i \in 1..Len(toServer'), Offers(i)'
        PROVE  InTurn(i)'
    <3>1. i \in 1..Len(toServer) /\ InTurn(i)
      BY <1>3, <2>1, <2>2 DEF OfferedInv
    <3> QED
      BY <1>1, <3>1, InTurnPast
  <2>3. ASSUME NEW i \in 1..Len(toServer'), NEW j \in 1..Len(toServer'), Offers(i)', Offers(j)'
        PROVE  toServer'[i].session = toServer'[j].session
    <3>1. i \in 1..Len(toServer) /\ Offers(i) /\ j \in 1..Len(toServer) /\ Offers(j)
      BY <1>3, <2>3
    <3> QED
      BY <1>2, <2>1, <3>1 DEF OfferedInv
  <2> QED
    BY <2>2, <2>3
<1>6. ASSUME link' # "closed", clientLink' = "open", session' = NoId
      PROVE  /\ offered' = 0
             /\ \A i \in 1..Len(toServer') : ~Offers(i)'
             /\ \A s \in SessionId : applied'[s] = <<>>
  <2>1. link # "closed" /\ clientLink = "open" /\ session = NoId /\ offered' = offered
    BY <1>6 DEF vars
  <2> QED
    BY <1>3, <2>1 DEF OfferedInv
<1>7. ASSUME link' # "closed", clientLink' = "open", session' # NoId
      PROVE  /\ OfferedTo(session, Len(toServer), offered)'
             /\ \A i \in 1..Len(toServer') : Offers(i)' => toServer'[i].session = session'
  <2>1. link # "closed" /\ clientLink = "open" /\ session # NoId
        /\ offered' = offered /\ session' = session
    BY <1>7 DEF vars
  <2>2. PICK s, k, n : s = session /\ k = Len(toServer) /\ n = offered
    OBVIOUS
  <2>3. OfferedTo(s, k, n)'
    <3>1. OfferedTo(s, k, n) /\ k \in 0..Len(toServer)
      BY <1>2, <2>1, <2>2 DEF OfferedInv
    <3> QED
      BY <1>1, <3>1, OfferedToPast
  <2>4. ASSUME NEW l, l = Len(toServer')
        PROVE  OfferedTo(s, l, n)'
    <3>1. CASE l = k
      BY <2>3, <3>1
    <3>2. CASE l = k + 1
      <4>1. l \in 1..Len(toServer') /\ l = Len(toServer) + 1 /\ k \in Nat
        BY <1>2, <2>2, <2>4, <3>2
      <4> QED
        BY <2>3, <3>2, <4>1, OfferedToNext
    <3> QED
      BY <1>2, <2>2, <2>4, <3>1, <3>2
  <2>5. OfferedTo(session, Len(toServer), offered)'
    BY <2>1, <2>2, <2>4
  <2>6. \A i \in 1..Len(toServer') : Offers(i)' => toServer'[i].session = session'
    BY <1>2, <1>3, <2>1 DEF OfferedInv
  <2> QED
    BY <2>5, <2>6
<1> QED
  BY <1>4, <1>5, <1>6, <1>7 DEF OfferedInv, AppliedInv

\* The receiver offers its next candidate.
LEMMA OfferedMore ==
    ASSUME PlayInv, OfferedInv, clientLink = "open", session # NoId,
           UNCHANGED <<vars, applied, session, clientLink>>, offered' = offered + 1,
           NEW q \in ClientsRequest, q.head = "SETUP", q.session = session,
           q.body = <<offered + 1>>, toServer' = Append(toServer, q)
    PROVE  OfferedInv'
<1>1. PlayTypeOK /\ Joins /\ offered \in Nat
  BY PlayInvType DEF Joins, PlayTypeOK
<1>2. /\ Len(toServer) \in Nat /\ Len(toServer') = Len(toServer) + 1
      /\ \A i \in 1..Len(toServer) : toServer'[i] = toServer[i] /\ (Offers(i)' <=> Offers(i))
      /\ \A i \in 1..Len(toServer') : i \in 1..Len(toServer) \/ i = Len(toServer')
      /\ toServer'[Len(toServer')] = q
  BY <1>1, OffersPast, ChannelGrows
<1>3. \A i \in 1..Len(toServer') : i = Len(toServer') => Offers(i)' /\ Offered(i)' = offered + 1
  BY <1>2 DEF Offers, Asked, Offered, ClientsRequest
<1>4. AppliedInv'
  BY AppliedKept DEF OfferedInv, AppliedInv
<1>5. CASE link' = "closed"
  BY <1>4, <1>5 DEF OfferedInv, AppliedInv
<1>6. CASE link' # "closed"
  <2>1. link # "closed"
    BY <1>6 DEF vars
  <2>2. \A i \in 1..Len(toServer') : Offers(i)' => toServer'[i].session = session
    BY <1>2, <2>1 DEF OfferedInv
  <2>3. PICK s, k, l, n : /\ s = session /\ n = offered
                          /\ k = Len(toServer) /\ l = Len(toServer')
    OBVIOUS
  <2>4. OfferedTo(s, k, n) /\ k \in 0..Len(toServer) /\ k \in Nat /\ l = k + 1
    BY <1>2, <2>1, <2>3 DEF OfferedInv
  <2>5. OfferedTo(s, k, n)'
    BY <1>1, <2>4, OfferedToPast
  <2>6. l \in 1..Len(toServer') /\ Offers(l)' /\ Offered(l)' = n + 1
    BY <1>2, <1>3, <2>3
  <2>7. OfferedTo(s, l, n + 1)'
    <3>1. PICK n1 : n1 = n + 1
      OBVIOUS
    <3>2. OfferedTo(s, l, n1)'
      BY <2>4, <2>6, <3>1, OfferedToNext
    <3> QED
      BY <3>1, <3>2
  <2>8. OfferedTo(session, Len(toServer), offered)'
    BY <2>3, <2>7
  <2>9. ASSUME NEW i \in 1..Len(toServer'), Offers(i)'
        PROVE  InTurn(i)'
    <3>1. CASE i \in 1..Len(toServer)
      <4>1. InTurn(i)
        BY <1>2, <2>1, <2>9, <3>1 DEF OfferedInv
      <4> QED
        BY <1>1, <3>1, <4>1, InTurnPast
    <3>2. CASE i = l
      <4>1. toServer'[i].session = s /\ Len(toServer'[i].body) = 1
        <5>1. toServer'[i] = q
          BY <1>2, <2>3, <3>2
        <5>2. Len(<<offered + 1>>) = 1
          OBVIOUS
        <5> QED
          BY <2>3, <5>1, <5>2
      <4>2. i - 1 = k /\ Offered(i)' - 1 = n
        BY <1>1, <2>3, <2>4, <2>6, <3>2
      <4>3. OfferedTo(toServer[i].session, i - 1, Offered(i) - 1)'
        BY <2>5, <4>1, <4>2
      <4> QED
        BY <4>1, <4>3 DEF InTurn
    <3> QED
      BY <1>2, <2>3, <3>1, <3>2
  <2>10. \A i, j \in 1..Len(toServer') :
             Offers(i)' /\ Offers(j)' => toServer'[i].session = toServer'[j].session
    BY <2>2
  <2>11. session' = session /\ session' # NoId
    OBVIOUS
  <2> QED
    BY <1>4, <2>2, <2>8, <2>9, <2>10, <2>11 DEF OfferedInv, AppliedInv
<1> QED
  BY <1>5, <1>6

\* A session begins: nothing was offered before.
LEMMA OfferedStart ==
    ASSUME PlayInv, OfferedInv, clientLink = "open", session = NoId, session' \in SessionId,
           UNCHANGED <<vars, applied, toServer, offered>>
    PROVE  OfferedInv'
<1>1. PlayTypeOK /\ session' # NoId /\ Len(toServer) \in Nat
  BY PlayInvType, BoundsAssumption DEF SessionId, NoId, PlayTypeOK
<1>2. AppliedInv'
  BY AppliedKept DEF OfferedInv, AppliedInv
<1>3. CASE link' = "closed"
  BY <1>2, <1>3 DEF OfferedInv, AppliedInv
<1>4. CASE link' # "closed"
  <2>1. link # "closed"
    BY <1>4 DEF vars
  <2>2. /\ offered' = 0
        /\ \A i \in 1..Len(toServer) : ~Offers(i)
        /\ \A s \in SessionId : applied'[s] = <<>>
    BY <2>1 DEF OfferedInv
  <2>3. \A i \in 1..Len(toServer') : ~Offers(i)'
    BY <2>2 DEF Offers, Asked
  <2>4. Len(applied'[session']) = 0
    BY <2>2
  <2>5. ASSUME NEW s, s = session', NEW k, k = Len(toServer'), NEW n, n = offered'
        PROVE  OfferedTo(s, k, n)'
    BY <2>2, <2>3, <2>4, <2>5 DEF OfferedTo
  <2>6. OfferedTo(session, Len(toServer), offered)'
    BY <2>5
  <2> QED
    BY <1>1, <1>2, <2>3, <2>6 DEF OfferedInv, AppliedInv
<1> QED
  BY <1>3, <1>4

-----------------------------------------------------------------------------
(* The client's steps.                                                     *)

\* Nothing is offered.
OffersNothing ==
    Joins /\ \A i \in 1..Len(toServer') : i = Len(toServer) + 1 => ~Offers(i)'

LEMMA SilentOffersNothing ==
    ASSUME PlayTypeOK, toServer' = toServer
    PROVE  OffersNothing
<1>1. Len(toServer) \in Nat
  BY DEF PlayTypeOK
<1> QED
  BY <1>1 DEF OffersNothing, Joins

LEMMA AppendOffersNothing ==
    ASSUME PlayTypeOK, NEW q \in ClientsRequest \cup ClientsResponse,
           ~(q.kind = "request" /\ q.head = "SETUP"), toServer' = Append(toServer, q)
    PROVE  OffersNothing
<1>1. Len(toServer') = Len(toServer) + 1 /\ toServer'[Len(toServer')] = q
  BY ChannelGrows
<1>2. \A i \in 1..Len(toServer') : i = Len(toServer) + 1 => ~Offers(i)'
  BY <1>1 DEF Offers, Asked
<1> QED
  BY <1>2 DEF OffersNothing, Joins

LEMMA AnswerOffersNothing ==
    ASSUME PlayTypeOK, NEW m, m.cseq \in Nat, m.session \in Nat, Client!ClientResponds(m)
    PROVE  OffersNothing
<1> DEFINE q == [kind |-> "response", head |-> "OK", cseq |-> m.cseq,
                 session |-> m.session, body |-> <<>>]
<1>1. q \in ClientsResponse /\ q.kind = "response"
  BY DEF ClientsResponse
<1>2. toServer' = IF clientLink = "open" THEN toServer \o <<q>> ELSE toServer
  BY DEF Client!ClientResponds, Client!Send, Client!ClientMessage
<1>3. toServer \o <<q>> = Append(toServer, q)
  BY <1>1 DEF PlayTypeOK
<1> HIDE DEF q
<1> QED
  BY <1>1, <1>2, <1>3, SilentOffersNothing, AppendOffersNothing

LEMMA RequestOffersNothing ==
    ASSUME PlayTypeOK, NEW settled, NEW method \in ClientHeads \ {"SETUP"}, NEW s \in Nat,
           Client!RequestAfter(settled, method, s, <<>>)
    PROVE  OffersNothing
<1>1. PICK q : Asks(q, settled, method, s)
  <2>1. <<>> \in Seq(Nat)
    OBVIOUS
  <2> QED
    BY <2>1, RequestMade
<1> QED
  BY <1>1, SilentOffersNothing, AppendOffersNothing DEF Asks

\* The client closes the connection.
LEMMA ClosingKeepsOrder ==
    ASSUME PlayInv, GivenInv, OfferedInv, UNCHANGED <<vars, applied>>, Client!ClientClose
    PROVE  GivenInv' /\ OfferedInv'
<1>1. clientLink' = "closed" /\ toServer' = toServer /\ PlayTypeOK
  BY PlayInvType DEF Client!ClientClose
<1>2. OffersNothing
  BY <1>1, SilentOffersNothing
<1> QED
  BY <1>1, <1>2, GivenClosed, OfferedKept DEF OffersNothing

LEMMA iceCandidateKeepsOffered ==
    ASSUME PlayInv, OfferedInv, clientLink # "closed", Client!iceCandidate,
           UNCHANGED <<vars, applied>>
    PROVE  OfferedInv'
<1>1. /\ receiver # "created" /\ offered' = offered + 1
      /\ Client!ClientRequest("SETUP", session, <<offered + 1>>)
      /\ UNCHANGED <<session, clientLink>>
  BY DEF Client!iceCandidate
<1>2. PlayTypeOK /\ session \in Nat /\ <<offered + 1>> \in Seq(Nat) /\ cseq \in Nat
  BY PlayInvType DEF PlayTypeOK
<1>3. session # NoId
  BY <1>1, ReceiverHasSession
<1> DEFINE q == [kind |-> "request", head |-> "SETUP", cseq |-> cseq,
                 session |-> session, body |-> <<offered + 1>>]
<1>4. /\ q \in ClientsRequest
      /\ q.head = "SETUP" /\ q.session = session /\ q.body = <<offered + 1>>
  BY <1>2 DEF ClientsRequest, ClientHeads
<1>5. toServer' = IF clientLink = "open" THEN toServer \o <<q>> ELSE toServer
  BY <1>1 DEF Client!ClientRequest, Client!RequestAfter, Client!Send, Client!ClientMessage
<1>6. toServer \o <<q>> = Append(toServer, q)
  BY <1>2, <1>4 DEF PlayTypeOK
<1> HIDE DEF q
<1>7. CASE clientLink = "open"
  BY <1>1, <1>3, <1>4, <1>5, <1>6, <1>7, OfferedMore
<1>8. CASE clientLink # "open"
  <2>1. OffersNothing
    BY <1>2, <1>5, <1>8, SilentOffersNothing
  <2> QED
    BY <1>1, <1>8, <2>1, OfferedKept DEF OffersNothing
<1> QED
  BY <1>7, <1>8

LEMMA GivenStays ==
    ASSUME PlayInv, GivenInv, UNCHANGED <<vars, heard>>, UNCHANGED <<session, given>>,
           receiver' = "created" => receiver = "created",
           clientLink' # "closed" => clientLink # "closed"
    PROVE  GivenInv'
<1>1. UNCHANGED <<vars, session, given>>
  OBVIOUS
<1>2. heard' = heard \/ (heard' = heard + 1 /\ ~Brings(heard + 1, session))
  OBVIOUS
<1> QED
  BY <1>1, <1>2, GivenKept

LEMMA receiverPreparedKeepsOrder ==
    ASSUME PlayInv, GivenInv, OfferedInv, Client!receiverPrepared,
           UNCHANGED <<vars, heard, applied>>
    PROVE  GivenInv' /\ OfferedInv'
<1>1. /\ receiver' = "prepared" /\ UNCHANGED <<session, offered, given>>
      /\ PlayTypeOK /\ session \in Nat
  BY PlayInvType DEF Client!receiverPrepared, PlayTypeOK
<1>2. OffersNothing
  <2>1. CASE toServer' = toServer
    BY <1>1, <2>1, SilentOffersNothing
  <2>2. CASE Client!ClientResponds([cseq |-> recordRequestCSeq, session |-> session])
    <3>1. recordRequestCSeq \in Nat
      BY <1>1 DEF PlayTypeOK
    <3> QED
      BY <1>1, <2>2, <3>1, AnswerOffersNothing
  <2>3. CASE Client!ClientRequest("PLAY", session, <<>>)
    BY <1>1, <2>3, RequestOffersNothing DEF Client!ClientRequest, ClientHeads
  <2> QED
    BY <2>1, <2>2, <2>3 DEF Client!receiverPrepared
<1>3. /\ clientLink' # "closed" => clientLink # "closed"
      /\ clientLink' = "open" => clientLink = "open"
  BY DEF Client!receiverPrepared, Client!ClientDisconnect
<1>4. GivenInv'
  BY <1>1, <1>3, GivenStays
<1>5. OfferedInv'
  BY <1>1, <1>2, <1>3, OfferedKept DEF OffersNothing
<1> QED
  BY <1>4, <1>5

LEMMA OwnStepsKeepOrder ==
    ASSUME PlayInv, GivenInv, OfferedInv, ClientActs
    PROVE  GivenInv' /\ OfferedInv'
<1>1. UNCHANGED <<vars, heard, applied>> /\ PlayTypeOK
  BY PlayInvType DEF ClientActs
<1>2. receiver \in {"preparing", "prepared"} => clientLink # "closed"
  BY DEF PlayInv, ReceiverInv
<1>3. CASE Client!receiverPrepared
  BY <1>1, <1>3, receiverPreparedKeepsOrder
<1>4. CASE Client!iceCandidate
  <2>1. UNCHANGED <<receiver, session, clientLink, given>> /\ clientLink # "closed"
    BY <1>2, <1>4 DEF Client!iceCandidate
  <2>2. GivenInv'
    BY <1>1, <2>1, GivenStays
  <2>3. OfferedInv'
    BY <1>1, <1>4, <2>1, iceCandidateKeepsOffered
  <2> QED
    BY <2>2, <2>3
<1>5. CASE Client!eos
  <2>1. UNCHANGED <<receiver, session, offered, given, toServer>> /\ clientLink' # "open"
        /\ (clientLink' # "closed" => clientLink # "closed")
    BY <1>5 DEF Client!eos, Client!ClientDisconnect
  <2>2. GivenInv'
    BY <1>1, <2>1, GivenStays
  <2>3. OffersNothing
    BY <1>1, <2>1, SilentOffersNothing
  <2>4. OfferedInv'
    BY <1>1, <2>1, <2>3, OfferedKept DEF OffersNothing
  <2> QED
    BY <2>2, <2>4
<1>6. CASE Client!ClientWriteable \/ Client!ClientConnectionLost
  BY <1>1, <1>6, ClosingKeepsOrder DEF Client!ClientWriteable, Client!ClientConnectionLost
<1> QED
  BY <1>3, <1>4, <1>5, <1>6 DEF ClientActs, Client!ClientOwnStep

\* What the server names is a session it made.
LEMMA HeardSession ==
    ASSUME PlayInv, Hears, wire[heard + 1].session # NoId
    PROVE  wire[heard + 1].session \in SessionId
<1>1. PICK i \in 1..Len(wire) : i = heard + 1
  BY HeardNext
<1>2. wire[i].session \in Nat /\ wire[i].session < nextSessionId
  BY PlayInvType DEF IdsInv
<1> QED
  BY <1>1, <1>2, PlayInvType, BoundsAssumption DEF TypeOK, SessionId, NoId

\* A message that is read changes neither what was given nor what is offered.
LEMMA ListeningKeepsOrder ==
    ASSUME PlayInv, GivenInv, OfferedInv, Hears, OffersNothing,
           ~Brings(heard + 1, session), UNCHANGED <<session, given, offered, clientLink>>,
           receiver' = "created" => receiver = "created"
    PROVE  GivenInv' /\ OfferedInv'
<1>1. UNCHANGED <<vars, session, given>> /\ UNCHANGED <<vars, applied>>
  BY DEF Hears
<1>2. heard' = heard \/ (heard' = heard + 1 /\ ~Brings(heard + 1, session))
  BY DEF Hears
<1>3. GivenInv'
  BY <1>1, <1>2, GivenKept
<1>4. OfferedInv'
  BY <1>1, OfferedKept DEF OffersNothing
<1> QED
  BY <1>3, <1>4

LEMMA onRecordRequestKeepsOrder ==
    ASSUME PlayInv, GivenInv, OfferedInv, Hears, NEW m, m = wire[heard + 1],
           m.head = "RECORD", Client!onRecordRequest(m)
    PROVE  GivenInv' /\ OfferedInv'
<1>1. CASE Client!ClientClose
  BY <1>1, ClosingKeepsOrder DEF Hears
<1>2. CASE m.session = session
  <2>1. receiver' = "preparing" /\ UNCHANGED <<session, offered, given, clientLink, toServer>>
    BY <1>2 DEF Client!onRecordRequest
  <2>2. ~Brings(heard + 1, session)
    BY DEF Brings, Carries
  <2>3. OffersNothing
    BY <2>1, PlayInvType, SilentOffersNothing
  <2> QED
    BY <2>1, <2>2, <2>3, ListeningKeepsOrder
<1> QED
  BY <1>1, <1>2 DEF Client!onRecordRequest

LEMMA onSetupRequestKeepsGiven ==
    ASSUME PlayInv, GivenInv, OfferedInv, RelayedInOrder, Hears,
           NEW m, m = wire[heard + 1], m.kind = "request", m.head = "SETUP",
           Client!onSetupRequest(m)
    PROVE  GivenInv' /\ OfferedInv'
<1>1. CASE Client!ClientClose
  BY <1>1, ClosingKeepsOrder DEF Hears
<1>2. CASE m.session = session
  <2>1. /\ given' = given \o m.body /\ Client!ClientResponds(m)
        /\ UNCHANGED <<receiver, session, offered, clientLink>>
    BY <1>2 DEF Client!onSetupRequest
  <2>2. PlayTypeOK /\ heard + 1 \in 1..Len(wire) /\ m.cseq \in Nat /\ m.session \in Nat
    BY HeardNext
  <2>3. Brings(heard + 1, session)
    BY <1>2 DEF Brings, Carries
  <2>4. session \in SessionId
    <3>1. m.session # NoId
      BY <2>2 DEF PlayInv, WireInv, IsRequest
    <3> QED
      BY <1>2, <3>1, HeardSession
  <2>5. GivenInv'
    BY <2>1, <2>3, <2>4, GivenMore
  <2>6. OffersNothing
    BY <2>1, <2>2, AnswerOffersNothing
  <2>7. UNCHANGED <<vars, applied>>
    BY DEF Hears
  <2>8. OfferedInv'
    BY <2>1, <2>6, <2>7, OfferedKept DEF OffersNothing
  <2> QED
    BY <2>5, <2>8
<1> QED
  BY <1>1, <1>2 DEF Client!onSetupRequest

LEMMA NewSessionKeepsOrder ==
    ASSUME PlayInv, GivenInv, OfferedInv, Hears, NEW m, m = wire[heard + 1],
           m.kind = "response", m.session # NoId,
           NEW r \in pending, r.head \in {"DESCRIBE", "SUBSCRIBE"},
           session' = m.session, receiver' = "preparing" \/ receiver' = receiver,
           UNCHANGED <<offered, given, clientLink, toServer>>
    PROVE  GivenInv' /\ OfferedInv'
<1>1. clientLink # "closed" /\ UNCHANGED <<vars, applied>> /\ heard + 1 \in 1..Len(wire)
  BY HeardNext DEF Hears
<1>2. session = NoId /\ clientLink = "open"
  BY <1>1 DEF PlayInv, PlayerInv
<1>3. GivenInv'
  <2>1. IsResponse(heard + 1)
    BY DEF IsResponse
  <2> QED
    BY <1>2, <2>1, GivenStart
<1>4. session' \in SessionId
  BY HeardSession
<1>5. OfferedInv'
  BY <1>1, <1>2, <1>4, OfferedStart
<1> QED
  BY <1>3, <1>5

LEMMA HearsKeepsOrder ==
    ASSUME PlayInv, GivenInv, OfferedInv, RelayedInOrder, ClientHears
    PROVE  GivenInv' /\ OfferedInv'
<1> DEFINE m == wire[heard + 1]
<1>1. Hears /\ Client!ClientReceives(m)
  BY PlayInvType DEF ClientHears, Hears, Client!ClientReceives
<1>2. Client!ClientClose => GivenInv' /\ OfferedInv'
  BY <1>1, ClosingKeepsOrder DEF Hears
<1>3. CASE m.kind = "request" /\ Client!ClientHandleRequest(m)
  <2>1. CASE m.head = "RECORD" /\ Client!onRecordRequest(m)
    BY <1>1, <2>1, onRecordRequestKeepsOrder
  <2>2. CASE m.head = "SETUP" /\ Client!onSetupRequest(m)
    BY <1>1, <1>3, <2>2, onSetupRequestKeepsGiven
  <2> QED
    BY <1>2, <1>3, <2>1, <2>2 DEF Client!ClientHandleRequest
<1>4. CASE m.kind = "response" /\ Client!ClientHandleResponse(m)
  <2>1. ~Brings(heard + 1, session) /\ PlayTypeOK /\ Client!NoSessionId = NoId
    BY <1>4, PlayInvType DEF Brings, Carries, Client!NoSessionId, NoId
  <2>2. ASSUME NEW r \in pending, Client!onOptionsResponse(r, m), ~Client!ClientClose
        PROVE  GivenInv' /\ OfferedInv'
    <3>1. PICK method \in {"DESCRIBE", "SUBSCRIBE"} :
              Client!RequestAfter({r}, method, NoId, <<>>)
      BY <2>1, <2>2 DEF Client!onOptionsResponse
    <3>2. UNCHANGED <<receiver, session, offered, given, clientLink>>
      BY <2>2 DEF Client!onOptionsResponse
    <3>3. OffersNothing
      <4>1. method \in ClientHeads \ {"SETUP"} /\ NoId \in Nat
        BY DEF ClientHeads, NoId
      <4> QED
        BY <2>1, <3>1, <4>1, RequestOffersNothing
    <3> QED
      BY <1>1, <2>1, <3>2, <3>3, ListeningKeepsOrder
  <2>3. ASSUME NEW r \in pending, r.head \in {"DESCRIBE", "SUBSCRIBE"}, ~Client!ClientClose,
               IF r.head = "DESCRIBE" THEN Client!onDescribeResponse(r, m)
               ELSE Client!onSubscribeResponse(r, m)
        PROVE  GivenInv' /\ OfferedInv'
    <3>1. /\ m.session # NoId /\ session' = m.session
          /\ receiver' = "preparing" \/ receiver' = receiver
          /\ UNCHANGED <<offered, given, clientLink, toServer>>
      BY <2>1, <2>3 DEF Client!onDescribeResponse, Client!onSubscribeResponse
    <3> QED
      BY <1>1, <1>4, <2>3, <3>1, NewSessionKeepsOrder
  <2>4. ASSUME NEW r \in pending, r.head \in {"SETUP", "PLAY"}, ~Client!ClientClose,
               IF r.head = "SETUP" THEN Client!onSetupResponse(r, m)
               ELSE Client!onPlayResponse(r, m)
        PROVE  GivenInv' /\ OfferedInv'
    <3>1. UNCHANGED <<receiver, session, offered, given, clientLink, toServer>>
      BY <2>4 DEF Client!onSetupResponse, Client!onPlayResponse
    <3>2. OffersNothing
      BY <2>1, <3>1, SilentOffersNothing
    <3> QED
      BY <1>1, <2>1, <3>1, <3>2, ListeningKeepsOrder
  <2> QED
    BY <1>2, <1>4, <2>2, <2>3, <2>4 DEF Client!ClientHandleResponse
<1> QED
  BY <1>1, <1>3, <1>4 DEF Client!ClientReceives

-----------------------------------------------------------------------------
(* The server's steps.                                                     *)

\* What the server does with the candidate it reads, if it reads one.
Applies(d) ==
    /\ ~(d = 1 /\ Offers(1)) => applied' = applied
    /\ d = 1 /\ Offers(1) =>
           LET s == toServer[1].session IN
           /\ s \in SessionId /\ Announced(s)
           /\ applied' = [applied EXCEPT ![s] = @ \o toServer[1].body]

LEMMA OffersTaken ==
    ASSUME NEW d, Takes(d)
    PROVE  \A i \in 1..Len(toServer') :
               /\ i + d \in 1..Len(toServer) /\ toServer'[i] = toServer[i + d]
               /\ Offers(i)' <=> Offers(i + d)
               /\ Offered(i)' = Offered(i + d)
BY DEF Takes, Offers, Asked, Offered

\* A message less: what the first of them brought has been applied.
LEMMA OfferedToTaken ==
    ASSUME NEW d, Takes(d), NEW s, NEW k \in Nat, k <= Len(toServer'), NEW n,
           OfferedTo(s, k + d, n),
           ~(d = 1 /\ Offers(1)) => applied'[s] = applied[s],
           d = 1 /\ Offers(1) => Len(applied'[s]) = Offered(1)
    PROVE  OfferedTo(s, k, n)'
<1>1. /\ d \in {0, 1} /\ Len(toServer) \in Nat /\ Len(toServer') = Len(toServer) - d
      /\ d = 1 => 1 \in 1..Len(toServer)
  BY DEF Takes
<1>2. /\ 1..k \subseteq 1..Len(toServer')
      /\ \A i \in 1..k : i + d \in 1..(k + d)
  BY <1>1
<1>3. \A i \in 1..k : (Offers(i)' <=> Offers(i + d)) /\ Offered(i)' = Offered(i + d)
  BY <1>2, OffersTaken
<1>4. CASE n = Len(applied[s]) /\ \A i \in 1..(k + d) : ~Offers(i)
  <2>1. ~(d = 1 /\ Offers(1))
    <3>1. d = 1 => 1 \in 1..(k + d)
      BY <1>1
    <3> QED
      BY <1>4, <3>1
  <2>2. n = Len(applied'[s]) /\ \A i \in 1..k : ~Offers(i)'
    BY <1>2, <1>3, <1>4, <2>1
  <2> QED
    BY <2>2 DEF OfferedTo
<1>5. CASE ~(n = Len(applied[s]) /\ \A i \in 1..(k + d) : ~Offers(i))
  <2>1. PICK j \in 1..(k + d) : /\ Offers(j) /\ Offered(j) = n
                                /\ \A i \in (j + 1)..(k + d) : ~Offers(i)
    BY <1>5 DEF OfferedTo
  <2>2. CASE j - d \in 1..k
    <3>1. PICK l \in 1..k : j = l + d
      <4>1. j = (j - d) + d
        BY <1>1
      <4> QED
        BY <2>2, <4>1
    <3>2. \A i \in (l + 1)..k : i \in 1..k /\ i + d \in (j + 1)..(k + d)
      BY <1>1, <3>1
    <3>3. Offers(l)' /\ Offered(l)' = n /\ \A i \in (l + 1)..k : ~Offers(i)'
      BY <1>3, <2>1, <3>1, <3>2
    <3> QED
      BY <3>3 DEF OfferedTo
  <2>3. CASE j - d \notin 1..k
    <3>1. d = 1 /\ j = 1
      BY <1>1, <2>3
    <3>2. \A i \in 1..k : i + d \in (j + 1)..(k + d)
      BY <1>1, <3>1
    <3>3. n = Len(applied'[s]) /\ \A i \in 1..k : ~Offers(i)'
      BY <1>3, <2>1, <3>1, <3>2
    <3> QED
      BY <3>3 DEF OfferedTo
  <2> QED
    BY <2>2, <2>3
<1> QED
  BY <1>4, <1>5

\* The candidate that is applied is the next one of its session.
LEMMA AppliesNext ==
    ASSUME TypeOK, PlayTypeOK, OfferedInv, link # "closed", Takes(1), Offers(1), Applies(1)
    PROVE  LET s == toServer[1].session IN
           /\ Len(applied'[s]) = Offered(1)
           /\ Consecutive(applied'[s], 0)
           /\ \A t \in SessionId : t # s => applied'[t] = applied[t]
<1>1. PICK s \in SessionId : s = toServer[1].session
  BY DEF Applies
<1>2. PICK body : body = toServer[1].body
  OBVIOUS
<1>3. /\ 1 \in 1..Len(toServer) /\ toServer[1] \in ClientsRequest \cup ClientsResponse
      /\ applied \in [SessionId -> Seq(Nat)]
  BY DEF Takes, PlayTypeOK
<1>4. /\ body \in Seq(Nat) /\ applied[s] \in Seq(Nat)
      /\ applied'[s] = applied[s] \o body
      /\ \A t \in SessionId : t # s => applied'[t] = applied[t]
  BY <1>1, <1>2, <1>3 DEF Applies, ClientsRequest, ClientsResponse
<1>5. Len(body) = 1 /\ OfferedTo(s, 1 - 1, Offered(1) - 1) /\ Offered(1) = body[1]
  <2>1. InTurn(1)
    BY <1>3 DEF OfferedInv
  <2>2. Len(body) = 1 /\ OfferedTo(s, 1 - 1, Offered(1) - 1)
    BY <1>1, <1>2, <2>1, Zenon DEF InTurn
  <2> QED
    BY <1>2, <2>2 DEF Offered
<1>6. body[1] \in Nat /\ body[1] - 1 = Len(applied[s])
  <2>1. body[1] \in Nat
    <3>1. body \in Seq(Nat) /\ Len(body) = 1
      BY <1>4, <1>5
    <3> QED
      BY <3>1
  <2>2. 1..(1 - 1) = {}
    OBVIOUS
  <2>3. Offered(1) - 1 = Len(applied[s])
    BY <1>5, <2>2 DEF OfferedTo
  <2> QED
    BY <1>5, <2>1, <2>3
<1>7. Len(applied'[s]) = body[1]
  <2>1. Len(applied[s] \o body) = Len(applied[s]) + Len(body) /\ Len(applied[s]) \in Nat
    BY <1>4
  <2> QED
    BY <1>4, <1>5, <1>6, <2>1
<1>8. Consecutive(body, Len(applied[s]))
  <2>1. ASSUME NEW i \in 1..Len(body)
        PROVE  body[i] = Len(applied[s]) + i
    <3>1. i = 1 /\ Len(applied[s]) \in Nat
      BY <1>4, <1>5
    <3> QED
      BY <1>6, <3>1
  <2> QED
    BY <2>1 DEF Consecutive
<1>9. Consecutive(applied[s], 0)
  BY DEF OfferedInv
<1>10. Consecutive(applied[s] \o body, 0)
  BY <1>4, <1>8, <1>9, ConsecutiveOn
<1> QED
  BY <1>1, <1>4, <1>5, <1>7, <1>10

LEMMA OfferedServes ==
    ASSUME TypeOK, PlayTypeOK, OfferedInv, NEW d, Takes(d),
           UNCHANGED <<session, offered, clientLink>>,
           link' # "closed" => link # "closed" /\ Applies(d),
           link' = "closed" => applied' = applied,
           \A s : Announced(s) => Announced(s)'
    PROVE  OfferedInv'
<1>1. /\ d \in {0, 1} /\ Len(toServer) \in Nat /\ Len(toServer') = Len(toServer) - d
      /\ d = 1 => 1 \in 1..Len(toServer)
  BY DEF Takes
<1>2. \A i \in 1..Len(toServer') :
          /\ i + d \in 1..Len(toServer) /\ toServer'[i] = toServer[i + d]
          /\ Offers(i)' <=> Offers(i + d)
          /\ Offered(i)' = Offered(i + d)
  BY OffersTaken
<1>3. CASE link' = "closed"
  <2>1. AppliedInv'
    BY <1>3 DEF OfferedInv, AppliedInv, Consecutive
  <2> QED
    BY <1>3, <2>1 DEF OfferedInv, AppliedInv
<1>4. CASE link' # "closed"
  <2>1. link # "closed" /\ Applies(d)
    BY <1>4
  <2>2. d = 1 /\ Offers(1) =>
            LET s == toServer[1].session IN
            /\ s \in SessionId /\ Announced(s)
            /\ Len(applied'[s]) = Offered(1)
            /\ Consecutive(applied'[s], 0)
            /\ \A t \in SessionId : t # s => applied'[t] = applied[t]
    BY <2>1, AppliesNext DEF Applies
  <2>3. ~(d = 1 /\ Offers(1)) => applied' = applied
    BY <2>1 DEF Applies
  <2>4. AppliedInv'
    <3>1. ASSUME NEW s \in SessionId
          PROVE  Consecutive(applied'[s], 0) /\ (applied'[s] # <<>> => Announced(s)')
      <4>1. CASE d = 1 /\ Offers(1) /\ s = toServer[1].session
        BY <2>2, <4>1
      <4>2. CASE ~(d = 1 /\ Offers(1) /\ s = toServer[1].session)
        <5>1. applied'[s] = applied[s]
          BY <2>2, <2>3, <4>2
        <5> QED
          BY <5>1 DEF OfferedInv
      <4> QED
        BY <4>1, <4>2
    <3>2. \A s \in SessionId : Consecutive(applied[s], 0)'
      BY <3>1 DEF Consecutive
    <3> QED
      BY <3>1, <3>2 DEF AppliedInv
  <2>5. \A i, j \in 1..Len(toServer) :
            Offers(i) /\ Offers(j) => toServer[i].session = toServer[j].session
    BY <2>1 DEF OfferedInv
  <2>6. \A i, j \in 1..Len(toServer') :
            Offers(i)' /\ Offers(j)' => toServer'[i].session = toServer'[j].session
    BY <1>2, <2>5
  <2>7. ASSUME NEW s, d = 1 /\ Offers(1) => s = toServer[1].session,
               NEW k \in Nat, k <= Len(toServer'), NEW n, OfferedTo(s, k + d, n)
        PROVE  OfferedTo(s, k, n)'
    <3>1. /\ ~(d = 1 /\ Offers(1)) => applied'[s] = applied[s]
          /\ d = 1 /\ Offers(1) => Len(applied'[s]) = Offered(1)
      BY <2>2, <2>3, <2>7
    <3> QED
      BY <2>7, <3>1, OfferedToTaken
  <2>8. ASSUME NEW i \in 1..Len(toServer'), Offers(i)'
        PROVE  InTurn(i)'
    <3>1. i + d \in 1..Len(toServer) /\ Offers(i + d) /\ toServer'[i] = toServer[i + d]
          /\ Offered(i)' = Offered(i + d)
      BY <1>2, <2>8
    <3>2. InTurn(i + d)
      BY <2>1, <3>1 DEF OfferedInv
    <3>3. PICK s, k, n : s = toServer'[i].session /\ k = i - 1 /\ n = Offered(i)' - 1
      OBVIOUS
    <3>4. k \in Nat /\ k <= Len(toServer') /\ k + d = (i + d) - 1
      BY <1>1, <3>3
    <3>5. OfferedTo(s, k + d, n) /\ Len(toServer'[i].body) = 1
      BY <3>1, <3>2, <3>3, <3>4 DEF InTurn
    <3>6. d = 1 /\ Offers(1) => s = toServer[1].session
      BY <1>1, <2>5, <3>1, <3>3
    <3>7. OfferedTo(s, k, n)'
      BY <2>7, <3>4, <3>5, <3>6
    <3>8. OfferedTo(toServer[i].session, i - 1, Offered(i) - 1)'
      BY <3>3, <3>7
    <3> QED
      BY <3>5, <3>8 DEF InTurn
  <2>9. ASSUME clientLink' = "open", session' = NoId
        PROVE  /\ offered' = 0
               /\ \A i \in 1..Len(toServer') : ~Offers(i)'
               /\ \A s \in SessionId : applied'[s] = <<>>
    <3>1. /\ offered = 0
          /\ \A i \in 1..Len(toServer) : ~Offers(i)
          /\ \A s \in SessionId : applied[s] = <<>>
      BY <2>1, <2>9 DEF OfferedInv
    <3>2. applied' = applied
      BY <1>1, <2>3, <3>1
    <3> QED
      BY <1>2, <3>1, <3>2
  <2>10. ASSUME clientLink' = "open", session' # NoId
         PROVE  /\ OfferedTo(session, Len(toServer), offered)'
                /\ \A i \in 1..Len(toServer') : Offers(i)' => toServer'[i].session = session'
    <3>1. /\ OfferedTo(session, Len(toServer), offered)
          /\ \A i \in 1..Len(toServer) : Offers(i) => toServer[i].session = session
      BY <2>1, <2>10 DEF OfferedInv
    <3>2. \A i \in 1..Len(toServer') : Offers(i)' => toServer'[i].session = session'
      BY <1>2, <3>1
    <3>3. PICK s, k, n : s = session /\ k = Len(toServer') /\ n = offered
      OBVIOUS
    <3>4. k \in Nat /\ k <= Len(toServer') /\ k + d = Len(toServer)
      BY <1>1, <3>3
    <3>5. OfferedTo(s, k + d, n)
      BY <3>1, <3>3, <3>4
    <3>6. d = 1 /\ Offers(1) => s = toServer[1].session
      BY <1>1, <3>1, <3>3
    <3>7. OfferedTo(s, k, n)'
      BY <2>7, <3>4, <3>5, <3>6
    <3>8. OfferedTo(session, Len(toServer), offered)'
      BY <3>3, <3>7
    <3> QED
      BY <3>2, <3>8
  <2> QED
    BY <2>4, <2>6, <2>8, <2>9, <2>10 DEF OfferedInv, AppliedInv
<1> QED
  BY <1>3, <1>4

LEMMA onSubscribeRequestKeepsOrder ==
    ASSUME TypeOK, TypeOK', IdsInv, CandidateInv, onSubscribeRequest
    PROVE  CandidateInv'
<1> DEFINE session1 == NewSession("Subscribe", InvalidCSeq)
           m == Response("OK", Len(inbox) + 1, nextSessionId)
<1>1. /\ Answer("OK", nextSessionId) /\ gathered' = gathered
      /\ nextSessionId \in Nat /\ Len(inbox) + 1 \in Nat /\ "OK" \in Statuses
  BY NextIdNat DEF onSubscribeRequest, Statuses, TypeOK
<1>2. Idles
  <2>1. CASE CreateMediaSession(session1) /\ UNCHANGED link
    <3>1. session1 \in MediaSession
      BY NewSessionType DEF AllTypes, InvalidCSeq
    <3>2. ~session1.prepared /\ session1.remote = 0 /\ session1.queue = <<>>
      BY DEF NewSession, NoSession
    <3> HIDE DEF session1
    <3> QED
      BY <1>1, <2>1, <3>1, <3>2, CreateIdles
  <2>2. CASE /\ disconnect
             /\ nextSessionId' = nextSessionId + 1
             /\ UNCHANGED mediaSessions
    BY <1>1, <2>2 DEF disconnect, Idles, Rests, Live
  <2> QED
    BY <2>1, <2>2 DEF onSubscribeRequest
<1>3. m \in Message /\ m.kind = "response" /\ Emit(<<m>>)
  BY <1>1, ResponseType DEF Answer, Response
<1> HIDE DEF m
<1> QED
  BY <1>2, <1>3, SpeakingIdles

LEMMA ServerHandlesKeepsOrder ==
    ASSUME TypeOK, TypeOK', IdsInv, CandidateInv, PlayTypeOK, ServerReceives
    PROVE  CandidateInv'
<1>1. PICK m \in ClientsRequest \cup ClientsResponse : m = toServer[1]
  BY HeadMessage DEF ServerReceives
<1>2. ServerHandles(m) /\ m.session \in Nat
  BY <1>1, HeadMessage DEF ServerReceives, ClientsRequest, ClientsResponse
<1>3. CASE handleResponse(m.cseq, m.head = "OK")
  BY <1>3, handleResponseKeepsOrder
<1>4. CASE onOptionsRequest \/ onDescribeRequest
  BY <1>4, ClientStepKeepsOrder DEF ClientStep
<1>5. CASE onSubscribeRequest
  BY <1>5, onSubscribeRequestKeepsOrder
<1>6. CASE onPlayRequest(m.session)
  BY <1>2, <1>6, onPlayRequestKeepsOrder
<1>7. CASE onSetupRequest(m.session, Body(m))
  BY <1>2, <1>7, onSetupRequestKeepsOrder
<1> QED
  BY <1>2, <1>3, <1>4, <1>5, <1>6, <1>7 DEF ServerHandles, Body

\* What the client has named is still named.
LEMMA NamedStays ==
    ASSUME TypeOK, TypeOK', NEW new, NEW d, ServerTurn(new, d)
    PROVE  \A s : Announced(s) => Announced(s)'
<1>1. \A i \in 1..Len(wire) : wire'[i] = wire[i] /\ i \in 1..Len(wire')
  BY PastKept DEF ServerTurn, PlayStep, SpeaksStep
<1> QED
  BY <1>1 DEF Announced

\* The step that the server takes, one message read or none.
LEMMA TurnKeepsOrder ==
    ASSUME TypeOK, TypeOK', PlayTypeOK, GivenInv, OfferedInv, NEW new, NEW d, ServerTurn(new, d),
           link' # "closed" => Applies(d),
           link' = "closed" => applied' = applied
    PROVE  GivenInv' /\ OfferedInv'
<1>1. /\ Takes(d)
      /\ link' # "closed" => link # "closed"
      /\ UNCHANGED <<receiver, session, given, clientLink, heard>>
      /\ UNCHANGED <<session, offered, clientLink>>
  BY DEF ServerTurn
<1>2. new \in Seq(Message) /\ wire' = wire \o new
  BY DEF ServerTurn, PlayStep, SpeaksStep, Grows
<1>3. GivenInv'
  BY <1>1, <1>2, GivenTurn
<1>4. OfferedInv'
  <2>1. \A s : Announced(s) => Announced(s)'
    BY NamedStays
  <2>2. link' # "closed" => link # "closed" /\ Applies(d)
    BY <1>1
  <2> QED
    BY <1>1, <2>1, <2>2, OfferedServes
<1> QED
  BY <1>3, <1>4

LEMMA ServerReceivesKeepsOrder ==
    ASSUME PlayInv, CandidateInv, GivenInv, OfferedInv, ServerReceives
    PROVE  CandidateInv' /\ GivenInv' /\ OfferedInv'
<1>1. ServerInv /\ TypeOK /\ IdsInv /\ PlayTypeOK /\ WireInv /\ ChannelInv
  BY DEF PlayInv, ServerInv
<1>2. ServesWell
  BY <1>1, ServerHandlesServes
<1>3. TypeOK' /\ PlaySteps
  BY <1>2 DEF ServesWell
<1>4. PICK new : ServerTurn(new, 1)
  BY <1>1, <1>3, ReceivesTurn
<1>5. CandidateInv'
  BY <1>1, <1>3, ServerHandlesKeepsOrder
<1>6. PICK m : m = toServer[1]
  OBVIOUS
<1>7. /\ ServerHandles(m) /\ 1 \in 1..Len(toServer)
      /\ applied' = IF m.kind = "request" /\ m.head = "SETUP" /\ link' # "closed"
                    THEN [applied EXCEPT ![m.session] = @ \o m.body]
                    ELSE applied
  BY <1>1, <1>6, HeadMessage DEF ServerReceives
<1>8. Offers(1) <=> m.kind = "request" /\ m.head = "SETUP"
  BY <1>6 DEF Offers, Asked
<1>9. ASSUME link' # "closed", Offers(1)
      PROVE  m.session \in SessionId /\ Announced(m.session)
  <2>1. onSetupRequest(m.session, Body(m))
    BY <1>7, <1>8, <1>9 DEF ServerHandles, Body
  <2>2. m.session \in SessionId
    BY <1>9, <2>1 DEF onSetupRequest, Reject, Close, Live
  <2>3. m.session \in KnownToClient
    <3>1. Heard(m.session)
      BY <1>1, <1>6, <1>7, <1>9 DEF ChannelInv, Offers
    <3> QED
      BY <1>1, <3>1, HeardIsKnown
  <2>4. NoId \notin SessionId
    BY BoundsAssumption DEF NoId, SessionId
  <2> QED
    BY <2>2, <2>3, <2>4 DEF KnownToClient
<1>10. link' # "closed" => Applies(1)
  BY <1>6, <1>7, <1>8, <1>9 DEF Applies
<1>11. link' = "closed" => applied' = applied
  BY <1>7
<1>12. GivenInv' /\ OfferedInv'
  BY <1>1, <1>3, <1>4, <1>10, <1>11, TurnKeepsOrder
<1> QED
  BY <1>5, <1>12

LEMMA ServerOwnStepKeepsOrder ==
    ASSUME PlayInv, CandidateInv, GivenInv, OfferedInv, ServerOwnStep
    PROVE  CandidateInv' /\ GivenInv' /\ OfferedInv'
<1>1. ServerInv /\ TypeOK /\ IdsInv /\ PlayTypeOK
  BY DEF PlayInv, ServerInv
<1>2. ServesWell
  BY <1>1, ServerOwnStepServes
<1>3. TypeOK' /\ PlaySteps
  BY <1>2 DEF ServesWell
<1>4. PICK new : ServerTurn(new, 0)
  BY <1>1, <1>3, OwnStepTurn
<1>5. CandidateInv'
  <2>1. CASE \E s \in SessionId : PeerCallback(s)
    BY <1>1, <1>3, <2>1, PeerCallbackKeepsOrder
  <2>2. CASE Writeable \/ ConnectionLost
    BY <1>1, <1>3, <2>2, CloseKeepsOrder DEF Writeable, ConnectionLost
  <2> QED
    BY <2>1, <2>2 DEF ServerOwnStep
<1>6. applied' = applied
  BY DEF ServerOwnStep
<1>7. Applies(0)
  BY <1>6 DEF Applies
<1>8. GivenInv' /\ OfferedInv'
  BY <1>1, <1>3, <1>4, <1>6, <1>7, TurnKeepsOrder
<1> QED
  BY <1>5, <1>8

-----------------------------------------------------------------------------
(* The candidates of both sides.                                           *)

LEMMA PlayOrderInitial ==
    ASSUME PlayInit
    PROVE  PlayOrderInv
<1>1. /\ Init /\ heard = 0 /\ applied = [s \in SessionId |-> <<>>]
      /\ session = 0 /\ offered = 0 /\ given = <<>> /\ clientLink = "open"
  BY DEF PlayInit, Client!ClientInit, Client!SignallingInit, Client!NoSessionId
<1>2. CandidateInv
  BY <1>1, CandidateInit
<1>3. Len(<<>>) = 0
  OBVIOUS
<1>4. GivenInv
  BY <1>1, <1>3 DEF GivenInv, Consecutive, NoId
<1>5. \A i \in 1..Len(toServer) : ~Offers(i)
  <2>1. Len(toServer) = 1 /\ toServer[1].head = "OPTIONS"
    BY DEF PlayInit, Client!ClientInit, Client!SignallingInit, Client!ClientMessage
  <2> QED
    BY <2>1 DEF Offers
<1>6. OfferedInv
  BY <1>1, <1>3, <1>5 DEF OfferedInv, Consecutive, NoId
<1> QED
  BY <1>2, <1>4, <1>6 DEF PlayOrderInv

\* The server's candidates do not change with the client.
LEMMA ClientKeepsOrder ==
    ASSUME PlayInv, CandidateInv, UNCHANGED vars
    PROVE  CandidateInv'
<1>1. TypeOK /\ IdsInv
  BY PlayInvType
<1>2. TypeOK'
  BY <1>1, TypeStep
<1>3. Idles /\ wire' = wire
  BY <1>1, NextIdNat DEF vars, Idles, Rests, Live
<1> QED
  BY <1>1, <1>2, <1>3, QuietIdles

LEMMA PlayOrderKept ==
    ASSUME PlayInv, PlayOrderInv, [PlayNext]_playVars
    PROVE  PlayOrderInv'
<1>1. CandidateInv /\ GivenInv /\ OfferedInv /\ RelayedInOrder
  BY DEF PlayOrderInv, CandidateInv
<1>2. CASE ServerReceives
  BY <1>1, <1>2, ServerReceivesKeepsOrder DEF PlayOrderInv
<1>3. CASE ServerOwnStep
  BY <1>1, <1>3, ServerOwnStepKeepsOrder DEF PlayOrderInv
<1>4. CASE ClientHears
  <2>1. UNCHANGED vars
    BY <1>4 DEF ClientHears
  <2> QED
    BY <1>1, <1>4, <2>1, ClientKeepsOrder, HearsKeepsOrder DEF PlayOrderInv
<1>5. CASE ClientActs
  <2>1. UNCHANGED vars
    BY <1>5 DEF ClientActs
  <2> QED
    BY <1>1, <1>5, <2>1, ClientKeepsOrder, OwnStepsKeepOrder DEF PlayOrderInv
<1>6. CASE UNCHANGED playVars
  <2>1. /\ UNCHANGED <<vars, heard, applied>>
        /\ UNCHANGED <<receiver, session, offered, given, clientLink, toServer>>
    BY <1>6 DEF playVars, clientVars
  <2>2. GivenInv'
    BY <1>1, <2>1, GivenStays
  <2>3. OffersNothing
    BY <2>1, PlayInvType, SilentOffersNothing
  <2>4. OfferedInv'
    BY <1>1, <2>1, <2>3, OfferedKept DEF OffersNothing
  <2>5. CandidateInv'
    BY <1>1, <2>1, ClientKeepsOrder
  <2> QED
    BY <2>2, <2>4, <2>5 DEF PlayOrderInv
<1> QED
  BY <1>2, <1>3, <1>4, <1>5, <1>6 DEF PlayNext

LEMMA FromTheFirst ==
    ASSUME NEW a \in Seq(Nat), Consecutive(a, 0)
    PROVE  a = [i \in 1..Len(a) |-> i]
<1>1. a = [i \in 1..Len(a) |-> a[i]]
  OBVIOUS
<1>2. \A i \in 1..Len(a) : a[i] = i
  BY DEF Consecutive
<1> QED
  BY <1>1, <1>2

LEMMA InStepFollows ==
    ASSUME PlayInv, PlayOrderInv
    PROVE  CandidatesInStep
<1>1. PlayTypeOK /\ GivenInv /\ OfferedInv /\ OpenInv
  BY DEF PlayInv, PlayOrderInv
<1>2. given \in Seq(Nat) /\ Consecutive(given, 0) /\ (given # <<>> => receiver # "created")
  BY <1>1 DEF PlayTypeOK, GivenInv
<1>3. given = [i \in 1..Len(given) |-> i]
  BY <1>2, FromTheFirst
<1>4. ASSUME NEW s \in SessionId
      PROVE  /\ applied[s] = [i \in 1..Len(applied[s]) |-> i]
             /\ applied[s] # <<>> => Live(s) \/ Ended(s) # {} \/ link # "open"
  <2>1. applied[s] \in Seq(Nat) /\ Consecutive(applied[s], 0)
    BY <1>1 DEF PlayTypeOK, OfferedInv
  <2>2. applied[s] # <<>> => Announced(s)
    BY <1>1 DEF OfferedInv
  <2>3. applied[s] = [i \in 1..Len(applied[s]) |-> i]
    BY <2>1, FromTheFirst
  <2> QED
    BY <1>1, <2>2, <2>3 DEF OpenInv
<1> QED
  BY <1>2, <1>3, <1>4 DEF CandidatesInStep

\* The invariant of the candidates on their way in both directions.
THEOREM PlayOrderInvariant == PlaySpec => []PlayOrderInv
<1>1. PlayInit => PlayInv /\ PlayOrderInv
  BY PlayInitial, PlayOrderInitial
<1>2. PlayInv /\ PlayOrderInv /\ [PlayNext]_playVars => (PlayInv /\ PlayOrderInv)'
  BY PlayInvKept, PlayOrderKept
<1> QED
  BY <1>1, <1>2, PTL DEF PlaySpec

\* The receiver is given the server's candidates, and the server's peer the
\* receiver's, in order and each once; the receiver is given none before
\* prepare() (ClientSession::onSetupRequest 347 does not check it).
THEOREM CandidatesAlwaysInStep == PlaySpec => []CandidatesInStep
<1>1. PlayInv /\ PlayOrderInv => CandidatesInStep
  BY InStepFollows
<1> QED
  BY <1>1, PlayInvariant, PlayOrderInvariant, PTL

=============================================================================
