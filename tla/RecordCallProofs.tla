-------------------------- MODULE RecordCallProofs --------------------------
(***************************************************************************)
(* Proofs about RecordCall, for every bound: the two ends of a recording   *)
(* stay in step and agree on their session, drop the connection only when  *)
(* a message crosses the end of a session, and every candidate reaches the *)
(* peer of its session in its turn.                                        *)
(***************************************************************************)
EXTENDS RecordCallProps, ServerSessionProofs, FiniteSetTheorems

-----------------------------------------------------------------------------
(* The server keeps what it guarantees every client.                       *)

LEMMA HeardIsKnown ==
    ASSUME ServerInv, CallTypeOK, NEW s, Heard(s)
    PROVE  s \in KnownToClient
<1>1. PICK j \in 1..heard : wire[j].session = s
  BY DEF Heard
<1>2. j \in 1..Len(wire)
  BY <1>1 DEF CallTypeOK
<1>3. wire[j] \in Message
  BY <1>2 DEF ServerInv, TypeOK
<1>4. s \in Nat /\ s < nextSessionId
  BY <1>1, <1>2, <1>3 DEF ServerInv, SilenceInv, IdsInv, Message
<1>5. s = NoId \/ s \in SessionId
  BY <1>4, BoundsAssumption DEF ServerInv, TypeOK, SessionId, NoId
<1> QED
  BY <1>1, <1>2, <1>5 DEF KnownToClient, Announced

LEMMA RequestsKnown ==
    ASSUME ServerInv, CallTypeOK, ChannelInv, toServer # <<>>,
           Asked(1), toServer[1].head \in {"SETUP", "TEARDOWN"}
    PROVE  toServer[1].session \in KnownToClient
<1>1. 1 \in 1..Len(toServer)
  BY DEF CallTypeOK
<1>2. Heard(toServer[1].session)
  BY <1>1 DEF ChannelInv
<1> QED
  BY <1>2, HeardIsKnown

LEMMA ServerInvNext ==
    ASSUME ServerInv, [Next]_vars
    PROVE  ServerInv'
BY TypeStep, DialogStep, SilenceStep DEF ServerInv

LEMMA ServerInvSetup ==
    ASSUME ServerInv, NEW s \in KnownToClient, NEW body \in SetupBody, onSetupRequest(s, body)
    PROVE  ServerInv'
<1>1. TypeOK'
  BY onSetupRequestType DEF ServerInv
<1>2. AnswerInv' /\ AnnounceInv'
  <2>1. PICK new : AnswerStep(new) /\ AnnounceStep(new)
    BY onSetupRequestStep DEF Steps, ServerInv
  <2> QED
    BY <1>1, <2>1, AnswerInvStep, AnnounceInvStep DEF ServerInv
<1>3. SilenceInv'
  <2>1. PICK new : TalkStep(new)
    BY SetupTalks DEF Talks, ServerInv, SilenceInv
  <2> QED
    BY <1>1, <2>1, TalkStepKeeps DEF ServerInv
<1> QED
  BY <1>1, <1>2, <1>3 DEF ServerInv

\* The message at the head of the channel, and what it is handled as.
LEMMA HeadMessage ==
    ASSUME CallTypeOK, toServer # <<>>
    PROVE  /\ Head(toServer) = toServer[1]
           /\ toServer[1] \in ClientsRequest \cup ClientsResponse
           /\ Len(toServer) \in Nat \ {0}
           /\ 1 \in 1..Len(toServer)
           /\ Tail(toServer) \in Seq(ClientsRequest \cup ClientsResponse)
           /\ Len(Tail(toServer)) = Len(toServer) - 1
           /\ \A i \in 1..Len(Tail(toServer)) :
                  i + 1 \in 1..Len(toServer) /\ Tail(toServer)[i] = toServer[i + 1]
<1>1. toServer \in Seq(ClientsRequest \cup ClientsResponse)
  BY DEF CallTypeOK
<1> QED
  BY <1>1

Body(m) == [lines |-> Len(m.body), malformed |-> FALSE]

LEMMA BodyType ==
    ASSUME NEW m \in ClientsRequest \cup ClientsResponse
    PROVE  Body(m) \in SetupBody
<1>1. m.body \in Seq(Candidate)
  BY DEF ClientsRequest, ClientsResponse
<1>2. Len(m.body) \in Nat
  BY <1>1
<1> QED
  BY <1>2 DEF Body, SetupBody

LEMMA ServerInvHandles ==
    ASSUME ServerInv, CallTypeOK, WireInv, ChannelInv, ServerReceives
    PROVE  ServerInv'
<1> DEFINE m == toServer[1]
<1>1. /\ Head(toServer) = m
      /\ m \in ClientsRequest \cup ClientsResponse
      /\ toServer # <<>>
      /\ ServerHandles(m)
  BY HeadMessage DEF ServerReceives
<1>2. CASE m.kind = "response"
  <2>1. handleResponse(m.cseq, m.head = "OK")
    BY <1>1, <1>2 DEF ServerHandles
  <2>2. PICK i \in 1..Len(wire) : wire[i].kind = "request" /\ wire[i].cseq = m.cseq
    BY <2>1 DEF handleResponse
  <2>3. m.cseq \in 1..(nextCSeq - 1)
    BY <2>2 DEF WireInv, IsRequest
  <2>4. ClientStep
    BY <2>1, <2>3 DEF ClientStep
  <2> QED
    BY <2>4, ServerInvNext DEF Next
<1>3. CASE m.kind = "request"
  <2>1. m.head \in {"SETUP", "TEARDOWN"} => m.session \in KnownToClient
    BY <1>1, <1>3, RequestsKnown DEF Asked
  <2>2. \/ m.head = "OPTIONS" /\ onOptionsRequest
        \/ m.head = "RECORD" /\ onRecordRequest
        \/ m.head = "TEARDOWN" /\ onTeardownRequest(m.session)
        \/ m.head = "SETUP" /\ onSetupRequest(m.session, Body(m))
    BY <1>1, <1>3 DEF ServerHandles, Body
  <2>3. CASE m.head = "SETUP" /\ onSetupRequest(m.session, Body(m))
    BY <1>1, <2>1, <2>3, BodyType, ServerInvSetup
  <2>4. CASE \/ onOptionsRequest
             \/ onRecordRequest
             \/ m.head = "TEARDOWN" /\ onTeardownRequest(m.session)
    <3>1. ClientStep
      BY <2>1, <2>4 DEF ClientStep
    <3> QED
      BY <3>1, ServerInvNext DEF Next
  <2> QED
    BY <2>2, <2>3, <2>4
<1> QED
  BY <1>1, <1>2, <1>3 DEF ServerHandles

LEMMA ServerInvStep ==
    ASSUME ServerInv, CallTypeOK, WireInv, ChannelInv, [CallNext]_callVars
    PROVE  ServerInv'
<1>1. CASE ServerReceives
  BY <1>1, ServerInvHandles
<1>2. CASE ServerOwnStep
  BY <1>2, ServerInvNext DEF ServerOwnStep, Next
<1>3. CASE UNCHANGED vars
  BY <1>3, ServerInvNext
<1> QED
  BY <1>1, <1>2, <1>3 DEF CallNext, callVars, ClientHears, ClientActs

-----------------------------------------------------------------------------
(* What a step of the server does, in terms of the messages "new" that it  *)
(* appends to the wire.                                                    *)

\* The answer to a RECORD is the first to name its session; every other
\* names the session of its request.
RightAnswer(m) ==
    /\ m.cseq \in 1..Len(inbox')
    /\ IF inbox'[m.cseq].method = "RECORD"
       THEN /\ m.head \in {"OK", "BAD_GATEWAY"}
            /\ m.session # NoId
            /\ ~Announced(m.session)
       ELSE /\ m.head = "OK"
            /\ m.session = inbox'[m.cseq].session

NewRequest(r) ==
    /\ r.head \in {"SETUP", "TEARDOWN"}
    /\ r.cseq = nextCSeq
    /\ nextCSeq' = nextCSeq + 1

\* At most one response, first, and at most one request, last.
SpeaksStep(new) ==
    /\ Grows(new)
    /\ nextCSeq <= nextCSeq'
    /\ \A c \in 1..Len(inbox') : c \notin 1..Len(inbox) => inbox'[c].method \in ClientHeads
    /\ \A k \in 1..Len(new) :
           /\ new[k].kind = "response" => k = 1 /\ RightAnswer(new[k])
           /\ new[k].kind = "request" => k = Len(new) /\ NewRequest(new[k])

GoesOn(s, new) ==
    /\ Live(s)
    /\ mediaSessions'[s].type = mediaSessions[s].type
    /\ mediaSessions'[s].cseq = mediaSessions[s].cseq
    /\ mediaSessions[s].prepared => mediaSessions'[s].prepared
    /\ \A k \in 1..Len(new) :
           new[k].kind = "response" /\ new[k].cseq = mediaSessions[s].cseq
               => new[k].session = s

\* Session s was created by the RECORD of this step.
Recorded(s, new) ==
    /\ s = nextSessionId
    /\ new = <<>>
    /\ mediaSessions'[s].type = "Record"
    /\ Len(inbox') = Len(inbox) + 1
    /\ mediaSessions'[s].cseq = Len(inbox')
    /\ inbox'[Len(inbox')].method = "RECORD"

\* While the connection lasts, no session ends unsaid.
KeepsStep(new) ==
    /\ \A s \in SessionId : Live(s)' => GoesOn(s, new) \/ Recorded(s, new)
    /\ link' = "open" =>
           /\ link = "open"
           /\ \A s \in SessionId : Live(s) /\ ~Live(s)' =>
                  \E k \in 1..Len(new) : new[k].session = s /\ EndsSession(new[k], inbox')
           /\ \A k \in 1..Len(new) : new[k].session = NoId \/ Live(new[k].session)

\* The requests the server waits for grow by the one it makes.
AsksStep(new) ==
    /\ \A r \in sentRequests' :
           r \in sentRequests \/ (r.head \in {"SETUP", "TEARDOWN"} /\ r.cseq < nextCSeq')
    /\ \A k \in 1..Len(new) : new[k].kind = "request" => new[k] \in sentRequests'

CallStep(new) == SpeaksStep(new) /\ KeepsStep(new) /\ AsksStep(new)

LEMMA WireInvStep ==
    ASSUME TypeOK, TypeOK', WireInv, NEW new, CallStep(new)
    PROVE  WireInv'
<1>1. SpeaksStep(new) /\ KeepsStep(new) /\ Grows(new)
  BY DEF CallStep, SpeaksStep
<1>2. /\ Len(inbox) \in Nat /\ Len(inbox') \in Nat /\ Len(inbox) <= Len(inbox')
      /\ Len(wire) \in Nat /\ Len(new) \in Nat /\ Len(wire') = Len(wire) + Len(new)
      /\ \A c \in 1..Len(inbox) : inbox'[c] = inbox[c] /\ c \in 1..Len(inbox')
      /\ \A i \in 1..Len(wire) : wire'[i] = wire[i] /\ i \in 1..Len(wire')
      /\ \A k \in 1..Len(new) : wire'[Len(wire) + k] = new[k]
      /\ \A i \in 1..Len(wire') : i \in 1..Len(wire)
             \/ \E k \in 1..Len(new) : i = Len(wire) + k
  BY <1>1, PastKept
<1>3. nextCSeq \in Nat \ {0} /\ nextCSeq' \in Nat /\ nextCSeq <= nextCSeq'
  BY <1>1 DEF TypeOK, SpeaksStep
<1>4. ASSUME NEW i \in 1..Len(wire'), i \notin 1..Len(wire)
      PROVE  \E k \in 1..Len(new) : i = Len(wire) + k /\ wire'[i] = new[k]
  BY <1>2, <1>4
<1>5. ASSUME NEW i \in 1..Len(wire), IsRequest(i)'
      PROVE  /\ wire'[i].head \in {"SETUP", "TEARDOWN"}
             /\ wire'[i].cseq \in 1..(nextCSeq - 1)
  BY <1>2, <1>5 DEF WireInv, IsRequest
<1>6. ASSUME NEW i \in 1..Len(wire'), i \notin 1..Len(wire), IsRequest(i)'
      PROVE  /\ wire'[i].head \in {"SETUP", "TEARDOWN"}
             /\ wire'[i].cseq = nextCSeq
             /\ nextCSeq' = nextCSeq + 1
             /\ i = Len(wire')
  <2>1. PICK k \in 1..Len(new) : i = Len(wire) + k /\ wire'[i] = new[k]
    BY <1>4, <1>6
  <2>2. k = Len(new) /\ NewRequest(new[k])
    BY <1>1, <1>6, <2>1 DEF SpeaksStep, IsRequest
  <2> QED
    BY <1>2, <2>1, <2>2 DEF NewRequest
<1>7. \A i \in 1..Len(wire') : IsRequest(i)' =>
          wire'[i].head \in {"SETUP", "TEARDOWN"} /\ wire'[i].cseq \in 1..(nextCSeq' - 1)
  BY <1>3, <1>5, <1>6
<1>8. ASSUME NEW i \in 1..Len(wire'), NEW j \in 1..Len(wire'),
             i < j, IsRequest(i)', IsRequest(j)'
      PROVE  wire'[i].cseq < wire'[j].cseq
  <2>1. i \in 1..Len(wire)
    BY <1>2, <1>6, <1>8
  <2>2. CASE j \in 1..Len(wire)
    BY <1>2, <1>8, <2>1, <2>2 DEF WireInv, IsRequest
  <2>3. CASE j \notin 1..Len(wire)
    BY <1>3, <1>5, <1>6, <1>8, <2>1, <2>3
  <2> QED
    BY <2>2, <2>3
<1>9. \A c \in 1..Len(inbox') : inbox'[c].method \in ClientHeads
  BY <1>1, <1>2 DEF WireInv, SpeaksStep
<1>10. ASSUME NEW i \in 1..Len(wire'), IsResponse(i)'
       PROVE  /\ wire'[i].cseq \in 1..Len(inbox')
              /\ IF inbox'[wire'[i].cseq].method = "RECORD"
                 THEN /\ wire'[i].head \in {"OK", "BAD_GATEWAY"}
                      /\ wire'[i].session # NoId
                      /\ \A j \in 1..(i - 1) : wire'[j].session # wire'[i].session
                 ELSE /\ wire'[i].head = "OK"
                      /\ wire'[i].session = inbox'[wire'[i].cseq].session
  <2>1. CASE i \in 1..Len(wire)
    <3>1. /\ wire'[i] = wire[i] /\ IsResponse(i)
          /\ wire[i].cseq \in 1..Len(inbox)
      BY <1>2, <1>10, <2>1 DEF WireInv, IsResponse
    <3>2. inbox'[wire[i].cseq] = inbox[wire[i].cseq] /\ wire[i].cseq \in 1..Len(inbox')
      BY <1>2, <3>1
    <3>3. \A j \in 1..(i - 1) : wire'[j] = wire[j]
      BY <1>2, <2>1
    <3>4. IF inbox[wire[i].cseq].method = "RECORD"
          THEN /\ wire[i].head \in {"OK", "BAD_GATEWAY"}
               /\ wire[i].session # NoId
               /\ \A j \in 1..(i - 1) : wire[j].session # wire[i].session
          ELSE /\ wire[i].head = "OK"
               /\ wire[i].session = inbox[wire[i].cseq].session
      BY <2>1, <3>1 DEF WireInv
    <3> QED
      BY <3>1, <3>2, <3>3, <3>4
  <2>2. CASE i \notin 1..Len(wire)
    <3>1. PICK k \in 1..Len(new) : i = Len(wire) + k /\ wire'[i] = new[k]
      BY <1>4, <2>2
    <3>2. k = 1 /\ RightAnswer(new[k])
      BY <1>1, <1>10, <3>1 DEF SpeaksStep, IsResponse
    <3>3. \A j \in 1..(i - 1) : j \in 1..Len(wire) /\ wire'[j] = wire[j]
      BY <1>2, <3>1, <3>2
    <3> QED
      BY <3>1, <3>2, <3>3 DEF RightAnswer, Announced
  <2> QED
    BY <2>1, <2>2
<1>11. ASSUME link' = "open", NEW s \in SessionId, Announced(s)'
       PROVE  Live(s)' \/ Ended(s)' # {}
  <2>1. ASSUME Live(s), ~Live(s)'
        PROVE  Ended(s)' # {}
    <3>1. PICK k \in 1..Len(new) : new[k].session = s /\ EndsSession(new[k], inbox')
      BY <1>1, <1>11, <2>1 DEF KeepsStep
    <3>2. Len(wire) + k \in Ended(s)'
      BY <1>1, <3>1, EndsKept
    <3> QED
      BY <3>2
  <2>2. ASSUME Ended(s) # {}
        PROVE  Ended(s)' # {}
    <3>1. \A e \in Ended(s) : e \in Ended(s)'
      BY <1>1, EndsKept
    <3> QED
      BY <2>2, <3>1
  <2>3. PICK i \in 1..Len(wire') : wire'[i].session = s
    BY <1>11 DEF Announced
  <2>4. CASE i \in 1..Len(wire)
    <3>1. Announced(s)
      BY <1>2, <2>3, <2>4 DEF Announced
    <3> QED
      BY <1>1, <1>11, <2>1, <2>2, <3>1 DEF WireInv, KeepsStep
  <2>5. CASE i \notin 1..Len(wire)
    <3>1. PICK k \in 1..Len(new) : new[k].session = s
      BY <1>4, <2>3, <2>5
    <3>2. Live(s)
      BY <1>1, <1>11, <3>1, BoundsAssumption DEF KeepsStep, SessionId, NoId
    <3> QED
      BY <2>1, <3>2
  <2> QED
    BY <2>4, <2>5
<1> QED
  BY <1>7, <1>8, <1>9, <1>10, <1>11 DEF WireInv

LEMMA RecordedInvStep ==
    ASSUME TypeOK, TypeOK', WireInv, RecordedInv, NEW new, CallStep(new)
    PROVE  RecordedInv'
<1>1. SpeaksStep(new) /\ KeepsStep(new) /\ Grows(new)
  BY DEF CallStep, SpeaksStep
<1>2. /\ Len(inbox) \in Nat /\ Len(inbox') \in Nat /\ Len(inbox) <= Len(inbox')
      /\ Len(wire) \in Nat /\ Len(new) \in Nat /\ Len(wire') = Len(wire) + Len(new)
      /\ \A c \in 1..Len(inbox) : inbox'[c] = inbox[c] /\ c \in 1..Len(inbox')
      /\ \A i \in 1..Len(wire) : wire'[i] = wire[i]
      /\ \A k \in 1..Len(new) : wire'[Len(wire) + k] = new[k]
      /\ \A i \in 1..Len(wire') : i \in 1..Len(wire)
             \/ \E k \in 1..Len(new) : i = Len(wire) + k
  BY <1>1, PastKept
<1>3. ASSUME NEW s \in SessionId, Live(s)'
      PROVE  /\ mediaSessions'[s].type = "Record"
             /\ mediaSessions'[s].cseq \in 1..Len(inbox')
             /\ inbox'[mediaSessions'[s].cseq].method = "RECORD"
             /\ \A i \in 1..Len(wire') :
                    IsResponse(i)' /\ wire'[i].cseq = mediaSessions'[s].cseq
                        => wire'[i].session = s
  <2> DEFINE c == mediaSessions'[s].cseq
  <2>1. CASE GoesOn(s, new)
    <3>1. /\ mediaSessions'[s].type = "Record" /\ c = mediaSessions[s].cseq
          /\ c \in 1..Len(inbox) /\ inbox[c].method = "RECORD"
      BY <2>1 DEF GoesOn, RecordedInv
    <3>2. ASSUME NEW i \in 1..Len(wire'), wire'[i].kind = "response", wire'[i].cseq = c
          PROVE  wire'[i].session = s
      <4>1. CASE i \in 1..Len(wire)
        <5>1. wire'[i] = wire[i]
          BY <1>2, <4>1
        <5>2. \A h \in 1..Len(wire) :
                  wire[h].kind = "response" /\ wire[h].cseq = mediaSessions[s].cseq
                      => wire[h].session = s
          BY <2>1 DEF GoesOn, RecordedInv, IsResponse
        <5> QED
          BY <3>1, <3>2, <4>1, <5>1, <5>2
      <4>2. CASE i \notin 1..Len(wire)
        <5>1. PICK k \in 1..Len(new) : wire'[i] = new[k]
          BY <1>2, <4>2
        <5> QED
          BY <2>1, <3>1, <3>2, <5>1 DEF GoesOn
      <4> QED
        BY <4>1, <4>2
    <3> QED
      BY <1>2, <3>1, <3>2 DEF IsResponse
  <2>2. CASE Recorded(s, new)
    <3>1. ASSUME NEW i \in 1..Len(wire'), wire'[i].kind = "response"
          PROVE  wire'[i].cseq # c
      BY <1>2, <2>2, <3>1 DEF Recorded, WireInv, IsResponse
    <3> QED
      BY <1>2, <2>2, <3>1 DEF Recorded, IsResponse
  <2> QED
    BY <1>1, <1>3, <2>1, <2>2 DEF KeepsStep
<1>4. ASSUME NEW s \in SessionId, NEW t \in SessionId, Live(s)', Live(t)',
             mediaSessions'[s].cseq = mediaSessions'[t].cseq
      PROVE  s = t
  <2>1. ASSUME NEW u \in SessionId, GoesOn(u, new)
        PROVE  mediaSessions'[u].cseq \in 1..Len(inbox)
    BY <2>1 DEF GoesOn, RecordedInv
  <2>2. ASSUME NEW u \in SessionId, Recorded(u, new)
        PROVE  mediaSessions'[u].cseq \notin 1..Len(inbox) /\ u = nextSessionId
    BY <1>2, <2>2 DEF Recorded
  <2>3. /\ GoesOn(s, new) \/ Recorded(s, new)
        /\ GoesOn(t, new) \/ Recorded(t, new)
    BY <1>1, <1>4 DEF KeepsStep
  <2>4. CASE GoesOn(s, new) /\ GoesOn(t, new)
    BY <1>4, <2>4 DEF GoesOn, RecordedInv
  <2> QED
    BY <1>4, <2>1, <2>2, <2>3, <2>4
<1> QED
  BY <1>3, <1>4 DEF RecordedInv

-----------------------------------------------------------------------------
(* Each step of the server is such a step.                                 *)

CallSteps == \E new : CallStep(new)

\* A session as it was, but for what the two ends do not agree on.
Unmoved(s) ==
    /\ Live(s)
    /\ mediaSessions'[s].type = mediaSessions[s].type
    /\ mediaSessions'[s].cseq = mediaSessions[s].cseq
    /\ mediaSessions[s].prepared => mediaSessions'[s].prepared

\* The requests it waits for are fewer or the same.
LEMMA SilentCallStep ==
    ASSUME TypeOK, wire' = wire, inbox' = inbox, nextCSeq' = nextCSeq,
           sentRequests' \subseteq sentRequests,
           \A s \in SessionId : Live(s)' => Unmoved(s),
           link' = "open" => link = "open" /\ \A s \in SessionId : Live(s) => Live(s)'
    PROVE  CallStep(<<>>)
<1>1. Grows(<<>>)
  <2>1. Len(inbox) \in Nat
    BY DEF TypeOK
  <2> QED
    BY <2>1, EmptyGrows
<1>2. SpeaksStep(<<>>)
  BY <1>1 DEF SpeaksStep, TypeOK
<1>3. KeepsStep(<<>>)
  BY DEF KeepsStep, Unmoved, GoesOn
<1>4. AsksStep(<<>>)
  BY DEF AsksStep
<1> QED
  BY <1>2, <1>3, <1>4 DEF CallStep

LEMMA CloseCallStep ==
    ASSUME TypeOK, Close
    PROVE  CallStep(<<>>)
<1>1. \A s \in SessionId : ~Live(s)'
  BY DEF Close, Live, NoSession
<1> QED
  BY <1>1, SilentCallStep DEF Close

LEMMA RejectCallStep ==
    ASSUME TypeOK, Reject
    PROVE  CallStep(<<>>)
BY CloseCallStep DEF Reject

\* A request that its handler answers.
LEMMA AnsweredCallStep ==
    ASSUME TypeOK, RecordedInv, NEW method \in ClientHeads \ {"RECORD"}, NEW s \in Nat, NEW body,
           Accept(method, s, body), Answer("OK", s),
           UNCHANGED <<nextSessionId, sentRequests, nextCSeq, link>>,
           s = NoId \/ Live(s),
           \A t \in SessionId : Live(t)' => Unmoved(t),
           \A t \in SessionId : Live(t) /\ ~Live(t)' => t = s /\ method = "TEARDOWN"
    PROVE  CallSteps
<1> DEFINE m == Response("OK", Len(inbox) + 1, s)
<1>1. /\ Len(inbox) \in Nat /\ Len(inbox') = Len(inbox) + 1
      /\ \A c \in 1..Len(inbox) : inbox'[c] = inbox[c]
      /\ inbox'[Len(inbox')].method = method
  BY AcceptGrows
<1>2. \A c \in 1..Len(inbox') : c \notin 1..Len(inbox) =>
          c = Len(inbox') /\ inbox'[c].session = s
  <2>1. TakesRequestOf(s)
    BY DEF TakesRequestOf
  <2> QED
    BY <1>1, <2>1, InboxGrows
<1>3. m \in Message
  BY <1>1, ResponseType DEF Statuses
<1>4. m.kind = "response" /\ m.cseq = Len(inbox') /\ m.session = s /\ m.head = "OK"
  BY <1>1 DEF Response
<1>5. Emit(<<m>>)
  BY DEF Answer
<1> HIDE DEF m
<1>6. PICK new \in Seq(Message) :
          /\ wire' = wire \o new
          /\ \A k \in 1..Len(new) : k = 1 /\ new[k] = m
          /\ link = "open" => 1 \in 1..Len(new)
  BY <1>3, <1>5, OneSent
<1>7. Grows(new)
  BY <1>1, <1>6 DEF Grows
<1>8. RightAnswer(m)
  BY <1>1, <1>2, <1>4 DEF RightAnswer
<1>9. SpeaksStep(new)
  BY <1>1, <1>2, <1>4, <1>6, <1>7, <1>8 DEF SpeaksStep, TypeOK
<1>10. \A t \in SessionId : Live(t)' => GoesOn(t, new)
  <2> SUFFICES ASSUME NEW t \in SessionId, Live(t)'
               PROVE  GoesOn(t, new)
    OBVIOUS
  <2>1. Unmoved(t)
    OBVIOUS
  <2>2. mediaSessions[t].cseq # m.cseq
    BY <1>1, <1>4, <2>1 DEF Unmoved, RecordedInv
  <2> QED
    BY <1>6, <2>1, <2>2 DEF Unmoved, GoesOn
<1>11. KeepsStep(new)
  <2>1. ASSUME NEW t \in SessionId, Live(t), ~Live(t)', link' = "open"
        PROVE  \E k \in 1..Len(new) : new[k].session = t /\ EndsSession(new[k], inbox')
    <3>1. t = s /\ method = "TEARDOWN"
      BY <2>1
    <3>2. EndsSession(m, inbox')
      BY <1>1, <1>4, <3>1 DEF EndsSession
    <3> QED
      BY <1>4, <1>6, <2>1, <3>1, <3>2
  <2> QED
    BY <1>4, <1>6, <1>10, <2>1 DEF KeepsStep
<1>12. AsksStep(new)
  BY <1>4, <1>6 DEF AsksStep
<1> QED
  BY <1>9, <1>11, <1>12 DEF CallStep, CallSteps

LEMMA onOptionsRequestCalls ==
    ASSUME TypeOK, RecordedInv, onOptionsRequest
    PROVE  CallSteps
<1>1. \A t \in SessionId : Live(t) = Live(t)' /\ (Live(t)' => Unmoved(t))
  BY DEF onOptionsRequest, Live, Unmoved
<1>2. NoId \in Nat /\ "OPTIONS" \in ClientHeads \ {"RECORD"}
  BY DEF NoId, ClientHeads
<1> QED
  BY <1>1, <1>2, AnsweredCallStep DEF onOptionsRequest

LEMMA onSetupRequestCalls ==
    ASSUME TypeOK, RecordedInv, NEW s, NEW body, onSetupRequest(s, body)
    PROVE  CallSteps
<1>1. CASE Reject
  BY <1>1, RejectCallStep DEF CallSteps
<1>2. CASE ~Reject
  <2>1. /\ Live(s) /\ Accept("SETUP", s, body) /\ Answer("OK", s)
        /\ mediaSessions' = [mediaSessions EXCEPT ![s].remote = @ + body.lines]
        /\ UNCHANGED <<nextSessionId, sentRequests, nextCSeq, link>>
    BY <1>2 DEF onSetupRequest
  <2>2. \A t \in SessionId : Live(t) = Live(t)' /\ (Live(t)' => Unmoved(t))
    <3>1. mediaSessions \in [SessionId -> MediaSession]
      BY DEF TypeOK
    <3> QED
      BY <2>1, <3>1 DEF Live, Unmoved, MediaSession
  <2>3. s \in Nat /\ "SETUP" \in ClientHeads \ {"RECORD"}
    BY <2>1, SessionIdNat DEF Live, ClientHeads
  <2> QED
    BY <2>1, <2>2, <2>3, AnsweredCallStep
<1> QED
  BY <1>1, <1>2

LEMMA onTeardownRequestCalls ==
    ASSUME TypeOK, RecordedInv, NEW s, onTeardownRequest(s)
    PROVE  CallSteps
<1>1. CASE Reject
  BY <1>1, RejectCallStep DEF CallSteps
<1>2. CASE ~Reject
  <2>1. /\ Live(s) /\ Accept("TEARDOWN", s, NoBody) /\ Answer("OK", s)
        /\ mediaSessions' = [mediaSessions EXCEPT ![s] = NoSession]
        /\ UNCHANGED <<nextSessionId, sentRequests, nextCSeq, link>>
    BY <1>2 DEF onTeardownRequest
  <2>2. mediaSessions \in [SessionId -> MediaSession]
    BY DEF TypeOK
  <2>3. \A t \in SessionId : t # s => mediaSessions'[t] = mediaSessions[t]
    BY <2>1, <2>2
  <2>4. ~Live(s)'
    BY <2>1, <2>2 DEF Live, NoSession
  <2>5. /\ \A t \in SessionId : Live(t)' => Unmoved(t)
        /\ \A t \in SessionId : Live(t) /\ ~Live(t)' => t = s
    BY <2>3, <2>4 DEF Live, Unmoved
  <2>6. s \in Nat /\ "TEARDOWN" \in ClientHeads \ {"RECORD"}
    BY <2>1, SessionIdNat DEF Live, ClientHeads
  <2> QED
    BY <2>1, <2>5, <2>6, AnsweredCallStep
<1> QED
  BY <1>1, <1>2

LEMMA onRecordRequestCalls ==
    ASSUME TypeOK, IdsInv, onRecordRequest
    PROVE  CallSteps
<1>1. CASE Reject
  BY <1>1, RejectCallStep DEF CallSteps
<1>2. CASE ~Reject
  <2> DEFINE plain == NewSession("Record", Len(inbox) + 1)
             session0 == [plain EXCEPT !.playing = TRUE]
  <2>1. /\ Accept("RECORD", NoId, NoBody)
        /\ CreateMediaSession(session0)
        /\ UNCHANGED <<sentRequests, nextCSeq, link, wire>>
    BY <1>2 DEF onRecordRequest
  <2>2. /\ Len(inbox) \in Nat /\ Len(inbox') = Len(inbox) + 1
        /\ \A c \in 1..Len(inbox) : inbox'[c] = inbox[c]
        /\ inbox'[Len(inbox')].method = "RECORD"
    BY <2>1, AcceptGrows
  <2>3. plain \in MediaSession
    BY <2>2, NewSessionType DEF AllTypes
  <2>4. plain.type = "Record" /\ plain.cseq = Len(inbox) + 1
    BY DEF NewSession, NoSession
  <2>5. session0.type = "Record" /\ session0.cseq = Len(inbox')
    BY <2>2, <2>3, <2>4 DEF MediaSession
  <2> HIDE DEF session0
  <2>6. /\ nextSessionId \in SessionId
        /\ mediaSessions' = [mediaSessions EXCEPT ![nextSessionId] = session0]
        /\ mediaSessions \in [SessionId -> MediaSession]
    BY <2>1 DEF CreateMediaSession, TypeOK
  <2>7. Grows(<<>>)
    BY <2>1, <2>2, EmptyGrows
  <2>8. SpeaksStep(<<>>)
    <3>1. \A c \in 1..Len(inbox') : c \notin 1..Len(inbox) => c = Len(inbox')
      BY <2>2
    <3> QED
      BY <2>1, <2>2, <2>7, <3>1 DEF SpeaksStep, TypeOK, ClientHeads
  <2>9. ~Live(nextSessionId)
    BY <2>6, NextIdNat DEF IdsInv
  <2>10. Recorded(nextSessionId, <<>>)
    BY <2>2, <2>5, <2>6 DEF Recorded
  <2>11. \A t \in SessionId : t # nextSessionId => mediaSessions'[t] = mediaSessions[t]
    BY <2>6
  <2>12. KeepsStep(<<>>)
    BY <2>1, <2>9, <2>10, <2>11 DEF KeepsStep, GoesOn, Live
  <2>13. AsksStep(<<>>)
    BY <2>1 DEF AsksStep
  <2> QED
    BY <2>8, <2>12, <2>13 DEF CallStep, CallSteps
<1> QED
  BY <1>1, <1>2

LEMMA handleResponseCalls ==
    ASSUME TypeOK, NEW c, NEW ok, handleResponse(c, ok)
    PROVE  CallStep(<<>>)
<1>1. CASE Close
  BY <1>1, CloseCallStep
<1>2. CASE ~Close
  <2> DEFINE found == {r \in sentRequests : r.cseq = c}
  <2>1. /\ sentRequests' = sentRequests \ found
        /\ mediaSessions' =
               [s \in SessionId |->
                   IF \E r \in found : r.head = "RECORD" /\ r.session = s
                   THEN [mediaSessions[s] EXCEPT !.playing = TRUE]
                   ELSE mediaSessions[s]]
        /\ UNCHANGED <<nextCSeq, link, wire, inbox>>
    BY <1>2 DEF handleResponse
  <2>2. mediaSessions \in [SessionId -> MediaSession]
    BY DEF TypeOK
  <2>3. \A t \in SessionId : \/ mediaSessions'[t] = mediaSessions[t]
                             \/ mediaSessions'[t] = [mediaSessions[t] EXCEPT !.playing = TRUE]
    BY <2>1
  <2>4. \A t \in SessionId : Live(t) = Live(t)' /\ (Live(t)' => Unmoved(t))
    BY <2>2, <2>3 DEF Live, Unmoved, MediaSession
  <2> QED
    BY <2>1, <2>4, SilentCallStep
<1> QED
  BY <1>1, <1>2

-----------------------------------------------------------------------------
(* The callbacks of the server's peers.                                    *)

\* Before it is prepared, no message has named session s.
LEMMA NotYetAnnounced ==
    ASSUME ServerInv, NEW s \in SessionId, Live(s), ~mediaSessions[s].prepared, link = "open"
    PROVE  ~Announced(s) /\ s # NoId
<1>1. QueueOnlyUntilPrepared
  BY DEF ServerInv, SilenceInv
<1> QED
  BY <1>1, BoundsAssumption DEF QueueOnlyUntilPrepared, SessionId, NoId

\* The messages of recorderPrepared.
LEMMA recorderPreparedSends ==
    ASSUME TypeOK, NEW s \in SessionId, recorderPrepared(s)
    PROVE  LET answer == Response("OK", mediaSessions[s].cseq, s)
               setup == Request("SETUP", nextCSeq, s, mediaSessions[s].queue)
           IN  \E new \in Seq(Message) :
                   /\ wire' = wire \o new
                   /\ \A k \in 1..Len(new) : \/ k = 1 /\ new[k] = answer
                                             \/ k = Len(new) /\ new[k] = setup
                                                             /\ nextCSeq' = nextCSeq + 1
                                                             /\ setup \in sentRequests'
                   /\ link # "open" => new = <<>>
<1> DEFINE answer == Response("OK", mediaSessions[s].cseq, s)
           setup == Request("SETUP", nextCSeq, s, mediaSessions[s].queue)
<1>1. /\ mediaSessions[s].cseq \in Nat /\ mediaSessions[s].queue \in Seq(Nat)
      /\ s \in Nat /\ nextCSeq \in Nat
  BY SessionIdNat DEF TypeOK, MediaSession
<1>2. answer \in Message /\ setup \in Message
  BY <1>1, RequestType, ResponseType DEF Statuses, Methods
<1>3. SendThenFlush(<<answer>>, s)
  BY DEF recorderPrepared, InitialRequestAnswered
<1>4. CASE mediaSessions[s].queue = <<>>
  <2>1. Emit(<<answer>>)
    BY <1>3, <1>4 DEF SendThenFlush
  <2>2. <<answer>> \in Seq(Message)
    BY <1>2
  <2>3. Sent(<<answer>>) \in Seq(Message) /\ wire' = wire \o Sent(<<answer>>)
    BY <2>1, <2>2, EmitGrows
  <2>4. \A k \in 1..Len(Sent(<<answer>>)) : k = 1 /\ Sent(<<answer>>)[k] = answer
    BY DEF Sent
  <2> QED
    BY <2>3, <2>4 DEF Sent
<1>5. CASE mediaSessions[s].queue # <<>>
  <2> DEFINE messages == <<answer, setup>>
  <2>1. SendRequest(<<answer>>, "SETUP", s, mediaSessions[s].queue)
    BY <1>3, <1>5 DEF SendThenFlush
  <2>2. /\ sentRequests' = sentRequests \cup {setup} /\ nextCSeq' = nextCSeq + 1
        /\ Emit(messages)
    BY <1>2, <2>1, AppendToOne DEF SendRequest
  <2>3. messages \in Seq(Message)
    BY <1>2
  <2>4. Sent(messages) \in Seq(Message) /\ wire' = wire \o Sent(messages)
    BY <2>2, <2>3, EmitGrows
  <2>5. \A k \in 1..Len(Sent(messages)) : \/ k = 1 /\ Sent(messages)[k] = answer
                                          \/ k = Len(Sent(messages)) /\ Sent(messages)[k] = setup
    BY DEF Sent
  <2> QED
    BY <2>2, <2>4, <2>5 DEF Sent
<1> QED
  BY <1>4, <1>5

LEMMA recorderPreparedCalls ==
    ASSUME ServerInv, RecordedInv, NEW s \in SessionId, recorderPrepared(s)
    PROVE  CallSteps
<1> DEFINE answer == Response("OK", mediaSessions[s].cseq, s)
           setup == Request("SETUP", nextCSeq, s, mediaSessions[s].queue)
<1>1. TypeOK
  BY DEF ServerInv
<1>2. PICK new \in Seq(Message) :
          /\ wire' = wire \o new
          /\ \A k \in 1..Len(new) : \/ k = 1 /\ new[k] = answer
                                    \/ k = Len(new) /\ new[k] = setup
                                                    /\ nextCSeq' = nextCSeq + 1
                                                    /\ setup \in sentRequests'
          /\ link # "open" => new = <<>>
  BY <1>1, recorderPreparedSends
<1>3. /\ Live(s) /\ ~mediaSessions[s].prepared /\ UNCHANGED <<link, inbox>>
      /\ mediaSessions' = Prepared(s)
      /\ SendThenFlush(<<answer>>, s)
  BY DEF recorderPrepared, InitialRequestAnswered
<1>4. /\ answer.kind = "response" /\ answer.cseq = mediaSessions[s].cseq
      /\ answer.session = s /\ answer.head = "OK"
      /\ setup.kind = "request" /\ setup.cseq = nextCSeq
      /\ setup.session = s /\ setup.head = "SETUP"
  BY DEF Response, Request
<1>5. /\ nextCSeq \in Nat
      /\ \/ sentRequests' = sentRequests /\ nextCSeq' = nextCSeq
         \/ sentRequests' = sentRequests \cup {setup} /\ nextCSeq' = nextCSeq + 1
  BY <1>1, <1>3 DEF SendThenFlush, SendRequest, TypeOK
<1> HIDE DEF answer, setup
<1>6. Grows(new)
  BY <1>1, <1>2, <1>3 DEF Grows, TypeOK
<1>7. 1 \in 1..Len(new) => RightAnswer(answer)
  BY <1>2, <1>3, <1>4, NotYetAnnounced DEF RightAnswer, RecordedInv
<1>8. SpeaksStep(new)
  BY <1>2, <1>3, <1>4, <1>5, <1>6, <1>7 DEF SpeaksStep, NewRequest
<1>9. ASSUME NEW t \in SessionId
      PROVE  /\ Live(t)' = Live(t)
             /\ Live(t) => Unmoved(t)
  <2>1. mediaSessions \in [SessionId -> MediaSession] /\ mediaSessions[t] \in MediaSession
    BY <1>1 DEF TypeOK
  <2> QED
    BY <1>3, <2>1 DEF Prepared, Flushed, MediaSession, Live, Unmoved
<1>10. ASSUME NEW t \in SessionId, Live(t)'
       PROVE  GoesOn(t, new)
  <2>1. Live(t) /\ Unmoved(t)
    BY <1>9, <1>10
  <2>2. mediaSessions[t].cseq = mediaSessions[s].cseq => t = s
    BY <1>3, <2>1 DEF RecordedInv
  <2> QED
    BY <1>2, <1>4, <2>1, <2>2 DEF GoesOn, Unmoved
<1>11. KeepsStep(new)
  BY <1>2, <1>3, <1>4, <1>9, <1>10 DEF KeepsStep
<1>12. AsksStep(new)
  BY <1>2, <1>4, <1>5 DEF AsksStep
<1> QED
  BY <1>8, <1>11, <1>12 DEF CallStep, CallSteps

\* A prepared session sends a request.
LEMMA RequestCallStep ==
    ASSUME TypeOK, NEW s \in SessionId, Live(s), NEW method \in {"SETUP", "TEARDOWN"},
           NEW body \in Seq(Nat), SendRequest(<<>>, method, s, body),
           UNCHANGED <<inbox, link>>,
           \A t \in SessionId : Live(t)' => Unmoved(t),
           \A t \in SessionId : Live(t) /\ ~Live(t)' => t = s /\ method = "TEARDOWN"
    PROVE  CallSteps
<1> DEFINE m == Request(method, nextCSeq, s, body)
<1>1. m \in Message /\ nextCSeq \in Nat
  BY SessionIdNat, RequestType DEF TypeOK, Methods
<1>2. m.kind = "request" /\ m.cseq = nextCSeq /\ m.session = s /\ m.head = method
  BY DEF Request
<1>3. Append(<<>>, m) = <<m>>
  OBVIOUS
<1>4. /\ sentRequests' = sentRequests \cup {m} /\ nextCSeq' = nextCSeq + 1
      /\ Emit(<<m>>)
  BY <1>3 DEF SendRequest
<1> HIDE DEF m
<1>5. PICK new \in Seq(Message) :
          /\ wire' = wire \o new
          /\ Len(new) \in 0..1
          /\ \A k \in 1..Len(new) : k = 1 /\ new[k] = m
          /\ link = "open" => 1 \in 1..Len(new)
  BY <1>1, <1>4, OneSent
<1>6. Grows(new)
  BY <1>5 DEF Grows, TypeOK
<1>7. SpeaksStep(new)
  BY <1>1, <1>2, <1>4, <1>5, <1>6 DEF SpeaksStep, NewRequest
<1>8. KeepsStep(new)
  <2>1. \A t \in SessionId : Live(t)' => GoesOn(t, new)
    BY <1>2, <1>5 DEF GoesOn, Unmoved
  <2>2. ASSUME NEW t \in SessionId, Live(t), ~Live(t)', link' = "open"
        PROVE  \E k \in 1..Len(new) : new[k].session = t /\ EndsSession(new[k], inbox')
    BY <1>2, <1>5, <2>2 DEF EndsSession
  <2> QED
    BY <1>2, <1>5, <2>1, <2>2 DEF KeepsStep
<1>9. AsksStep(new)
  BY <1>1, <1>2, <1>4, <1>5 DEF AsksStep
<1> QED
  BY <1>7, <1>8, <1>9 DEF CallStep, CallSteps

LEMMA iceCandidateCalls ==
    ASSUME TypeOK, NEW s \in SessionId, iceCandidate(s)
    PROVE  CallSteps
<1>1. Live(s) /\ UNCHANGED <<inbox, link>>
  BY DEF iceCandidate
<1>2. CASE mediaSessions[s].prepared
  <2>1. SendRequest(<<>>, "SETUP", s, <<gathered[s] + 1>>) /\ UNCHANGED mediaSessions
    BY <1>2 DEF iceCandidate
  <2>2. <<gathered[s] + 1>> \in Seq(Nat)
    BY DEF TypeOK
  <2>3. \A t \in SessionId : Live(t) = Live(t)' /\ (Live(t)' => Unmoved(t))
    BY <2>1 DEF Live, Unmoved
  <2> QED
    BY <1>1, <2>1, <2>2, <2>3, RequestCallStep
<1>3. CASE ~mediaSessions[s].prepared
  <2>1. /\ mediaSessions' =
               [mediaSessions EXCEPT ![s].queue = Append(@, gathered[s] + 1)]
        /\ UNCHANGED <<sentRequests, nextCSeq, wire>>
    BY <1>3 DEF iceCandidate
  <2>2. mediaSessions \in [SessionId -> MediaSession]
    BY DEF TypeOK
  <2>3. \A t \in SessionId : Live(t) = Live(t)' /\ (Live(t)' => Unmoved(t))
    BY <2>1, <2>2 DEF Live, Unmoved, MediaSession
  <2> QED
    BY <1>1, <2>1, <2>3, SilentCallStep DEF CallSteps
<1> QED
  BY <1>2, <1>3

LEMMA eosCalls ==
    ASSUME ServerInv, RecordedInv, NEW s \in SessionId, eos(s)
    PROVE  CallSteps
<1>1. /\ TypeOK /\ Live(s) /\ UNCHANGED <<inbox, link>>
      /\ mediaSessions' = [mediaSessions EXCEPT ![s] = NoSession]
  BY DEF eos, ServerInv
<1>2. /\ \A t \in SessionId : Live(t)' => t # s /\ Unmoved(t)
      /\ \A t \in SessionId : Live(t) /\ ~Live(t)' => t = s
  <2>1. mediaSessions \in [SessionId -> MediaSession]
    BY <1>1 DEF TypeOK
  <2>2. ~Live(s)'
    BY <1>1, <2>1 DEF Live, NoSession
  <2>3. \A t \in SessionId : t # s => mediaSessions'[t] = mediaSessions[t]
    BY <1>1, <2>1
  <2> QED
    BY <2>2, <2>3 DEF Live, Unmoved
<1>3. CASE mediaSessions[s].prepared
  <2>1. SendRequest(<<>>, "TEARDOWN", s, <<>>) /\ <<>> \in Seq(Nat)
    BY <1>3 DEF eos
  <2> QED
    BY <1>1, <1>2, <2>1, RequestCallStep
<1>4. CASE ~mediaSessions[s].prepared
  <2> DEFINE m == Response("BAD_GATEWAY", mediaSessions[s].cseq, s)
  <2>1. m \in Message
    <3>1. mediaSessions[s].cseq \in Nat /\ s \in Nat
      BY <1>1, SessionIdNat DEF TypeOK, MediaSession
    <3> QED
      BY <3>1, ResponseType DEF Statuses
  <2>2. Emit(<<m>>) /\ UNCHANGED <<sentRequests, nextCSeq>>
    BY <1>4 DEF eos
  <2>3. /\ m.kind = "response" /\ m.session = s /\ m.head = "BAD_GATEWAY"
        /\ m.cseq = mediaSessions[s].cseq
    BY DEF Response
  <2> HIDE DEF m
  <2>4. PICK new \in Seq(Message) :
            /\ wire' = wire \o new
            /\ \A k \in 1..Len(new) : k = 1 /\ new[k] = m
            /\ link = "open" => 1 \in 1..Len(new)
            /\ link # "open" => new = <<>>
    BY <1>1, <2>1, <2>2, OneSent
  <2>5. Grows(new)
    BY <1>1, <2>4 DEF Grows, TypeOK
  <2>6. 1 \in 1..Len(new) => RightAnswer(m)
    BY <1>1, <1>4, <2>3, <2>4, NotYetAnnounced DEF RightAnswer, RecordedInv
  <2>7. SpeaksStep(new)
    BY <1>1, <2>2, <2>3, <2>4, <2>5, <2>6 DEF SpeaksStep, TypeOK
  <2>8. KeepsStep(new)
    <3>1. ASSUME NEW t \in SessionId, Live(t)'
          PROVE  GoesOn(t, new)
      <4>1. t # s /\ Unmoved(t)
        BY <1>2, <3>1
      <4>2. mediaSessions[t].cseq # mediaSessions[s].cseq
        BY <1>1, <4>1 DEF RecordedInv, Unmoved
      <4> QED
        BY <2>3, <2>4, <4>1, <4>2 DEF GoesOn, Unmoved
    <3>2. EndsSession(m, inbox')
      BY <2>3 DEF EndsSession
    <3> QED
      BY <1>1, <1>2, <2>3, <2>4, <3>1, <3>2 DEF KeepsStep
  <2>9. AsksStep(new)
    BY <2>2, <2>3, <2>4 DEF AsksStep
  <2> QED
    BY <2>7, <2>8, <2>9 DEF CallStep, CallSteps
<1> QED
  BY <1>3, <1>4

LEMMA PeerCallbackCalls ==
    ASSUME ServerInv, RecordedInv, NEW s \in SessionId, PeerCallback(s)
    PROVE  CallSteps /\ inbox' = inbox /\ sentRequests \subseteq sentRequests'
<1>1. TypeOK
  BY DEF ServerInv
<1>2. Live(s) => mediaSessions[s].type = "Record"
  BY DEF RecordedInv
<1>3. CASE PreparedWithoutSdp(s)
  <2>1. /\ mediaSessions' = [mediaSessions EXCEPT ![s].prepared = TRUE]
        /\ link' # "open" /\ UNCHANGED <<sentRequests, nextCSeq, wire, inbox>>
    BY <1>3 DEF PreparedWithoutSdp, disconnect
  <2>2. mediaSessions \in [SessionId -> MediaSession]
    BY <1>1 DEF TypeOK
  <2>3. \A t \in SessionId : Live(t)' => Unmoved(t)
    BY <2>1, <2>2 DEF Live, Unmoved, MediaSession
  <2> QED
    BY <1>1, <2>1, <2>3, SilentCallStep DEF CallSteps
<1>4. CASE recorderPrepared(s)
  <2>1. inbox' = inbox /\ sentRequests \subseteq sentRequests'
    BY <1>4 DEF recorderPrepared, InitialRequestAnswered, SendThenFlush, SendRequest
  <2> QED
    BY <1>4, <2>1, recorderPreparedCalls
<1>5. CASE iceCandidate(s)
  <2>1. inbox' = inbox /\ sentRequests \subseteq sentRequests'
    BY <1>5 DEF iceCandidate, SendRequest
  <2> QED
    BY <1>1, <1>5, <2>1, iceCandidateCalls
<1>6. CASE eos(s)
  <2>1. inbox' = inbox /\ sentRequests \subseteq sentRequests'
    BY <1>6 DEF eos, SendRequest
  <2> QED
    BY <1>6, <2>1, eosCalls
<1>7. CASE LateCallback(s)
  <2>1. link' # "open" /\ UNCHANGED <<mediaSessions, sentRequests, nextCSeq, wire, inbox>>
    BY <1>7 DEF LateCallback, disconnect
  <2>2. \A t \in SessionId : Live(t)' => Unmoved(t)
    BY <2>1 DEF Live, Unmoved
  <2> QED
    BY <1>1, <2>1, <2>2, SilentCallStep DEF CallSteps
<1>8. CASE streamerPrepared(s) \/ recordToClientStreamerPrepared(s)
  BY <1>2, <1>8 DEF streamerPrepared, InitialRequestAnswered, recordToClientStreamerPrepared
<1> QED
  BY <1>3, <1>4, <1>5, <1>6, <1>7, <1>8 DEF PeerCallback

-----------------------------------------------------------------------------
(* What the server's steps leave of the call.                              *)

\* Session s is not there any more.
Removed(s) == s \in SessionId => mediaSessions'[s].type = "None"

\* The server accepted request m.
Taken(m) ==
    /\ Len(inbox') = Len(inbox) + 1
    /\ \A c \in 1..Len(inbox) : inbox'[c] = inbox[c]
    /\ inbox'[Len(inbox')].method = m.head
    /\ inbox'[Len(inbox')].session = IF m.head \in {"OPTIONS", "RECORD"} THEN NoId ELSE m.session
    /\ sentRequests' = sentRequests
    /\ link # "closed" /\ link' = link
    /\ m.head = "TEARDOWN" => Removed(m.session)

\* The server accepted response m.
Settles(m) ==
    /\ inbox' = inbox
    /\ sentRequests' = sentRequests \ {r \in sentRequests : r.cseq = m.cseq}

\* The server takes d messages from the channel, none or one.
Takes(d) ==
    /\ d \in {0, 1}
    /\ Len(toServer) \in Nat
    /\ Len(toServer') = Len(toServer) - d
    /\ \A i \in 1..Len(toServer') : i + d \in 1..Len(toServer) /\ toServer'[i] = toServer[i + d]
    /\ \A i \in 1..Len(toServer) : i > d => i - d \in 1..Len(toServer') /\ toServer'[i - d] = toServer[i]
    /\ d = 1 => 1 \in 1..Len(toServer)

ServerTurn(new, d) ==
    /\ CallStep(new)
    /\ Takes(d)
    /\ UNCHANGED <<streamer, iceCandidates, recordRequested, session, take, offered,
                   pending, cseq, clientLink, heard>>
    /\ link' # "closed" => link # "closed"
    /\ \/ link' = "closed" /\ inbox' = inbox
       \/ d = 0 /\ inbox' = inbox /\ sentRequests \subseteq sentRequests'
       \/ d = 1 /\ Asked(1) /\ Taken(toServer[1])
       \/ d = 1 /\ Told(1) /\ Settles(toServer[1])

LEMMA AcceptTakes ==
    ASSUME TypeOK, NEW m, NEW s, NEW body, Accept(m.head, s, body),
           s = IF m.head \in {"OPTIONS", "RECORD"} THEN NoId ELSE m.session,
           UNCHANGED <<sentRequests, link>>,
           m.head = "TEARDOWN" => Removed(m.session)
    PROVE  Taken(m)
<1>1. /\ Len(inbox) \in Nat /\ Len(inbox') = Len(inbox) + 1
      /\ \A c \in 1..Len(inbox) : inbox'[c] = inbox[c]
      /\ inbox'[Len(inbox')].method = m.head
  BY AcceptGrows
<1>2. inbox'[Len(inbox')].session = s
  <2>1. TakesRequestOf(s)
    BY DEF TakesRequestOf
  <2> QED
    BY <1>1, <2>1, InboxGrows
<1> QED
  BY <1>1, <1>2 DEF Taken, Accept, CanReceive

LEMMA ReceivedRequest ==
    ASSUME ServerInv, RecordedInv, NEW m, m.kind = "request", ServerHandles(m)
    PROVE  /\ CallSteps
           /\ (link' = "closed" /\ inbox' = inbox) \/ Taken(m)
           /\ link' # "closed" => link # "closed"
<1>1. TypeOK /\ IdsInv
  BY DEF ServerInv, SilenceInv
<1>2. Reject => link' = "closed" /\ inbox' = inbox
  BY DEF Reject, Close
<1>3. CASE m.head = "OPTIONS" /\ onOptionsRequest
  <2>1. Accept(m.head, NoId, NoBody) /\ UNCHANGED <<sentRequests, link>>
    BY <1>3 DEF onOptionsRequest
  <2> QED
    BY <1>1, <1>3, <2>1, AcceptTakes, onOptionsRequestCalls
<1>4. CASE m.head = "RECORD" /\ onRecordRequest
  <2>1. CASE ~Reject
    <3>1. Accept(m.head, NoId, NoBody) /\ UNCHANGED <<sentRequests, link>>
      BY <1>4, <2>1 DEF onRecordRequest
    <3> QED
      BY <1>1, <1>4, <3>1, AcceptTakes, onRecordRequestCalls
  <2> QED
    BY <1>1, <1>2, <1>4, <2>1, onRecordRequestCalls
<1>5. CASE m.head = "TEARDOWN" /\ onTeardownRequest(m.session)
  <2>1. CASE ~Reject
    <3>1. /\ Live(m.session) /\ Accept(m.head, m.session, NoBody)
          /\ mediaSessions' = [mediaSessions EXCEPT ![m.session] = NoSession]
          /\ UNCHANGED <<sentRequests, link>>
      BY <1>5, <2>1 DEF onTeardownRequest
    <3>2. m.session \in SessionId
      BY <3>1 DEF Live
    <3>3. mediaSessions'[m.session] = NoSession
      BY <1>1, <3>1, <3>2 DEF TypeOK
    <3>4. Removed(m.session)
      BY <3>3 DEF Removed, NoSession
    <3> QED
      BY <1>1, <1>5, <3>1, <3>4, AcceptTakes, onTeardownRequestCalls
  <2> QED
    BY <1>1, <1>2, <1>5, <2>1, onTeardownRequestCalls
<1>6. CASE m.head = "SETUP" /\ onSetupRequest(m.session, Body(m))
  <2>1. CASE ~Reject
    <3>1. Accept(m.head, m.session, Body(m)) /\ UNCHANGED <<sentRequests, link>>
      BY <1>6, <2>1 DEF onSetupRequest
    <3> QED
      BY <1>1, <1>6, <3>1, AcceptTakes, onSetupRequestCalls
  <2> QED
    BY <1>1, <1>2, <1>6, <2>1, onSetupRequestCalls
<1> QED
  BY <1>3, <1>4, <1>5, <1>6 DEF ServerHandles, Body

LEMMA ReceivedResponse ==
    ASSUME TypeOK, NEW m, m.kind = "response", ServerHandles(m)
    PROVE  /\ CallSteps
           /\ (link' = "closed" /\ inbox' = inbox) \/ Settles(m)
           /\ link' # "closed" => link # "closed"
<1>1. handleResponse(m.cseq, m.head = "OK")
  BY DEF ServerHandles
<1>2. CallSteps
  BY <1>1, handleResponseCalls DEF CallSteps
<1> QED
  BY <1>1, <1>2 DEF handleResponse, Close, Settles

LEMMA ReceivesTurn ==
    ASSUME ServerInv, CallTypeOK, RecordedInv, ServerReceives
    PROVE  \E new : ServerTurn(new, 1)
<1>1. /\ link # "closed" /\ toServer # <<>>
      /\ ServerHandles(toServer[1])
      /\ toServer' = Tail(toServer)
      /\ UNCHANGED <<streamer, iceCandidates, recordRequested, session, take, offered,
                     pending, cseq, clientLink, heard>>
  BY HeadMessage DEF ServerReceives
<1>2. Takes(1)
  BY <1>1, HeadMessage DEF Takes
<1>3. CASE toServer[1].kind = "request"
  <2>1. PICK new : CallStep(new)
    BY <1>1, <1>3, ReceivedRequest DEF CallSteps
  <2>2. (link' = "closed" /\ inbox' = inbox) \/ Taken(toServer[1])
    BY <1>1, <1>3, ReceivedRequest
  <2> QED
    BY <1>1, <1>2, <1>3, <2>1, <2>2 DEF ServerTurn, Asked
<1>4. CASE toServer[1].kind = "response"
  <2>1. PICK new : CallStep(new)
    BY <1>1, <1>4, ReceivedResponse DEF CallSteps, ServerInv
  <2>2. (link' = "closed" /\ inbox' = inbox) \/ Settles(toServer[1])
    BY <1>1, <1>4, ReceivedResponse DEF ServerInv
  <2> QED
    BY <1>1, <1>2, <1>4, <2>1, <2>2 DEF ServerTurn, Told
<1> QED
  BY <1>1, <1>3, <1>4 DEF ServerHandles

LEMMA OwnStepTurn ==
    ASSUME ServerInv, CallTypeOK, RecordedInv, ServerOwnStep
    PROVE  \E new : ServerTurn(new, 0)
<1>1. UNCHANGED <<streamer, iceCandidates, recordRequested, session, take, offered,
                  pending, cseq, clientLink, heard, toServer>>
  BY DEF ServerOwnStep, clientVars
<1>2. Takes(0)
  <2>1. toServer' = toServer /\ Len(toServer) \in Nat
    BY <1>1 DEF CallTypeOK
  <2> QED
    BY <2>1 DEF Takes
<1>3. CASE \E s \in SessionId : PeerCallback(s)
  <2>1. PICK s \in SessionId : PeerCallback(s)
    BY <1>3
  <2>2. CallSteps /\ inbox' = inbox /\ sentRequests \subseteq sentRequests'
    BY <2>1, PeerCallbackCalls
  <2>3. link' # "closed" => link # "closed"
    BY <2>1 DEF PeerCallback, PreparedWithoutSdp, streamerPrepared, recorderPrepared,
                InitialRequestAnswered, recordToClientStreamerPrepared, iceCandidate, eos,
                LateCallback, disconnect
  <2> QED
    BY <1>1, <1>2, <2>2, <2>3 DEF ServerTurn, CallSteps
<1>4. CASE Close
  <2>1. CallStep(<<>>)
    BY <1>4, CloseCallStep DEF ServerInv
  <2> QED
    BY <1>1, <1>2, <1>4, <2>1 DEF ServerTurn, Close
<1> QED
  BY <1>3, <1>4 DEF ServerOwnStep, Writeable, ConnectionLost

\* What the client has heard stays.
LEMMA HeardKept ==
    ASSUME TypeOK, TypeOK', CallTypeOK, heard' = heard, NEW new, Grows(new)
    PROVE  /\ heard \in Nat /\ heard' <= Len(wire')
           /\ \A j \in 1..heard : j \in 1..Len(wire) /\ wire'[j] = wire[j]
           /\ \A s : Heard(s)' <=> Heard(s)
           /\ \A c : HeardAnswer(c)' <=> HeardAnswer(c)
           /\ \A s : HeardEnd(s) => HeardEnd(s)'
<1>1. heard \in 0..Len(wire) /\ heard' = heard
  BY DEF CallTypeOK
<1>2. /\ Len(wire) \in Nat /\ Len(wire') \in Nat /\ Len(wire) <= Len(wire')
      /\ \A j \in 1..Len(wire) : wire'[j] = wire[j]
  BY PastKept
<1>3. \A j \in 1..heard : j \in 1..Len(wire) /\ wire'[j] = wire[j]
  BY <1>1, <1>2
<1>4. ASSUME NEW s
      PROVE  Heard(s)' <=> Heard(s)
  BY <1>1, <1>3 DEF Heard
<1>5. ASSUME NEW c
      PROVE  HeardAnswer(c)' <=> HeardAnswer(c)
  BY <1>1, <1>3 DEF HeardAnswer, IsResponse
<1>6. ASSUME NEW s, HeardEnd(s)
      PROVE  HeardEnd(s)'
  <2>1. PICK j \in 1..heard : Ends(j, s)
    BY <1>6 DEF HeardEnd
  <2>2. Ends(j, s)'
    BY <1>3, <2>1, EndsKept
  <2> QED
    BY <1>1, <2>2 DEF HeardEnd
<1> QED
  BY <1>1, <1>2, <1>3, <1>4, <1>5, <1>6

LEMMA CallTypeTurn ==
    ASSUME TypeOK, TypeOK', CallTypeOK, NEW new, NEW d, ServerTurn(new, d),
           toServer' \in Seq(ClientsRequest \cup ClientsResponse)
    PROVE  CallTypeOK'
<1>1. Grows(new) /\ heard' = heard
  BY DEF ServerTurn, CallStep, SpeaksStep
<1>2. heard' \in 0..Len(wire')
  <2>1. Len(wire') \in Nat
    BY DEF TypeOK
  <2> QED
    BY <1>1, <2>1, HeardKept
<1> QED
  BY <1>2 DEF CallTypeOK, ServerTurn

\* The next request to be read is the one the server will number.
LEMMA HeadIsNext ==
    ASSUME TypeOK, CallTypeOK, ChannelInv, link # "closed", 1 \in 1..Len(toServer), Asked(1)
    PROVE  toServer[1].cseq = Len(inbox) + 1
<1>1. /\ Len(inbox) \in Nat /\ cseq \in Nat /\ Len(toServer) \in Nat
      /\ toServer[1].cseq \in (Len(inbox) + 1)..(cseq - 1)
  BY DEF TypeOK, CallTypeOK, ChannelInv
<1> DEFINE c == Len(inbox) + 1
<1>2. c \in (Len(inbox) + 1)..(cseq - 1)
  BY <1>1
<1>3. CASE \E i \in 1..Len(toServer) : Asked(i) /\ toServer[i].cseq = c
  <2>1. PICK i \in 1..Len(toServer) : Asked(i) /\ toServer[i].cseq = c
    BY <1>3
  <2>2. i > 1 => toServer[1].cseq < toServer[i].cseq
    BY <2>1 DEF ChannelInv
  <2> QED
    BY <1>1, <2>1, <2>2
<1>4. CASE \A i \in 1..Len(toServer) : Asked(i) => toServer[i].cseq < c
  BY <1>1, <1>4
<1> QED
  BY <1>2, <1>3, <1>4 DEF ChannelInv

LEMMA ChannelTurn ==
    ASSUME TypeOK, TypeOK', CallTypeOK, ChannelInv, NEW new, NEW d, ServerTurn(new, d)
    PROVE  ChannelInv'
<1>1. /\ Takes(d) /\ cseq' = cseq /\ clientLink' = clientLink /\ heard' = heard
      /\ Grows(new) /\ (link' # "closed" => link # "closed")
  BY DEF ServerTurn, CallStep, SpeaksStep
<1>2. /\ Len(inbox) \in Nat /\ Len(inbox') \in Nat /\ cseq \in Nat /\ Len(toServer) \in Nat
      /\ d \in {0, 1} /\ Len(toServer') \in Nat
  BY <1>1 DEF TypeOK, CallTypeOK, Takes
<1>3. \A s : Heard(s)' <=> Heard(s)
  BY <1>1, HeardKept
<1>4. \A i \in 1..Len(toServer') : /\ i + d \in 1..Len(toServer)
                                   /\ toServer'[i] = toServer[i + d]
                                   /\ Asked(i)' <=> Asked(i + d)
  BY <1>1 DEF Takes, Asked
<1>5. \A i, j \in 1..Len(toServer') :
          i < j /\ Asked(i)' /\ Asked(j)' => toServer'[i].cseq < toServer'[j].cseq
  <2> SUFFICES ASSUME NEW i \in 1..Len(toServer'), NEW j \in 1..Len(toServer'),
                      i < j, Asked(i)', Asked(j)'
               PROVE  toServer'[i].cseq < toServer'[j].cseq
    OBVIOUS
  <2>1. /\ i + d \in 1..Len(toServer) /\ toServer'[i] = toServer[i + d] /\ Asked(i + d)
        /\ j + d \in 1..Len(toServer) /\ toServer'[j] = toServer[j + d] /\ Asked(j + d)
    BY <1>4
  <2>2. i + d < j + d
    BY <1>2
  <2> QED
    BY <2>1, <2>2 DEF ChannelInv
<1>6. \A i \in 1..Len(toServer') :
          Asked(i)' /\ toServer'[i].head \in {"SETUP", "TEARDOWN"} =>
              toServer'[i].session # NoId /\ Heard(toServer'[i].session)
  <2>1. \A i \in 1..Len(toServer) : Asked(i) /\ toServer[i].head \in {"SETUP", "TEARDOWN"} =>
            toServer[i].session # NoId /\ Heard(toServer[i].session)
    BY DEF ChannelInv
  <2> QED
    BY <1>4, <2>1
<1>7. ASSUME NEW i \in 1..Len(toServer'), Asked(i)'
      PROVE  toServer'[i].cseq \in (Len(inbox) + 1)..(cseq - 1)
  BY <1>4, <1>7 DEF ChannelInv
<1>8. ASSUME link' # "closed", NEW c \in (Len(inbox) + 1)..(cseq - 1)
      PROVE  \/ \E i \in 1..Len(toServer) : Asked(i) /\ toServer[i].cseq = c
             \/ /\ clientLink # "open"
                /\ \A i \in 1..Len(toServer') : Asked(i)' => toServer'[i].cseq < c
  <2>1. CASE \A i \in 1..Len(toServer) : Asked(i) => toServer[i].cseq < c
    BY <1>1, <1>4, <1>8, <2>1 DEF ChannelInv
  <2> QED
    BY <1>1, <1>8, <2>1 DEF ChannelInv
<1>9. CASE d = 1 /\ Asked(1) /\ Taken(toServer[1])
  <2> link' # "closed" /\ link # "closed"
    BY <1>9 DEF Taken
  <2>1. toServer[1].cseq = Len(inbox) + 1 /\ Len(inbox') = Len(inbox) + 1
    BY <1>1, <1>9, HeadIsNext DEF Taken, Takes
  <2>2. Len(inbox') < cseq
    <3>1. toServer[1].cseq \in (Len(inbox) + 1)..(cseq - 1)
      BY <1>1, <1>9 DEF ChannelInv, Takes
    <3> QED
      BY <1>2, <2>1, <3>1
  <2>3. ASSUME NEW i \in 1..Len(toServer'), Asked(i)'
        PROVE  toServer'[i].cseq \in (Len(inbox') + 1)..(cseq - 1)
    <3>1. toServer[1].cseq < toServer[i + 1].cseq
      BY <1>1, <1>2, <1>4, <1>9, <2>3 DEF ChannelInv, Takes
    <3> QED
      BY <1>2, <1>4, <1>7, <1>9, <2>1, <2>3, <3>1
  <2>4. ASSUME NEW c \in (Len(inbox') + 1)..(cseq - 1)
        PROVE  \/ \E i \in 1..Len(toServer') : Asked(i)' /\ toServer'[i].cseq = c
               \/ /\ clientLink # "open"
                  /\ \A i \in 1..Len(toServer') : Asked(i)' => toServer'[i].cseq < c
    <3>1. c \in (Len(inbox) + 1)..(cseq - 1) /\ c # toServer[1].cseq
      BY <1>2, <2>1
    <3>2. ASSUME NEW i \in 1..Len(toServer), Asked(i), toServer[i].cseq = c
          PROVE  \E h \in 1..Len(toServer') : Asked(h)' /\ toServer'[h].cseq = c
      <4>1. i > d
        BY <1>9, <3>1, <3>2
      <4>2. i - d \in 1..Len(toServer') /\ toServer'[i - d] = toServer[i]
        BY <1>1, <4>1 DEF Takes
      <4> QED
        BY <3>2, <4>2 DEF Asked
    <3> QED
      BY <1>8, <1>9, <3>1, <3>2
  <2> QED
    BY <1>1, <1>3, <1>5, <1>6, <2>2, <2>3, <2>4 DEF ChannelInv
<1>10. CASE inbox' = inbox
  <2>1. CASE link' = "closed"
    BY <1>1, <1>3, <1>5, <1>6, <1>7, <1>10, <2>1 DEF ChannelInv
  <2>2. CASE link' # "closed"
    <3>1. \A i \in 1..d : ~Asked(i)
      BY <1>2, <1>10, <2>2 DEF ServerTurn, Taken, Asked, Told
    <3>2. ASSUME NEW c \in (Len(inbox) + 1)..(cseq - 1),
                 NEW i \in 1..Len(toServer), Asked(i), toServer[i].cseq = c
          PROVE  \E h \in 1..Len(toServer') : Asked(h)' /\ toServer'[h].cseq = c
      <4>1. i > d
        BY <1>2, <3>1, <3>2
      <4>2. i - d \in 1..Len(toServer') /\ toServer'[i - d] = toServer[i]
        BY <1>1, <4>1 DEF Takes
      <4> QED
        BY <3>2, <4>2 DEF Asked
    <3>3. ASSUME NEW c \in (Len(inbox) + 1)..(cseq - 1)
          PROVE  \/ \E i \in 1..Len(toServer') : Asked(i)' /\ toServer'[i].cseq = c
                 \/ /\ clientLink # "open"
                    /\ \A i \in 1..Len(toServer') : Asked(i)' => toServer'[i].cseq < c
      BY <1>8, <2>2, <3>2
    <3> QED
      BY <1>1, <1>3, <1>5, <1>6, <1>7, <1>10, <3>3 DEF ChannelInv
  <2> QED
    BY <2>1, <2>2
<1> QED
  BY <1>9, <1>10 DEF ServerTurn, Settles

LEMMA OutstandingTurn ==
    ASSUME TypeOK, TypeOK', CallTypeOK, OutstandingInv, NEW new, NEW d, ServerTurn(new, d)
    PROVE  OutstandingInv'
<1>1. /\ Takes(d) /\ heard' = heard /\ Grows(new)
      /\ SpeaksStep(new) /\ KeepsStep(new) /\ AsksStep(new)
  BY DEF ServerTurn, CallStep, SpeaksStep
<1>2. /\ nextCSeq \in Nat /\ nextCSeq' \in Nat /\ nextCSeq <= nextCSeq'
      /\ heard \in Nat /\ heard <= Len(wire)
      /\ d \in {0, 1} /\ Len(toServer) \in Nat /\ Len(toServer') \in Nat
  BY <1>1 DEF TypeOK, CallTypeOK, SpeaksStep, Takes
<1>3. \A i \in 1..Len(toServer') : /\ i + d \in 1..Len(toServer)
                                   /\ toServer'[i] = toServer[i + d]
                                   /\ Told(i)' <=> Told(i + d)
  BY <1>1 DEF Takes, Told
<1>4. \A r \in sentRequests : r.cseq \in Nat
  BY DEF TypeOK, Message
<1>5. \A r \in sentRequests' : r.head \in {"SETUP", "TEARDOWN"} /\ r.cseq < nextCSeq'
  BY <1>1, <1>2, <1>4 DEF OutstandingInv, AsksStep
<1> SUFFICES ASSUME link' = "open"
             PROVE  /\ \A i \in (heard' + 1)..Len(wire') : IsRequest(i)' =>
                           /\ wire'[i] \in sentRequests'
                           /\ \A j \in 1..Len(toServer') :
                                  Told(j)' => toServer'[j].cseq # wire'[i].cseq
                    /\ \A j \in 1..Len(toServer') : Told(j)' =>
                           \E r \in sentRequests' : r.cseq = toServer'[j].cseq
                    /\ \A j, k \in 1..Len(toServer') :
                           Told(j)' /\ Told(k)' /\ toServer'[j].cseq = toServer'[k].cseq
                               => j = k
  BY <1>5 DEF OutstandingInv
<1>6. link = "open"
  BY <1>1 DEF KeepsStep
<1>7. \A j \in 1..Len(toServer) : Told(j) => \E r \in sentRequests : r.cseq = toServer[j].cseq
  BY <1>6 DEF OutstandingInv
<1>8. ASSUME NEW j \in 1..Len(toServer'), NEW k \in 1..Len(toServer'), Told(j)', Told(k)',
             toServer'[j].cseq = toServer'[k].cseq
      PROVE  j = k
  <2>1. j + d = k + d
    BY <1>3, <1>6, <1>8 DEF OutstandingInv
  <2> QED
    BY <1>2, <2>1
<1>9. ASSUME d = 1, Told(1), Settles(toServer[1]), NEW j \in 1..Len(toServer'), Told(j)'
      PROVE  toServer'[j].cseq # toServer[1].cseq
  <2>1. 1 \in 1..Len(toServer) /\ j + 1 # 1
    BY <1>1, <1>2, <1>9 DEF Takes
  <2> QED
    BY <1>3, <1>6, <1>9, <2>1 DEF OutstandingInv
<1>10. \/ sentRequests \subseteq sentRequests'
       \/ d = 1 /\ Told(1) /\ Settles(toServer[1])
  BY DEF ServerTurn, Taken
<1>11. ASSUME NEW j \in 1..Len(toServer'), Told(j)'
       PROVE  \E r \in sentRequests' : r.cseq = toServer'[j].cseq
  <2>1. PICK r \in sentRequests : r.cseq = toServer'[j].cseq
    BY <1>3, <1>7, <1>11
  <2>2. r \in sentRequests'
    BY <1>9, <1>10, <1>11, <2>1 DEF Settles
  <2> QED
    BY <2>1, <2>2
<1>12. ASSUME NEW i \in (heard' + 1)..Len(wire'), IsRequest(i)'
       PROVE  /\ wire'[i] \in sentRequests'
              /\ \A j \in 1..Len(toServer') : Told(j)' => toServer'[j].cseq # wire'[i].cseq
  <2>1. i \in 1..Len(wire') /\ i \in Nat
    BY <1>1, <1>2
  <2>2. CASE i \in 1..Len(wire)
    <3>1. wire'[i] = wire[i] /\ i \in (heard + 1)..Len(wire) /\ IsRequest(i)
      <4>1. wire'[i] = wire[i]
        BY <1>1, <2>2, PastKept
      <4> QED
        BY <1>1, <1>2, <1>12, <2>2, <4>1 DEF IsRequest
    <3>2. /\ wire[i] \in sentRequests
          /\ \A j \in 1..Len(toServer) : Told(j) => toServer[j].cseq # wire[i].cseq
      BY <1>6, <3>1 DEF OutstandingInv
    <3>3. wire[i] \in sentRequests'
      <4>1. d = 1 => 1 \in 1..Len(toServer)
        BY <1>1 DEF Takes
      <4> QED
        BY <1>10, <3>2, <4>1 DEF Settles
    <3> QED
      BY <1>3, <3>1, <3>2, <3>3
  <2>3. CASE i \notin 1..Len(wire)
    <3>1. PICK k \in 1..Len(new) : i = Len(wire) + k
      BY <1>1, <2>1, <2>3, PastKept
    <3>2. wire'[i] = new[k]
      BY <1>1, <3>1, PastKept
    <3>3. wire'[i] \in sentRequests' /\ wire'[i].cseq = nextCSeq
      BY <1>1, <1>12, <3>2 DEF SpeaksStep, NewRequest, AsksStep, IsRequest
    <3>4. \A j \in 1..Len(toServer') : Told(j)' => toServer'[j].cseq < nextCSeq
      BY <1>3, <1>7 DEF OutstandingInv
    <3>5. \A j \in 1..Len(toServer') : Told(j)' => toServer'[j].cseq # nextCSeq
      BY <1>2, <1>3, <1>4, <1>7, <3>4
    <3> QED
      BY <3>3, <3>5
  <2> QED
    BY <2>2, <2>3
<1> QED
  BY <1>8, <1>11, <1>12

LEMMA PendingTurn ==
    ASSUME TypeOK, TypeOK', CallTypeOK, ChannelInv, PendingInv,
           NEW new, NEW d, ServerTurn(new, d)
    PROVE  PendingInv'
<1>1. /\ Takes(d) /\ Grows(new)
      /\ UNCHANGED <<pending, cseq, clientLink, heard>>
  BY DEF ServerTurn, CallStep, SpeaksStep
<1>2. /\ \A s : Heard(s)' <=> Heard(s)
      /\ \A c : HeardAnswer(c)' <=> HeardAnswer(c)
  BY <1>1, HeardKept
<1>3. /\ Len(inbox) \in Nat /\ Len(inbox') \in Nat
      /\ \A c \in 1..Len(inbox) : inbox'[c] = inbox[c]
  BY <1>1, PastKept
<1> SUFFICES ASSUME clientLink = "open"
             PROVE  PendingInv'
  BY <1>1 DEF PendingInv
<1>4. /\ \A r \in pending : r.cseq \in 1..(cseq - 1) /\ ~HeardAnswer(r.cseq)
      /\ \A r, q \in pending : r.cseq = q.cseq => r = q
      /\ \A c \in 1..(cseq - 1) : HeardAnswer(c) \/ \E r \in pending : r.cseq = c
      /\ \A r \in pending :
             IF r.head \in {"OPTIONS", "RECORD"} THEN r.session = NoId
             ELSE r.session # NoId /\ Heard(r.session)
      /\ \A r \in pending : r.head = "OPTIONS" => r.cseq = 1
  BY DEF PendingInv
<1>5. ASSUME NEW i \in 1..Len(toServer'), Asked(i)'
      PROVE  toServer'[i] \in pending
  <2>1. i + d \in 1..Len(toServer) /\ toServer'[i] = toServer[i + d]
    BY <1>1 DEF Takes
  <2> QED
    BY <1>5, <2>1 DEF PendingInv, Asked
<1>6. ASSUME NEW r \in pending, r.cseq <= Len(inbox')
      PROVE  inbox'[r.cseq].method = r.head /\ inbox'[r.cseq].session = r.session
  <2>1. r.cseq \in Nat \ {0}
    BY <1>4 DEF CallTypeOK
  <2>2. CASE r.cseq <= Len(inbox)
    <3>1. inbox[r.cseq].method = r.head /\ inbox[r.cseq].session = r.session
      BY <2>2 DEF PendingInv
    <3> QED
      BY <1>3, <2>1, <2>2, <3>1
  <2>3. CASE ~(r.cseq <= Len(inbox))
    <3>1. d = 1 /\ Asked(1) /\ Taken(toServer[1]) /\ 1 \in 1..Len(toServer)
      BY <1>1, <1>3, <1>6, <2>1, <2>3 DEF ServerTurn, Settles, Takes
    <3>2. r.cseq = Len(inbox') /\ Len(inbox') = Len(inbox) + 1
      BY <1>3, <1>6, <2>1, <2>3, <3>1 DEF Taken
    <3>3. toServer[1].cseq = Len(inbox) + 1
      BY <3>1, HeadIsNext DEF Taken
    <3>4. r = toServer[1]
      BY <1>4, <3>1, <3>2, <3>3 DEF PendingInv
    <3> QED
      BY <1>4, <3>1, <3>2, <3>4 DEF Taken
  <2> QED
    BY <2>2, <2>3
<1> QED
  BY <1>1, <1>2, <1>4, <1>5, <1>6 DEF PendingInv

LEMMA RecorderTurn ==
    ASSUME TypeOK, TypeOK', CallTypeOK, RecorderInv, NEW new, NEW d, ServerTurn(new, d)
    PROVE  RecorderInv'
<1>1. /\ Grows(new)
      /\ UNCHANGED <<streamer, recordRequested, session, pending, clientLink, heard>>
  BY DEF ServerTurn, CallStep, SpeaksStep
<1>2. /\ \A s : Heard(s)' <=> Heard(s)
      /\ \A s : HeardEnd(s) => HeardEnd(s)'
      /\ \A j \in 1..heard : wire'[j] = wire[j]
  BY <1>1, HeardKept
<1> SUFFICES ASSUME clientLink = "open"
             PROVE  RecorderInv'
  BY <1>1 DEF RecorderInv
<1>3. ASSUME NEW j \in 1..heard, NEW s, s = wire'[j].session
      PROVE  \/ s \in {NoId, session}
             \/ \E r \in pending : r.head = "TEARDOWN" /\ r.session = s
             \/ HeardEnd(s)'
  <2>1. \/ s \in {NoId, session}
        \/ \E r \in pending : r.head = "TEARDOWN" /\ r.session = s
        \/ HeardEnd(s)
    BY <1>2, <1>3 DEF RecorderInv
  <2> QED
    BY <1>2, <2>1
<1>4. session # NoId => recordRequested /\ Heard(session)
  BY DEF RecorderInv
<1> QED
  BY <1>1, <1>2, <1>3, <1>4 DEF RecorderInv

\* A session ends for the server with the TEARDOWN it reads, and a new one is
\* the RECORD's the client still waits for.
LEMMA OrphanTurn ==
    ASSUME TypeOK, TypeOK', CallTypeOK, ChannelInv, PendingInv, OrphanInv,
           NEW new, NEW d, ServerTurn(new, d)
    PROVE  OrphanInv'
<1>1. /\ Takes(d) /\ Grows(new) /\ KeepsStep(new)
      /\ UNCHANGED <<session, pending, clientLink>>
  BY DEF ServerTurn, CallStep, SpeaksStep
<1> SUFFICES ASSUME Connected', NEW s \in SessionId, Live(s)'
             PROVE  \/ s = session
                    \/ \E r \in pending :
                           r.head = "RECORD" /\ r.cseq = mediaSessions'[s].cseq
                    \/ \E i \in 1..Len(toServer') :
                           toServer'[i].head = "TEARDOWN" /\ toServer'[i].session = s
  BY <1>1 DEF OrphanInv
<1>2. Connected /\ link' = "open"
  BY <1>1 DEF Connected, KeepsStep
<1>3. CASE GoesOn(s, new)
  <2>1. Live(s) /\ mediaSessions'[s].cseq = mediaSessions[s].cseq
    BY <1>3 DEF GoesOn
  <2>2. CASE \E i \in 1..Len(toServer) :
                 toServer[i].head = "TEARDOWN" /\ toServer[i].session = s
    <3>1. PICK i \in 1..Len(toServer) :
                   toServer[i].head = "TEARDOWN" /\ toServer[i].session = s
      BY <2>2
    <3>2. i > d
      <4> SUFFICES ASSUME ~(i > d)
                   PROVE  FALSE
        OBVIOUS
      <4>1. d = 1 /\ i = 1
        BY <1>1 DEF Takes
      <4>2. toServer[1] \in ClientsRequest \cup ClientsResponse
        BY <3>1, <4>1 DEF CallTypeOK
      <4>3. ~Told(1)
        BY <3>1, <4>1, <4>2 DEF Told, ClientsRequest, ClientsResponse
      <4>4. Taken(toServer[1])
        BY <1>2, <4>1, <4>3 DEF ServerTurn
      <4> QED
        BY <3>1, <4>1, <4>4 DEF Taken, Removed, Live
    <3>3. i - d \in 1..Len(toServer') /\ toServer'[i - d] = toServer[i]
      BY <1>1, <3>2 DEF Takes
    <3> QED
      BY <3>1, <3>3
  <2> QED
    BY <1>2, <2>1, <2>2 DEF OrphanInv
<1>4. CASE Recorded(s, new)
  <2>1. /\ Len(inbox') = Len(inbox) + 1 /\ Len(inbox) \in Nat
        /\ mediaSessions'[s].cseq = Len(inbox')
        /\ inbox'[Len(inbox')].method = "RECORD"
    BY <1>4 DEF Recorded, TypeOK
  <2>2. d = 1 /\ Asked(1) /\ Taken(toServer[1]) /\ 1 \in 1..Len(toServer)
    BY <1>1, <2>1 DEF ServerTurn, Settles, Takes
  <2>3. toServer[1].cseq = Len(inbox) + 1
    BY <2>2, HeadIsNext DEF Taken
  <2>4. toServer[1] \in pending
    BY <1>2, <2>2 DEF PendingInv, Connected
  <2>5. toServer[1].head = "RECORD"
    BY <2>1, <2>2 DEF Taken
  <2> QED
    BY <2>1, <2>3, <2>4, <2>5
<1> QED
  BY <1>1, <1>3, <1>4 DEF KeepsStep

\* A session the client records into goes on, or its end is on the way.
LEMMA AgreedTurn ==
    ASSUME TypeOK, TypeOK', IdsInv, CallTypeOK, SessionAgreed,
           NEW new, NEW d, ServerTurn(new, d)
    PROVE  SessionAgreed'
<1>1. /\ Grows(new) /\ KeepsStep(new) /\ UNCHANGED <<session, clientLink, heard>>
  BY DEF ServerTurn, CallStep, SpeaksStep
<1>2. heard \in 0..Len(wire) /\ Len(wire) \in Nat
  BY DEF CallTypeOK, TypeOK
<1> SUFFICES ASSUME Connected', session # NoId
             PROVE  \/ Live(session)' /\ mediaSessions'[session].prepared
                    \/ \E i \in Ended(session)' : i > heard
  BY <1>1 DEF SessionAgreed, NoId, Client!NoSessionId
<1>3. Connected /\ link' = "open"
  BY <1>1 DEF Connected, KeepsStep
<1> DEFINE s == session
<1>4. CASE \E i \in Ended(s) : i > heard
  <2>1. \A i \in Ended(s) : i \in Ended(s)'
    <3>1. ASSUME NEW t, t = session
          PROVE  \A i \in Ended(t) : i \in Ended(t)'
      BY <1>1, EndsKept
    <3> QED
      BY <1>1, <3>1
  <2> QED
    BY <1>4, <2>1
<1>5. CASE Live(s) /\ mediaSessions[s].prepared
  <2>1. s \in SessionId /\ s < nextSessionId
    BY <1>5 DEF Live, IdsInv
  <2>2. nextSessionId \in Nat /\ s \in Nat
    BY <2>1 DEF TypeOK, SessionId
  <2>3. CASE Live(s)'
    <3>1. ~Recorded(s, new)
      BY <2>1, <2>2 DEF Recorded
    <3>2. GoesOn(s, new)
      BY <1>1, <2>1, <2>3, <3>1 DEF KeepsStep, Live
    <3> QED
      BY <1>5, <2>3, <3>2 DEF GoesOn
  <2>4. CASE ~Live(s)'
    <3>1. PICK k \in 1..Len(new) : new[k].session = s /\ EndsSession(new[k], inbox')
      BY <1>1, <1>3, <1>5, <2>1, <2>4 DEF KeepsStep, Live
    <3>2. Len(wire) + k \in Ended(s)'
      <4>1. ASSUME NEW t, t = session
            PROVE  Len(wire) + k \in Ended(t)'
        BY <1>1, <3>1, <4>1, EndsKept
      <4> QED
        BY <1>1, <4>1
    <3>3. Len(wire) + k > heard
      BY <1>2
    <3> QED
      BY <3>2, <3>3
  <2> QED
    BY <2>3, <2>4
<1> QED
  BY <1>3, <1>4, <1>5 DEF SessionAgreed, NoId, Client!NoSessionId

-----------------------------------------------------------------------------
(* What a step of the client does.                                         *)

\* The requests that the message being read answers.
JustAnswered ==
    {r \in pending : /\ heard' = heard + 1
                     /\ IsResponse(heard + 1) /\ wire[heard + 1].cseq = r.cseq}

Listens ==
    /\ toServer' = toServer
    /\ cseq' = cseq
    /\ pending' = pending \ JustAnswered

\* The client makes request q, of a session it has heard of.
Makes(q) ==
    /\ q \in ClientsRequest
    /\ q.cseq = cseq
    /\ q.head # "OPTIONS"
    /\ IF q.head = "RECORD" THEN q.session = NoId
       ELSE q.session # NoId /\ \E j \in 1..heard' : wire[j].session = q.session
    /\ toServer' = Append(toServer, q)
    /\ cseq' = cseq + 1
    /\ pending' = (pending \ JustAnswered) \cup {q}

\* The client answers with q the request it reads.
Replies(q) ==
    /\ q \in ClientsResponse
    /\ heard' = heard + 1
    /\ IsRequest(heard + 1) /\ q.cseq = wire[heard + 1].cseq
    /\ toServer' = Append(toServer, q)
    /\ cseq' = cseq
    /\ pending' = pending

ClientTurn ==
    /\ UNCHANGED vars
    /\ heard' \in {heard, heard + 1} /\ heard' <= Len(wire)
    /\ \/ clientLink' # "open" /\ toServer' = toServer /\ cseq' \in {cseq, cseq + 1}
       \/ /\ clientLink' = "open" /\ clientLink = "open"
          /\ Listens \/ \E q : Makes(q) \/ Replies(q)

\* The client's own variables have their types still.
RecorderType ==
    /\ streamer' \in {"none", "preparing", "prepared"}
    /\ iceCandidates' \in Seq(Candidate)
    /\ recordRequested' \in BOOLEAN
    /\ session' \in Nat
    /\ take' \in Nat
    /\ offered' \in Nat
    /\ pending' \subseteq ClientsRequest
    /\ clientLink' \in {"open", "terminating", "closed", "crashed"}

\* What the wire and the server's side say does not change with the client.
LEMMA WireUnmoved ==
    ASSUME UNCHANGED vars
    PROVE  /\ \A s : Live(s)' <=> Live(s)
           /\ \A s : Announced(s)' <=> Announced(s)
           /\ \A s : Ended(s)' = Ended(s)
           /\ \A i, s : Ends(i, s)' <=> Ends(i, s)
           /\ \A i : (IsRequest(i)' <=> IsRequest(i)) /\ (IsResponse(i)' <=> IsResponse(i))
           /\ wire' = wire /\ inbox' = inbox /\ link' = link
           /\ mediaSessions' = mediaSessions /\ sentRequests' = sentRequests
           /\ nextCSeq' = nextCSeq
BY DEF vars, Live, Announced, Ended, Ends, IsRequest, IsResponse

LEMMA HeardGrows ==
    ASSUME TypeOK, CallTypeOK, ClientTurn
    PROVE  /\ heard \in Nat /\ heard' \in Nat /\ heard' \in 0..Len(wire)
           /\ heard' = heard \/ heard' = heard + 1
           /\ \A s : Heard(s) => Heard(s)'
           /\ \A c : HeardAnswer(c) => HeardAnswer(c)'
           /\ \A s : HeardEnd(s) => HeardEnd(s)'
<1>1. /\ heard \in Nat /\ Len(wire) \in Nat /\ heard' \in Nat
      /\ heard' = heard \/ heard' = heard + 1
      /\ heard' <= Len(wire)
      /\ \A j \in 1..heard : j \in 1..heard'
  BY DEF TypeOK, CallTypeOK, ClientTurn
<1>2. /\ wire' = wire
      /\ \A i, s : Ends(i, s)' <=> Ends(i, s)
      /\ \A i : IsResponse(i)' <=> IsResponse(i)
  BY WireUnmoved DEF ClientTurn
<1>3. ASSUME NEW s, Heard(s)
      PROVE  Heard(s)'
  BY <1>1, <1>2, <1>3 DEF Heard
<1>4. ASSUME NEW c, HeardAnswer(c)
      PROVE  HeardAnswer(c)'
  BY <1>1, <1>2, <1>4 DEF HeardAnswer
<1>5. ASSUME NEW s, HeardEnd(s)
      PROVE  HeardEnd(s)'
  BY <1>1, <1>2, <1>5 DEF HeardEnd
<1> QED
  BY <1>1, <1>3, <1>4, <1>5

\* A message joins the channel at its end.
LEMMA ChannelGrows ==
    ASSUME CallTypeOK, NEW q \in ClientsRequest \cup ClientsResponse,
           toServer' = Append(toServer, q)
    PROVE  /\ Len(toServer) \in Nat /\ Len(toServer') = Len(toServer) + 1
           /\ toServer' \in Seq(ClientsRequest \cup ClientsResponse)
           /\ \A i \in 1..Len(toServer) : i \in 1..Len(toServer') /\ toServer'[i] = toServer[i]
           /\ toServer'[Len(toServer')] = q
           /\ \A i \in 1..Len(toServer') : i \in 1..Len(toServer) \/ i = Len(toServer')
<1>1. toServer \in Seq(ClientsRequest \cup ClientsResponse)
  BY DEF CallTypeOK
<1>2. /\ Len(toServer) \in Nat /\ Len(toServer') = Len(toServer) + 1
      /\ toServer' \in Seq(ClientsRequest \cup ClientsResponse)
      /\ \A i \in 1..Len(toServer) : toServer'[i] = toServer[i]
      /\ toServer'[Len(toServer) + 1] = q
  BY <1>1
<1> QED
  BY <1>2

LEMMA ClientTypeTurn ==
    ASSUME TypeOK, CallTypeOK, ClientTurn, RecorderType
    PROVE  CallTypeOK'
<1>1. heard' \in 0..Len(wire')
  BY HeardGrows, WireUnmoved DEF ClientTurn
<1>2. cseq' \in Nat \ {0}
  BY DEF CallTypeOK, ClientTurn, Listens, Makes, Replies
<1>3. toServer' \in Seq(ClientsRequest \cup ClientsResponse)
  <2>1. CASE toServer' = toServer
    BY <2>1 DEF CallTypeOK
  <2>2. CASE \E q : Makes(q) \/ Replies(q)
    BY <2>2, ChannelGrows DEF Makes, Replies
  <2> QED
    BY <2>1, <2>2 DEF ClientTurn, Listens
<1> QED
  BY <1>1, <1>2, <1>3 DEF CallTypeOK, RecorderType

LEMMA ClientChannelTurn ==
    ASSUME TypeOK, CallTypeOK, ChannelInv, ClientTurn
    PROVE  ChannelInv'
<1>1. /\ inbox' = inbox /\ link' = link
      /\ \A s : Heard(s) => Heard(s)'
      /\ Len(inbox) \in Nat /\ cseq \in Nat /\ Len(toServer) \in Nat
      /\ cseq' \in {cseq, cseq + 1}
      /\ Len(inbox) < cseq
  BY WireUnmoved, HeardGrows
  DEF ClientTurn, TypeOK, CallTypeOK, ChannelInv, Listens, Makes, Replies
<1>2. \A i \in 1..Len(toServer) : Asked(i) =>
          /\ toServer[i].cseq \in (Len(inbox) + 1)..(cseq - 1)
          /\ toServer[i].head \in {"SETUP", "TEARDOWN"} =>
                 toServer[i].session # NoId /\ Heard(toServer[i].session)
  BY DEF ChannelInv
<1>3. \A i, j \in 1..Len(toServer) :
          i < j /\ Asked(i) /\ Asked(j) => toServer[i].cseq < toServer[j].cseq
  BY DEF ChannelInv
<1>4. CASE toServer' = toServer /\ (clientLink' = "open" => cseq' = cseq /\ clientLink = "open")
  <2>1. \A i \in 1..Len(toServer') : /\ i \in 1..Len(toServer) /\ toServer'[i] = toServer[i]
                                     /\ Asked(i)' <=> Asked(i)
    BY <1>4 DEF Asked
  <2>2. ASSUME link' # "closed", NEW c \in (Len(inbox) + 1)..(cseq' - 1)
        PROVE  \/ \E i \in 1..Len(toServer') : Asked(i)' /\ toServer'[i].cseq = c
               \/ /\ clientLink' # "open"
                  /\ \A i \in 1..Len(toServer') : Asked(i)' => toServer'[i].cseq < c
    <3>1. CASE c \in (Len(inbox) + 1)..(cseq - 1)
      <4>1. \/ \E i \in 1..Len(toServer) : Asked(i) /\ toServer[i].cseq = c
            \/ /\ clientLink # "open"
               /\ \A i \in 1..Len(toServer) : Asked(i) => toServer[i].cseq < c
        BY <1>1, <2>2, <3>1 DEF ChannelInv
      <4> QED
        BY <1>4, <2>1, <4>1 DEF Asked
    <3>2. CASE c = cseq
      <4>1. clientLink' # "open"
        <5>1. cseq' # cseq
          <6>1. c \in (Len(inbox) + 1)..(cseq' - 1) /\ cseq \in Nat /\ Len(inbox) \in Nat
            BY <1>1, <2>2
          <6>2. SUFFICES ASSUME cseq' = cseq PROVE FALSE
            OBVIOUS
          <6>3. c \in (Len(inbox) + 1)..(cseq - 1)
            BY <6>1, <6>2
          <6> QED
            BY <3>2, <6>1, <6>3
        <5> QED
          BY <1>4, <5>1
      <4>2. \A i \in 1..Len(toServer) : Asked(i) => toServer[i].cseq < c
        BY <1>1, <1>2, <3>2
      <4> QED
        BY <2>1, <4>1, <4>2
    <3> QED
      BY <1>1, <2>2, <3>1, <3>2
  <2>3. ASSUME NEW i \in 1..Len(toServer'), Asked(i)'
        PROVE  /\ toServer'[i].cseq \in (Len(inbox) + 1)..(cseq' - 1)
               /\ toServer'[i].head \in {"SETUP", "TEARDOWN"} =>
                      toServer'[i].session # NoId /\ Heard(toServer'[i].session)
    BY <1>1, <1>2, <2>1, <2>3
  <2>4. \A i \in 1..Len(toServer') : Asked(i)' =>
            /\ toServer'[i].cseq \in (Len(inbox') + 1)..(cseq' - 1)
            /\ toServer'[i].head \in {"SETUP", "TEARDOWN"} =>
                   toServer'[i].session # NoId /\ Heard(toServer[i].session)'
    BY <1>1, <1>4, <2>3
  <2>5. \A i, j \in 1..Len(toServer') :
            i < j /\ Asked(i)' /\ Asked(j)' => toServer'[i].cseq < toServer'[j].cseq
    BY <1>3, <2>1
  <2> QED
    BY <1>1, <2>2, <2>4, <2>5 DEF ChannelInv
<1>5. ASSUME NEW q \in ClientsRequest \cup ClientsResponse, toServer' = Append(toServer, q),
             clientLink = "open", clientLink' = "open",
             \/ Makes(q)
             \/ Replies(q)
      PROVE  ChannelInv'
  <2> DEFINE n == Len(toServer) + 1
  <2>1. /\ Len(toServer') = n
        /\ \A i \in 1..Len(toServer) : i \in 1..Len(toServer') /\ toServer'[i] = toServer[i]
        /\ toServer'[n] = q
        /\ \A i \in 1..Len(toServer') : i \in 1..Len(toServer) \/ i = n
    BY <1>5, ChannelGrows
  <2>2. \A i \in 1..Len(toServer) : Asked(i)' <=> Asked(i)
    BY <2>1 DEF Asked
  <2>3. q.kind = "request" => Makes(q)
    BY <1>5 DEF Replies, ClientsResponse, Makes
  <2>4. ASSUME NEW i \in 1..Len(toServer'), Asked(i)', NEW s, s = toServer'[i].session
        PROVE  /\ toServer'[i].cseq \in (Len(inbox') + 1)..(cseq' - 1)
               /\ toServer'[i].head \in {"SETUP", "TEARDOWN"} => s # NoId /\ Heard(s)'
    <3>1. CASE i \in 1..Len(toServer)
      BY <1>1, <1>2, <2>1, <2>2, <2>4, <3>1
    <3>2. CASE i = n
      <4>1. toServer'[i] = q /\ Makes(q)
        BY <2>1, <2>3, <2>4, <3>2 DEF Asked
      <4>2. q.cseq = cseq /\ cseq' = cseq + 1
        BY <4>1 DEF Makes
      <4>3. q.head \in {"SETUP", "TEARDOWN"} => s # NoId /\ Heard(s)'
        BY <2>4, <4>1, WireUnmoved DEF Makes, Heard, ClientTurn
      <4> QED
        BY <1>1, <4>1, <4>2, <4>3
    <3> QED
      BY <2>1, <3>1, <3>2
  <2>5. ASSUME NEW i \in 1..Len(toServer'), NEW j \in 1..Len(toServer'),
               i < j, Asked(i)', Asked(j)'
        PROVE  toServer'[i].cseq < toServer'[j].cseq
    <3>1. i \in 1..Len(toServer)
      BY <1>1, <2>1, <2>5
    <3>2. CASE j \in 1..Len(toServer)
      BY <1>3, <2>1, <2>2, <2>5, <3>1, <3>2
    <3>3. CASE j = n
      <4>1. toServer'[j] = q /\ Makes(q)
        BY <2>1, <2>3, <2>5, <3>3 DEF Asked
      <4>2. toServer'[j].cseq = cseq
        BY <4>1 DEF Makes
      <4>3. toServer'[i].cseq \in (Len(inbox) + 1)..(cseq - 1)
        BY <1>2, <2>1, <2>2, <2>5, <3>1
      <4> QED
        BY <1>1, <4>2, <4>3
    <3> QED
      BY <2>1, <3>2, <3>3
  <2>6. ASSUME link' # "closed", NEW c \in (Len(inbox') + 1)..(cseq' - 1)
        PROVE  \E i \in 1..Len(toServer') : Asked(i)' /\ toServer'[i].cseq = c
    <3>1. CASE c \in (Len(inbox) + 1)..(cseq - 1)
      <4>1. PICK i \in 1..Len(toServer) : Asked(i) /\ toServer[i].cseq = c
        BY <1>1, <1>5, <2>6, <3>1 DEF ChannelInv
      <4> QED
        BY <2>1, <2>2, <4>1
    <3>2. CASE c \notin (Len(inbox) + 1)..(cseq - 1)
      <4>1. c = cseq /\ cseq' = cseq + 1
        <5>1. c \in (Len(inbox) + 1)..(cseq' - 1)
          BY <1>1, <2>6
        <5>2. cseq' = cseq + 1
          BY <1>1, <3>2, <5>1
        <5> QED
          BY <1>1, <3>2, <5>1, <5>2
      <4>2. Makes(q)
        BY <1>1, <1>5, <4>1 DEF Replies
      <4>3. q.kind = "request" /\ q.cseq = c
        BY <4>1, <4>2 DEF Makes, ClientsRequest
      <4>4. n \in 1..Len(toServer')
        BY <1>1, <2>1
      <4>5. ASSUME NEW i \in 1..Len(toServer'), i = n
            PROVE  Asked(i)' /\ toServer'[i].cseq = c
        BY <2>1, <4>3, <4>5 DEF Asked
      <4> QED
        BY <4>4, <4>5
    <3> QED
      BY <3>1, <3>2
  <2>7. Len(inbox') < cseq'
    BY <1>1
  <2>8. \A i \in 1..Len(toServer') : Asked(i)' =>
            /\ toServer'[i].cseq \in (Len(inbox') + 1)..(cseq' - 1)
            /\ toServer'[i].head \in {"SETUP", "TEARDOWN"} =>
                   toServer'[i].session # NoId /\ Heard(toServer[i].session)'
    BY <2>4
  <2> QED
    BY <2>5, <2>6, <2>7, <2>8 DEF ChannelInv
<1> QED
  BY <1>4, <1>5 DEF ClientTurn, Listens, Makes, Replies

LEMMA ClientOutstandingTurn ==
    ASSUME TypeOK, CallTypeOK, WireInv, OutstandingInv, ClientTurn
    PROVE  OutstandingInv'
<1>1. /\ link' = link /\ wire' = wire /\ sentRequests' = sentRequests /\ nextCSeq' = nextCSeq
      /\ \A i : IsRequest(i)' <=> IsRequest(i)
      /\ heard \in Nat /\ heard' \in 0..Len(wire) /\ (heard' = heard \/ heard' = heard + 1)
      /\ Len(wire) \in Nat
  BY WireUnmoved, HeardGrows DEF ClientTurn, TypeOK
<1>2. \A r \in sentRequests' : r.head \in {"SETUP", "TEARDOWN"} /\ r.cseq < nextCSeq'
  BY <1>1 DEF OutstandingInv
<1> SUFFICES ASSUME link' = "open"
             PROVE  OutstandingInv'
  BY <1>2 DEF OutstandingInv
<1>3. /\ \A i \in (heard + 1)..Len(wire) : IsRequest(i) =>
             /\ wire[i] \in sentRequests
             /\ \A j \in 1..Len(toServer) : Told(j) => toServer[j].cseq # wire[i].cseq
      /\ \A j \in 1..Len(toServer) : Told(j) => \E r \in sentRequests : r.cseq = toServer[j].cseq
      /\ \A j, k \in 1..Len(toServer) :
             Told(j) /\ Told(k) /\ toServer[j].cseq = toServer[k].cseq => j = k
  BY <1>1 DEF OutstandingInv
<1>4. ASSUME NEW i \in (heard' + 1)..Len(wire)
      PROVE  /\ i \in (heard + 1)..Len(wire) /\ i \in 1..Len(wire)
             /\ heard' = heard + 1 => heard + 1 < i /\ heard + 1 \in 1..Len(wire)
  <2>1. heard \in Nat /\ heard' \in Nat /\ Len(wire) \in Nat
        /\ (heard' = heard \/ heard' = heard + 1)
    BY <1>1
  <2>2. CASE heard' = heard
    BY <2>1, <2>2
  <2>3. CASE heard' = heard + 1
    BY <2>1, <2>3
  <2> QED
    BY <2>1, <2>2, <2>3
<1>5. CASE toServer' = toServer
  <2>1. \A j : Told(j)' <=> Told(j)
    BY <1>5 DEF Told
  <2> QED
    BY <1>1, <1>2, <1>3, <1>4, <1>5, <2>1 DEF OutstandingInv
<1>6. ASSUME NEW q \in ClientsRequest \cup ClientsResponse, toServer' = Append(toServer, q),
             \/ Makes(q)
             \/ Replies(q)
      PROVE  OutstandingInv'
  <2>1. /\ Len(toServer') = Len(toServer) + 1
        /\ \A j \in 1..Len(toServer) : j \in 1..Len(toServer') /\ toServer'[j] = toServer[j]
        /\ toServer'[Len(toServer')] = q
        /\ \A j \in 1..Len(toServer') : j \in 1..Len(toServer) \/ j = Len(toServer')
    BY <1>6, ChannelGrows
  <2>2. \A j \in 1..Len(toServer) : Told(j)' <=> Told(j)
    BY <2>1 DEF Told
  <2>3. q.kind = "response" => Replies(q)
    BY <1>6 DEF Makes, ClientsRequest
  <2>4. ASSUME NEW j \in 1..Len(toServer'), Told(j)', j \notin 1..Len(toServer)
        PROVE  /\ toServer'[j] = q /\ Replies(q)
               /\ heard' = heard + 1 /\ heard' \in (heard + 1)..Len(wire)
               /\ IsRequest(heard + 1)
               /\ toServer'[j].cseq = wire[heard + 1].cseq
    <3>1. toServer'[j] = q /\ Replies(q)
      BY <2>1, <2>3, <2>4 DEF Told
    <3> QED
      BY <1>1, <3>1 DEF Replies
  <2>5. ASSUME NEW j \in 1..Len(toServer'), Told(j)'
        PROVE  \E r \in sentRequests : r.cseq = toServer'[j].cseq
    <3>1. CASE j \in 1..Len(toServer)
      BY <1>3, <2>1, <2>2, <2>5, <3>1
    <3>2. CASE j \notin 1..Len(toServer)
      BY <1>3, <2>4, <2>5, <3>2
    <3> QED
      BY <3>1, <3>2
  <2>6. ASSUME NEW j \in 1..Len(toServer'), NEW k \in 1..Len(toServer'), Told(j)', Told(k)',
               toServer'[j].cseq = toServer'[k].cseq, k \notin 1..Len(toServer)
        PROVE  j = k
    <3>1. CASE j \in 1..Len(toServer)
      <4>1. toServer[j].cseq = wire[heard + 1].cseq /\ IsRequest(heard + 1)
            /\ heard + 1 \in (heard + 1)..Len(wire) /\ Told(j)
        BY <2>1, <2>2, <2>4, <2>6, <3>1
      <4> QED
        BY <1>3, <3>1, <4>1
    <3>2. CASE j \notin 1..Len(toServer)
      BY <2>1, <2>6, <3>2
    <3> QED
      BY <3>1, <3>2
  <2>7. ASSUME NEW j \in 1..Len(toServer'), NEW k \in 1..Len(toServer'), Told(j)', Told(k)',
               toServer'[j].cseq = toServer'[k].cseq
        PROVE  j = k
    <3>1. CASE j \in 1..Len(toServer) /\ k \in 1..Len(toServer)
      BY <1>3, <2>1, <2>2, <2>7, <3>1
    <3> QED
      BY <2>6, <2>7, <3>1
  <2>8. ASSUME NEW i \in (heard' + 1)..Len(wire), IsRequest(i),
               NEW j \in 1..Len(toServer'), Told(j)'
        PROVE  toServer'[j].cseq # wire[i].cseq
    <3>1. CASE j \in 1..Len(toServer)
      BY <1>3, <1>4, <2>1, <2>2, <2>8, <3>1
    <3>2. CASE j \notin 1..Len(toServer)
      <4>1. /\ heard + 1 < i /\ heard + 1 \in 1..Len(wire) /\ i \in 1..Len(wire)
            /\ IsRequest(heard + 1) /\ toServer'[j].cseq = wire[heard + 1].cseq
        BY <1>4, <2>4, <2>8, <3>2
      <4>2. wire[heard + 1].cseq < wire[i].cseq
        BY <2>8, <4>1 DEF WireInv
      <4>3. wire[heard + 1].cseq \in Nat
        BY <4>1 DEF WireInv
      <4> QED
        BY <4>1, <4>2, <4>3
    <3> QED
      BY <3>1, <3>2
  <2> QED
    BY <1>1, <1>2, <1>3, <1>4, <2>5, <2>7, <2>8 DEF OutstandingInv
<1> QED
  BY <1>5, <1>6 DEF ClientTurn, Listens, Makes, Replies

LEMMA ClientPendingTurn ==
    ASSUME TypeOK, CallTypeOK, WireInv, ChannelInv, PendingInv, ClientTurn
    PROVE  PendingInv'
<1> SUFFICES ASSUME clientLink' = "open"
             PROVE  PendingInv'
  BY DEF PendingInv
<1>1. /\ clientLink = "open"
      /\ wire' = wire /\ inbox' = inbox
      /\ \A i : IsResponse(i)' <=> IsResponse(i)
      /\ heard \in Nat /\ heard' \in 0..Len(wire) /\ (heard' = heard \/ heard' = heard + 1)
      /\ Len(wire) \in Nat /\ Len(inbox) \in Nat /\ cseq \in Nat
      /\ \A s : Heard(s) => Heard(s)'
      /\ Len(inbox) < cseq
  BY WireUnmoved, HeardGrows DEF ClientTurn, TypeOK, CallTypeOK, ChannelInv
<1>2. /\ \A r \in pending : r.cseq \in 1..(cseq - 1) /\ ~HeardAnswer(r.cseq)
      /\ \A r, q \in pending : r.cseq = q.cseq => r = q
      /\ \A c \in 1..(cseq - 1) : HeardAnswer(c) \/ \E r \in pending : r.cseq = c
      /\ \A i \in 1..Len(toServer) : Asked(i) => toServer[i] \in pending
      /\ \A r \in pending : r.cseq <= Len(inbox) =>
             inbox[r.cseq].method = r.head /\ inbox[r.cseq].session = r.session
      /\ \A r \in pending :
             IF r.head \in {"OPTIONS", "RECORD"} THEN r.session = NoId
             ELSE r.session # NoId /\ Heard(r.session)
      /\ \A r \in pending : r.head = "OPTIONS" => r.cseq = 1
  BY <1>1 DEF PendingInv
<1>3. \A c : HeardAnswer(c)' <=>
          HeardAnswer(c) \/ (heard' = heard + 1 /\ IsResponse(heard + 1)
                                 /\ wire[heard + 1].cseq = c)
  BY <1>1 DEF HeardAnswer
<1>4. \A i \in 1..Len(wire) : IsResponse(i) => wire[i].cseq \in 1..Len(inbox)
  BY DEF WireInv
<1>5. \A c : HeardAnswer(c)' => c \in 1..Len(inbox)
  <2>1. heard \in 0..Len(wire)
    BY DEF CallTypeOK
  <2> QED
    BY <1>1, <1>3, <1>4, <2>1 DEF HeardAnswer
<1> DEFINE kept == pending \ JustAnswered
<1>6. \A r \in kept : ~HeardAnswer(r.cseq)'
  BY <1>2, <1>3 DEF JustAnswered
<1>7. \A c \in 1..(cseq - 1) : HeardAnswer(c)' \/ \E r \in kept : r.cseq = c
  BY <1>2, <1>3 DEF JustAnswered
<1>8. ASSUME NEW i \in 1..Len(toServer), Asked(i)
      PROVE  toServer[i] \in kept
  <2>1. toServer[i].cseq \in (Len(inbox) + 1)..(cseq - 1)
    BY <1>8 DEF ChannelInv
  <2>2. toServer[i] \in pending /\ toServer[i].cseq \notin 1..Len(inbox)
    BY <1>1, <1>2, <1>8, <2>1
  <2>3. heard' = heard + 1 => heard + 1 \in 1..Len(wire)
    BY <1>1
  <2> QED
    BY <1>4, <2>2, <2>3 DEF JustAnswered
<1>9. ASSUME NEW r \in kept
      PROVE  /\ r.cseq \in 1..(cseq - 1) /\ ~HeardAnswer(r.cseq)'
             /\ r.cseq <= Len(inbox) =>
                    inbox[r.cseq].method = r.head /\ inbox[r.cseq].session = r.session
             /\ IF r.head \in {"OPTIONS", "RECORD"} THEN r.session = NoId
                ELSE r.session # NoId /\ Heard(r.session)'
             /\ r.head = "OPTIONS" => r.cseq = 1
  BY <1>1, <1>2, <1>6
<1>10. CASE \E q : Makes(q)
  <2>1. PICK q : Makes(q)
    BY <1>10
  <2>2. /\ q \in ClientsRequest /\ toServer' = Append(toServer, q)
        /\ cseq' = cseq + 1 /\ q.cseq = cseq
        /\ pending' = kept \cup {q}
        /\ q.head # "OPTIONS"
    BY <2>1 DEF Makes
  <2>3. IF q.head \in {"OPTIONS", "RECORD"} THEN q.session = NoId
        ELSE q.session # NoId /\ Heard(q.session)'
    BY <1>1, <2>1 DEF Makes, Heard
  <2>4. ~HeardAnswer(q.cseq)' /\ ~(q.cseq <= Len(inbox))
    BY <1>1, <1>5, <2>2
  <2>5. ASSUME NEW i \in 1..Len(toServer'), Asked(i)'
        PROVE  toServer'[i] \in pending'
    <3>1. CASE i \in 1..Len(toServer)
      <4>1. toServer'[i] = toServer[i]
        BY <2>2, <3>1, ChannelGrows
      <4> QED
        BY <1>8, <2>2, <2>5, <3>1, <4>1 DEF Asked
    <3>2. CASE i \notin 1..Len(toServer)
      BY <2>2, <3>2, ChannelGrows
    <3> QED
      BY <3>1, <3>2
  <2>6. ASSUME NEW r \in pending'
        PROVE  /\ r.cseq \in 1..(cseq' - 1) /\ ~HeardAnswer(r.cseq)'
               /\ r.cseq <= Len(inbox') =>
                      inbox'[r.cseq].method = r.head /\ inbox'[r.cseq].session = r.session
               /\ IF r.head \in {"OPTIONS", "RECORD"} THEN r.session = NoId
                  ELSE r.session # NoId /\ Heard(r.session)'
               /\ r.head = "OPTIONS" => r.cseq = 1
    <3>1. CASE r \in kept
      BY <1>1, <1>9, <2>2, <3>1
    <3>2. CASE r = q
      BY <1>1, <2>2, <2>3, <2>4, <3>2
    <3> QED
      BY <2>2, <3>1, <3>2
  <2>7. ASSUME NEW r \in pending', NEW t \in pending', r.cseq = t.cseq
        PROVE  r = t
    <3>1. ASSUME NEW u \in kept
          PROVE  u.cseq # cseq
      BY <1>1, <1>9
    <3> QED
      BY <1>2, <2>2, <2>7, <3>1
  <2>8. ASSUME NEW c \in 1..(cseq' - 1)
        PROVE  HeardAnswer(c)' \/ \E r \in pending' : r.cseq = c
    <3>1. CASE c \in 1..(cseq - 1)
      BY <1>7, <2>2, <3>1
    <3>2. CASE c = cseq
      BY <2>2, <3>2
    <3> QED
      BY <1>1, <2>2, <3>1, <3>2
  <2> QED
    BY <2>5, <2>6, <2>7, <2>8 DEF PendingInv
<1>11. CASE Listens \/ \E q : Replies(q)
  <2>1. pending' = kept /\ cseq' = cseq
    BY <1>1, <1>11 DEF Listens, Replies, JustAnswered, IsRequest, IsResponse
  <2>2. ASSUME NEW i \in 1..Len(toServer'), Asked(i)'
        PROVE  toServer'[i] \in pending'
    <3>1. CASE Listens
      BY <1>8, <2>1, <2>2, <3>1 DEF Listens, Asked
    <3>2. CASE \E q : Replies(q)
      <4>1. PICK q : q \in ClientsResponse /\ toServer' = Append(toServer, q)
        BY <3>2 DEF Replies
      <4>2. i \in 1..Len(toServer) /\ toServer'[i] = toServer[i]
        BY <2>2, <4>1, ChannelGrows DEF Asked, ClientsResponse
      <4> QED
        BY <1>8, <2>1, <2>2, <4>2 DEF Asked
    <3> QED
      BY <1>11, <3>1, <3>2
  <2> QED
    BY <1>1, <1>2, <1>7, <1>9, <2>1, <2>2 DEF PendingInv
<1> QED
  BY <1>1, <1>10, <1>11 DEF ClientTurn

\* What a step of the client has to keep besides the channel.
ClientKeeps ==
    ClientTurn /\ RecorderType /\ RecorderInv' /\ OrphanInv' /\ SessionAgreed'

\* The client has spoken of session s, or knows that it is over.
Handled(s) ==
    \/ s \in {NoId, session}
    \/ \E r \in pending : r.head = "TEARDOWN" /\ r.session = s
    \/ HeardEnd(s)

LEMMA CallInvType ==
    ASSUME CallInv
    PROVE  /\ TypeOK /\ IdsInv /\ CallTypeOK
           /\ heard \in Nat /\ Len(wire) \in Nat /\ heard <= Len(wire) /\ cseq \in Nat
           /\ \A i \in 1..Len(wire) : wire[i] \in Message /\ wire[i].session \in Nat
           /\ clientLink = "open" => \A j \in 1..heard : Handled(wire[j].session)
<1>1. TypeOK /\ IdsInv /\ CallTypeOK
  BY DEF CallInv, ServerInv, SilenceInv
<1>2. \A i \in 1..Len(wire) : wire[i] \in Message
  BY <1>1 DEF TypeOK
<1>3. clientLink = "open" => \A j \in 1..heard : Handled(wire[j].session)
  BY DEF CallInv, RecorderInv, Handled
<1> QED
  BY <1>1, <1>2, <1>3 DEF TypeOK, CallTypeOK, Message

LEMMA LeavesOpen ==
    ASSUME clientLink' # "open", UNCHANGED vars,
           heard' \in {heard, heard + 1}, heard' <= Len(wire),
           toServer' = toServer, cseq' \in {cseq, cseq + 1}, RecorderType
    PROVE  ClientKeeps
BY DEF ClientKeeps, ClientTurn, RecorderInv, OrphanInv, SessionAgreed, Connected

\* A message the client reads does not change what it records into.
LEMMA SameSession ==
    ASSUME CallInv, ClientTurn, clientLink' = "open", session' = session,
           \A r \in pending : r.head = "RECORD" => r \in pending',
           heard' = heard + 1 /\ session # NoId => ~Ends(heard + 1, session)
    PROVE  OrphanInv' /\ SessionAgreed'
<1>1. /\ TypeOK /\ CallTypeOK /\ heard \in Nat /\ (heard' = heard \/ heard' = heard + 1)
      /\ \A s : Live(s)' <=> Live(s)
      /\ \A s : Ended(s)' = Ended(s)
      /\ mediaSessions' = mediaSessions
      /\ Connected' => Connected
  BY CallInvType, WireUnmoved DEF ClientTurn, Connected
<1>2. \A i \in 1..Len(toServer) : i \in 1..Len(toServer') /\ toServer'[i] = toServer[i]
  <2>1. CASE toServer' = toServer
    BY <2>1
  <2>2. CASE \E q : Makes(q) \/ Replies(q)
    BY <1>1, <2>2, ChannelGrows DEF Makes, Replies
  <2> QED
    BY <2>1, <2>2 DEF ClientTurn, Listens
<1>3. ASSUME Connected', NEW s \in SessionId, Live(s)
      PROVE  \/ s = session
             \/ \E r \in pending' : r.head = "RECORD" /\ r.cseq = mediaSessions[s].cseq
             \/ \E i \in 1..Len(toServer') :
                    toServer'[i].head = "TEARDOWN" /\ toServer'[i].session = s
  <2>1. \/ s = session
        \/ \E r \in pending : r.head = "RECORD" /\ r.cseq = mediaSessions[s].cseq
        \/ \E i \in 1..Len(toServer) :
               toServer[i].head = "TEARDOWN" /\ toServer[i].session = s
    BY <1>1, <1>3 DEF CallInv, OrphanInv
  <2> QED
    BY <1>2, <2>1
<1>4. ASSUME Connected', session # NoId
      PROVE  \/ Live(session) /\ mediaSessions[session].prepared
             \/ \E i \in Ended(session) : i > heard'
  <2>1. \/ Live(session) /\ mediaSessions[session].prepared
        \/ \E i \in Ended(session) : i > heard
    BY <1>1, <1>4 DEF CallInv, SessionAgreed, NoId, Client!NoSessionId
  <2>2. ASSUME NEW i \in Ended(session), i > heard
        PROVE  i > heard'
    <3>1. i \in Nat /\ Ends(i, session)
      BY <1>1, <2>2 DEF Ended, TypeOK
    <3>2. heard' = heard + 1 => i # heard + 1
      BY <1>4, <3>1
    <3> QED
      BY <1>1, <2>2, <3>1, <3>2
  <2> QED
    BY <2>1, <2>2
<1>5. SessionAgreed'
  <2>1. ASSUME NEW t, t = session, t # NoId, Connected'
        PROVE  (Live(t)' /\ mediaSessions'[t].prepared) \/ \E i \in Ended(t)' : i > heard'
    BY <1>1, <1>4, <2>1
  <2> QED
    BY <1>1, <2>1 DEF SessionAgreed, NoId, Client!NoSessionId
<1> QED
  BY <1>1, <1>3, <1>5 DEF OrphanInv

LEMMA StillHandled ==
    ASSUME CallInv, ClientTurn, clientLink = "open",
           \A s : Handled(s) => Handled(s)',
           NEW k, k = wire[heard + 1].session, heard' = heard + 1 => Handled(k)'
    PROVE  \A j \in 1..heard' : \A s : s = wire'[j].session =>
               \/ s \in {NoId, session'}
               \/ \E r \in pending' : r.head = "TEARDOWN" /\ r.session = s
               \/ HeardEnd(s)'
<1>1. /\ heard \in Nat /\ (heard' = heard \/ heard' = heard + 1)
      /\ wire' = wire
      /\ \A j \in 1..heard : Handled(wire[j].session)
  BY CallInvType, WireUnmoved DEF ClientTurn
<1>2. ASSUME NEW j \in 1..heard', NEW s, s = wire[j].session
      PROVE  Handled(s)'
  <2>1. CASE j \in 1..heard
    BY <1>1, <1>2, <2>1
  <2>2. CASE j \notin 1..heard
    <3>1. j = heard + 1 /\ heard' = heard + 1
      BY <1>1, <2>2
    <3> QED
      BY <1>2, <3>1
  <2> QED
    BY <2>1, <2>2
<1> QED
  BY <1>1, <1>2 DEF Handled

\* The client makes request q: it is sent while the connection is open.
Asks(q, settled, method, s) ==
    /\ q \in ClientsRequest
    /\ q.head = method /\ q.session = s /\ q.cseq = cseq
    /\ cseq' = cseq + 1
    /\ pending' = (pending \ settled) \cup {q}
    /\ toServer' = IF clientLink = "open" THEN Append(toServer, q) ELSE toServer

LEMMA RequestMade ==
    ASSUME CallTypeOK, NEW settled, NEW method \in ClientHeads, NEW s \in Nat,
           NEW body \in Seq(Candidate), Client!RequestAfter(settled, method, s, body)
    PROVE  \E q : Asks(q, settled, method, s)
<1> DEFINE q == [kind |-> "request", head |-> method, cseq |-> cseq,
                 session |-> s, body |-> body]
<1>1. q \in ClientsRequest
  BY DEF CallTypeOK, ClientsRequest
<1>2. /\ cseq' = cseq + 1
      /\ pending' = (pending \ settled) \cup {q}
      /\ toServer' = IF clientLink = "open" THEN toServer \o <<q>> ELSE toServer
  BY DEF Client!RequestAfter, Client!Send, Client!ClientMessage
<1>3. toServer \o <<q>> = Append(toServer, q)
  BY <1>1 DEF CallTypeOK
<1>4. Asks(q, settled, method, s)
  BY <1>1, <1>2, <1>3 DEF Asks
<1> QED
  BY <1>4

-----------------------------------------------------------------------------
(* The application's and the streamer's steps.                             *)

LEMMA NothingAnswered ==
    ASSUME heard \in Nat, heard' = heard
    PROVE  JustAnswered = {}
BY DEF JustAnswered

\* A step that only asks, or does not even that, while the connection is open.
LEMMA OwnStepKeeps ==
    ASSUME CallInv, UNCHANGED <<vars, heard, clientLink>>, clientLink = "open",
           RecorderType, session' = session,
           Listens \/ \E q : Makes(q),
           recordRequested' => streamer' = "prepared",
           recordRequested => recordRequested',
           \A r \in pending' : r.head = "RECORD" =>
               recordRequested' /\ session = NoId /\ \A t \in pending' : t.head = "RECORD" => r = t,
           \A r \in pending' : r.head = "TEARDOWN" => r \in pending
    PROVE  ClientKeeps
<1>1. /\ TypeOK /\ CallTypeOK /\ heard \in Nat /\ heard' = heard /\ heard <= Len(wire)
      /\ session \in Nat
  BY CallInvType DEF CallTypeOK
<1>2. ClientTurn
  BY <1>1 DEF ClientTurn
<1>3. pending \subseteq pending'
  BY <1>1, NothingAnswered DEF Listens, Makes
<1>4. OrphanInv' /\ SessionAgreed'
  BY <1>1, <1>2, <1>3, SameSession
<1>5. /\ \A s : Heard(s) => Heard(s)'
      /\ \A s : HeardEnd(s) => HeardEnd(s)'
  BY <1>1, <1>2, HeardGrows
<1>6. \A s : Handled(s) => Handled(s)'
  BY <1>3, <1>5 DEF Handled
<1>7. \A j \in 1..heard' : \A s : s = wire'[j].session =>
          \/ s \in {NoId, session'}
          \/ \E r \in pending' : r.head = "TEARDOWN" /\ r.session = s
          \/ HeardEnd(s)'
  <2>1. heard' # heard + 1
    BY <1>1
  <2> QED
    BY <1>2, <1>6, <2>1, StillHandled
<1>8. RecorderInv'
  <2>1. /\ session # NoId => recordRequested /\ Heard(session)
        /\ \A r \in pending : r.head = "TEARDOWN" => r.session # session
    BY DEF CallInv, RecorderInv
  <2>2. session # NoId => recordRequested' /\ Heard(session)'
    <3>1. ASSUME NEW s, s = session, s # NoId
          PROVE  Heard(s)'
      BY <1>5, <2>1, <3>1
    <3> QED
      BY <2>1, <3>1
  <2> QED
    BY <1>7, <2>1, <2>2 DEF RecorderInv
<1> QED
  BY <1>2, <1>4, <1>8 DEF ClientKeeps

LEMMA startRecordKeeps ==
    ASSUME CallInv, Client!startRecord, UNCHANGED <<vars, heard>>
    PROVE  ClientKeeps
<1>1. /\ clientLink = "open" /\ streamer = "none" /\ streamer' = "preparing"
      /\ take' = take + 1 /\ offered' = 0
      /\ UNCHANGED <<iceCandidates, recordRequested, session, pending, cseq,
                     clientLink, toServer>>
  BY DEF Client!startRecord
<1>2. CallTypeOK /\ heard \in Nat
  BY CallInvType
<1>3. RecorderType
  BY <1>1, <1>2 DEF RecorderType, CallTypeOK
<1>4. Listens
  BY <1>1, <1>2, NothingAnswered DEF Listens
<1>5. ~recordRequested
  BY <1>1 DEF CallInv, RecorderInv
<1>6. \A r \in pending : r.head # "RECORD"
  BY <1>1, <1>5 DEF CallInv, RecorderInv
<1> QED
  BY <1>1, <1>3, <1>4, <1>5, <1>6, OwnStepKeeps

LEMMA streamerPreparedKeeps ==
    ASSUME CallInv, Client!streamerPrepared, UNCHANGED <<vars, heard>>
    PROVE  ClientKeeps
<1>1. /\ streamer = "preparing" /\ streamer' = "prepared"
      /\ UNCHANGED <<iceCandidates, session, take, offered>>
  BY DEF Client!streamerPrepared
<1>2. CallTypeOK /\ TypeOK /\ heard \in Nat /\ heard <= Len(wire)
  BY CallInvType
<1>3. CASE Client!ClientDisconnect /\ UNCHANGED <<pending, cseq, toServer, recordRequested>>
  <2>1. clientLink' # "open" /\ clientLink' \in {"terminating", "closed", "crashed"}
    BY <1>2, <1>3 DEF Client!ClientDisconnect, CallTypeOK
  <2>2. RecorderType
    BY <1>1, <1>2, <1>3, <2>1 DEF RecorderType, CallTypeOK
  <2> QED
    BY <1>2, <1>3, <2>1, <2>2, LeavesOpen
<1>4. CASE /\ Client!ClientRequest("RECORD", Client!NoSessionId, <<>>)
           /\ recordRequested' = TRUE
           /\ UNCHANGED clientLink
  <2>0. PICK q : Asks(q, {}, "RECORD", NoId)
    <3>1. Client!RequestAfter({}, "RECORD", NoId, <<>>)
      BY <1>4 DEF Client!ClientRequest, Client!NoSessionId, NoId
    <3>2. "RECORD" \in ClientHeads /\ NoId \in Nat /\ <<>> \in Seq(Candidate)
      BY DEF ClientHeads, NoId
    <3> QED
      BY <1>2, <3>1, <3>2, RequestMade
  <2>1. /\ q \in ClientsRequest
        /\ q.head = "RECORD" /\ q.session = NoId /\ q.cseq = cseq
        /\ cseq' = cseq + 1
        /\ pending' = pending \cup {q}
        /\ toServer' = IF clientLink = "open" THEN Append(toServer, q) ELSE toServer
    BY <2>0 DEF Asks
  <2>2. RecorderType
    BY <1>1, <1>2, <1>4, <2>1 DEF RecorderType, CallTypeOK
  <2>3. CASE clientLink = "open"
    <3>1. Makes(q)
      BY <1>2, <2>1, <2>3, NothingAnswered DEF Makes
    <3>2. ~recordRequested
      BY <1>1, <2>3 DEF CallInv, RecorderInv
    <3>3. session = NoId /\ \A r \in pending : r.head # "RECORD"
      BY <2>3, <3>2 DEF CallInv, RecorderInv
    <3>4. \A r \in pending' : /\ r.head = "RECORD" => r = q
                              /\ r.head = "TEARDOWN" => r \in pending
      BY <2>1, <3>3
    <3> QED
      BY <1>1, <1>4, <2>2, <2>3, <3>1, <3>3, <3>4, OwnStepKeeps
  <2>4. CASE clientLink # "open"
    BY <1>2, <1>4, <2>1, <2>2, <2>4, LeavesOpen
  <2> QED
    BY <2>3, <2>4
<1> QED
  BY <1>3, <1>4 DEF Client!streamerPrepared

LEMMA iceCandidateKeeps ==
    ASSUME CallInv, Client!iceCandidate, UNCHANGED <<vars, heard>>
    PROVE  ClientKeeps
<1>1. /\ offered' = offered + 1
      /\ UNCHANGED <<streamer, recordRequested, session, clientLink, take>>
  BY DEF Client!iceCandidate
<1>2. /\ CallTypeOK /\ TypeOK /\ heard \in Nat /\ heard <= Len(wire)
      /\ take \in Nat /\ offered + 1 \in Nat /\ session \in Nat
  BY CallInvType DEF CallTypeOK
<1>3. <<take, offered + 1>> \in Candidate
  BY <1>2 DEF Candidate
<1>4. ASSUME clientLink = "open"
      PROVE  /\ recordRequested => streamer = "prepared"
             /\ \A r \in pending : r.head = "RECORD" =>
                    /\ recordRequested /\ session = NoId
                    /\ \A t \in pending : t.head = "RECORD" => r = t
             /\ session # NoId => Heard(session)
  BY <1>4 DEF CallInv, RecorderInv
<1>5. CASE /\ iceCandidates' = Append(iceCandidates, <<take, offered + 1>>)
           /\ UNCHANGED <<pending, cseq, toServer>>
  <2>1. RecorderType
    BY <1>1, <1>2, <1>3, <1>5 DEF RecorderType, CallTypeOK
  <2>2. Listens
    BY <1>2, <1>5, NothingAnswered DEF Listens
  <2>3. CASE clientLink = "open"
    BY <1>1, <1>4, <1>5, <2>1, <2>2, <2>3, OwnStepKeeps
  <2>4. CASE clientLink # "open"
    BY <1>1, <1>2, <1>5, <2>1, <2>4, LeavesOpen
  <2> QED
    BY <2>3, <2>4
<1>6. CASE /\ session # NoId
           /\ Client!ClientRequest("SETUP", session, <<<<take, offered + 1>>>>)
           /\ UNCHANGED iceCandidates
  <2>0. PICK q : Asks(q, {}, "SETUP", session)
    <3>1. Client!RequestAfter({}, "SETUP", session, <<<<take, offered + 1>>>>)
      BY <1>6 DEF Client!ClientRequest
    <3>2. "SETUP" \in ClientHeads /\ <<<<take, offered + 1>>>> \in Seq(Candidate)
      BY <1>3 DEF ClientHeads
    <3> QED
      BY <1>2, <3>1, <3>2, RequestMade
  <2>1. /\ q \in ClientsRequest
        /\ q.head = "SETUP" /\ q.session = session /\ q.cseq = cseq
        /\ cseq' = cseq + 1
        /\ pending' = pending \cup {q}
        /\ toServer' = IF clientLink = "open" THEN Append(toServer, q) ELSE toServer
    BY <2>0 DEF Asks
  <2>2. RecorderType
    BY <1>1, <1>2, <1>6, <2>1 DEF RecorderType, CallTypeOK
  <2>3. CASE clientLink = "open"
    <3>1. \E j \in 1..heard' : wire[j].session = q.session
      BY <1>4, <1>6, <2>1, <2>3 DEF Heard
    <3>2. Makes(q)
      BY <1>2, <1>6, <2>1, <2>3, <3>1, NothingAnswered DEF Makes
    <3>3. \A r \in pending' : r \in pending \/ r.head = "SETUP"
      BY <2>1
    <3> QED
      BY <1>1, <1>4, <2>2, <2>3, <3>2, <3>3, OwnStepKeeps
  <2>4. CASE clientLink # "open"
    BY <1>1, <1>2, <2>1, <2>2, <2>4, LeavesOpen
  <2> QED
    BY <2>3, <2>4
<1> QED
  BY <1>5, <1>6 DEF Client!iceCandidate, Client!NoSessionId, NoId

LEMMA GoneKeeps ==
    ASSUME CallInv, NEW how \in {"closed", "crashed"}, Client!ClientGone(how),
           UNCHANGED vars, heard' \in {heard, heard + 1}, heard' <= Len(wire)
    PROVE  ClientKeeps
<1>1. /\ clientLink' = how /\ streamer' = "none" /\ iceCandidates' = <<>>
      /\ recordRequested' = FALSE /\ session' = 0 /\ pending' = {}
      /\ UNCHANGED <<cseq, toServer, take, offered>>
  BY DEF Client!ClientGone, Client!NoSessionId
<1>2. RecorderType
  <2>1. take' \in Nat /\ offered' \in Nat
    BY <1>1, CallInvType DEF CallTypeOK
  <2>2. <<>> \in Seq(Candidate)
    OBVIOUS
  <2> QED
    BY <1>1, <2>1, <2>2 DEF RecorderType
<1>3. clientLink' # "open" /\ toServer' = toServer /\ cseq' \in {cseq, cseq + 1}
  BY <1>1
<1> QED
  BY <1>2, <1>3, LeavesOpen

\* The session the client gives up is torn down: its TEARDOWN is on the way.
LEMMA TearsDown ==
    ASSUME CallInv, UNCHANGED <<vars, heard, clientLink>>, clientLink = "open",
           RecorderType, session # NoId, session' = NoId, ~recordRequested',
           NEW q, Makes(q), q.head = "TEARDOWN", q.session = session
    PROVE  ClientKeeps
<1>1. /\ TypeOK /\ CallTypeOK /\ heard \in Nat /\ heard' = heard /\ heard <= Len(wire)
      /\ q \in ClientsRequest
      /\ toServer' = Append(toServer, q) /\ pending' = pending \cup {q}
      /\ \A s : Live(s)' <=> Live(s)
      /\ mediaSessions' = mediaSessions
      /\ Connected' => Connected
  BY CallInvType, NothingAnswered, WireUnmoved DEF Makes, Connected
<1>2. ClientTurn
  BY <1>1 DEF ClientTurn
<1>3. /\ Len(toServer') \in 1..Len(toServer') /\ toServer'[Len(toServer')] = q
      /\ \A i \in 1..Len(toServer) : i \in 1..Len(toServer') /\ toServer'[i] = toServer[i]
  BY <1>1, ChannelGrows
<1>4. OrphanInv'
  <2>1. ASSUME Connected', NEW s \in SessionId, Live(s)
        PROVE  \/ \E r \in pending' : r.head = "RECORD" /\ r.cseq = mediaSessions[s].cseq
               \/ \E i \in 1..Len(toServer') :
                      toServer'[i].head = "TEARDOWN" /\ toServer'[i].session = s
    <3>1. \/ s = session
          \/ \E r \in pending : r.head = "RECORD" /\ r.cseq = mediaSessions[s].cseq
          \/ \E i \in 1..Len(toServer) :
                 toServer[i].head = "TEARDOWN" /\ toServer[i].session = s
      BY <1>1, <2>1 DEF CallInv, OrphanInv
    <3> QED
      BY <1>1, <1>3, <3>1
  <2> QED
    BY <1>1, <2>1 DEF OrphanInv
<1>5. SessionAgreed'
  BY DEF SessionAgreed, NoId, Client!NoSessionId
<1>6. \A s : HeardEnd(s) => HeardEnd(s)'
  BY <1>1, <1>2, HeardGrows
<1>7. \A s : Handled(s) => Handled(s)'
  BY <1>1, <1>6 DEF Handled
<1>8. \A j \in 1..heard' : \A s : s = wire'[j].session =>
          \/ s \in {NoId, session'}
          \/ \E r \in pending' : r.head = "TEARDOWN" /\ r.session = s
          \/ HeardEnd(s)'
  <2>1. heard' # heard + 1
    BY <1>1
  <2> QED
    BY <1>2, <1>7, <2>1, StillHandled
<1>9. RecorderInv'
  <2>1. \A r \in pending : r.head # "RECORD"
    BY DEF CallInv, RecorderInv
  <2>2. \A r \in pending : r.head = "TEARDOWN" => r.session # NoId
    BY DEF CallInv, PendingInv
  <2> QED
    BY <1>1, <1>8, <2>1, <2>2 DEF RecorderInv
<1> QED
  BY <1>2, <1>4, <1>5, <1>9 DEF ClientKeeps

LEMMA stopRecordKeeps ==
    ASSUME CallInv, Client!stopRecord, UNCHANGED <<vars, heard>>
    PROVE  ClientKeeps
<1>1. /\ clientLink = "open" /\ streamer # "none" /\ streamer' = "none"
      /\ UNCHANGED <<iceCandidates, take, offered>>
  BY DEF Client!stopRecord, Client!StopStreamer
<1>2. CallTypeOK /\ TypeOK /\ heard \in Nat /\ heard <= Len(wire) /\ session \in Nat
  BY CallInvType DEF CallTypeOK
<1>3. CASE /\ ~recordRequested
           /\ UNCHANGED <<recordRequested, session, pending, cseq, clientLink, toServer>>
  <2>1. RecorderType
    BY <1>1, <1>2, <1>3 DEF RecorderType, CallTypeOK
  <2>2. Listens
    BY <1>2, <1>3, NothingAnswered DEF Listens
  <2>3. \A r \in pending : r.head # "RECORD"
    BY <1>1, <1>3 DEF CallInv, RecorderInv
  <2> QED
    BY <1>1, <1>3, <2>1, <2>2, <2>3, OwnStepKeeps
<1>4. CASE /\ recordRequested /\ session # NoId
           /\ Client!ClientRequest("TEARDOWN", session, <<>>)
           /\ session' = NoId
           /\ recordRequested' = FALSE
           /\ UNCHANGED clientLink
  <2>0. PICK q : Asks(q, {}, "TEARDOWN", session)
    <3>1. Client!RequestAfter({}, "TEARDOWN", session, <<>>)
      BY <1>4 DEF Client!ClientRequest
    <3>2. "TEARDOWN" \in ClientHeads /\ <<>> \in Seq(Candidate)
      BY DEF ClientHeads
    <3> QED
      BY <1>2, <3>1, <3>2, RequestMade
  <2>1. /\ q \in ClientsRequest
        /\ q.head = "TEARDOWN" /\ q.session = session /\ q.cseq = cseq
        /\ cseq' = cseq + 1
        /\ pending' = pending \cup {q}
        /\ toServer' = Append(toServer, q)
    BY <1>1, <2>0 DEF Asks
  <2>2. RecorderType
    BY <1>1, <1>2, <1>4, <2>1 DEF RecorderType, CallTypeOK, NoId
  <2>3. \E j \in 1..heard' : wire[j].session = q.session
    BY <1>1, <1>4, <2>1 DEF Heard, CallInv, RecorderInv
  <2>4. Makes(q)
    BY <1>2, <1>4, <2>1, <2>3, NothingAnswered DEF Makes
  <2> QED
    BY <1>1, <1>4, <2>1, <2>2, <2>4, TearsDown
<1>5. CASE /\ recordRequested
           /\ Client!ClientDisconnect
           /\ UNCHANGED <<recordRequested, session, pending, cseq, toServer>>
  <2>1. clientLink' = "terminating"
    BY <1>1, <1>5 DEF Client!ClientDisconnect
  <2>2. RecorderType
    BY <1>1, <1>2, <1>5, <2>1 DEF RecorderType, CallTypeOK
  <2> QED
    BY <1>2, <1>5, <2>1, <2>2, LeavesOpen
<1> QED
  BY <1>3, <1>4, <1>5 DEF Client!stopRecord, Client!NoSessionId, NoId

LEMMA clientEosKeeps ==
    ASSUME CallInv, Client!eos, UNCHANGED <<vars, heard>>
    PROVE  ClientKeeps
<1>1. /\ Client!ClientDisconnect
      /\ UNCHANGED <<streamer, iceCandidates, recordRequested, session, pending, cseq,
                     toServer, take, offered>>
  BY DEF Client!eos
<1>2. CallTypeOK /\ heard \in Nat /\ heard <= Len(wire)
  BY CallInvType
<1>3. clientLink' # "open" /\ clientLink' \in {"terminating", "closed", "crashed"}
  BY <1>1, <1>2 DEF Client!ClientDisconnect, CallTypeOK
<1>4. RecorderType
  BY <1>1, <1>2, <1>3 DEF RecorderType, CallTypeOK
<1> QED
  BY <1>1, <1>2, <1>3, <1>4, LeavesOpen

LEMMA OwnStepsKeep ==
    ASSUME CallInv, ClientActs
    PROVE  ClientKeeps
<1>1. UNCHANGED <<vars, heard>> /\ heard \in Nat /\ heard <= Len(wire)
  BY CallInvType DEF ClientActs
<1>2. Client!ClientClose => ClientKeeps
  BY <1>1, GoneKeeps DEF Client!ClientClose
<1>3. Client!ClientWriteable \/ Client!ClientConnectionLost => ClientKeeps
  BY <1>2 DEF Client!ClientWriteable, Client!ClientConnectionLost
<1> QED
  BY <1>1, <1>3, startRecordKeeps, stopRecordKeeps, streamerPreparedKeeps,
     iceCandidateKeeps, clientEosKeeps
  DEF ClientActs, Client!ClientOwnStep

-----------------------------------------------------------------------------
(* What the client does with the messages it reads.                        *)

\* What the wire says of the answer to request r.
LEMMA AnswerRead ==
    ASSUME CallInv, clientLink = "open", heard < Len(wire),
           NEW m, m = wire[heard + 1], m.kind = "response",
           NEW r \in pending, r.cseq = m.cseq
    PROVE  /\ heard + 1 \in 1..Len(wire) /\ IsResponse(heard + 1)
           /\ m.cseq \in 1..Len(inbox)
           /\ inbox[m.cseq].method = r.head /\ inbox[m.cseq].session = r.session
           /\ IF r.head = "RECORD"
              THEN /\ m.session # NoId /\ m.session \in SessionId
                   /\ \A j \in 1..heard : wire[j].session # m.session
              ELSE m.head = "OK" /\ m.session = r.session
           /\ heard' = heard + 1 => JustAnswered = {r}
<1>1. /\ heard \in Nat /\ heard + 1 \in 1..Len(wire) /\ IsResponse(heard + 1)
      /\ m \in Message
  BY CallInvType DEF IsResponse
<1>2. /\ m.cseq \in 1..Len(inbox)
      /\ IF inbox[m.cseq].method = "RECORD"
         THEN /\ m.session # NoId
              /\ \A j \in 1..heard : wire[j].session # m.session
         ELSE m.head = "OK" /\ m.session = inbox[m.cseq].session
  <2>1. (heard + 1) - 1 = heard
    BY <1>1
  <2> QED
    BY <1>1, <2>1 DEF CallInv, WireInv
<1>3. inbox[m.cseq].method = r.head /\ inbox[m.cseq].session = r.session
  <2>1. r.cseq <= Len(inbox)
    BY <1>2, CallInvType DEF TypeOK
  <2> QED
    BY <2>1 DEF CallInv, PendingInv
<1>4. heard' = heard + 1 => JustAnswered = {r}
  <2>1. \A q \in pending : q.cseq = r.cseq => q = r
    BY DEF CallInv, PendingInv
  <2> QED
    BY <1>1, <2>1 DEF JustAnswered
<1>5. m.session # NoId => m.session \in SessionId
  <2>1. /\ m.session \in Nat /\ m.session < nextSessionId
        /\ nextSessionId \in 1..(MaxSessions + 1)
    BY <1>1, CallInvType DEF IdsInv, TypeOK, Message
  <2> QED
    BY <2>1, BoundsAssumption DEF NoId, SessionId
<1> QED
  BY <1>1, <1>2, <1>3, <1>4, <1>5

\* A message that is read and that the client records on after.
LEMMA ReadKeeps ==
    ASSUME CallInv, UNCHANGED <<vars, clientLink>>, clientLink = "open",
           heard' = heard + 1, heard' <= Len(wire),
           UNCHANGED <<streamer, iceCandidates, recordRequested, session, take, offered>>,
           Listens \/ \E q : Replies(q),
           \A r \in JustAnswered : r.head # "RECORD",
           session # NoId => ~Ends(heard + 1, session),
           \A s : Handled(s) => Handled(s)',
           NEW k, k = wire[heard + 1].session, Handled(k)'
    PROVE  ClientKeeps
<1>1. /\ TypeOK /\ CallTypeOK /\ heard \in Nat /\ session \in Nat
      /\ \A i : IsRequest(i) => ~IsResponse(i)
  BY CallInvType DEF CallTypeOK, IsRequest, IsResponse
<1>2. ClientTurn
  BY DEF ClientTurn
<1>3. pending' = pending \ JustAnswered
  BY <1>1 DEF Listens, Replies, JustAnswered
<1>4. RecorderType
  BY <1>1, <1>3 DEF RecorderType, CallTypeOK
<1>5. OrphanInv' /\ SessionAgreed'
  BY <1>1, <1>2, <1>3, SameSession
<1>6. \A s : Heard(s) => Heard(s)'
  BY <1>1, <1>2, HeardGrows
<1>7. \A j \in 1..heard' : \A s : s = wire'[j].session =>
          \/ s \in {NoId, session'}
          \/ \E r \in pending' : r.head = "TEARDOWN" /\ r.session = s
          \/ HeardEnd(s)'
  BY <1>2, StillHandled
<1>8. RecorderInv'
  <2>1. /\ recordRequested => streamer = "prepared"
        /\ session # NoId => recordRequested /\ Heard(session)
        /\ \A r \in pending : r.head = "RECORD" => recordRequested /\ session = NoId
        /\ \A r, q \in pending : r.head = "RECORD" /\ q.head = "RECORD" => r = q
        /\ \A r \in pending : r.head = "TEARDOWN" => r.session # session
    BY DEF CallInv, RecorderInv
  <2>2. session # NoId => Heard(session)'
    <3>1. ASSUME NEW s, s = session, s # NoId
          PROVE  Heard(s)'
      BY <1>6, <2>1, <3>1
    <3> QED
      BY <3>1
  <2> QED
    BY <1>3, <1>7, <2>1, <2>2 DEF RecorderInv
<1> QED
  BY <1>2, <1>4, <1>5, <1>8 DEF ClientKeeps

\* Requests that are no TEARDOWN leave the torn down sessions as they are.
LEMMA HandledStays ==
    ASSUME CallInv, ClientTurn, session' = session,
           \A r \in pending : r.head = "TEARDOWN" => r \in pending'
    PROVE  \A s : Handled(s) => Handled(s)'
<1>1. \A s : HeardEnd(s) => HeardEnd(s)'
  BY CallInvType, HeardGrows
<1> QED
  BY <1>1 DEF Handled

LEMMA onOptionsResponseKeeps ==
    ASSUME CallInv, UNCHANGED vars, heard < Len(wire), heard' = heard + 1,
           NEW m, m = wire[heard + 1], m.kind = "response",
           NEW r \in pending, r.cseq = m.cseq, r.head = "OPTIONS",
           Client!onOptionsResponse(r, m)
    PROVE  ClientKeeps
<1>1. /\ CallTypeOK /\ heard \in Nat /\ heard' <= Len(wire)
  BY CallInvType
<1>2. CASE Client!ClientClose
  BY <1>1, <1>2, GoneKeeps DEF Client!ClientClose
<1>3. CASE /\ pending' = pending \ {r}
           /\ UNCHANGED <<streamer, iceCandidates, recordRequested, session, cseq,
                          clientLink, toServer, take, offered>>
  <2>1. CASE clientLink # "open"
    <3>1. RecorderType
      BY <1>1, <1>3 DEF RecorderType, CallTypeOK
    <3> QED
      BY <1>1, <1>3, <2>1, <3>1, LeavesOpen
  <2>2. CASE clientLink = "open"
    <3>1. JustAnswered = {r} /\ m.session = NoId
      <4>1. r.session = NoId
        BY <2>2 DEF CallInv, PendingInv
      <4> QED
        BY <2>2, <4>1, AnswerRead
    <3>2. Listens
      BY <1>3, <3>1 DEF Listens
    <3>3. \A s : Handled(s) => Handled(s)'
      <4>1. ClientTurn
        BY <1>1, <1>3, <2>2, <3>2 DEF ClientTurn
      <4> QED
        BY <1>3, <4>1, HandledStays
    <3>4. ASSUME NEW k, k = wire[heard + 1].session
          PROVE  Handled(k)' /\ (session # NoId => ~Ends(heard + 1, session))
      BY <3>1, <3>4 DEF Handled, Ends
    <3> QED
      BY <1>1, <1>3, <2>2, <3>1, <3>2, <3>3, <3>4, ReadKeeps
  <2> QED
    BY <2>1, <2>2
<1> QED
  BY <1>2, <1>3 DEF Client!onOptionsResponse, Client!Settled

LEMMA onSetupResponseKeeps ==
    ASSUME CallInv, UNCHANGED vars, heard < Len(wire), heard' = heard + 1,
           NEW m, m = wire[heard + 1], m.kind = "response",
           NEW r \in pending, r.cseq = m.cseq, r.head = "SETUP",
           Client!onSetupResponse(r, m)
    PROVE  ClientKeeps
<1>1. /\ CallTypeOK /\ heard \in Nat /\ heard' <= Len(wire)
  BY CallInvType
<1>2. CASE Client!ClientClose
  BY <1>1, <1>2, GoneKeeps DEF Client!ClientClose
<1>3. CASE /\ m.head = "OK" /\ m.session = session
           /\ pending' = pending \ {r}
           /\ UNCHANGED <<streamer, iceCandidates, recordRequested, session, cseq,
                          clientLink, toServer, take, offered>>
  <2>1. CASE clientLink # "open"
    <3>1. RecorderType
      BY <1>1, <1>3 DEF RecorderType, CallTypeOK
    <3> QED
      BY <1>1, <1>3, <2>1, <3>1, LeavesOpen
  <2>2. CASE clientLink = "open"
    <3>1. JustAnswered = {r} /\ m.cseq \in 1..Len(inbox) /\ inbox[m.cseq].method = "SETUP"
      BY <2>2, AnswerRead
    <3>2. Listens
      BY <1>3, <3>1 DEF Listens
    <3>3. \A s : Handled(s) => Handled(s)'
      <4>1. ClientTurn
        BY <1>1, <1>3, <2>2, <3>2 DEF ClientTurn
      <4> QED
        BY <1>3, <4>1, HandledStays
    <3>4. ASSUME NEW k, k = wire[heard + 1].session
          PROVE  Handled(k)'
      BY <1>3, <3>4 DEF Handled
    <3>5. ~Ends(heard + 1, session)
      BY <1>3, <3>1 DEF Ends, IsRequest
    <3> QED
      BY <1>1, <1>3, <2>2, <3>1, <3>2, <3>3, <3>4, <3>5, ReadKeeps
  <2> QED
    BY <2>1, <2>2
<1> QED
  BY <1>2, <1>3 DEF Client!onSetupResponse, Client!Settled

\* The answer to its TEARDOWN is the end of the session.
LEMMA onTeardownResponseKeeps ==
    ASSUME CallInv, UNCHANGED vars, heard < Len(wire), heard' = heard + 1,
           NEW m, m = wire[heard + 1], m.kind = "response",
           NEW r \in pending, r.cseq = m.cseq, r.head = "TEARDOWN",
           Client!onTeardownResponse(r)
    PROVE  ClientKeeps
<1>1. /\ TypeOK /\ CallTypeOK /\ heard \in Nat /\ heard' <= Len(wire)
  BY CallInvType
<1>2. /\ pending' = pending \ {r}
      /\ UNCHANGED <<streamer, iceCandidates, recordRequested, session, cseq,
                     clientLink, toServer, take, offered>>
  BY DEF Client!onTeardownResponse, Client!Settled
<1>3. CASE clientLink # "open"
  <2>1. RecorderType
    BY <1>1, <1>2 DEF RecorderType, CallTypeOK
  <2> QED
    BY <1>1, <1>2, <1>3, <2>1, LeavesOpen
<1>4. CASE clientLink = "open"
  <2>1. /\ JustAnswered = {r} /\ m.session = r.session /\ m.head = "OK"
        /\ m.cseq \in 1..Len(inbox) /\ inbox[m.cseq].method = "TEARDOWN"
        /\ IsResponse(heard + 1)
    BY <1>4, AnswerRead
  <2>2. Listens
    BY <1>2, <2>1 DEF Listens
  <2>3. ClientTurn
    BY <1>1, <1>2, <1>4, <2>2 DEF ClientTurn
  <2>4. ASSUME NEW k, k = m.session
        PROVE  HeardEnd(k)'
    <3>1. ASSUME NEW i, i = heard + 1
          PROVE  i \in 1..heard' /\ Ends(i, k)'
      <4>1. Ends(i, k) /\ i \in 1..heard'
        BY <1>1, <2>1, <2>4, <3>1 DEF Ends
      <4> QED
        BY <4>1, WireUnmoved
    <3> QED
      BY <3>1 DEF HeardEnd
  <2>5. ASSUME NEW s, Handled(s)
        PROVE  Handled(s)'
    <3>1. HeardEnd(s) => HeardEnd(s)'
      BY <1>1, <2>3, HeardGrows
    <3>2. s = r.session => HeardEnd(s)'
      BY <2>1, <2>4
    <3> QED
      BY <1>2, <2>5, <3>1, <3>2 DEF Handled
  <2>6. session # NoId => ~Ends(heard + 1, session)
    <3>1. r.session # session
      BY <1>4 DEF CallInv, RecorderInv
    <3> QED
      BY <2>1, <3>1 DEF Ends
  <2>7. ASSUME NEW k, k = wire[heard + 1].session
        PROVE  Handled(k)'
    BY <2>4, <2>7 DEF Handled
  <2> QED
    BY <1>1, <1>2, <1>4, <2>1, <2>2, <2>5, <2>6, <2>7, ReadKeeps
<1> QED
  BY <1>3, <1>4

LEMMA onSetupRequestKeeps ==
    ASSUME CallInv, UNCHANGED vars, heard < Len(wire), heard' = heard + 1,
           NEW m, m = wire[heard + 1], m.kind = "request", m.head = "SETUP",
           Client!onSetupRequest(m)
    PROVE  ClientKeeps
<1>1. /\ TypeOK /\ CallTypeOK /\ heard \in Nat /\ heard' <= Len(wire)
      /\ m \in Message
  BY CallInvType
<1>2. CASE Client!ClientClose
  BY <1>1, <1>2, GoneKeeps DEF Client!ClientClose
<1>3. CASE /\ m.session = session
           /\ Client!ClientResponds(m)
           /\ UNCHANGED <<streamer, iceCandidates, recordRequested, session, pending,
                          cseq, clientLink, take, offered>>
  <2>1. RecorderType
    BY <1>1, <1>3 DEF RecorderType, CallTypeOK
  <2>2. CASE clientLink # "open"
    <3>1. toServer' = toServer
      BY <1>3, <2>2 DEF Client!ClientResponds, Client!Send
    <3> QED
      BY <1>1, <1>3, <2>1, <2>2, <3>1, LeavesOpen
  <2>3. CASE clientLink = "open"
    <3> DEFINE q == [kind |-> "response", head |-> "OK", cseq |-> m.cseq,
                     session |-> m.session, body |-> <<>>]
    <3>1. q \in ClientsResponse
      BY <1>1 DEF ClientsResponse, Message
    <3>2. toServer' = Append(toServer, q)
      <4>1. toServer' = toServer \o <<q>>
        BY <1>3, <2>3 DEF Client!ClientResponds, Client!Send, Client!ClientMessage
      <4> QED
        BY <1>1, <3>1, <4>1 DEF CallTypeOK
    <3>3. Replies(q)
      BY <1>3, <3>1, <3>2 DEF Replies, IsRequest
    <3>4. JustAnswered = {}
      BY DEF JustAnswered, IsResponse
    <3>5. \A s : Handled(s) => Handled(s)'
      <4>1. ClientTurn
        BY <1>1, <1>3, <2>3, <3>3 DEF ClientTurn
      <4> QED
        BY <1>3, <4>1, HandledStays
    <3>6. ASSUME NEW k, k = wire[heard + 1].session
          PROVE  Handled(k)'
      BY <1>3, <3>6 DEF Handled
    <3>7. ~Ends(heard + 1, session)
      BY DEF Ends, IsRequest, IsResponse
    <3> QED
      BY <1>1, <1>3, <2>3, <3>3, <3>4, <3>5, <3>6, <3>7, ReadKeeps
  <2> QED
    BY <2>2, <2>3
<1> QED
  BY <1>2, <1>3 DEF Client!onSetupRequest

\* The answer to its RECORD names the session the client records into: the
\* server has it, prepared, or has already sent its end.
LEMMA onRecordResponseRecords ==
    ASSUME CallInv, UNCHANGED <<vars, clientLink>>, clientLink = "open",
           heard < Len(wire), heard' = heard + 1,
           NEW m, m = wire[heard + 1], m.kind = "response", m.head = "OK",
           NEW r \in pending, r.cseq = m.cseq, r.head = "RECORD",
           UNCHANGED <<streamer, recordRequested>>, session' = m.session,
           RecorderType,
           Listens \/ \E q : Makes(q) /\ q.head = "SETUP"
    PROVE  ClientKeeps
<1>1. /\ TypeOK /\ CallTypeOK /\ heard \in Nat /\ heard' <= Len(wire) /\ Len(wire) \in Nat
      /\ \A s : Live(s)' <=> Live(s)
      /\ \A s : Ended(s)' = Ended(s)
      /\ mediaSessions' = mediaSessions /\ wire' = wire
      /\ Connected' => Connected
      /\ \A i \in 1..Len(wire) : wire[i] \in Message
  BY CallInvType, WireUnmoved DEF Connected
<1>2. /\ heard + 1 \in 1..Len(wire) /\ IsResponse(heard + 1)
      /\ m.cseq \in 1..Len(inbox) /\ inbox[m.cseq].method = "RECORD"
      /\ m.session # NoId /\ m.session \in SessionId
      /\ \A j \in 1..heard : wire[j].session # m.session
      /\ JustAnswered = {r}
  BY AnswerRead
<1>3. /\ recordRequested /\ session = NoId /\ streamer = "prepared"
      /\ \A q \in pending : q.head = "RECORD" => q = r
  BY DEF CallInv, RecorderInv
<1>4. ClientTurn
  BY <1>1 DEF ClientTurn
<1>5. \A q \in pending : q # r => q \in pending'
  BY <1>2 DEF Listens, Makes
<1>6. \A q \in pending' : q.head \in {"RECORD", "TEARDOWN"} => q \in pending /\ q # r
  BY <1>2 DEF Listens, Makes
<1>7. OrphanInv'
  <2>1. \A i \in 1..Len(toServer) : i \in 1..Len(toServer') /\ toServer'[i] = toServer[i]
    BY <1>1, ChannelGrows DEF Listens, Makes
  <2>2. ASSUME Connected', NEW s \in SessionId, Live(s)
        PROVE  \/ s = session'
               \/ \E i \in 1..Len(toServer') :
                      toServer'[i].head = "TEARDOWN" /\ toServer'[i].session = s
    <3>1. \/ s = session
          \/ \E q \in pending : q.head = "RECORD" /\ q.cseq = mediaSessions[s].cseq
          \/ \E i \in 1..Len(toServer) :
                 toServer[i].head = "TEARDOWN" /\ toServer[i].session = s
      BY <1>1, <2>2 DEF CallInv, OrphanInv
    <3>2. CASE r.cseq = mediaSessions[s].cseq
      BY <1>2, <2>2, <3>2 DEF CallInv, RecordedInv
    <3>3. s # session
      BY <1>3 DEF SessionId, NoId
    <3> QED
      BY <1>3, <2>1, <3>1, <3>2, <3>3
  <2> QED
    BY <1>1, <2>2 DEF OrphanInv
<1>8. SessionAgreed'
  <2>1. ASSUME Connected, NEW s, s = m.session
        PROVE  \/ Live(s) /\ mediaSessions[s].prepared
               \/ \E i \in Ended(s) : i > heard + 1
    <3>1. s \in SessionId /\ Announced(s) /\ link = "open"
      BY <1>2, <2>1 DEF Announced, Connected
    <3>2. Live(s) \/ Ended(s) # {}
      BY <3>1 DEF CallInv, WireInv
    <3>3. Live(s) => mediaSessions[s].prepared
      BY <3>1 DEF CallInv, ServerInv, SilenceInv, QueueOnlyUntilPrepared
    <3>4. ASSUME NEW i \in Ended(s)
          PROVE  i > heard + 1
      <4>1. i \in 1..Len(wire) /\ Ends(i, s) /\ wire[i].session = s
        BY <3>4 DEF Ended, Ends
      <4>2. i \notin 1..heard
        BY <1>2, <2>1, <4>1
      <4>3. i # heard + 1
        BY <1>2, <4>1 DEF Ends, IsRequest, IsResponse
      <4> QED
        BY <1>1, <4>1, <4>2, <4>3
    <3> QED
      BY <3>2, <3>3, <3>4
  <2>2. ASSUME Connected', NEW s, s = m.session
        PROVE  \/ Live(s)' /\ mediaSessions'[s].prepared
               \/ \E i \in Ended(s)' : i > heard'
    BY <1>1, <2>1, <2>2
  <2> QED
    BY <2>2 DEF SessionAgreed
<1>9. /\ \A s : Heard(s) => Heard(s)'
      /\ \A s : HeardEnd(s) => HeardEnd(s)'
  BY <1>1, <1>4, HeardGrows
<1>10. ASSUME NEW s, s = m.session
       PROVE  Heard(s)' /\ Handled(s)'
  <2>1. heard + 1 \in 1..heard' /\ wire'[heard + 1].session = s
    BY <1>1, <1>10
  <2> QED
    BY <1>10, <2>1 DEF Heard, Handled
<1>11. ASSUME NEW s, Handled(s)
       PROVE  Handled(s)'
  BY <1>3, <1>5, <1>9, <1>11 DEF Handled
<1>12. \A j \in 1..heard' : \A s : s = wire'[j].session =>
           \/ s \in {NoId, session'}
           \/ \E q \in pending' : q.head = "TEARDOWN" /\ q.session = s
           \/ HeardEnd(s)'
  BY <1>4, <1>10, <1>11, StillHandled
<1>13. RecorderInv'
  <2>1. \A q \in pending' : q.head = "TEARDOWN" => q.session # m.session
    <3>1. ASSUME NEW q \in pending, q.head = "TEARDOWN"
          PROVE  \E j \in 1..heard : wire[j].session = q.session
      BY <3>1 DEF CallInv, PendingInv, Heard
    <3> QED
      BY <1>2, <1>6, <3>1
  <2>2. \A q \in pending' : q.head # "RECORD"
    BY <1>3, <1>6
  <2>3. Heard(session)'
    BY <1>10
  <2> QED
    BY <1>3, <1>12, <2>1, <2>2, <2>3 DEF RecorderInv
<1> QED
  BY <1>4, <1>7, <1>8, <1>13 DEF ClientKeeps

LEMMA onRecordResponseKeeps ==
    ASSUME CallInv, UNCHANGED vars, heard < Len(wire), heard' = heard + 1,
           NEW m, m = wire[heard + 1], m.kind = "response",
           NEW r \in pending, r.cseq = m.cseq, r.head = "RECORD",
           Client!onRecordResponse(r, m)
    PROVE  ClientKeeps
<1>1. /\ TypeOK /\ CallTypeOK /\ heard \in Nat /\ heard' <= Len(wire)
      /\ m.session \in Nat
  BY CallInvType
<1>2. CASE Client!ClientClose \/ Client!ClientGone("crashed")
  BY <1>1, <1>2, GoneKeeps DEF Client!ClientClose
<1>3. CASE /\ m.head = "OK"
           /\ session' = m.session /\ iceCandidates' = <<>>
           /\ IF iceCandidates = <<>>
              THEN Client!Settled(r) /\ UNCHANGED <<cseq, toServer>>
              ELSE Client!RequestAfter({r}, "SETUP", m.session, iceCandidates)
           /\ UNCHANGED <<streamer, recordRequested, clientLink, take, offered>>
  <2>1. \/ pending' = pending \ {r} /\ UNCHANGED <<cseq, toServer>>
        \/ \E q : Asks(q, {r}, "SETUP", m.session)
    <3>1. CASE iceCandidates = <<>>
      BY <1>3, <3>1 DEF Client!Settled
    <3>2. CASE Client!RequestAfter({r}, "SETUP", m.session, iceCandidates)
      <4>1. "SETUP" \in ClientHeads /\ iceCandidates \in Seq(Candidate)
        BY <1>1 DEF ClientHeads, CallTypeOK
      <4> QED
        BY <1>1, <3>2, <4>1, RequestMade
    <3> QED
      BY <1>3, <3>1, <3>2
  <2>2. pending' \subseteq ClientsRequest
    BY <1>1, <2>1 DEF Asks, CallTypeOK
  <2>3. RecorderType
    BY <1>1, <1>3, <2>2 DEF RecorderType, CallTypeOK
  <2>4. CASE clientLink # "open"
    <3>1. toServer' = toServer /\ cseq' \in {cseq, cseq + 1}
      BY <2>1, <2>4 DEF Asks
    <3> QED
      BY <1>1, <1>3, <2>3, <2>4, <3>1, LeavesOpen
  <2>5. CASE clientLink = "open"
    <3>1. JustAnswered = {r} /\ m.session # NoId
      BY <2>5, AnswerRead
    <3>2. \E j \in 1..heard' : wire[j].session = m.session
      BY <1>1
    <3>3. Listens \/ \E q : Makes(q) /\ q.head = "SETUP"
      BY <2>1, <2>5, <3>1, <3>2 DEF Asks, Makes, Listens
    <3> QED
      BY <1>3, <2>3, <2>5, <3>3, onRecordResponseRecords
  <2> QED
    BY <2>4, <2>5
<1> QED
  BY <1>2, <1>3 DEF Client!onRecordResponse

LEMMA HearsKeeps ==
    ASSUME CallInv, ClientHears
    PROVE  ClientKeeps
<1> DEFINE m == wire[heard + 1]
<1>1. /\ UNCHANGED vars /\ heard < Len(wire) /\ heard' = heard + 1
      /\ heard' \in {heard, heard + 1} /\ heard' <= Len(wire)
      /\ Client!ClientReceives(m)
  BY CallInvType DEF ClientHears
<1>2. Client!ClientClose => ClientKeeps
  BY <1>1, GoneKeeps DEF Client!ClientClose
<1>3. CASE m.kind = "request" /\ Client!ClientHandleRequest(m)
  <2>1. CASE m.head = "SETUP" /\ Client!onSetupRequest(m)
    BY <1>1, <1>3, <2>1, onSetupRequestKeeps
  <2> QED
    BY <1>2, <1>3, <2>1 DEF Client!ClientHandleRequest
<1>4. CASE m.kind = "response" /\ Client!ClientHandleResponse(m)
  <2>1. ASSUME NEW r \in pending, r.cseq = m.cseq,
               \/ r.head = "OPTIONS" /\ Client!onOptionsResponse(r, m)
               \/ r.head = "RECORD" /\ Client!onRecordResponse(r, m)
               \/ r.head = "SETUP" /\ Client!onSetupResponse(r, m)
               \/ r.head = "TEARDOWN" /\ Client!onTeardownResponse(r)
        PROVE  ClientKeeps
    BY <1>1, <1>4, <2>1, onOptionsResponseKeeps, onRecordResponseKeeps,
       onSetupResponseKeeps, onTeardownResponseKeeps
  <2> QED
    BY <1>2, <1>4, <2>1 DEF Client!ClientHandleResponse
<1> QED
  BY <1>1, <1>3, <1>4 DEF Client!ClientReceives

-----------------------------------------------------------------------------
(* The invariant of the call.                                              *)

LEMMA CallInitial ==
    ASSUME CallInit
    PROVE  CallInv
<1>1. /\ Init /\ heard = 0
      /\ streamer = "none" /\ iceCandidates = <<>> /\ recordRequested = FALSE /\ session = 0
      /\ take = 0 /\ offered = 0 /\ clientLink = "open" /\ cseq = 2
  BY DEF CallInit, Client!ClientInit, Client!SignallingInit, Client!NoSessionId
<1>2. PICK q : /\ q = [kind |-> "request", head |-> "OPTIONS", cseq |-> 1, session |-> 0,
                       body |-> <<>>]
               /\ pending = {q} /\ toServer = <<q>>
  BY DEF CallInit, Client!ClientInit, Client!SignallingInit, Client!ClientMessage,
         Client!NoSessionId
<1>3. q \in ClientsRequest
  BY <1>2 DEF ClientsRequest, ClientHeads
<1>4. /\ wire = <<>> /\ inbox = <<>> /\ sentRequests = {} /\ link = "open"
      /\ nextCSeq = 1 /\ \A s \in SessionId : ~Live(s)
      /\ Len(wire) = 0 /\ Len(inbox) = 0
  BY <1>1 DEF Init, Live, NoSession
<1>5. /\ Len(toServer) = 1 /\ toServer[1] = q
      /\ \A i \in 1..Len(toServer) : i = 1
  BY <1>2
<1>6. ServerInv
  BY <1>1, TypeInit, DialogInit, SilenceInit DEF ServerInv
<1>7. CallTypeOK
  <2>1. toServer \in Seq(ClientsRequest \cup ClientsResponse)
    BY <1>2, <1>3
  <2>2. pending \subseteq ClientsRequest
    BY <1>2, <1>3
  <2>3. iceCandidates \in Seq(Candidate) /\ cseq \in Nat \ {0} /\ heard \in 0..Len(wire)
    BY <1>1, <1>4
  <2> QED
    BY <1>1, <2>1, <2>2, <2>3 DEF CallTypeOK
<1>8. WireInv
  BY <1>4 DEF WireInv, Announced
<1>9. RecordedInv
  BY <1>4 DEF RecordedInv
<1>10. ChannelInv
  <2>1. \A c \in (Len(inbox) + 1)..(cseq - 1) : c = 1
    BY <1>1, <1>4
  <2> QED
    BY <1>1, <1>2, <1>4, <1>5, <2>1 DEF ChannelInv, Asked
<1>11. OutstandingInv
  BY <1>1, <1>2, <1>4, <1>5 DEF OutstandingInv, Told
<1>12. PendingInv
  <2>1. \A c \in 1..(cseq - 1) : c = 1
    BY <1>1
  <2>2. \A c : ~HeardAnswer(c)
    BY <1>1 DEF HeardAnswer
  <2> QED
    BY <1>1, <1>2, <1>4, <1>5, <2>1, <2>2 DEF PendingInv, NoId
<1>13. RecorderInv
  BY <1>1, <1>2 DEF RecorderInv, NoId
<1>14. OrphanInv /\ SessionAgreed
  BY <1>1, <1>4 DEF OrphanInv, SessionAgreed, Client!NoSessionId
<1> QED
  BY <1>6, <1>7, <1>8, <1>9, <1>10, <1>11, <1>12, <1>13, <1>14 DEF CallInv

LEMMA ServerTurnKeeps ==
    ASSUME CallInv, ServerInv', NEW new, NEW d, ServerTurn(new, d),
           toServer' \in Seq(ClientsRequest \cup ClientsResponse)
    PROVE  CallInv'
<1>1. /\ TypeOK /\ TypeOK' /\ IdsInv /\ CallTypeOK /\ CallStep(new)
      /\ WireInv /\ RecordedInv /\ ChannelInv /\ OutstandingInv
      /\ PendingInv /\ RecorderInv /\ OrphanInv /\ SessionAgreed
  BY DEF CallInv, ServerInv, SilenceInv, ServerTurn
<1>2. CallTypeOK'
  BY <1>1, CallTypeTurn
<1>3. WireInv'
  BY <1>1, WireInvStep
<1>4. RecordedInv'
  BY <1>1, RecordedInvStep DEF CallInv
<1>5. ChannelInv' /\ OutstandingInv' /\ PendingInv'
  BY <1>1, ChannelTurn, OutstandingTurn, PendingTurn
<1>6. RecorderInv' /\ OrphanInv' /\ SessionAgreed'
  BY <1>1, RecorderTurn, OrphanTurn, AgreedTurn
<1> QED
  BY <1>2, <1>3, <1>4, <1>5, <1>6 DEF CallInv

LEMMA ClientTurnKeeps ==
    ASSUME CallInv, ServerInv', ClientKeeps
    PROVE  CallInv'
<1>1. /\ TypeOK /\ CallTypeOK /\ WireInv /\ RecordedInv
      /\ ChannelInv /\ OutstandingInv /\ PendingInv
      /\ ClientTurn /\ RecorderType /\ RecorderInv' /\ OrphanInv' /\ SessionAgreed'
  BY DEF CallInv, ServerInv, ClientKeeps
<1>2. CallTypeOK'
  BY <1>1, ClientTypeTurn
<1>3. ChannelInv' /\ OutstandingInv' /\ PendingInv'
  BY <1>1, ClientChannelTurn, ClientOutstandingTurn, ClientPendingTurn
<1>4. /\ \A s : Live(s)' <=> Live(s)
      /\ \A s : Announced(s)' <=> Announced(s)
      /\ \A s : Ended(s)' = Ended(s)
      /\ \A i : (IsRequest(i)' <=> IsRequest(i)) /\ (IsResponse(i)' <=> IsResponse(i))
      /\ wire' = wire /\ inbox' = inbox /\ link' = link
      /\ mediaSessions' = mediaSessions /\ nextCSeq' = nextCSeq
  BY <1>1, WireUnmoved DEF ClientTurn
<1>5. WireInv'
  BY <1>1, <1>4 DEF WireInv
<1>6. RecordedInv'
  BY <1>1, <1>4 DEF RecordedInv
<1> QED
  BY <1>1, <1>2, <1>3, <1>5, <1>6 DEF CallInv

LEMMA IdleKeeps ==
    ASSUME CallInv, UNCHANGED callVars
    PROVE  ClientKeeps
<1>1. UNCHANGED <<vars, heard, clientVars>>
  BY DEF callVars
<1>2. /\ UNCHANGED <<streamer, iceCandidates, recordRequested, session, take, offered,
                     pending, cseq, clientLink, toServer>>
      /\ CallTypeOK /\ heard \in Nat /\ heard <= Len(wire)
  BY <1>1, CallInvType DEF clientVars
<1>3. RecorderType
  BY <1>2 DEF RecorderType, CallTypeOK
<1>4. CASE clientLink # "open"
  BY <1>1, <1>2, <1>3, <1>4, LeavesOpen
<1>5. CASE clientLink = "open"
  <2>1. Listens
    BY <1>1, <1>2, NothingAnswered DEF Listens
  <2>2. /\ recordRequested => streamer = "prepared"
        /\ \A r \in pending : r.head = "RECORD" =>
               /\ recordRequested /\ session = NoId
               /\ \A t \in pending : t.head = "RECORD" => r = t
    BY <1>5 DEF CallInv, RecorderInv
  <2> QED
    BY <1>1, <1>2, <1>3, <1>5, <2>1, <2>2, OwnStepKeeps
<1> QED
  BY <1>4, <1>5

LEMMA CallInvKept ==
    ASSUME CallInv, [CallNext]_callVars
    PROVE  CallInv'
<1>1. ServerInv /\ CallTypeOK /\ WireInv /\ RecordedInv /\ ChannelInv
  BY DEF CallInv
<1>2. ServerInv'
  BY <1>1, ServerInvStep
<1>3. CASE ServerReceives
  <2>1. PICK new : ServerTurn(new, 1)
    BY <1>1, <1>3, ReceivesTurn
  <2>2. toServer' \in Seq(ClientsRequest \cup ClientsResponse)
    BY <1>1, <1>3, HeadMessage DEF ServerReceives
  <2> QED
    BY <1>2, <2>1, <2>2, ServerTurnKeeps
<1>4. CASE ServerOwnStep
  <2>1. PICK new : ServerTurn(new, 0)
    BY <1>1, <1>4, OwnStepTurn
  <2>2. toServer' \in Seq(ClientsRequest \cup ClientsResponse)
    BY <1>1, <1>4 DEF ServerOwnStep, clientVars, CallTypeOK
  <2> QED
    BY <1>2, <2>1, <2>2, ServerTurnKeeps
<1>5. CASE ClientHears
  BY <1>2, <1>5, HearsKeeps, ClientTurnKeeps
<1>6. CASE ClientActs
  BY <1>2, <1>6, OwnStepsKeep, ClientTurnKeeps
<1>7. CASE UNCHANGED callVars
  BY <1>2, <1>7, IdleKeeps, ClientTurnKeeps
<1> QED
  BY <1>3, <1>4, <1>5, <1>6, <1>7 DEF CallNext

-----------------------------------------------------------------------------
(* What the invariant says of the call.                                    *)

\* The requests that wait for the server carry the CSeqs from its next one to
\* their own, each once.
LEMMA InStep ==
    ASSUME CallInv
    PROVE  RequestsInStep
<1>1. /\ CallTypeOK /\ ChannelInv /\ Len(inbox) \in Nat /\ cseq \in Nat
      /\ Len(toServer) \in Nat
  BY DEF CallInv, ServerInv, TypeOK, CallTypeOK
<1> SUFFICES ASSUME link # "closed", NEW i \in 1..Len(toServer), Asked(i)
             PROVE  toServer[i].cseq
                        = Len(inbox) + Cardinality({j \in 1..i : Asked(j)})
  BY DEF RequestsInStep
<1> DEFINE S == {j \in 1..i : Asked(j)}
           first == Len(inbox) + 1
           last == toServer[i].cseq
           f == [j \in S |-> toServer[j].cseq]
<1>2. /\ first \in Nat /\ last \in first..(cseq - 1) /\ last \in Nat /\ i \in Nat
  BY <1>1 DEF ChannelInv
<1>3. \A j \in S : j \in 1..Len(toServer) /\ Asked(j) /\ j \in Nat /\ j <= i
  BY <1>1
<1>4. \A j, k \in S : j < k => f[j] < f[k]
  BY <1>1, <1>3 DEF ChannelInv
<1>5. f \in [S -> first..last]
  <2> SUFFICES ASSUME NEW j \in S
               PROVE  f[j] \in first..last
    OBVIOUS
  <2>1. f[j] \in first..(cseq - 1) /\ f[i] = last /\ i \in S
    BY <1>1, <1>2, <1>3 DEF ChannelInv
  <2>2. j = i \/ f[j] < f[i]
    BY <1>3, <1>4, <2>1
  <2> QED
    BY <1>2, <2>1, <2>2
<1>6. \A j, k \in S : f[j] = f[k] => j = k
  <2> SUFFICES ASSUME NEW j \in S, NEW k \in S, f[j] = f[k]
               PROVE  j = k
    OBVIOUS
  <2>1. f[j] \in first..last /\ f[k] \in first..last
    BY <1>5
  <2>2. ~(f[j] < f[k]) /\ ~(f[k] < f[j])
    BY <1>2, <2>1
  <2> QED
    BY <1>3, <1>4, <2>2
<1>7. \A c \in first..last : \E j \in S : f[j] = c
  <2> SUFFICES ASSUME NEW c \in first..last
               PROVE  \E j \in S : f[j] = c
    OBVIOUS
  <2>1. c \in first..(cseq - 1) /\ ~(last < c)
    BY <1>1, <1>2
  <2>2. PICK j \in 1..Len(toServer) : Asked(j) /\ toServer[j].cseq = c
    BY <1>1, <2>1 DEF ChannelInv
  <2>3. ~(i < j)
    BY <1>1, <2>1, <2>2 DEF ChannelInv
  <2> QED
    BY <1>1, <2>2, <2>3
<1>8. IsFiniteSet(first..last) /\ Cardinality(first..last) = last - Len(inbox)
  <2>1. /\ IsFiniteSet(first..last)
        /\ Cardinality(first..last) = IF first > last THEN 0 ELSE last - first + 1
    <3>1. first \in Int /\ last \in Int
      BY <1>2
    <3> HIDE DEF first, last
    <3> QED
      BY <3>1, FS_Interval
  <2> QED
    BY <1>1, <1>2, <2>1
<1>9. f \in Bijection(S, first..last)
  BY <1>5, <1>6, <1>7 DEF Bijection, Injection, Surjection, IsInjective
<1>10. f \in Injection(S, first..last) /\ f \in Surjection(S, first..last)
  BY <1>9 DEF Bijection
<1>11. /\ IsFiniteSet(S) /\ Cardinality(S) = Cardinality(first..last)
  <2>1. /\ IsFiniteSet(S)
        /\ Cardinality(S) = Cardinality(first..last) <=> f \in Surjection(S, first..last)
    BY <1>8, <1>10, FS_Injection
  <2> QED
    BY <1>10, <2>1
<1> QED
  BY <1>1, <1>2, <1>8, <1>11

\* A session the client has been told of goes on or has ended on the wire.
LEMMA ServerDrops ==
    ASSUME CallInv, ServerReceives, link = "open", link' = "closed",
           NEW m, m = Head(toServer)
    PROVE  /\ m.kind = "request"
           /\ m.head = "RECORD" \/ Ended(m.session) # {}
<1>1. /\ CallTypeOK /\ ServerInv /\ ChannelInv /\ toServer # <<>>
      /\ m = toServer[1] /\ 1 \in 1..Len(toServer)
      /\ m \in ClientsRequest \cup ClientsResponse
      /\ ServerHandles(m)
  BY HeadMessage DEF ServerReceives, CallInv
<1>2. CASE m.kind = "response"
  <2>1. handleResponse(m.cseq, TRUE)
    BY <1>1, <1>2 DEF ServerHandles, ClientsRequest, ClientsResponse
  <2>2. PICK r \in sentRequests : r.cseq = m.cseq
    BY <1>1, <1>2 DEF CallInv, OutstandingInv, Told
  <2>3. ResponseAccepted(r, TRUE)
    BY <2>2 DEF CallInv, OutstandingInv, ResponseAccepted
  <2>4. link' = link
    BY <2>1, <2>2, <2>3 DEF handleResponse
  <2> QED
    BY <2>4
<1>3. CASE m.kind = "request"
  <2>1. CASE m.head \in {"SETUP", "TEARDOWN"}
    <3>1. ~Live(m.session)
      BY <1>1, <1>3, <2>1 DEF ServerHandles, onSetupRequest, onTeardownRequest
    <3>2. m.session # NoId /\ Heard(m.session)
      BY <1>1, <1>3, <2>1 DEF ChannelInv, Asked
    <3>3. m.session \in SessionId /\ Announced(m.session)
      BY <1>1, <3>2, HeardIsKnown DEF KnownToClient
    <3> QED
      BY <1>3, <3>1, <3>3 DEF CallInv, WireInv
  <2>2. m.head # "OPTIONS"
    BY <1>1, <1>3 DEF ServerHandles, onOptionsRequest
  <2> QED
    BY <1>1, <1>3, <2>1, <2>2 DEF ServerHandles
<1> QED
  BY <1>1, <1>2, <1>3 DEF ServerHandles

\* A session the client has heard of, other than its own, it has torn down, if
\* the server goes on to speak of it.
LEMMA Crossing ==
    ASSUME CallInv, clientLink = "open", heard < Len(wire),
           NEW s, s = wire[heard + 1].session, s # NoId, s # session,
           NEW j \in 1..heard, wire[j].session = s
    PROVE  \E r \in pending : r.head = "TEARDOWN" /\ r.session = s
<1>1. /\ heard \in Nat /\ heard + 1 \in 1..Len(wire)
      /\ Handled(s)
  BY CallInvType
<1>2. ~HeardEnd(s)
  <2> SUFFICES ASSUME NEW k \in 1..heard, Ends(k, s)
               PROVE  FALSE
    BY DEF HeardEnd
  <2>1. k \in 1..Len(wire) /\ k < heard + 1 /\ wire[k].session = s
    BY <1>1 DEF Ends
  <2> QED
    BY <1>1, <2>1 DEF CallInv, ServerInv, SilenceInv, SilentAfterEnd
<1> QED
  BY <1>1, <1>2 DEF Handled

LEMMA ClientDrops ==
    ASSUME CallInv, ClientHears, clientLink = "open", clientLink' = "closed",
           NEW m, m = wire[heard + 1]
    PROVE  \/ m.head \in {"TEARDOWN", "BAD_GATEWAY"}
           \/ m.kind = "response" /\ m.cseq = 1
           \/ \E r \in pending : r.head = "TEARDOWN" /\ r.session = m.session
<1>1. /\ TypeOK /\ heard < Len(wire) /\ heard' = heard + 1
      /\ heard \in Nat /\ heard + 1 \in 1..Len(wire) /\ (heard + 1) - 1 = heard
      /\ Client!ClientReceives(m)
  BY CallInvType DEF ClientHears
<1>2. CASE m.kind = "request" /\ Client!ClientHandleRequest(m)
  <2>1. m.head \in {"SETUP", "TEARDOWN"} /\ IsRequest(heard + 1)
    BY <1>1, <1>2 DEF CallInv, WireInv, IsRequest
  <2>2. CASE m.head = "SETUP"
    <3>1. m.session # session
      BY <1>2, <2>2 DEF Client!ClientHandleRequest, Client!onSetupRequest
    <3>2. PICK j \in 1..heard : Announces(j, m.session)
      BY <1>1, <2>1, <2>2 DEF CallInv, ServerInv, AnnounceInv, AnnouncedFirst
    <3>3. wire[j].session = m.session /\ j \in 1..Len(wire)
      BY <1>1, <3>2 DEF Announces, IsAnnouncement
    <3>4. m.session # NoId
      <4>1. \/ IsRequest(j) /\ wire[j].head = "RECORD"
            \/ IsResponse(j) /\ inbox[wire[j].cseq].method \in {"DESCRIBE", "RECORD"}
        BY <3>2 DEF Announces, IsAnnouncement, IsRequest, IsResponse
      <4>2. IsResponse(j) /\ inbox[wire[j].cseq].method = "RECORD"
        BY <3>3, <4>1 DEF CallInv, WireInv, ClientHeads
      <4> QED
        BY <3>3, <4>2 DEF CallInv, WireInv
    <3> QED
      BY <1>1, <3>1, <3>3, <3>4, Crossing
  <2> QED
    BY <2>1, <2>2
<1>3. CASE m.kind = "response" /\ Client!ClientHandleResponse(m)
  <2>1. m.cseq \in 1..Len(inbox) /\ IsResponse(heard + 1)
    BY <1>1, <1>3 DEF CallInv, WireInv, IsResponse
  <2>2. \E r \in pending : r.cseq = m.cseq
    <3>1. ~HeardAnswer(m.cseq)
      <4> SUFFICES ASSUME NEW j \in 1..heard, IsResponse(j), wire[j].cseq = m.cseq
                   PROVE  FALSE
        BY DEF HeardAnswer
      <4>1. j \in 1..Len(wire) /\ j # heard + 1
        BY <1>1
      <4>2. m.cseq # InvalidCSeq
        BY <2>1 DEF InvalidCSeq
      <4> QED
        BY <1>1, <2>1, <4>1, <4>2 DEF CallInv, ServerInv, AnswerInv, AnsweredAtMostOnce
    <3>2. m.cseq \in 1..(cseq - 1)
      <4>1. Len(inbox) < cseq /\ Len(inbox) \in Nat /\ cseq \in Nat
        <5>1. Len(inbox) < cseq
          BY DEF CallInv, ChannelInv
        <5>2. Len(inbox) \in Nat
          BY <1>1 DEF TypeOK
        <5> QED
          BY <5>1, <5>2, CallInvType
      <4> QED
        BY <2>1, <4>1
    <3> QED
      BY <3>1, <3>2 DEF CallInv, PendingInv
  <2>3. PICK r \in pending :
            /\ r.cseq = m.cseq
            /\ \/ r.head = "OPTIONS" /\ Client!onOptionsResponse(r, m)
               \/ r.head = "RECORD" /\ Client!onRecordResponse(r, m)
               \/ r.head = "SETUP" /\ Client!onSetupResponse(r, m)
               \/ r.head = "TEARDOWN" /\ Client!onTeardownResponse(r)
    BY <1>3, <2>2 DEF Client!ClientHandleResponse
  <2>4. CASE r.head = "OPTIONS"
    BY <1>3, <2>3, <2>4 DEF CallInv, PendingInv
  <2>5. CASE r.head = "RECORD"
    <3>1. m.head # "OK"
      BY <2>3, <2>5 DEF Client!onRecordResponse, Client!ClientGone
    <3>2. inbox[m.cseq].method = "RECORD"
      BY <1>1, <1>3, <2>3, <2>5, AnswerRead
    <3> QED
      BY <1>1, <2>1, <3>1, <3>2 DEF CallInv, WireInv
  <2>6. CASE r.head = "SETUP"
    <3>1. m.head = "OK" /\ m.session = r.session
      BY <1>1, <1>3, <2>3, <2>6, AnswerRead
    <3>2. m.session # session
      BY <2>3, <2>6, <3>1 DEF Client!onSetupResponse
    <3>3. m.session # NoId /\ \E j \in 1..heard : wire[j].session = m.session
      BY <2>6, <3>1 DEF CallInv, PendingInv, Heard
    <3> QED
      BY <1>1, <3>2, <3>3, Crossing
  <2>7. CASE r.head = "TEARDOWN"
    BY <2>3, <2>7 DEF Client!onTeardownResponse
  <2> QED
    BY <2>3, <2>4, <2>5, <2>6, <2>7
<1> QED
  BY <1>1, <1>2, <1>3 DEF Client!ClientReceives

-----------------------------------------------------------------------------
(* Candidates: bodies.                                                     *)

\* What begins with candidates of hasty takes and goes on with take t.
LEMMA AddsNothing ==
    ASSUME NEW t
    PROVE  Adds(<<>>, t, 0, 0)
<1>1. Len(<<>>) = 0
  OBVIOUS
<1> QED
  BY <1>1 DEF Adds

LEMMA AddsOne ==
    ASSUME NEW t, t \notin hasty, NEW m \in Nat
    PROVE  Adds(<<<<t, m + 1>>>>, t, m, m + 1)
<1> DEFINE b == <<<<t, m + 1>>>>
<1>1. Len(b) = 1 /\ b[1] = <<t, m + 1>>
  OBVIOUS
<1>2. /\ 0 \in 0..Len(b) /\ m + 1 = m + (Len(b) - 0)
      /\ \A i \in (0 + 1)..Len(b) : i = 1 /\ m + (i - 0) = m + 1
  BY <1>1
<1> QED
  BY <1>1, <1>2 DEF Adds

LEMMA AddsEnds ==
    ASSUME NEW b \in Seq(Candidate), b # <<>>, NEW t, NEW m \in Nat, NEW n, Adds(b, t, m, n)
    PROVE  EndsAt(b, t, n)
<1>1. Len(b) \in Nat \ {0}
  OBVIOUS
<1>2. PICK k \in 0..Len(b) :
          /\ n = m + (Len(b) - k)
          /\ k # 0 => m = 0
          /\ n # m => t \notin hasty
          /\ \A i \in 1..k : b[i][1] \in hasty
          /\ \A i \in (k + 1)..Len(b) : b[i] = <<t, m + (i - k)>>
  BY DEF Adds
<1>3. CASE k = Len(b)
  <2>1. b[Len(b)][1] \in hasty /\ n = 0
    BY <1>1, <1>2, <1>3
  <2> QED
    BY <2>1 DEF EndsAt
<1>4. CASE k # Len(b)
  <2>1. Len(b) \in (k + 1)..Len(b) /\ n # m
    BY <1>1, <1>2, <1>4
  <2>2. b[Len(b)] = <<t, n>> /\ t \notin hasty
    BY <1>2, <2>1
  <2> QED
    BY <2>2 DEF EndsAt
<1> QED
  BY <1>3, <1>4

LEMMA AddsJoin ==
    ASSUME NEW a \in Seq(Candidate), NEW b \in Seq(Candidate), NEW t,
           NEW m \in Nat, NEW n, Adds(a, t, 0, m), Adds(b, t, m, n)
    PROVE  Adds(a \o b, t, 0, n)
<1> DEFINE c == a \o b
<1>1. /\ Len(a) \in Nat /\ Len(b) \in Nat /\ Len(c) = Len(a) + Len(b)
      /\ \A i \in 1..Len(a) : c[i] = a[i]
      /\ \A i \in (Len(a) + 1)..Len(c) : c[i] = b[i - Len(a)]
  OBVIOUS
<1>2. PICK k \in 0..Len(a) :
          /\ m = 0 + (Len(a) - k)
          /\ m # 0 => t \notin hasty
          /\ \A i \in 1..k : a[i][1] \in hasty
          /\ \A i \in (k + 1)..Len(a) : a[i] = <<t, 0 + (i - k)>>
  BY DEF Adds
<1>3. PICK l \in 0..Len(b) :
          /\ n = m + (Len(b) - l)
          /\ l # 0 => m = 0
          /\ n # m => t \notin hasty
          /\ \A i \in 1..l : b[i][1] \in hasty
          /\ \A i \in (l + 1)..Len(b) : b[i] = <<t, m + (i - l)>>
  BY DEF Adds
<1>4. n # 0 => t \notin hasty
  BY <1>2, <1>3
<1> HIDE DEF c
<1>5. CASE l = 0
  <2>1. k \in 0..Len(c) /\ n = 0 + (Len(c) - k)
    BY <1>1, <1>2, <1>3, <1>5
  <2>2. \A i \in 1..k : c[i][1] \in hasty
    BY <1>1, <1>2
  <2>3. ASSUME NEW i \in (k + 1)..Len(c)
        PROVE  c[i] = <<t, 0 + (i - k)>>
    <3>1. CASE i \in 1..Len(a)
      BY <1>1, <1>2, <3>1
    <3>2. CASE i \notin 1..Len(a)
      <4>1. PICK j \in (0 + 1)..Len(b) : j = i - Len(a)
        <5>1. i - Len(a) \in (0 + 1)..Len(b)
          BY <1>1, <1>2, <2>3, <3>2
        <5> QED
          BY <5>1
      <4>2. c[i] = b[j] /\ b[j] = <<t, m + (j - 0)>>
        BY <1>1, <1>3, <1>5, <2>3, <3>2, <4>1
      <4>3. m + (j - 0) = 0 + (i - k)
        BY <1>1, <1>2, <2>3, <4>1
      <4> QED
        BY <4>2, <4>3
    <3> QED
      BY <3>1, <3>2
  <2> QED
    BY <1>4, <2>1, <2>2, <2>3 DEF Adds, c
<1>6. CASE l # 0
  <2> DEFINE kk == Len(a) + l
  <2>1. m = 0 /\ k = Len(a)
    BY <1>1, <1>2, <1>3, <1>6
  <2>2. kk \in 0..Len(c) /\ n = 0 + (Len(c) - kk)
    BY <1>1, <1>3, <2>1
  <2>3. ASSUME NEW i \in 1..kk
        PROVE  c[i][1] \in hasty
    <3>1. CASE i \in 1..Len(a)
      BY <1>1, <1>2, <2>1, <3>1
    <3>2. CASE i \notin 1..Len(a)
      <4>1. i - Len(a) \in 1..l /\ i \in (Len(a) + 1)..Len(c)
        BY <1>1, <1>3, <2>3, <3>2
      <4> QED
        BY <1>1, <1>3, <4>1
    <3> QED
      BY <3>1, <3>2
  <2>4. ASSUME NEW i \in (kk + 1)..Len(c)
        PROVE  c[i] = <<t, 0 + (i - kk)>>
    <3>1. PICK j \in (l + 1)..Len(b) : j = i - Len(a)
      BY <1>1, <1>3, <2>4
    <3>2. i \in (Len(a) + 1)..Len(c) /\ m + (j - l) = 0 + (i - kk)
      BY <1>1, <1>3, <2>1, <2>4, <3>1
    <3>3. c[i] = b[j] /\ b[j] = <<t, m + (j - l)>>
      BY <1>1, <1>3, <3>1, <3>2
    <3> QED
      BY <3>2, <3>3
  <2> QED
    BY <1>4, <2>2, <2>3, <2>4 DEF Adds, c
<1> QED
  BY <1>5, <1>6

\* What ends with the n-th candidate of take t brings the candidates up to it.
LEMMA AddsAgain ==
    ASSUME NEW a \in Seq(Candidate), a # <<>>, NEW t1, NEW n1, Adds(a, t1, 0, n1),
           NEW t, NEW n, EndsAt(a, t, n)
    PROVE  Adds(a, t, 0, n)
<1>1. Len(a) \in Nat \ {0}
  OBVIOUS
<1>2. PICK k \in 0..Len(a) :
          /\ n1 = 0 + (Len(a) - k)
          /\ n1 # 0 => t1 \notin hasty
          /\ \A i \in 1..k : a[i][1] \in hasty
          /\ \A i \in (k + 1)..Len(a) : a[i] = <<t1, 0 + (i - k)>>
  BY DEF Adds
<1>3. CASE k = Len(a)
  <2>1. a[Len(a)][1] \in hasty /\ n = 0 + (Len(a) - k)
    <3>1. a[Len(a)][1] \in hasty
      BY <1>1, <1>2, <1>3
    <3> QED
      BY <1>1, <1>3, <3>1 DEF EndsAt
  <2> QED
    BY <1>2, <1>3, <2>1 DEF Adds
<1>4. CASE k # Len(a)
  <2>1. Len(a) \in (k + 1)..Len(a) /\ n1 # 0
    BY <1>1, <1>2, <1>4
  <2>2. a[Len(a)] = <<t1, n1>> /\ t1 \notin hasty
    BY <1>2, <2>1
  <2>3. t = t1 /\ n = n1
    BY <2>2 DEF EndsAt
  <2> QED
    BY <2>3
<1> QED
  BY <1>3, <1>4

LEMMA EndsJoin ==
    ASSUME NEW a \in Seq(Candidate), NEW b \in Seq(Candidate), b # <<>>,
           NEW t, NEW n, EndsAt(b, t, n)
    PROVE  EndsAt(a \o b, t, n)
<1>1. /\ Len(b) \in Nat \ {0} /\ Len(a \o b) = Len(a) + Len(b)
      /\ (a \o b)[Len(a) + Len(b)] = b[Len(b)]
  OBVIOUS
<1> QED
  BY <1>1 DEF EndsAt

\* No candidate of body turns hasty.
NoneTurns(body) ==
    \A i \in 1..Len(body) : body[i][1] \in hasty' <=> body[i][1] \in hasty

LEMMA AddsStays ==
    ASSUME NEW b \in Seq(Candidate), NoneTurns(b), NEW t, NEW m \in Nat, NEW n, Adds(b, t, m, n)
    PROVE  Adds(b, t, m, n)'
<1>1. Len(b) \in Nat
  OBVIOUS
<1>2. PICK k \in 0..Len(b) :
          /\ n = m + (Len(b) - k)
          /\ k # 0 => m = 0
          /\ n # m => t \notin hasty
          /\ \A i \in 1..k : b[i][1] \in hasty
          /\ \A i \in (k + 1)..Len(b) : b[i] = <<t, m + (i - k)>>
  BY DEF Adds
<1>3. \A i \in 1..k : b[i][1] \in hasty'
  BY <1>1, <1>2 DEF NoneTurns
<1>4. n # m => t \notin hasty'
  <2>1. SUFFICES ASSUME n # m
                 PROVE  t \notin hasty'
    OBVIOUS
  <2>2. k + 1 \in 1..Len(b) /\ k + 1 \in (k + 1)..Len(b)
    BY <1>1, <1>2, <2>1
  <2>3. b[k + 1][1] = t
    BY <1>2, <2>2
  <2> QED
    BY <1>2, <2>1, <2>2, <2>3 DEF NoneTurns
<1> QED
  BY <1>2, <1>3, <1>4 DEF Adds

LEMMA EndStays ==
    ASSUME NEW b \in Seq(Candidate), b # <<>>, NoneTurns(b), NEW t, NEW n, EndsAt(b, t, n)
    PROVE  EndsAt(b, t, n)'
<1>1. Len(b) \in 1..Len(b)
  OBVIOUS
<1>2. b[Len(b)][1] \in hasty' <=> b[Len(b)][1] \in hasty
  BY <1>1 DEF NoneTurns
<1> QED
  BY <1>2 DEF EndsAt

-----------------------------------------------------------------------------
(* Candidates: the channel.                                                *)

\* A message joins the channel, or none.
Joins ==
    \/ toServer' = toServer
    \/ \E q \in ClientsRequest \cup ClientsResponse : toServer' = Append(toServer, q)

LEMMA OffersPast ==
    ASSUME CallTypeOK, Joins
    PROVE  /\ Len(toServer) \in Nat
           /\ Len(toServer') \in {Len(toServer), Len(toServer) + 1}
           /\ \A i \in 1..Len(toServer) :
                  toServer'[i] = toServer[i] /\ \A s : Offers(i, s)' <=> Offers(i, s)
           /\ \A i \in 1..Len(toServer') :
                  i \notin 1..Len(toServer) => i = Len(toServer) + 1
<1>1. /\ Len(toServer) \in Nat
      /\ Len(toServer') \in {Len(toServer), Len(toServer) + 1}
      /\ \A i \in 1..Len(toServer) : toServer'[i] = toServer[i]
  <2>1. CASE toServer' = toServer
    BY <2>1 DEF CallTypeOK
  <2>2. CASE toServer' # toServer
    BY <2>2, ChannelGrows DEF Joins
  <2> QED
    BY <2>1, <2>2
<1>2. ASSUME NEW i \in 1..Len(toServer), NEW s
      PROVE  Offers(i, s)' <=> Offers(i, s)
  BY <1>1 DEF Offers, Asked
<1>3. \A i \in 1..Len(toServer') : i \notin 1..Len(toServer) => i = Len(toServer) + 1
  BY <1>1
<1> QED
  BY <1>1, <1>2, <1>3

LEMMA OfferBody ==
    ASSUME CallTypeOK, NEW i \in 1..Len(toServer), NEW s, Offers(i, s)
    PROVE  toServer[i].body \in Seq(Candidate) /\ toServer[i].session = s
<1>1. toServer[i] \in ClientsRequest \cup ClientsResponse
  BY DEF CallTypeOK
<1> QED
  BY <1>1 DEF Offers, ClientsRequest, ClientsResponse

\* No candidate that is on its way to session s, or has come there, turns hasty.
Undisturbed(s) ==
    /\ NoneTurns(applied[s])
    /\ \A i \in 1..Len(toServer) :
           Offers(i, s) => toServer[i].body # <<>> /\ NoneTurns(toServer[i].body)

LEMMA SentPast ==
    ASSUME CallTypeOK, applied \in [SessionId -> Seq(Candidate)], applied' = applied, Joins,
           NEW s \in SessionId, Undisturbed(s),
           NEW h \in 0..Len(toServer), NEW t, NEW n, SentTo(s, h, t, n)
    PROVE  SentTo(s, h, t, n)'
<1>1. /\ Len(toServer) \in Nat
      /\ \A i \in 1..Len(toServer) :
             toServer'[i] = toServer[i] /\ (Offers(i, s)' <=> Offers(i, s))
  BY OffersPast
<1>2. 1..h \subseteq 1..Len(toServer)
  BY <1>1
<1>3. CASE Adds(applied[s], t, 0, n) /\ \A i \in 1..h : ~Offers(i, s)
  <2>1. PICK a \in Seq(Candidate) : a = applied[s]
    OBVIOUS
  <2>2. Adds(a, t, 0, n)'
    BY <1>3, <2>1, AddsStays DEF Undisturbed
  <2>3. a = applied'[s] /\ \A i \in 1..h : ~Offers(i, s)'
    BY <1>1, <1>2, <1>3, <2>1
  <2> QED
    BY <2>2, <2>3 DEF SentTo
<1>4. CASE ~(Adds(applied[s], t, 0, n) /\ \A i \in 1..h : ~Offers(i, s))
  <2>1. PICK j \in 1..h : /\ Offers(j, s) /\ EndsAt(toServer[j].body, t, n)
                          /\ \A i \in (j + 1)..h : ~Offers(i, s)
    BY <1>4 DEF SentTo
  <2>2. (j + 1)..h \subseteq 1..Len(toServer) /\ j \in 1..Len(toServer)
    BY <1>1
  <2>3. PICK b \in Seq(Candidate) : b = toServer[j].body
    BY <2>1, <2>2, OfferBody
  <2>4. b # <<>> /\ NoneTurns(b)
    BY <2>1, <2>2, <2>3 DEF Undisturbed
  <2>5. EndsAt(b, t, n)'
    BY <2>1, <2>3, <2>4, EndStays
  <2>6. /\ Offers(j, s)' /\ toServer'[j].body = b
        /\ \A i \in (j + 1)..h : ~Offers(i, s)'
    BY <1>1, <2>1, <2>2, <2>3
  <2>7. EndsAt(toServer[j].body, t, n)'
    BY <2>5, <2>6
  <2> QED
    BY <2>6, <2>7 DEF SentTo
<1> QED
  BY <1>3, <1>4

\* One message more, after the step.
LEMMA SentNext ==
    ASSUME NEW s, NEW h \in Nat, NEW t, NEW n
    PROVE  /\ SentTo(s, h, t, n)' /\ ~Offers(h + 1, s)' => SentTo(s, h + 1, t, n)'
           /\ Offers(h + 1, s)' /\ EndsAt(toServer[h + 1].body, t, n)'
                  => SentTo(s, h + 1, t, n)'
<1>1. ASSUME SentTo(s, h, t, n)', ~Offers(h + 1, s)'
      PROVE  SentTo(s, h + 1, t, n)'
  <2>1. CASE Adds(applied[s], t, 0, n)' /\ \A i \in 1..h : ~Offers(i, s)'
    <3>1. \A i \in 1..(h + 1) : i \in 1..h \/ i = h + 1
      OBVIOUS
    <3> QED
      BY <1>1, <2>1, <3>1 DEF SentTo
  <2>2. CASE ~(Adds(applied[s], t, 0, n)' /\ \A i \in 1..h : ~Offers(i, s)')
    <3>1. PICK j \in 1..h : /\ Offers(j, s)' /\ EndsAt(toServer[j].body, t, n)'
                            /\ \A i \in (j + 1)..h : ~Offers(i, s)'
      BY <1>1, <2>2 DEF SentTo
    <3>2. /\ j \in 1..(h + 1)
          /\ \A i \in (j + 1)..(h + 1) : i \in (j + 1)..h \/ i = h + 1
      OBVIOUS
    <3> QED
      BY <1>1, <3>1, <3>2 DEF SentTo
  <2> QED
    BY <2>1, <2>2
<1>2. ASSUME Offers(h + 1, s)', EndsAt(toServer[h + 1].body, t, n)'
      PROVE  SentTo(s, h + 1, t, n)'
  <2>1. h + 1 \in 1..(h + 1) /\ (h + 1 + 1)..(h + 1) = {}
    OBVIOUS
  <2> QED
    BY <1>2, <2>1 DEF SentTo
<1> QED
  BY <1>1, <1>2

LEMMA InTurnPast ==
    ASSUME CallTypeOK, applied \in [SessionId -> Seq(Candidate)], applied' = applied, Joins,
           NEW s \in SessionId, Undisturbed(s),
           NEW i \in 1..Len(toServer), Offers(i, s), InTurn(i, s)
    PROVE  InTurn(i, s)'
<1>1. Len(toServer) \in Nat /\ toServer'[i] = toServer[i]
  BY OffersPast
<1>2. PICK b \in Seq(Candidate) : b = toServer[i].body
  BY OfferBody
<1>3. b # <<>> /\ NoneTurns(b)
  BY <1>2 DEF Undisturbed
<1>4. PICK t \in 0..MaxTakes, m \in 0..MaxOffers, n \in 0..MaxOffers :
          SentTo(s, i - 1, t, m) /\ Adds(b, t, m, n)
  BY <1>2 DEF InTurn
<1>5. PICK h : h = i - 1
  OBVIOUS
<1>6. h \in 0..Len(toServer) /\ m \in Nat
  BY <1>1, <1>5, CallBoundsAssumption
<1>7. SentTo(s, h, t, m)'
  BY <1>4, <1>5, <1>6, SentPast
<1>8. Adds(b, t, m, n)'
  BY <1>3, <1>4, <1>6, AddsStays
<1>9. SentTo(s, i - 1, t, m)' /\ Adds(toServer[i].body, t, m, n)'
  BY <1>1, <1>2, <1>5, <1>7, <1>8
<1> QED
  BY <1>1, <1>2, <1>3, <1>9 DEF InTurn

-----------------------------------------------------------------------------
(* Candidates: what a step keeps.                                          *)

\* What the server's peers have been given.
AppliedInv ==
    \A s \in SessionId :
        /\ applied[s] # <<>> => Heard(s)
        /\ \A k \in 1..Len(applied[s]) : Decided(applied[s][k][1])
        /\ \E t \in 0..MaxTakes, n \in 0..MaxOffers : Adds(applied[s], t, 0, n)

\* What is on its way to them.
OffersInv ==
    \A s \in SessionId : \A i \in 1..Len(toServer) : Offers(i, s) =>
        /\ \A k \in 1..Len(toServer[i].body) : Decided(toServer[i].body[k][1])
        /\ link # "closed" => InTurn(i, s)

\* A take that is not hasty once it is kept will not be.
Steady == \A t : Decided(t) => Decided(t)' /\ (t \in hasty' <=> t \in hasty)

LEMMA AppliedStays ==
    ASSUME applied \in [SessionId -> Seq(Candidate)], AppliedInv, applied' = applied,
           Steady, \A s : Heard(s) => Heard(s)'
    PROVE  AppliedInv'
<1>1. ASSUME NEW s \in SessionId
      PROVE  /\ applied'[s] # <<>> => Heard(s)'
             /\ \A k \in 1..Len(applied'[s]) : Decided(applied[s][k][1])'
             /\ \E t \in 0..MaxTakes, n \in 0..MaxOffers : Adds(applied[s], t, 0, n)'
  <2>1. PICK a \in Seq(Candidate) : a = applied[s]
    OBVIOUS
  <2>2. /\ a # <<>> => Heard(s)
        /\ \A k \in 1..Len(a) : Decided(a[k][1])
        /\ \E t \in 0..MaxTakes, n \in 0..MaxOffers : Adds(a, t, 0, n)
    BY <2>1 DEF AppliedInv
  <2>3. \A k \in 1..Len(a) : Decided(a[k][1])' /\ (a[k][1] \in hasty' <=> a[k][1] \in hasty)
    BY <2>2 DEF Steady
  <2>4. NoneTurns(a)
    BY <2>3 DEF NoneTurns
  <2>5. PICK t \in 0..MaxTakes, n \in 0..MaxOffers : Adds(a, t, 0, n)
    BY <2>2
  <2>6. Adds(a, t, 0, n)'
    BY <2>4, <2>5, AddsStays
  <2>7. a = applied'[s]
    BY <2>1
  <2>8. Adds(applied[s], t, 0, n)'
    BY <2>6, <2>7
  <2>9. \A k \in 1..Len(applied'[s]) : Decided(applied[s][k][1])'
    BY <2>3, <2>7
  <2> QED
    BY <2>2, <2>7, <2>8, <2>9
<1> QED
  BY <1>1 DEF AppliedInv

LEMMA NothingDisturbed ==
    ASSUME applied \in [SessionId -> Seq(Candidate)], AppliedInv, OffersInv, Steady,
           link # "closed", NEW s \in SessionId
    PROVE  Undisturbed(s)
<1>1. NoneTurns(applied[s])
  BY DEF AppliedInv, Steady, NoneTurns
<1>2. ASSUME NEW i \in 1..Len(toServer), Offers(i, s)
      PROVE  toServer[i].body # <<>> /\ NoneTurns(toServer[i].body)
  <2>1. toServer[i].body # <<>>
    BY <1>2 DEF OffersInv, InTurn
  <2>2. \A k \in 1..Len(toServer[i].body) : Decided(toServer[i].body[k][1])
    BY <1>2 DEF OffersInv
  <2>3. NoneTurns(toServer[i].body)
    BY <2>2 DEF Steady, NoneTurns
  <2> QED
    BY <2>1, <2>3
<1> QED
  BY <1>1, <1>2 DEF Undisturbed

\* The offers that were there are as they were.
LEMMA OffersStay ==
    ASSUME CallTypeOK, applied \in [SessionId -> Seq(Candidate)], AppliedInv, OffersInv,
           applied' = applied, Steady, Joins, link' # "closed" => link # "closed",
           NEW s \in SessionId, NEW i \in 1..Len(toServer), Offers(i, s)
    PROVE  /\ \A k \in 1..Len(toServer'[i].body) : Decided(toServer[i].body[k][1])'
           /\ link' # "closed" => InTurn(i, s)'
<1>1. toServer'[i] = toServer[i]
  BY OffersPast
<1>2. PICK b \in Seq(Candidate) : b = toServer[i].body
  BY OfferBody
<1>3. \A k \in 1..Len(b) : Decided(b[k][1])
  BY <1>2 DEF OffersInv
<1>4. \A k \in 1..Len(b) : Decided(b[k][1])'
  BY <1>3 DEF Steady
<1>5. \A k \in 1..Len(toServer'[i].body) : Decided(toServer[i].body[k][1])'
  BY <1>1, <1>2, <1>4
<1>6. ASSUME link' # "closed"
      PROVE  InTurn(i, s)'
  BY <1>6, NothingDisturbed, InTurnPast DEF OffersInv
<1> QED
  BY <1>5, <1>6

\* A step that offers no candidate.
OffersNothing ==
    Joins /\ \A i \in 1..Len(toServer') : i = Len(toServer) + 1 => \A s : ~Offers(i, s)'

LEMMA OffersKept ==
    ASSUME CallTypeOK, applied \in [SessionId -> Seq(Candidate)], AppliedInv, OffersInv,
           applied' = applied, Steady, OffersNothing, link' # "closed" => link # "closed"
    PROVE  /\ OffersInv'
           /\ \A s \in SessionId : \A t, n :
                  link' # "closed" /\ SentTo(s, Len(toServer), t, n)
                      => SentTo(s, Len(toServer), t, n)'
<1>1. Joins
  BY DEF OffersNothing
<1>2. /\ Len(toServer) \in Nat
      /\ Len(toServer') \in {Len(toServer), Len(toServer) + 1}
      /\ \A i \in 1..Len(toServer) :
             toServer'[i] = toServer[i] /\ \A s : Offers(i, s)' <=> Offers(i, s)
      /\ \A i \in 1..Len(toServer') :
             i \notin 1..Len(toServer) => i = Len(toServer) + 1
  BY <1>1, OffersPast
<1>3. ASSUME NEW s \in SessionId, NEW i \in 1..Len(toServer'), Offers(i, s)'
      PROVE  /\ \A k \in 1..Len(toServer'[i].body) : Decided(toServer[i].body[k][1])'
             /\ link' # "closed" => InTurn(i, s)'
  <2>1. i \in 1..Len(toServer)
    BY <1>2, <1>3 DEF OffersNothing
  <2>2. Offers(i, s)
    BY <1>2, <1>3, <2>1
  <2> QED
    BY <1>1, <2>1, <2>2, OffersStay
<1>4. OffersInv'
  BY <1>3 DEF OffersInv
<1>5. ASSUME NEW s \in SessionId, NEW t, NEW n,
             link' # "closed", SentTo(s, Len(toServer), t, n)
      PROVE  SentTo(s, Len(toServer), t, n)'
  <2>1. PICK h \in Nat : h = Len(toServer)
    BY <1>2
  <2>2. SentTo(s, h, t, n)'
    <3>1. SentTo(s, h, t, n) /\ h \in 0..Len(toServer)
      BY <1>5, <2>1
    <3> QED
      BY <1>1, <1>5, <3>1, NothingDisturbed, SentPast
  <2>3. CASE Len(toServer') = h
    BY <2>2, <2>3
  <2>4. CASE Len(toServer') = h + 1
    <3>1. ~Offers(h + 1, s)'
      BY <1>2, <2>1, <2>4 DEF OffersNothing
    <3>2. SentTo(s, h + 1, t, n)'
      BY <2>2, <3>1, SentNext
    <3> QED
      BY <2>4, <3>2
  <2> QED
    BY <1>2, <2>1, <2>3, <2>4
<1> QED
  BY <1>4, <1>5

\* Candidates join the channel, in turn.
LEMMA OffersMore ==
    ASSUME CallTypeOK, applied \in [SessionId -> Seq(Candidate)], AppliedInv, OffersInv,
           UNCHANGED <<applied, link, hasty>>, Steady,
           NEW q \in ClientsRequest, toServer' = Append(toServer, q), q.head = "SETUP",
           q.body # <<>>, \A k \in 1..Len(q.body) : Decided(q.body[k][1])',
           NEW t \in 0..MaxTakes, NEW m \in 0..MaxOffers, NEW n \in 0..MaxOffers,
           Adds(q.body, t, m, n),
           q.session \in SessionId /\ link # "closed" =>
               SentTo(q.session, Len(toServer), t, m)
    PROVE  /\ OffersInv'
           /\ q.session \in SessionId /\ link # "closed" =>
                  SentTo(q.session, Len(toServer), t, n)'
<1>1. Joins
  BY DEF Joins
<1>2. /\ Len(toServer) \in Nat /\ Len(toServer') = Len(toServer) + 1
      /\ \A i \in 1..Len(toServer) :
             toServer'[i] = toServer[i] /\ \A s : Offers(i, s)' <=> Offers(i, s)
      /\ \A i \in 1..Len(toServer') :
             i \notin 1..Len(toServer) => i = Len(toServer) + 1
      /\ toServer'[Len(toServer) + 1] = q
  BY <1>1, OffersPast, ChannelGrows
<1>3. PICK h \in Nat : h = Len(toServer)
  BY <1>2
<1>4. toServer'[h + 1] = q /\ Len(toServer') = h + 1
  BY <1>2, <1>3
<1>5. PICK b \in Seq(Candidate) : b = q.body
  BY DEF ClientsRequest
<1>6. \A s : Offers(h + 1, s)' <=> s = q.session
  BY <1>4 DEF Offers, Asked, ClientsRequest
<1>7. NoneTurns(b)
  BY DEF NoneTurns
<1>8. m \in Nat /\ Adds(b, t, m, n)'
  BY <1>5, <1>7, AddsStays, CallBoundsAssumption
<1>9. ASSUME NEW s \in SessionId, s = q.session, link # "closed"
      PROVE  InTurn(h + 1, s)' /\ SentTo(s, h + 1, t, n)'
  <2>1. SentTo(s, h, t, m) /\ h \in 0..Len(toServer)
    BY <1>3, <1>9
  <2>2. SentTo(s, h, t, m)'
    BY <1>1, <1>9, <2>1, NothingDisturbed, SentPast
  <2>3. PICK j : j = h + 1
    OBVIOUS
  <2>4. SentTo(s, j - 1, t, m)' /\ Adds(toServer[j].body, t, m, n)' /\ toServer'[j].body # <<>>
    <3>1. j - 1 = h /\ toServer'[j].body = b
      BY <1>4, <1>5, <2>3
    <3> QED
      BY <1>5, <1>8, <2>2, <3>1
  <2>5. InTurn(j, s)'
    BY <2>4 DEF InTurn
  <2>6. EndsAt(b, t, n)
    BY <1>5, <1>8, AddsEnds
  <2>7. EndsAt(b, t, n)'
    BY <1>5, <1>7, <2>6, EndStays
  <2>8. EndsAt(toServer[h + 1].body, t, n)' /\ Offers(h + 1, s)'
    BY <1>4, <1>5, <1>6, <1>9, <2>7
  <2>9. SentTo(s, h + 1, t, n)'
    BY <2>8, SentNext
  <2> QED
    BY <2>3, <2>5, <2>9
<1>10. ASSUME NEW s \in SessionId, NEW i \in 1..Len(toServer'), Offers(i, s)'
       PROVE  /\ \A k \in 1..Len(toServer'[i].body) : Decided(toServer[i].body[k][1])'
              /\ link' # "closed" => InTurn(i, s)'
  <2>1. CASE i \in 1..Len(toServer)
    <3>1. Offers(i, s)
      BY <1>2, <1>10, <2>1
    <3> QED
      BY <1>1, <2>1, <3>1, OffersStay
  <2>2. CASE i \notin 1..Len(toServer)
    <3>1. i = h + 1
      BY <1>2, <1>3, <2>2
    <3>2. s = q.session
      BY <1>6, <1>10, <3>1
    <3>3. \A k \in 1..Len(toServer'[i].body) : Decided(toServer[i].body[k][1])'
      BY <1>4, <3>1
    <3>4. link' # "closed" => InTurn(i, s)'
      BY <1>9, <3>1, <3>2
    <3> QED
      BY <3>3, <3>4
  <2> QED
    BY <2>1, <2>2
<1>11. OffersInv'
  BY <1>10 DEF OffersInv
<1>12. ASSUME q.session \in SessionId, link # "closed"
       PROVE  SentTo(q.session, Len(toServer), t, n)'
  <2>1. PICK s \in SessionId : s = q.session
    BY <1>12
  <2>2. SentTo(s, h + 1, t, n)'
    BY <1>9, <1>12, <2>1
  <2> QED
    BY <1>4, <2>1, <2>2
<1> QED
  BY <1>11, <1>12

-----------------------------------------------------------------------------
(* Candidates: the server's steps.                                         *)

\* The server has taken the message at the head, and its candidates.
Gives(s) ==
    applied'[s] = IF Offers(1, s) THEN applied[s] \o toServer[1].body ELSE applied[s]

LEMMA OffersShift ==
    ASSUME CallTypeOK, toServer # <<>>, toServer' = Tail(toServer)
    PROVE  /\ Len(toServer) \in Nat \ {0} /\ Len(toServer') = Len(toServer) - 1
           /\ \A i \in 1..(Len(toServer) - 1) :
                  /\ toServer'[i] = toServer[i + 1]
                  /\ \A s : Offers(i, s)' <=> Offers(i + 1, s)
<1>1. toServer \in Seq(ClientsRequest \cup ClientsResponse)
  BY DEF CallTypeOK
<1>2. /\ Len(toServer) \in Nat \ {0} /\ Len(toServer') = Len(toServer) - 1
      /\ \A i \in 1..(Len(toServer) - 1) : toServer'[i] = toServer[i + 1]
  BY <1>1
<1>3. ASSUME NEW i \in 1..(Len(toServer) - 1), NEW s
      PROVE  Offers(i, s)' <=> Offers(i + 1, s)
  <2>1. toServer'[i] = toServer[i + 1]
    BY <1>2
  <2> QED
    BY <2>1 DEF Offers, Asked
<1> QED
  BY <1>2, <1>3

LEMMA TakenInTurn ==
    ASSUME CallTypeOK, applied \in [SessionId -> Seq(Candidate)], toServer # <<>>,
           NEW s \in SessionId, Offers(1, s), InTurn(1, s)
    PROVE  /\ toServer[1].body \in Seq(Candidate) \ {<<>>}
           /\ \E t \in 0..MaxTakes, n \in 0..MaxOffers :
                  Adds(applied[s] \o toServer[1].body, t, 0, n)
<1>1. 1 \in 1..Len(toServer) /\ 1 - 1 = 0
  BY DEF CallTypeOK
<1>2. PICK b \in Seq(Candidate) : b = toServer[1].body
  BY <1>1, OfferBody
<1>3. PICK t \in 0..MaxTakes, m \in 0..MaxOffers, n \in 0..MaxOffers :
          SentTo(s, 0, t, m) /\ Adds(b, t, m, n)
  BY <1>1, <1>2 DEF InTurn
<1>4. Adds(applied[s], t, 0, m)
  BY <1>3 DEF SentTo
<1>5. PICK a \in Seq(Candidate) : a = applied[s]
  OBVIOUS
<1>6. Adds(a \o b, t, 0, n)
  BY <1>3, <1>4, <1>5, AddsJoin, CallBoundsAssumption
<1>7. b # <<>>
  BY <1>2 DEF InTurn
<1> QED
  BY <1>2, <1>5, <1>6, <1>7

LEMMA SentTaken ==
    ASSUME CallTypeOK, applied \in [SessionId -> Seq(Candidate)], hasty' = hasty,
           toServer # <<>>, toServer' = Tail(toServer),
           NEW s \in SessionId, Gives(s), Offers(1, s) => InTurn(1, s),
           NEW h \in Nat, h < Len(toServer), NEW t, NEW n, SentTo(s, h + 1, t, n)
    PROVE  SentTo(s, h, t, n)'
<1>1. /\ Len(toServer) \in Nat \ {0}
      /\ \A i \in 1..(Len(toServer) - 1) :
             toServer'[i] = toServer[i + 1] /\ (Offers(i, s)' <=> Offers(i + 1, s))
  BY OffersShift
<1>2. CASE Adds(applied[s], t, 0, n) /\ \A i \in 1..(h + 1) : ~Offers(i, s)
  <2>1. ~Offers(1, s)
    <3>1. 1 \in 1..(h + 1)
      OBVIOUS
    <3> QED
      BY <1>2, <3>1
  <2>2. applied'[s] = applied[s]
    BY <2>1 DEF Gives
  <2>3. PICK a : a = applied[s]
    OBVIOUS
  <2>4. Adds(a, t, 0, n)'
    BY <1>2, <2>3 DEF Adds
  <2>5. Adds(applied[s], t, 0, n)'
    BY <2>2, <2>3, <2>4
  <2>6. ASSUME NEW i \in 1..h
        PROVE  ~Offers(i, s)'
    <3>1. i \in 1..(Len(toServer) - 1) /\ i + 1 \in 1..(h + 1)
      BY <1>1
    <3> QED
      BY <1>1, <1>2, <3>1
  <2> QED
    BY <2>5, <2>6 DEF SentTo
<1>3. CASE ~(Adds(applied[s], t, 0, n) /\ \A i \in 1..(h + 1) : ~Offers(i, s))
  <2>1. PICK j \in 1..(h + 1) : /\ Offers(j, s) /\ EndsAt(toServer[j].body, t, n)
                                /\ \A i \in (j + 1)..(h + 1) : ~Offers(i, s)
    BY <1>3 DEF SentTo
  <2>2. ASSUME NEW i \in j..h
        PROVE  ~Offers(i, s)'
    <3>1. i \in 1..(Len(toServer) - 1) /\ i + 1 \in (j + 1)..(h + 1)
      BY <1>1
    <3> QED
      BY <1>1, <2>1, <3>1
  <2>3. CASE j = 1
    <3>1. PICK t1 \in 0..MaxTakes, n1 \in 0..MaxOffers :
              Adds(applied[s] \o toServer[1].body, t1, 0, n1)
      BY <2>1, <2>3, TakenInTurn
    <3>2. PICK b \in Seq(Candidate) : b = toServer[1].body /\ b # <<>>
      BY <2>1, <2>3, TakenInTurn
    <3>3. PICK a \in Seq(Candidate) : a = applied[s]
      OBVIOUS
    <3>4. EndsAt(a \o b, t, n)
      BY <2>1, <2>3, <3>2, EndsJoin
    <3>5. a \o b \in Seq(Candidate) /\ a \o b # <<>>
      BY <3>2
    <3>6. PICK c \in Seq(Candidate) : c = a \o b /\ c # <<>>
      BY <3>5
    <3>7. Adds(c, t1, 0, n1) /\ EndsAt(c, t, n)
      BY <3>1, <3>2, <3>3, <3>4, <3>6
    <3>8. Adds(c, t, 0, n)
      BY <3>6, <3>7, AddsAgain
    <3>9. Adds(c, t, 0, n)'
      BY <3>8 DEF Adds
    <3>10. c = applied'[s]
      BY <2>1, <2>3, <3>2, <3>3, <3>6 DEF Gives
    <3>11. Adds(applied[s], t, 0, n)'
      BY <3>9, <3>10
    <3> QED
      BY <2>2, <2>3, <3>11 DEF SentTo
  <2>4. CASE j # 1
    <3>1. PICK i \in 1..h : i = j - 1
      <4>1. j - 1 \in 1..h
        BY <2>4
      <4> QED
        BY <4>1
    <3>2. i \in 1..(Len(toServer) - 1) /\ i + 1 = j
      BY <1>1, <3>1
    <3>3. Offers(i, s)' /\ toServer'[i] = toServer[j]
      BY <1>1, <2>1, <3>2
    <3>4. PICK b : b = toServer[j].body
      OBVIOUS
    <3>5. EndsAt(b, t, n)'
      BY <2>1, <3>4 DEF EndsAt
    <3>6. EndsAt(toServer[i].body, t, n)'
      BY <3>3, <3>4, <3>5
    <3>7. \A l \in (i + 1)..h : ~Offers(l, s)'
      BY <2>2, <3>2
    <3> QED
      BY <3>3, <3>6, <3>7 DEF SentTo
  <2> QED
    BY <2>3, <2>4
<1> QED
  BY <1>2, <1>3

LEMMA InTurnTaken ==
    ASSUME CallTypeOK, applied \in [SessionId -> Seq(Candidate)], hasty' = hasty,
           toServer # <<>>, toServer' = Tail(toServer),
           NEW s \in SessionId, Gives(s), Offers(1, s) => InTurn(1, s),
           NEW i \in 1..(Len(toServer) - 1), InTurn(i + 1, s)
    PROVE  InTurn(i, s)'
<1>1. Len(toServer) \in Nat \ {0} /\ toServer'[i] = toServer[i + 1]
  BY OffersShift
<1>2. PICK b : b = toServer[i + 1].body
  OBVIOUS
<1>3. PICK t \in 0..MaxTakes, m \in 0..MaxOffers, n \in 0..MaxOffers :
          SentTo(s, i + 1 - 1, t, m) /\ Adds(b, t, m, n)
  BY <1>2 DEF InTurn
<1>4. PICK h : h = i - 1
  OBVIOUS
<1>5. h \in Nat /\ h < Len(toServer) /\ h + 1 = i + 1 - 1
  BY <1>1, <1>4
<1>6. SentTo(s, h + 1, t, m)
  BY <1>3, <1>5
<1>7. SentTo(s, h, t, m)'
  BY <1>5, <1>6, SentTaken
<1>8. Adds(b, t, m, n)'
  BY <1>3 DEF Adds
<1>9. SentTo(s, i - 1, t, m)' /\ Adds(toServer[i].body, t, m, n)' /\ toServer'[i].body # <<>>
  <2>1. b # <<>>
    BY <1>2 DEF InTurn
  <2> QED
    BY <1>1, <1>2, <1>4, <1>7, <1>8, <2>1
<1> QED
  BY <1>9 DEF InTurn

\* A candidate that is taken or not: what is left goes on in turn.
LEMMA ReceivedOrder ==
    ASSUME CallInv, CallInv', TakesInv, WaitingInv, AppliedInv, OffersInv, ServerReceives
    PROVE  TakesInv' /\ WaitingInv' /\ AppliedInv' /\ OffersInv'
<1>1. /\ CallTypeOK /\ TypeOK /\ TypeOK' /\ ServerInv /\ RecordedInv
      /\ applied \in [SessionId -> Seq(Candidate)]
  BY DEF CallInv, ServerInv, TakesInv
<1>2. /\ toServer # <<>> /\ toServer' = Tail(toServer) /\ link # "closed"
      /\ UNCHANGED <<streamer, iceCandidates, recordRequested, session, clientLink,
                     take, offered, hasty, heard>>
  BY DEF ServerReceives
<1>3. \A s : Heard(s)' <=> Heard(s)
  <2>1. PICK new : ServerTurn(new, 1)
    BY <1>1, ReceivesTurn
  <2>2. Grows(new)
    BY <2>1 DEF ServerTurn, CallStep, SpeaksStep
  <2> QED
    BY <1>1, <1>2, <2>2, HeardKept
<1>4. \A t : Decided(t)' <=> Decided(t)
  BY <1>2 DEF Decided
<1>5. PICK m : m = toServer[1]
  OBVIOUS
<1>6. 1 \in 1..Len(toServer) /\ m = Head(toServer)
  BY <1>1, <1>2, <1>5 DEF CallTypeOK
<1>7. /\ Len(toServer) \in Nat \ {0} /\ Len(toServer') = Len(toServer) - 1
      /\ \A i \in 1..(Len(toServer) - 1) :
             /\ toServer'[i] = toServer[i + 1]
             /\ \A s : Offers(i, s)' <=> Offers(i + 1, s)
  BY <1>1, <1>2, OffersShift
<1>8. ASSUME NEW s \in SessionId, NEW i \in 1..Len(toServer'), Offers(i, s)'
      PROVE  /\ \A k \in 1..Len(toServer'[i].body) : Decided(toServer[i].body[k][1])'
             /\ i \in 1..(Len(toServer) - 1)
             /\ i + 1 \in 1..Len(toServer) /\ Offers(i + 1, s)
  <2>1. i \in 1..(Len(toServer) - 1) /\ i + 1 \in 1..Len(toServer) /\ toServer'[i] = toServer[i + 1]
    BY <1>7
  <2>2. Offers(i + 1, s)
    BY <1>7, <1>8, <2>1
  <2>3. \A k \in 1..Len(toServer[i + 1].body) : Decided(toServer[i + 1].body[k][1])
    BY <2>1, <2>2 DEF OffersInv
  <2>4. \A k \in 1..Len(toServer'[i].body) : Decided(toServer[i].body[k][1])'
    BY <1>4, <2>1, <2>3
  <2> QED
    BY <2>1, <2>2, <2>4
<1>9. CASE link' = "closed"
  <2>1. applied' = applied
    BY <1>9 DEF ServerReceives
  <2>2. AppliedInv'
    <3>1. Steady
      BY <1>2, <1>4 DEF Steady
    <3> QED
      BY <1>1, <1>3, <2>1, <3>1, AppliedStays
  <2>3. OffersInv'
    BY <1>8, <1>9 DEF OffersInv
  <2>4. \A b, t, n : Adds(b, t, 0, n)' <=> Adds(b, t, 0, n)
    BY <1>2 DEF Adds
  <2>5. TakesInv' /\ WaitingInv'
    <3>1. WaitingInv'
      BY <1>2, <1>9, <2>4 DEF WaitingInv
    <3>2. TakesInv'
      BY <1>2, <1>3, <1>4, <2>1, <2>2, <2>3 DEF TakesInv, AppliedInv, OffersInv
    <3> QED
      BY <3>1, <3>2
  <2> QED
    BY <2>2, <2>3, <2>5
<1>10. CASE link' # "closed"
  <2>1. applied' = IF m.kind = "request" /\ m.head = "SETUP"
                   THEN [applied EXCEPT ![m.session] = @ \o m.body] ELSE applied
    BY <1>6, <1>10 DEF ServerReceives
  <2>2. \A s \in SessionId : Gives(s) /\ (Offers(1, s) => InTurn(1, s))
    <3>1. ASSUME NEW s \in SessionId
          PROVE  Gives(s)
      <4>1. Offers(1, s) <=> m.kind = "request" /\ m.head = "SETUP" /\ m.session = s
        BY <1>5 DEF Offers, Asked
      <4> QED
        BY <1>1, <1>5, <2>1, <4>1 DEF Gives
    <3>2. \A s \in SessionId : Offers(1, s) => InTurn(1, s)
      BY <1>2, <1>6 DEF OffersInv
    <3> QED
      BY <3>1, <3>2
  <2>3. OffersInv'
    <3>1. ASSUME NEW s \in SessionId, NEW i \in 1..Len(toServer'), Offers(i, s)'
          PROVE  InTurn(i, s)'
      <4>1. InTurn(i + 1, s)
        BY <1>2, <1>8, <3>1 DEF OffersInv
      <4> QED
        BY <1>1, <1>2, <1>8, <2>2, <3>1, <4>1, InTurnTaken
    <3> QED
      BY <1>8, <3>1 DEF OffersInv
  <2>4. ASSUME NEW s \in SessionId
        PROVE  /\ applied'[s] \in Seq(Candidate)
               /\ applied'[s] # <<>> => Heard(s)'
               /\ \A k \in 1..Len(applied'[s]) : Decided(applied[s][k][1])'
               /\ \E t \in 0..MaxTakes, n \in 0..MaxOffers : Adds(applied[s], t, 0, n)'
    <3>1. PICK a \in Seq(Candidate) : a = applied[s]
      BY <1>1
    <3>2. /\ a # <<>> => Heard(s)
          /\ \A k \in 1..Len(a) : Decided(a[k][1])
          /\ \E t \in 0..MaxTakes, n \in 0..MaxOffers : Adds(a, t, 0, n)
      BY <3>1 DEF AppliedInv
    <3>3. PICK c : c = applied'[s]
      OBVIOUS
    <3>4. /\ c \in Seq(Candidate) /\ (c # <<>> => Heard(s))
          /\ \A k \in 1..Len(c) : Decided(c[k][1])
          /\ \E t \in 0..MaxTakes, n \in 0..MaxOffers : Adds(c, t, 0, n)
      <4>1. CASE ~Offers(1, s)
        BY <2>2, <3>1, <3>2, <3>3, <4>1 DEF Gives
      <4>2. CASE Offers(1, s)
        <5>1. PICK b \in Seq(Candidate) : b = toServer[1].body
          BY <1>1, <1>6, <4>2, OfferBody
        <5>2. c = a \o b
          BY <2>2, <3>1, <3>3, <4>2, <5>1 DEF Gives
        <5>3. \E t \in 0..MaxTakes, n \in 0..MaxOffers : Adds(c, t, 0, n)
          BY <1>1, <1>2, <2>2, <3>1, <4>2, <5>1, <5>2, TakenInTurn
        <5>4. \A k \in 1..Len(b) : Decided(b[k][1])
          BY <1>6, <4>2, <5>1 DEF OffersInv
        <5>5. ASSUME NEW k \in 1..Len(c)
              PROVE  Decided(c[k][1])
          <6>1. CASE k \in 1..Len(a)
            <7>1. c[k] = a[k]
              BY <5>2, <6>1
            <7> QED
              BY <3>2, <6>1, <7>1
          <6>2. CASE k \notin 1..Len(a)
            <7>1. PICK l \in 1..Len(b) : c[k] = b[l]
              <8>1. k - Len(a) \in 1..Len(b) /\ c[k] = b[k - Len(a)]
                BY <5>2, <6>2
              <8> QED
                BY <8>1
            <7> QED
              BY <5>4, <7>1
          <6> QED
            BY <6>1, <6>2
        <5>6. Heard(s)
          <6>1. Asked(1) /\ toServer[1].head = "SETUP" /\ toServer[1].session = s
            BY <4>2 DEF Offers
          <6> QED
            BY <1>6, <6>1 DEF CallInv, ChannelInv
        <5> QED
          BY <5>2, <5>3, <5>5, <5>6
      <4> QED
        BY <4>1, <4>2
    <3>5. \E t \in 0..MaxTakes, n \in 0..MaxOffers : Adds(c, t, 0, n)'
      BY <1>2, <3>4 DEF Adds
    <3>6. \A k \in 1..Len(applied'[s]) : Decided(applied[s][k][1])'
      BY <1>4, <3>3, <3>4
    <3>7. \E t \in 0..MaxTakes, n \in 0..MaxOffers : Adds(applied[s], t, 0, n)'
      BY <3>3, <3>5
    <3> QED
      BY <1>3, <3>3, <3>4, <3>6, <3>7
  <2>5. AppliedInv'
    BY <2>4 DEF AppliedInv
  <2>6. TakesInv'
    <3>1. applied' \in [SessionId -> Seq(Candidate)]
      <4>1. applied' = [s \in SessionId |-> applied'[s]]
        BY <1>1, <2>1
      <4> QED
        BY <2>4, <4>1
    <3> QED
      BY <1>2, <2>3, <2>5, <3>1 DEF TakesInv, AppliedInv, OffersInv
  <2>7. WaitingInv'
    <3>1. \A b, t, n : Adds(b, t, 0, n)' <=> Adds(b, t, 0, n)
      BY <1>2 DEF Adds
    <3>2. ASSUME clientLink = "open", session # NoId, session \in SessionId
          PROVE  SentTo(session, Len(toServer), take, offered)'
      <4>1. PICK s \in SessionId : s = session
        BY <3>2
      <4>2. PICK t : t = take
        OBVIOUS
      <4>3. PICK n : n = offered
        OBVIOUS
      <4>4. PICK h \in Nat : h = Len(toServer) - 1
        BY <1>7
      <4>5. SentTo(s, h + 1, t, n) /\ h < Len(toServer) /\ h = Len(toServer')
        <5>1. SentTo(session, Len(toServer), take, offered)
          BY <1>2, <3>2 DEF WaitingInv
        <5>2. Len(toServer) = h + 1
          BY <1>7, <4>4
        <5> QED
          BY <1>7, <4>1, <4>2, <4>3, <4>4, <5>1, <5>2
      <4>6. SentTo(s, h, t, n)'
        BY <1>1, <1>2, <2>2, <4>5, SentTaken
      <4> QED
        BY <1>2, <4>1, <4>2, <4>3, <4>5, <4>6
    <3> QED
      BY <1>2, <3>1, <3>2 DEF WaitingInv
  <2> QED
    BY <2>3, <2>5, <2>6, <2>7
<1> QED
  BY <1>9, <1>10

-----------------------------------------------------------------------------
(* Candidates: the other steps.                                            *)

RecorderOrder ==
    /\ take \in 0..MaxTakes /\ offered \in 0..MaxOffers
    /\ hasty \subseteq 0..take
    /\ streamer # "none" => take \notin hasty

OrderInv == TakesInv /\ WaitingInv /\ AppliedInv /\ OffersInv

LEMMA OrderParts ==
    ASSUME OrderInv, applied' = applied, RecorderOrder', WaitingInv', AppliedInv', OffersInv'
    PROVE  OrderInv'
<1>1. applied' \in [SessionId -> Seq(Candidate)]
  BY DEF OrderInv, TakesInv
<1> QED
  BY <1>1 DEF OrderInv, TakesInv, RecorderOrder, AppliedInv, OffersInv

\* A step that takes nothing and starts nothing, while the client goes on.
LEMMA QuietOrder ==
    ASSUME CallTypeOK, OrderInv, applied' = applied, OffersNothing,
           UNCHANGED <<streamer, iceCandidates, recordRequested, session,
                       take, offered, hasty, clientLink>>,
           link' # "closed" => link # "closed", \A s : Heard(s) => Heard(s)'
    PROVE  OrderInv'
<1>1. applied \in [SessionId -> Seq(Candidate)] /\ AppliedInv /\ OffersInv /\ WaitingInv
  BY DEF OrderInv, TakesInv
<1>2. Steady
  BY DEF Steady, Decided
<1>3. AppliedInv' /\ OffersInv'
  BY <1>1, <1>2, AppliedStays, OffersKept
<1>4. ASSUME clientLink = "open", session # NoId, session \in SessionId, link' # "closed"
      PROVE  SentTo(session, Len(toServer), take, offered)'
  <2>1. PICK s \in SessionId : s = session
    BY <1>4
  <2>2. PICK t : t = take
    OBVIOUS
  <2>3. PICK n : n = offered
    OBVIOUS
  <2>4. SentTo(s, Len(toServer), t, n)
    BY <1>1, <1>4, <2>1, <2>2, <2>3 DEF WaitingInv
  <2>5. SentTo(s, Len(toServer), t, n)'
    BY <1>1, <1>2, <1>4, <2>4, OffersKept
  <2> QED
    BY <2>1, <2>2, <2>3, <2>5
<1>5. \A b, t, n : Adds(b, t, 0, n)' <=> Adds(b, t, 0, n)
  BY DEF Adds
<1>6. WaitingInv'
  BY <1>1, <1>4, <1>5 DEF WaitingInv
<1>7. RecorderOrder'
  BY DEF RecorderOrder, OrderInv, TakesInv
<1> QED
  BY <1>3, <1>6, <1>7, OrderParts

\* A step after which the client sends nothing more.
LEMMA MuteOrder ==
    ASSUME CallTypeOK, OrderInv, UNCHANGED <<applied, toServer, take, hasty>>,
           clientLink' # "open", offered' \in 0..MaxOffers,
           streamer' # "none" => streamer # "none",
           link' # "closed" => link # "closed", \A s : Heard(s) => Heard(s)'
    PROVE  OrderInv'
<1>1. applied \in [SessionId -> Seq(Candidate)] /\ AppliedInv /\ OffersInv
  BY DEF OrderInv, TakesInv
<1>2. Steady
  BY DEF Steady, Decided
<1>3. OffersNothing
  BY DEF OffersNothing, Joins, CallTypeOK
<1>4. AppliedInv' /\ OffersInv'
  BY <1>1, <1>2, <1>3, AppliedStays, OffersKept
<1>5. WaitingInv'
  BY DEF WaitingInv
<1>6. RecorderOrder'
  BY DEF RecorderOrder, OrderInv, TakesInv
<1> QED
  BY <1>4, <1>5, <1>6, OrderParts

LEMMA OwnOrder ==
    ASSUME CallInv, CallInv', OrderInv, ServerOwnStep
    PROVE  OrderInv'
<1>1. /\ UNCHANGED <<clientVars, heard, applied>>
      /\ CallTypeOK /\ TypeOK /\ TypeOK' /\ ServerInv /\ RecordedInv
  BY DEF ServerOwnStep, CallInv, ServerInv
<1>2. PICK new : ServerTurn(new, 0)
  BY <1>1, OwnStepTurn
<1>3. Grows(new) /\ (link' # "closed" => link # "closed")
  BY <1>2 DEF ServerTurn, CallStep, SpeaksStep
<1>4. \A s : Heard(s) => Heard(s)'
  BY <1>1, <1>3, HeardKept
<1>5. OffersNothing
  BY <1>1 DEF OffersNothing, Joins, CallTypeOK, clientVars
<1> QED
  BY <1>1, <1>3, <1>4, <1>5, QuietOrder DEF clientVars

LEMMA RequestJoins ==
    ASSUME CallTypeOK, clientLink = "open", NEW settled, NEW method \in ClientHeads,
           NEW s \in Nat, NEW body \in Seq(Candidate),
           Client!RequestAfter(settled, method, s, body)
    PROVE  \E q \in ClientsRequest :
               /\ toServer' = Append(toServer, q)
               /\ q.head = method /\ q.session = s /\ q.body = body
<1> DEFINE q == [kind |-> "request", head |-> method, cseq |-> cseq,
                 session |-> s, body |-> body]
<1>1. q \in ClientsRequest
  BY DEF CallTypeOK, ClientsRequest
<1>2. toServer' = toServer \o <<q>>
  BY DEF Client!RequestAfter, Client!Send, Client!ClientMessage
<1>3. toServer \o <<q>> = Append(toServer, q)
  BY <1>1 DEF CallTypeOK
<1> QED
  BY <1>1, <1>2, <1>3

LEMMA SilentOffersNothing ==
    ASSUME CallTypeOK, toServer' = toServer
    PROVE  OffersNothing
BY DEF OffersNothing, Joins, CallTypeOK

LEMMA AppendOffersNothing ==
    ASSUME CallTypeOK, NEW q \in ClientsRequest \cup ClientsResponse,
           toServer' = Append(toServer, q), q.kind = "response" \/ q.head # "SETUP"
    PROVE  OffersNothing
<1>1. toServer'[Len(toServer) + 1] = q
  BY DEF CallTypeOK
<1>2. \A i \in 1..Len(toServer') : i = Len(toServer) + 1 => \A s : ~Offers(i, s)'
  BY <1>1 DEF Offers, Asked
<1> QED
  BY <1>2 DEF OffersNothing, Joins

\* What still has to be shown of a step that goes on sending.
LEMMA SpeakingOrder ==
    ASSUME CallTypeOK, OrderInv, applied' = applied, link' = link, Steady,
           \A s : Heard(s) => Heard(s)', RecorderOrder', WaitingInv', OffersInv'
    PROVE  OrderInv'
<1>1. applied \in [SessionId -> Seq(Candidate)] /\ AppliedInv
  BY DEF OrderInv, TakesInv
<1>2. AppliedInv'
  BY <1>1, AppliedStays
<1> QED
  BY <1>2, OrderParts

LEMMA LeftOver ==
    ASSUME NEW b \in Seq(Candidate), NEW t, \A k \in 1..Len(b) : b[k][1] \in hasty
    PROVE  Adds(b, t, 0, 0)
<1>1. Len(b) \in 0..Len(b) /\ 0 = 0 + (Len(b) - Len(b)) /\ (Len(b) + 1)..Len(b) = {}
  OBVIOUS
<1> QED
  BY <1>1 DEF Adds

LEMMA startRecordOrder ==
    ASSUME CallInv, OrderInv, Client!startRecord, UNCHANGED <<vars, heard, applied>>
    PROVE  OrderInv'
<1>1. /\ clientLink = "open" /\ streamer = "none" /\ take < MaxTakes
      /\ streamer' = "preparing" /\ take' = take + 1 /\ offered' = 0
      /\ UNCHANGED <<iceCandidates, recordRequested, session, clientLink, toServer, hasty>>
  BY DEF Client!startRecord
<1>2. /\ CallTypeOK /\ session = NoId /\ iceCandidates \in Seq(Candidate)
      /\ take \in 0..MaxTakes /\ hasty \subseteq 0..take
      /\ applied \in [SessionId -> Seq(Candidate)] /\ AppliedInv /\ OffersInv
  BY <1>1 DEF CallInv, CallTypeOK, RecorderInv, OrderInv, TakesInv
<1>3. link' = link /\ \A s : Heard(s) => Heard(s)'
  BY DEF Heard, vars
<1>4. Steady
  BY <1>1, <1>2, CallBoundsAssumption DEF Steady, Decided
<1>5. OffersInv'
  BY <1>1, <1>2, <1>3, <1>4, SilentOffersNothing, OffersKept
<1>6. RecorderOrder'
  BY <1>1, <1>2, CallBoundsAssumption DEF RecorderOrder
<1>7. WaitingInv'
  <2>1. PICK b \in Seq(Candidate) : b = iceCandidates
    BY <1>2
  <2>2. PICK t : t = take + 1
    OBVIOUS
  <2>3. \A k \in 1..Len(b) : b[k][1] \in hasty
    BY <1>1, <1>2, <2>1 DEF OrderInv, WaitingInv
  <2>4. Adds(b, t, 0, 0)
    BY <2>3, LeftOver
  <2>5. Adds(b, t, 0, 0)'
    BY <1>1, <2>4 DEF Adds
  <2>6. Adds(iceCandidates, take, 0, offered)'
    BY <1>1, <2>1, <2>2, <2>5
  <2> QED
    BY <1>1, <1>2, <2>6 DEF WaitingInv
<1> QED
  BY <1>2, <1>3, <1>4, <1>5, <1>6, <1>7, SpeakingOrder

LEMMA stopRecordOrder ==
    ASSUME CallInv, OrderInv, Client!stopRecord, UNCHANGED <<vars, heard, applied>>
    PROVE  OrderInv'
<1>1. /\ clientLink = "open" /\ streamer # "none" /\ streamer' = "none"
      /\ hasty' = IF recordRequested THEN hasty ELSE hasty \cup {take}
      /\ UNCHANGED <<iceCandidates, take, offered>>
  BY DEF Client!stopRecord, Client!StopStreamer
<1>2. /\ CallTypeOK /\ session \in Nat /\ iceCandidates \in Seq(Candidate)
      /\ take \in 0..MaxTakes /\ offered \in 0..MaxOffers /\ hasty \subseteq 0..take
      /\ applied \in [SessionId -> Seq(Candidate)] /\ AppliedInv /\ OffersInv
  BY <1>1 DEF CallInv, CallTypeOK, OrderInv, TakesInv
<1>3. link' = link /\ \A s : Heard(s) => Heard(s)'
  BY DEF Heard, vars
<1>4. CASE ~recordRequested /\ UNCHANGED <<recordRequested, session, clientLink, toServer>>
  <2>1. session = NoId /\ hasty' = hasty \cup {take}
    BY <1>1, <1>4 DEF CallInv, RecorderInv
  <2>2. Steady
    BY <1>1, <1>4, <2>1 DEF Steady, Decided
  <2>3. OffersInv'
    BY <1>2, <1>3, <1>4, <2>2, SilentOffersNothing, OffersKept
  <2>4. RecorderOrder'
    BY <1>1, <1>2, <2>1, CallBoundsAssumption DEF RecorderOrder
  <2>5. \A k \in 1..Len(iceCandidates) : iceCandidates[k][1] \in hasty'
    <3>1. Adds(iceCandidates, take, 0, offered)
      BY <1>1, <2>1 DEF OrderInv, WaitingInv
    <3>2. PICK j \in 0..Len(iceCandidates) :
              /\ \A i \in 1..j : iceCandidates[i][1] \in hasty
              /\ \A i \in (j + 1)..Len(iceCandidates) : iceCandidates[i] = <<take, 0 + (i - j)>>
      BY <3>1 DEF Adds
    <3>3. ASSUME NEW k \in 1..Len(iceCandidates)
          PROVE  iceCandidates[k][1] \in hasty'
      <4>1. k \in 1..j \/ k \in (j + 1)..Len(iceCandidates)
        BY <1>2
      <4> QED
        BY <2>1, <3>2, <4>1
    <3> QED
      BY <3>3
  <2>6. WaitingInv'
    BY <1>1, <1>4, <2>1, <2>5 DEF WaitingInv
  <2> QED
    BY <1>2, <1>3, <2>2, <2>3, <2>4, <2>6, SpeakingOrder
<1>5. CASE /\ recordRequested /\ session # NoId
           /\ Client!ClientRequest("TEARDOWN", session, <<>>)
           /\ session' = NoId
           /\ recordRequested' = FALSE
           /\ UNCHANGED clientLink
  <2>1. PICK q \in ClientsRequest : toServer' = Append(toServer, q) /\ q.head = "TEARDOWN"
    <3>1. Client!RequestAfter({}, "TEARDOWN", session, <<>>)
      BY <1>5 DEF Client!ClientRequest
    <3>2. "TEARDOWN" \in ClientHeads /\ <<>> \in Seq(Candidate)
      BY DEF ClientHeads
    <3> QED
      BY <1>1, <1>2, <3>1, <3>2, RequestJoins
  <2>2. hasty' = hasty /\ iceCandidates = <<>>
    BY <1>1, <1>5 DEF OrderInv, WaitingInv
  <2>3. Steady
    BY <1>1, <2>2 DEF Steady, Decided
  <2>4. OffersNothing
    BY <1>2, <2>1, AppendOffersNothing
  <2>5. OffersInv'
    BY <1>2, <1>3, <2>3, <2>4, OffersKept
  <2>6. RecorderOrder'
    BY <1>1, <1>2, <2>2 DEF RecorderOrder
  <2>7. WaitingInv'
    <3>1. Len(iceCandidates') = 0
      BY <1>1, <2>2
    <3> QED
      BY <1>1, <1>5, <3>1 DEF WaitingInv
  <2> QED
    BY <1>2, <1>3, <2>3, <2>5, <2>6, <2>7, SpeakingOrder
<1>6. CASE recordRequested /\ Client!ClientDisconnect /\ UNCHANGED toServer
  <2>1. clientLink' = "terminating" /\ hasty' = hasty
    BY <1>1, <1>6 DEF Client!ClientDisconnect
  <2> QED
    BY <1>1, <1>2, <1>3, <1>6, <2>1, MuteOrder
<1> QED
  BY <1>4, <1>5, <1>6 DEF Client!stopRecord, Client!NoSessionId, NoId

LEMMA streamerPreparedOrder ==
    ASSUME CallInv, OrderInv, Client!streamerPrepared, UNCHANGED <<vars, heard, applied>>
    PROVE  OrderInv'
<1>1. /\ streamer = "preparing" /\ streamer' = "prepared"
      /\ UNCHANGED <<iceCandidates, session, take, offered, hasty>>
  BY DEF Client!streamerPrepared
<1>2. /\ CallTypeOK /\ session \in Nat
      /\ offered \in 0..MaxOffers
      /\ applied \in [SessionId -> Seq(Candidate)] /\ AppliedInv /\ OffersInv
  BY <1>1 DEF CallInv, CallTypeOK, OrderInv, TakesInv
<1>3. link' = link /\ \A s : Heard(s) => Heard(s)'
  BY DEF Heard, vars
<1>4. CASE Client!ClientDisconnect /\ UNCHANGED toServer
  <2>1. clientLink' # "open"
    BY <1>4 DEF Client!ClientDisconnect
  <2> QED
    BY <1>1, <1>2, <1>3, <1>4, <2>1, MuteOrder
<1>5. CASE /\ Client!ClientRequest("RECORD", NoId, <<>>)
           /\ recordRequested' = TRUE /\ UNCHANGED clientLink
  <2>0. Client!RequestAfter({}, "RECORD", NoId, <<>>)
    BY <1>5 DEF Client!ClientRequest
  <2>1. CASE clientLink # "open"
    <3>1. toServer' = toServer
      BY <2>0, <2>1 DEF Client!RequestAfter, Client!Send
    <3> QED
      BY <1>1, <1>2, <1>3, <1>5, <2>1, <3>1, MuteOrder
  <2>2. CASE clientLink = "open"
    <3>1. PICK q \in ClientsRequest : toServer' = Append(toServer, q) /\ q.head = "RECORD"
      <4>1. "RECORD" \in ClientHeads /\ <<>> \in Seq(Candidate) /\ NoId \in Nat
        BY DEF ClientHeads, NoId
      <4> QED
        BY <1>2, <2>0, <2>2, <4>1, RequestJoins
    <3>2. ~recordRequested /\ session = NoId
      BY <1>1, <2>2 DEF CallInv, RecorderInv
    <3>3. Steady
      BY <1>1, <1>5 DEF Steady, Decided
    <3>4. OffersNothing
      BY <1>2, <3>1, AppendOffersNothing
    <3>5. OffersInv'
      BY <1>2, <1>3, <3>3, <3>4, OffersKept
    <3>6. RecorderOrder'
      BY <1>1 DEF RecorderOrder, OrderInv, TakesInv
    <3>7. WaitingInv'
      <4>1. Adds(iceCandidates, take, 0, offered)
        BY <1>1, <2>2, <3>2 DEF OrderInv, WaitingInv
      <4>2. Adds(iceCandidates, take, 0, offered)'
        BY <1>1, <4>1 DEF Adds
      <4> QED
        BY <1>1, <3>2, <4>2 DEF WaitingInv
    <3> QED
      BY <1>2, <1>3, <3>3, <3>5, <3>6, <3>7, SpeakingOrder
  <2> QED
    BY <2>1, <2>2
<1> QED
  BY <1>4, <1>5 DEF Client!streamerPrepared, Client!NoSessionId, NoId

LEMMA iceCandidateOrder ==
    ASSUME CallInv, OrderInv, Client!iceCandidate, UNCHANGED <<vars, heard, applied>>
    PROVE  OrderInv'
<1>1. /\ streamer # "none" /\ offered < MaxOffers /\ offered' = offered + 1
      /\ IF session = NoId
         THEN /\ iceCandidates' = Append(iceCandidates, <<take, offered + 1>>)
              /\ UNCHANGED <<pending, cseq, toServer>>
         ELSE /\ Client!ClientRequest("SETUP", session, <<<<take, offered + 1>>>>)
              /\ UNCHANGED iceCandidates
      /\ UNCHANGED <<streamer, recordRequested, session, clientLink, take, hasty>>
  BY DEF Client!iceCandidate, Client!NoSessionId, NoId
<1>2. /\ CallTypeOK /\ session \in Nat /\ iceCandidates \in Seq(Candidate)
      /\ take \in 0..MaxTakes /\ offered \in 0..MaxOffers /\ take \in Nat /\ offered \in Nat
      /\ take \notin hasty
      /\ applied \in [SessionId -> Seq(Candidate)] /\ AppliedInv /\ OffersInv
  BY <1>1 DEF CallInv, CallTypeOK, OrderInv, TakesInv
<1>3. link' = link /\ \A s : Heard(s) => Heard(s)'
  BY DEF Heard, vars
<1>4. offered' \in 0..MaxOffers
  BY <1>1, <1>2, CallBoundsAssumption
<1>5. Steady
  BY <1>1 DEF Steady, Decided
<1>6. RecorderOrder'
  BY <1>1, <1>4 DEF RecorderOrder, OrderInv, TakesInv
<1>7. PICK t \in 0..MaxTakes : t = take
  BY <1>2
<1>8. PICK n \in 0..MaxOffers : n = offered
  BY <1>2
<1>9. PICK b \in Seq(Candidate) : b = <<<<t, n + 1>>>> /\ b = <<<<take, offered + 1>>>>
  <2>0. t \in Nat /\ n + 1 \in Nat
    BY <1>2, <1>7, <1>8
  <2>1. PICK c \in Candidate : c = <<t, n + 1>>
    BY <2>0 DEF Candidate
  <2>2. <<c>> \in Seq(Candidate)
    OBVIOUS
  <2> QED
    BY <1>7, <1>8, <2>1, <2>2
<1>10. Adds(b, t, n, n + 1)
  BY <1>2, <1>7, <1>8, <1>9, AddsOne
<1>11. CASE clientLink # "open"
  <2>1. toServer' = toServer
    <3>1. CASE session = NoId
      BY <1>1, <3>1
    <3>2. CASE session # NoId
      BY <1>1, <1>11, <3>2 DEF Client!ClientRequest, Client!RequestAfter, Client!Send
    <3> QED
      BY <3>1, <3>2
  <2> QED
    BY <1>1, <1>2, <1>3, <1>4, <1>11, <2>1, MuteOrder
<1>12. CASE clientLink = "open" /\ session = NoId
  <2>1. /\ toServer' = toServer
        /\ iceCandidates' = Append(iceCandidates, <<take, offered + 1>>)
    BY <1>1, <1>12
  <2>2. OffersInv'
    BY <1>2, <1>3, <1>5, <2>1, SilentOffersNothing, OffersKept
  <2>3. PICK a \in Seq(Candidate) : a = iceCandidates
    BY <1>2
  <2>4. Adds(a, t, 0, n)
    BY <1>1, <1>7, <1>8, <1>12, <2>3 DEF OrderInv, WaitingInv
  <2>5. Adds(a \o b, t, 0, n + 1)
    BY <1>2, <1>8, <1>10, <2>4, AddsJoin
  <2>6. PICK c : c = a \o b
    OBVIOUS
  <2>7. Adds(c, t, 0, n + 1)'
    BY <1>1, <2>5, <2>6 DEF Adds
  <2>8. c = iceCandidates'
    <3>1. <<take, offered + 1>> \in Candidate
      BY <1>2 DEF Candidate
    <3> QED
      BY <1>9, <2>1, <2>3, <2>6, <3>1
  <2>9. PICK k : k = n + 1
    OBVIOUS
  <2>10. Adds(iceCandidates, take, 0, offered)'
    BY <1>1, <1>7, <1>8, <2>7, <2>8
  <2>11. WaitingInv'
    BY <1>1, <1>12, <2>10 DEF WaitingInv
  <2> QED
    BY <1>2, <1>3, <1>5, <1>6, <2>2, <2>11, SpeakingOrder
<1>13. CASE clientLink = "open" /\ session # NoId
  <2>1. PICK q \in ClientsRequest :
            /\ toServer' = Append(toServer, q)
            /\ q.head = "SETUP" /\ q.session = session /\ q.body = b
    <3>1. Client!RequestAfter({}, "SETUP", session, b)
      BY <1>1, <1>9, <1>13 DEF Client!ClientRequest
    <3>2. "SETUP" \in ClientHeads
      BY DEF ClientHeads
    <3>3. CallTypeOK /\ clientLink = "open" /\ session \in Nat /\ b \in Seq(Candidate)
      BY <1>2, <1>13
    <3>4. PICK q \in ClientsRequest :
              q = [kind |-> "request", head |-> "SETUP", cseq |-> cseq,
                   session |-> session, body |-> b]
      BY <3>2, <3>3 DEF CallTypeOK, ClientsRequest
    <3>5. toServer' = toServer \o <<q>>
      BY <3>1, <3>3, <3>4 DEF Client!RequestAfter, Client!Send, Client!ClientMessage
    <3>6. toServer' = Append(toServer, q)
      BY <3>3, <3>5 DEF CallTypeOK
    <3> QED
      BY <3>4, <3>6
  <2>2. iceCandidates = <<>> /\ iceCandidates' = <<>> /\ recordRequested
    BY <1>1, <1>13 DEF OrderInv, WaitingInv, CallInv, RecorderInv
  <2>3. /\ q.body # <<>>
        /\ \A k \in 1..Len(q.body) : Decided(q.body[k][1])'
    <3>1. Len(b) = 1 /\ b[1] = <<take, offered + 1>>
      BY <1>9
    <3>2. q.body # <<>> /\ \A k \in 1..Len(q.body) : q.body[k][1] = t
      <4>1. b[1][1] = t /\ \A k \in 1..Len(b) : k = 1
        BY <1>7, <3>1
      <4>2. b # <<>>
        BY <3>1
      <4> QED
        BY <2>1, <4>1, <4>2
    <3>3. Decided(t)'
      BY <1>1, <1>2, <1>7, <2>2 DEF Decided
    <3> QED
      BY <3>2, <3>3 DEF Decided
  <2>4. q.session \in SessionId /\ link # "closed" => SentTo(q.session, Len(toServer), t, n)
    BY <1>7, <1>8, <1>13, <2>1 DEF OrderInv, WaitingInv
  <2>5. n + 1 \in 0..MaxOffers /\ UNCHANGED <<applied, link, hasty>>
    BY <1>1, <1>3, <1>4, <1>8
  <2>6. PICK k \in 0..MaxOffers : k = n + 1
    BY <2>5
  <2>7. Adds(q.body, t, n, k)
    BY <1>10, <2>1, <2>6
  <2>8. /\ OffersInv'
        /\ q.session \in SessionId /\ link # "closed" => SentTo(q.session, Len(toServer), t, k)'
    BY <1>2, <1>5, <2>1, <2>3, <2>4, <2>5, <2>7, OffersMore
  <2>9. ASSUME session \in SessionId, link # "closed"
        PROVE  SentTo(session, Len(toServer), take, offered)'
    <3>1. PICK s : s = session
      OBVIOUS
    <3>2. SentTo(s, Len(toServer), t, k)'
      <4>1. PICK x : x = q.session
        OBVIOUS
      <4>2. SentTo(x, Len(toServer), t, k)'
        BY <2>1, <2>8, <2>9, <4>1
      <4> QED
        BY <2>1, <3>1, <4>1, <4>2
    <3> QED
      BY <1>1, <1>7, <1>8, <2>6, <3>1, <3>2
  <2>10. WaitingInv'
    BY <1>1, <1>3, <1>13, <2>2, <2>9 DEF WaitingInv
  <2> QED
    BY <1>2, <1>3, <1>5, <1>6, <2>8, <2>10, SpeakingOrder
<1> QED
  BY <1>11, <1>12, <1>13

\* The session the OK to a RECORD names is new to the client: no candidate is
\* there or on its way, and those that waited are sent, or there is none.
LEMMA onRecordResponseOrder ==
    ASSUME CallInv, OrderInv, UNCHANGED <<vars, applied>>, heard < Len(wire), heard' = heard + 1,
           NEW m, m = wire[heard + 1], m.kind = "response",
           NEW r \in pending, r.cseq = m.cseq, r.head = "RECORD",
           Client!onRecordResponse(r, m)
    PROVE  OrderInv'
<1>1. /\ CallTypeOK /\ TypeOK /\ heard \in Nat /\ Len(wire) \in Nat
      /\ iceCandidates \in Seq(Candidate)
      /\ take \in 0..MaxTakes /\ offered \in 0..MaxOffers /\ take \in Nat /\ offered \in Nat
      /\ applied \in [SessionId -> Seq(Candidate)] /\ AppliedInv /\ OffersInv
  BY CallInvType DEF CallTypeOK, OrderInv, TakesInv
<1>2. link' = link /\ \A s : Heard(s) => Heard(s)'
  <2>1. wire' = wire /\ link' = link
    BY DEF vars
  <2>2. \A j \in 1..heard : j \in 1..heard'
    BY <1>1
  <2> QED
    BY <2>1, <2>2 DEF Heard
<1>3. ASSUME NEW how \in {"closed", "crashed"}, Client!ClientGone(how)
      PROVE  OrderInv'
  BY <1>1, <1>2, <1>3, MuteOrder DEF Client!ClientGone
<1>4. ASSUME streamer # "none", session' = m.session, iceCandidates' = <<>>,
             IF iceCandidates = <<>>
             THEN Client!Settled(r) /\ UNCHANGED <<cseq, toServer>>
             ELSE Client!RequestAfter({r}, "SETUP", m.session, iceCandidates),
             UNCHANGED <<streamer, recordRequested, clientLink, take, offered, hasty>>
      PROVE  OrderInv'
  <2>1. CASE clientLink # "open"
    <3>1. toServer' = toServer
      BY <1>4, <2>1 DEF Client!RequestAfter, Client!Send
    <3> QED
      BY <1>1, <1>2, <1>4, <2>1, <3>1, MuteOrder
  <2>2. CASE clientLink = "open"
    <3>1. /\ session = NoId /\ recordRequested
      BY <1>1, <2>2 DEF CallInv, RecorderInv
    <3>2. PICK s \in SessionId : s = m.session /\ \A j \in 1..heard : wire[j].session # s
      <4>1. m.session \in SessionId /\ \A j \in 1..heard : wire[j].session # m.session
        BY <2>2, AnswerRead
      <4> QED
        BY <4>1
    <3>3. ~Heard(s) /\ s # NoId
      BY <3>2 DEF Heard, NoId, SessionId
    <3>4. applied[s] = <<>> /\ \A i \in 1..Len(toServer) : ~Offers(i, s)
      <4>1. applied[s] = <<>>
        BY <1>1, <3>3 DEF AppliedInv
      <4>2. ASSUME NEW i \in 1..Len(toServer), Offers(i, s)
            PROVE  FALSE
        <5>1. Asked(i) /\ toServer[i].head = "SETUP" /\ toServer[i].session = s
          BY <4>2 DEF Offers
        <5> QED
          BY <3>3, <5>1 DEF CallInv, ChannelInv
      <4> QED
        BY <4>1, <4>2
    <3>5. PICK t \in 0..MaxTakes : t = take
      BY <1>1
    <3>6. PICK n \in 0..MaxOffers : n = offered
      BY <1>1
    <3>7. PICK b \in Seq(Candidate) : b = iceCandidates
      BY <1>1
    <3>8. SentTo(s, Len(toServer), t, 0)
      <4>1. Adds(applied[s], t, 0, 0)
        BY <3>4, AddsNothing
      <4> QED
        BY <3>4, <4>1 DEF SentTo
    <3>9. Adds(b, t, 0, n)
      BY <1>4, <2>2, <3>1, <3>5, <3>6, <3>7 DEF OrderInv, WaitingInv
    <3>10. Steady
      BY <1>4 DEF Steady, Decided
    <3>11. RecorderOrder'
      BY <1>4 DEF RecorderOrder, OrderInv, TakesInv
    <3>12. OffersInv' /\ (link # "closed" => SentTo(s, Len(toServer), t, n)')
      <4>1. CASE b = <<>>
        <5>1. n = 0
          <6>1. PICK k \in 0..Len(b) : n = 0 + (Len(b) - k)
            BY <3>9 DEF Adds
          <6>2. Len(b) = 0
            BY <4>1
          <6>3. k \in 0..0
            BY <6>2
          <6>4. k = 0
            BY <6>3
          <6> QED
            BY <6>1, <6>2, <6>4
        <5>2. toServer' = toServer
          BY <1>4, <3>7, <4>1
        <5>3. OffersNothing
          BY <1>1, <5>2, SilentOffersNothing
        <5>4. SentTo(s, Len(toServer), t, n)
          BY <3>8, <5>1
        <5> QED
          BY <1>1, <1>2, <3>10, <5>3, <5>4, OffersKept
      <4>2. CASE b # <<>>
        <5>1. PICK q \in ClientsRequest :
                  q = [kind |-> "request", head |-> "SETUP", cseq |-> cseq,
                       session |-> s, body |-> b]
          <6>1. "SETUP" \in ClientHeads /\ s \in Nat /\ cseq \in Nat
            BY <1>1 DEF ClientHeads, CallTypeOK, SessionId
          <6> QED
            BY <6>1 DEF ClientsRequest
        <5>2. toServer' = toServer \o <<q>>
          BY <1>4, <2>2, <3>2, <3>7, <4>2, <5>1
             DEF Client!RequestAfter, Client!Send, Client!ClientMessage
        <5>3. toServer' = Append(toServer, q)
          BY <1>1, <5>2 DEF CallTypeOK
        <5>4. q.head = "SETUP" /\ q.session = s /\ q.body = b
          BY <5>1
        <5>5. \A k \in 1..Len(b) : Decided(b[k][1])'
          <6>1. PICK j \in 0..Len(b) :
                    /\ \A i \in 1..j : b[i][1] \in hasty
                    /\ \A i \in (j + 1)..Len(b) : b[i] = <<t, 0 + (i - j)>>
            BY <3>9 DEF Adds
          <6>2. ASSUME NEW k \in 1..Len(b)
                PROVE  b[k][1] \in hasty \/ b[k][1] = t
            <7>1. k \in 1..j \/ k \in (j + 1)..Len(b)
              OBVIOUS
            <7> QED
              BY <6>1, <7>1
          <6>3. ASSUME NEW k \in 1..Len(b)
                PROVE  Decided(b[k][1])'
            <7>1. b[k][1] \in hasty' \/ (b[k][1] \in 0..take' /\ recordRequested')
              BY <1>1, <1>4, <3>1, <3>5, <6>2
            <7> QED
              BY <7>1 DEF Decided
          <6> QED
            BY <6>3
        <5>6. q.body # <<>> /\ \A k \in 1..Len(q.body) : Decided(q.body[k][1])'
          <6>1. ASSUME NEW k \in 1..Len(q.body)
                PROVE  Decided(q.body[k][1])'
            <7>1. PICK x : x = b[k][1]
              OBVIOUS
            <7>2. Decided(x)'
              BY <5>4, <5>5, <7>1 DEF Decided
            <7> QED
              BY <5>4, <7>1, <7>2 DEF Decided
          <6> QED
            BY <4>2, <5>4, <6>1
        <5>7. UNCHANGED <<applied, link, hasty>> /\ 0 \in 0..MaxOffers
          BY <1>2, <1>4, CallBoundsAssumption
        <5>8. Adds(q.body, t, 0, n) /\ SentTo(q.session, Len(toServer), t, 0)
          BY <3>8, <3>9, <5>4
        <5>9. /\ OffersInv'
              /\ q.session \in SessionId /\ link # "closed"
                     => SentTo(q.session, Len(toServer), t, n)'
          BY <1>1, <3>10, <5>3, <5>4, <5>6, <5>7, <5>8, OffersMore
        <5>10. ASSUME link # "closed"
               PROVE  SentTo(s, Len(toServer), t, n)'
          <6>1. PICK x : x = q.session
            OBVIOUS
          <6>2. SentTo(x, Len(toServer), t, n)'
            BY <5>4, <5>9, <5>10, <6>1
          <6> QED
            BY <5>4, <6>1, <6>2
        <5> QED
          BY <5>9, <5>10
      <4> QED
        BY <4>1, <4>2
    <3>13. WaitingInv'
      <4>1. ASSUME link # "closed"
            PROVE  SentTo(session, Len(toServer), take, offered)'
        <5>1. SentTo(s, Len(toServer), t, n)'
          BY <3>12, <4>1
        <5> QED
          BY <1>4, <3>2, <3>5, <3>6, <5>1
      <4> QED
        BY <1>2, <1>4, <3>2, <3>3, <4>1 DEF WaitingInv
    <3> QED
      BY <1>1, <1>2, <3>10, <3>11, <3>12, <3>13, SpeakingOrder
  <2> QED
    BY <2>1, <2>2
<1> QED
  BY <1>3, <1>4 DEF Client!onRecordResponse, Client!ClientClose

\* What the client reads, it reads and answers, or the connection is over.
LEMMA HearsOrder ==
    ASSUME CallInv, OrderInv, ClientHears
    PROVE  OrderInv'
<1> DEFINE m == wire[heard + 1]
<1>1. /\ UNCHANGED <<vars, applied>> /\ heard < Len(wire) /\ heard' = heard + 1
      /\ heard \in Nat /\ CallTypeOK /\ Client!ClientReceives(m)
      /\ offered \in 0..MaxOffers /\ link' = link /\ heard + 1 \in 1..Len(wire)
  BY CallInvType DEF ClientHears, OrderInv, TakesInv, vars
<1>2. \A s : Heard(s) => Heard(s)'
  BY <1>1 DEF Heard, vars
<1>3. ASSUME Client!ClientClose
      PROVE  OrderInv'
  BY <1>1, <1>2, <1>3, MuteOrder DEF Client!ClientClose, Client!ClientGone
<1>4. ASSUME UNCHANGED <<streamer, iceCandidates, recordRequested, session, take,
                         offered, hasty, clientLink>>,
             OffersNothing
      PROVE  OrderInv'
  BY <1>1, <1>2, <1>4, QuietOrder
<1>5. CASE m.kind = "request" /\ Client!ClientHandleRequest(m)
  <2>1. CASE Client!ClientClose
    BY <1>3, <2>1
  <2>2. CASE ~Client!ClientClose
    <3>1. /\ Client!ClientResponds(m)
          /\ UNCHANGED <<streamer, iceCandidates, recordRequested, session, take,
                         offered, hasty, clientLink>>
      BY <1>5, <2>2 DEF Client!ClientHandleRequest, Client!onSetupRequest
    <3>2. PICK q \in ClientsResponse :
              q = [kind |-> "response", head |-> "OK", cseq |-> m.cseq,
                   session |-> m.session, body |-> <<>>]
      <4>1. m.cseq \in Nat /\ m.session \in Nat /\ <<>> \in Seq(Candidate)
        BY <1>1, CallInvType DEF Message
      <4> QED
        BY <4>1 DEF ClientsResponse
    <3>3. toServer' = IF clientLink = "open" THEN toServer \o <<q>> ELSE toServer
      BY <3>1, <3>2 DEF Client!ClientResponds, Client!Send, Client!ClientMessage
    <3>4. toServer' = Append(toServer, q) \/ toServer' = toServer
      BY <1>1, <3>3 DEF CallTypeOK
    <3>5. OffersNothing
      <4>1. q.kind = "response"
        BY <3>2
      <4> QED
        BY <1>1, <3>4, <4>1, AppendOffersNothing, SilentOffersNothing
    <3> QED
      BY <1>4, <3>1, <3>5
  <2> QED
    BY <2>1, <2>2
<1>6. CASE m.kind = "response" /\ Client!ClientHandleResponse(m)
  <2>1. ASSUME NEW r \in pending, r.cseq = m.cseq, r.head = "RECORD",
               Client!onRecordResponse(r, m)
        PROVE  OrderInv'
    BY <1>1, <1>6, <2>1, onRecordResponseOrder
  <2>2. ASSUME NEW r \in pending,
               \/ Client!onOptionsResponse(r, m)
               \/ Client!onSetupResponse(r, m)
               \/ Client!onTeardownResponse(r)
        PROVE  OrderInv'
    <3>1. CASE Client!ClientClose
      BY <1>3, <3>1
    <3>2. CASE ~Client!ClientClose
      <4>1. UNCHANGED <<streamer, iceCandidates, recordRequested, session, take,
                        offered, hasty, clientLink, toServer>>
        BY <2>2, <3>2 DEF Client!onOptionsResponse, Client!onSetupResponse,
                          Client!onTeardownResponse
      <4>2. OffersNothing
        BY <1>1, <4>1, SilentOffersNothing
      <4> QED
        BY <1>4, <4>1, <4>2
    <3> QED
      BY <3>1, <3>2
  <2> QED
    BY <1>3, <1>6, <2>1, <2>2 DEF Client!ClientHandleResponse
<1> QED
  BY <1>1, <1>5, <1>6 DEF Client!ClientReceives

LEMMA ActsOrder ==
    ASSUME CallInv, OrderInv, ClientActs
    PROVE  OrderInv'
<1>1. /\ UNCHANGED <<vars, heard, applied>> /\ CallTypeOK /\ link' = link
      /\ offered \in 0..MaxOffers
  BY DEF ClientActs, CallInv, OrderInv, TakesInv, vars
<1>2. \A s : Heard(s) => Heard(s)'
  BY <1>1 DEF Heard, vars
<1>3. CASE Client!eos
  <2>1. clientLink' # "open"
    BY <1>3 DEF Client!eos, Client!ClientDisconnect
  <2> QED
    BY <1>1, <1>2, <1>3, <2>1, MuteOrder DEF Client!eos
<1>4. CASE Client!ClientClose
  BY <1>1, <1>2, <1>4, MuteOrder DEF Client!ClientClose, Client!ClientGone
<1> QED
  BY <1>1, <1>3, <1>4, startRecordOrder, stopRecordOrder, streamerPreparedOrder,
     iceCandidateOrder
     DEF ClientActs, Client!ClientOwnStep, Client!ClientWriteable, Client!ClientConnectionLost

LEMMA IdleOrder ==
    ASSUME CallInv, OrderInv, UNCHANGED callVars
    PROVE  OrderInv'
<1>1. /\ UNCHANGED <<streamer, iceCandidates, recordRequested, session, take,
                     offered, hasty, clientLink, toServer, heard, wire, link, applied>>
      /\ CallTypeOK
  BY DEF callVars, clientVars, vars, CallInv
<1>2. \A s : Heard(s) => Heard(s)'
  BY <1>1 DEF Heard
<1>3. OffersNothing
  BY <1>1, SilentOffersNothing
<1> QED
  BY <1>1, <1>2, <1>3, QuietOrder

LEMMA OrderInvKept ==
    ASSUME CallInv, OrderInv, [CallNext]_callVars
    PROVE  OrderInv'
<1>1. CallInv'
  BY CallInvKept
<1>2. CASE ServerReceives
  BY <1>1, <1>2, ReceivedOrder DEF OrderInv
<1>3. CASE ServerOwnStep
  BY <1>1, <1>3, OwnOrder
<1> QED
  BY <1>2, <1>3, HearsOrder, ActsOrder, IdleOrder DEF CallNext

LEMMA OrderInitial ==
    ASSUME CallInit
    PROVE  OrderInv
<1>1. /\ streamer = "none" /\ iceCandidates = <<>> /\ session = NoId
      /\ take = 0 /\ offered = 0 /\ hasty = {}
      /\ applied = [s \in SessionId |-> <<>>]
      /\ toServer = <<[kind |-> "request", head |-> "OPTIONS", cseq |-> 1,
                       session |-> 0, body |-> <<>>]>>
  BY DEF CallInit, Client!ClientInit, Client!SignallingInit, Client!ClientMessage,
         Client!NoSessionId, NoId
<1>2. Len(toServer) = 1 /\ toServer[1].head = "OPTIONS"
  BY <1>1
<1>3. \A s : \A i \in 1..Len(toServer) : ~Offers(i, s)
  BY <1>2 DEF Offers
<1>4. /\ \A s \in SessionId : Len(applied[s]) = 0 /\ applied[s] = <<>>
      /\ applied \in [SessionId -> Seq(Candidate)]
  BY <1>1
<1>5. 0 \in 0..MaxTakes /\ 0 \in 0..MaxOffers
  BY CallBoundsAssumption
<1>6. AppliedInv
  <2>1. \A s \in SessionId : Adds(applied[s], 0, 0, 0)
    BY <1>4, AddsNothing
  <2> QED
    BY <1>4, <1>5, <2>1 DEF AppliedInv
<1>7. OffersInv
  BY <1>3 DEF OffersInv
<1>8. WaitingInv
  <2>1. Len(iceCandidates) = 0
    BY <1>1
  <2> QED
    BY <1>1, <2>1 DEF WaitingInv
<1>9. TakesInv
  BY <1>1, <1>4, <1>5, <1>6, <1>7 DEF TakesInv, AppliedInv, OffersInv
<1> QED
  BY <1>6, <1>7, <1>8, <1>9 DEF OrderInv

\* In other words.
LEMMA OrderMeans ==
    ASSUME OrderInv
    PROVE  CallOrderInv
<1>1. ASSUME NEW s \in SessionId
      PROVE  /\ \E t \in 0..MaxTakes, n \in 0..MaxOffers : Adds(applied[s], t, 0, n)
             /\ link # "closed" =>
                    \A i \in 1..Len(toServer) : Offers(i, s) => InTurn(i, s)
             /\ Connected /\ s = session => SentTo(s, Len(toServer), take, offered)
  <2>1. \E t \in 0..MaxTakes, n \in 0..MaxOffers : Adds(applied[s], t, 0, n)
    BY DEF OrderInv, AppliedInv
  <2>2. link # "closed" => \A i \in 1..Len(toServer) : Offers(i, s) => InTurn(i, s)
    BY DEF OrderInv, OffersInv
  <2>3. ASSUME Connected, s = session
        PROVE  SentTo(s, Len(toServer), take, offered)
    <3>1. session # NoId
      BY <2>3 DEF NoId, SessionId
    <3> QED
      BY <2>3, <3>1 DEF OrderInv, WaitingInv, Connected
  <2> QED
    BY <2>1, <2>2, <2>3
<1>2. CandidatesReachTheirSession
  BY <1>1 DEF CandidatesReachTheirSession
<1> QED
  BY <1>2 DEF CallOrderInv, OrderInv

-----------------------------------------------------------------------------
(* The theorems.                                                           *)

\* The invariant of the two ends and the two channels between them, whatever
\* either of them does and whenever the connection breaks.
THEOREM CallInvariant == CallSpec => []CallInv
<1>1. CallInit => CallInv
  BY CallInitial
<1>2. CallInv /\ [CallNext]_callVars => CallInv'
  BY CallInvKept
<1> QED
  BY <1>1, <1>2, PTL DEF CallSpec

\* The server counts the requests (Session::handleRequest) as the client has
\* numbered them (Session::createRequest): an answer carries the CSeq of the
\* request it is the answer to, however many are on their way.
THEOREM AlwaysInStep == CallSpec => []RequestsInStep
<1>1. CallInv => RequestsInStep
  BY InStep
<1> QED
  BY <1>1, CallInvariant, PTL

\* The session id the client keeps (ClientRecordSession::onRecordResponse) is
\* that of a prepared session in the server's mediaSessions, or the message
\* that ends it is on its way.
THEOREM AlwaysAgreed == CallSpec => []SessionAgreed
<1>1. CallInv => SessionAgreed
  BY DEF CallInv
<1> QED
  BY <1>1, CallInvariant, PTL

\* No entry of the server's mediaSessions is forgotten by the client that made
\* it, whenever it stopped recording (ClientRecordSession::stopRecord).
THEOREM NeverOrphaned == CallSpec => []NoOrphan
<1>1. CallInv => NoOrphan
  BY DEF CallInv, OrphanInv, NoOrphan
<1> QED
  BY <1>1, CallInvariant, PTL

\* A handler of the server fails, and the connection with it, on a refused
\* RECORD and on a request that crosses the end of its session, on nothing else.
THEOREM ServerDropsOnlyOnCrossing == CallSpec => ServerDropsOnCrossing
<1>1. CallInv =>
          [ServerReceives /\ link = "open" /\ link' = "closed" =>
              LET m == Head(toServer) IN
              /\ m.kind = "request"
              /\ m.head = "RECORD" \/ Ended(m.session) # {}]_callVars
  BY ServerDrops
<1> QED
  BY <1>1, CallInvariant, PTL DEF ServerDropsOnCrossing

\* A handler of the client fails on the server's TEARDOWN or 502, on an answer
\* to OPTIONS that will not do, and on a message of a session it has torn down
\* and whose end it has not heard yet, on nothing else.
THEOREM ClientDropsOnlyOnCrossing == CallSpec => ClientDropsOnCrossing
<1>1. CallInv =>
          [ClientHears /\ clientLink = "open" /\ clientLink' = "closed" =>
              LET m == wire[heard + 1] IN
              \/ m.head \in {"TEARDOWN", "BAD_GATEWAY"}
              \/ m.kind = "response" /\ m.cseq = 1
              \/ \E r \in pending : r.head = "TEARDOWN" /\ r.session = m.session]_callVars
  BY ClientDrops
<1> QED
  BY <1>1, CallInvariant, PTL DEF ClientDropsOnCrossing

\* The takes, the candidates that wait for a session, and those on their way.
THEOREM CallOrderInvariant == CallSpec => []CallOrderInv
<1>1. CallInit => OrderInv
  BY OrderInitial
<1>2. CallInv /\ OrderInv /\ [CallNext]_callVars => OrderInv'
  BY OrderInvKept
<1>3. CallSpec => []OrderInv
  BY <1>1, <1>2, CallInvariant, PTL DEF CallSpec
<1>4. OrderInv => CallOrderInv
  BY OrderMeans
<1> QED
  BY <1>3, <1>4, PTL

\* The candidates a client gathers before and after it knows its session
\* (ClientRecordSession::iceCandidate, onRecordResponse) come to the peer of the
\* session of their own recording, each once and in order.
THEOREM CandidatesAlwaysReach == CallSpec => []CandidatesReachTheirSession
<1>1. CallOrderInv => CandidatesReachTheirSession
  BY DEF CallOrderInv
<1> QED
  BY <1>1, CallOrderInvariant, PTL
=============================================================================
