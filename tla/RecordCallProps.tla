--------------------------- MODULE RecordCallProps ---------------------------
(***************************************************************************)
(* What the two ends of a recording have to agree on, whatever is in       *)
(* flight between them.                                                    *)
(***************************************************************************)
EXTENDS RecordCall, ServerSessionProps

-----------------------------------------------------------------------------
(* Safety.                                                                 *)

Connected == link = "open" /\ clientLink = "open"

\* A message of the client's that waits for the server.
Asked(i) == toServer[i].kind = "request"

Told(i) == toServer[i].kind = "response"

\* What ServerSession takes for granted: the requests arrive in the order of
\* their CSeqs, so the next one carries the CSeq the server will answer.
RequestsInStep ==
    link # "closed" =>
        \A i \in 1..Len(toServer) : Asked(i) =>
            toServer[i].cseq = Len(inbox) + Cardinality({j \in 1..i : Asked(j)})

\* While both ends are up the session the client records into is the
\* server's, unless the server has ended it and the news is on its way.
SessionAgreed ==
    Connected /\ session # Client!NoSessionId =>
        \/ Live(session) /\ mediaSessions[session].prepared
        \/ \E i \in Ended(session) : i > heard

\* No session of the server is forgotten: while both ends are up the client
\* records into it, waits for it, or has its TEARDOWN on the way.
NoOrphan ==
    Connected => \A s \in SessionId : Live(s) =>
        \/ s = session
        \/ \E r \in pending : r.head = "RECORD"
        \/ \E i \in 1..Len(toServer) :
               toServer[i].head = "TEARDOWN" /\ toServer[i].session = s

\* Two honest ends never see a protocol error but for a refused RECORD or a
\* message that crosses the end of its session: the server's side ...
ServerDropsOnCrossing ==
    [][ServerReceives /\ link = "open" /\ link' = "closed" =>
          LET m == Head(toServer) IN
          /\ m.kind = "request"
          /\ m.head = "RECORD" \/ Ended(m.session) # {}]_callVars

\* ... and the client's, which also takes the server's TEARDOWN for one.
ClientDropsOnCrossing ==
    [][ClientHears /\ clientLink = "open" /\ clientLink' = "closed" =>
          LET m == wire[heard + 1] IN
          \/ m.head \in {"TEARDOWN", "BAD_GATEWAY"}
          \/ m.kind = "response" /\ m.cseq = 1
          \/ \E r \in pending : r.head = "TEARDOWN" /\ r.session = m.session]_callVars

\* A RECORD does not stay unanswered while its connection lasts.
RecordSettles ==
    (\E r \in pending : r.head = "RECORD") ~> (\A r \in pending : r.head # "RECORD")

-----------------------------------------------------------------------------
(* The inductive invariant behind the safety properties.                   *)

Candidate == Nat \X Nat

ClientHeads == {"OPTIONS", "RECORD", "SETUP", "TEARDOWN"}

ClientsRequest == [kind : {"request"}, head : ClientHeads, cseq : Nat,
                   session : Nat, body : Seq(Candidate)]

ClientsResponse == [kind : {"response"}, head : {"OK"}, cseq : Nat,
                    session : Nat, body : Seq(Candidate)]

\* The client's side and the channels; the server's side is TypeOK.
CallTypeOK ==
    /\ streamer \in {"none", "preparing", "prepared"}
    /\ iceCandidates \in Seq(Candidate)
    /\ recordRequested \in BOOLEAN
    /\ session \in Nat
    /\ take \in Nat
    /\ offered \in Nat
    /\ pending \subseteq ClientsRequest
    /\ cseq \in Nat \ {0}
    /\ clientLink \in {"open", "terminating", "closed", "crashed"}
    /\ toServer \in Seq(ClientsRequest \cup ClientsResponse)
    /\ heard \in 0..Len(wire)

Heard(s) == \E j \in 1..heard : wire[j].session = s

HeardAnswer(c) == \E j \in 1..heard : IsResponse(j) /\ wire[j].cseq = c

HeardEnd(s) == \E j \in 1..heard : Ends(j, s)

\* What the server has written: nothing but answers, candidates and ends, and
\* the OK or the 502 to a RECORD is the first message that names its session.
WireInv ==
    /\ \A i \in 1..Len(wire) : IsRequest(i) =>
           wire[i].head \in {"SETUP", "TEARDOWN"} /\ wire[i].cseq \in 1..(nextCSeq - 1)
    /\ \A i, j \in 1..Len(wire) :
           i < j /\ IsRequest(i) /\ IsRequest(j) => wire[i].cseq < wire[j].cseq
    /\ \A c \in 1..Len(inbox) : inbox[c].method \in ClientHeads
    /\ \A i \in 1..Len(wire) : IsResponse(i) =>
           /\ wire[i].cseq \in 1..Len(inbox)
           /\ IF inbox[wire[i].cseq].method = "RECORD"
              THEN /\ wire[i].head \in {"OK", "BAD_GATEWAY"}
                   /\ wire[i].session # NoId
                   /\ \A j \in 1..(i - 1) : wire[j].session # wire[i].session
              ELSE /\ wire[i].head = "OK"
                   /\ wire[i].session = inbox[wire[i].cseq].session
    /\ link = "open" => \A s \in SessionId :
           Announced(s) => Live(s) \/ Ended(s) # {}

\* The session that a RECORD created, and no other, is named by the answer.
RecordedInv ==
    /\ \A s \in SessionId : Live(s) =>
           /\ mediaSessions[s].type = "Record"
           /\ mediaSessions[s].cseq \in 1..Len(inbox)
           /\ inbox[mediaSessions[s].cseq].method = "RECORD"
           /\ \A i \in 1..Len(wire) :
                  IsResponse(i) /\ wire[i].cseq = mediaSessions[s].cseq
                      => wire[i].session = s
    /\ \A s, t \in SessionId :
           Live(s) /\ Live(t) /\ mediaSessions[s].cseq = mediaSessions[t].cseq => s = t

\* The requests under way are those between the last one accepted and the
\* next one to be made, in order, and name sessions the client has heard of.
ChannelInv ==
    /\ Len(inbox) < cseq
    /\ \A i \in 1..Len(toServer) : Asked(i) =>
           /\ toServer[i].cseq \in (Len(inbox) + 1)..(cseq - 1)
           /\ toServer[i].head \in {"SETUP", "TEARDOWN"} =>
                  toServer[i].session # NoId /\ Heard(toServer[i].session)
    /\ \A i, j \in 1..Len(toServer) :
           i < j /\ Asked(i) /\ Asked(j) => toServer[i].cseq < toServer[j].cseq
    /\ link # "closed" => \A c \in (Len(inbox) + 1)..(cseq - 1) :
           \/ \E i \in 1..Len(toServer) : Asked(i) /\ toServer[i].cseq = c
           \/ /\ clientLink # "open"
              /\ \A i \in 1..Len(toServer) : Asked(i) => toServer[i].cseq < c

\* What the server asked and the client has not read, or has answered, the
\* server still waits for; no answer is sent twice.
OutstandingInv ==
    /\ \A r \in sentRequests : r.head \in {"SETUP", "TEARDOWN"} /\ r.cseq < nextCSeq
    /\ link = "open" =>
           /\ \A i \in (heard + 1)..Len(wire) : IsRequest(i) =>
                  /\ wire[i] \in sentRequests
                  /\ \A j \in 1..Len(toServer) : Told(j) => toServer[j].cseq # wire[i].cseq
           /\ \A j \in 1..Len(toServer) : Told(j) =>
                  \E r \in sentRequests : r.cseq = toServer[j].cseq
           /\ \A j, k \in 1..Len(toServer) :
                  Told(j) /\ Told(k) /\ toServer[j].cseq = toServer[k].cseq => j = k

\* The client waits for the answers it has not heard, and for no others.
PendingInv ==
    clientLink = "open" =>
        /\ \A r \in pending : r.cseq \in 1..(cseq - 1) /\ ~HeardAnswer(r.cseq)
        /\ \A r, q \in pending : r.cseq = q.cseq => r = q
        /\ \A c \in 1..(cseq - 1) : HeardAnswer(c) \/ \E r \in pending : r.cseq = c
        /\ \A i \in 1..Len(toServer) : Asked(i) => toServer[i] \in pending
        /\ \A r \in pending : r.cseq <= Len(inbox) =>
               inbox[r.cseq].method = r.head /\ inbox[r.cseq].session = r.session
        /\ \A r \in pending :
               IF r.head \in {"OPTIONS", "RECORD"} THEN r.session = NoId
               ELSE r.session # NoId /\ Heard(r.session)
        /\ \A r \in pending : r.head = "OPTIONS" => r.cseq = 1

\* One RECORD at a time, and of the sessions it has heard of the client keeps
\* one and tears the others down.
RecorderInv ==
    clientLink = "open" =>
        /\ recordRequested => streamer = "prepared"
        /\ session # NoId => recordRequested /\ Heard(session)
        /\ \A r \in pending : r.head = "RECORD" => recordRequested /\ session = NoId
        /\ \A r, q \in pending : r.head = "RECORD" /\ q.head = "RECORD" => r = q
        /\ \A r \in pending : r.head = "TEARDOWN" => r.session # session
        /\ \A j \in 1..heard :
               LET s == wire[j].session IN
               \/ s \in {NoId, session}
               \/ \E r \in pending : r.head = "TEARDOWN" /\ r.session = s
               \/ HeardEnd(s)

\* NoOrphan, with the RECORD that created the session.
OrphanInv ==
    Connected => \A s \in SessionId : Live(s) =>
        \/ s = session
        \/ \E r \in pending : r.head = "RECORD" /\ r.cseq = mediaSessions[s].cseq
        \/ \E i \in 1..Len(toServer) :
               toServer[i].head = "TEARDOWN" /\ toServer[i].session = s

\* What ServerSession guarantees every client, and the two of them together.
ServerInv == TypeOK /\ AnswerInv /\ AnnounceInv /\ SilenceInv

CallInv ==
    /\ ServerInv
    /\ CallTypeOK /\ WireInv /\ RecordedInv /\ ChannelInv /\ OutstandingInv
    /\ PendingInv /\ RecorderInv /\ OrphanInv /\ SessionAgreed

-----------------------------------------------------------------------------
(* Candidates.                                                             *)

Offers(i, s) ==
    Asked(i) /\ toServer[i].head = "SETUP" /\ toServer[i].session = s

\* After the m-th candidate of take t come those up to the n-th, with none
\* missing.  Before the first, candidates of hasty takes may be left over.
Adds(body, t, m, n) ==
    \E k \in 0..Len(body) :
        /\ n = m + (Len(body) - k)
        /\ k # 0 => m = 0
        /\ n # m => t \notin hasty
        /\ \A i \in 1..k : body[i][1] \in hasty
        /\ \A i \in (k + 1)..Len(body) : body[i] = <<t, m + (i - k)>>

\* The last candidate of body is the n-th of take t, or of a hasty take.
EndsAt(body, t, n) ==
    IF body[Len(body)][1] \in hasty THEN n = 0 ELSE body[Len(body)] = <<t, n>>

\* With the first h messages in flight the server has the candidates of take
\* t up to the n-th, for session s.
SentTo(s, h, t, n) ==
    \/ Adds(applied[s], t, 0, n) /\ \A i \in 1..h : ~Offers(i, s)
    \/ \E j \in 1..h : /\ Offers(j, s)
                       /\ EndsAt(toServer[j].body, t, n)
                       /\ \A i \in (j + 1)..h : ~Offers(i, s)

\* Message i goes on where those before it leave off.
InTurn(i, s) ==
    LET body == toServer[i].body IN
    /\ body # <<>>
    /\ \E t \in 0..MaxTakes, m, n \in 0..MaxOffers :
           SentTo(s, i - 1, t, m) /\ Adds(body, t, m, n)

\* The candidates of each recording reach the peer of its own session, each
\* once, in order and with none missing, across the switch from waiting to
\* sending that onRecordResponse makes (ClientRecordSession.cpp 151).  Left
\* out are those of a recording stopped before it asked to RECORD: nothing
\* clears them, and the next one sends them as its own.
CandidatesReachTheirSession ==
    \A s \in SessionId :
        /\ \E t \in 0..MaxTakes, n \in 0..MaxOffers : Adds(applied[s], t, 0, n)
        /\ link # "closed" =>
               \A i \in 1..Len(toServer) : Offers(i, s) => InTurn(i, s)
        /\ Connected /\ s = session => SentTo(s, Len(toServer), take, offered)

\* Take t is hasty, or it will not be.
Decided(t) ==
    \/ t \in hasty
    \/ t \in 0..take /\ (clientLink = "open" /\ streamer # "none" /\ t = take
                             => recordRequested)

TakesInv ==
    /\ take \in 0..MaxTakes /\ offered \in 0..MaxOffers
    /\ applied \in [SessionId -> Seq(Candidate)]
    /\ hasty \subseteq 0..take
    /\ streamer # "none" => take \notin hasty
    /\ \A s \in SessionId :
           /\ applied[s] # <<>> => Heard(s)
           /\ \A k \in 1..Len(applied[s]) : Decided(applied[s][k][1])
    /\ \A s \in SessionId : \A i \in 1..Len(toServer) : Offers(i, s) =>
           \A k \in 1..Len(toServer[i].body) : Decided(toServer[i].body[k][1])

\* The candidates that wait for the session, and those that did not have to.
WaitingInv ==
    clientLink = "open" =>
        /\ session = NoId =>
               IF streamer = "none"
               THEN \A k \in 1..Len(iceCandidates) : iceCandidates[k][1] \in hasty
               ELSE Adds(iceCandidates, take, 0, offered)
        /\ session # NoId =>
               /\ iceCandidates = <<>>
               /\ session \in SessionId /\ link # "closed" =>
                      SentTo(session, Len(toServer), take, offered)

CallOrderInv == TakesInv /\ WaitingInv /\ CandidatesReachTheirSession
=============================================================================
