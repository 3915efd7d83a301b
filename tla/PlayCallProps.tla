---------------------------- MODULE PlayCallProps ----------------------------
(***************************************************************************)
(* What the two ends of a playback have to agree on, whatever is in flight *)
(* between them.                                                           *)
(***************************************************************************)
EXTENDS PlayCall, ServerSessionProps

-----------------------------------------------------------------------------
Connected == link = "open" /\ clientLink = "open"

Together == Connected /\ session # Client!NoSessionId

\* The client's session is the server's, or the server has ended it and said
\* so, and the client, who will close the connection over that
\* (onTeardownRequest is left to the default), has not read it yet.
PlaySessionAgreed ==
    Together /\ ~Live(session) => \E i \in Ended(session) : i > heard

\* The candidates of either side reach the other's peer in order, each once;
\* the receiver is given none before prepare() (ClientSession.cpp 347, 205, 291),
\* although SETUPs and the RECORD or the OK to DESCRIBE come from two
\* different callbacks on the server.
CandidatesInStep ==
    /\ given = [i \in 1..Len(given) |-> i]
    /\ given # <<>> => receiver # "created"
    /\ \A s \in SessionId :
           /\ applied[s] = [i \in 1..Len(applied[s]) |-> i]
           /\ applied[s] # <<>> => Live(s) \/ Ended(s) # {} \/ link # "open"

\* Neither end plays alone: the receiver of a described stream plays once
\* the server does (ClientSession.cpp 248), the server of a subscription
\* once the receiver does (ServerSession.cpp 693).
NoOnePlaysAlone ==
    Together /\ Live(session) =>
        /\ mediaSessions[session].type = "Describe" /\ playing
               => mediaSessions[session].playing
        /\ mediaSessions[session].type = "Subscribe" /\ mediaSessions[session].playing
               => playing

\* A client that asks for a stream gets to play it, or its connection ends.
PlaybackStarts ==
    (\E r \in pending : r.head \in {"DESCRIBE", "SUBSCRIBE"})
        ~> (playing \/ clientLink = "closed")

-----------------------------------------------------------------------------
(* The inductive invariant behind the safety properties.                   *)

ClientHeads == {"OPTIONS", "DESCRIBE", "SUBSCRIBE", "SETUP", "PLAY"}

ClientsRequest == [kind : {"request"}, head : ClientHeads, cseq : Nat,
                   session : Nat, body : Seq(Nat)]

ClientsResponse == [kind : {"response"}, head : {"OK"}, cseq : Nat,
                    session : Nat, body : Seq(Nat)]

\* The client's side and the channels; the server's side is TypeOK.
PlayTypeOK ==
    /\ receiver \in {"none", "created", "preparing", "prepared"}
    /\ playing \in BOOLEAN
    /\ session \in Nat
    /\ recordRequestCSeq \in Nat
    /\ offered \in Nat
    /\ given \in Seq(Nat)
    /\ pending \subseteq ClientsRequest
    /\ cseq \in Nat \ {0}
    /\ clientLink \in {"open", "terminating", "closed"}
    /\ toServer \in Seq(ClientsRequest \cup ClientsResponse)
    /\ heard \in 0..Len(wire)
    /\ applied \in [SessionId -> Seq(Nat)]

Asked(i) == toServer[i].kind = "request"

Told(i) == toServer[i].kind = "response"

Heard(s) == \E j \in 1..heard : wire[j].session = s

\* The i-th message of the server's asks the client to record.
Records(i) == IsRequest(i) /\ wire[i].head = "RECORD"

\* What the server has written: requests with rising CSeqs that name sessions,
\* a RECORD only those of a subscription.  The answer to OPTIONS names none,
\* and who has been told that its PLAY succeeded has a playing session.
WireInv ==
    /\ \A i \in 1..Len(wire) : IsRequest(i) =>
           /\ wire[i].head \in {"RECORD", "SETUP", "TEARDOWN"}
           /\ wire[i].session # NoId
           /\ wire[i].cseq \in 1..(nextCSeq - 1)
    /\ \A i, j \in 1..Len(wire) :
           i < j /\ IsRequest(i) /\ IsRequest(j) => wire[i].cseq < wire[j].cseq
    /\ \A c \in 1..Len(inbox) : inbox[c].method \in ClientHeads
    /\ \A i \in 1..Len(wire) : Records(i) /\ Live(wire[i].session) =>
           mediaSessions[wire[i].session].type = "Subscribe"
    /\ \A i \in 1..Len(wire) : IsResponse(i) /\ wire[i].cseq \in 1..Len(inbox) =>
           /\ inbox[wire[i].cseq].method = "OPTIONS" => wire[i].session = NoId
           /\ inbox[wire[i].cseq].method = "PLAY" /\ Live(wire[i].session) =>
                  mediaSessions[wire[i].session].playing

\* While the connection lasts, whatever has been named is there or has ended,
\* and what the server waits for it has asked.
OpenInv ==
    link = "open" =>
        /\ \A s \in SessionId : Announced(s) => Live(s) \/ Ended(s) # {}
        /\ \A r \in sentRequests : \E i \in 1..Len(wire) : IsRequest(i) /\ wire[i] = r

-----------------------------------------------------------------------------
(* Candidates.                                                             *)

\* The receiver has what the client has read.
GivenInv ==
    /\ Consecutive(given, 0)
    /\ clientLink # "closed" /\ session # NoId => UpTo(session, heard, Len(given))
    /\ given # <<>> => receiver # "created"

Offers(i) == Asked(i) /\ toServer[i].head = "SETUP"

\* The candidate on its way in message i is the n-th.
Offered(i) == toServer[i].body[1]

\* The first k messages in flight bring the server the candidates of session s
\* up to the n-th: they are all of one session.
OfferedTo(s, k, n) ==
    \/ n = Len(applied[s]) /\ \A i \in 1..k : ~Offers(i)
    \/ \E j \in 1..k : /\ Offers(j) /\ Offered(j) = n
                       /\ \A i \in (j + 1)..k : ~Offers(i)

\* Message i goes on where those before it leave off.
InTurn(i) ==
    /\ Len(toServer[i].body) = 1
    /\ OfferedTo(toServer[i].session, i - 1, Offered(i) - 1)

OfferedInv ==
    /\ \A s \in SessionId : /\ Consecutive(applied[s], 0)
                            /\ applied[s] # <<>> => Announced(s)
    /\ link # "closed" =>
           /\ \A i \in 1..Len(toServer) : Offers(i) => InTurn(i)
           /\ \A i, j \in 1..Len(toServer) :
                  Offers(i) /\ Offers(j) => toServer[i].session = toServer[j].session
           /\ clientLink = "open" /\ session = NoId =>
                  /\ offered = 0
                  /\ \A i \in 1..Len(toServer) : ~Offers(i)
                  /\ \A s \in SessionId : applied[s] = <<>>
           /\ clientLink = "open" /\ session # NoId =>
                  /\ OfferedTo(session, Len(toServer), offered)
                  /\ \A i \in 1..Len(toServer) : Offers(i) => toServer[i].session = session

-----------------------------------------------------------------------------
(* The client.                                                             *)

\* The requests under way are those between the last one accepted and the
\* next one to be made, in order, and name sessions the client has heard of.
ChannelInv ==
    /\ Len(inbox) < cseq
    /\ \A i \in 1..Len(toServer) : Asked(i) =>
           /\ toServer[i].cseq \in (Len(inbox) + 1)..(cseq - 1)
           /\ toServer[i].head \in {"SETUP", "PLAY"} =>
                  toServer[i].session # NoId /\ Heard(toServer[i].session)
    /\ \A i, j \in 1..Len(toServer) :
           i < j /\ Asked(i) /\ Asked(j) => toServer[i].cseq < toServer[j].cseq
    /\ link # "closed" => \A c \in (Len(inbox) + 1)..(cseq - 1) :
           \/ \E i \in 1..Len(toServer) : Asked(i) /\ toServer[i].cseq = c
           \/ /\ clientLink # "open"
              /\ \A i \in 1..Len(toServer) : Asked(i) => toServer[i].cseq < c

\* A request the client waits for is the one the server has counted.
PendingInv ==
    clientLink = "open" =>
        /\ \A r \in pending : r.cseq \in 1..(cseq - 1)
        /\ \A r, q \in pending : r.cseq = q.cseq => r = q
        /\ \A i \in 1..Len(toServer) : Asked(i) => toServer[i] \in pending
        /\ \A r \in pending : r.cseq <= Len(inbox) => inbox[r.cseq].method = r.head

\* One thing after the other until there is a session, and then only that one;
\* a receiver that waits has not been told of a stream.
PlayerInv ==
    clientLink # "closed" =>
        /\ session = NoId => receiver = "created"
        /\ receiver = "created" =>
               /\ clientLink = "open" /\ ~playing /\ recordRequestCSeq = InvalidCSeq
               /\ \A r \in pending : r.head \notin {"SETUP", "PLAY"}
        /\ \A r \in pending : r.head \in {"OPTIONS", "DESCRIBE", "SUBSCRIBE"} =>
               session = NoId /\ pending = {r}
        /\ \A j \in 1..heard : wire[j].session \in {NoId, session}
        /\ session # NoId =>
               /\ Heard(session)
               /\ \A j \in 1..heard : Announces(j, session) => receiver # "created"
        /\ recordRequestCSeq # InvalidCSeq => \E j \in 1..heard :
               Records(j) /\ wire[j].cseq = recordRequestCSeq /\ wire[j].session = session

\* The receiver is deleted with its connection.
ReceiverInv == clientLink = "closed" => receiver = "none"

\* Who plays: the answer to a RECORD is sent by a receiver that plays.
AloneInv ==
    /\ \A j \in 1..Len(toServer) : Told(j) => toServer[j].cseq < nextCSeq
    /\ Connected =>
           /\ \A s \in SessionId :
                  Live(s) /\ mediaSessions[s].type = "Subscribe" /\ mediaSessions[s].playing
                      => playing
           /\ \A j \in 1..Len(toServer), i \in 1..Len(wire) :
                  Told(j) /\ Records(i) /\ wire[i].cseq = toServer[j].cseq => playing
           /\ Live(session) /\ mediaSessions[session].type = "Describe" /\ playing
                  => mediaSessions[session].playing

-----------------------------------------------------------------------------
\* What the server guarantees every client, and the two of them together.
ServerInv == TypeOK /\ AnswerInv /\ AnnounceInv /\ IdsInv /\ EndInv /\ SilentAfterEnd

PlayInv ==
    /\ ServerInv
    /\ PlayTypeOK /\ WireInv /\ OpenInv
    /\ ChannelInv /\ PendingInv /\ PlayerInv /\ ReceiverInv
    /\ AloneInv /\ PlaySessionAgreed

\* The candidates of both sides.
PlayOrderInv == CandidateInv /\ GivenInv /\ OfferedInv
=============================================================================
