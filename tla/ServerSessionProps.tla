------------------------- MODULE ServerSessionProps -------------------------
(***************************************************************************)
(* What ServerSession has to guarantee, read off the messages it hands to  *)
(* the transport.                                                          *)
(***************************************************************************)
EXTENDS ServerSession

\* The record of every variable, the shape of every message.
TypeOK ==
    /\ mediaSessions \in [SessionId -> MediaSession]
    /\ nextSessionId \in 1..(MaxSessions + 1)
    /\ sentRequests \subseteq Message
    /\ nextCSeq \in Nat \ {0}
    /\ link \in {"open", "terminating", "closed"}
    /\ wire \in Seq(Message)
    /\ inbox \in Seq(ClientRequest)
    /\ gathered \in [SessionId -> Nat]

-----------------------------------------------------------------------------
(* Reading the wire.                                                       *)

IsResponse(i) == wire[i].kind = "response"

IsRequest(i) == wire[i].kind = "request"

Answers(c) == {i \in 1..Len(wire) : IsResponse(i) /\ wire[i].cseq = c}

\* The message that tells the client of session s: the OK to its DESCRIBE or
\* RECORD, or the RECORD request that starts a subscription.
IsAnnouncement(m, s, requests) ==
    /\ m.session = s
    /\ \/ m.kind = "request" /\ m.head = "RECORD"
       \/ /\ m.kind = "response" /\ m.head = "OK"
          /\ m.cseq \in 1..Len(requests)
          /\ requests[m.cseq].method \in {"DESCRIBE", "RECORD"}

Announces(i, s) == IsAnnouncement(wire[i], s, inbox)

\* The message after which the client must not hear of session s again.
Ends(i, s) ==
    /\ wire[i].session = s
    /\ \/ IsRequest(i) /\ wire[i].head = "TEARDOWN"
       \/ IsResponse(i) /\ wire[i].head = "BAD_GATEWAY"
       \/ /\ IsResponse(i) /\ wire[i].head = "OK"
          /\ wire[i].cseq \in 1..Len(inbox)
          /\ inbox[wire[i].cseq].method = "TEARDOWN"

\* Where the client is told that session s is over.
Ended(s) == {i \in 1..Len(wire) : Ends(i, s)}

-----------------------------------------------------------------------------
(* Safety.                                                                 *)

\* A request of the client is answered at most once, whichever of prepared,
\* eos and TEARDOWN comes first (streamerPrepared 145, eos 259,
\* onTeardownRequest 621).  CSeq 0 is left out: it is no request's.
AnsweredAtMostOnce ==
    \A i, j \in 1..Len(wire) :
        /\ IsResponse(i)
        /\ IsResponse(j)
        /\ wire[i].cseq = wire[j].cseq
        /\ wire[i].cseq # InvalidCSeq
        => i = j

\* Every response carries the CSeq of a request the client sent.
ResponsesAnswerRequests ==
    \A i \in 1..Len(wire) : IsResponse(i) => wire[i].cseq \in 1..Len(inbox)

\* The server starts talking about a media session (SETUP, TEARDOWN) only
\* after the message that made it known, so early candidates have to wait
\* in iceCandidates and an early eos is a 502 (iceCandidate 228, eos 253).
AnnouncedFirst ==
    \A i \in 1..Len(wire) :
        IsRequest(i) /\ wire[i].head # "RECORD"
            => \E j \in 1..(i - 1) : Announces(j, wire[i].session)

\* Once a session ended on the wire, by either side, no later message names
\* it: late callbacks and requests find no entry in mediaSessions.
SilentAfterEnd ==
    \A i, j \in 1..Len(wire) :
        i < j /\ Ends(i, wire[i].session) => wire[j].session # wire[i].session

\* A SETUP is answered OK only when each of its lines reached the peer: a
\* batch that fails half-way costs the connection, never the batch's tail.
SetupAppliedWhole ==
    \A s \in SessionId :
        LET applied == {c \in 1..Len(inbox) :
                           /\ inbox[c].method = "SETUP"
                           /\ inbox[c].session = s
                           /\ \E i \in Answers(c) : wire[i].head = "OK"}
        IN  /\ \A c \in applied : ~inbox[c].body.malformed
            /\ Live(s) /\ link = "open" =>
                   /\ (mediaSessions[s].remote = 0)
                          <=> (\A c \in applied : inbox[c].body.lines = 0)
                   /\ \A c \in applied : inbox[c].body.lines <= mediaSessions[s].remote

\* While a session is not prepared nothing of it is on the wire, and a
\* prepared one has no candidate left behind (sendIceCandidates 117).
QueueOnlyUntilPrepared ==
    \A s \in SessionId :
        Live(s) /\ link = "open" =>
            IF mediaSessions[s].prepared
            THEN mediaSessions[s].queue = <<>> /\ Announced(s)
            ELSE ~Announced(s)

-----------------------------------------------------------------------------
(* Candidates.                                                             *)

\* A request that carries candidates of session s.
Carries(m, s) == m.kind = "request" /\ m.head = "SETUP" /\ m.session = s

Brings(i, s) == Carries(wire[i], s)

\* The candidates after the n-th, with none missing.
Consecutive(body, n) == \A k \in 1..Len(body) : body[k] = n + k

\* The first h messages bring the candidates of session s up to the n-th.
UpTo(s, h, n) ==
    \/ n = 0 /\ \A i \in 1..h : ~Brings(i, s)
    \/ \E j \in 1..h : /\ Brings(j, s)
                       /\ wire[j].body[Len(wire[j].body)] = n
                       /\ \A i \in (j + 1)..h : ~Brings(i, s)

\* What the first h messages leave to bring begins with body.
Follows(body, s, h) ==
    body # <<>> => UpTo(s, h, body[1] - 1) /\ Consecutive(body, body[1] - 1)

\* Every candidate the peer gathered has been relayed or waits in the queue,
\* once and in order, across the switch from queueing (iceCandidate 235) to
\* relaying (229) that sendIceCandidates makes.
CandidatesInOrder ==
    \A s \in SessionId :
        /\ \A i \in 1..Len(wire) : Brings(i, s) => Follows(wire[i].body, s, i - 1)
        /\ Live(s) => Follows(mediaSessions[s].queue, s, Len(wire))
        /\ Live(s) /\ link = "open" =>
               UpTo(s, Len(wire), gathered[s] - Len(mediaSessions[s].queue))

-----------------------------------------------------------------------------
(* The inductive invariant behind AnsweredAtMostOnce and AnnouncedFirst.   *)

Unanswered(c) == \A i \in 1..Len(wire) : IsResponse(i) => wire[i].cseq # c

\* Session s was created by a request that still waits for its answer.
Owes(s) ==
    /\ Live(s)
    /\ mediaSessions[s].type # "Subscribe"
    /\ ~mediaSessions[s].prepared

OwedRequest(s) ==
    LET c == mediaSessions[s].cseq IN
    /\ c \in 1..Len(inbox)
    /\ inbox[c].method \in {"DESCRIBE", "RECORD"}
    /\ Unanswered(c)

\* What is owed is unanswered, two sessions owe different answers, and no
\* answer is ahead of the requests.
AnswerInv ==
    /\ \A s \in SessionId : Owes(s) => OwedRequest(s)
    /\ \A s, t \in SessionId :
           Owes(s) /\ Owes(t) /\ mediaSessions[s].cseq = mediaSessions[t].cseq => s = t
    /\ \A s \in SessionId :
           mediaSessions[s].type = "Subscribe" => mediaSessions[s].cseq = InvalidCSeq
    /\ \A i \in 1..Len(wire) : IsResponse(i) => wire[i].cseq <= Len(inbox)
    /\ AnsweredAtMostOnce

\* A prepared session has been announced, unless the connection is ending.
AnnounceInv ==
    /\ \A s \in SessionId :
           Live(s) /\ mediaSessions[s].prepared /\ link = "open"
               => \E j \in 1..Len(wire) : Announces(j, s)
    /\ AnnouncedFirst

-----------------------------------------------------------------------------
(* The inductive invariant behind SilentAfterEnd, QueueOnlyUntilPrepared   *)
(* and SetupAppliedWhole.                                                  *)

\* Ids go up: whatever has one came before nextSessionId.
IdsInv ==
    /\ \A s \in SessionId : Live(s) => s < nextSessionId
    /\ \A i \in 1..Len(wire) : wire[i].session < nextSessionId
    /\ \A c \in 1..Len(inbox) : inbox[c].session < nextSessionId

\* A session that ended on the wire is no longer there.
EndInv ==
    \A i \in 1..Len(wire) :
        Ends(i, wire[i].session) =>
            wire[i].session \in SessionId /\ ~Live(wire[i].session)

\* Only the kinds of session this server offers are there.
OfferInv == \A s \in SessionId : Live(s) => mediaSessions[s].type \in MediaTypes

SilenceInv ==
    /\ IdsInv /\ EndInv /\ OfferInv
    /\ SilentAfterEnd /\ QueueOnlyUntilPrepared /\ SetupAppliedWhole

-----------------------------------------------------------------------------
(* The inductive invariant behind CandidatesInOrder.                       *)

RelayedInOrder ==
    \A s \in SessionId : \A i \in 1..Len(wire) :
        Brings(i, s) => wire[i].body # <<>> /\ Follows(wire[i].body, s, i - 1)

\* A session that is not prepared has relayed nothing, and one that is has
\* nothing to relay; a peer without SDP leaves a queue behind, and the
\* connection ends over that.
Queued(s) ==
    LET m == mediaSessions[s] IN
    /\ Consecutive(m.queue, 0)
    /\ m.queue # <<>> \/ ~m.prepared => \A i \in 1..Len(wire) : ~Brings(i, s)
    /\ ~m.prepared => gathered[s] = Len(m.queue)
    /\ m.prepared /\ link = "open" => m.queue = <<>> /\ UpTo(s, Len(wire), gathered[s])

CandidateInv ==
    /\ RelayedInOrder
    /\ \A s \in SessionId : Live(s) => Queued(s)
    /\ \A s \in SessionId : nextSessionId <= s => gathered[s] = 0

\* No peer gathers more than its bound.
GatheredInv == \A s \in SessionId : gathered[s] <= MaxCandidates

-----------------------------------------------------------------------------
(* The dialog: what of the wire MediaDialog speaks of.                     *)

\* The candidates of session s that have left, in the order they left.
Relayed(s) ==
    LET upTo[h \in 0..Len(wire)] ==
            IF h = 0 THEN <<>>
            ELSE IF Brings(h, s) THEN upTo[h - 1] \o wire[h].body
            ELSE upTo[h - 1]
    IN  upTo[Len(wire)]

\* What the client has been told of session s.
Phase(s) ==
    IF \E i \in 1..Len(wire) : Ends(i, s) THEN "ended"
    ELSE IF \E i \in 1..Len(wire) : Announces(i, s) THEN "announced"
    ELSE "unknown"

AnswerCounts == [c \in 1..MaxRequests |-> Cardinality(Answers(c))]

Phases == [s \in SessionId |-> Phase(s)]

Candidates == [s \in SessionId |-> Relayed(s)]

Dialog == INSTANCE MediaDialog WITH
    answers <- AnswerCounts, phase <- Phases, relayed <- Candidates

\* ServerSession implements MediaDialog: each handler is one promised step.
ImplementsMediaDialog == Dialog!DialogSpec

-----------------------------------------------------------------------------
(* Liveness, under the fairness of the transport below (WsServer).         *)

\* A DESCRIBE is answered, or the connection ends: the session it created
\* waits for a peer that settles (onDescribeRequest 427).  Of a RECORD the
\* module RecordCallProps says so, as its client sees it (RecordSettles).
InitialRequestsSettle ==
    \A c \in 1..MaxRequests :
        (c <= Len(inbox) /\ inbox[c].method = "DESCRIBE")
            ~> (Answers(c) # {} \/ link = "closed")
=============================================================================
