------------------------------ MODULE CSeqPool ------------------------------
(***************************************************************************)
(* How rtsp::Session (RtspSession/Session.cpp) numbers its requests and    *)
(* finds the request a response answers, over a connection long enough for *)
(* the unsigned _nextCSeq to wrap while old requests are still unanswered. *)
(*                                                                         *)
(* The other end answers in any order, or not for a long time.  A request  *)
(* is known by its serial number; MaxIssued bounds how many are sent.      *)
(***************************************************************************)
EXTENDS Naturals

CONSTANTS
    Modulus,    \* how many values a CSeq (unsigned) has: 2^32 in the build
    MaxIssued   \* bound: requests sent

ASSUME PoolAssumption == Modulus \in Nat \ {0} /\ MaxIssued \in Nat

VARIABLES
    nextCSeq,       \* Session::_nextCSeq
    sentRequests,   \* Session::_sentRequests: from CSeq to the request's serial
    issued,         \* history: how many requests were sent, the last serial
    transit,        \* requests and responses that have not been read yet
    connection      \* "up", "rejected" (the other end closed it) or "failed"

poolVars == <<nextCSeq, sentRequests, issued, transit, connection>>

CSeq == 0..(Modulus - 1)

InvalidCSeq == 0

InUse(c) == c \in DOMAIN sentRequests

Message == [kind : {"request", "response"}, cseq : CSeq, serial : Nat]

-----------------------------------------------------------------------------
Up ==
    /\ connection = "up"
    /\ issued < MaxIssued

Enter(c) ==
    /\ sentRequests' = [d \in DOMAIN sentRequests \cup {c} |->
                           IF d = c THEN issued + 1 ELSE sentRequests[d]]
    /\ transit' = transit \cup {[kind |-> "request", cseq |-> c, serial |-> issued + 1]}
    /\ issued' = issued + 1
    /\ nextCSeq' = (c + 1) % Modulus
    /\ UNCHANGED connection

\* Slip: operator[] instead of emplace.
createRequestOverwriting ==
    /\ Up
    /\ Enter(nextCSeq)

\* Slip: the counter's last value instead of its next.
createRequestLastCSeq ==
    /\ Up
    /\ nextCSeq # 0
    /\ Enter(nextCSeq - 1)

\* createRequest and attachRequest: the first number from _nextCSeq on that
\* no unanswered request has.  With all of them in use the loop has no end.
createRequest ==
    /\ Up
    /\ \E skipped \in 0..(Modulus - 1) :
          LET c(n) == (nextCSeq + n) % Modulus IN
          /\ ~InUse(c(skipped))
          /\ \A n \in 0..(skipped - 1) : InUse(c(n))
          /\ Enter(c(skipped))

\* The other end parses the request and sooner or later answers it; a CSeq
\* of zero does not parse, and costs the connection.
Answer(m) ==
    /\ connection = "up"
    /\ m.kind = "request"
    /\ IF m.cseq = InvalidCSeq
       THEN /\ connection' = "rejected"
            /\ transit' = {}
            /\ sentRequests' = <<>>
       ELSE /\ transit' = (transit \ {m}) \cup {[m EXCEPT !.kind = "response"]}
            /\ UNCHANGED <<connection, sentRequests>>
    /\ UNCHANGED <<nextCSeq, issued>>

handleResponse(m) ==
    /\ connection = "up"
    /\ m.kind = "response"
    /\ transit' = transit \ {m}
    /\ IF InUse(m.cseq)
       THEN /\ sentRequests' = [c \in DOMAIN sentRequests \ {m.cseq} |-> sentRequests[c]]
            /\ UNCHANGED connection
       ELSE /\ connection' = "failed"
            /\ UNCHANGED sentRequests
    /\ UNCHANGED <<nextCSeq, issued>>

-----------------------------------------------------------------------------
PoolInit ==
    /\ nextCSeq = 1 % Modulus
    /\ sentRequests = <<>>
    /\ issued = 0
    /\ transit = {}
    /\ connection = "up"

PoolNext ==
    \/ createRequest
    \/ \E m \in transit : Answer(m) \/ handleResponse(m)

PoolSpec == PoolInit /\ [][PoolNext]_poolVars

-----------------------------------------------------------------------------
PoolTypeOK ==
    /\ nextCSeq \in CSeq
    /\ DOMAIN sentRequests \subseteq CSeq
    /\ \A c \in DOMAIN sentRequests : sentRequests[c] \in Nat
    /\ issued \in Nat
    /\ transit \subseteq Message
    /\ connection \in {"up", "rejected", "failed"}

\* A response is taken for the answer to the request it answers, however
\* often the counter has wrapped since that request was sent.
ResponsesMatch ==
    \A m \in transit :
        m.kind = "response" => InUse(m.cseq) /\ sentRequests[m.cseq] = m.serial

\* No response is ever taken for a stranger's, and the other end has no
\* reason to close before the counter has wrapped.
NoStranger ==
    /\ connection # "failed"
    /\ connection = "rejected" => issued >= Modulus

-----------------------------------------------------------------------------
(***************************************************************************)
(* The inductive invariant behind them.                                    *)
(***************************************************************************)
\* Whatever is under way is the only message with its CSeq, and its request
\* is the one remembered under it: only an unused CSeq is ever given out.
MatchInv ==
    /\ \A m \in transit : InUse(m.cseq) /\ sentRequests[m.cseq] = m.serial
    /\ \A m, n \in transit : m.cseq = n.cseq => m = n
    /\ connection # "failed"

\* Before the wrap CSeqs are given out in order, from 1 on.
FirstRoundInv ==
    /\ issued < Modulus =>
          /\ nextCSeq = (issued + 1) % Modulus
          /\ DOMAIN sentRequests \subseteq 1..issued
    /\ connection = "rejected" => issued >= Modulus

PoolInv == PoolTypeOK /\ MatchInv /\ FirstRoundInv
=============================================================================
