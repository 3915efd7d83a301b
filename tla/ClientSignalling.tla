-------------------------- MODULE ClientSignalling --------------------------
(***************************************************************************)
(* What every client of a WebRTSP server is built on: the requesting half  *)
(* of rtsp::Session (RtspSession/Session.cpp) and the one connection that  *)
(* WsClient gives it (Client/WsClient.cpp).                                *)
(***************************************************************************)
EXTENDS Naturals, Sequences

CONSTANT MaxClientRequests  \* bound: requests the client sends

VARIABLES
    pending,            \* Session::_sentRequests, a set of messages keyed by CSeq
    cseq,               \* Session::_nextCSeq
    clientLink,         \* "open", "terminating", "closed" or "crashed"
    toServer            \* messages handed to the transport and not yet read

signallingVars == <<pending, cseq, clientLink, toServer>>

NoSessionId == 0    \* an empty MediaSessionId

ClientMessage(kind, head, c, s, body) ==
    [kind |-> kind, head |-> head, cseq |-> c, session |-> s, body |-> body]

-----------------------------------------------------------------------------
\* Slip: a message overtakes the ones that wait.
SendInFront(messages) ==
    toServer' = IF clientLink = "open" THEN messages \o toServer ELSE toServer

\* The writeable callback of a terminating connection writes nothing more.
Send(messages) ==
    toServer' = IF clientLink = "open" THEN toServer \o messages ELSE toServer

ClientDisconnect ==
    clientLink' = IF clientLink = "open" THEN "terminating" ELSE clientLink

RequestAfter(settled, method, s, body) ==
    LET request == ClientMessage("request", method, cseq, s, body) IN
    /\ cseq <= MaxClientRequests
    /\ pending' = (pending \ settled) \cup {request}
    /\ cseq' = cseq + 1
    /\ Send(<<request>>)

ClientRequest(method, s, body) == RequestAfter({}, method, s, body)

Settled(r) == pending' = pending \ {r}

ClientResponds(m) ==
    Send(<<ClientMessage("response", "OK", m.cseq, m.session, <<>>)>>)

-----------------------------------------------------------------------------
\* onConnected: the client asks for OPTIONS.
SignallingInit ==
    LET options == ClientMessage("request", "OPTIONS", 1, NoSessionId, <<>>) IN
    /\ pending = {options}
    /\ cseq = 2
    /\ clientLink = "open"
    /\ toServer = <<options>>
=============================================================================
