------------------------------ MODULE WsServer ------------------------------
(***************************************************************************)
(* The transport under one ServerSession: the send queue of WsServer       *)
(* (Signalling/WsServer.cpp) and the writeable callback of libwebsockets,  *)
(* which is delivered only after lws_callback_on_writable asked for it.    *)
(*                                                                         *)
(* ServerSession's "wire" is everything handed to the transport; here its  *)
(* last "queued" messages are still in sendMessages.  A message that is    *)
(* queued when disconnect() or the end of the connection overtakes it is   *)
(* never written, so the client knows only of the written ones.            *)
(***************************************************************************)
EXTENDS ServerSession

VARIABLES
    queued,     \* the length of SessionData::sendMessages
    writable    \* a writeable callback was asked for and is still to come

wsVars == <<vars, queued, writable>>

-----------------------------------------------------------------------------
\* send(): the messages the step put into the queue.
HandedOver == Len(wire') - Len(wire)

\* sendRequest() without a request: the step set terminateSession.
DisconnectAsked == link = "open" /\ link' = "terminating"

\* Slip: sendRequest() sets terminateSession without asking for the callback.
CallbackOnWritableForMessages ==
    writable' = (link' # "closed" /\ (writable \/ HandedOver > 0))

\* Both ask for the callback; a closed connection gets none.
CallbackOnWritable ==
    writable' = (link' # "closed" /\ (writable \/ HandedOver > 0 \/ DisconnectAsked))

\* What the transport does in a step of the session.  The queue is deleted with
\* the connection.
Transport ==
    /\ queued' = IF link' = "closed" THEN 0 ELSE queued + HandedOver
    /\ CallbackOnWritable

-----------------------------------------------------------------------------
Written == 1..(Len(wire) - queued)

\* The client names sessions it was written of and answers requests it was
\* written; whatever else it sends closes the connection at most.
ClientKnows ==
    /\ inbox' # inbox =>
           LET s == inbox'[Len(inbox')].session IN
           s = NoId \/ \E i \in Written : wire[i].session = s
    /\ link' # "closed" =>
           \A r \in sentRequests \ sentRequests' : \E i \in Written : wire[i] = r

\* Every callback of the session, with the messages and disconnect() of it.  A
\* connection that closes without a writeable callback is lost.
SessionStep == Next /\ ClientKnows /\ Transport

\* Slip: the callback is not asked for again while more is queued.
WriteFrontOnce ==
    /\ link = "open"
    /\ queued > 0
    /\ queued' = queued - 1
    /\ writable' = FALSE
    /\ UNCHANGED vars

\* The front of sendMessages is written; another callback while more is queued.
WriteFront ==
    /\ link = "open"
    /\ queued > 0
    /\ queued' = queued - 1
    /\ writable' = (queued' > 0)
    /\ UNCHANGED vars

\* writeAsText() failed.
WriteFails ==
    /\ link = "open"
    /\ queued > 0
    /\ Close
    /\ Transport

\* terminateSession is looked at first, and what is queued is dropped.
TerminateSession == Writeable /\ Transport

ServerWriteable ==
    /\ writable
    /\ WriteFront \/ WriteFails \/ TerminateSession

-----------------------------------------------------------------------------
WsInit ==
    /\ Init
    /\ queued = 0
    /\ writable = FALSE

WsNext == SessionStep \/ ServerWriteable

\* A peer ends its preparation, one way or the other; libwebsockets delivers a
\* writeable callback that was asked for, and no other is counted upon.
WsFairness ==
    /\ \A s \in SessionId : WF_wsVars(PeerSettles(s) /\ Transport)
    /\ WF_wsVars(ServerWriteable)

WsSpec == WsInit /\ [][WsNext]_wsVars /\ WsFairness
=============================================================================
