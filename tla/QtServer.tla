------------------------------ MODULE QtServer ------------------------------
(***************************************************************************)
(* The two threads of the Qt signalling server (Qt/Server/Server.cpp,      *)
(* Qt/Server/Session.cpp): the main thread owns the sockets, the thread of *)
(* a QActor (Qt/QActor.cpp) owns the sessions, and they talk only through  *)
(* the actor's queue and the main thread's event queue.                    *)
(*                                                                         *)
(* The code names a connection by the address of its QWebSocket, and an    *)
(* address is used again once its socket is deleted.  The model tells the  *)
(* sockets at one address apart by a serial number that no guard looks at. *)
(* What ServerSession does with a message is module ServerSession; here it *)
(* sends, asks to disconnect, or fails.  Messages the sockets carry are    *)
(* numbered in the order they arrive.                                      *)
(***************************************************************************)
EXTENDS Naturals, Sequences, FiniteSets

CONSTANTS
    Address,        \* the addresses a QWebSocket may be allocated at
    AuthRequired,   \* whether the configuration has an authToken
    MaxSockets,     \* bound: sockets allocated
    MaxMessages,    \* bound: messages the sockets receive
    MaxCallbacks    \* bound: callbacks of the peers

ASSUME AuthRequiredAssumption == AuthRequired \in BOOLEAN
ASSUME QtBoundsAssumption ==
    /\ MaxSockets \in Nat
    /\ MaxMessages \in Nat
    /\ MaxCallbacks \in Nat

VARIABLES
    socket,         \* "none", "open", "closing" (close() called) or "disconnected"
    allocated,      \* history: how many sockets were allocated
    serial,         \* history: which of them the address stands for
    sessions,       \* Server::_sessions, and the "session" properties: the addresses
    alive,          \* the Session objects that exist
    waiting,        \* the "waiting" property of each socket
    delayed,        \* the request its singleShot timer holds back; 0 for none
    authorized,     \* Session::_authorized: "unknown", "yes" or "no"
    actorQueue,     \* the actions posted to the actor
    mainQueue,      \* the events posted to the main thread
    received,       \* history: how many messages have been received
    called,         \* history: how many callbacks the peers have made
    handled         \* history: the requests each Session has been given, in order

mainVars == <<socket, allocated, serial, sessions, waiting, delayed, received>>

actorVars == <<alive, authorized, called, handled>>

qtVars == <<mainVars, actorVars, actorQueue, mainQueue>>

-----------------------------------------------------------------------------
Connection == [address : Address, serial : Nat]

\* The socket, and the session, that the address stands for now.
At(a) == [address |-> a, serial |-> serial[a]]

Actions == {"onConnected", "handleRequest", "handleResponse", "destroySession"}

Events == {"sendMessage", "closeConnection", "clientAuthorized",
           "connectionOrphaned", "deferredDelete"}

Action(kind, c, n) == [kind |-> kind, connection |-> c, message |-> n]

Event(kind, c) == [kind |-> kind, connection |-> c]

\* Slip: a stack instead of a queue.
postActionInFront(kind, a, n) == actorQueue' = <<Action(kind, At(a), n)>> \o actorQueue

postAction(kind, a, n) == actorQueue' = Append(actorQueue, Action(kind, At(a), n))

-----------------------------------------------------------------------------
(* The main thread: sockets and timers.                                    *)

clientConnected(a) ==
    /\ socket[a] = "none"
    /\ allocated < MaxSockets
    /\ LET c == [address |-> a, serial |-> allocated + 1] IN
       /\ alive' = alive \cup {c}
       /\ actorQueue' = Append(actorQueue, Action("onConnected", c, 0))
    /\ socket' = [socket EXCEPT ![a] = "open"]
    /\ allocated' = allocated + 1
    /\ serial' = [serial EXCEPT ![a] = allocated + 1]
    /\ sessions' = sessions \cup {a}
    /\ waiting' = [waiting EXCEPT ![a] = "null"]
    /\ delayed' = [delayed EXCEPT ![a] = 0]
    /\ authorized' = [authorized EXCEPT ![a] = "unknown"]
    /\ handled' = [handled EXCEPT ![a] = <<>>]
    /\ UNCHANGED <<received, called, mainQueue>>

closeConnection(a) ==
    socket' = IF a \in sessions THEN [socket EXCEPT ![a] = "closing"] ELSE socket

\* A message arrives while the socket still reads.
Receives(a) ==
    /\ socket[a] \in {"open", "closing"}
    /\ received < MaxMessages
    /\ received' = received + 1

\* Slip: only the first request is looked at, a second one overtakes it.
handleRequestOvertaking(a) ==
    /\ Receives(a)
    /\ IF AuthRequired /\ waiting[a] = "null"
       THEN /\ waiting' = [waiting EXCEPT ![a] = "true"]
            /\ delayed' = [delayed EXCEPT ![a] = received + 1]
            /\ UNCHANGED <<actorQueue, socket>>
       ELSE /\ postAction("handleRequest", a, received + 1)
            /\ UNCHANGED <<waiting, delayed, socket>>
    /\ UNCHANGED <<allocated, serial, sessions, actorVars, mainQueue>>

\* The very first request waits, a second one meanwhile ends the connection.
handleRequest(a) ==
    /\ Receives(a)
    /\ IF AuthRequired /\ waiting[a] = "null"
       THEN /\ waiting' = [waiting EXCEPT ![a] = "true"]
            /\ delayed' = [delayed EXCEPT ![a] = received + 1]
            /\ UNCHANGED <<actorQueue, socket>>
       ELSE IF AuthRequired /\ waiting[a] = "true"
       THEN closeConnection(a) /\ UNCHANGED <<waiting, delayed, actorQueue>>
       ELSE /\ postAction("handleRequest", a, received + 1)
            /\ UNCHANGED <<waiting, delayed, socket>>
    /\ UNCHANGED <<allocated, serial, sessions, actorVars, mainQueue>>

\* The timer runs out.  A socket whose session is gone has nobody to ask.
FirstRequestDelayEnds(a) ==
    /\ delayed[a] # 0
    /\ waiting' = [waiting EXCEPT ![a] = "false"]
    /\ delayed' = [delayed EXCEPT ![a] = 0]
    /\ IF a \in sessions
       THEN postAction("handleRequest", a, delayed[a])
       ELSE UNCHANGED actorQueue
    /\ UNCHANGED <<socket, allocated, serial, sessions, received, actorVars, mainQueue>>

handleResponse(a) ==
    /\ Receives(a)
    /\ postAction("handleResponse", a, received + 1)
    /\ UNCHANGED <<socket, allocated, serial, sessions, waiting, delayed, actorVars, mainQueue>>

\* A message that does not parse.
Malformed(a) ==
    /\ Receives(a)
    /\ closeConnection(a)
    /\ UNCHANGED <<allocated, serial, sessions, waiting, delayed, actorVars, actorQueue, mainQueue>>

-----------------------------------------------------------------------------
(* Slips of clientDisconnected: the socket is deleted without waiting for  *)
(* the session; the session is destroyed on the main thread.               *)
clientDisconnectedDeleting(a) ==
    /\ socket[a] \in {"open", "closing"}
    /\ socket' = [socket EXCEPT ![a] = "disconnected"]
    /\ sessions' = sessions \ {a}
    /\ postAction("destroySession", a, 0)
    /\ mainQueue' = Append(mainQueue, Event("deferredDelete", At(a)))
    /\ UNCHANGED <<allocated, serial, waiting, delayed, received, actorVars>>

clientDisconnectedDestroying(a) ==
    /\ socket[a] \in {"open", "closing"}
    /\ socket' = [socket EXCEPT ![a] = "disconnected"]
    /\ sessions' = sessions \ {a}
    /\ alive' = alive \ {At(a)}
    /\ mainQueue' = Append(mainQueue, Event("deferredDelete", At(a)))
    /\ UNCHANGED <<allocated, serial, waiting, delayed, received, authorized, called,
                   handled, actorQueue>>

\* Nothing of the socket is heard any more; its session is destroyed on the
\* actor's thread, after every action that was posted for it.
clientDisconnected(a) ==
    /\ socket[a] \in {"open", "closing"}
    /\ socket' = [socket EXCEPT ![a] = "disconnected"]
    /\ sessions' = sessions \ {a}
    /\ postAction("destroySession", a, 0)
    /\ UNCHANGED <<allocated, serial, waiting, delayed, received, actorVars, mainQueue>>

-----------------------------------------------------------------------------
(* The main thread: the event at the head of its queue.                    *)

sendMessage ==
    /\ Head(mainQueue).kind = "sendMessage"
    /\ mainQueue' = Tail(mainQueue)
    /\ UNCHANGED <<socket, waiting, delayed>>

closeConnectionEvent ==
    /\ Head(mainQueue).kind = "closeConnection"
    /\ closeConnection(Head(mainQueue).connection.address)
    /\ mainQueue' = Tail(mainQueue)
    /\ UNCHANGED <<waiting, delayed>>

clientAuthorized ==
    /\ Head(mainQueue).kind = "clientAuthorized"
    /\ mainQueue' = Tail(mainQueue)
    /\ UNCHANGED <<socket, waiting, delayed>>

\* deleteLater: one more turn of the event loop.
connectionOrphaned ==
    /\ Head(mainQueue).kind = "connectionOrphaned"
    /\ mainQueue' = Append(Tail(mainQueue),
                           Event("deferredDelete", Head(mainQueue).connection))
    /\ UNCHANGED <<socket, waiting, delayed>>

\* The socket is deleted, and with it the timer that has it for context.
deferredDelete ==
    /\ Head(mainQueue).kind = "deferredDelete"
    /\ LET a == Head(mainQueue).connection.address IN
       /\ socket' = [socket EXCEPT ![a] = "none"]
       /\ waiting' = [waiting EXCEPT ![a] = "null"]
       /\ delayed' = [delayed EXCEPT ![a] = 0]
    /\ mainQueue' = Tail(mainQueue)

MainEvent ==
    /\ mainQueue # <<>>
    /\ \/ sendMessage
       \/ closeConnectionEvent
       \/ clientAuthorized
       \/ connectionOrphaned
       \/ deferredDelete
    /\ UNCHANGED <<allocated, serial, sessions, received, actorVars, actorQueue>>

-----------------------------------------------------------------------------
(* The actor's thread: OnEvent runs the action at the head of its queue.   *)

Post(kinds, c) == mainQueue' = mainQueue \o [i \in 1..Len(kinds) |-> Event(kinds[i], c)]

\* What a handler of ServerSession leaves for the main thread: its answer,
\* the disconnect() it asks for, and the close its false return brings.
Outcomes == {<<>>, <<"sendMessage">>, <<"closeConnection">>, <<"sendMessage", "closeConnection">>}

onConnected ==
    /\ Head(actorQueue).kind = "onConnected"
    /\ UNCHANGED <<alive, authorized, handled, mainQueue>>

\* Slip: a client without the token is not disconnected.
RefuseRequestSilently(c) == UNCHANGED mainQueue

RefuseRequest(c) == Post(<<"closeConnection">>, c)

\* Session::handleRequest: the first request decides, once and for all.
SessionHandlesRequest ==
    LET c == Head(actorQueue).connection
        a == c.address
    IN  /\ Head(actorQueue).kind = "handleRequest"
        /\ \/ /\ authorized[a] = "yes"
              /\ \E outcome \in Outcomes : Post(outcome, c)
              /\ UNCHANGED authorized
           \/ /\ authorized[a] = "no"
              /\ RefuseRequest(c)
              /\ UNCHANGED authorized
           \/ /\ authorized[a] = "unknown"
              /\ authorized' = [authorized EXCEPT ![a] = "yes"]
              /\ \E outcome \in Outcomes :
                    \/ Post(Append(outcome, "clientAuthorized"), c)
                    \/ Post(outcome \o <<"clientAuthorized", "closeConnection">>, c)
           \/ /\ authorized[a] = "unknown"
              /\ AuthRequired
              /\ authorized' = [authorized EXCEPT ![a] = "no"]
              /\ RefuseRequest(c)
        /\ handled' = [handled EXCEPT ![a] = Append(@, Head(actorQueue).message)]
        /\ UNCHANGED alive

\* rtsp::Session::handleResponse, whoever the client is.
SessionHandlesResponse ==
    /\ Head(actorQueue).kind = "handleResponse"
    /\ \E outcome \in Outcomes : Post(outcome, Head(actorQueue).connection)
    /\ UNCHANGED <<alive, authorized, handled>>

\* Slip: the main thread is not told.
destroySessionSilently ==
    /\ Head(actorQueue).kind = "destroySession"
    /\ alive' = alive \ {Head(actorQueue).connection}
    /\ UNCHANGED <<authorized, handled, mainQueue>>

destroySession ==
    /\ Head(actorQueue).kind = "destroySession"
    /\ alive' = alive \ {Head(actorQueue).connection}
    /\ Post(<<"connectionOrphaned">>, Head(actorQueue).connection)
    /\ UNCHANGED <<authorized, handled>>

OnEvent ==
    /\ actorQueue # <<>>
    /\ actorQueue' = Tail(actorQueue)
    /\ \/ onConnected
       \/ SessionHandlesRequest
       \/ SessionHandlesResponse
       \/ destroySession
    /\ UNCHANGED <<mainVars, called>>

\* A peer of an authorized session calls back on the actor's thread: the
\* session sends a message or asks to disconnect.
PeerCallback(a) ==
    /\ At(a) \in alive
    /\ authorized[a] = "yes"
    /\ called < MaxCallbacks
    /\ called' = called + 1
    /\ \E kind \in {"sendMessage", "closeConnection"} : Post(<<kind>>, At(a))
    /\ UNCHANGED <<mainVars, alive, authorized, handled, actorQueue>>

-----------------------------------------------------------------------------
QtInit ==
    /\ socket = [a \in Address |-> "none"]
    /\ allocated = 0
    /\ serial = [a \in Address |-> 0]
    /\ sessions = {}
    /\ alive = {}
    /\ waiting = [a \in Address |-> "null"]
    /\ delayed = [a \in Address |-> 0]
    /\ authorized = [a \in Address |-> "unknown"]
    /\ actorQueue = <<>>
    /\ mainQueue = <<>>
    /\ received = 0
    /\ called = 0
    /\ handled = [a \in Address |-> <<>>]

SocketSteps(a) ==
    \/ clientConnected(a)
    \/ handleRequest(a)
    \/ handleResponse(a)
    \/ Malformed(a)
    \/ FirstRequestDelayEnds(a)
    \/ clientDisconnected(a)

QtNext ==
    \/ \E a \in Address : SocketSteps(a) \/ PeerCallback(a)
    \/ MainEvent
    \/ OnEvent

QtSpec == QtInit /\ [][QtNext]_qtVars

(* Both event loops run, and a socket that has been closed disconnects.    *)
QtFairness ==
    /\ WF_qtVars(MainEvent)
    /\ WF_qtVars(OnEvent)
    /\ \A a \in Address : WF_qtVars(socket[a] = "closing" /\ clientDisconnected(a))

FairQtSpec == QtSpec /\ QtFairness
=============================================================================
