---------------------------- MODULE QtServerProps ----------------------------
(***************************************************************************)
(* What the two threads of the Qt server must keep to: no pointer that     *)
(* crosses from one to the other may outlive what it points at.            *)
(***************************************************************************)
EXTENDS QtServer

\* The shape of every variable; an entry of _sessions is a socket that is
\* still connected and a session that still exists.
QtTypeOK ==
    /\ socket \in [Address -> {"none", "open", "closing", "disconnected"}]
    /\ allocated \in Nat
    /\ serial \in [Address -> 0..allocated]
    /\ sessions = {a \in Address : socket[a] \in {"open", "closing"}}
    /\ alive \subseteq Connection
    /\ waiting \in [Address -> {"null", "true", "false"}]
    /\ delayed \in [Address -> Nat]
    /\ authorized \in [Address -> {"unknown", "yes", "no"}]
    /\ actorQueue \in Seq([kind : Actions, connection : Connection, message : Nat])
    /\ mainQueue \in Seq([kind : Events, connection : Connection])
    /\ received \in Nat
    /\ called \in Nat
    /\ handled \in [Address -> Seq(Nat)]

Exists(c) == socket[c.address] # "none" /\ c = At(c.address)

\* The comment in clientDisconnected (243): the main thread never gets a
\* notification about a connection after that connection is deleted, not
\* even when a new one has been allocated at its address.
NoStaleNotification ==
    \A i \in 1..Len(mainQueue) : Exists(mainQueue[i].connection)

\* The raw Session pointer that handleRequest (350) and handleResponse (368)
\* post is still good when the actor uses it.
SessionOutlivesItsActions ==
    \A i \in 1..Len(actorQueue) : actorQueue[i].connection \in alive

\* clientDisconnected's assertion (241): the action that destroys a session
\* holds the last reference, onConnected's and the map's having gone before.
SoleOwnerDestroys ==
    actorQueue # <<>> /\ Head(actorQueue).kind = "destroySession" =>
        LET c == Head(actorQueue).connection IN
        /\ ~(c.address \in sessions /\ c = At(c.address))
        /\ \A i \in 2..Len(actorQueue) :
               actorQueue[i].kind # "onConnected" \/ actorQueue[i].connection # c

\* A session is given the requests of its client in the order they arrived,
\* although the first one is held back (332).
RequestsInOrder ==
    \A a \in Address : \A i, j \in 1..Len(handled[a]) :
        i < j => handled[a][i] < handled[a][j]

-----------------------------------------------------------------------------
(***************************************************************************)
(* The inductive invariant behind the pointers' safety: a connection goes  *)
(* through destroySession, connectionOrphaned and deferredDelete in this   *)
(* order, and each of them is the last thing in its queue to name it.      *)
(***************************************************************************)
\* A session belongs to the socket now at its address.
AliveInv ==
    /\ \A c \in alive : Exists(c)
    /\ \A a \in sessions : At(a) \in alive

LastAction(i) ==
    \A j \in 1..Len(actorQueue) : j > i => actorQueue[j].connection # actorQueue[i].connection

ActionsInv == \A i \in 1..Len(actorQueue) :
    /\ actorQueue[i].connection \in alive
    /\ actorQueue[i].kind = "destroySession" =>
          LastAction(i) /\ actorQueue[i].connection.address \notin sessions

LastEvent(i) ==
    \A j \in 1..Len(mainQueue) : j > i => mainQueue[j].connection # mainQueue[i].connection

Farewells == {"connectionOrphaned", "deferredDelete"}

EventsInv == \A i \in 1..Len(mainQueue) :
    /\ Exists(mainQueue[i].connection)
    /\ mainQueue[i].kind \in Farewells =>
          /\ LastEvent(i)
          /\ mainQueue[i].connection \notin alive

QtInv == QtTypeOK /\ AliveInv /\ ActionsInv /\ EventsInv

-----------------------------------------------------------------------------
(* The inductive invariant behind RequestsInOrder: a request is younger    *)
(* than those its session was given, than those queued before it, and the  *)
(* one held back is younger than both and the last there is.               *)

\* The i-th action hands a request to the session at a.
Asks(i, a) ==
    /\ actorQueue[i].kind = "handleRequest"
    /\ actorQueue[i].connection.address = a

DelayedInv == \A a \in Address :
    /\ delayed[a] <= received
    /\ delayed[a] # 0 => AuthRequired /\ waiting[a] = "true"

HandledInv == \A a \in Address : \A k \in 1..Len(handled[a]) :
    /\ handled[a][k] <= received
    /\ delayed[a] # 0 => handled[a][k] < delayed[a]

QueuedInv == \A a \in Address : \A i \in 1..Len(actorQueue) : Asks(i, a) =>
    /\ actorQueue[i].message <= received
    /\ delayed[a] # 0 => actorQueue[i].message < delayed[a]
    /\ \A k \in 1..Len(handled[a]) : handled[a][k] < actorQueue[i].message
    /\ \A j \in 1..Len(actorQueue) :
           i < j /\ Asks(j, a) => actorQueue[i].message < actorQueue[j].message

OrderInv == DelayedInv /\ HandledInv /\ QueuedInv /\ RequestsInOrder

-----------------------------------------------------------------------------
\* Whatever is left of a connection, its socket is deleted in the end
\* (connectionOrphaned 168, 252).
SocketDeleted == \A a \in Address :
    (socket[a] = "disconnected") ~> (socket[a] # "disconnected")

\* A client whose first request has not shown the token is disconnected
\* (Session.cpp 46, Server.cpp 351).
RefusedIsDisconnected == \A a \in Address :
    (authorized[a] = "no" /\ socket[a] = "open")
        ~> (socket[a] \in {"disconnected", "none"})
=============================================================================
