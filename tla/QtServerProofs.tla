--------------------------- MODULE QtServerProofs ---------------------------
(***************************************************************************)
(* No pointer that crosses between the threads of the Qt server outlives   *)
(* what it points at, and a session is given its client's requests in the  *)
(* order they arrived, for any number of sockets and messages.             *)
(***************************************************************************)
EXTENDS QtServerProps, TLAPS

ActionRecord == [kind : Actions, connection : Connection, message : Nat]

EventRecord == [kind : Events, connection : Connection]

-----------------------------------------------------------------------------
(* The two queues.                                                         *)

LEMMA Appended ==
    ASSUME NEW S, NEW q \in Seq(S), NEW x \in S
    PROVE  /\ Append(q, x) \in Seq(S)
           /\ Len(Append(q, x)) = Len(q) + 1
           /\ \A i \in 1..Len(q) : Append(q, x)[i] = q[i]
           /\ Append(q, x)[Len(q) + 1] = x
           /\ Len(q) \in Nat
OBVIOUS

LEMMA Popped ==
    ASSUME NEW S, NEW q \in Seq(S), q # <<>>
    PROVE  /\ Tail(q) \in Seq(S)
           /\ Len(Tail(q)) = Len(q) - 1
           /\ \A i \in 1..Len(Tail(q)) : i + 1 \in 1..Len(q) /\ Tail(q)[i] = q[i + 1]
           /\ Head(q) = q[1]
           /\ 1 \in 1..Len(q)
           /\ Len(q) \in Nat
OBVIOUS

LEMMA Concatenated ==
    ASSUME NEW S, NEW q \in Seq(S), NEW r \in Seq(S)
    PROVE  /\ q \o r \in Seq(S)
           /\ Len(q \o r) = Len(q) + Len(r)
           /\ \A i \in 1..Len(q) : (q \o r)[i] = q[i]
           /\ \A i \in (Len(q) + 1)..(Len(q) + Len(r)) :
                  i - Len(q) \in 1..Len(r) /\ (q \o r)[i] = r[i - Len(q)]
           /\ Len(q) \in Nat /\ Len(r) \in Nat
OBVIOUS

LEMMA AtType ==
    ASSUME QtTypeOK, NEW a \in Address
    PROVE  At(a) \in Connection /\ At(a).address = a /\ At(a).serial = serial[a]
BY DEF QtTypeOK, At, Connection

LEMMA ConnectionEqual ==
    ASSUME NEW c \in Connection, NEW d \in Connection,
           c.address = d.address, c.serial = d.serial
    PROVE  c = d
BY DEF Connection

\* What the actor's handlers post to the main thread.
Chatter == {"sendMessage", "closeConnection", "clientAuthorized"}

\* mainQueue grew by messages of one live session.
Talks(c) ==
    /\ mainQueue' \in Seq(EventRecord)
    /\ Len(mainQueue') >= Len(mainQueue)
    /\ \A i \in 1..Len(mainQueue) : mainQueue'[i] = mainQueue[i]
    /\ \A i \in 1..Len(mainQueue') : i > Len(mainQueue) =>
           mainQueue'[i].connection = c /\ mainQueue'[i].kind \in Chatter

LEMMA PostTalks ==
    ASSUME QtTypeOK, NEW c \in Connection, NEW kinds \in Seq(Chatter), Post(kinds, c)
    PROVE  Talks(c)
<1> DEFINE r == [i \in 1..Len(kinds) |-> Event(kinds[i], c)]
<1>1. mainQueue \in Seq(EventRecord)
  BY DEF QtTypeOK, EventRecord
<1>2. \A i \in 1..Len(kinds) : kinds[i] \in Chatter
  OBVIOUS
<1>3. \A i \in 1..Len(kinds) : Event(kinds[i], c) \in EventRecord
  BY <1>2 DEF Event, EventRecord, Chatter, Events
<1>4. r \in Seq(EventRecord) /\ Len(r) = Len(kinds)
  BY <1>3
<1>5. \A i \in 1..Len(r) : r[i].connection = c /\ r[i].kind \in Chatter
  BY <1>2, <1>4 DEF Event
<1>6. mainQueue' = mainQueue \o r
  BY DEF Post
<1> HIDE DEF r
<1>7. /\ mainQueue' \in Seq(EventRecord)
      /\ Len(mainQueue') = Len(mainQueue) + Len(r)
      /\ \A i \in 1..Len(mainQueue) : mainQueue'[i] = mainQueue[i]
      /\ \A i \in (Len(mainQueue) + 1)..(Len(mainQueue) + Len(r)) :
             i - Len(mainQueue) \in 1..Len(r) /\ mainQueue'[i] = r[i - Len(mainQueue)]
      /\ Len(mainQueue) \in Nat /\ Len(r) \in Nat
  BY <1>1, <1>4, <1>6, Concatenated
<1>8. ASSUME NEW i \in 1..Len(mainQueue'), i > Len(mainQueue)
      PROVE  mainQueue'[i].connection = c /\ mainQueue'[i].kind \in Chatter
  <2>1. i \in (Len(mainQueue) + 1)..(Len(mainQueue) + Len(r))
    BY <1>7, <1>8
  <2> QED
    BY <1>5, <1>7, <2>1
<1> QED
  BY <1>7, <1>8 DEF Talks

\* A live session may talk: its socket is there, and no farewell has named it.
LEMMA TalkKeepsEvents ==
    ASSUME QtInv, NEW c \in alive, Talks(c),
           UNCHANGED <<socket, serial>>, alive' = alive
    PROVE  EventsInv'
<1>0. Len(mainQueue) \in Nat /\ Len(mainQueue') \in Nat
  BY DEF QtInv, QtTypeOK, Talks
<1>1. Exists(c)
  BY DEF QtInv, AliveInv
<1> SUFFICES ASSUME NEW i \in 1..Len(mainQueue')
             PROVE  /\ Exists(mainQueue[i].connection)'
                    /\ mainQueue'[i].kind \in Farewells =>
                          /\ LastEvent(i)'
                          /\ mainQueue'[i].connection \notin alive'
  BY DEF EventsInv
<1>3. CASE i > Len(mainQueue)
  <2>1. mainQueue'[i].connection = c /\ mainQueue'[i].kind \in Chatter
    BY <1>3 DEF Talks
  <2>2. mainQueue'[i].kind \notin Farewells
    BY <2>1 DEF Chatter, Farewells
  <2>3. Exists(mainQueue[i].connection)'
    BY <1>1, <2>1 DEF Exists, At
  <2> QED
    BY <2>2, <2>3
<1>4. CASE ~(i > Len(mainQueue))
  <2>1. i \in 1..Len(mainQueue) /\ mainQueue'[i] = mainQueue[i]
    BY <1>0, <1>4 DEF Talks
  <2>2. Exists(mainQueue[i].connection)'
    BY <2>1 DEF QtInv, EventsInv, Exists, At
  <2>3. ASSUME mainQueue'[i].kind \in Farewells
        PROVE  LastEvent(i)' /\ mainQueue'[i].connection \notin alive'
    <3>1. LastEvent(i) /\ mainQueue[i].connection \notin alive
      BY <2>1, <2>3 DEF QtInv, EventsInv
    <3>2. ASSUME NEW j \in 1..Len(mainQueue'), j > i
          PROVE  mainQueue'[j].connection # mainQueue'[i].connection
      <4>1. CASE j > Len(mainQueue)
        BY <2>1, <3>1, <3>2, <4>1 DEF Talks
      <4>2. CASE ~(j > Len(mainQueue))
        <5>1. j \in 1..Len(mainQueue) /\ mainQueue'[j] = mainQueue[j]
          BY <1>0, <4>2 DEF Talks
        <5> QED
          BY <2>1, <3>1, <3>2, <5>1 DEF LastEvent
      <4> QED
        BY <4>1, <4>2
    <3> QED
      BY <2>1, <3>1, <3>2 DEF LastEvent
  <2> QED
    BY <2>2, <2>3
<1> QED
  BY <1>3, <1>4

-----------------------------------------------------------------------------
(* Steps of the main thread that delete no socket.                         *)

\* No socket is allocated or deleted.
SocketsStay ==
    /\ serial' = serial
    /\ \A a \in Address : socket[a] # "none" => socket'[a] # "none"

LEMMA StillExists ==
    ASSUME SocketsStay, NEW c \in Connection, Exists(c)
    PROVE  Exists(c)'
BY DEF SocketsStay, Exists, At, Connection

LEMMA EventType ==
    ASSUME QtTypeOK, NEW i \in 1..Len(mainQueue)
    PROVE  mainQueue[i] \in EventRecord /\ mainQueue[i].connection \in Connection
<1>1. mainQueue \in Seq(EventRecord)
  BY DEF QtTypeOK, EventRecord
<1>2. mainQueue[i] \in EventRecord
  BY <1>1
<1> QED
  BY <1>2 DEF EventRecord

LEMMA ActionType ==
    ASSUME QtTypeOK, NEW i \in 1..Len(actorQueue)
    PROVE  actorQueue[i] \in ActionRecord /\ actorQueue[i].connection \in Connection
<1>1. actorQueue \in Seq(ActionRecord)
  BY DEF QtTypeOK, ActionRecord
<1>2. actorQueue[i] \in ActionRecord
  BY <1>1
<1> QED
  BY <1>2 DEF ActionRecord

\* close() keeps the socket, its entry and its session.
LEMMA CloseKeeps ==
    ASSUME QtTypeOK, NEW a \in Address, closeConnection(a), serial' = serial
    PROVE  /\ SocketsStay
           /\ socket' \in [Address -> {"none", "open", "closing", "disconnected"}]
           /\ sessions = {b \in Address : socket'[b] \in {"open", "closing"}}
BY DEF closeConnection, QtTypeOK, SocketsStay

LEMMA AliveStays ==
    ASSUME QtInv, SocketsStay, alive' \subseteq alive, sessions' = sessions,
           \A a \in sessions : At(a) \in alive'
    PROVE  AliveInv'
<1>1. \A c \in alive' : Exists(c)'
  BY StillExists DEF QtInv, QtTypeOK, AliveInv
<1>2. \A a \in sessions' : At(a)' \in alive'
  BY DEF SocketsStay, At
<1> QED
  BY <1>1, <1>2 DEF AliveInv

LEMMA EventsStay ==
    ASSUME QtInv, SocketsStay, alive' = alive, mainQueue' = mainQueue
    PROVE  EventsInv'
<1> SUFFICES ASSUME NEW i \in 1..Len(mainQueue)
             PROVE  /\ Exists(mainQueue[i].connection)'
                    /\ mainQueue[i].kind \in Farewells =>
                          /\ LastEvent(i)'
                          /\ mainQueue[i].connection \notin alive
  BY DEF EventsInv
<1>1. Exists(mainQueue[i].connection)'
  <2>1. Exists(mainQueue[i].connection)
    BY DEF QtInv, EventsInv
  <2> QED
    BY <2>1, EventType, StillExists DEF QtInv, Exists, At
<1> QED
  BY <1>1 DEF QtInv, EventsInv, LastEvent

LEMMA EventsPopped ==
    ASSUME QtInv, SocketsStay, alive' = alive,
           mainQueue # <<>>, mainQueue' = Tail(mainQueue)
    PROVE  EventsInv'
<1>1. /\ Len(mainQueue') = Len(mainQueue) - 1
      /\ \A i \in 1..Len(mainQueue') : i + 1 \in 1..Len(mainQueue) /\ mainQueue'[i] = mainQueue[i + 1]
      /\ Len(mainQueue) \in Nat
  BY Popped DEF QtInv, QtTypeOK
<1> SUFFICES ASSUME NEW i \in 1..Len(mainQueue')
             PROVE  /\ Exists(mainQueue[i].connection)'
                    /\ mainQueue'[i].kind \in Farewells =>
                          /\ LastEvent(i)'
                          /\ mainQueue'[i].connection \notin alive'
  BY DEF EventsInv
<1>2. i + 1 \in 1..Len(mainQueue) /\ mainQueue'[i] = mainQueue[i + 1]
  BY <1>1
<1>3. Exists(mainQueue[i].connection)'
  <2>1. Exists(mainQueue[i + 1].connection) /\ mainQueue[i + 1].connection \in Connection
    BY <1>2, EventType DEF QtInv, EventsInv
  <2>2. Exists(mainQueue[i + 1].connection) /\ serial' = serial
        /\ socket'[mainQueue[i + 1].connection.address] # "none"
    BY <2>1 DEF SocketsStay, Exists, Connection
  <2> QED
    BY <1>2, <2>2 DEF Exists, At
<1>4. ASSUME mainQueue'[i].kind \in Farewells
      PROVE  LastEvent(i)' /\ mainQueue'[i].connection \notin alive'
  <2>1. LastEvent(i + 1) /\ mainQueue[i + 1].connection \notin alive
    BY <1>2, <1>4 DEF QtInv, EventsInv
  <2>2. ASSUME NEW j \in 1..Len(mainQueue'), j > i
        PROVE  mainQueue'[j].connection # mainQueue'[i].connection
    <3>1. j + 1 \in 1..Len(mainQueue) /\ mainQueue'[j] = mainQueue[j + 1]
      BY <1>1
    <3>2. j + 1 > i + 1
      BY <1>1, <2>2
    <3> QED
      BY <1>2, <2>1, <3>1, <3>2 DEF LastEvent
  <2> QED
    BY <1>2, <2>1, <2>2 DEF LastEvent
<1> QED
  BY <1>3, <1>4

LEMMA ActionsStay ==
    ASSUME QtInv, alive' = alive, sessions' = sessions, actorQueue' = actorQueue
    PROVE  ActionsInv'
BY DEF QtInv, ActionsInv, LastAction

\* An action is posted for a connected socket: no destroySession is before it.
LEMMA ActionsPosted ==
    ASSUME QtInv, NEW a \in sessions, NEW kind \in Actions, NEW n \in Nat,
           postAction(kind, a, n), alive' = alive, sessions' \subseteq sessions,
           kind = "destroySession" => a \notin sessions'
    PROVE  ActionsInv' /\ actorQueue' \in Seq(ActionRecord)
<1>1. a \in Address /\ At(a) \in alive /\ At(a) \in Connection /\ At(a).address = a
  BY AtType DEF QtInv, QtTypeOK, AliveInv
<1> DEFINE new == Action(kind, At(a), n)
<1>2. new \in ActionRecord /\ new.connection = At(a) /\ new.kind = kind
  BY <1>1 DEF Action, ActionRecord
<1>3. actorQueue \in Seq(ActionRecord) /\ actorQueue' = Append(actorQueue, new)
  BY DEF QtInv, QtTypeOK, ActionRecord, postAction
<1> HIDE DEF new
<1>4. /\ actorQueue' \in Seq(ActionRecord)
      /\ Len(actorQueue') = Len(actorQueue) + 1
      /\ \A i \in 1..Len(actorQueue) : actorQueue'[i] = actorQueue[i]
      /\ actorQueue'[Len(actorQueue) + 1] = new
      /\ Len(actorQueue) \in Nat
  BY <1>2, <1>3, Appended
<1> SUFFICES ASSUME NEW i \in 1..Len(actorQueue')
             PROVE  /\ actorQueue'[i].connection \in alive'
                    /\ actorQueue'[i].kind = "destroySession" =>
                          LastAction(i)' /\ actorQueue'[i].connection.address \notin sessions'
  BY <1>4 DEF ActionsInv
<1>5. CASE i = Len(actorQueue) + 1
  <2>1. \A j \in 1..Len(actorQueue') : ~(j > i)
    BY <1>4, <1>5
  <2> QED
    BY <1>1, <1>2, <1>4, <1>5, <2>1 DEF LastAction
<1>6. CASE i # Len(actorQueue) + 1
  <2>1. i \in 1..Len(actorQueue) /\ actorQueue'[i] = actorQueue[i]
    BY <1>4, <1>6
  <2>2. ASSUME actorQueue'[i].kind = "destroySession"
        PROVE  LastAction(i)' /\ actorQueue'[i].connection.address \notin sessions'
    <3>1. LastAction(i) /\ actorQueue[i].connection.address \notin sessions
      BY <2>1, <2>2 DEF QtInv, ActionsInv
    <3>2. ASSUME NEW j \in 1..Len(actorQueue'), j > i
          PROVE  actorQueue'[j].connection # actorQueue'[i].connection
      <4>1. CASE j = Len(actorQueue) + 1
        BY <1>1, <1>2, <1>4, <2>1, <3>1, <4>1
      <4>2. CASE j # Len(actorQueue) + 1
        <5>1. j \in 1..Len(actorQueue) /\ actorQueue'[j] = actorQueue[j]
          BY <1>4, <4>2
        <5> QED
          BY <2>1, <3>1, <3>2, <5>1 DEF LastAction
      <4> QED
        BY <4>1, <4>2
    <3> QED
      BY <2>1, <3>1, <3>2 DEF LastAction
  <2> QED
    BY <2>1, <2>2 DEF QtInv, ActionsInv
<1> QED
  BY <1>5, <1>6

-----------------------------------------------------------------------------
(* The steps of the main thread.                                           *)

LEMMA ConnectedStep ==
    ASSUME QtInv, NEW a \in Address, clientConnected(a)
    PROVE  QtInv'
<1>0. PICK c \in Connection : c = [address |-> a, serial |-> allocated + 1]
  <2>1. allocated + 1 \in Nat
    BY DEF QtInv, QtTypeOK
  <2>2. [address |-> a, serial |-> allocated + 1] \in Connection
    BY <2>1 DEF Connection
  <2> QED
    BY <2>2
<1> DEFINE new == Action("onConnected", c, 0)
<1>1. /\ socket[a] = "none"
      /\ alive' = alive \cup {c}
      /\ actorQueue' = Append(actorQueue, new)
      /\ socket' = [socket EXCEPT ![a] = "open"]
      /\ allocated' = allocated + 1
      /\ serial' = [serial EXCEPT ![a] = allocated + 1]
      /\ sessions' = sessions \cup {a}
      /\ mainQueue' = mainQueue
  BY <1>0 DEF clientConnected
<1>2. /\ c.address = a /\ allocated \in Nat
      /\ new \in ActionRecord /\ new.connection = c /\ new.kind = "onConnected"
  BY <1>0 DEF QtInv, QtTypeOK, Connection, Action, Actions, ActionRecord
<1>3. At(a)' = c /\ socket'[a] = "open"
  BY <1>0, <1>1 DEF At, QtInv, QtTypeOK
<1>4. \A d \in Connection : Exists(d) => d.address # a /\ Exists(d)'
  BY <1>1 DEF Exists, At, Connection, QtInv, QtTypeOK
<1>5. actorQueue \in Seq(ActionRecord)
  BY DEF QtInv, QtTypeOK, ActionRecord
<1>6. c \notin alive
  BY <1>2, <1>4 DEF QtInv, AliveInv
<1> HIDE DEF new
<1>7. /\ actorQueue' \in Seq(ActionRecord)
      /\ Len(actorQueue') = Len(actorQueue) + 1
      /\ \A i \in 1..Len(actorQueue) : actorQueue'[i] = actorQueue[i]
      /\ actorQueue'[Len(actorQueue) + 1] = new
      /\ Len(actorQueue) \in Nat
  BY <1>1, <1>2, <1>5, Appended
<1>8. QtTypeOK'
  <2>1. socket' \in [Address -> {"none", "open", "closing", "disconnected"}]
    BY <1>1 DEF QtInv, QtTypeOK
  <2>2. allocated' \in Nat /\ serial' \in [Address -> 0..allocated']
    <3>1. allocated + 1 \in Nat /\ \A n \in 0..allocated : n \in 0..(allocated + 1)
      BY <1>2
    <3>2. serial \in [Address -> 0..allocated] /\ allocated + 1 \in 0..(allocated + 1)
      BY <1>2 DEF QtInv, QtTypeOK
    <3> QED
      BY <1>1, <3>1, <3>2
  <2>3. sessions' = {b \in Address : socket'[b] \in {"open", "closing"}}
    BY <1>1 DEF QtInv, QtTypeOK
  <2>4. alive' \subseteq Connection
    BY <1>1, <1>2 DEF QtInv, QtTypeOK
  <2>5. actorQueue' \in Seq([kind : Actions, connection : Connection, message : Nat])
    BY <1>7 DEF ActionRecord
  <2>6. /\ waiting' \in [Address -> {"null", "true", "false"}]
        /\ delayed' \in [Address -> Nat]
        /\ authorized' \in [Address -> {"unknown", "yes", "no"}]
        /\ received' \in Nat
        /\ called' \in Nat
        /\ handled' \in [Address -> Seq(Nat)]
    BY DEF clientConnected, QtInv, QtTypeOK
  <2>7. mainQueue' \in Seq([kind : Events, connection : Connection])
    BY <1>1 DEF QtInv, QtTypeOK
  <2> QED
    BY <2>1, <2>2, <2>3, <2>4, <2>5, <2>6, <2>7 DEF QtTypeOK
<1>9. AliveInv'
  <2>1. \A d \in alive' : Exists(d)'
    <3>1. Exists(c)'
      BY <1>2, <1>3 DEF Exists
    <3> QED
      BY <1>1, <1>4, <3>1 DEF QtInv, QtTypeOK, AliveInv
  <2>2. \A b \in sessions' : At(b)' \in alive'
    <3>1. \A b \in sessions : At(b)' = At(b) /\ At(b) \in alive
      BY <1>1 DEF QtInv, QtTypeOK, AliveInv, At
    <3> QED
      BY <1>1, <1>3, <3>1
  <2> QED
    BY <2>1, <2>2 DEF AliveInv
<1>10. ActionsInv'
  <2> SUFFICES ASSUME NEW i \in 1..Len(actorQueue')
               PROVE  /\ actorQueue'[i].connection \in alive'
                      /\ actorQueue'[i].kind = "destroySession" =>
                            LastAction(i)' /\ actorQueue'[i].connection.address \notin sessions'
    BY DEF ActionsInv
  <2>1. CASE i = Len(actorQueue) + 1
    BY <1>1, <1>2, <1>7, <2>1
  <2>2. CASE i # Len(actorQueue) + 1
    <3>1. i \in 1..Len(actorQueue) /\ actorQueue'[i] = actorQueue[i]
      BY <1>7, <2>2
    <3>2. actorQueue[i].connection \in alive /\ actorQueue[i].connection # c
          /\ actorQueue[i].connection.address # a
      BY <1>4, <1>6, <3>1 DEF QtInv, QtTypeOK, ActionsInv, AliveInv
    <3>3. ASSUME actorQueue'[i].kind = "destroySession"
          PROVE  LastAction(i)' /\ actorQueue'[i].connection.address \notin sessions'
      <4>1. LastAction(i) /\ actorQueue[i].connection.address \notin sessions
        BY <3>1, <3>3 DEF QtInv, ActionsInv
      <4>2. ASSUME NEW j \in 1..Len(actorQueue'), j > i
            PROVE  actorQueue'[j].connection # actorQueue'[i].connection
        <5>1. CASE j = Len(actorQueue) + 1
          BY <1>2, <1>7, <3>1, <3>2, <5>1
        <5>2. CASE j # Len(actorQueue) + 1
          <6>1. j \in 1..Len(actorQueue) /\ actorQueue'[j] = actorQueue[j]
            BY <1>7, <5>2
          <6> QED
            BY <3>1, <4>1, <4>2, <6>1 DEF LastAction
        <5> QED
          BY <5>1, <5>2
      <4> QED
        BY <1>1, <3>1, <3>2, <4>1, <4>2 DEF LastAction
    <3> QED
      BY <1>1, <3>1, <3>2, <3>3
  <2> QED
    BY <2>1, <2>2
<1>11. EventsInv'
  <2> SUFFICES ASSUME NEW i \in 1..Len(mainQueue)
               PROVE  /\ Exists(mainQueue[i].connection)'
                      /\ mainQueue[i].kind \in Farewells =>
                            /\ LastEvent(i)'
                            /\ mainQueue[i].connection \notin alive'
    BY <1>1 DEF EventsInv
  <2>1. /\ mainQueue[i].connection \in Connection
        /\ Exists(mainQueue[i].connection)
        /\ mainQueue[i].connection # c
    BY <1>2, <1>4, EventType DEF QtInv, EventsInv
  <2>2. Exists(mainQueue[i].connection)'
    BY <1>1, <1>4, <2>1 DEF QtInv, QtTypeOK, Exists, At, Connection
  <2> QED
    BY <1>1, <2>1, <2>2 DEF QtInv, EventsInv, LastEvent
<1> QED
  BY <1>8, <1>9, <1>10, <1>11 DEF QtInv

LEMMA DisconnectedStep ==
    ASSUME QtInv, NEW a \in Address, clientDisconnected(a)
    PROVE  QtInv'
<1>1. /\ socket[a] \in {"open", "closing"}
      /\ socket' = [socket EXCEPT ![a] = "disconnected"]
      /\ sessions' = sessions \ {a}
      /\ postAction("destroySession", a, 0)
      /\ UNCHANGED <<allocated, serial, waiting, delayed, received, actorVars, mainQueue>>
  BY DEF clientDisconnected
<1>2. a \in sessions /\ alive' = alive /\ SocketsStay
  BY <1>1 DEF QtInv, QtTypeOK, actorVars, SocketsStay
<1>3. ActionsInv' /\ actorQueue' \in Seq(ActionRecord)
  BY <1>1, <1>2, ActionsPosted DEF Actions
<1>4. QtTypeOK'
  <2>1. /\ socket' \in [Address -> {"none", "open", "closing", "disconnected"}]
        /\ sessions' = {b \in Address : socket'[b] \in {"open", "closing"}}
    BY <1>1 DEF QtInv, QtTypeOK
  <2> QED
    BY <1>1, <1>3, <2>1 DEF QtInv, QtTypeOK, actorVars, ActionRecord
<1>5. AliveInv'
  <2>1. \A c \in alive' : Exists(c)'
    BY <1>2, StillExists DEF QtInv, QtTypeOK, AliveInv
  <2>2. \A b \in sessions' : At(b)' \in alive'
    BY <1>1, <1>2 DEF QtInv, AliveInv, At
  <2> QED
    BY <2>1, <2>2 DEF AliveInv
<1>6. EventsInv'
  BY <1>1, <1>2, EventsStay
<1> QED
  BY <1>3, <1>4, <1>5, <1>6 DEF QtInv

\* What the steps that read a socket or its timer have in common.
Input(a) ==
    /\ closeConnection(a) \/ socket' = socket
    /\ \/ actorQueue' = actorQueue
       \/ /\ a \in sessions
          /\ \E kind \in {"handleRequest", "handleResponse"}, n \in Nat : postAction(kind, a, n)
    /\ waiting' \in [Address -> {"null", "true", "false"}]
    /\ delayed' \in [Address -> Nat]
    /\ received' \in Nat
    /\ UNCHANGED <<allocated, serial, sessions, actorVars, mainQueue>>

LEMMA InputStep ==
    ASSUME QtInv, NEW a \in Address, Input(a)
    PROVE  QtInv'
<1>1. /\ SocketsStay
      /\ socket' \in [Address -> {"none", "open", "closing", "disconnected"}]
      /\ sessions = {b \in Address : socket'[b] \in {"open", "closing"}}
  <2>1. CASE closeConnection(a)
    BY <2>1, CloseKeeps DEF QtInv, Input
  <2>2. CASE socket' = socket
    BY <2>2 DEF QtInv, QtTypeOK, Input, SocketsStay
  <2> QED
    BY <2>1, <2>2 DEF Input
<1>2. alive' = alive /\ sessions' = sessions /\ mainQueue' = mainQueue
  BY DEF Input, actorVars
<1>3. ActionsInv' /\ actorQueue' \in Seq(ActionRecord)
  <2>1. CASE actorQueue' = actorQueue
    BY <1>2, <2>1, ActionsStay DEF QtInv, QtTypeOK, ActionRecord
  <2>2. CASE /\ a \in sessions
             /\ \E kind \in {"handleRequest", "handleResponse"}, n \in Nat : postAction(kind, a, n)
    <3>1. PICK kind \in {"handleRequest", "handleResponse"}, n \in Nat : postAction(kind, a, n)
      BY <2>2
    <3>2. kind \in Actions /\ kind # "destroySession"
      BY DEF Actions
    <3> QED
      BY <1>2, <2>2, <3>1, <3>2, ActionsPosted
  <2> QED
    BY <2>1, <2>2 DEF Input
<1>4. QtTypeOK'
  BY <1>1, <1>2, <1>3 DEF QtInv, QtTypeOK, Input, actorVars, ActionRecord
<1>5. AliveInv'
  BY <1>1, <1>2, AliveStays DEF QtInv, AliveInv
<1>6. EventsInv'
  BY <1>1, <1>2, EventsStay
<1> QED
  BY <1>3, <1>4, <1>5, <1>6 DEF QtInv

LEMMA InputsAreInputs ==
    ASSUME QtInv, NEW a \in Address,
           handleRequest(a) \/ handleResponse(a) \/ Malformed(a) \/ FirstRequestDelayEnds(a)
    PROVE  Input(a)
<1>1. received \in Nat /\ received + 1 \in Nat /\ delayed[a] \in Nat
      /\ waiting \in [Address -> {"null", "true", "false"}]
      /\ delayed \in [Address -> Nat]
  BY DEF QtInv, QtTypeOK
<1>2. Receives(a) => a \in sessions /\ received' = received + 1
  BY DEF Receives, QtInv, QtTypeOK
<1>3. CASE handleRequest(a)
  <2>1. /\ Receives(a)
        /\ UNCHANGED <<allocated, serial, sessions, actorVars, mainQueue>>
    BY <1>3 DEF handleRequest
  <2>2. closeConnection(a) \/ socket' = socket
    BY <1>3 DEF handleRequest
  <2>3. actorQueue' = actorQueue \/ postAction("handleRequest", a, received + 1)
    BY <1>3 DEF handleRequest
  <2>4. /\ waiting' \in [Address -> {"null", "true", "false"}]
        /\ delayed' \in [Address -> Nat]
    BY <1>1, <1>3 DEF handleRequest
  <2> QED
    BY <1>1, <1>2, <2>1, <2>2, <2>3, <2>4 DEF Input
<1>4. CASE handleResponse(a)
  BY <1>1, <1>2, <1>4 DEF handleResponse, Input
<1>5. CASE Malformed(a)
  BY <1>1, <1>2, <1>5 DEF Malformed, Input
<1>6. CASE FirstRequestDelayEnds(a)
  <2>1. /\ waiting' = [waiting EXCEPT ![a] = "false"]
        /\ delayed' = [delayed EXCEPT ![a] = 0]
        /\ UNCHANGED <<socket, allocated, serial, sessions, received, actorVars, mainQueue>>
    BY <1>6 DEF FirstRequestDelayEnds
  <2>2. \/ actorQueue' = actorQueue
        \/ a \in sessions /\ postAction("handleRequest", a, delayed[a])
    BY <1>6 DEF FirstRequestDelayEnds
  <2> QED
    BY <1>1, <2>1, <2>2 DEF Input
<1> QED
  BY <1>3, <1>4, <1>5, <1>6

-----------------------------------------------------------------------------
(* The events of the main thread's queue.                                  *)

LEMMA HeadEvent ==
    ASSUME QtInv, mainQueue # <<>>
    PROVE  /\ Head(mainQueue) = mainQueue[1]
           /\ 1 \in 1..Len(mainQueue)
           /\ mainQueue[1] \in EventRecord
           /\ Head(mainQueue).connection \in Connection
           /\ Head(mainQueue).connection.address \in Address
<1>1. mainQueue \in Seq(EventRecord)
  BY DEF QtInv, QtTypeOK, EventRecord
<1>2. Head(mainQueue) = mainQueue[1] /\ 1 \in 1..Len(mainQueue)
  BY <1>1, Popped
<1>3. mainQueue[1] \in EventRecord /\ mainQueue[1].connection \in Connection
  BY <1>2, EventType DEF QtInv
<1> QED
  BY <1>2, <1>3 DEF Connection

\* An event that is handled without deleting a socket.
LEMMA QuietEventStep ==
    ASSUME QtInv, mainQueue # <<>>, mainQueue' = Tail(mainQueue),
           socket' = socket \/ closeConnection(Head(mainQueue).connection.address),
           UNCHANGED <<allocated, serial, sessions, received, waiting, delayed,
                       actorVars, actorQueue>>
    PROVE  QtInv'
<1>1. /\ SocketsStay
      /\ socket' \in [Address -> {"none", "open", "closing", "disconnected"}]
      /\ sessions = {b \in Address : socket'[b] \in {"open", "closing"}}
  <2>1. CASE closeConnection(Head(mainQueue).connection.address)
    BY <2>1, CloseKeeps, HeadEvent DEF QtInv
  <2>2. CASE socket' = socket
    BY <2>2 DEF QtInv, QtTypeOK, SocketsStay
  <2> QED
    BY <2>1, <2>2
<1>2. alive' = alive
  BY DEF actorVars
<1>3. mainQueue' \in Seq(EventRecord)
  BY Popped DEF QtInv, QtTypeOK, EventRecord
<1>4. QtTypeOK'
  BY <1>1, <1>2, <1>3 DEF QtInv, QtTypeOK, actorVars, EventRecord
<1>5. AliveInv'
  BY <1>1, <1>2, AliveStays DEF QtInv, AliveInv
<1>6. ActionsInv'
  BY <1>2, ActionsStay
<1>7. EventsInv'
  BY <1>1, <1>2, EventsPopped
<1> QED
  BY <1>4, <1>5, <1>6, <1>7 DEF QtInv

\* The farewell at the head is the only event that names its connection.
LEMMA OrphanedStep ==
    ASSUME QtInv, mainQueue # <<>>, connectionOrphaned,
           UNCHANGED <<allocated, serial, sessions, received, actorVars, actorQueue>>
    PROVE  QtInv'
<1>1. PICK c \in Connection : c = Head(mainQueue).connection
  BY HeadEvent
<1> DEFINE new == Event("deferredDelete", c)
<1>2. /\ Head(mainQueue).kind = "connectionOrphaned"
      /\ mainQueue' = Append(Tail(mainQueue), new)
      /\ UNCHANGED <<socket, waiting, delayed>>
  BY <1>1 DEF connectionOrphaned
<1>3. alive' = alive /\ SocketsStay
  BY <1>2 DEF actorVars, SocketsStay
<1>4. /\ Head(mainQueue) = mainQueue[1] /\ Exists(c) /\ c \notin alive
      /\ \A j \in 1..Len(mainQueue) : j > 1 => mainQueue[j].connection # c
  BY <1>1, <1>2, HeadEvent DEF QtInv, EventsInv, Farewells, LastEvent
<1>5. new \in EventRecord /\ new.connection = c /\ new.kind = "deferredDelete"
  BY DEF Event, EventRecord, Events
<1> DEFINE rest == Tail(mainQueue)
<1>6. mainQueue \in Seq(EventRecord)
  BY DEF QtInv, QtTypeOK, EventRecord
<1>7. /\ rest \in Seq(EventRecord)
      /\ Len(rest) = Len(mainQueue) - 1
      /\ \A i \in 1..Len(rest) : i + 1 \in 1..Len(mainQueue) /\ rest[i] = mainQueue[i + 1]
      /\ Len(mainQueue) \in Nat
  BY <1>6, Popped
<1> HIDE DEF new, rest
<1>8. /\ mainQueue' \in Seq(EventRecord)
      /\ Len(mainQueue') = Len(rest) + 1
      /\ \A i \in 1..Len(rest) : mainQueue'[i] = rest[i]
      /\ mainQueue'[Len(rest) + 1] = new
      /\ Len(rest) \in Nat
  <2>1. mainQueue' = Append(rest, new)
    BY <1>2 DEF rest
  <2> QED
    BY <1>5, <1>7, <2>1, Appended
<1>9. QtTypeOK'
  BY <1>2, <1>8 DEF QtInv, QtTypeOK, actorVars, EventRecord
<1>10. AliveInv'
  BY <1>3, AliveStays DEF QtInv, AliveInv
<1>11. ActionsInv'
  BY <1>3, ActionsStay
<1>12. EventsInv'
  <2> SUFFICES ASSUME NEW i \in 1..Len(mainQueue')
               PROVE  /\ Exists(mainQueue[i].connection)'
                      /\ mainQueue'[i].kind \in Farewells =>
                            /\ LastEvent(i)'
                            /\ mainQueue'[i].connection \notin alive'
    BY DEF EventsInv
  <2>1. CASE i = Len(rest) + 1
    <3>1. \A j \in 1..Len(mainQueue') : ~(j > i)
      BY <1>8, <2>1
    <3>2. mainQueue'[i].connection = c
      BY <1>5, <1>8, <2>1
    <3>3. Exists(mainQueue[i].connection)'
      BY <1>2, <1>4, <3>2 DEF Exists, At
    <3> QED
      BY <1>3, <1>4, <3>1, <3>2, <3>3 DEF LastEvent
  <2>2. CASE i # Len(rest) + 1
    <3>1. /\ i \in 1..Len(rest)
          /\ i + 1 \in 1..Len(mainQueue)
          /\ mainQueue'[i] = mainQueue[i + 1]
          /\ i + 1 > 1
      BY <1>7, <1>8, <2>2
    <3>2. Exists(mainQueue[i + 1].connection) /\ mainQueue[i + 1].connection # c
      BY <1>4, <3>1 DEF QtInv, EventsInv
    <3>3. Exists(mainQueue[i].connection)'
      BY <1>2, <3>1, <3>2 DEF Exists, At
    <3>4. ASSUME mainQueue'[i].kind \in Farewells
          PROVE  LastEvent(i)' /\ mainQueue'[i].connection \notin alive'
      <4>1. LastEvent(i + 1) /\ mainQueue[i + 1].connection \notin alive
        BY <3>1, <3>4 DEF QtInv, EventsInv
      <4>2. ASSUME NEW j \in 1..Len(mainQueue'), j > i
            PROVE  mainQueue'[j].connection # mainQueue'[i].connection
        <5>1. CASE j = Len(rest) + 1
          BY <1>5, <1>8, <3>1, <3>2, <5>1
        <5>2. CASE j # Len(rest) + 1
          <6>1. j \in 1..Len(rest) /\ j + 1 > i + 1
            BY <1>8, <4>2, <5>2
          <6>2. j + 1 \in 1..Len(mainQueue) /\ mainQueue'[j] = mainQueue[j + 1]
            BY <1>7, <1>8, <6>1
          <6> QED
            BY <3>1, <4>1, <6>1, <6>2 DEF LastEvent
        <5> QED
          BY <5>1, <5>2
      <4> QED
        BY <1>3, <3>1, <4>1, <4>2 DEF LastEvent
    <3> QED
      BY <3>3, <3>4
  <2> QED
    BY <2>1, <2>2
<1> QED
  BY <1>9, <1>10, <1>11, <1>12 DEF QtInv

\* When the socket is deleted nothing at its address is left to name.
LEMMA DeletedStep ==
    ASSUME QtInv, mainQueue # <<>>, deferredDelete,
           UNCHANGED <<allocated, serial, sessions, received, actorVars, actorQueue>>
    PROVE  QtInv'
<1>1. PICK c \in Connection : c = Head(mainQueue).connection
  BY HeadEvent
<1>2. /\ Head(mainQueue).kind = "deferredDelete"
      /\ socket' = [socket EXCEPT ![c.address] = "none"]
      /\ waiting' = [waiting EXCEPT ![c.address] = "null"]
      /\ delayed' = [delayed EXCEPT ![c.address] = 0]
      /\ mainQueue' = Tail(mainQueue)
  BY <1>1 DEF deferredDelete
<1>3. alive' = alive /\ serial' = serial /\ sessions' = sessions /\ c.address \in Address
  BY DEF actorVars, Connection
<1>4. /\ Exists(c) /\ c \notin alive
      /\ \A j \in 1..Len(mainQueue) : j > 1 => mainQueue[j].connection # c
  BY <1>1, <1>2, HeadEvent DEF QtInv, EventsInv, Farewells, LastEvent
<1>5. c.address \notin sessions
  BY <1>4 DEF QtInv, AliveInv, Exists
<1>6. \A d \in Connection : Exists(d) /\ d # c => d.address # c.address /\ Exists(d)'
  BY <1>2, <1>3, <1>4 DEF Exists, At, QtInv, QtTypeOK, Connection
<1>7. /\ mainQueue' \in Seq(EventRecord)
      /\ Len(mainQueue') = Len(mainQueue) - 1
      /\ \A i \in 1..Len(mainQueue') : i + 1 \in 1..Len(mainQueue) /\ mainQueue'[i] = mainQueue[i + 1]
      /\ Len(mainQueue) \in Nat
  BY <1>2, Popped DEF QtInv, QtTypeOK, EventRecord
<1>8. QtTypeOK'
  <2>1. /\ socket' \in [Address -> {"none", "open", "closing", "disconnected"}]
        /\ sessions' = {b \in Address : socket'[b] \in {"open", "closing"}}
    BY <1>2, <1>3, <1>5 DEF QtInv, QtTypeOK
  <2>2. /\ waiting' \in [Address -> {"null", "true", "false"}]
        /\ delayed' \in [Address -> Nat]
    BY <1>2 DEF QtInv, QtTypeOK
  <2> QED
    BY <1>7, <2>1, <2>2 DEF QtInv, QtTypeOK, actorVars, EventRecord
<1>9. AliveInv'
  <2>1. \A d \in alive' : Exists(d)'
    BY <1>3, <1>4, <1>6 DEF QtInv, QtTypeOK, AliveInv
  <2>2. \A b \in sessions' : At(b)' \in alive'
    BY <1>3 DEF QtInv, AliveInv, At
  <2> QED
    BY <2>1, <2>2 DEF AliveInv
<1>10. ActionsInv'
  BY <1>3, ActionsStay
<1>11. EventsInv'
  <2> SUFFICES ASSUME NEW i \in 1..Len(mainQueue')
               PROVE  /\ Exists(mainQueue[i].connection)'
                      /\ mainQueue'[i].kind \in Farewells =>
                            /\ LastEvent(i)'
                            /\ mainQueue'[i].connection \notin alive'
    BY DEF EventsInv
  <2>1. i + 1 \in 1..Len(mainQueue) /\ mainQueue'[i] = mainQueue[i + 1] /\ i + 1 > 1
    BY <1>7
  <2>2. /\ mainQueue[i + 1].connection \in Connection
        /\ Exists(mainQueue[i + 1].connection)
        /\ mainQueue[i + 1].connection # c
    BY <1>4, <2>1, EventType DEF QtInv, EventsInv
  <2>3. Exists(mainQueue[i].connection)'
    BY <1>2, <1>3, <1>6, <2>1, <2>2 DEF Exists, At, QtInv, QtTypeOK, Connection
  <2>4. ASSUME mainQueue'[i].kind \in Farewells
        PROVE  LastEvent(i)' /\ mainQueue'[i].connection \notin alive'
    <3>1. LastEvent(i + 1) /\ mainQueue[i + 1].connection \notin alive
      BY <2>1, <2>4 DEF QtInv, EventsInv
    <3>2. ASSUME NEW j \in 1..Len(mainQueue'), j > i
          PROVE  mainQueue'[j].connection # mainQueue'[i].connection
      <4>1. j + 1 \in 1..Len(mainQueue) /\ mainQueue'[j] = mainQueue[j + 1] /\ j + 1 > i + 1
        BY <1>7, <3>2
      <4> QED
        BY <2>1, <3>1, <4>1 DEF LastEvent
    <3> QED
      BY <1>3, <2>1, <3>1, <3>2 DEF LastEvent
  <2> QED
    BY <2>3, <2>4
<1> QED
  BY <1>8, <1>9, <1>10, <1>11 DEF QtInv

LEMMA MainEventStep ==
    ASSUME QtInv, MainEvent
    PROVE  QtInv'
<1>1. mainQueue # <<>> /\ UNCHANGED <<allocated, serial, sessions, received, actorVars, actorQueue>>
  BY DEF MainEvent
<1>2. CASE sendMessage
  BY <1>1, <1>2, QuietEventStep DEF sendMessage
<1>3. CASE closeConnectionEvent
  BY <1>1, <1>3, QuietEventStep DEF closeConnectionEvent
<1>4. CASE clientAuthorized
  BY <1>1, <1>4, QuietEventStep DEF clientAuthorized
<1>5. CASE connectionOrphaned
  BY <1>1, <1>5, OrphanedStep
<1>6. CASE deferredDelete
  BY <1>1, <1>6, DeletedStep
<1> QED
  BY <1>2, <1>3, <1>4, <1>5, <1>6 DEF MainEvent

-----------------------------------------------------------------------------
(* The steps of the actor's thread.                                        *)

LEMMA HeadAction ==
    ASSUME QtInv, actorQueue # <<>>
    PROVE  /\ Head(actorQueue) = actorQueue[1]
           /\ 1 \in 1..Len(actorQueue)
           /\ actorQueue[1] \in ActionRecord
           /\ Head(actorQueue).connection \in alive
           /\ Head(actorQueue).connection \in Connection
           /\ Head(actorQueue).connection.address \in Address
           /\ Head(actorQueue).message \in Nat
<1>1. actorQueue \in Seq(ActionRecord)
  BY DEF QtInv, QtTypeOK, ActionRecord
<1>2. Head(actorQueue) = actorQueue[1] /\ 1 \in 1..Len(actorQueue)
  BY <1>1, Popped
<1>3. actorQueue[1] \in ActionRecord /\ actorQueue[1].connection \in Connection
  BY <1>2, ActionType DEF QtInv
<1>4. actorQueue[1].connection \in alive
  BY <1>2 DEF QtInv, ActionsInv
<1>5. actorQueue[1].message \in Nat
  BY <1>3 DEF ActionRecord
<1> QED
  BY <1>2, <1>3, <1>4, <1>5 DEF Connection

\* The rest of the actor's queue is as good as it was, without the session
\* that the head destroyed if that is what it did.
LEMMA ActionsPopped ==
    ASSUME QtInv, actorQueue # <<>>, actorQueue' = Tail(actorQueue), sessions' = sessions,
           \/ alive' = alive
           \/ /\ Head(actorQueue).kind = "destroySession"
              /\ alive' = alive \ {Head(actorQueue).connection}
    PROVE  ActionsInv' /\ actorQueue' \in Seq(ActionRecord)
<1>0. actorQueue \in Seq(ActionRecord)
  BY DEF QtInv, QtTypeOK, ActionRecord
<1>1. /\ actorQueue' \in Seq(ActionRecord)
      /\ Len(actorQueue') = Len(actorQueue) - 1
      /\ \A i \in 1..Len(actorQueue') : i + 1 \in 1..Len(actorQueue) /\ actorQueue'[i] = actorQueue[i + 1]
      /\ Len(actorQueue) \in Nat
  BY <1>0, Popped
<1> SUFFICES ASSUME NEW i \in 1..Len(actorQueue')
             PROVE  /\ actorQueue'[i].connection \in alive'
                    /\ actorQueue'[i].kind = "destroySession" =>
                          LastAction(i)' /\ actorQueue'[i].connection.address \notin sessions'
  BY <1>1 DEF ActionsInv
<1>2. i + 1 \in 1..Len(actorQueue) /\ actorQueue'[i] = actorQueue[i + 1] /\ i + 1 > 1
  BY <1>1
<1>3. actorQueue'[i].connection \in alive'
  <2>1. actorQueue[i + 1].connection \in alive
    BY <1>2 DEF QtInv, ActionsInv
  <2>2. Head(actorQueue).kind = "destroySession"
            => actorQueue[i + 1].connection # Head(actorQueue).connection
    BY <1>2, HeadAction DEF QtInv, ActionsInv, LastAction
  <2> QED
    BY <1>2, <2>1, <2>2
<1>4. ASSUME actorQueue'[i].kind = "destroySession"
      PROVE  LastAction(i)' /\ actorQueue'[i].connection.address \notin sessions'
  <2>1. LastAction(i + 1) /\ actorQueue[i + 1].connection.address \notin sessions
    BY <1>2, <1>4 DEF QtInv, ActionsInv
  <2>2. ASSUME NEW j \in 1..Len(actorQueue'), j > i
        PROVE  actorQueue'[j].connection # actorQueue'[i].connection
    <3>1. j + 1 \in 1..Len(actorQueue) /\ actorQueue'[j] = actorQueue[j + 1]
      BY <1>1
    <3>2. j + 1 > i + 1
      BY <1>1, <2>2
    <3> QED
      BY <1>2, <2>1, <3>1, <3>2 DEF LastAction
  <2> QED
    BY <1>2, <2>1, <2>2 DEF LastAction
<1> QED
  BY <1>3, <1>4

\* A step in which one live session talks, or nobody does.
LEMMA TalkStep ==
    ASSUME QtInv, NEW c \in alive,
           Talks(c) \/ mainQueue' = mainQueue,
           UNCHANGED <<mainVars, alive>>,
           ActionsInv', actorQueue' \in Seq(ActionRecord),
           authorized' \in [Address -> {"unknown", "yes", "no"}],
           called' \in Nat,
           handled' \in [Address -> Seq(Nat)]
    PROVE  QtInv'
<1>1. SocketsStay /\ alive' = alive /\ sessions' = sessions /\ UNCHANGED <<socket, serial>>
  BY DEF mainVars, SocketsStay
<1>2. mainQueue' \in Seq(EventRecord)
  BY DEF QtInv, QtTypeOK, Talks, EventRecord
<1>3. QtTypeOK'
  BY <1>1, <1>2 DEF QtInv, QtTypeOK, mainVars, EventRecord, ActionRecord
<1>4. AliveInv'
  BY <1>1, AliveStays DEF QtInv, AliveInv
<1>5. EventsInv'
  <2>1. CASE Talks(c)
    BY <1>1, <2>1, TalkKeepsEvents
  <2>2. CASE mainQueue' = mainQueue
    BY <1>1, <2>2, EventsStay
  <2> QED
    BY <2>1, <2>2
<1> QED
  BY <1>3, <1>4, <1>5 DEF QtInv

LEMMA OutcomesAreChatter ==
    /\ Outcomes \subseteq Seq(Chatter)
    /\ <<"closeConnection">> \in Seq(Chatter)
    /\ <<"sendMessage">> \in Seq(Chatter)
    /\ \A outcome \in Outcomes :
           /\ Append(outcome, "clientAuthorized") \in Seq(Chatter)
           /\ outcome \o <<"clientAuthorized", "closeConnection">> \in Seq(Chatter)
BY DEF Outcomes, Chatter

LEMMA HandlesRequestStep ==
    ASSUME QtInv, actorQueue # <<>>, actorQueue' = Tail(actorQueue),
           SessionHandlesRequest, UNCHANGED <<mainVars, called>>
    PROVE  QtInv'
<1>1. PICK c \in alive : c = Head(actorQueue).connection
  BY HeadAction
<1>2. c \in Connection /\ c.address \in Address /\ Head(actorQueue).message \in Nat
  BY <1>1, HeadAction
<1>3. alive' = alive /\ sessions' = sessions
  BY DEF SessionHandlesRequest, mainVars
<1>4. ActionsInv' /\ actorQueue' \in Seq(ActionRecord)
  BY <1>3, ActionsPopped
<1>5. \E kinds \in Seq(Chatter) : Post(kinds, c)
  BY <1>1, OutcomesAreChatter DEF SessionHandlesRequest, RefuseRequest
<1>6. Talks(c)
  BY <1>2, <1>5, PostTalks DEF QtInv
<1>7. authorized' \in [Address -> {"unknown", "yes", "no"}]
  <2>1. \/ authorized' = authorized
        \/ authorized' = [authorized EXCEPT ![c.address] = "yes"]
        \/ authorized' = [authorized EXCEPT ![c.address] = "no"]
    BY <1>1 DEF SessionHandlesRequest
  <2> QED
    BY <2>1 DEF QtInv, QtTypeOK
<1>8. handled' \in [Address -> Seq(Nat)]
  <2>1. handled' = [handled EXCEPT ![c.address] = Append(handled[c.address], Head(actorQueue).message)]
    BY <1>1 DEF SessionHandlesRequest
  <2>2. Append(handled[c.address], Head(actorQueue).message) \in Seq(Nat)
    BY <1>2 DEF QtInv, QtTypeOK
  <2> QED
    BY <2>1, <2>2 DEF QtInv, QtTypeOK
<1>9. called' \in Nat
  BY DEF QtInv, QtTypeOK
<1> QED
  BY <1>3, <1>4, <1>6, <1>7, <1>8, <1>9, TalkStep

LEMMA QuietActionStep ==
    ASSUME QtInv, actorQueue # <<>>, actorQueue' = Tail(actorQueue),
           onConnected \/ SessionHandlesResponse, UNCHANGED <<mainVars, called>>
    PROVE  QtInv'
<1>1. PICK c \in alive : c = Head(actorQueue).connection
  BY HeadAction
<1>2. c \in Connection
  BY <1>1, HeadAction
<1>3. alive' = alive /\ sessions' = sessions /\ UNCHANGED <<authorized, handled>>
  BY DEF onConnected, SessionHandlesResponse, mainVars
<1>4. ActionsInv' /\ actorQueue' \in Seq(ActionRecord)
  BY <1>3, ActionsPopped
<1>5. mainQueue' = mainQueue \/ \E kinds \in Seq(Chatter) : Post(kinds, c)
  BY <1>1, OutcomesAreChatter DEF onConnected, SessionHandlesResponse
<1>6. Talks(c) \/ mainQueue' = mainQueue
  BY <1>2, <1>5, PostTalks DEF QtInv
<1>7. /\ authorized' \in [Address -> {"unknown", "yes", "no"}]
      /\ called' \in Nat
      /\ handled' \in [Address -> Seq(Nat)]
  BY <1>3 DEF QtInv, QtTypeOK
<1> QED
  BY <1>3, <1>4, <1>6, <1>7, TalkStep

\* The session is gone before anything says so to the main thread.
LEMMA DestroyStep ==
    ASSUME QtInv, actorQueue # <<>>, actorQueue' = Tail(actorQueue),
           destroySession, UNCHANGED <<mainVars, called>>
    PROVE  QtInv'
<1>1. PICK c \in alive : c = Head(actorQueue).connection
  BY HeadAction
<1> DEFINE new == Event("connectionOrphaned", c)
<1>2. /\ alive' = alive \ {c}
      /\ Head(actorQueue).kind = "destroySession"
      /\ UNCHANGED <<authorized, handled, mainVars, called>>
  BY <1>1 DEF destroySession
<1>3. c \in Connection /\ Exists(c)
  BY <1>1, HeadAction DEF QtInv, AliveInv
<1>4. c.address \notin sessions
  BY <1>1, <1>2, HeadAction DEF QtInv, ActionsInv
<1>5. SocketsStay /\ sessions' = sessions /\ UNCHANGED <<socket, serial>>
  BY <1>2 DEF mainVars, SocketsStay
<1>6. new \in EventRecord /\ new.connection = c /\ new.kind = "connectionOrphaned"
  BY <1>3 DEF Event, EventRecord, Events
<1>7. mainQueue' = Append(mainQueue, new)
  <2>1. mainQueue' = mainQueue \o [i \in 1..Len(<<"connectionOrphaned">>) |->
                                      Event(<<"connectionOrphaned">>[i], c)]
    BY <1>1 DEF destroySession, Post
  <2>2. [i \in 1..Len(<<"connectionOrphaned">>) |-> Event(<<"connectionOrphaned">>[i], c)] = <<new>>
    BY DEF Event
  <2>3. mainQueue \in Seq(EventRecord)
    BY DEF QtInv, QtTypeOK, EventRecord
  <2> HIDE DEF new
  <2> QED
    BY <1>6, <2>1, <2>2, <2>3
<1> HIDE DEF new
<1>8. /\ mainQueue' \in Seq(EventRecord)
      /\ Len(mainQueue') = Len(mainQueue) + 1
      /\ \A i \in 1..Len(mainQueue) : mainQueue'[i] = mainQueue[i]
      /\ mainQueue'[Len(mainQueue) + 1] = new
      /\ Len(mainQueue) \in Nat
  <2>1. mainQueue \in Seq(EventRecord)
    BY DEF QtInv, QtTypeOK, EventRecord
  <2> QED
    BY <1>6, <1>7, <2>1, Appended
<1>9. ActionsInv' /\ actorQueue' \in Seq(ActionRecord)
  BY <1>1, <1>2, <1>5, ActionsPopped
<1>10. QtTypeOK'
  BY <1>2, <1>8, <1>9 DEF QtInv, QtTypeOK, mainVars, EventRecord, ActionRecord
<1>11. AliveInv'
  <2>1. \A a \in sessions : At(a) \in alive'
    BY <1>2, <1>4, AtType DEF QtInv, QtTypeOK, AliveInv
  <2> QED
    BY <1>2, <1>5, <2>1, AliveStays
<1>12. EventsInv'
  <2> SUFFICES ASSUME NEW i \in 1..Len(mainQueue')
               PROVE  /\ Exists(mainQueue[i].connection)'
                      /\ mainQueue'[i].kind \in Farewells =>
                            /\ LastEvent(i)'
                            /\ mainQueue'[i].connection \notin alive'
    BY DEF EventsInv
  <2>1. CASE i = Len(mainQueue) + 1
    <3>1. \A j \in 1..Len(mainQueue') : ~(j > i)
      BY <1>8, <2>1
    <3>2. mainQueue'[i].connection = c
      BY <1>6, <1>8, <2>1
    <3>3. Exists(mainQueue[i].connection)'
      BY <1>3, <1>5, <3>2 DEF Exists, At
    <3> QED
      BY <1>2, <3>1, <3>2, <3>3 DEF LastEvent
  <2>2. CASE i # Len(mainQueue) + 1
    <3>1. i \in 1..Len(mainQueue) /\ mainQueue'[i] = mainQueue[i]
      BY <1>8, <2>2
    <3>2. Exists(mainQueue[i].connection)'
      BY <1>5, <3>1 DEF QtInv, EventsInv, Exists, At
    <3>3. ASSUME mainQueue'[i].kind \in Farewells
          PROVE  LastEvent(i)' /\ mainQueue'[i].connection \notin alive'
      <4>1. LastEvent(i) /\ mainQueue[i].connection \notin alive
        BY <3>1, <3>3 DEF QtInv, EventsInv
      <4>2. ASSUME NEW j \in 1..Len(mainQueue'), j > i
            PROVE  mainQueue'[j].connection # mainQueue'[i].connection
        <5>1. CASE j = Len(mainQueue) + 1
          BY <1>6, <1>8, <3>1, <4>1, <5>1
        <5>2. CASE j # Len(mainQueue) + 1
          <6>1. j \in 1..Len(mainQueue) /\ mainQueue'[j] = mainQueue[j]
            BY <1>8, <5>2
          <6> QED
            BY <3>1, <4>1, <4>2, <6>1 DEF LastEvent
        <5> QED
          BY <5>1, <5>2
      <4> QED
        BY <1>2, <3>1, <4>1, <4>2 DEF LastEvent
    <3> QED
      BY <3>2, <3>3
  <2> QED
    BY <2>1, <2>2
<1> QED
  BY <1>9, <1>10, <1>11, <1>12 DEF QtInv

LEMMA OnEventStep ==
    ASSUME QtInv, OnEvent
    PROVE  QtInv'
<1>1. actorQueue # <<>> /\ actorQueue' = Tail(actorQueue) /\ UNCHANGED <<mainVars, called>>
  BY DEF OnEvent
<1>2. CASE onConnected \/ SessionHandlesResponse
  BY <1>1, <1>2, QuietActionStep
<1>3. CASE SessionHandlesRequest
  BY <1>1, <1>3, HandlesRequestStep
<1>4. CASE destroySession
  BY <1>1, <1>4, DestroyStep
<1> QED
  BY <1>2, <1>3, <1>4 DEF OnEvent

LEMMA PeerCallbackStep ==
    ASSUME QtInv, NEW a \in Address, PeerCallback(a)
    PROVE  QtInv'
<1>1. PICK c \in alive : c = At(a)
  BY DEF PeerCallback
<1>2. c \in Connection
  BY <1>1, AtType DEF QtInv
<1>3. UNCHANGED <<mainVars, alive, authorized, handled, actorQueue>> /\ called' = called + 1
  BY DEF PeerCallback
<1>4. \E kinds \in Seq(Chatter) : Post(kinds, c)
  BY <1>1, OutcomesAreChatter DEF PeerCallback
<1>5. Talks(c)
  BY <1>2, <1>4, PostTalks DEF QtInv
<1>6. alive' = alive /\ sessions' = sessions /\ actorQueue' = actorQueue
  BY <1>3 DEF mainVars
<1>7. ActionsInv' /\ actorQueue' \in Seq(ActionRecord)
  BY <1>6, ActionsStay DEF QtInv, QtTypeOK, ActionRecord
<1>8. /\ authorized' \in [Address -> {"unknown", "yes", "no"}]
      /\ called' \in Nat
      /\ handled' \in [Address -> Seq(Nat)]
  BY <1>3 DEF QtInv, QtTypeOK
<1> QED
  BY <1>3, <1>5, <1>7, <1>8, TalkStep

-----------------------------------------------------------------------------
LEMMA QtInitInv == QtInit => QtInv
<1> SUFFICES ASSUME QtInit PROVE QtInv
  OBVIOUS
<1>1. QtTypeOK
  BY DEF QtInit, QtTypeOK
<1>2. AliveInv /\ ActionsInv /\ EventsInv
  BY DEF QtInit, AliveInv, ActionsInv, EventsInv
<1> QED
  BY <1>1, <1>2 DEF QtInv

\* The inductive invariant: a connection's farewells come in their order,
\* each the last thing in its queue to name the connection.
THEOREM QtInvariant == QtSpec => []QtInv
<1>1. QtInit => QtInv
  BY QtInitInv
<1>2. QtInv /\ [QtNext]_qtVars => QtInv'
  <2> SUFFICES ASSUME QtInv, [QtNext]_qtVars PROVE QtInv'
    OBVIOUS
  <2>1. ASSUME NEW a \in Address, SocketSteps(a) PROVE QtInv'
    BY <2>1, ConnectedStep, DisconnectedStep, InputsAreInputs, InputStep DEF SocketSteps
  <2>2. CASE \E a \in Address : PeerCallback(a)
    BY <2>2, PeerCallbackStep
  <2>3. CASE MainEvent
    BY <2>3, MainEventStep
  <2>4. CASE OnEvent
    BY <2>4, OnEventStep
  <2>5. CASE UNCHANGED qtVars
    BY <2>5 DEF qtVars, mainVars, actorVars, QtInv, QtTypeOK, AliveInv, ActionsInv,
                EventsInv, Exists, At, LastAction, LastEvent
  <2> QED
    BY <2>1, <2>2, <2>3, <2>4, <2>5 DEF QtNext
<1> QED
  BY <1>1, <1>2, PTL DEF QtSpec

\* Every variable keeps its shape, and _sessions has an entry for exactly the
\* sockets that are still connected.
THEOREM QtTypeCorrect == QtSpec => []QtTypeOK
BY QtInvariant, PTL DEF QtInv

\* What the comment in clientDisconnected asks for "100% guarantee" of: no
\* event for the main thread names a deleted connection, nor a new one that
\* happens to have its address.
THEOREM NeverStale == QtSpec => []NoStaleNotification
<1>1. QtInv => NoStaleNotification
  BY DEF QtInv, EventsInv, NoStaleNotification
<1> QED
  BY <1>1, QtInvariant, PTL

\* The raw pointers in the actor's queue point at sessions that exist.
THEOREM PointersGood == QtSpec => []SessionOutlivesItsActions
<1>1. QtInv => SessionOutlivesItsActions
  BY DEF QtInv, ActionsInv, SessionOutlivesItsActions
<1> QED
  BY <1>1, QtInvariant, PTL

\* clientDisconnected's assertion on use_count never fails.
THEOREM AlwaysSoleOwner == QtSpec => []SoleOwnerDestroys
<1>1. QtInv => SoleOwnerDestroys
  <2> SUFFICES ASSUME QtInv, actorQueue # <<>>, Head(actorQueue).kind = "destroySession"
               PROVE  /\ Head(actorQueue).connection.address \notin sessions
                      /\ \A i \in 2..Len(actorQueue) :
                             actorQueue[i].connection # Head(actorQueue).connection
    BY DEF SoleOwnerDestroys
  <2>1. LastAction(1) /\ actorQueue[1].connection.address \notin sessions
    BY HeadAction DEF QtInv, ActionsInv
  <2>2. ASSUME NEW i \in 2..Len(actorQueue)
        PROVE  actorQueue[i].connection # actorQueue[1].connection
    <3>1. i \in 1..Len(actorQueue) /\ i > 1
      OBVIOUS
    <3> QED
      BY <2>1, <3>1 DEF LastAction
  <2> QED
    BY <2>1, <2>2, HeadAction
<1> QED
  BY <1>1, QtInvariant, PTL

-----------------------------------------------------------------------------
(* A session is given its client's requests in the order they arrived.     *)


\* The requests still queued are a tail of those that were.
Shifted(k) ==
    /\ Len(actorQueue') \in Nat
    /\ \A i \in 1..Len(actorQueue') : actorQueue'[i].kind = "handleRequest" =>
           i + k \in 1..Len(actorQueue) /\ actorQueue'[i] = actorQueue[i + k]

\* A step that hands over no request, and holds none back.
Weakens ==
    /\ received' \in Nat /\ received <= received'
    /\ \A a \in Address :
          \/ delayed'[a] = 0
          \/ delayed'[a] = delayed[a] /\ waiting'[a] = waiting[a]
    /\ \A a \in Address : handled'[a] = <<>> \/ handled'[a] = handled[a]
    /\ \E k \in {0, 1} : Shifted(k)

LEMMA OrderTypes ==
    ASSUME QtTypeOK
    PROVE  /\ received \in Nat
           /\ Len(actorQueue) \in Nat
           /\ \A i \in 1..Len(actorQueue) : actorQueue[i].message \in Nat
           /\ \A a \in Address :
                 /\ delayed[a] \in Nat
                 /\ Len(handled[a]) \in Nat
                 /\ \A k \in 1..Len(handled[a]) : handled[a][k] \in Nat
<1>1. \A i \in 1..Len(actorQueue) : actorQueue[i].message \in Nat
  BY ActionType DEF ActionRecord
<1>2. handled \in [Address -> Seq(Nat)] /\ delayed \in [Address -> Nat] /\ received \in Nat
  BY DEF QtTypeOK
<1>3. \A a \in Address : handled[a] \in Seq(Nat)
  BY <1>2
<1>4. Len(actorQueue) \in Nat
  BY DEF QtTypeOK
<1> QED
  BY <1>1, <1>2, <1>3, <1>4

LEMMA WeakerStep ==
    ASSUME QtTypeOK, OrderInv, Weakens
    PROVE  OrderInv'
<1>1. PICK k \in {0, 1} : Shifted(k)
  BY DEF Weakens
<1>2. DelayedInv'
  BY OrderTypes DEF Weakens, OrderInv, DelayedInv
<1>3. ASSUME NEW a \in Address, NEW n \in 1..Len(handled'[a])
      PROVE  /\ n \in 1..Len(handled[a]) /\ handled'[a][n] = handled[a][n]
             /\ handled[a][n] \in Nat
             /\ handled'[a] = handled[a]
  <2>1. handled'[a] # <<>>
    BY <1>3
  <2>2. handled'[a] = handled[a]
    BY <2>1 DEF Weakens
  <2> QED
    BY <2>2, <1>3, OrderTypes
<1>4. HandledInv'
  <2> SUFFICES ASSUME NEW a \in Address, NEW n \in 1..Len(handled'[a])
               PROVE  /\ handled'[a][n] <= received'
                      /\ delayed'[a] # 0 => handled'[a][n] < delayed'[a]
    BY DEF HandledInv
  <2>1. handled[a][n] <= received /\ (delayed[a] # 0 => handled[a][n] < delayed[a])
    BY <1>3 DEF OrderInv, HandledInv
  <2>2. delayed'[a] = 0 \/ delayed'[a] = delayed[a]
    BY DEF Weakens
  <2>3. received' \in Nat /\ received \in Nat /\ received <= received'
    BY OrderTypes DEF Weakens
  <2> QED
    BY <1>3, <2>1, <2>2, <2>3
<1>5. QueuedInv'
  <2> SUFFICES ASSUME NEW a \in Address, NEW i \in 1..Len(actorQueue'), Asks(i, a)'
               PROVE  /\ actorQueue'[i].message <= received'
                      /\ delayed'[a] # 0 => actorQueue'[i].message < delayed'[a]
                      /\ \A n \in 1..Len(handled'[a]) : handled'[a][n] < actorQueue'[i].message
                      /\ \A j \in 1..Len(actorQueue') :
                             i < j /\ Asks(j, a)' =>
                                 actorQueue'[i].message < actorQueue'[j].message
    BY DEF QueuedInv
  <2>1. i + k \in 1..Len(actorQueue) /\ actorQueue'[i] = actorQueue[i + k] /\ Asks(i + k, a)
    BY <1>1 DEF Shifted, Asks
  <2>2. /\ actorQueue[i + k].message <= received
        /\ delayed[a] # 0 => actorQueue[i + k].message < delayed[a]
        /\ \A n \in 1..Len(handled[a]) : handled[a][n] < actorQueue[i + k].message
        /\ \A j \in 1..Len(actorQueue) :
               i + k < j /\ Asks(j, a) => actorQueue[i + k].message < actorQueue[j].message
    BY <2>1 DEF OrderInv, QueuedInv
  <2>3. actorQueue'[i].message <= received'
    <3>1. received' \in Nat /\ received \in Nat /\ received <= received'
          /\ actorQueue[i + k].message \in Nat
      BY <2>1, OrderTypes DEF Weakens
    <3> QED
      BY <2>1, <2>2, <3>1
  <2>4. delayed'[a] # 0 => actorQueue'[i].message < delayed'[a]
    BY <2>1, <2>2 DEF Weakens
  <2>5. \A n \in 1..Len(handled'[a]) : handled'[a][n] < actorQueue'[i].message
    BY <1>3, <2>1, <2>2
  <2>6. ASSUME NEW j \in 1..Len(actorQueue'), i < j, Asks(j, a)'
        PROVE  actorQueue'[i].message < actorQueue'[j].message
    <3>1. j + k \in 1..Len(actorQueue) /\ actorQueue'[j] = actorQueue[j + k] /\ Asks(j + k, a)
      BY <1>1, <2>6 DEF Shifted, Asks
    <3>2. i + k < j + k
      BY <1>1, <2>6 DEF Shifted
    <3> QED
      BY <2>1, <2>2, <3>1, <3>2
  <2> QED
    BY <2>3, <2>4, <2>5, <2>6
<1>6. RequestsInOrder'
  <2> SUFFICES ASSUME NEW a \in Address, NEW i \in 1..Len(handled'[a]),
                      NEW j \in 1..Len(handled'[a]), i < j
               PROVE  handled'[a][i] < handled'[a][j]
    BY DEF RequestsInOrder
  <2> QED
    BY <1>3 DEF OrderInv, RequestsInOrder
<1> QED
  BY <1>2, <1>4, <1>5, <1>6 DEF OrderInv

-----------------------------------------------------------------------------
(* The steps that post, hold back or hand over a request.                  *)

\* A request is posted that is younger than all its session has to answer.
LEMMA PostedStep ==
    ASSUME QtTypeOK, OrderInv, NEW a \in Address, NEW n \in Nat,
           postAction("handleRequest", a, n), handled' = handled,
           received' \in Nat, received <= received', n <= received',
           delayed'[a] = 0,
           \A b \in Address : b # a => delayed'[b] = delayed[b] /\ waiting'[b] = waiting[b],
           \A k \in 1..Len(handled[a]) : handled[a][k] < n,
           \A i \in 1..Len(actorQueue) : Asks(i, a) => actorQueue[i].message < n
    PROVE  OrderInv'
<1> DEFINE new == Action("handleRequest", At(a), n)
<1>1. /\ new \in ActionRecord /\ new.connection.address = a
      /\ new.kind = "handleRequest" /\ new.message = n
  BY AtType DEF Action, Actions, ActionRecord
<1>2. actorQueue \in Seq(ActionRecord) /\ actorQueue' = Append(actorQueue, new)
  BY DEF QtTypeOK, ActionRecord, postAction
<1> HIDE DEF new
<1>3. /\ Len(actorQueue') = Len(actorQueue) + 1
      /\ \A i \in 1..Len(actorQueue) : actorQueue'[i] = actorQueue[i]
      /\ actorQueue'[Len(actorQueue) + 1] = new
      /\ Len(actorQueue) \in Nat
  BY <1>1, <1>2, Appended
<1>4. DelayedInv'
  BY OrderTypes DEF OrderInv, DelayedInv
<1>5. HandledInv'
  <2> SUFFICES ASSUME NEW b \in Address, NEW k \in 1..Len(handled[b])
               PROVE  /\ handled[b][k] <= received'
                      /\ delayed'[b] # 0 => handled[b][k] < delayed'[b]
    BY DEF HandledInv
  <2>1. handled[b][k] <= received /\ (delayed[b] # 0 => handled[b][k] < delayed[b])
    BY DEF OrderInv, HandledInv
  <2>2. delayed'[b] = 0 \/ delayed'[b] = delayed[b]
    OBVIOUS
  <2> QED
    BY <2>1, <2>2, OrderTypes
<1>6. QueuedInv'
  <2> SUFFICES ASSUME NEW b \in Address, NEW i \in 1..Len(actorQueue'), Asks(i, b)'
               PROVE  /\ actorQueue'[i].message <= received'
                      /\ delayed'[b] # 0 => actorQueue'[i].message < delayed'[b]
                      /\ \A k \in 1..Len(handled[b]) : handled[b][k] < actorQueue'[i].message
                      /\ \A j \in 1..Len(actorQueue') :
                             i < j /\ Asks(j, b)' =>
                                 actorQueue'[i].message < actorQueue'[j].message
    BY DEF QueuedInv
  <2>1. CASE i = Len(actorQueue) + 1
    <3>1. actorQueue'[i] = new /\ b = a
      BY <1>1, <1>3, <2>1 DEF Asks
    <3>2. \A j \in 1..Len(actorQueue') : ~(i < j)
      BY <1>3, <2>1
    <3> QED
      BY <1>1, <3>1, <3>2
  <2>2. CASE i # Len(actorQueue) + 1
    <3>1. i \in 1..Len(actorQueue) /\ actorQueue'[i] = actorQueue[i] /\ Asks(i, b)
      BY <1>3, <2>2 DEF Asks
    <3>2. /\ actorQueue[i].message <= received
          /\ delayed[b] # 0 => actorQueue[i].message < delayed[b]
          /\ \A k \in 1..Len(handled[b]) : handled[b][k] < actorQueue[i].message
          /\ \A j \in 1..Len(actorQueue) :
                 i < j /\ Asks(j, b) => actorQueue[i].message < actorQueue[j].message
      BY <3>1 DEF OrderInv, QueuedInv
    <3>3. actorQueue[i].message \in Nat /\ received \in Nat
      BY <3>1, OrderTypes
    <3>4. actorQueue'[i].message <= received'
      BY <3>1, <3>2, <3>3
    <3>5. delayed'[b] # 0 => actorQueue'[i].message < delayed'[b]
      BY <3>1, <3>2
    <3>6. ASSUME NEW j \in 1..Len(actorQueue'), i < j, Asks(j, b)'
          PROVE  actorQueue'[i].message < actorQueue'[j].message
      <4>1. CASE j = Len(actorQueue) + 1
        <5>1. actorQueue'[j] = new /\ b = a
          BY <1>1, <1>3, <3>6, <4>1 DEF Asks
        <5> QED
          BY <1>1, <3>1, <5>1
      <4>2. CASE j # Len(actorQueue) + 1
        <5>1. j \in 1..Len(actorQueue) /\ actorQueue'[j] = actorQueue[j] /\ Asks(j, b)
          BY <1>3, <3>6, <4>2 DEF Asks
        <5> QED
          BY <3>1, <3>2, <3>6, <5>1
      <4> QED
        BY <4>1, <4>2
    <3> QED
      BY <3>1, <3>2, <3>4, <3>5, <3>6
  <2> QED
    BY <2>1, <2>2
<1>7. RequestsInOrder'
  BY DEF OrderInv, RequestsInOrder
<1> QED
  BY <1>4, <1>5, <1>6, <1>7 DEF OrderInv

LEMMA RequestStep ==
    ASSUME QtTypeOK, OrderInv, NEW a \in Address, handleRequest(a)
    PROVE  OrderInv'
<1>1. /\ received' = received + 1 /\ received \in Nat /\ received + 1 \in Nat
      /\ handled' = handled
  BY OrderTypes DEF handleRequest, Receives, actorVars
<1>2. \A i \in 1..Len(actorQueue) : Asks(i, a) => actorQueue[i].message < received + 1
  BY <1>1, OrderTypes DEF OrderInv, QueuedInv
<1>3. \A k \in 1..Len(handled[a]) : handled[a][k] < received + 1
  BY <1>1, OrderTypes DEF OrderInv, HandledInv
<1>4. CASE AuthRequired /\ waiting[a] = "null"
  <2>1. /\ waiting' = [waiting EXCEPT ![a] = "true"]
        /\ delayed' = [delayed EXCEPT ![a] = received + 1]
        /\ actorQueue' = actorQueue
    BY <1>4 DEF handleRequest
  <2>2. /\ waiting'[a] = "true" /\ delayed'[a] = received + 1
        /\ \A b \in Address : b # a => delayed'[b] = delayed[b] /\ waiting'[b] = waiting[b]
    BY <2>1 DEF QtTypeOK
  <2>3. DelayedInv'
    BY <1>1, <1>4, <2>2, OrderTypes DEF OrderInv, DelayedInv
  <2>4. HandledInv'
    <3> SUFFICES ASSUME NEW b \in Address, NEW k \in 1..Len(handled[b])
                 PROVE  /\ handled[b][k] <= received + 1
                        /\ delayed'[b] # 0 => handled[b][k] < delayed'[b]
      BY <1>1 DEF HandledInv
    <3>1. handled[b][k] <= received /\ (delayed[b] # 0 => handled[b][k] < delayed[b])
          /\ handled[b][k] \in Nat
      BY OrderTypes DEF OrderInv, HandledInv
    <3> QED
      BY <1>1, <1>3, <2>2, <3>1
  <2>5. QueuedInv'
    <3> SUFFICES ASSUME NEW b \in Address, NEW i \in 1..Len(actorQueue), Asks(i, b)
                 PROVE  /\ actorQueue[i].message <= received + 1
                        /\ delayed'[b] # 0 => actorQueue[i].message < delayed'[b]
                        /\ \A k \in 1..Len(handled[b]) : handled[b][k] < actorQueue[i].message
                        /\ \A j \in 1..Len(actorQueue) :
                               i < j /\ Asks(j, b) => actorQueue[i].message < actorQueue[j].message
      BY <1>1, <2>1 DEF QueuedInv, Asks
    <3>1. /\ actorQueue[i].message <= received
          /\ delayed[b] # 0 => actorQueue[i].message < delayed[b]
          /\ \A k \in 1..Len(handled[b]) : handled[b][k] < actorQueue[i].message
          /\ \A j \in 1..Len(actorQueue) :
                 i < j /\ Asks(j, b) => actorQueue[i].message < actorQueue[j].message
          /\ actorQueue[i].message \in Nat
      BY OrderTypes DEF OrderInv, QueuedInv
    <3>2. actorQueue[i].message <= received + 1
      BY <1>1, <3>1
    <3>3. delayed'[b] # 0 => actorQueue[i].message < delayed'[b]
      BY <1>2, <2>2, <3>1
    <3> QED
      BY <3>1, <3>2, <3>3
  <2>6. RequestsInOrder'
    BY <1>1 DEF OrderInv, RequestsInOrder
  <2> QED
    BY <2>3, <2>4, <2>5, <2>6 DEF OrderInv
<1>5. CASE AuthRequired /\ waiting[a] = "true"
  <2>1. waiting' = waiting /\ delayed' = delayed /\ actorQueue' = actorQueue
    BY <1>5 DEF handleRequest
  <2>2. Shifted(0)
    BY <2>1, OrderTypes DEF Shifted
  <2> QED
    BY <1>1, <2>1, <2>2, WeakerStep DEF Weakens
<1>6. CASE ~(AuthRequired /\ waiting[a] \in {"null", "true"})
  <2>1. /\ postAction("handleRequest", a, received + 1)
        /\ waiting' = waiting /\ delayed' = delayed
    BY <1>6 DEF handleRequest
  <2>2. delayed'[a] = 0
    BY <1>6, <2>1 DEF OrderInv, DelayedInv
  <2> QED
    BY <1>1, <1>2, <1>3, <2>1, <2>2, PostedStep
<1> QED
  BY <1>4, <1>5, <1>6

LEMMA DelayEndsStep ==
    ASSUME QtTypeOK, OrderInv, NEW a \in Address, FirstRequestDelayEnds(a)
    PROVE  OrderInv'
<1>1. /\ delayed[a] # 0
      /\ waiting' = [waiting EXCEPT ![a] = "false"]
      /\ delayed' = [delayed EXCEPT ![a] = 0]
      /\ handled' = handled /\ received' = received
      /\ actorQueue' = actorQueue \/ postAction("handleRequest", a, delayed[a])
  BY DEF FirstRequestDelayEnds, actorVars
<1>2. /\ delayed'[a] = 0
      /\ \A b \in Address : b # a => delayed'[b] = delayed[b] /\ waiting'[b] = waiting[b]
  BY <1>1 DEF QtTypeOK
<1>3. received' \in Nat /\ received <= received' /\ delayed[a] \in Nat /\ delayed[a] <= received'
  BY <1>1, OrderTypes DEF OrderInv, DelayedInv
<1>4. CASE actorQueue' = actorQueue
  <2>1. Shifted(0)
    BY <1>4, OrderTypes DEF Shifted
  <2> QED
    BY <1>1, <1>2, <1>3, <2>1, WeakerStep DEF Weakens
<1>5. CASE postAction("handleRequest", a, delayed[a])
  <2>1. \A k \in 1..Len(handled[a]) : handled[a][k] < delayed[a]
    BY <1>1 DEF OrderInv, HandledInv
  <2>2. \A i \in 1..Len(actorQueue) : Asks(i, a) => actorQueue[i].message < delayed[a]
    BY <1>1 DEF OrderInv, QueuedInv
  <2> QED
    BY <1>1, <1>2, <1>3, <1>5, <2>1, <2>2, PostedStep
<1> QED
  BY <1>1, <1>4, <1>5

\* The request at the head is younger than all its session was given, and
\* older than all that are left.
LEMMA HandedStep ==
    ASSUME QtInv, OrderInv, actorQueue # <<>>, actorQueue' = Tail(actorQueue),
           SessionHandlesRequest, mainVars' = mainVars
    PROVE  OrderInv'
<1>0. QtTypeOK
  BY DEF QtInv
<1>1. PICK a \in Address : a = Head(actorQueue).connection.address
  BY HeadAction
<1>2. PICK m \in Nat : m = Head(actorQueue).message
  BY <1>0, HeadAction, OrderTypes
<1>3. /\ 1 \in 1..Len(actorQueue) /\ Asks(1, a) /\ actorQueue[1].message = m
      /\ handled' = [handled EXCEPT ![a] = Append(@, m)]
  BY <1>1, <1>2, HeadAction DEF SessionHandlesRequest, Asks
<1>4. received' = received /\ delayed' = delayed /\ waiting' = waiting
  BY DEF mainVars
<1>5. /\ Len(actorQueue') = Len(actorQueue) - 1
      /\ \A i \in 1..Len(actorQueue') : i + 1 \in 1..Len(actorQueue) /\ actorQueue'[i] = actorQueue[i + 1]
      /\ Len(actorQueue) \in Nat
  BY <1>0, Popped DEF QtTypeOK
<1>6. /\ m <= received
      /\ delayed[a] # 0 => m < delayed[a]
      /\ \A k \in 1..Len(handled[a]) : handled[a][k] < m
      /\ \A j \in 1..Len(actorQueue) : 1 < j /\ Asks(j, a) => m < actorQueue[j].message
  BY <1>3 DEF OrderInv, QueuedInv
<1>7. /\ handled[a] \in Seq(Nat)
      /\ handled'[a] = Append(handled[a], m)
      /\ \A b \in Address : b # a => handled'[b] = handled[b]
  BY <1>0, <1>3 DEF QtTypeOK
<1>8. /\ Len(handled'[a]) = Len(handled[a]) + 1
      /\ \A k \in 1..Len(handled[a]) : handled'[a][k] = handled[a][k]
      /\ handled'[a][Len(handled[a]) + 1] = m
      /\ Len(handled[a]) \in Nat
  BY <1>7, Appended
<1>9. DelayedInv'
  BY <1>4 DEF OrderInv, DelayedInv
<1>10. HandledInv'
  <2> SUFFICES ASSUME NEW b \in Address, NEW k \in 1..Len(handled'[b])
               PROVE  /\ handled'[b][k] <= received
                      /\ delayed[b] # 0 => handled'[b][k] < delayed[b]
    BY <1>4 DEF HandledInv
  <2>1. CASE b # a
    BY <1>7, <2>1 DEF OrderInv, HandledInv
  <2>2. CASE b = a /\ k = Len(handled[a]) + 1
    BY <1>6, <1>8, <2>2
  <2>3. CASE b = a /\ k # Len(handled[a]) + 1
    <3>1. k \in 1..Len(handled[a]) /\ handled'[a][k] = handled[a][k]
      BY <1>8, <2>3
    <3> QED
      BY <2>3, <3>1 DEF OrderInv, HandledInv
  <2> QED
    BY <2>1, <2>2, <2>3
<1>11. QueuedInv'
  <2> SUFFICES ASSUME NEW b \in Address, NEW i \in 1..Len(actorQueue'), Asks(i, b)'
               PROVE  /\ actorQueue'[i].message <= received
                      /\ delayed[b] # 0 => actorQueue'[i].message < delayed[b]
                      /\ \A k \in 1..Len(handled'[b]) : handled'[b][k] < actorQueue'[i].message
                      /\ \A j \in 1..Len(actorQueue') :
                             i < j /\ Asks(j, b)' =>
                                 actorQueue'[i].message < actorQueue'[j].message
    BY <1>4 DEF QueuedInv
  <2>1. /\ i + 1 \in 1..Len(actorQueue) /\ actorQueue'[i] = actorQueue[i + 1]
        /\ Asks(i + 1, b) /\ 1 < i + 1
    BY <1>5 DEF Asks
  <2>2. /\ actorQueue[i + 1].message <= received
        /\ delayed[b] # 0 => actorQueue[i + 1].message < delayed[b]
        /\ \A k \in 1..Len(handled[b]) : handled[b][k] < actorQueue[i + 1].message
        /\ \A j \in 1..Len(actorQueue) :
               i + 1 < j /\ Asks(j, b) => actorQueue[i + 1].message < actorQueue[j].message
    BY <2>1 DEF OrderInv, QueuedInv
  <2>3. ASSUME NEW k \in 1..Len(handled'[b])
        PROVE  handled'[b][k] < actorQueue[i + 1].message
    <3>1. CASE b # a
      BY <1>7, <2>2, <2>3, <3>1
    <3>2. CASE b = a /\ k = Len(handled[a]) + 1
      BY <1>6, <1>8, <2>1, <3>2
    <3>3. CASE b = a /\ k # Len(handled[a]) + 1
      BY <1>8, <2>2, <2>3, <3>3
    <3> QED
      BY <3>1, <3>2, <3>3
  <2>4. ASSUME NEW j \in 1..Len(actorQueue'), i < j, Asks(j, b)'
        PROVE  actorQueue'[i].message < actorQueue'[j].message
    <3>1. j + 1 \in 1..Len(actorQueue) /\ actorQueue'[j] = actorQueue[j + 1]
          /\ Asks(j + 1, b) /\ i + 1 < j + 1
      BY <1>5, <2>4 DEF Asks
    <3> QED
      BY <2>1, <2>2, <3>1
  <2> QED
    BY <2>1, <2>2, <2>3, <2>4
<1>12. RequestsInOrder'
  <2> SUFFICES ASSUME NEW b \in Address, NEW i \in 1..Len(handled'[b]),
                      NEW j \in 1..Len(handled'[b]), i < j
               PROVE  handled'[b][i] < handled'[b][j]
    BY DEF RequestsInOrder
  <2>1. CASE b # a
    BY <1>7, <2>1 DEF OrderInv, RequestsInOrder
  <2>2. CASE b = a
    <3>1. i \in 1..Len(handled[a]) /\ handled'[a][i] = handled[a][i]
      BY <1>8, <2>2
    <3>2. CASE j = Len(handled[a]) + 1
      BY <1>6, <1>8, <2>2, <3>1, <3>2
    <3>3. CASE j # Len(handled[a]) + 1
      <4>1. j \in 1..Len(handled[a]) /\ handled'[a][j] = handled[a][j]
        BY <1>8, <2>2, <3>3
      <4> QED
        BY <2>2, <3>1, <4>1 DEF OrderInv, RequestsInOrder
    <3> QED
      BY <3>2, <3>3
  <2> QED
    BY <2>1, <2>2
<1> QED
  BY <1>9, <1>10, <1>11, <1>12 DEF OrderInv

-----------------------------------------------------------------------------
(* Every other step hands over nothing and holds nothing back.             *)

\* An action that is no request is posted.
LEMMA PostedOther ==
    ASSUME QtTypeOK, NEW x \in ActionRecord, x.kind # "handleRequest",
           actorQueue' = Append(actorQueue, x)
    PROVE  Shifted(0)
<1>1. actorQueue \in Seq(ActionRecord)
  BY DEF QtTypeOK, ActionRecord
<1>2. /\ Len(actorQueue') = Len(actorQueue) + 1
      /\ \A i \in 1..Len(actorQueue) : actorQueue'[i] = actorQueue[i]
      /\ actorQueue'[Len(actorQueue) + 1] = x
      /\ Len(actorQueue) \in Nat
  BY <1>1, Appended
<1> QED
  BY <1>2 DEF Shifted

LEMMA ConnectedWeakens ==
    ASSUME QtTypeOK, NEW a \in Address, clientConnected(a)
    PROVE  Weakens
<1>1. /\ waiting' = [waiting EXCEPT ![a] = "null"]
      /\ delayed' = [delayed EXCEPT ![a] = 0]
      /\ handled' = [handled EXCEPT ![a] = <<>>]
      /\ received' = received
      /\ actorQueue' = Append(actorQueue,
             Action("onConnected", [address |-> a, serial |-> allocated + 1], 0))
  BY DEF clientConnected
<1>2. Action("onConnected", [address |-> a, serial |-> allocated + 1], 0) \in ActionRecord
  <2>1. allocated + 1 \in Nat
    BY DEF QtTypeOK
  <2> QED
    BY <2>1 DEF Action, ActionRecord, Actions, Connection
<1>3. Action("onConnected", [address |-> a, serial |-> allocated + 1], 0).kind # "handleRequest"
  BY DEF Action
<1>4. Shifted(0)
  BY <1>1, <1>2, <1>3, PostedOther
<1>5. /\ \A b \in Address : delayed'[b] = 0 \/ (delayed'[b] = delayed[b] /\ waiting'[b] = waiting[b])
      /\ \A b \in Address : handled'[b] = <<>> \/ handled'[b] = handled[b]
  BY <1>1 DEF QtTypeOK
<1> QED
  BY <1>1, <1>4, <1>5, OrderTypes DEF Weakens

LEMMA OtherInputWeakens ==
    ASSUME QtTypeOK, NEW a \in Address,
           handleResponse(a) \/ Malformed(a) \/ clientDisconnected(a)
    PROVE  Weakens
<1>1. waiting' = waiting /\ delayed' = delayed /\ handled' = handled
  BY DEF handleResponse, Malformed, clientDisconnected, actorVars
<1>2. received \in Nat /\ received' \in Nat /\ received <= received'
  BY OrderTypes DEF handleResponse, Malformed, clientDisconnected, Receives
<1>3. Shifted(0)
  <2>1. CASE Malformed(a)
    BY <2>1, OrderTypes DEF Malformed, Shifted
  <2>2. CASE handleResponse(a)
    <3>1. Action("handleResponse", At(a), received + 1) \in ActionRecord
      BY <1>2, AtType DEF Action, ActionRecord, Actions
    <3>2. Action("handleResponse", At(a), received + 1).kind # "handleRequest"
      BY DEF Action
    <3> QED
      BY <2>2, <3>1, <3>2, PostedOther DEF handleResponse, postAction
  <2>3. CASE clientDisconnected(a)
    <3>1. Action("destroySession", At(a), 0) \in ActionRecord
      BY AtType DEF Action, ActionRecord, Actions
    <3>2. Action("destroySession", At(a), 0).kind # "handleRequest"
      BY DEF Action
    <3> QED
      BY <2>3, <3>1, <3>2, PostedOther DEF clientDisconnected, postAction
  <2> QED
    BY <2>1, <2>2, <2>3
<1> QED
  BY <1>1, <1>2, <1>3 DEF Weakens

LEMMA StillWeakens ==
    ASSUME QtTypeOK, actorQueue' = actorQueue, handled' = handled, received' = received,
           \A a \in Address :
              delayed'[a] = 0 \/ (delayed'[a] = delayed[a] /\ waiting'[a] = waiting[a])
    PROVE  Weakens
<1>1. Shifted(0)
  BY OrderTypes DEF Shifted
<1> QED
  BY <1>1, OrderTypes DEF Weakens

LEMMA MainEventWeakens ==
    ASSUME QtTypeOK, MainEvent
    PROVE  Weakens
<1>1. actorQueue' = actorQueue /\ handled' = handled /\ received' = received
  BY DEF MainEvent, actorVars
<1>2. \A a \in Address :
          delayed'[a] = 0 \/ (delayed'[a] = delayed[a] /\ waiting'[a] = waiting[a])
  <2>1. CASE sendMessage \/ closeConnectionEvent \/ clientAuthorized \/ connectionOrphaned
    BY <2>1 DEF sendMessage, closeConnectionEvent, clientAuthorized, connectionOrphaned
  <2>2. CASE deferredDelete
    <3>1. PICK a : /\ waiting' = [waiting EXCEPT ![a] = "null"]
                   /\ delayed' = [delayed EXCEPT ![a] = 0]
      BY <2>2 DEF deferredDelete
    <3> QED
      BY <3>1 DEF QtTypeOK
  <2> QED
    BY <2>1, <2>2 DEF MainEvent
<1> QED
  BY <1>1, <1>2, StillWeakens

LEMMA PoppedWeakens ==
    ASSUME QtTypeOK, actorQueue # <<>>, actorQueue' = Tail(actorQueue),
           mainVars' = mainVars, handled' = handled
    PROVE  Weakens
<1>1. Shifted(1)
  BY Popped DEF Shifted, QtTypeOK
<1> QED
  BY <1>1, OrderTypes DEF Weakens, mainVars

LEMMA OrderStep == QtInv /\ OrderInv /\ [QtNext]_qtVars => OrderInv'
<1> SUFFICES ASSUME QtInv, OrderInv, [QtNext]_qtVars PROVE OrderInv'
  OBVIOUS
<1>0. QtTypeOK
  BY DEF QtInv
<1>1. ASSUME NEW a \in Address, SocketSteps(a) PROVE OrderInv'
  <2>1. CASE clientConnected(a)
    BY <1>0, <2>1, ConnectedWeakens, WeakerStep
  <2>2. CASE handleRequest(a)
    BY <1>0, <2>2, RequestStep
  <2>3. CASE handleResponse(a) \/ Malformed(a) \/ clientDisconnected(a)
    BY <1>0, <2>3, OtherInputWeakens, WeakerStep
  <2>4. CASE FirstRequestDelayEnds(a)
    BY <1>0, <2>4, DelayEndsStep
  <2> QED
    BY <1>1, <2>1, <2>2, <2>3, <2>4 DEF SocketSteps
<1>2. ASSUME NEW a \in Address, PeerCallback(a) PROVE OrderInv'
  <2>1. UNCHANGED <<waiting, delayed, received, handled, actorQueue>>
    BY <1>2 DEF PeerCallback, mainVars
  <2> QED
    BY <1>0, <2>1, StillWeakens, WeakerStep
<1>3. CASE MainEvent
  BY <1>0, <1>3, MainEventWeakens, WeakerStep
<1>4. CASE OnEvent
  <2>1. actorQueue # <<>> /\ actorQueue' = Tail(actorQueue) /\ mainVars' = mainVars
    BY <1>4 DEF OnEvent
  <2>2. CASE SessionHandlesRequest
    BY <2>1, <2>2, HandedStep
  <2>3. CASE onConnected \/ SessionHandlesResponse \/ destroySession
    <3>1. handled' = handled
      BY <2>3 DEF onConnected, SessionHandlesResponse, destroySession
    <3> QED
      BY <1>0, <2>1, <3>1, PoppedWeakens, WeakerStep
  <2> QED
    BY <1>4, <2>2, <2>3 DEF OnEvent
<1>5. CASE UNCHANGED qtVars
  BY <1>0, <1>5, StillWeakens, WeakerStep DEF qtVars, mainVars, actorVars
<1> QED
  BY <1>1, <1>2, <1>3, <1>4, <1>5 DEF QtNext

LEMMA OrderInit == QtInit => OrderInv
BY DEF QtInit, OrderInv, DelayedInv, HandledInv, QueuedInv, Asks, RequestsInOrder

\* The delay of the first request, the queue and the sessions' destruction
\* together never let a session see a request before an older one.
THEOREM AlwaysInOrder == QtSpec => []RequestsInOrder
<1>1. QtInit => OrderInv
  BY OrderInit
<1>2. QtInv /\ OrderInv /\ [QtNext]_qtVars => OrderInv'
  BY OrderStep
<1>3. OrderInv => RequestsInOrder
  BY DEF OrderInv
<1> QED
  BY <1>1, <1>2, <1>3, QtInvariant, PTL DEF QtSpec
=============================================================================
