------------------------------ MODULE QmlClient ------------------------------
(***************************************************************************)
(* The QML client (Qt/QML/): one Connection that several Players share,    *)
(* each of which plays one stream at a time.  QML creates and destroys     *)
(* players whenever it likes; a destroyed one leaves requests without an   *)
(* owner and media sessions to tear down.  A player's peer lives on the    *)
(* thread of a QActor: it is destroyed synchronously (sendAction), and its *)
(* signals cross to the main thread through a queue that outlives it.      *)
(*                                                                         *)
(* The server is known by what it sends: it answers requests in any order  *)
(* and speaks for the sessions it has granted and not ended; whatever it   *)
(* finds wrong it answers by closing.  Assertions are those of a release   *)
(* build.  What a dead peer has left in the queue is delivered before the  *)
(* player's timer, seconds later, or a new connection can follow it.       *)
(***************************************************************************)
EXTENDS Naturals, FiniteSets

CONSTANTS
    Player,         \* ConnectionClients: numbers in the order of their addresses
    HasToken,       \* whether authToken is set
    MaxSessions,    \* bound: media sessions the server grants
    MaxCSeq,        \* bound: requests
    MaxSignals      \* bound: signals of the peers

ASSUME PlayerAssumption == Player \subseteq Nat \ {0} /\ IsFiniteSet(Player)
ASSUME HasTokenAssumption == HasToken \in BOOLEAN
ASSUME QmlBoundsAssumption ==
    /\ MaxSessions \in Nat
    /\ MaxCSeq \in Nat
    /\ MaxSignals \in Nat

VARIABLES
    webSocket,      \* Connection::_webSocket: "none", "connecting" or "connected"
    isOpen,         \* Connection::_isOpen
    reconnectTimer, \* Connection::_reconnectTimer is active
    authRequest,    \* Connection::_authRequest
    nextCSeq,       \* Session::_nextCSeq
    clients,        \* Connection::_clients, the players that exist
    sentRequests,   \* Connection::_sentRequests, with what Session remembers of each
    mediaSessions,  \* Connection::_mediaSessions: the owner of each session id
    players,        \* the Players' own state
    signals,        \* what the peers have emitted and the main thread not yet seen,
                    \* numbered in the order it was emitted
    granted,        \* the server's sessions of this connection
    nextSession,    \* the next id the server will grant
    emitted,        \* history: how many signals have been emitted
    crashed         \* a method was called on a null peer

connectionVars == <<webSocket, isOpen, reconnectTimer, authRequest>>

serverVars == <<granted, nextSession>>

qmlVars == <<connectionVars, nextCSeq, clients, sentRequests, mediaSessions,
             players, signals, serverVars, emitted, crashed>>

-----------------------------------------------------------------------------
SessionId == 1..MaxSessions

NoId == 0

InvalidCSeq == 0

Nobody == 0          \* a null owner, or no entry in _mediaSessions

Request(cseq, method, owner, s) ==
    [cseq |-> cseq, method |-> method, owner |-> owner, session |-> s]

\* "made" counts the peers a player has had and numbers its current one.
NewPlayer == [peer |-> 0, made |-> 0, emitting |-> FALSE, describe |-> InvalidCSeq,
              session |-> NoId, timer |-> FALSE]

-----------------------------------------------------------------------------
(* Player's helpers, on a player's state.                                  *)

\* Without a peer there is nothing to reset, and the timer goes on.
reset(player) ==
    IF player.peer = 0 THEN player ELSE [NewPlayer EXCEPT !.made = player.made]

scheduleReconnect(player) == [player EXCEPT !.timer = TRUE]

play(player, cseq) ==
    [player EXCEPT !.timer = FALSE, !.made = @ + 1, !.peer = player.made + 1,
                   !.describe = cseq]

\* Player::play for the players S, in the order of the Connection's set.
PlayAll(S) ==
    LET idle == {p \in S : players[p].peer = 0}
        cseq(p) == nextCSeq + Cardinality({q \in idle : q < p})
    IN  /\ nextCSeq + Cardinality(idle) <= MaxCSeq + 1
        /\ nextCSeq' = nextCSeq + Cardinality(idle)
        /\ sentRequests' = sentRequests \cup
               {Request(cseq(p), "DESCRIBE", p, NoId) : p \in idle}
        /\ players' = [p \in Player |->
               IF p \in idle THEN play(players[p], cseq(p)) ELSE players[p]]

-----------------------------------------------------------------------------
(* Connection.                                                             *)

request(method, owner, s) ==
    /\ nextCSeq <= MaxCSeq
    /\ nextCSeq' = nextCSeq + 1
    /\ sentRequests' = sentRequests \cup {Request(nextCSeq, method, owner, s)}

\* What goes on in the response "r" is over, and a TEARDOWN follows.
TeardownInstead(r, s) ==
    /\ nextCSeq <= MaxCSeq
    /\ nextCSeq' = nextCSeq + 1
    /\ sentRequests' = (sentRequests \ {r}) \cup {Request(nextCSeq, "TEARDOWN", Nobody, s)}

\* The local variable _authRequest (Connection.cpp 114) leaves the member alone.
close(again) ==
    /\ webSocket' = "none"
    /\ isOpen' = FALSE
    /\ reconnectTimer' = again
    /\ players' = [p \in Player |->
           IF p \in clients THEN reset(players[p]) ELSE players[p]]
    /\ sentRequests' = {}
    /\ mediaSessions' = [s \in SessionId |-> Nobody]
    /\ granted' = {}
    /\ UNCHANGED <<authRequest, nextCSeq, clients, signals, nextSession, emitted>>

closeByApplication == close(FALSE)

\* The socket disconnected, a message made no sense, or a request was stale
\* when the ping timer ran out.
ConnectionLost ==
    /\ webSocket # "none"
    /\ close(TRUE)

open ==
    /\ webSocket = "none"
    /\ webSocket' = "connecting"
    /\ reconnectTimer' = FALSE
    /\ UNCHANGED <<isOpen, authRequest, nextCSeq, clients, sentRequests, mediaSessions,
                   players, signals, serverVars, emitted>>

authorized ==
    /\ isOpen' = TRUE
    /\ PlayAll(clients)
    /\ UNCHANGED <<reconnectTimer, clients, mediaSessions, signals, serverVars, emitted>>

socketConnected ==
    /\ webSocket = "connecting"
    /\ signals = {}
    /\ webSocket' = "connected"
    /\ IF HasToken
       THEN /\ nextCSeq <= MaxCSeq
            /\ authRequest' = nextCSeq
            /\ nextCSeq' = nextCSeq + 1
            /\ UNCHANGED <<isOpen, reconnectTimer, clients, sentRequests, mediaSessions,
                           players, signals, serverVars, emitted>>
       ELSE authorized /\ UNCHANGED authRequest

AuthAnswered ==
    /\ webSocket = "connected"
    /\ ~isOpen
    /\ authRequest' = InvalidCSeq
    /\ authorized
    /\ UNCHANGED webSocket

\* The ping has no owner: nobody waits for the answer.
sendPing ==
    /\ isOpen
    /\ request("GET_PARAMETER", Nobody, NoId)
    /\ UNCHANGED <<connectionVars, clients, mediaSessions, players, signals,
                   serverVars, emitted>>

-----------------------------------------------------------------------------
(* QML creates and destroys players.                                       *)

createPlayer(p) ==
    /\ p \notin clients
    /\ clients' = clients \cup {p}
    /\ IF isOpen THEN PlayAll({p}) ELSE UNCHANGED <<nextCSeq, sentRequests, players>>
    /\ UNCHANGED <<connectionVars, mediaSessions, signals, serverVars, emitted>>

\* Slip: the requests of the player keep their owner.
abandonedKeeping(p) == sentRequests

\* The requests of player p go on without it.
abandoned(p) ==
    {IF r.owner = p THEN [r EXCEPT !.owner = Nobody] ELSE r : r \in sentRequests}

\* Slip: the sessions of the player are not torn down.
ownedForgetting(p) == {}

owned(p) == {s \in SessionId : mediaSessions[s] = p}

\* reset() and unregisterClient(): nothing the player was sent reaches it.
destroyPlayer(p) ==
    /\ p \in clients
    /\ clients' = clients \ {p}
    /\ players' = [players EXCEPT ![p] = NewPlayer]
    /\ signals' = {signal \in signals : signal.player # p}
    /\ LET cseq(s) == nextCSeq + Cardinality({t \in owned(p) : t < s}) IN
       /\ nextCSeq + Cardinality(owned(p)) <= MaxCSeq + 1
       /\ nextCSeq' = nextCSeq + Cardinality(owned(p))
       /\ sentRequests' = abandoned(p) \cup
              {Request(cseq(s), "TEARDOWN", Nobody, s) : s \in owned(p)}
    /\ mediaSessions' = [s \in SessionId |->
           IF mediaSessions[s] = p THEN Nobody ELSE mediaSessions[s]]
    /\ UNCHANGED <<connectionVars, serverVars, emitted>>

-----------------------------------------------------------------------------
(* The server's responses: Connection::handleResponse and the target's.    *)

\* A refused DESCRIBE is tried again later.
DescribeRefused(r) ==
    /\ r.method = "DESCRIBE"
    /\ \/ /\ r.owner = Nobody
          /\ UNCHANGED players
       \/ /\ r.owner # Nobody
          /\ r.cseq = players[r.owner].describe
          /\ players' = [players EXCEPT ![r.owner] = scheduleReconnect(reset(@))]
    /\ sentRequests' = sentRequests \ {r}
    /\ UNCHANGED <<connectionVars, nextCSeq, clients, mediaSessions, signals,
                   serverVars, emitted>>

\* The target was destroyed, and its session must be torn down.
DescribeAnsweredToNobody(r) ==
    /\ r.method = "DESCRIBE"
    /\ r.owner = Nobody
    /\ nextSession \in SessionId
    /\ TeardownInstead(r, nextSession)
    /\ granted' = granted \cup {nextSession}
    /\ nextSession' = nextSession + 1
    /\ UNCHANGED <<connectionVars, clients, mediaSessions, players, signals, emitted>>

onDescribeResponse(r) ==
    /\ r.method = "DESCRIBE"
    /\ r.owner # Nobody
    /\ r.cseq = players[r.owner].describe
    /\ nextSession \in SessionId
    /\ players' = [players EXCEPT ![r.owner].session = nextSession,
                                  ![r.owner].emitting = TRUE]
    /\ mediaSessions' = [mediaSessions EXCEPT ![nextSession] = r.owner]
    /\ sentRequests' = sentRequests \ {r}
    /\ granted' = granted \cup {nextSession}
    /\ nextSession' = nextSession + 1
    /\ UNCHANGED <<connectionVars, nextCSeq, clients, signals, emitted>>

\* Of a request for a session the player no longer has.
UnexpectedResponse(r) ==
    /\ r.owner # Nobody
    /\ \/ r.method = "DESCRIBE" /\ r.cseq # players[r.owner].describe
       \/ r.method = "PLAY" /\ r.session # players[r.owner].session
    /\ close(TRUE)

\* PLAY of the current session, SETUP, TEARDOWN and the ping.
OtherResponse(r) ==
    /\ r.method # "DESCRIBE"
    /\ r.method = "PLAY" /\ r.owner # Nobody => r.session = players[r.owner].session
    /\ sentRequests' = sentRequests \ {r}
    /\ granted' = IF r.method = "TEARDOWN" THEN granted \ {r.session} ELSE granted
    /\ UNCHANGED <<connectionVars, nextCSeq, clients, mediaSessions, players, signals,
                   nextSession, emitted>>

handleResponse(r) ==
    /\ r.session # NoId => r.session \in granted
    /\ r.method \in {"PLAY", "SETUP"} => r.session # NoId
    /\ \/ DescribeRefused(r)
       \/ DescribeAnsweredToNobody(r)
       \/ onDescribeResponse(r)
       \/ UnexpectedResponse(r)
       \/ OtherResponse(r)

-----------------------------------------------------------------------------
(* The server's requests: Connection::handleRequest and the owner's.       *)

\* "Session not found" for a session without an owner.  The owner's
\* candidate goes to the peer it has now, if it has one.
onSetupRequest(s) ==
    /\ s \in granted
    /\ crashed' = (mediaSessions[s] # Nobody /\ players[mediaSessions[s]].peer = 0)
    /\ UNCHANGED <<connectionVars, nextCSeq, clients, sentRequests, mediaSessions,
                   players, signals, serverVars, emitted>>

onTeardownRequest(s) ==
    /\ s \in granted
    /\ players' = [p \in Player |->
           IF mediaSessions[s] = p /\ players[p].session = s
           THEN scheduleReconnect(reset(players[p])) ELSE players[p]]
    /\ mediaSessions' = [mediaSessions EXCEPT ![s] = Nobody]
    /\ granted' = granted \ {s}
    /\ UNCHANGED <<connectionVars, nextCSeq, clients, sentRequests, signals,
                   nextSession, emitted, crashed>>

-----------------------------------------------------------------------------
(* The peers' signals, and the players' timers.                            *)

EmitSignal(p, kind) ==
    /\ players[p].emitting
    /\ emitted < MaxSignals
    /\ emitted' = emitted + 1
    /\ signals' = signals \cup {[player |-> p, kind |-> kind, serial |-> emitted']}
    /\ UNCHANGED <<connectionVars, nextCSeq, clients, sentRequests, mediaSessions,
                   players, serverVars>>

\* peerPrepared and iceCandidate: a closed connection sends nothing.
RequestFromSignal(method, p) ==
    /\ IF isOpen
       THEN request(method, p, players[p].session)
       ELSE UNCHANGED <<nextCSeq, sentRequests>>
    /\ UNCHANGED players

peerPrepared(signal) ==
    /\ signal.kind = "prepared"
    /\ RequestFromSignal("PLAY", signal.player)

iceCandidate(signal) ==
    /\ signal.kind = "iceCandidate"
    /\ RequestFromSignal("SETUP", signal.player)

\* Slip: the timer is started before reset() stops it.
eosScheduledFirst(signal) ==
    /\ signal.kind = "eos"
    /\ players' = [players EXCEPT ![signal.player] = reset(scheduleReconnect(@))]
    /\ UNCHANGED <<nextCSeq, sentRequests>>

eos(signal) ==
    /\ signal.kind = "eos"
    /\ players' = [players EXCEPT ![signal.player] = scheduleReconnect(reset(@))]
    /\ UNCHANGED <<nextCSeq, sentRequests>>

SignalDelivered ==
    \E signal \in signals :
        /\ \A other \in signals : signal.serial <= other.serial
        /\ signals' = signals \ {signal}
        /\ peerPrepared(signal) \/ iceCandidate(signal) \/ eos(signal)
        /\ UNCHANGED <<connectionVars, clients, mediaSessions, serverVars, emitted>>

\* play() asks for nothing when the connection is closed (Connection.cpp
\* 440), and leaves the player with a peer nobody will ever prepare.
PlayerTimer(p) ==
    /\ players[p].timer
    /\ \A signal \in signals : signal.player # p
    /\ IF isOpen
       THEN PlayAll({p})
       ELSE /\ players' = [players EXCEPT ![p] = play(@, InvalidCSeq)]
            /\ UNCHANGED <<nextCSeq, sentRequests>>
    /\ UNCHANGED <<connectionVars, clients, mediaSessions, signals, serverVars, emitted>>

-----------------------------------------------------------------------------
QmlInit ==
    /\ webSocket = "none"
    /\ isOpen = FALSE
    /\ reconnectTimer = FALSE
    /\ authRequest = InvalidCSeq
    /\ nextCSeq = 1
    /\ clients = {}
    /\ sentRequests = {}
    /\ mediaSessions = [s \in SessionId |-> Nobody]
    /\ players = [p \in Player |-> NewPlayer]
    /\ signals = {}
    /\ granted = {}
    /\ nextSession = 1
    /\ emitted = 0
    /\ crashed = FALSE

ConnectionStep ==
    \/ open
    \/ closeByApplication
    \/ socketConnected
    \/ AuthAnswered
    \/ ConnectionLost
    \/ sendPing
    \/ \E r \in sentRequests : handleResponse(r)

PlayerStep(p) ==
    \/ createPlayer(p)
    \/ destroyPlayer(p)
    \/ PlayerTimer(p)
    \/ \E kind \in {"prepared", "iceCandidate", "eos"} : EmitSignal(p, kind)

QmlNext ==
    /\ ~crashed
    /\ \/ ConnectionStep /\ UNCHANGED crashed
       \/ \E p \in Player : PlayerStep(p) /\ UNCHANGED crashed
       \/ SignalDelivered /\ UNCHANGED crashed
       \/ \E s \in SessionId : onSetupRequest(s) \/ onTeardownRequest(s)

QmlSpec == QmlInit /\ [][QmlNext]_qmlVars
=============================================================================
