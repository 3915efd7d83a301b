--------------------------- MODULE QmlClientProps ---------------------------
(***************************************************************************)
(* What a Connection and its Players must keep to while QML destroys       *)
(* players and the connection comes and goes.                              *)
(***************************************************************************)
EXTENDS QmlClient

PlayerState ==
    [peer : Nat, made : Nat, emitting : BOOLEAN, describe : Nat,
     session : {NoId} \cup SessionId, timer : BOOLEAN]

Signal == [player : Player, kind : {"prepared", "iceCandidate", "eos"}, serial : Nat]

\* Connection keeps raw pointers to its clients: none of them, of a request
\* (Connection.cpp 49), a media session (56) or a signal, outlives its
\* client, however late the answer to a DESCRIBE comes.
NoDanglingClient ==
    /\ \A r \in sentRequests : r.owner \in clients \cup {Nobody}
    /\ \A s \in SessionId : mediaSessions[s] \in clients \cup {Nobody}
    /\ \A signal \in signals : signal.player \in clients

\* A session the server has granted is some player's or is being torn down
\* (58, 398), and a player has the session Connection thinks it has.
SessionsAccountedFor ==
    /\ \A s \in granted :
           \/ mediaSessions[s] # Nobody
           \/ \E r \in sentRequests : r.method = "TEARDOWN" /\ r.session = s
    /\ \A p \in clients : players[p].session # NoId =>
           /\ players[p].session \in granted
           /\ mediaSessions[players[p].session] = p
           /\ players[p].peer # 0

\* No player is left with nothing to come: one that has asked for its stream
\* and not been answered is owed the answer (Player.cpp 69, 127), and one that
\* has no peer while the connection is open waits for its timer (117, 138).
NobodyForgotten ==
    \A p \in clients :
        /\ players[p].describe # InvalidCSeq /\ players[p].session = NoId =>
               \E r \in sentRequests :
                  r.method = "DESCRIBE" /\ r.owner = p /\ r.cseq = players[p].describe
        /\ isOpen => players[p].peer # 0 \/ players[p].timer

-----------------------------------------------------------------------------
(* What makes them inductive.                                              *)

Methods == {"DESCRIBE", "PLAY", "SETUP", "TEARDOWN", "GET_PARAMETER"}

SentRequest ==
    [cseq : Nat \ {0}, method : Methods, owner : Player \cup {Nobody}, session : Nat]

ShapeInv ==
    /\ nextCSeq \in Nat \ {0}
    /\ clients \subseteq Player
    /\ sentRequests \subseteq SentRequest
    /\ mediaSessions \in [SessionId -> Player \cup {Nobody}]
    /\ players \in [Player -> PlayerState]
    /\ signals \subseteq Signal
    /\ nextSession \in Nat \ {0}
    /\ granted \subseteq SessionId
    /\ \A s \in granted : s < nextSession
    /\ emitted \in Nat

\* A player that does not exist, or has no peer, waits for nothing.
IdleInv ==
    /\ \A p \in Player \ clients : players[p] = NewPlayer
    /\ \A p \in Player : players[p].peer = 0 =>
           /\ players[p].describe = InvalidCSeq
           /\ players[p].session = NoId
           /\ ~players[p].emitting

\* A session has an owner, or is being torn down, once it has been granted.
TeardownInv ==
    /\ \A s \in SessionId : mediaSessions[s] # Nobody => s < nextSession
    /\ \A r \in sentRequests : r.method = "TEARDOWN" =>
           /\ r.session \in SessionId
           /\ r.session < nextSession
           /\ mediaSessions[r.session] = Nobody

QmlInv ==
    ShapeInv /\ IdleInv /\ TeardownInv /\ NoDanglingClient /\ SessionsAccountedFor

-----------------------------------------------------------------------------
\* requestDescribe's assertion (Connection.cpp 440): a player asks for its
\* stream only while the connection is open.
DescribesWhileOpen ==
    [][\A p \in Player : players'[p].made > players[p].made => isOpen']_qmlVars
=============================================================================
