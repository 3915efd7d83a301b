--------------------------- MODULE QmlClientProofs ---------------------------
(***************************************************************************)
(* Connection's raw pointers never dangle and no session the server has    *)
(* granted is forgotten, for any number of players, sessions, requests and *)
(* signals.                                                                *)
(***************************************************************************)
EXTENDS QmlClientProps, FiniteSetTheorems, TLAPS

\* CSeqs are counted from the set of players or sessions that ask for one.
LEMMA CountType ==
    ASSUME NEW S, IsFiniteSet(S), NEW T \in SUBSET S
    PROVE  Cardinality(T) \in Nat
  BY FS_Subset, FS_CardinalityType

\* Player is finite, and so is SessionId.
LEMMA SetsFinite == IsFiniteSet(Player) /\ IsFiniteSet(SessionId)
  BY PlayerAssumption, QmlBoundsAssumption, FS_Interval DEF SessionId

\* Ids start at one, so neither NoId nor Nobody is one.
LEMMA IdTypes ==
    /\ Player \subseteq Nat \ {0}
    /\ SessionId \subseteq Nat \ {0}
    /\ Nobody = 0 /\ NoId = 0 /\ InvalidCSeq = 0
    /\ Nobody \notin Player /\ NoId \notin SessionId
  BY PlayerAssumption, QmlBoundsAssumption
  DEF SessionId, Nobody, NoId, InvalidCSeq

\* What reset(), scheduleReconnect() and play() make of a player.
LEMMA ResetFacts ==
    ASSUME NEW player \in PlayerState,
           player.peer = 0 => /\ player.session = NoId
                              /\ player.describe = InvalidCSeq
                              /\ ~player.emitting
    PROVE  /\ reset(player) \in PlayerState
           /\ reset(player).peer = 0
           /\ reset(player).session = NoId
           /\ reset(player).describe = InvalidCSeq
           /\ ~reset(player).emitting
           /\ scheduleReconnect(reset(player)) \in PlayerState
           /\ scheduleReconnect(reset(player)).peer = 0
           /\ scheduleReconnect(reset(player)).session = NoId
           /\ scheduleReconnect(reset(player)).describe = InvalidCSeq
           /\ ~scheduleReconnect(reset(player)).emitting
  BY IdTypes DEF reset, scheduleReconnect, NewPlayer, PlayerState

\* A player that plays has a peer; its session is what it was.
LEMMA PlayFacts ==
    ASSUME NEW player \in PlayerState, NEW cseq \in Nat
    PROVE  /\ play(player, cseq) \in PlayerState
           /\ play(player, cseq).peer # 0
           /\ play(player, cseq).session = player.session
<1>1. player.made + 1 \in Nat
  BY DEF PlayerState
<1>2. [player EXCEPT !.timer = FALSE] \in PlayerState
  BY DEF PlayerState
<1>3. ASSUME NEW q \in PlayerState, NEW k \in Nat
      PROVE  [q EXCEPT !.made = k] \in PlayerState
  BY DEF PlayerState
<1>4. ASSUME NEW q \in PlayerState, NEW k \in Nat
      PROVE  [q EXCEPT !.peer = k] \in PlayerState
  BY DEF PlayerState
<1>5. ASSUME NEW q \in PlayerState, NEW k \in Nat
      PROVE  [q EXCEPT !.describe = k] \in PlayerState
  BY DEF PlayerState
<1>6. play(player, cseq) \in PlayerState
  <2>1. [player EXCEPT !.timer = FALSE, !.made = player.made + 1] \in PlayerState
    BY <1>1, <1>2, <1>3
  <2>2. [player EXCEPT !.timer = FALSE, !.made = player.made + 1,
                       !.peer = player.made + 1] \in PlayerState
    BY <1>1, <2>1, <1>4
  <2>3. [player EXCEPT !.timer = FALSE, !.made = player.made + 1,
                       !.peer = player.made + 1, !.describe = cseq] \in PlayerState
    BY <2>2, <1>5
  <2> QED
    BY <2>3 DEF play
<1>7. play(player, cseq).peer # 0
  BY DEF play, PlayerState
<1>8. play(player, cseq).session = player.session
  BY DEF play, PlayerState
<1> QED
  BY <1>6, <1>7, <1>8

\* PlayAll: players without a peer get one and ask to DESCRIBE.
LEMMA PlayAllFacts ==
    ASSUME ShapeInv, NEW S \in SUBSET Player, PlayAll(S)
    PROVE  /\ nextCSeq' \in Nat \ {0}
           /\ sentRequests' \subseteq SentRequest
           /\ sentRequests \subseteq sentRequests'
           /\ \A r \in sentRequests' \ sentRequests :
                  r.method = "DESCRIBE" /\ r.owner \in S
           /\ players' \in [Player -> PlayerState]
           /\ \A p \in Player :
                  \/ players'[p] = players[p]
                  \/ /\ p \in S
                     /\ players'[p].session = players[p].session
                     /\ players'[p].peer # 0
<1> DEFINE idle == {p \in S : players[p].peer = 0}
           before(p) == {q \in idle : q < p}
           cseq(p) == nextCSeq + Cardinality(before(p))
           asked == {Request(cseq(p), "DESCRIBE", p, NoId) : p \in idle}
<1>1. /\ nextCSeq' = nextCSeq + Cardinality(idle)
      /\ sentRequests' = sentRequests \cup asked
      /\ players' = [p \in Player |->
             IF p \in idle THEN play(players[p], cseq(p)) ELSE players[p]]
  BY DEF PlayAll
<1>2. Cardinality(idle) \in Nat
  BY CountType, SetsFinite
<1>3. \A p \in idle : cseq(p) \in Nat \ {0}
  <2> SUFFICES ASSUME NEW p \in idle
               PROVE  cseq(p) \in Nat \ {0}
    OBVIOUS
  <2>1. before(p) \in SUBSET Player
    OBVIOUS
  <2>2. Cardinality(before(p)) \in Nat
    BY <2>1, CountType, SetsFinite
  <2> QED
    BY <2>2 DEF ShapeInv
<1>4. nextCSeq' \in Nat \ {0}
  BY <1>1, <1>2 DEF ShapeInv
<1> HIDE DEF cseq
<1>5. \A r \in asked : r \in SentRequest /\ r.method = "DESCRIBE" /\ r.owner \in S
  BY <1>3, IdTypes DEF Request, SentRequest, Methods
<1>6. \A p \in idle : /\ play(players[p], cseq(p)) \in PlayerState
                      /\ play(players[p], cseq(p)).peer # 0
                      /\ play(players[p], cseq(p)).session = players[p].session
  BY <1>3, PlayFacts DEF ShapeInv
<1>7. players' \in [Player -> PlayerState]
  BY <1>1, <1>6 DEF ShapeInv
<1>8. \A p \in Player :
          \/ players'[p] = players[p]
          \/ /\ p \in S
             /\ players'[p].session = players[p].session
             /\ players'[p].peer # 0
  BY <1>1, <1>6
<1> HIDE DEF asked
<1> QED
  BY <1>1, <1>4, <1>5, <1>7, <1>8 DEF ShapeInv

-----------------------------------------------------------------------------
\* A step that grants no session and ends none: it may ask for anything but
\* a TEARDOWN, and forget a player's session but not give it one.
LEMMA QuietStep ==
    ASSUME QmlInv, ShapeInv', IdleInv',
           clients \subseteq clients',
           mediaSessions' = mediaSessions,
           granted' = granted,
           nextSession' = nextSession,
           \A r \in sentRequests' \ sentRequests :
               r.method # "TEARDOWN" /\ r.owner \in clients' \cup {Nobody},
           \A r \in sentRequests : r.method = "TEARDOWN" => r \in sentRequests',
           \A signal \in signals' \ signals : signal.player \in clients',
           \A p \in Player : players'[p].session # NoId =>
               players'[p].session = players[p].session /\ players'[p].peer # 0
    PROVE  QmlInv'
<1>1. TeardownInv'
  BY DEF QmlInv, TeardownInv
<1>2. NoDanglingClient'
  BY DEF QmlInv, NoDanglingClient
<1>3. SessionsAccountedFor'
  <2>1. ASSUME NEW s \in granted'
        PROVE  \/ mediaSessions'[s] # Nobody
               \/ \E r \in sentRequests' : r.method = "TEARDOWN" /\ r.session = s
    BY <2>1 DEF QmlInv, SessionsAccountedFor
  <2>2. ASSUME NEW p \in clients', players'[p].session # NoId
        PROVE  /\ players'[p].session \in granted'
               /\ mediaSessions'[players'[p].session] = p
               /\ players'[p].peer # 0
    <3>1. p \in Player
      BY DEF ShapeInv
    <3>2. /\ players'[p].session = players[p].session
          /\ players'[p].peer # 0
      BY <2>2, <3>1
    <3>3. p \in clients
      BY <2>2, <3>1, <3>2 DEF QmlInv, IdleInv, NewPlayer
    <3> QED
      BY <2>2, <3>2, <3>3 DEF QmlInv, SessionsAccountedFor
  <2> QED
    BY <2>1, <2>2 DEF SessionsAccountedFor
<1> QED
  BY <1>1, <1>2, <1>3 DEF QmlInv

\* A step that leaves everything but the queue of signals, and may shorten
\* that.
LEMMA UnchangedStep ==
    ASSUME QmlInv, signals' \subseteq signals,
           UNCHANGED <<nextCSeq, clients, sentRequests, mediaSessions, players,
                       granted, nextSession, emitted>>
    PROVE  QmlInv'
<1>1. ShapeInv' /\ IdleInv'
  BY DEF QmlInv, ShapeInv, IdleInv
<1>2. \A p \in Player : players'[p].session # NoId =>
          players'[p].session = players[p].session /\ players'[p].peer # 0
  BY DEF QmlInv, IdleInv
<1> QED
  BY <1>1, <1>2, QuietStep

\* Among the steps of that kind are those that only let players play.
LEMMA PlayStep ==
    ASSUME QmlInv, NEW S \in SUBSET Player, PlayAll(S),
           S \subseteq clients', clients \subseteq clients', clients' \subseteq Player,
           UNCHANGED <<mediaSessions, signals, serverVars, emitted>>
    PROVE  QmlInv'
<1>1. ShapeInv
  BY DEF QmlInv
<1> DEFINE facts ==
        /\ nextCSeq' \in Nat \ {0}
        /\ sentRequests' \subseteq SentRequest
        /\ sentRequests \subseteq sentRequests'
        /\ \A r \in sentRequests' \ sentRequests :
               r.method = "DESCRIBE" /\ r.owner \in S
        /\ players' \in [Player -> PlayerState]
        /\ \A p \in Player :
               \/ players'[p] = players[p]
               \/ /\ p \in S
                  /\ players'[p].session = players[p].session
                  /\ players'[p].peer # 0
<1>2. facts
  BY <1>1, PlayAllFacts
<1>3. ShapeInv'
  BY <1>1, <1>2 DEF ShapeInv, serverVars
<1>4. IdleInv'
  BY <1>2 DEF QmlInv, IdleInv
<1>5. \A p \in Player : players'[p].session # NoId =>
          players'[p].session = players[p].session /\ players'[p].peer # 0
  <2> SUFFICES ASSUME NEW p \in Player, players'[p].session # NoId
               PROVE  players'[p].session = players[p].session /\ players'[p].peer # 0
    OBVIOUS
  <2>1. players[p].peer = 0 => players[p].session = NoId
    BY DEF QmlInv, IdleInv
  <2> QED
    BY <1>2, <2>1
<1>6. \A r \in sentRequests' \ sentRequests :
          r.method # "TEARDOWN" /\ r.owner \in clients' \cup {Nobody}
  BY <1>2
<1>7. \A r \in sentRequests : r.method = "TEARDOWN" => r \in sentRequests'
  BY <1>2
<1> HIDE DEF facts
<1> QED
  BY <1>3, <1>4, <1>5, <1>6, <1>7, QuietStep DEF serverVars

\* What close() leaves: nothing under way, and players without a session.
LEMMA CloseStep ==
    ASSUME QmlInv, NEW again \in BOOLEAN, close(again)
    PROVE  QmlInv'
<1>1. \A p \in Player : /\ reset(players[p]) \in PlayerState
                        /\ reset(players[p]).peer = 0
                        /\ reset(players[p]).session = NoId
                        /\ reset(players[p]).describe = InvalidCSeq
                        /\ ~reset(players[p]).emitting
  BY ResetFacts DEF QmlInv, ShapeInv, IdleInv
<1>2. /\ players' = [p \in Player |->
             IF p \in clients THEN reset(players[p]) ELSE players[p]]
      /\ sentRequests' = {}
      /\ mediaSessions' = [s \in SessionId |-> Nobody]
      /\ granted' = {}
      /\ UNCHANGED <<nextCSeq, clients, signals, nextSession, emitted>>
  BY DEF close
<1>3. ShapeInv'
  BY <1>1, <1>2 DEF QmlInv, ShapeInv
<1>4. IdleInv'
  BY <1>1, <1>2 DEF QmlInv, ShapeInv, IdleInv
<1>5. TeardownInv'
  BY <1>2 DEF TeardownInv
<1>6. NoDanglingClient'
  BY <1>2 DEF QmlInv, NoDanglingClient
<1>7. \A p \in clients : players'[p].session = NoId
  BY <1>1, <1>2 DEF QmlInv, ShapeInv
<1>8. SessionsAccountedFor'
  BY <1>2, <1>7 DEF SessionsAccountedFor
<1> QED
  BY <1>3, <1>4, <1>5, <1>6, <1>8 DEF QmlInv

\* The connection opens: nothing the players or sessions are about changes.
LEMMA OpenStep ==
    ASSUME QmlInv, open \/ (socketConnected /\ HasToken)
    PROVE  QmlInv'
<1>1. /\ UNCHANGED <<clients, sentRequests, mediaSessions, players, signals,
                     granted, nextSession, emitted>>
      /\ nextCSeq' \in Nat \ {0}
  BY DEF open, socketConnected, serverVars, QmlInv, ShapeInv
<1>2. ShapeInv' /\ IdleInv'
  BY <1>1 DEF QmlInv, ShapeInv, IdleInv
<1> QED
  BY <1>1, <1>2, QuietStep DEF QmlInv, SessionsAccountedFor, IdleInv

\* The connection becomes usable: every player asks for its stream.
LEMMA AuthorizedStep ==
    ASSUME QmlInv, authorized
    PROVE  QmlInv'
<1>1. clients \in SUBSET Player
  BY DEF QmlInv, ShapeInv
<1> QED
  BY <1>1, PlayStep DEF authorized

\* One more request that is not a TEARDOWN, of a player or of nobody.
LEMMA RequestStep ==
    ASSUME QmlInv, NEW method \in Methods \ {"TEARDOWN"},
           NEW owner \in clients \cup {Nobody}, NEW s \in Nat,
           request(method, owner, s),
           signals' \subseteq signals,
           UNCHANGED <<clients, mediaSessions, players, serverVars, emitted>>
    PROVE  QmlInv'
<1> DEFINE new == Request(nextCSeq, method, owner, s)
<1>1. nextCSeq' = nextCSeq + 1 /\ sentRequests' = sentRequests \cup {new}
  BY DEF request
<1>2. /\ new \in SentRequest
      /\ new.method # "TEARDOWN"
      /\ new.owner \in clients \cup {Nobody}
  BY DEF Request, SentRequest, QmlInv, ShapeInv
<1> HIDE DEF new
<1>3. ShapeInv' /\ IdleInv'
  BY <1>1, <1>2 DEF QmlInv, ShapeInv, IdleInv, serverVars
<1>4. \A p \in Player : players'[p].session # NoId =>
          players'[p].session = players[p].session /\ players'[p].peer # 0
  BY DEF QmlInv, IdleInv
<1> QED
  BY <1>1, <1>2, <1>3, <1>4, QuietStep DEF serverVars

\* The ping is such a request, of nobody.
LEMMA PingStep ==
    ASSUME QmlInv, sendPing
    PROVE  QmlInv'
<1>1. NoId \in Nat
  BY DEF NoId
<1> QED
  BY <1>1, RequestStep DEF sendPing, Methods

-----------------------------------------------------------------------------
\* A new player has nothing yet, and plays if the connection is open.
LEMMA CreateStep ==
    ASSUME QmlInv, NEW p \in Player, createPlayer(p)
    PROVE  QmlInv'
<1>1. CASE isOpen
  <2>1. PlayAll({p})
    BY <1>1 DEF createPlayer
  <2>2. clients' = clients \cup {p} /\ clients \subseteq Player
    BY DEF createPlayer, QmlInv, ShapeInv
  <2> QED
    BY <2>1, <2>2, PlayStep DEF createPlayer
<1>2. CASE ~isOpen
  <2>1. /\ clients' = clients \cup {p}
        /\ UNCHANGED <<nextCSeq, sentRequests, players, mediaSessions, signals,
                       granted, nextSession, emitted>>
    BY <1>2 DEF createPlayer, serverVars
  <2>2. ShapeInv' /\ IdleInv'
    BY <2>1 DEF QmlInv, ShapeInv, IdleInv
  <2>3. \A q \in Player : players'[q].session # NoId =>
            players'[q].session = players[q].session /\ players'[q].peer # 0
    BY <2>1 DEF QmlInv, IdleInv
  <2> QED
    BY <2>1, <2>2, <2>3, QuietStep
<1> QED
  BY <1>1, <1>2

\* A destroyed player leaves no pointer to itself: its requests go on without
\* it, its sessions are torn down, its signals are dropped.
LEMMA DestroyStep ==
    ASSUME QmlInv, NEW p \in Player, destroyPlayer(p)
    PROVE  QmlInv'
<1> DEFINE before(s) == {t \in owned(p) : t < s}
           cseq(s) == nextCSeq + Cardinality(before(s))
           torn == {Request(cseq(s), "TEARDOWN", Nobody, s) : s \in owned(p)}
<1>1. /\ p \in clients
      /\ clients' = clients \ {p}
      /\ players' = [players EXCEPT ![p] = NewPlayer]
      /\ signals' = {signal \in signals : signal.player # p}
      /\ nextCSeq' = nextCSeq + Cardinality(owned(p))
      /\ sentRequests' = abandoned(p) \cup torn
      /\ mediaSessions' = [s \in SessionId |->
             IF mediaSessions[s] = p THEN Nobody ELSE mediaSessions[s]]
      /\ UNCHANGED <<granted, nextSession, emitted>>
  BY DEF destroyPlayer, serverVars
<1>2. /\ Cardinality(owned(p)) \in Nat
      /\ \A s \in owned(p) : cseq(s) \in Nat \ {0}
  <2>1. owned(p) \in SUBSET SessionId
    BY DEF owned
  <2>2. \A s \in owned(p) : before(s) \in SUBSET SessionId
    BY <2>1
  <2>3. \A s \in owned(p) : Cardinality(before(s)) \in Nat
    BY <2>2, CountType, SetsFinite
  <2> QED
    BY <2>1, <2>3, CountType, SetsFinite DEF QmlInv, ShapeInv
<1> HIDE DEF cseq
<1>3. \A r \in torn : /\ r \in SentRequest
                      /\ r.method = "TEARDOWN"
                      /\ r.owner = Nobody
                      /\ r.session \in owned(p)
  BY <1>2, IdTypes DEF Request, SentRequest, Methods, owned
<1>4. \A s \in owned(p) : \E r \in torn : r.method = "TEARDOWN" /\ r.session = s
  <2> SUFFICES ASSUME NEW s \in owned(p)
               PROVE  \E r \in torn : r.method = "TEARDOWN" /\ r.session = s
    OBVIOUS
  <2>1. Request(cseq(s), "TEARDOWN", Nobody, s) \in torn
    OBVIOUS
  <2> QED
    BY <2>1 DEF Request
<1>5. \A r \in abandoned(p) :
          /\ r \in SentRequest
          /\ r.owner \in (clients \ {p}) \cup {Nobody}
          /\ \E old \in sentRequests : r.method = old.method /\ r.session = old.session
  <2> SUFFICES ASSUME NEW old \in sentRequests,
                      NEW r, r = IF old.owner = p THEN [old EXCEPT !.owner = Nobody]
                                 ELSE old
               PROVE  /\ r \in SentRequest
                      /\ r.owner \in (clients \ {p}) \cup {Nobody}
                      /\ r.method = old.method /\ r.session = old.session
    BY DEF abandoned
  <2>1. old \in SentRequest /\ old.owner \in clients \cup {Nobody}
    BY DEF QmlInv, ShapeInv, NoDanglingClient
  <2> QED
    BY <2>1 DEF SentRequest
<1>6. \A old \in sentRequests : \E r \in abandoned(p) :
          r.method = old.method /\ r.session = old.session
  <2> SUFFICES ASSUME NEW old \in sentRequests
               PROVE  \E r \in abandoned(p) :
                          r.method = old.method /\ r.session = old.session
    OBVIOUS
  <2>1. old \in SentRequest
    BY DEF QmlInv, ShapeInv
  <2> DEFINE new == IF old.owner = p THEN [old EXCEPT !.owner = Nobody] ELSE old
  <2>2. new.method = old.method /\ new.session = old.session
    BY <2>1 DEF SentRequest
  <2>3. new \in abandoned(p)
    BY DEF abandoned
  <2> QED
    BY <2>2, <2>3
<1> HIDE DEF torn
<1>7. ShapeInv'
  <2>1. NewPlayer \in PlayerState
    BY IdTypes DEF NewPlayer, PlayerState
  <2>2. players' \in [Player -> PlayerState]
    BY <1>1, <2>1 DEF QmlInv, ShapeInv
  <2>3. sentRequests' \subseteq SentRequest
    BY <1>1, <1>3, <1>5
  <2>4. mediaSessions' \in [SessionId -> Player \cup {Nobody}]
    BY <1>1 DEF QmlInv, ShapeInv
  <2> QED
    BY <1>1, <1>2, <2>2, <2>3, <2>4 DEF QmlInv, ShapeInv
<1>8. IdleInv'
  <2>1. NewPlayer.describe = InvalidCSeq /\ NewPlayer.session = NoId /\ ~NewPlayer.emitting
    BY DEF NewPlayer
  <2> QED
    BY <1>1, <2>1 DEF QmlInv, ShapeInv, IdleInv
<1>9. TeardownInv'
  <2>1. \A s \in SessionId : mediaSessions'[s] # Nobody => s < nextSession'
    BY <1>1 DEF QmlInv, TeardownInv
  <2>2. ASSUME NEW r \in torn
        PROVE  /\ r.session \in SessionId
               /\ r.session < nextSession'
               /\ mediaSessions'[r.session] = Nobody
    BY <1>1, <1>3, IdTypes DEF owned, QmlInv, TeardownInv
  <2>3. ASSUME NEW r \in abandoned(p), r.method = "TEARDOWN"
        PROVE  /\ r.session \in SessionId
               /\ r.session < nextSession'
               /\ mediaSessions'[r.session] = Nobody
    BY <1>1, <1>5, <2>3 DEF QmlInv, TeardownInv
  <2> QED
    BY <1>1, <2>1, <2>2, <2>3 DEF TeardownInv
<1>10. NoDanglingClient'
  <2>1. \A r \in sentRequests' : r.owner \in clients' \cup {Nobody}
    BY <1>1, <1>3, <1>5
  <2>2. \A s \in SessionId : mediaSessions'[s] \in clients' \cup {Nobody}
    BY <1>1 DEF QmlInv, NoDanglingClient
  <2>3. \A signal \in signals' : signal.player \in clients'
    BY <1>1 DEF QmlInv, NoDanglingClient
  <2> QED
    BY <2>1, <2>2, <2>3 DEF NoDanglingClient
<1>11. SessionsAccountedFor'
  <2>1. ASSUME NEW s \in granted'
        PROVE  \/ mediaSessions'[s] # Nobody
               \/ \E r \in sentRequests' : r.method = "TEARDOWN" /\ r.session = s
    <3>1. CASE s \in owned(p)
      BY <1>1, <1>4, <3>1
    <3>2. CASE s \notin owned(p) /\ s \in SessionId /\ mediaSessions[s] # Nobody
      BY <1>1, <3>2 DEF owned
    <3>3. CASE \E r \in sentRequests : r.method = "TEARDOWN" /\ r.session = s
      BY <1>1, <1>6, <3>3
    <3>4. s \in SessionId
      BY <1>1, <2>1 DEF QmlInv, ShapeInv
    <3> QED
      BY <1>1, <2>1, <3>1, <3>2, <3>3, <3>4 DEF QmlInv, SessionsAccountedFor
  <2>2. ASSUME NEW q \in clients', players'[q].session # NoId
        PROVE  /\ players'[q].session \in granted'
               /\ mediaSessions'[players'[q].session] = q
               /\ players'[q].peer # 0
    <3>1. q \in clients /\ q # p /\ q \in Player /\ players'[q] = players[q]
      BY <1>1, <2>2 DEF QmlInv, ShapeInv
    <3>2. players[q].session \in SessionId
      BY <2>2, <3>1 DEF QmlInv, ShapeInv, PlayerState
    <3> QED
      BY <1>1, <2>2, <3>1, <3>2 DEF QmlInv, SessionsAccountedFor
  <2> QED
    BY <2>1, <2>2 DEF SessionsAccountedFor
<1> QED
  BY <1>7, <1>8, <1>9, <1>10, <1>11 DEF QmlInv

-----------------------------------------------------------------------------
\* Resetting one player takes its session away and gives nobody another.
LEMMA ResetStep ==
    ASSUME QmlInv, NEW p \in clients,
           players' = [players EXCEPT ![p] = scheduleReconnect(reset(@))],
           sentRequests' \subseteq sentRequests,
           signals' \subseteq signals,
           UNCHANGED <<nextCSeq, clients, mediaSessions, granted, nextSession, emitted>>
    PROVE  /\ ShapeInv' /\ IdleInv'
           /\ \A q \in Player : players'[q].session # NoId =>
                  players'[q].session = players[q].session /\ players'[q].peer # 0
<1> DEFINE after == scheduleReconnect(reset(players[p]))
<1>1. p \in Player
  BY DEF QmlInv, ShapeInv
<1>2. /\ after \in PlayerState
      /\ after.peer = 0
      /\ after.session = NoId
      /\ after.describe = InvalidCSeq
      /\ ~after.emitting
  BY <1>1, ResetFacts DEF QmlInv, ShapeInv, IdleInv
<1>3. players' = [players EXCEPT ![p] = after]
  OBVIOUS
<1> HIDE DEF after
<1>4. ShapeInv'
  BY <1>1, <1>2, <1>3 DEF QmlInv, ShapeInv
<1>5. IdleInv'
  BY <1>1, <1>2, <1>3 DEF QmlInv, ShapeInv, IdleInv
<1>6. \A q \in Player : players'[q].session # NoId =>
          players'[q].session = players[q].session /\ players'[q].peer # 0
  BY <1>1, <1>2, <1>3 DEF QmlInv, ShapeInv, IdleInv
<1> QED
  BY <1>4, <1>5, <1>6

\* A refused DESCRIBE leaves its player without a session, as before.
LEMMA RefusedStep ==
    ASSUME QmlInv, NEW r \in sentRequests, DescribeRefused(r)
    PROVE  QmlInv'
<1>1. /\ r.method = "DESCRIBE"
      /\ sentRequests' = sentRequests \ {r}
      /\ UNCHANGED <<nextCSeq, clients, mediaSessions, signals, granted, nextSession,
                     emitted>>
  BY DEF DescribeRefused, serverVars
<1>2. CASE r.owner = Nobody /\ UNCHANGED players
  <2>1. ShapeInv' /\ IdleInv'
    BY <1>1, <1>2 DEF QmlInv, ShapeInv, IdleInv
  <2>2. \A p \in Player : players'[p].session # NoId =>
            players'[p].session = players[p].session /\ players'[p].peer # 0
    BY <1>2 DEF QmlInv, IdleInv
  <2> QED
    BY <1>1, <2>1, <2>2, QuietStep
<1>3. CASE /\ r.owner # Nobody
           /\ players' = [players EXCEPT ![r.owner] = scheduleReconnect(reset(@))]
  <2>1. ShapeInv' /\ IdleInv'
        /\ \A p \in Player : players'[p].session # NoId =>
               players'[p].session = players[p].session /\ players'[p].peer # 0
    <3>1. r.owner \in clients
      BY <1>3 DEF QmlInv, NoDanglingClient
    <3> QED
      BY <1>1, <1>3, <3>1, ResetStep
  <2> QED
    BY <1>1, <2>1, QuietStep
<1> QED
  BY <1>2, <1>3 DEF DescribeRefused

\* The session of a DESCRIBE nobody waits for is torn down at once.
LEMMA ToNobodyStep ==
    ASSUME QmlInv, NEW r \in sentRequests, DescribeAnsweredToNobody(r)
    PROVE  QmlInv'
<1> DEFINE new == Request(nextCSeq, "TEARDOWN", Nobody, nextSession)
<1>1. /\ nextSession \in SessionId
      /\ nextCSeq' = nextCSeq + 1
      /\ sentRequests' = (sentRequests \ {r}) \cup {new}
      /\ granted' = granted \cup {nextSession}
      /\ nextSession' = nextSession + 1
      /\ UNCHANGED <<clients, mediaSessions, players, signals, emitted>>
      /\ r.method = "DESCRIBE"
  BY DEF DescribeAnsweredToNobody, TeardownInstead
<1>2. /\ new \in SentRequest
      /\ new.method = "TEARDOWN"
      /\ new.owner = Nobody
      /\ new.session = nextSession
  BY <1>1, IdTypes DEF Request, SentRequest, Methods, QmlInv, ShapeInv
<1> HIDE DEF new
<1>3. ShapeInv'
  BY <1>1, <1>2 DEF QmlInv, ShapeInv
<1>4. IdleInv'
  BY <1>1 DEF QmlInv, IdleInv
<1>5. mediaSessions[nextSession] = Nobody
  BY <1>1 DEF QmlInv, TeardownInv, ShapeInv
<1>6. TeardownInv'
  <2>1. \A s \in SessionId : s < nextSession => s < nextSession'
    BY <1>1, IdTypes DEF QmlInv, ShapeInv
  <2>2. nextSession < nextSession'
    BY <1>1 DEF QmlInv, ShapeInv
  <2> QED
    BY <1>1, <1>2, <1>5, <2>1, <2>2 DEF QmlInv, TeardownInv
<1>7. NoDanglingClient'
  BY <1>1, <1>2 DEF QmlInv, NoDanglingClient
<1>8. SessionsAccountedFor'
  BY <1>1, <1>2 DEF QmlInv, SessionsAccountedFor
<1> QED
  BY <1>3, <1>4, <1>6, <1>7, <1>8 DEF QmlInv

\* A player gets the session it has asked for: it has a peer, or it would
\* not wait for this answer.
LEMMA DescribedStep ==
    ASSUME QmlInv, NEW r \in sentRequests, onDescribeResponse(r)
    PROVE  QmlInv'
<1> DEFINE p == r.owner
<1>1. /\ nextSession \in SessionId
      /\ p # Nobody
      /\ players' = [players EXCEPT ![p].session = nextSession, ![p].emitting = TRUE]
      /\ mediaSessions' = [mediaSessions EXCEPT ![nextSession] = p]
      /\ sentRequests' = sentRequests \ {r}
      /\ granted' = granted \cup {nextSession}
      /\ nextSession' = nextSession + 1
      /\ UNCHANGED <<nextCSeq, clients, signals, emitted>>
      /\ r.method = "DESCRIBE"
      /\ r.cseq = players[p].describe
  BY DEF onDescribeResponse
<1>2. p \in clients /\ p \in Player /\ r.cseq # 0
  BY <1>1 DEF QmlInv, ShapeInv, NoDanglingClient, SentRequest
<1> HIDE DEF p
<1>3. players[p].peer # 0
  BY <1>1, <1>2, IdTypes DEF QmlInv, IdleInv
<1>4. /\ players'[p] \in PlayerState
      /\ players'[p].session = nextSession
      /\ players'[p].peer # 0
      /\ \A q \in Player \ {p} : players'[q] = players[q]
      /\ DOMAIN players' = Player
  <2> DEFINE given == [players[p] EXCEPT !.session = nextSession, !.emitting = TRUE]
  <2>1. players[p] \in PlayerState
    BY <1>2 DEF QmlInv, ShapeInv
  <2>2. [players[p] EXCEPT !.session = nextSession] \in PlayerState
    BY <1>1, <2>1 DEF PlayerState
  <2>3. given \in PlayerState
    BY <2>1, <2>2 DEF PlayerState
  <2>4. given.session = nextSession /\ given.peer = players[p].peer
    BY <2>1 DEF PlayerState
  <2>5. players'[p] = given
    BY <1>1, <1>2 DEF QmlInv, ShapeInv
  <2>6. \A q \in Player \ {p} : players'[q] = players[q]
    BY <1>1 DEF QmlInv, ShapeInv
  <2>7. DOMAIN players' = Player
    BY <1>1 DEF QmlInv, ShapeInv
  <2> QED
    BY <1>3, <2>3, <2>4, <2>5, <2>6, <2>7
<1>5. \A s \in granted : s # nextSession
  BY DEF QmlInv, ShapeInv
<1>6. ShapeInv'
  <2>1. players' \in [Player -> PlayerState]
    <3>1. \A q \in Player : players'[q] \in PlayerState
      BY <1>4 DEF QmlInv, ShapeInv
    <3>2. players' = [q \in Player |-> players'[q]]
      BY <1>1, <1>4 DEF QmlInv, ShapeInv
    <3> QED
      BY <3>1, <3>2
  <2>2. sentRequests' \subseteq SentRequest /\ nextCSeq' \in Nat \ {0}
        /\ clients' \subseteq Player /\ signals' \subseteq Signal /\ emitted' \in Nat
    BY <1>1 DEF QmlInv, ShapeInv
  <2>3. mediaSessions' \in [SessionId -> Player \cup {Nobody}]
    BY <1>1, <1>2 DEF QmlInv, ShapeInv
  <2>4. /\ nextSession' \in Nat \ {0}
        /\ granted' \subseteq SessionId
        /\ \A s \in granted' : s < nextSession'
    BY <1>1, IdTypes DEF QmlInv, ShapeInv
  <2> QED
    BY <2>1, <2>2, <2>3, <2>4 DEF ShapeInv
<1>7. IdleInv'
  BY <1>1, <1>2, <1>4 DEF QmlInv, IdleInv
<1>8. TeardownInv'
  <2>1. \A s \in SessionId : s < nextSession => s < nextSession'
    BY <1>1, IdTypes DEF QmlInv, ShapeInv
  <2>2. nextSession < nextSession'
    BY <1>1 DEF QmlInv, ShapeInv
  <2>3. \A t \in sentRequests : t.method = "TEARDOWN" => t.session # nextSession
    BY DEF QmlInv, TeardownInv, ShapeInv
  <2>4. \A s \in SessionId : s = nextSession \/ mediaSessions'[s] = mediaSessions[s]
    BY <1>1 DEF QmlInv, ShapeInv
  <2> QED
    BY <1>1, <2>1, <2>2, <2>3, <2>4 DEF QmlInv, TeardownInv
<1>9. NoDanglingClient'
  BY <1>1, <1>2 DEF QmlInv, NoDanglingClient, ShapeInv
<1>10. SessionsAccountedFor'
  <2>1. mediaSessions'[nextSession] = p
    BY <1>1 DEF QmlInv, ShapeInv
  <2>2. \A s \in granted : mediaSessions'[s] = mediaSessions[s]
    BY <1>1, <1>5 DEF QmlInv, ShapeInv
  <2>3. ASSUME NEW s \in granted'
        PROVE  \/ mediaSessions'[s] # Nobody
               \/ \E t \in sentRequests' : t.method = "TEARDOWN" /\ t.session = s
    BY <1>1, <2>1, <2>2, <2>3 DEF QmlInv, SessionsAccountedFor
  <2>4. ASSUME NEW q \in clients', players'[q].session # NoId
        PROVE  /\ players'[q].session \in granted'
               /\ mediaSessions'[players'[q].session] = q
               /\ players'[q].peer # 0
    <3>1. CASE q = p
      BY <1>1, <1>4, <2>1, <3>1
    <3>2. CASE q # p
      <4>1. q \in clients /\ players'[q] = players[q]
        BY <1>1, <1>4, <3>2 DEF QmlInv, ShapeInv
      <4>2. players[q].session \in granted /\ mediaSessions[players[q].session] = q
            /\ players[q].peer # 0
        BY <2>4, <4>1 DEF QmlInv, SessionsAccountedFor
      <4>3. players[q].session \in granted'
        BY <1>1, <4>2
      <4>4. mediaSessions'[players[q].session] = q
        BY <2>2, <4>2
      <4> QED
        BY <4>1, <4>2, <4>3, <4>4
    <3> QED
      BY <3>1, <3>2
  <2> QED
    BY <2>3, <2>4 DEF SessionsAccountedFor
<1> QED
  BY <1>6, <1>7, <1>8, <1>9, <1>10 DEF QmlInv

\* The session of an answered TEARDOWN was nobody's.
LEMMA OtherStep ==
    ASSUME QmlInv, NEW r \in sentRequests, OtherResponse(r)
    PROVE  QmlInv'
<1>1. /\ sentRequests' = sentRequests \ {r}
      /\ granted' = IF r.method = "TEARDOWN" THEN granted \ {r.session} ELSE granted
      /\ UNCHANGED <<nextCSeq, clients, mediaSessions, players, signals, nextSession,
                     emitted>>
  BY DEF OtherResponse
<1>2. ShapeInv'
  BY <1>1 DEF QmlInv, ShapeInv
<1>3. IdleInv'
  BY <1>1 DEF QmlInv, IdleInv
<1>4. TeardownInv'
  BY <1>1 DEF QmlInv, TeardownInv
<1>5. NoDanglingClient'
  BY <1>1 DEF QmlInv, NoDanglingClient
<1>6. SessionsAccountedFor'
  <2>1. ASSUME NEW s \in granted'
        PROVE  \/ mediaSessions'[s] # Nobody
               \/ \E t \in sentRequests' : t.method = "TEARDOWN" /\ t.session = s
    BY <1>1, <2>1 DEF QmlInv, SessionsAccountedFor
  <2>2. ASSUME NEW q \in clients', players'[q].session # NoId
        PROVE  /\ players'[q].session \in granted'
               /\ mediaSessions'[players'[q].session] = q
               /\ players'[q].peer # 0
    <3>1. q \in clients /\ q # Nobody
      BY <1>1, IdTypes DEF QmlInv, ShapeInv
    <3>2. r.method = "TEARDOWN" => mediaSessions[r.session] = Nobody
      BY DEF QmlInv, TeardownInv
    <3> QED
      BY <1>1, <2>2, <3>1, <3>2 DEF QmlInv, SessionsAccountedFor
  <2> QED
    BY <2>1, <2>2 DEF SessionsAccountedFor
<1> QED
  BY <1>2, <1>3, <1>4, <1>5, <1>6 DEF QmlInv

\* Connection::handleResponse, whichever request is answered.
LEMMA ResponseStep ==
    ASSUME QmlInv, NEW r \in sentRequests, handleResponse(r)
    PROVE  QmlInv'
  BY RefusedStep, ToNobodyStep, DescribedStep, CloseStep, OtherStep
  DEF handleResponse, UnexpectedResponse

-----------------------------------------------------------------------------
\* The server ends a session: its owner, if it is still about that session,
\* lets go of it.
LEMMA TeardownRequestStep ==
    ASSUME QmlInv, NEW s \in SessionId, onTeardownRequest(s)
    PROVE  QmlInv'
<1>1. /\ players' = [p \in Player |->
             IF mediaSessions[s] = p /\ players[p].session = s
             THEN scheduleReconnect(reset(players[p])) ELSE players[p]]
      /\ mediaSessions' = [mediaSessions EXCEPT ![s] = Nobody]
      /\ granted' = granted \ {s}
      /\ UNCHANGED <<nextCSeq, clients, sentRequests, signals, nextSession, emitted>>
  BY DEF onTeardownRequest
<1>2. \A p \in Player :
          /\ scheduleReconnect(reset(players[p])) \in PlayerState
          /\ scheduleReconnect(reset(players[p])).peer = 0
          /\ scheduleReconnect(reset(players[p])).session = NoId
          /\ scheduleReconnect(reset(players[p])).describe = InvalidCSeq
          /\ ~scheduleReconnect(reset(players[p])).emitting
  BY ResetFacts DEF QmlInv, ShapeInv, IdleInv
<1>3. ShapeInv'
  BY <1>1, <1>2 DEF QmlInv, ShapeInv
<1>4. IdleInv'
  <2>1. ASSUME NEW p \in Player \ clients
        PROVE  players'[p] = NewPlayer
    <3>1. mediaSessions[s] # p
      BY <2>1, IdTypes DEF QmlInv, NoDanglingClient
    <3> QED
      BY <1>1, <3>1 DEF QmlInv, IdleInv
  <2>2. ASSUME NEW p \in Player, players'[p].peer = 0
        PROVE  /\ players'[p].describe = InvalidCSeq
               /\ players'[p].session = NoId
               /\ ~players'[p].emitting
    <3>1. players'[p] = players[p] \/ players'[p] = scheduleReconnect(reset(players[p]))
      BY <1>1
    <3> QED
      BY <1>2, <2>2, <3>1 DEF QmlInv, IdleInv
  <2> QED
    BY <1>1, <2>1, <2>2 DEF IdleInv
<1>5. TeardownInv'
  BY <1>1 DEF QmlInv, TeardownInv, ShapeInv
<1>6. NoDanglingClient'
  BY <1>1 DEF QmlInv, NoDanglingClient, ShapeInv
<1>7. SessionsAccountedFor'
  <2>1. ASSUME NEW t \in granted'
        PROVE  \/ mediaSessions'[t] # Nobody
               \/ \E r \in sentRequests' : r.method = "TEARDOWN" /\ r.session = t
    BY <1>1, <2>1 DEF QmlInv, SessionsAccountedFor, ShapeInv
  <2>2. ASSUME NEW p \in clients', players'[p].session # NoId
        PROVE  /\ players'[p].session \in granted'
               /\ mediaSessions'[players'[p].session] = p
               /\ players'[p].peer # 0
    <3>1. p \in clients /\ p \in Player
      BY <1>1 DEF QmlInv, ShapeInv
    <3>2. players'[p] = players[p] /\ ~(mediaSessions[s] = p /\ players[p].session = s)
      BY <1>1, <1>2, <2>2, <3>1
    <3>3. /\ players[p].session \in granted
          /\ mediaSessions[players[p].session] = p
          /\ players[p].peer # 0
      BY <2>2, <3>1, <3>2 DEF QmlInv, SessionsAccountedFor
    <3>4. players[p].session # s
      BY <3>2, <3>3
    <3> QED
      BY <1>1, <3>2, <3>3, <3>4 DEF QmlInv, ShapeInv
  <2> QED
    BY <2>1, <2>2 DEF SessionsAccountedFor
<1> QED
  BY <1>3, <1>4, <1>5, <1>6, <1>7 DEF QmlInv

\* The server's candidate goes to a peer, or to none.
LEMMA SetupRequestStep ==
    ASSUME QmlInv, NEW s \in SessionId, onSetupRequest(s)
    PROVE  QmlInv'
<1>1. UNCHANGED <<nextCSeq, clients, sentRequests, mediaSessions, players, signals,
                  granted, nextSession, emitted>>
  BY DEF onSetupRequest, serverVars
<1> QED
  BY <1>1, UnchangedStep

-----------------------------------------------------------------------------
\* Only the peer of a player that exists emits.
LEMMA EmitStep ==
    ASSUME QmlInv, NEW p \in Player, NEW kind \in {"prepared", "iceCandidate", "eos"},
           EmitSignal(p, kind)
    PROVE  QmlInv'
<1> DEFINE new == [player |-> p, kind |-> kind, serial |-> emitted + 1]
<1>1. /\ players[p].emitting
      /\ emitted' = emitted + 1
      /\ signals' = signals \cup {new}
      /\ UNCHANGED <<nextCSeq, clients, sentRequests, mediaSessions, players,
                     granted, nextSession>>
  BY DEF EmitSignal, serverVars
<1>2. p \in clients
  <2>1. ~NewPlayer.emitting
    BY DEF NewPlayer
  <2> QED
    BY <1>1, <2>1 DEF QmlInv, IdleInv
<1>3. new \in Signal /\ new.player = p
  BY DEF Signal, QmlInv, ShapeInv
<1> HIDE DEF new
<1>4. ShapeInv' /\ IdleInv'
  BY <1>1, <1>3 DEF QmlInv, ShapeInv, IdleInv
<1>5. \A q \in Player : players'[q].session # NoId =>
          players'[q].session = players[q].session /\ players'[q].peer # 0
  BY <1>1 DEF QmlInv, IdleInv
<1> QED
  BY <1>1, <1>2, <1>3, <1>4, <1>5, QuietStep

\* A signal of a player that exists: it asks for PLAY or SETUP of its session,
\* or lets go of it.
LEMMA DeliverStep ==
    ASSUME QmlInv, SignalDelivered
    PROVE  QmlInv'
<1>1. PICK signal \in signals :
          /\ signals' = signals \ {signal}
          /\ peerPrepared(signal) \/ iceCandidate(signal) \/ eos(signal)
          /\ UNCHANGED <<connectionVars, clients, mediaSessions, serverVars, emitted>>
  BY DEF SignalDelivered
<1> DEFINE p == signal.player
<1>2. p \in clients /\ p \in Player
  BY DEF QmlInv, NoDanglingClient, ShapeInv
<1>3. players[p].session \in Nat
  <2> HIDE DEF p
  <2>1. players[p] \in PlayerState
    BY <1>2 DEF QmlInv, ShapeInv
  <2>2. players[p].session \in {NoId} \cup SessionId
    BY <2>1 DEF PlayerState
  <2> QED
    BY <2>2, QmlBoundsAssumption DEF NoId, SessionId
<1>4. ASSUME NEW method \in {"PLAY", "SETUP"}, RequestFromSignal(method, p)
      PROVE  QmlInv'
  <2>1. CASE isOpen
    BY <1>1, <1>2, <1>3, <1>4, <2>1, RequestStep DEF RequestFromSignal, Methods
  <2>2. CASE ~isOpen
    <3>1. UNCHANGED <<nextCSeq, clients, sentRequests, mediaSessions, players,
                      granted, nextSession, emitted>>
      BY <1>1, <1>4, <2>2 DEF RequestFromSignal, serverVars
    <3> QED
      BY <1>1, <3>1, UnchangedStep
  <2> QED
    BY <2>1, <2>2
<1>5. ASSUME eos(signal)
      PROVE  QmlInv'
  <2>1. /\ players' = [players EXCEPT ![p] = scheduleReconnect(reset(@))]
        /\ signals' \subseteq signals
        /\ UNCHANGED <<nextCSeq, clients, sentRequests, mediaSessions, granted,
                       nextSession, emitted>>
    BY <1>1, <1>5 DEF eos, serverVars
  <2> HIDE DEF p
  <2> QED
    BY <1>2, <2>1, ResetStep, QuietStep
<1> QED
  BY <1>1, <1>4, <1>5 DEF peerPrepared, iceCandidate

\* The player's timer: play(), with or without a connection.
LEMMA TimerStep ==
    ASSUME QmlInv, NEW p \in Player, PlayerTimer(p)
    PROVE  QmlInv'
<1>1. p \in clients
  <2>1. ~NewPlayer.timer
    BY DEF NewPlayer
  <2> QED
    BY <2>1 DEF PlayerTimer, QmlInv, IdleInv
<1>2. CASE isOpen
  <2>1. /\ PlayAll({p})
        /\ UNCHANGED <<clients, mediaSessions, signals, serverVars, emitted>>
    BY <1>2 DEF PlayerTimer
  <2>2. {p} \in SUBSET Player /\ clients' \subseteq Player
    BY <2>1 DEF QmlInv, ShapeInv
  <2> QED
    BY <1>1, <2>1, <2>2, PlayStep
<1>3. CASE ~isOpen
  <2> DEFINE after == play(players[p], InvalidCSeq)
  <2>1. /\ players' = [players EXCEPT ![p] = after]
        /\ UNCHANGED <<nextCSeq, clients, sentRequests, mediaSessions, signals, granted,
                       nextSession, emitted>>
    BY <1>3 DEF PlayerTimer, serverVars
  <2>2. after \in PlayerState /\ after.peer # 0 /\ after.session = players[p].session
    BY PlayFacts, IdTypes DEF QmlInv, ShapeInv
  <2> HIDE DEF after
  <2>3. ShapeInv'
    BY <2>1, <2>2 DEF QmlInv, ShapeInv
  <2>4. IdleInv'
    BY <1>1, <2>1, <2>2 DEF QmlInv, ShapeInv, IdleInv
  <2>5. \A q \in Player : players'[q].session # NoId =>
            players'[q].session = players[q].session /\ players'[q].peer # 0
    BY <2>1, <2>2 DEF QmlInv, ShapeInv, IdleInv
  <2> QED
    BY <2>1, <2>3, <2>4, <2>5, QuietStep
<1> QED
  BY <1>2, <1>3

-----------------------------------------------------------------------------
\* Nothing is under way at the start.
LEMMA InitInv == QmlInit => QmlInv
<1> SUFFICES ASSUME QmlInit PROVE QmlInv
  OBVIOUS
<1>1. NewPlayer \in PlayerState /\ NewPlayer.session = NoId
      /\ NewPlayer.describe = InvalidCSeq /\ ~NewPlayer.emitting
  BY IdTypes DEF NewPlayer, PlayerState
<1>2. ShapeInv /\ IdleInv
  BY <1>1, IdTypes DEF QmlInit, ShapeInv, IdleInv
<1>3. TeardownInv /\ NoDanglingClient /\ SessionsAccountedFor
  BY DEF QmlInit, TeardownInv, NoDanglingClient, SessionsAccountedFor
<1> QED
  BY <1>2, <1>3 DEF QmlInv

\* Every step of the client keeps the invariant.
LEMMA StepInv == QmlInv /\ [QmlNext]_qmlVars => QmlInv'
<1> SUFFICES ASSUME QmlInv, [QmlNext]_qmlVars PROVE QmlInv'
  OBVIOUS
<1>1. CASE ConnectionStep
  <2>1. CASE closeByApplication \/ ConnectionLost
    BY <2>1, CloseStep DEF closeByApplication, ConnectionLost
  <2>2. CASE open
    BY <2>2, OpenStep
  <2>3. CASE socketConnected \/ AuthAnswered
    BY <2>3, OpenStep, AuthorizedStep DEF socketConnected, AuthAnswered
  <2>4. CASE sendPing
    BY <2>4, PingStep
  <2>5. CASE \E r \in sentRequests : handleResponse(r)
    BY <2>5, ResponseStep
  <2> QED
    BY <1>1, <2>1, <2>2, <2>3, <2>4, <2>5 DEF ConnectionStep
<1>2. CASE \E p \in Player : PlayerStep(p)
  BY <1>2, CreateStep, DestroyStep, TimerStep, EmitStep DEF PlayerStep
<1>3. CASE SignalDelivered
  BY <1>3, DeliverStep
<1>4. CASE \E s \in SessionId : onSetupRequest(s) \/ onTeardownRequest(s)
  BY <1>4, SetupRequestStep, TeardownRequestStep
<1>5. CASE UNCHANGED qmlVars
  BY <1>5, UnchangedStep DEF qmlVars, serverVars
<1> QED
  BY <1>1, <1>2, <1>3, <1>4, <1>5 DEF QmlNext

\* The inductive invariant: nothing outlives its player, and a session that
\* has been granted has an owner or a TEARDOWN on its way.
THEOREM QmlInvariant == QmlSpec => []QmlInv
  BY InitInv, StepInv, PTL DEF QmlSpec

\* No raw pointer of Connection, to the owner of a request, a session or a
\* signal, outlives its client, for any number of players and requests.
THEOREM NeverDangling == QmlSpec => []NoDanglingClient
<1>1. QmlInv => NoDanglingClient
  BY DEF QmlInv
<1> QED
  BY <1>1, QmlInvariant, PTL

\* Every session the server has granted is a player's or is being torn down.
THEOREM SessionsAlwaysAccountedFor == QmlSpec => []SessionsAccountedFor
<1>1. QmlInv => SessionsAccountedFor
  BY DEF QmlInv
<1> QED
  BY <1>1, QmlInvariant, PTL

-----------------------------------------------------------------------------
(* Nobody is forgotten: what each step does to a player that waits.        *)

\* A step that leaves a player and its DESCRIBEs alone, or ends its waiting.
LEMMA WaitStep ==
    ASSUME QmlInv, NobodyForgotten,
           \A q \in clients' :
              \/ /\ q \in clients
                 /\ players'[q] = players[q]
                 /\ \A r \in sentRequests :
                       r.method = "DESCRIBE" /\ r.owner = q => r \in sentRequests'
                 /\ isOpen' => isOpen
              \/ /\ players'[q].describe = InvalidCSeq \/ players'[q].session # NoId
                 /\ isOpen' => players'[q].peer # 0 \/ players'[q].timer
    PROVE  NobodyForgotten'
<1> SUFFICES ASSUME NEW q \in clients'
             PROVE  /\ players'[q].describe # InvalidCSeq /\ players'[q].session = NoId =>
                           \E r \in sentRequests' :
                              /\ r.method = "DESCRIBE" /\ r.owner = q
                              /\ r.cseq = players'[q].describe
                    /\ isOpen' => players'[q].peer # 0 \/ players'[q].timer
  BY DEF NobodyForgotten
<1>1. CASE /\ q \in clients
           /\ players'[q] = players[q]
           /\ \A r \in sentRequests :
                 r.method = "DESCRIBE" /\ r.owner = q => r \in sentRequests'
           /\ isOpen' => isOpen
  <2>1. /\ players[q].describe # InvalidCSeq /\ players[q].session = NoId =>
               \E r \in sentRequests :
                  r.method = "DESCRIBE" /\ r.owner = q /\ r.cseq = players[q].describe
        /\ isOpen => players[q].peer # 0 \/ players[q].timer
    BY <1>1 DEF NobodyForgotten
  <2> QED
    BY <1>1, <2>1
<1> QED
  BY <1>1

\* What a reset() before the retry leaves of a player's waiting.
LEMMA ResetWaits ==
    ASSUME QmlInv, NEW p \in Player
    PROVE  /\ reset(players[p]).describe = InvalidCSeq
           /\ scheduleReconnect(reset(players[p])).describe = InvalidCSeq
           /\ scheduleReconnect(reset(players[p])).timer
<1>1. players[p] \in PlayerState
  BY DEF QmlInv, ShapeInv
<1>2. /\ reset(players[p]).describe = InvalidCSeq
      /\ scheduleReconnect(reset(players[p])).describe = InvalidCSeq
  BY <1>1, ResetFacts DEF QmlInv, IdleInv
<1>3. scheduleReconnect(reset(players[p])).timer
  BY <1>1 DEF reset, scheduleReconnect, NewPlayer, PlayerState
<1> QED
  BY <1>2, <1>3

\* Each player PlayAll is for has a peer, and each that had none has asked.
LEMMA PlayAllAsks ==
    ASSUME ShapeInv, NEW S \in SUBSET Player, PlayAll(S)
    PROVE  /\ sentRequests \subseteq sentRequests'
           /\ \A p \in Player :
                 \/ players'[p] = players[p] /\ (p \in S => players[p].peer # 0)
                 \/ /\ players'[p].peer # 0
                    /\ \E r \in sentRequests' :
                          /\ r.method = "DESCRIBE" /\ r.owner = p
                          /\ r.cseq = players'[p].describe
<1> DEFINE idle == {p \in S : players[p].peer = 0}
           cseq(p) == nextCSeq + Cardinality({q \in idle : q < p})
<1>1. /\ sentRequests' = sentRequests \cup {Request(cseq(p), "DESCRIBE", p, NoId) : p \in idle}
      /\ players' = [p \in Player |->
             IF p \in idle THEN play(players[p], cseq(p)) ELSE players[p]]
  BY DEF PlayAll
<1>2. ASSUME NEW p \in Player, p \notin idle
      PROVE  players'[p] = players[p] /\ (p \in S => players[p].peer # 0)
  BY <1>1, <1>2
<1>3. ASSUME NEW p \in Player, p \in idle
      PROVE  /\ players'[p].peer # 0
             /\ \E r \in sentRequests' :
                   /\ r.method = "DESCRIBE" /\ r.owner = p
                   /\ r.cseq = players'[p].describe
  <2>1. PICK c : c = cseq(p)
    OBVIOUS
  <2>2. Request(c, "DESCRIBE", p, NoId) \in sentRequests' /\ players'[p] = play(players[p], c)
    BY <1>1, <1>3, <2>1
  <2> HIDE DEF cseq
  <2>3. players[p] \in PlayerState
    BY DEF ShapeInv
  <2>4. play(players[p], c).describe = c /\ play(players[p], c).peer # 0
    BY <2>3 DEF play, PlayerState
  <2>5. /\ Request(c, "DESCRIBE", p, NoId).method = "DESCRIBE"
        /\ Request(c, "DESCRIBE", p, NoId).owner = p
        /\ Request(c, "DESCRIBE", p, NoId).cseq = c
    BY DEF Request
  <2> QED
    BY <2>2, <2>4, <2>5
<1> HIDE DEF idle, cseq
<1> QED
  BY <1>1, <1>2, <1>3

\* PlayAll for all the clients that have nothing to wait for.
LEMMA PlayAllWaits ==
    ASSUME QmlInv, NobodyForgotten, NEW S \in SUBSET Player, PlayAll(S),
           clients' \subseteq clients \cup S,
           isOpen \/ clients \subseteq S
    PROVE  NobodyForgotten'
<1> SUFFICES ASSUME NEW q \in clients'
             PROVE  /\ players'[q].describe # InvalidCSeq /\ players'[q].session = NoId =>
                           \E r \in sentRequests' :
                              /\ r.method = "DESCRIBE" /\ r.owner = q
                              /\ r.cseq = players'[q].describe
                    /\ isOpen' => players'[q].peer # 0 \/ players'[q].timer
  BY DEF NobodyForgotten
<1>1. /\ q \in Player
      /\ q \notin clients => players[q] = NewPlayer
      /\ sentRequests \subseteq sentRequests'
  BY PlayAllAsks DEF QmlInv, ShapeInv, IdleInv
<1>2. CASE /\ players'[q].peer # 0
           /\ \E r \in sentRequests' :
                 r.method = "DESCRIBE" /\ r.owner = q /\ r.cseq = players'[q].describe
  BY <1>2
<1>3. CASE players'[q] = players[q] /\ (q \in S => players[q].peer # 0)
  <2>1. CASE q \in clients
    <3>1. /\ players[q].describe # InvalidCSeq /\ players[q].session = NoId =>
                 \E r \in sentRequests :
                    r.method = "DESCRIBE" /\ r.owner = q /\ r.cseq = players[q].describe
          /\ isOpen => players[q].peer # 0 \/ players[q].timer
      BY <2>1 DEF NobodyForgotten
    <3> QED
      BY <1>1, <1>3, <2>1, <3>1
  <2>2. CASE q \notin clients
    <3>1. players[q].describe = InvalidCSeq /\ q \in S
      BY <1>1, <2>2 DEF NewPlayer
    <3> QED
      BY <1>3, <3>1
  <2> QED
    BY <2>1, <2>2
<1> QED
  BY <1>1, <1>2, <1>3, PlayAllAsks DEF QmlInv

LEMMA CloseWaits ==
    ASSUME QmlInv, NobodyForgotten, NEW again, close(again)
    PROVE  NobodyForgotten'
<1>1. /\ ~isOpen' /\ clients' = clients
      /\ \A q \in clients : players'[q] = reset(players[q])
  BY DEF close, QmlInv, ShapeInv
<1>2. \A q \in clients' : q \in Player /\ players'[q].describe = InvalidCSeq
  BY <1>1, ResetWaits DEF QmlInv, ShapeInv
<1> QED
  BY <1>1, <1>2, WaitStep

\* Steps that answer nobody and change no player.
LEMMA AskWaits ==
    ASSUME QmlInv, NobodyForgotten, sentRequests \subseteq sentRequests',
           players' = players, clients' = clients, isOpen' = isOpen
    PROVE  NobodyForgotten'
  BY WaitStep

LEMMA ResponseWaits ==
    ASSUME QmlInv, NobodyForgotten, NEW r \in sentRequests, handleResponse(r)
    PROVE  NobodyForgotten'
<1>1. CASE DescribeRefused(r)
  <2>1. /\ r.method = "DESCRIBE"
        /\ sentRequests' = sentRequests \ {r}
        /\ clients' = clients /\ isOpen' = isOpen
    BY <1>1 DEF DescribeRefused, connectionVars
  <2>2. CASE r.owner = Nobody
    <3>1. players' = players
      BY <1>1, <2>2 DEF DescribeRefused
    <3>2. \A q \in clients : q # Nobody
      BY IdTypes DEF QmlInv, ShapeInv
    <3> QED
      BY <2>1, <2>2, <3>1, <3>2, WaitStep
  <2>3. CASE r.owner # Nobody
    <3>1. players' = [players EXCEPT ![r.owner] = scheduleReconnect(reset(@))]
      BY <1>1, <2>3 DEF DescribeRefused
    <3>2. r.owner \in Player
      BY <2>3 DEF QmlInv, ShapeInv, SentRequest
    <3>3. /\ players'[r.owner] = scheduleReconnect(reset(players[r.owner]))
          /\ \A q \in Player : q # r.owner => players'[q] = players[q]
      BY <3>1, <3>2 DEF QmlInv, ShapeInv
    <3>4. /\ players'[r.owner].describe = InvalidCSeq
          /\ players'[r.owner].timer
      BY <3>2, <3>3, ResetWaits
    <3>5. clients \subseteq Player
      BY DEF QmlInv, ShapeInv
    <3> QED
      BY <2>1, <3>3, <3>4, <3>5, WaitStep
  <2> QED
    BY <2>2, <2>3
<1>2. CASE DescribeAnsweredToNobody(r)
  <2>1. /\ r.owner = Nobody
        /\ sentRequests \ {r} \subseteq sentRequests'
        /\ players' = players /\ clients' = clients /\ isOpen' = isOpen
    BY <1>2 DEF DescribeAnsweredToNobody, TeardownInstead, connectionVars
  <2>2. \A q \in clients : q # Nobody
    BY IdTypes DEF QmlInv, ShapeInv
  <2> QED
    BY <2>1, <2>2, WaitStep
<1>3. CASE onDescribeResponse(r)
  <2>1. /\ r.owner # Nobody /\ nextSession \in SessionId
        /\ players' = [players EXCEPT ![r.owner].session = nextSession,
                                      ![r.owner].emitting = TRUE]
        /\ sentRequests' = sentRequests \ {r}
        /\ clients' = clients /\ isOpen' = isOpen
    BY <1>3 DEF onDescribeResponse, connectionVars
  <2>2. r.owner \in Player
    BY <2>1 DEF QmlInv, ShapeInv, SentRequest
  <2>3. players[r.owner] \in PlayerState
    BY <2>2 DEF QmlInv, ShapeInv
  <2>4. /\ players'[r.owner].session = nextSession
        /\ players'[r.owner].peer = players[r.owner].peer
        /\ players'[r.owner].timer = players[r.owner].timer
        /\ \A q \in Player : q # r.owner => players'[q] = players[q]
    BY <2>1, <2>2, <2>3 DEF QmlInv, ShapeInv, PlayerState
  <2>5. nextSession # NoId
    BY <2>1, IdTypes
  <2>6. clients \subseteq Player
    BY DEF QmlInv, ShapeInv
  <2>7. \A q \in clients : isOpen => players[q].peer # 0 \/ players[q].timer
    BY DEF NobodyForgotten
  <2>8. ASSUME NEW q \in clients, q # r.owner
        PROVE  /\ players'[q] = players[q]
               /\ \A t \in sentRequests :
                     t.method = "DESCRIBE" /\ t.owner = q => t \in sentRequests'
               /\ isOpen' => isOpen
    BY <2>1, <2>4, <2>6, <2>8
  <2>9. r.owner \in clients =>
           /\ players'[r.owner].session # NoId
           /\ isOpen' => players'[r.owner].peer # 0 \/ players'[r.owner].timer
    BY <2>1, <2>4, <2>5, <2>7
  <2> QED
    BY <2>1, <2>8, <2>9, WaitStep
<1>4. CASE UnexpectedResponse(r)
  BY <1>4, CloseWaits DEF UnexpectedResponse
<1>5. CASE OtherResponse(r)
  <2>1. /\ r.method # "DESCRIBE" /\ sentRequests' = sentRequests \ {r}
        /\ players' = players /\ clients' = clients /\ isOpen' = isOpen
    BY <1>5 DEF OtherResponse, connectionVars
  <2> QED
    BY <2>1, WaitStep
<1> QED
  BY <1>1, <1>2, <1>3, <1>4, <1>5 DEF handleResponse

LEMMA DestroyWaits ==
    ASSUME QmlInv, NobodyForgotten, NEW p \in Player, destroyPlayer(p)
    PROVE  NobodyForgotten'
<1>1. /\ clients' = clients \ {p}
      /\ players' = [players EXCEPT ![p] = NewPlayer]
      /\ abandoned(p) \subseteq sentRequests'
      /\ isOpen' = isOpen
  BY DEF destroyPlayer, connectionVars
<1>2. \A q \in clients' : q \in clients /\ q # p /\ players'[q] = players[q]
  BY <1>1 DEF QmlInv, ShapeInv
<1>3. \A r \in sentRequests : r.owner # p => r \in sentRequests'
  BY <1>1 DEF abandoned
<1> QED
  BY <1>1, <1>2, <1>3, WaitStep

LEMMA CreateWaits ==
    ASSUME QmlInv, NobodyForgotten, NEW p \in Player, createPlayer(p)
    PROVE  NobodyForgotten'
<1>1. clients' = clients \cup {p} /\ isOpen' = isOpen /\ p \notin clients
  BY DEF createPlayer, connectionVars
<1>2. CASE isOpen
  BY <1>1, <1>2, PlayAllWaits DEF createPlayer
<1>3. CASE ~isOpen
  <2>1. sentRequests' = sentRequests /\ players' = players
    BY <1>3 DEF createPlayer
  <2>2. players[p].describe = InvalidCSeq
    BY <1>1 DEF QmlInv, IdleInv, NewPlayer
  <2> QED
    BY <1>1, <1>3, <2>1, <2>2, WaitStep
<1> QED
  BY <1>2, <1>3

LEMMA TimerWaits ==
    ASSUME QmlInv, NobodyForgotten, NEW p \in Player, PlayerTimer(p)
    PROVE  NobodyForgotten'
<1>1. clients' = clients /\ isOpen' = isOpen
  BY DEF PlayerTimer, connectionVars
<1>2. CASE isOpen /\ p \in clients
  BY <1>1, <1>2, PlayAllWaits DEF PlayerTimer
<1>3. CASE p \notin clients
  <2>1. players[p] = NewPlayer
    BY <1>3 DEF QmlInv, IdleInv
  <2> QED
    BY <2>1 DEF PlayerTimer, NewPlayer
<1>4. CASE ~isOpen
  <2>1. /\ sentRequests' = sentRequests
        /\ players' = [players EXCEPT ![p] = play(@, InvalidCSeq)]
    BY <1>4 DEF PlayerTimer
  <2>2. players[p] \in PlayerState
    BY DEF QmlInv, ShapeInv
  <2>3. /\ players'[p].describe = InvalidCSeq
        /\ \A q \in Player : q # p => players'[q] = players[q]
    BY <2>1, <2>2 DEF play, PlayerState, QmlInv, ShapeInv
  <2>4. clients \subseteq Player
    BY DEF QmlInv, ShapeInv
  <2> QED
    BY <1>1, <1>4, <2>1, <2>3, <2>4, WaitStep
<1> QED
  BY <1>2, <1>3, <1>4

LEMMA DeliverWaits ==
    ASSUME QmlInv, NobodyForgotten, SignalDelivered
    PROVE  NobodyForgotten'
<1>1. PICK signal \in signals :
          peerPrepared(signal) \/ iceCandidate(signal) \/ eos(signal)
  BY DEF SignalDelivered
<1>2. clients' = clients /\ isOpen' = isOpen
  BY DEF SignalDelivered, connectionVars
<1>3. CASE peerPrepared(signal) \/ iceCandidate(signal)
  <2>1. players' = players /\ sentRequests \subseteq sentRequests'
    BY <1>3 DEF peerPrepared, iceCandidate, RequestFromSignal, request
  <2> QED
    BY <1>2, <2>1, AskWaits
<1>4. CASE eos(signal)
  <2>1. /\ sentRequests' = sentRequests
        /\ players' = [players EXCEPT ![signal.player] = scheduleReconnect(reset(@))]
    BY <1>4 DEF eos
  <2>2. signal.player \in Player /\ clients \subseteq Player
    BY DEF QmlInv, ShapeInv, Signal
  <2>3. /\ players'[signal.player] = scheduleReconnect(reset(players[signal.player]))
        /\ \A q \in Player : q # signal.player => players'[q] = players[q]
    BY <2>1, <2>2 DEF QmlInv, ShapeInv
  <2>4. players'[signal.player].describe = InvalidCSeq /\ players'[signal.player].timer
    BY <2>2, <2>3, ResetWaits
  <2> QED
    BY <1>2, <2>1, <2>2, <2>3, <2>4, WaitStep
<1> QED
  BY <1>1, <1>3, <1>4

LEMMA TeardownWaits ==
    ASSUME QmlInv, NobodyForgotten, NEW s \in SessionId, onTeardownRequest(s)
    PROVE  NobodyForgotten'
<1>1. /\ sentRequests' = sentRequests /\ clients' = clients /\ isOpen' = isOpen
      /\ \A q \in Player : \/ players'[q] = players[q]
                           \/ players'[q] = scheduleReconnect(reset(players[q]))
  BY DEF onTeardownRequest, connectionVars
<1>2. clients \subseteq Player
  BY DEF QmlInv, ShapeInv
<1>3. \A q \in clients : \/ players'[q] = players[q]
                         \/ players'[q].describe = InvalidCSeq /\ players'[q].timer
  BY <1>1, <1>2, ResetWaits
<1> QED
  BY <1>1, <1>3, WaitStep

LEMMA WaitsStep == QmlInv /\ NobodyForgotten /\ [QmlNext]_qmlVars => NobodyForgotten'
<1> SUFFICES ASSUME QmlInv, NobodyForgotten, [QmlNext]_qmlVars PROVE NobodyForgotten'
  OBVIOUS
<1>0. clients \in SUBSET Player
  BY DEF QmlInv, ShapeInv
<1>1. CASE ConnectionStep
  <2>1. CASE closeByApplication \/ ConnectionLost
    BY <2>1, CloseWaits DEF closeByApplication, ConnectionLost
  <2>2. CASE open
    <3>1. UNCHANGED <<isOpen, clients, sentRequests, players>>
      BY <2>2 DEF open
    <3> QED
      BY <3>1, AskWaits
  <2>3. CASE authorized
    <3>1. PlayAll(clients) /\ clients' = clients
      BY <2>3 DEF authorized
    <3> QED
      BY <1>0, <3>1, PlayAllWaits
  <2>4. CASE socketConnected /\ ~authorized
    <3>1. UNCHANGED <<isOpen, clients, sentRequests, players>>
      BY <2>4 DEF socketConnected
    <3> QED
      BY <3>1, AskWaits
  <2>5. CASE sendPing
    <3>1. UNCHANGED <<isOpen, clients, players>> /\ sentRequests \subseteq sentRequests'
      BY <2>5 DEF sendPing, request, connectionVars
    <3> QED
      BY <3>1, AskWaits
  <2>6. CASE \E r \in sentRequests : handleResponse(r)
    BY <2>6, ResponseWaits
  <2> QED
    BY <1>1, <2>1, <2>2, <2>3, <2>4, <2>5, <2>6 DEF ConnectionStep, AuthAnswered
<1>2. ASSUME NEW p \in Player, PlayerStep(p)
      PROVE  NobodyForgotten'
  <2>1. CASE \E kind \in {"prepared", "iceCandidate", "eos"} : EmitSignal(p, kind)
    <3>1. UNCHANGED <<isOpen, clients, sentRequests, players>>
      BY <2>1 DEF EmitSignal, connectionVars
    <3> QED
      BY <3>1, AskWaits
  <2> QED
    BY <1>2, <2>1, CreateWaits, DestroyWaits, TimerWaits DEF PlayerStep
<1>3. CASE SignalDelivered
  BY <1>3, DeliverWaits
<1>4. ASSUME NEW s \in SessionId, onSetupRequest(s) \/ onTeardownRequest(s)
      PROVE  NobodyForgotten'
  <2>1. CASE onSetupRequest(s)
    <3>1. UNCHANGED <<isOpen, clients, sentRequests, players>>
      BY <2>1 DEF onSetupRequest, connectionVars
    <3> QED
      BY <3>1, AskWaits
  <2> QED
    BY <1>4, <2>1, TeardownWaits
<1>5. CASE UNCHANGED qmlVars
  <2>1. UNCHANGED <<isOpen, clients, sentRequests, players>>
    BY <1>5 DEF qmlVars, connectionVars
  <2> QED
    BY <2>1, AskWaits
<1> QED
  BY <1>1, <1>2, <1>3, <1>4, <1>5 DEF QmlNext

\* A player that waits is always owed something: an answer to its DESCRIBE or
\* its timer, whatever was destroyed, refused, ended or lost meanwhile.
THEOREM NobodyEverForgotten == QmlSpec => []NobodyForgotten
<1>1. QmlInit => NobodyForgotten
  BY DEF QmlInit, NobodyForgotten
<1> QED
  BY <1>1, WaitsStep, QmlInvariant, PTL DEF QmlSpec
=============================================================================
