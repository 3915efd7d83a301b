--------------------------- MODULE HttpServerProofs ---------------------------
(***************************************************************************)
(* Proofs about HttpServer, for every set of connections and cookies and   *)
(* every age, interval and bound: the cookie store and what is announced   *)
(* of it never part.                                                       *)
(***************************************************************************)
EXTENDS HttpServer, TLAPS

-----------------------------------------------------------------------------
(* The two operators on maps.                                              *)

\* With adds or replaces one entry.
LEMMA WithFacts ==
    ASSUME NEW f, NEW x, NEW y
    PROVE  /\ DOMAIN With(f, x, y) = DOMAIN f \cup {x}
           /\ With(f, x, y)[x] = y
           /\ \A z \in DOMAIN f : z # x => With(f, x, y)[z] = f[z]
  BY DEF With

\* Only leaves entries out and keeps the others as they are.
LEMMA OnlyFacts ==
    ASSUME NEW f, NEW S
    PROVE  /\ DOMAIN Only(f, S) = DOMAIN f \cap S
           /\ \A z \in DOMAIN f \cap S : Only(f, S)[z] = f[z]
  BY DEF Only

\* The types of the two: maps to natural numbers stay so.
LEMMA WithType ==
    ASSUME NEW f, f \in [DOMAIN f -> Nat], NEW x, NEW y \in Nat
    PROVE  With(f, x, y) \in [DOMAIN With(f, x, y) -> Nat]
  BY DEF With

\* So do restrictions of them.
LEMMA OnlyType ==
    ASSUME NEW f, f \in [DOMAIN f -> Nat], NEW S
    PROVE  Only(f, S) \in [DOMAIN Only(f, S) -> Nat]
  BY DEF Only

-----------------------------------------------------------------------------
(* What a visit does to the store.                                         *)

\* cleanupCookies and isValidCookie only drop cookies that have expired; a
\* cleanup that is due drops all of them, and a valid cookie is not expired.
LEMMA CheckedCookiesFacts ==
    ASSUME NEW cookie, HttpTypeOK
    PROVE  /\ DOMAIN CheckedCookies(cookie) \subseteq DOMAIN authCookies
           /\ \A c \in DOMAIN CheckedCookies(cookie) : CheckedCookies(cookie)[c] = authCookies[c]
           /\ \A c \in DOMAIN authCookies :
                 now <= authCookies[c] => c \in DOMAIN CheckedCookies(cookie)
           /\ nextCleanup <= now =>
                 \A c \in DOMAIN CheckedCookies(cookie) : now <= authCookies[c]
           /\ isValidCookie(cookie) => now <= authCookies[cookie]
           /\ CheckedCookies(cookie) \in [DOMAIN CheckedCookies(cookie) -> Nat]
  <1> DEFINE clean == cleanupCookies
             unexpired == {c \in DOMAIN authCookies : authCookies[c] >= now}
             kept == {c \in DOMAIN clean : c = cookie => clean[c] >= now}
  <1>0. authCookies \in [DOMAIN authCookies -> Nat] /\ now \in Nat /\ nextCleanup \in Nat
    BY HttpBoundsAssumption DEF HttpTypeOK
  <1>1. /\ DOMAIN clean \subseteq DOMAIN authCookies
        /\ \A c \in DOMAIN clean : clean[c] = authCookies[c]
        /\ \A c \in DOMAIN authCookies : now <= authCookies[c] => c \in DOMAIN clean
        /\ nextCleanup <= now => \A c \in DOMAIN clean : now <= authCookies[c]
        /\ clean \in [DOMAIN clean -> Nat]
    <2>1. CASE nextCleanup > now
      BY <1>0, <2>1 DEF cleanupCookies
    <2>2. CASE ~(nextCleanup > now)
      <3>1. clean = Only(authCookies, unexpired)
        BY <2>2 DEF cleanupCookies
      <3>2. DOMAIN clean = unexpired /\ \A c \in unexpired : clean[c] = authCookies[c]
        <4>1. DOMAIN authCookies \cap unexpired = unexpired
          OBVIOUS
        <4> HIDE DEF clean, unexpired
        <4> QED
          BY <3>1, <4>1, OnlyFacts
      <3>3. clean \in [DOMAIN clean -> Nat]
        BY <1>0, <3>1, OnlyType
      <3> QED
        BY <1>0, <3>2, <3>3
    <2> QED
      BY <2>1, <2>2
  <1>2. CheckedCookies(cookie) = Only(clean, kept)
    BY DEF CheckedCookies
  <1>3. /\ DOMAIN CheckedCookies(cookie) = kept
        /\ \A c \in kept : CheckedCookies(cookie)[c] = clean[c]
    <2>1. DOMAIN clean \cap kept = kept
      OBVIOUS
    <2> HIDE DEF clean, kept
    <2>2. /\ DOMAIN Only(clean, kept) = DOMAIN clean \cap kept
          /\ \A c \in DOMAIN clean \cap kept : Only(clean, kept)[c] = clean[c]
      BY OnlyFacts
    <2> QED
      BY <1>2, <2>1, <2>2
  <1>4. CheckedCookies(cookie) \in [DOMAIN CheckedCookies(cookie) -> Nat]
    <2> HIDE DEF clean
    <2> QED
      BY <1>1, <1>2, OnlyType
  <1>5. isValidCookie(cookie) => cookie \in kept
    BY <1>3 DEF isValidCookie
  <1> HIDE DEF clean
  <1> QED
    BY <1>0, <1>1, <1>3, <1>4, <1>5

-----------------------------------------------------------------------------
(* Type correctness.                                                       *)

\* The types hold at the start.
LEMMA InitType == HttpInit => HttpTypeOK
  <1> SUFFICES ASSUME HttpInit PROVE HttpTypeOK
    OBVIOUS
  <1>1. config \in [passwd : BOOLEAN, authRequired : BOOLEAN, api : BOOLEAN, callback : BOOLEAN]
    <2>1. PICK c \in Configurations : config = FixConfig(c)
      BY DEF HttpInit
    <2>2. c \in [passwd : BOOLEAN, indexPath : {"default", "open", "protected"},
                  api : BOOLEAN, callback : BOOLEAN]
      BY ConfigurationsAssumption
    <2> QED
      BY <2>1, <2>2 DEF FixConfig
  <1>2. Nothing \in [DOMAIN Nothing -> Nat] /\ DOMAIN Nothing = {}
    BY DEF Nothing
  <1>3. posted \in Seq([token : Cookie, expiresAt : Nat])
    BY DEF HttpInit
  <1> QED
    BY <1>1, <1>2, <1>3, HttpBoundsAssumption DEF HttpInit, HttpTypeOK

\* Answering a request keeps the connections' types.
LEMMA QueueResponseType ==
    ASSUME HttpTypeOK, NEW k \in Connection, NEW answer, queueResponse(k, answer),
           answer \in [status : Status, cookie : Cookie \cup {NoCookie, ExpiredCookie}]
                          \cup {Idle}
    PROVE  /\ request' \in [Connection -> Request \cup {Idle}]
           /\ upload' \in [Connection -> 0..MaxUpload]
           /\ reply' \in [Connection -> [status : Status, cookie : Cookie \cup {NoCookie, ExpiredCookie}]
                                           \cup {Idle}]
  BY HttpBoundsAssumption DEF HttpTypeOK, queueResponse

\* So does an announcement.
LEMMA PostType ==
    ASSUME HttpTypeOK, NEW token \in Cookie, NEW expiresAt \in Nat, postToken(token, expiresAt)
    PROVE  posted' \in Seq([token : Cookie, expiresAt : Nat])
  <1> DEFINE M == [token : Cookie, expiresAt : Nat]
             message == [token |-> token, expiresAt |-> expiresAt]
  <1>1. message \in M
    OBVIOUS
  <1>2. posted \in Seq(M)
    BY DEF HttpTypeOK
  <1>3. posted' = Append(posted, message) \/ posted' = posted
    BY DEF postToken
  <1>4. posted' \in Seq(M)
    <2> HIDE DEF message, M
    <2> QED
      BY <1>1, <1>2, <1>3
  <1> QED
    BY <1>4

\* A visit keeps the types of all but the connections and the store.
LEMMA VisitType ==
    ASSUME HttpTypeOK, NEW k \in Connection, Visit(k)
    PROVE  /\ now' \in 0..MaxTime
           /\ config' \in [passwd : BOOLEAN, authRequired : BOOLEAN, api : BOOLEAN, callback : BOOLEAN]
           /\ nextCleanup' \in Nat
           /\ tokens' \in [DOMAIN tokens' -> Nat]
           /\ jar' \in [cookie : Cookie \cup {NoCookie}, until : Nat]
           /\ sent' \in 0..MaxRequests
           /\ lastVisit' \in 0..now'
  <1>1. nextCleanup' \in Nat
    BY HttpBoundsAssumption DEF HttpTypeOK, Visit, CleanupTime
  <1>2. tokens' \in [DOMAIN tokens' -> Nat]
    BY DEF HttpTypeOK, Visit
  <1>3. now \in 0..now
    BY DEF HttpTypeOK
  <1> QED
    BY <1>1, <1>2, <1>3 DEF HttpTypeOK, Visit

\* The store's types, for each way a visit may end: as it was found,
LEMMA KeepType ==
    ASSUME HttpTypeOK, NEW r, KeepCookies(r)
    PROVE  /\ authCookies' \in [DOMAIN authCookies' -> Nat]
           /\ posted' \in Seq([token : Cookie, expiresAt : Nat])
           /\ issued' \in [DOMAIN issued' -> Nat]
           /\ announced' \in [DOMAIN announced' -> Nat]
           /\ DOMAIN issued' \subseteq Cookie
  <1>1. authCookies' = CheckedCookies(r.cookie)
    BY DEF KeepCookies
  <1>2. CheckedCookies(r.cookie) \in [DOMAIN CheckedCookies(r.cookie) -> Nat]
    BY CheckedCookiesFacts
  <1>3. UNCHANGED <<posted, issued, announced>>
    BY DEF KeepCookies
  <1> QED
    BY <1>1, <1>2, <1>3 DEF HttpTypeOK

\* with a new cookie,
LEMMA AddType ==
    ASSUME HttpTypeOK, NEW r, NEW cookie \in Cookie, addCookie(r, cookie)
    PROVE  /\ authCookies' \in [DOMAIN authCookies' -> Nat]
           /\ posted' \in Seq([token : Cookie, expiresAt : Nat])
           /\ issued' \in [DOMAIN issued' -> Nat]
           /\ announced' \in [DOMAIN announced' -> Nat]
           /\ DOMAIN issued' \subseteq Cookie
  <1>1. now \in Nat /\ now + MaxAge \in Nat
    BY HttpBoundsAssumption DEF HttpTypeOK
  <1>2. CheckedCookies(r.cookie) \in [DOMAIN CheckedCookies(r.cookie) -> Nat]
    BY CheckedCookiesFacts
  <1>3. authCookies' \in [DOMAIN authCookies' -> Nat]
    BY <1>1, <1>2, WithType DEF addCookie
  <1>4. posted' \in Seq([token : Cookie, expiresAt : Nat])
    BY <1>1, PostType DEF addCookie
  <1>5. issued' \in [DOMAIN issued' -> Nat] /\ DOMAIN issued' \subseteq Cookie
    <2>1. issued' = With(issued, cookie, now)
      BY DEF addCookie
    <2>2. issued \in [DOMAIN issued -> Nat] /\ DOMAIN issued \subseteq Cookie
      BY DEF HttpTypeOK
    <2>3. issued' \in [DOMAIN issued' -> Nat]
      BY <1>1, <2>1, <2>2, WithType
    <2>4. DOMAIN issued' = DOMAIN issued \cup {cookie}
      BY <2>1, WithFacts
    <2> QED
      BY <2>2, <2>3, <2>4
  <1>6. announced' \in [DOMAIN announced' -> Nat]
    BY <1>1, WithType DEF addCookie, HttpTypeOK
  <1> QED
    BY <1>3, <1>4, <1>5, <1>6

\* or with a refreshed one.
LEMMA RefreshType ==
    ASSUME HttpTypeOK, NEW r, r.cookie \in Cookie, refreshCookie(r)
    PROVE  /\ authCookies' \in [DOMAIN authCookies' -> Nat]
           /\ posted' \in Seq([token : Cookie, expiresAt : Nat])
           /\ issued' \in [DOMAIN issued' -> Nat]
           /\ announced' \in [DOMAIN announced' -> Nat]
           /\ DOMAIN issued' \subseteq Cookie
  <1>1. now + MaxAge \in Nat
    BY HttpBoundsAssumption DEF HttpTypeOK
  <1>2. CheckedCookies(r.cookie) \in [DOMAIN CheckedCookies(r.cookie) -> Nat]
    BY CheckedCookiesFacts
  <1>3. authCookies' \in [DOMAIN authCookies' -> Nat]
    BY <1>2 DEF refreshCookie
  <1>4. posted' \in Seq([token : Cookie, expiresAt : Nat])
    BY <1>1, PostType DEF refreshCookie
  <1>5. announced' \in [DOMAIN announced' -> Nat]
    BY <1>1, WithType DEF refreshCookie, HttpTypeOK
  <1>6. issued' \in [DOMAIN issued' -> Nat] /\ DOMAIN issued' \subseteq Cookie
    BY DEF refreshCookie, HttpTypeOK
  <1> QED
    BY <1>3, <1>4, <1>5, <1>6

\* Serving a request keeps the types.
LEMMA ServeType ==
    ASSUME HttpInv, NEW k \in Connection, NEW status \in {"ok", "not found", "closed"},
           Serve(k, status)
    PROVE  HttpTypeOK'
  <1> DEFINE r == request[k]
  <1>1. HttpTypeOK /\ Visit(k)
    BY DEF HttpInv, Serve
  <1>2. r.cookie \in Cookie \cup {NoCookie} /\ status \in Status
    BY <1>1 DEF HttpTypeOK, Visit, Request, Status
  <1>3. CASE KeepCookies(r) /\ \E answer \in {Reply(status, NoCookie), Reply("ok", NoCookie)} :
                queueResponse(k, answer)
    BY <1>1, <1>2, <1>3, VisitType, KeepType, QueueResponseType DEF HttpTypeOK, Reply, Status
  <1>4. ASSUME NEW cookie \in Cookie, addCookie(r, cookie), queueResponse(k, Reply("ok", cookie))
        PROVE  HttpTypeOK'
    BY <1>1, <1>4, VisitType, AddType, QueueResponseType DEF HttpTypeOK, Reply, Status
  <1>5. CASE /\ isValidCookie(r.cookie)
             /\ refreshCookie(r)
             /\ queueResponse(k, Reply("ok", r.cookie))
    <2>1. r.cookie \in DOMAIN authCookies
      <3>1. DOMAIN CheckedCookies(r.cookie) \subseteq DOMAIN authCookies
        BY <1>1, CheckedCookiesFacts
      <3> QED
        BY <1>5, <3>1 DEF isValidCookie
    <2>2. r.cookie \in Cookie
      BY <1>1, <2>1 DEF HttpInv, StoreInv, HttpTypeOK
    <2> QED
      BY <1>1, <1>5, <2>2, VisitType, RefreshType, QueueResponseType DEF HttpTypeOK, Reply, Status
  <1> QED
    BY <1>3, <1>4, <1>5 DEF Serve

\* Every step keeps the types.
LEMMA StepType ==
    ASSUME HttpInv, [HttpNext]_httpVars
    PROVE  HttpTypeOK'
  <1>1. HttpTypeOK
    BY DEF HttpInv
  <1>2. CASE UNCHANGED httpVars
    BY <1>1, <1>2 DEF HttpTypeOK, httpVars, connectionVars, storeVars
  <1>3. ASSUME NEW k \in Connection, NEW method \in Method, NEW path \in Path, NEW user \in User,
               NEW declared \in Nat, FirstCall(k, method, path, user, declared)
        PROVE  HttpTypeOK'
    <2>1. sent' \in 0..MaxRequests
      BY <1>1, <1>3, HttpBoundsAssumption DEF HttpTypeOK, FirstCall
    <2>2. CASE Close(k)
      BY <1>1, <1>3, <2>1, <2>2, QueueResponseType
         DEF HttpTypeOK, FirstCall, Close, Reply, Status, storeVars
    <2>3. CASE ~Close(k)
      <3> DEFINE new == [method |-> method, path |-> path, user |-> user, cookie |-> CookieToSend]
      <3>1. CookieToSend \in Cookie \cup {NoCookie}
        BY <1>1 DEF HttpTypeOK, CookieToSend
      <3>2. new \in Request
        BY <3>1 DEF Request
      <3>3. request' = [request EXCEPT ![k] = new] /\ UNCHANGED <<upload, reply>>
        BY <1>3, <2>3 DEF FirstCall
      <3>4. request' \in [Connection -> Request \cup {Idle}]
        <4> HIDE DEF new
        <4> QED
          BY <1>1, <3>2, <3>3 DEF HttpTypeOK
      <3> QED
        BY <1>1, <1>3, <2>1, <3>3, <3>4 DEF HttpTypeOK, FirstCall, storeVars
    <2> QED
      BY <2>2, <2>3
  <1>4. ASSUME NEW k \in Connection, NEW size \in Nat, Upload(k, size)
        PROVE  HttpTypeOK'
    <2>1. CASE Close(k)
      BY <1>1, <1>4, <2>1, QueueResponseType
         DEF HttpTypeOK, Upload, Close, Reply, Status, storeVars
    <2>2. CASE ~Close(k)
      <3>1. /\ upload[k] + size <= MaxUpload
            /\ upload' = [upload EXCEPT ![k] = upload[k] + size]
            /\ UNCHANGED <<request, reply>>
        <4>1. upload[k] \in Nat
          BY <1>1 DEF HttpTypeOK
        <4>2. CASE upload[k] + size > MaxUpload
          BY <1>4, <2>2, <4>2 DEF Upload
        <4> QED
          BY <1>4, <4>1, <4>2, HttpBoundsAssumption DEF Upload
      <3>2. upload' \in [Connection -> 0..MaxUpload]
        BY <1>1, <3>1, HttpBoundsAssumption DEF HttpTypeOK
      <3> QED
        BY <1>1, <1>4, <3>1, <3>2 DEF HttpTypeOK, Upload, storeVars
    <2> QED
      BY <2>1, <2>2
  <1>5. ASSUME NEW k \in Connection, Refuse(k)
        PROVE  HttpTypeOK'
    BY <1>1, <1>5, QueueResponseType DEF HttpTypeOK, Refuse, Close, Reply, Status, storeVars
  <1>6. ASSUME NEW k \in Connection, Hide(k) \/ Deny(k)
        PROVE  HttpTypeOK'
    <2>1. /\ Visit(k)
          /\ KeepCookies(request[k])
          /\ \E answer \in [status : Status, cookie : Cookie \cup {NoCookie, ExpiredCookie}] :
                queueResponse(k, answer)
      BY <1>6 DEF Hide, Deny, Reply, Status
    <2> QED
      BY <1>1, <2>1, VisitType, KeepType, QueueResponseType DEF HttpTypeOK
  <1>7. ASSUME NEW k \in Connection, ReadReply(k)
        PROVE  HttpTypeOK'
    <2>1. jar' \in [cookie : Cookie \cup {NoCookie}, until : Nat]
      BY <1>1, <1>7, HttpBoundsAssumption DEF HttpTypeOK, ReadReply
    <2>2. reply' \in [Connection -> [status : Status, cookie : Cookie \cup {NoCookie, ExpiredCookie}]
                                        \cup {Idle}]
      BY <1>1, <1>7 DEF HttpTypeOK, ReadReply
    <2> QED
      BY <1>1, <1>7, <2>1, <2>2 DEF HttpTypeOK, ReadReply, storeVars
  <1>8. ASSUME NEW k \in Connection, LoseConnection(k)
        PROVE  HttpTypeOK'
    BY <1>1, <1>8, QueueResponseType DEF HttpTypeOK, LoseConnection, storeVars
  <1>9. CASE onNewAuthToken
    <2> DEFINE M == [token : Cookie, expiresAt : Nat]
    <2>1. posted \in Seq(M) /\ posted # <<>>
      BY <1>1, <1>9 DEF HttpTypeOK, onNewAuthToken
    <2>2. Head(posted) \in M /\ Tail(posted) \in Seq(M)
      <3> HIDE DEF M
      <3> QED
        BY <2>1
    <2>3. tokens' \in [DOMAIN tokens' -> Nat]
      BY <1>1, <1>9, <2>2, WithType DEF HttpTypeOK, onNewAuthToken
    <2>4. posted' \in Seq(M)
      BY <1>9, <2>2 DEF onNewAuthToken
    <2>5. UNCHANGED <<now, config, request, upload, reply, authCookies, nextCleanup, issued,
                      announced, lastVisit, jar, sent>>
      BY <1>9 DEF onNewAuthToken, connectionVars
    <2>6. posted' \in Seq([token : Cookie, expiresAt : Nat])
      BY <2>4
    <2> QED
      BY <1>1, <2>3, <2>5, <2>6 DEF HttpTypeOK
  <1>10. CASE Tick
    BY <1>1, <1>10, HttpBoundsAssumption DEF HttpTypeOK, Tick, connectionVars, storeVars
  <1>11. ASSUME NEW k \in Connection, httpCallback(k)
         PROVE  HttpTypeOK'
    <2>1. "/" \in Path /\ "/file" \in Path /\ "/api" \in Path /\ "none" \in User
          /\ "GET" \in Method /\ "POST" \in Method
      BY DEF Path, User, Method
    <2>2. 0 \in Nat /\ MaxUpload + 1 \in Nat /\ 1..(MaxUpload + 1) \subseteq Nat
      BY HttpBoundsAssumption
    <2>3. CASE \E user \in User : FirstCall(k, "GET", "/", user, 0)
      BY <1>3, <2>1, <2>2, <2>3
    <2>4. CASE \E method \in Method : FirstCall(k, method, "/file", "none", 0)
      BY <1>3, <2>1, <2>2, <2>4
    <2>5. CASE FirstCall(k, "POST", "/api", "none", 0) \/ FirstCall(k, "POST", "/api", "none", MaxUpload + 1)
      BY <1>3, <2>1, <2>2, <2>5
    <2>6. CASE \E size \in 1..(MaxUpload + 1) : Upload(k, size)
      BY <1>4, <2>2, <2>6
    <2>7. CASE Refuse(k) \/ Hide(k) \/ Deny(k)
      BY <1>5, <1>6, <2>7
    <2>8. CASE \E status \in {"ok", "not found", "closed"} : Serve(k, status)
      BY <2>8, ServeType
    <2> QED
      BY <1>11, <2>3, <2>4, <2>5, <2>6, <2>7, <2>8 DEF httpCallback
  <1> QED
    BY <1>2, <1>7, <1>8, <1>9, <1>10, <1>11 DEF HttpNext

-----------------------------------------------------------------------------
(* The invariant, by what a step does to the store.                        *)

\* An empty store is in step with everything.
LEMMA InitInv == HttpInit => HttpInv
  <1> SUFFICES ASSUME HttpInit PROVE HttpInv
    OBVIOUS
  <1>1. DOMAIN Nothing = {}
    BY DEF Nothing
  <1>2. DOMAIN posted = {}
    BY DEF HttpInit
  <1> QED
    BY <1>1, <1>2, InitType, HttpBoundsAssumption
       DEF HttpInit, HttpInv, StoreInv, HonouredWhileFresh, CleanupInv, AnnounceInv

\* A step that leaves the store, the clock and the tokens alone.
LEMMA QuietKeeps ==
    ASSUME HttpInv, UNCHANGED <<now, config, storeVars, tokens>>
    PROVE  (StoreInv /\ CleanupInv /\ AnnounceInv)'
  BY DEF HttpInv, StoreInv, HonouredWhileFresh, CleanupInv, AnnounceInv, storeVars

\* Time only makes cookies older.
LEMMA TickKeeps ==
    ASSUME HttpInv, Tick
    PROVE  (StoreInv /\ CleanupInv /\ AnnounceInv)'
  <1>1. /\ now \in Nat
        /\ nextCleanup \in Nat
        /\ issued \in [DOMAIN issued -> Nat]
        /\ now' = now + 1
        /\ UNCHANGED <<config, authCookies, nextCleanup, posted, issued, announced, lastVisit, tokens>>
    BY HttpBoundsAssumption DEF HttpInv, HttpTypeOK, Tick, storeVars
  <1>2. StoreInv'
    BY <1>1, HttpBoundsAssumption DEF HttpInv, StoreInv, HonouredWhileFresh
  <1>3. CleanupInv'
    BY <1>1, HttpBoundsAssumption DEF HttpInv, CleanupInv
  <1>4. AnnounceInv'
    BY <1>1 DEF HttpInv, AnnounceInv
  <1> QED
    BY <1>2, <1>3, <1>4

\* The oldest announcement moves from the main loop to the table.
LEMMA TokenKeeps ==
    ASSUME HttpInv, onNewAuthToken
    PROVE  (StoreInv /\ CleanupInv /\ AnnounceInv)'
  <1> DEFINE M == [token : Cookie, expiresAt : Nat]
             first == Head(posted)
  <1>1. posted \in Seq(M) /\ posted # <<>>
    BY DEF HttpInv, HttpTypeOK, onNewAuthToken
  <1>2. /\ tokens' = With(tokens, first.token, first.expiresAt)
        /\ posted' = Tail(posted)
        /\ UNCHANGED <<now, config, authCookies, nextCleanup, issued, announced, lastVisit>>
    BY DEF onNewAuthToken
  <1>3. /\ 1 \in DOMAIN posted /\ first = posted[1]
        /\ \A i \in DOMAIN posted' : i + 1 \in DOMAIN posted /\ posted'[i] = posted[i + 1]
        /\ \A i \in DOMAIN posted : i = 1 \/ (i - 1 \in DOMAIN posted' /\ posted'[i - 1] = posted[i])
    <2> HIDE DEF M
    <2> QED
      BY <1>1, <1>2
  <1>4. /\ DOMAIN tokens' = DOMAIN tokens \cup {first.token}
        /\ tokens'[first.token] = first.expiresAt
        /\ \A c \in DOMAIN tokens : c # first.token => tokens'[c] = tokens[c]
    <2> HIDE DEF first
    <2> QED
      BY <1>2 DEF With
  <1>5. AnnounceInv
    BY DEF HttpInv
  <1> HIDE DEF first, M
  <1>6. /\ DOMAIN tokens' \subseteq DOMAIN issued'
        /\ \A c \in DOMAIN tokens' : issued'[c] + MaxAge <= tokens'[c]
    BY <1>2, <1>3, <1>4, <1>5 DEF AnnounceInv
  <1>7. /\ \A i \in DOMAIN posted' : posted'[i].token \in DOMAIN issued'
        /\ \A i \in DOMAIN posted' : issued'[posted'[i].token] + MaxAge <= posted'[i].expiresAt
    BY <1>2, <1>3, <1>5 DEF AnnounceInv
  <1>8. ASSUME config'.callback, NEW c \in DOMAIN issued'
        PROVE  c \in DOMAIN tokens' \/ \E i \in DOMAIN posted' : posted'[i].token = c
    <2>1. CASE c \in DOMAIN tokens
      BY <1>4, <2>1
    <2>2. CASE \E i \in DOMAIN posted : posted[i].token = c
      BY <1>3, <1>4, <2>2
    <2> QED
      BY <1>2, <1>5, <1>8, <2>1, <2>2 DEF AnnounceInv
  <1>9. AnnounceInv'
    BY <1>2, <1>5, <1>6, <1>7, <1>8 DEF AnnounceInv
  <1> QED
    BY <1>2, <1>9 DEF HttpInv, StoreInv, HonouredWhileFresh, CleanupInv

\* Every visit moves the next cleanup past itself, and leaves only entries
\* the next cleanup is not late for.
LEMMA VisitKeepsCleanup ==
    ASSUME HttpInv, NEW k \in Connection, Visit(k), NEW r,
           \A c \in DOMAIN authCookies' :
              \/ c \in DOMAIN CheckedCookies(r) /\ authCookies'[c] = authCookies[c]
              \/ authCookies'[c] = now + MaxAge
    PROVE  CleanupInv'
  <1>1. HttpTypeOK /\ CleanupInv
    BY DEF HttpInv
  <1>2. now \in Nat /\ nextCleanup \in Nat /\ authCookies \in [DOMAIN authCookies -> Nat]
    BY <1>1, HttpBoundsAssumption DEF HttpTypeOK
  <1>3. now' = now /\ lastVisit' = now
        /\ nextCleanup' = IF nextCleanup > now THEN nextCleanup ELSE now + CleanupInterval
    BY DEF Visit, CleanupTime
  <1>4. /\ nextCleanup' \in Nat
        /\ nextCleanup' <= now + CleanupInterval
        /\ lastVisit' < nextCleanup'
    BY <1>1, <1>2, <1>3, HttpBoundsAssumption DEF CleanupInv
  <1>5. ASSUME NEW c \in DOMAIN authCookies'
        PROVE  nextCleanup' <= authCookies'[c] + CleanupInterval
    <2>1. CASE c \in DOMAIN CheckedCookies(r) /\ authCookies'[c] = authCookies[c]
      <3>1. c \in DOMAIN authCookies /\ authCookies[c] \in Nat
            /\ (nextCleanup <= now => now <= authCookies[c])
        BY <1>1, <1>2, <2>1, CheckedCookiesFacts
      <3> QED
        BY <1>1, <1>2, <1>3, <2>1, <3>1, HttpBoundsAssumption DEF CleanupInv
    <2>2. CASE authCookies'[c] = now + MaxAge
      BY <1>2, <1>4, <2>2, HttpBoundsAssumption
    <2> QED
      BY <2>1, <2>2
  <1> QED
    BY <1>3, <1>4, <1>5 DEF CleanupInv

\* A visit that ends without an announcement.
LEMMA KeepKeeps ==
    ASSUME HttpInv, NEW k \in Connection, Visit(k), NEW r, KeepCookies(r)
    PROVE  (StoreInv /\ CleanupInv /\ AnnounceInv)'
  <1>1. HttpTypeOK /\ StoreInv /\ AnnounceInv
    BY DEF HttpInv
  <1>2. /\ now \in Nat
        /\ authCookies' = CheckedCookies(r.cookie)
        /\ UNCHANGED <<now, config, tokens, posted, issued, announced>>
    BY <1>1, HttpBoundsAssumption DEF HttpTypeOK, KeepCookies, Visit
  <1>3. CleanupInv'
    BY <1>1, <1>2, CheckedCookiesFacts, VisitKeepsCleanup
  <1>4. StoreInv'
    BY <1>1, <1>2, CheckedCookiesFacts DEF StoreInv, HonouredWhileFresh
  <1>5. AnnounceInv'
    BY <1>1, <1>2 DEF AnnounceInv
  <1> QED
    BY <1>3, <1>4, <1>5

\* What postToken does to the announcements on the way.
LEMMA PostFacts ==
    ASSUME HttpTypeOK, NEW token \in Cookie, NEW expiresAt \in Nat, postToken(token, expiresAt)
    PROVE  /\ \A i \in DOMAIN posted' :
                 \/ i \in DOMAIN posted /\ posted'[i] = posted[i]
                 \/ posted'[i].token = token /\ posted'[i].expiresAt = expiresAt
           /\ \A i \in DOMAIN posted : i \in DOMAIN posted' /\ posted'[i] = posted[i]
           /\ config.callback => \E i \in DOMAIN posted' : posted'[i].token = token
  <1> DEFINE M == [token : Cookie, expiresAt : Nat]
             message == [token |-> token, expiresAt |-> expiresAt]
  <1>1. posted \in Seq(M)
    BY DEF HttpTypeOK
  <1>2. posted' = IF config.callback THEN Append(posted, message) ELSE posted
    BY DEF postToken
  <1>3. message.token = token /\ message.expiresAt = expiresAt /\ message \in M
    OBVIOUS
  <1>4. config.callback => Len(posted) + 1 \in DOMAIN posted' /\ posted'[Len(posted) + 1] = message
    <2> HIDE DEF M, message
    <2> QED
      BY <1>1, <1>2
  <1>5. /\ \A i \in DOMAIN posted' :
              \/ i \in DOMAIN posted /\ posted'[i] = posted[i]
              \/ posted'[i] = message
        /\ \A i \in DOMAIN posted : i \in DOMAIN posted' /\ posted'[i] = posted[i]
    <2> HIDE DEF M, message
    <2> QED
      BY <1>1, <1>2
  <1> HIDE DEF M, message
  <1> QED
    BY <1>3, <1>4, <1>5

\* A new cookie has no announcement but the one made with it.
LEMMA AddKeeps ==
    ASSUME HttpInv, NEW k \in Connection, Visit(k), NEW r,
           NEW cookie \in Cookie, cookie \notin DOMAIN issued, addCookie(r, cookie)
    PROVE  (StoreInv /\ CleanupInv /\ AnnounceInv)'
  <1> DEFINE checked == CheckedCookies(r.cookie)
             until == now + MaxAge
  <1>1. HttpTypeOK /\ StoreInv /\ AnnounceInv
    BY DEF HttpInv
  <1>2. now \in Nat /\ until \in Nat /\ issued \in [DOMAIN issued -> Nat]
    BY <1>1, HttpBoundsAssumption DEF HttpTypeOK
  <1>3. /\ authCookies' = With(checked, cookie, until)
        /\ issued' = With(issued, cookie, now)
        /\ announced' = With(announced, cookie, until)
        /\ postToken(cookie, until)
        /\ UNCHANGED <<now, config, tokens>>
    BY DEF addCookie, Visit
  <1>4. /\ DOMAIN authCookies' = DOMAIN checked \cup {cookie}
        /\ authCookies'[cookie] = until
        /\ \A c \in DOMAIN checked : c # cookie => authCookies'[c] = checked[c]
    <2> HIDE DEF checked, until
    <2> QED
      BY <1>3 DEF With
  <1>5. /\ DOMAIN issued' = DOMAIN issued \cup {cookie}
        /\ issued'[cookie] = now
        /\ \A c \in DOMAIN issued : issued'[c] = issued[c]
    BY <1>3 DEF With
  <1>6. /\ DOMAIN announced' = DOMAIN announced \cup {cookie}
        /\ announced'[cookie] = until
        /\ \A c \in DOMAIN announced : c # cookie => announced'[c] = announced[c]
    <2> HIDE DEF until
    <2> QED
      BY <1>3 DEF With
  <1>7. /\ DOMAIN checked \subseteq DOMAIN authCookies
        /\ \A c \in DOMAIN checked : checked[c] = authCookies[c]
        /\ \A c \in DOMAIN authCookies : now <= authCookies[c] => c \in DOMAIN checked
    BY <1>1, CheckedCookiesFacts
  <1>8. CleanupInv'
    BY <1>1, <1>4, <1>7, VisitKeepsCleanup
  <1> HIDE DEF checked
  <1>9. StoreInv'
    BY <1>1, <1>2, <1>3, <1>4, <1>5, <1>7, HttpBoundsAssumption DEF StoreInv, HonouredWhileFresh
  <1>10. /\ \A i \in DOMAIN posted' :
                \/ i \in DOMAIN posted /\ posted'[i] = posted[i]
                \/ posted'[i].token = cookie /\ posted'[i].expiresAt = until
         /\ \A i \in DOMAIN posted : i \in DOMAIN posted' /\ posted'[i] = posted[i]
         /\ config.callback => \E i \in DOMAIN posted' : posted'[i].token = cookie
    <2> HIDE DEF until
    <2> QED
      BY <1>1, <1>2, <1>3, PostFacts
  <1>11. AnnounceInv'
    <2>1. DOMAIN announced' = DOMAIN issued' /\ DOMAIN tokens' \subseteq DOMAIN issued'
      BY <1>1, <1>3, <1>5, <1>6 DEF AnnounceInv
    <2>2. \A c \in DOMAIN issued' : issued'[c] + MaxAge <= announced'[c]
      BY <1>1, <1>2, <1>5, <1>6 DEF AnnounceInv
    <2>3. \A c \in DOMAIN tokens' : issued'[c] + MaxAge <= tokens'[c]
      BY <1>1, <1>3, <1>5 DEF AnnounceInv
    <2>4. \A i \in DOMAIN posted' :
             posted'[i].token \in DOMAIN issued'
             /\ issued'[posted'[i].token] + MaxAge <= posted'[i].expiresAt
      BY <1>1, <1>2, <1>5, <1>10 DEF AnnounceInv
    <2>5. config'.callback => \A c \in DOMAIN issued' :
             c \in DOMAIN tokens' \/ \E i \in DOMAIN posted' : posted'[i].token = c
      BY <1>1, <1>3, <1>5, <1>10 DEF AnnounceInv
    <2> QED
      BY <2>1, <2>2, <2>3, <2>4, <2>5 DEF AnnounceInv
  <1> QED
    BY <1>8, <1>9, <1>11

\* A cookie that is refreshed is announced anew, for no less than before.
LEMMA RefreshKeeps ==
    ASSUME HttpInv, NEW k \in Connection, Visit(k), NEW r, isValidCookie(r.cookie), refreshCookie(r)
    PROVE  (StoreInv /\ CleanupInv /\ AnnounceInv)'
  <1> DEFINE c0 == r.cookie
             until == now + MaxAge
  <1>1. HttpTypeOK /\ StoreInv /\ AnnounceInv
    BY DEF HttpInv
  <1>2. c0 \in DOMAIN authCookies
    BY <1>1, CheckedCookiesFacts DEF isValidCookie
  <1>3. c0 \in DOMAIN issued /\ c0 \in Cookie /\ issued[c0] <= now
    BY <1>1, <1>2 DEF StoreInv, HttpTypeOK
  <1>4. now \in Nat /\ until \in Nat /\ issued \in [DOMAIN issued -> Nat]
    BY <1>1, HttpBoundsAssumption DEF HttpTypeOK
  <1>5. /\ authCookies' = CheckedCookies(c0)
        /\ announced' = With(announced, c0, until)
        /\ postToken(c0, until)
        /\ UNCHANGED <<now, config, tokens, issued>>
    BY DEF refreshCookie, Visit
  <1>6. CleanupInv'
    BY <1>1, <1>5, CheckedCookiesFacts, VisitKeepsCleanup
  <1>7. StoreInv'
    BY <1>1, <1>5, CheckedCookiesFacts DEF StoreInv, HonouredWhileFresh
  <1> HIDE DEF c0
  <1>8. issued[c0] + MaxAge <= until
    BY <1>3, <1>4, HttpBoundsAssumption
  <1> HIDE DEF until
  <1>9. /\ DOMAIN announced' = DOMAIN announced \cup {c0}
        /\ announced'[c0] = until
        /\ \A c \in DOMAIN announced : c # c0 => announced'[c] = announced[c]
    BY <1>5 DEF With
  <1>10. /\ \A i \in DOMAIN posted' :
                \/ i \in DOMAIN posted /\ posted'[i] = posted[i]
                \/ posted'[i].token = c0 /\ posted'[i].expiresAt = until
         /\ \A i \in DOMAIN posted : i \in DOMAIN posted' /\ posted'[i] = posted[i]
    BY <1>1, <1>3, <1>4, <1>5, PostFacts
  <1>11. AnnounceInv'
    <2>1. DOMAIN announced' = DOMAIN issued' /\ DOMAIN tokens' \subseteq DOMAIN issued'
      BY <1>1, <1>3, <1>5, <1>9 DEF AnnounceInv
    <2>2. \A c \in DOMAIN issued' : issued'[c] + MaxAge <= announced'[c]
      BY <1>1, <1>5, <1>8, <1>9 DEF AnnounceInv
    <2>3. \A c \in DOMAIN tokens' : issued'[c] + MaxAge <= tokens'[c]
      BY <1>1, <1>5 DEF AnnounceInv
    <2>4. \A i \in DOMAIN posted' :
             posted'[i].token \in DOMAIN issued'
             /\ issued'[posted'[i].token] + MaxAge <= posted'[i].expiresAt
      BY <1>1, <1>3, <1>5, <1>8, <1>10 DEF AnnounceInv
    <2>5. config'.callback => \A c \in DOMAIN issued' :
             c \in DOMAIN tokens' \/ \E i \in DOMAIN posted' : posted'[i].token = c
      BY <1>1, <1>5, <1>10 DEF AnnounceInv
    <2> QED
      BY <2>1, <2>2, <2>3, <2>4, <2>5 DEF AnnounceInv
  <1> QED
    BY <1>6, <1>7, <1>11

\* Every step keeps the invariant.
LEMMA StepInv == HttpInv /\ [HttpNext]_httpVars => HttpInv'
  <1> SUFFICES ASSUME HttpInv, [HttpNext]_httpVars PROVE HttpInv'
    OBVIOUS
  <1>1. HttpTypeOK'
    BY StepType
  <1>2. CASE UNCHANGED httpVars
    BY <1>1, <1>2, QuietKeeps DEF httpVars, HttpInv
  <1>3. ASSUME NEW k \in Connection, httpCallback(k)
        PROVE  HttpInv'
    <2>1. CASE UNCHANGED <<now, config, storeVars, tokens>>
      BY <1>1, <2>1, QuietKeeps DEF HttpInv
    <2>2. CASE Hide(k) \/ Deny(k)
      BY <1>1, <2>2, KeepKeeps DEF Hide, Deny, HttpInv
    <2>3. ASSUME NEW status \in {"ok", "not found", "closed"}, Serve(k, status)
          PROVE  HttpInv'
      <3> DEFINE r == request[k]
      <3>1. Visit(k)
        BY <2>3 DEF Serve
      <3>2. CASE KeepCookies(r)
        BY <1>1, <3>1, <3>2, KeepKeeps DEF HttpInv
      <3>3. ASSUME NEW cookie \in Cookie \ DOMAIN issued, addCookie(r, cookie)
            PROVE  HttpInv'
        BY <1>1, <3>1, <3>3, AddKeeps DEF HttpInv
      <3>4. CASE isValidCookie(r.cookie) /\ refreshCookie(r)
        BY <1>1, <3>1, <3>4, RefreshKeeps DEF HttpInv
      <3> QED
        BY <2>3, <3>2, <3>3, <3>4 DEF Serve
    <2> QED
      BY <1>3, <2>1, <2>2, <2>3 DEF httpCallback, FirstCall, Upload, Refuse
  <1>4. ASSUME NEW k \in Connection, ReadReply(k) \/ LoseConnection(k)
        PROVE  HttpInv'
    BY <1>1, <1>4, QuietKeeps DEF ReadReply, LoseConnection, HttpInv
  <1>5. CASE onNewAuthToken
    BY <1>1, <1>5, TokenKeeps DEF HttpInv
  <1>6. CASE Tick
    BY <1>1, <1>6, TickKeeps DEF HttpInv
  <1> QED
    BY <1>2, <1>3, <1>4, <1>5, <1>6 DEF HttpNext

\* The inductive invariant: what the store holds, when it is cleaned up and
\* what has been announced stay in step.
THEOREM HttpInvariant == HttpSpec => []HttpInv
  BY InitInv, StepInv, PTL DEF HttpSpec

\* Every variable keeps its shape; in particular no token is ever announced
\* that is not a cookie (postToken 195).
THEOREM HttpTypeCorrect == HttpSpec => []HttpTypeOK
  <1>1. HttpInv => HttpTypeOK
    BY DEF HttpInv
  <1> QED
    BY <1>1, HttpInvariant, PTL

\* Whoever has a cookie in the store of the HTTP server has a token in the
\* signalling server, or on its way there, that lasts as long.
THEOREM TokensCoverCookies == HttpSpec => []TokenCoversCookie
  <1>1. HttpInv => TokenCoversCookie
    BY DEF HttpInv, HttpTypeOK, StoreInv, AnnounceInv, TokenCoversCookie
  <1> QED
    BY <1>1, HttpInvariant, PTL

\* No visit leaves a cookie that had expired an interval before.
THEOREM ExpiredAlwaysSoonGone == HttpSpec => []ExpiredSoonGone
  <1>1. HttpInv => ExpiredSoonGone
    <2> SUFFICES ASSUME HttpInv, NEW c \in DOMAIN authCookies
                 PROVE  authCookies[c] + CleanupInterval > lastVisit
      BY DEF ExpiredSoonGone
    <2>1. authCookies[c] \in Nat /\ lastVisit \in Nat /\ nextCleanup \in Nat
      BY HttpBoundsAssumption DEF HttpInv, HttpTypeOK
    <2> QED
      BY <2>1, HttpBoundsAssumption DEF HttpInv, CleanupInv
  <1> QED
    BY <1>1, HttpInvariant, PTL

\* A cookie younger than AuthCookieMaxAge is in the store, whatever visits
\* and cleanups there were.
THEOREM AlwaysHonouredWhileFresh == HttpSpec => []HonouredWhileFresh
  <1>1. HttpInv => HonouredWhileFresh
    BY DEF HttpInv, StoreInv
  <1> QED
    BY <1>1, HttpInvariant, PTL

\* A protected page goes out for the right password or a promise that still
\* stands, and for nothing else.
THEOREM AlwaysServedWithinPromise == HttpSpec => ServedWithinPromise
  <1> DEFINE Promised(k) ==
        /\ request[k] # Idle
        /\ request[k].path = "/"
        /\ config.authRequired
        /\ reply[k] # reply'[k]
        /\ reply'[k] # Idle
        /\ reply'[k].status = "ok"
        => \/ request[k].user = "right"
           \/ /\ request[k].cookie \in DOMAIN announced
              /\ now <= announced[request[k].cookie]
  <1>1. ASSUME HttpInv, [HttpNext]_httpVars
        PROVE  [\A k \in Connection : Promised(k)]_httpVars
    <2> SUFFICES ASSUME HttpNext, NEW k \in Connection,
                        request[k] # Idle, request[k].path = "/", config.authRequired,
                        reply[k] # reply'[k], reply'[k] # Idle, reply'[k].status = "ok"
                 PROVE  \/ request[k].user = "right"
                        \/ /\ request[k].cookie \in DOMAIN announced
                           /\ now <= announced[request[k].cookie]
      BY <1>1
    <2> DEFINE r == request[k]
    <2>1. HttpTypeOK
      BY <1>1 DEF HttpInv
    <2>2. \E status \in {"ok", "not found", "closed"} : Serve(k, status)
      <3>1. \A j \in Connection : \A a : queueResponse(j, a) =>
               (j = k /\ reply'[k] = a) \/ reply'[k] = reply[k]
        BY <2>1 DEF queueResponse, HttpTypeOK
      <3>2. \A j \in Connection : ReadReply(j) => reply'[k] = reply[k] \/ reply'[k] = Idle
        BY <2>1 DEF ReadReply, HttpTypeOK
      <3>3. ~onNewAuthToken /\ ~Tick
        BY DEF onNewAuthToken, Tick, connectionVars
      <3>4. PICK j \in Connection : httpCallback(j) \/ ReadReply(j) \/ LoseConnection(j)
        BY <3>3 DEF HttpNext
      <3>5. ~ReadReply(j) /\ ~LoseConnection(j)
        BY <3>1, <3>2 DEF LoseConnection
      <3>6. \A s, c : s # "ok" => ~queueResponse(j, Reply(s, c))
        <4> SUFFICES ASSUME NEW s, NEW c, s # "ok", queueResponse(j, Reply(s, c))
                     PROVE  FALSE
          OBVIOUS
        <4>1. reply'[k] = Reply(s, c)
          BY <3>1
        <4> QED
          BY <4>1 DEF Reply
      <3>7. ~Refuse(j) /\ ~Hide(j) /\ ~Deny(j)
            /\ (\A s : ~Upload(j, s))
            /\ \A method, path, user, declared : ~FirstCall(j, method, path, user, declared)
        <4>1. ~Close(j)
          BY <3>6 DEF Close
        <4>2. ~Refuse(j)
          BY <4>1 DEF Refuse
        <4>3. ~Hide(j) /\ ~Deny(j)
          BY <3>6 DEF Hide, Deny
        <4>4. \A s : ~Upload(j, s)
          BY <4>1 DEF Upload
        <4>5. \A method, path, user, declared : ~FirstCall(j, method, path, user, declared)
          BY <4>1 DEF FirstCall
        <4> QED
          BY <4>2, <4>3, <4>4, <4>5
      <3>8. \E status \in {"ok", "not found", "closed"} : Serve(j, status)
        BY <3>4, <3>5, <3>7 DEF httpCallback
      <3>9. j = k
        BY <3>1, <3>8 DEF Serve
      <3> QED
        BY <3>8, <3>9
    <2>3. CASE Challenged(r)
      BY <2>1, <2>2, <2>3 DEF Serve, Denied, HttpTypeOK, Request, User
    <2>4. CASE ~Challenged(r)
      <3>1. isValidCookie(r.cookie)
        BY <2>4 DEF Challenged
      <3>2. r.cookie \in DOMAIN authCookies /\ now <= authCookies[r.cookie]
        BY <2>1, <3>1, CheckedCookiesFacts DEF isValidCookie
      <3>3. /\ r.cookie \in DOMAIN announced
            /\ authCookies[r.cookie] <= announced[r.cookie]
        BY <1>1, <3>2 DEF HttpInv, StoreInv, AnnounceInv
      <3>4. now \in Nat /\ authCookies[r.cookie] \in Nat /\ announced[r.cookie] \in Nat
        BY <2>1, <3>2, <3>3, HttpBoundsAssumption DEF HttpTypeOK
      <3> QED
        BY <3>2, <3>3, <3>4
    <2> QED
      BY <2>3, <2>4
  <1> QED
    BY <1>1, HttpInvariant, PTL DEF HttpSpec, ServedWithinPromise
=============================================================================
