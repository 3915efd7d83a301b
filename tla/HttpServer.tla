------------------------------ MODULE HttpServer ------------------------------
(***************************************************************************)
(* The HTTP micro server (Http/HttpMicroServer.cpp): its worker thread     *)
(* keeps the authorization cookies and announces each as a token to the    *)
(* signalling server, on the main thread, while the browser keeps the      *)
(* cookie on its own clock.                                                *)
(*                                                                         *)
(* libmicrohttpd calls httpCallback several times for one request, all     *)
(* connections on one thread: with the headers (FirstCall), for each chunk *)
(* of a body (Upload) and to have it answered (Refuse, Hide, Deny, Serve). *)
(* A call takes no time on the clock, which counts seconds.                *)
(***************************************************************************)
EXTENDS Naturals, Sequences

CONSTANTS
    Configurations,     \* whether there are users, an API and a token callback, and
                        \* what indexPaths says of "/"
    Connection,         \* the browser's connections
    Cookie,             \* the cookies g_uuid_string_random may make
    NoCookie,           \* a request or an answer without one
    ExpiredCookie,      \* the header of addExpiredCookie
    Idle,               \* a connection without a request, or without an answer
    MaxAge,             \* AuthCookieMaxAge
    CleanupInterval,    \* AuthCookieCleanupInterval
    MaxUpload,          \* MAX_UPLOAD_SIZE
    MaxTime,            \* bound: the clock
    MaxRequests         \* bound: requests sent

ASSUME CookieAssumption == {NoCookie, ExpiredCookie} \cap Cookie = {} /\ NoCookie # ExpiredCookie
ASSUME ConfigurationsAssumption ==
    Configurations \subseteq
        [passwd : BOOLEAN, indexPath : {"default", "open", "protected"},
         api : BOOLEAN, callback : BOOLEAN]
ASSUME HttpBoundsAssumption ==
    /\ MaxAge \in Nat
    /\ CleanupInterval \in Nat \ {0}
    /\ MaxUpload \in Nat
    /\ MaxTime \in Nat
    /\ MaxRequests \in Nat

VARIABLES
    now,            \* std::chrono::steady_clock
    config,         \* what FixConfig made of the configuration
    request,        \* the request each connection is in the middle of
    upload,         \* UploadContext: how much of its body has come
    reply,          \* the answer on its way to the browser
    authCookies,    \* cookie -> expiresAt
    nextCleanup,    \* nextAuthCookiesCleanupTime
    posted,         \* the idle sources attached to the main context
    tokens,         \* the signalling server's table: token -> expiresAt
    jar,            \* the browser's cookie and when it forgets it
    sent,           \* history: how many requests were sent
    issued,         \* history: when each cookie was made
    announced,      \* history: the latest expiry announced for it
    lastVisit       \* history: when cleanupCookies was last called

connectionVars == <<request, upload, reply>>

storeVars == <<authCookies, nextCleanup, posted, issued, announced, lastVisit>>

httpVars == <<now, config, connectionVars, storeVars, tokens, jar, sent>>

-----------------------------------------------------------------------------
With(f, x, y) == [z \in DOMAIN f \cup {x} |-> IF z = x THEN y ELSE f[z]]

Only(f, S) == [z \in DOMAIN f \cap S |-> f[z]]

\* PATCH is as POST; PUT, DELETE and OPTIONS are alike; TRACE is any other.
Method == {"GET", "POST", "PUT", "TRACE"}

Path == {"/", "/api", "/file"}

\* The digest a request carries, by what the check makes of it.
User == {"none", "stranger", "right", "wrong", "stale nonce"}

Request == [method : Method, path : Path, user : User, cookie : Cookie \cup {NoCookie}]

Status == {"ok", "denied", "not found", "closed"}

Reply(status, cookie) == [status |-> status, cookie |-> cookie]

FixConfig(c) ==
    [passwd |-> c.passwd,
     authRequired |-> IF c.indexPath = "default" THEN c.passwd ELSE c.indexPath = "protected",
     api |-> c.api,
     callback |-> c.callback]

\* The main loop runs the sources in the order they were attached.
postToken(token, expiresAt) ==
    posted' = IF config.callback
              THEN Append(posted, [token |-> token, expiresAt |-> expiresAt])
              ELSE posted

-----------------------------------------------------------------------------
(* The cookie store.                                                       *)

\* Slip: a cookie is thrown away in its last second.
cleanupCookiesEarly ==
    IF nextCleanup > now
    THEN authCookies
    ELSE Only(authCookies, {c \in DOMAIN authCookies : authCookies[c] > now})

cleanupCookies ==
    IF nextCleanup > now
    THEN authCookies
    ELSE Only(authCookies, {c \in DOMAIN authCookies : authCookies[c] >= now})

\* Slip: every other cleanup is skipped.
CleanupTimeLate ==
    nextCleanup' = IF nextCleanup > now THEN nextCleanup ELSE now + 2 * CleanupInterval

CleanupTime ==
    nextCleanup' = IF nextCleanup > now THEN nextCleanup ELSE now + CleanupInterval

\* Slip: the cookie's age is left to cleanupCookies.
CheckedCookiesUnaged(cookie) == cleanupCookies

\* isValidCookie erases the cookie it finds expired.
CheckedCookies(cookie) ==
    Only(cleanupCookies, {c \in DOMAIN cleanupCookies : c = cookie => cleanupCookies[c] >= now})

isValidCookie(cookie) == cookie \in DOMAIN CheckedCookies(cookie)

\* cleanupCookies and isValidCookie, and nothing after them.
KeepCookies(r) ==
    /\ authCookies' = CheckedCookies(r.cookie)
    /\ UNCHANGED <<posted, issued, announced>>

\* Slip: the token is not posted.
addCookieUnannounced(r, cookie) ==
    /\ authCookies' = With(CheckedCookies(r.cookie), cookie, now + MaxAge)
    /\ issued' = With(issued, cookie, now)
    /\ announced' = With(announced, cookie, now + MaxAge)
    /\ UNCHANGED posted

addCookie(r, cookie) ==
    /\ authCookies' = With(CheckedCookies(r.cookie), cookie, now + MaxAge)
    /\ postToken(cookie, now + MaxAge)
    /\ issued' = With(issued, cookie, now)
    /\ announced' = With(announced, cookie, now + MaxAge)

\* Slip: the signalling server is told of no further age.
refreshCookieNow(r) ==
    /\ authCookies' = CheckedCookies(r.cookie)
    /\ postToken(r.cookie, now)
    /\ announced' = With(announced, r.cookie, now + MaxAge)
    /\ UNCHANGED issued

\* A cookie that is refreshed is in the store, and emplace leaves what is
\* there as it is: only the browser and the signalling server learn of more.
refreshCookie(r) ==
    /\ authCookies' = CheckedCookies(r.cookie)
    /\ postToken(r.cookie, now + MaxAge)
    /\ announced' = With(announced, r.cookie, now + MaxAge)
    /\ UNCHANGED issued

-----------------------------------------------------------------------------
(* httpCallback, on the worker thread.                                     *)

queueResponse(k, answer) ==
    /\ reply' = [reply EXCEPT ![k] = answer]
    /\ request' = [request EXCEPT ![k] = Idle]
    /\ upload' = [upload EXCEPT ![k] = 0]

\* MHD_NO: libmicrohttpd closes the connection.
Close(k) == queueResponse(k, Reply("closed", NoCookie))

\* The browser sends the cookie it holds, until it forgets it.
CookieToSend == IF now <= jar.until THEN jar.cookie ELSE NoCookie

FirstCall(k, method, path, user, declared) ==
    /\ request[k] = Idle
    /\ reply[k] = Idle
    /\ sent < MaxRequests
    /\ sent' = sent + 1
    /\ IF method = "TRACE" \/ (method = "POST" /\ declared > MaxUpload)
       THEN Close(k)
       ELSE /\ request' = [request EXCEPT ![k] =
                   [method |-> method, path |-> path, user |-> user, cookie |-> CookieToSend]]
            /\ UNCHANGED <<upload, reply>>
    /\ UNCHANGED <<now, config, storeVars, tokens, jar>>

Upload(k, size) ==
    /\ request[k] # Idle
    /\ request[k].method = "POST"
    /\ size > 0
    /\ IF upload[k] + size > MaxUpload
       THEN Close(k)
       ELSE /\ upload' = [upload EXCEPT ![k] = upload[k] + size]
            /\ UNCHANGED <<request, reply>>
    /\ UNCHANGED <<now, config, storeVars, tokens, jar, sent>>

IsApi(r) == r.path = "/api" /\ config.api

\* Only the API takes anything but GET.
Refuse(k) ==
    /\ request[k] # Idle
    /\ ~IsApi(request[k])
    /\ request[k].method # "GET"
    /\ Close(k)
    /\ UNCHANGED <<now, config, storeVars, tokens, jar, sent>>

\* The request gets as far as the cookies.
Visit(k) ==
    /\ request[k] # Idle
    /\ IsApi(request[k]) \/ request[k].method = "GET"
    /\ CleanupTime
    /\ lastVisit' = now
    /\ UNCHANGED <<now, config, tokens, jar, sent>>

\* A digest is looked at only without a cookie, and asked for only if the
\* path needs one.
Challenged(r) ==
    /\ r.user # "none" \/ config.authRequired
    /\ r.path = "/"
    /\ ~isValidCookie(r.cookie)

\* A protected path is hidden if nobody could log in.
Hide(k) ==
    /\ Visit(k)
    /\ Challenged(request[k])
    /\ ~config.passwd
    /\ KeepCookies(request[k])
    /\ queueResponse(k, Reply("not found", NoCookie))

\* A wrong password does for a path that needs none.
Denied(r) ==
    /\ config.passwd
    /\ \/ r.user \in {"none", "stranger", "stale nonce"}
       \/ r.user = "wrong" /\ config.authRequired

\* Whatever cookie came with it is taken back.
Deny(k) ==
    LET r == request[k] IN
    /\ Visit(k)
    /\ Challenged(r)
    /\ Denied(r)
    /\ KeepCookies(r)
    /\ queueResponse(k, Reply("denied",
           IF r.cookie = NoCookie THEN NoCookie ELSE ExpiredCookie))

\* The file, config.js or the API's answer; not found or an error (MHD_NO).
Serve(k, status) ==
    LET r == request[k] IN
    /\ Visit(k)
    /\ Challenged(r) => config.passwd /\ ~Denied(r)
    /\ status = "not found" => ~IsApi(r)
    /\ \/ /\ status # "ok"
          /\ KeepCookies(r)
          /\ queueResponse(k, Reply(status, NoCookie))
       \/ /\ status = "ok"
          /\ Challenged(r) /\ r.user = "right"
          /\ \E cookie \in Cookie \ DOMAIN issued :
                addCookie(r, cookie) /\ queueResponse(k, Reply("ok", cookie))
       \/ /\ status = "ok"
          /\ isValidCookie(r.cookie)
          /\ refreshCookie(r)
          /\ queueResponse(k, Reply("ok", r.cookie))
       \/ /\ status = "ok"
          /\ ~isValidCookie(r.cookie)
          /\ ~(Challenged(r) /\ r.user = "right")
          /\ KeepCookies(r)
          /\ queueResponse(k, Reply("ok", NoCookie))

-----------------------------------------------------------------------------
(* The network, the browser and the main thread.                           *)

\* Max-Age counts from when the answer is read.
ReadReply(k) ==
    /\ reply[k] # Idle
    /\ jar' = CASE reply[k].cookie = NoCookie -> jar
                [] reply[k].cookie = ExpiredCookie -> [cookie |-> NoCookie, until |-> 0]
                [] OTHER -> [cookie |-> reply[k].cookie, until |-> now + MaxAge]
    /\ reply' = [reply EXCEPT ![k] = Idle]
    /\ UNCHANGED <<now, config, request, upload, storeVars, tokens, sent>>

\* The request or its answer is lost with the connection.
LoseConnection(k) ==
    /\ request[k] # Idle \/ reply[k] # Idle
    /\ queueResponse(k, Idle)
    /\ UNCHANGED <<now, config, storeVars, tokens, jar, sent>>

\* The idle source runs onNewAuthTokenCallback on the main thread.
onNewAuthToken ==
    /\ posted # <<>>
    /\ tokens' = With(tokens, Head(posted).token, Head(posted).expiresAt)
    /\ posted' = Tail(posted)
    /\ UNCHANGED <<now, config, connectionVars, authCookies, nextCleanup, issued,
                   announced, lastVisit, jar, sent>>

Tick ==
    /\ now < MaxTime
    /\ now' = now + 1
    /\ UNCHANGED <<config, connectionVars, storeVars, tokens, jar, sent>>

-----------------------------------------------------------------------------
Nothing == [c \in {} |-> 0]

HttpInit ==
    /\ now = 0
    /\ config \in {FixConfig(c) : c \in Configurations}
    /\ request = [k \in Connection |-> Idle]
    /\ upload = [k \in Connection |-> 0]
    /\ reply = [k \in Connection |-> Idle]
    /\ authCookies = Nothing
    /\ nextCleanup = 0
    /\ posted = <<>>
    /\ tokens = Nothing
    /\ jar = [cookie |-> NoCookie, until |-> 0]
    /\ sent = 0
    /\ issued = Nothing
    /\ announced = Nothing
    /\ lastVisit = 0

\* Only the index page looks at the digest, and only POST at the length.
httpCallback(k) ==
    \/ \E user \in User : FirstCall(k, "GET", "/", user, 0)
    \/ \E method \in Method : FirstCall(k, method, "/file", "none", 0)
    \/ FirstCall(k, "POST", "/api", "none", 0)
    \/ FirstCall(k, "POST", "/api", "none", MaxUpload + 1)
    \/ \E size \in 1..(MaxUpload + 1) : Upload(k, size)
    \/ Refuse(k)
    \/ Hide(k)
    \/ Deny(k)
    \/ \E status \in {"ok", "not found", "closed"} : Serve(k, status)

HttpNext ==
    \/ \E k \in Connection : httpCallback(k) \/ ReadReply(k) \/ LoseConnection(k)
    \/ onNewAuthToken
    \/ Tick

HttpSpec == HttpInit /\ [][HttpNext]_httpVars

\* The main loop runs the sources attached to it.
FairHttpSpec == HttpSpec /\ WF_httpVars(onNewAuthToken)

-----------------------------------------------------------------------------
HttpTypeOK ==
    /\ now \in 0..MaxTime
    /\ config \in [passwd : BOOLEAN, authRequired : BOOLEAN, api : BOOLEAN, callback : BOOLEAN]
    /\ request \in [Connection -> Request \cup {Idle}]
    /\ upload \in [Connection -> 0..MaxUpload]
    /\ reply \in [Connection -> [status : Status, cookie : Cookie \cup {NoCookie, ExpiredCookie}]
                                    \cup {Idle}]
    /\ authCookies \in [DOMAIN authCookies -> Nat]
    /\ nextCleanup \in Nat
    /\ posted \in Seq([token : Cookie, expiresAt : Nat])
    /\ tokens \in [DOMAIN tokens -> Nat]
    /\ jar \in [cookie : Cookie \cup {NoCookie}, until : Nat]
    /\ sent \in 0..MaxRequests
    /\ issued \in [DOMAIN issued -> Nat]
    /\ announced \in [DOMAIN announced -> Nat]
    /\ DOMAIN issued \subseteq Cookie
    /\ lastVisit \in 0..now

\* Whoever the HTTP server takes for logged in, the signalling server does or
\* will: for each cookie in the store a token has been posted, and none of
\* its tokens, in the table or on the way (213), expires earlier.
TokenCoversCookie ==
    config.callback => \A c \in DOMAIN authCookies :
        /\ c \in DOMAIN tokens \/ \E i \in DOMAIN posted : posted[i].token = c
        /\ c \in DOMAIN tokens => tokens[c] >= authCookies[c]
        /\ \A i \in DOMAIN posted : posted[i].token = c => posted[i].expiresAt >= authCookies[c]

\* Cleaning up only now and then (342) leaves no cookie that had expired a
\* whole interval before the last visit.
ExpiredSoonGone ==
    \A c \in DOMAIN authCookies : authCookies[c] + CleanupInterval > lastVisit

\* A cookie stays in the store for AuthCookieMaxAge at least, whatever comes
\* and goes meanwhile (232, 342).
HonouredWhileFresh ==
    \A c \in DOMAIN issued : now <= issued[c] + MaxAge => c \in DOMAIN authCookies

\* A protected page is only served for the right password, or for a cookie
\* until the time last announced for it, however long the request's way was
\* and however seldom the store is cleaned up.
ServedWithinPromise ==
    [][\A k \in Connection :
        /\ request[k] # Idle
        /\ request[k].path = "/"
        /\ config.authRequired
        /\ reply[k] # reply'[k]
        /\ reply'[k] # Idle
        /\ reply'[k].status = "ok"
        => \/ request[k].user = "right"
           \/ /\ request[k].cookie \in DOMAIN announced
              /\ now <= announced[request[k].cookie]]_httpVars

-----------------------------------------------------------------------------
(* The inductive invariant behind them.                                    *)

\* An entry lasts from the cookie's making for MaxAge, and is gone only then.
StoreInv ==
    /\ DOMAIN authCookies \subseteq DOMAIN issued
    /\ \A c \in DOMAIN issued : issued[c] <= now
    /\ \A c \in DOMAIN authCookies : authCookies[c] = issued[c] + MaxAge
    /\ HonouredWhileFresh

\* An entry's time comes an interval before the next cleanup at the earliest.
CleanupInv ==
    /\ nextCleanup <= now + CleanupInterval
    /\ lastVisit < nextCleanup \/ DOMAIN authCookies = {}
    /\ \A c \in DOMAIN authCookies : nextCleanup <= authCookies[c] + CleanupInterval

\* Only cookies that were made are announced, and never for less than MaxAge.
AnnounceInv ==
    /\ DOMAIN announced = DOMAIN issued
    /\ DOMAIN tokens \subseteq DOMAIN issued
    /\ \A i \in DOMAIN posted : posted[i].token \in DOMAIN issued
    /\ \A c \in DOMAIN issued : issued[c] + MaxAge <= announced[c]
    /\ \A c \in DOMAIN tokens : issued[c] + MaxAge <= tokens[c]
    /\ \A i \in DOMAIN posted : issued[posted[i].token] + MaxAge <= posted[i].expiresAt
    /\ config.callback => \A c \in DOMAIN issued :
          c \in DOMAIN tokens \/ \E i \in DOMAIN posted : posted[i].token = c

HttpInv == HttpTypeOK /\ StoreInv /\ CleanupInv /\ AnnounceInv

-----------------------------------------------------------------------------
\* The cookie a browser holds is known to the signalling server in the end:
\* the answer that brings it may be faster than its token (213, 228).
TokenArrives == \A c \in Cookie :
    (config.callback /\ jar.cookie = c) ~> (c \in DOMAIN tokens)
=============================================================================
