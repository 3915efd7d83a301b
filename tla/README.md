# WebRTSP in TLA+

WebRTSP carries RTSP-like signalling for WebRTC over a WebSocket: a client asks
a server for a stream (DESCRIBE, SUBSCRIBE) or offers one (RECORD), the two
exchange ICE candidates in SETUP messages, and either side may end a media
session. Both sides send requests on the same connection, and most answers are
produced later, by a callback of a GStreamer peer. This directory models that
core, checks it with TLC on small instances, and proves part of it with TLAPS
for every value of the constants. All paths below are relative to the source
tree.

## 1. Inventory

| Component | State it keeps | Operations | Talks to |
|---|---|---|---|
| Base session (`RtspSession/Session`) | `_nextCSeq`, `_sentRequests` | create a request, match a response, send, disconnect | every session class |
| Server session (`RtspSession/ServerSession`) | media sessions: type, initial CSeq, queued candidates, prepared, peer | OPTIONS, LIST, DESCRIBE, SETUP, PLAY, SUBSCRIBE, RECORD, TEARDOWN, GET/SET_PARAMETER; `startRecordToClient`; the peers' prepared, iceCandidate, eos | the transport (two `std::function`s), the peers |
| Recording client (`RtspSession/ClientRecordSession`) | streamer, session id, queued candidates, `recordRequested` | `startRecord`, `stopRecord`, RECORD / SETUP / TEARDOWN and their answers | transport, its peer |
| Playing client (`RtspSession/ClientSession`) | receiver, session id, pending subscription | DESCRIBE or SUBSCRIBE, RECORD from the server, PLAY, SETUP, eos | transport, its peer |
| WebSocket server and client (`Signalling/WsServer`, `Client/WsClient`) | per-connection send queue, `terminateSession` | one message per writeable callback, close callback deletes the session | libwebsockets, sessions |
| Qt server (`Qt/Server/`, `Qt/QActor`) | sockets and `_sessions` on the main thread, session objects on the actor's thread, delayed first request, authorization | connect, message, disconnect, posted actions and events | two threads, each with a queue |
| QML client (`Qt/QML/`) | one `Connection` with raw pointers to its `Player`s, their requests and sessions; two kinds of retry timer | QML creates and destroys players; the connection comes and goes | Qt event loop, the peers' thread |
| Parser, serializer (`RtspParser/`) | none (pure) | `ParseRequest`, `ParseResponse`, `ParseCSeq`, `ParseParameters`, `ParseParametersNames`, `Serialize` | sessions and transports |
| HTTP micro server (`Http/`) | on a worker thread: cookies and their expiry, the next cleanup, the upload of each connection | the calls of `httpCallback`: authentication, cookie renewal and cleanup, uploads; tokens posted to the main loop | browsers, the token table of the signalling server |
| Applications, logging, build files | wiring only | | |

`RtStreaming` (the GStreamer peers) and `Helpers` are git submodules with no
source here. A peer is known by the three callbacks the sessions register
(prepared, iceCandidate, eos); what models it is marked external.

### What is hard, and what correctness means there

* **Server session.** The answer to DESCRIBE or RECORD comes from the peer's
  `prepared` callback, which races `eos`, the client's TEARDOWN and the end of
  the connection. Correct means: each request is answered at most once and
  eventually; nothing is said about a session before the client knows it or
  after it has ended; candidates gathered before `prepared` wait, later ones go
  out at once, and the switch neither loses, repeats nor reorders one; a SETUP
  is answered OK only if all of it was applied.
* **CSeq numbering.** The counter is an `unsigned` that wraps while old
  requests may still be unanswered. Correct means that a response always finds
  its own request. The parser reads the same type digit by digit.
* **Two ends of a call.** Each end changes its mind (stop, eos) while messages
  of the other are in flight. Correct means: the two ends agree on the session,
  no session is orphaned, candidates reach the peer they belong to, an end
  drops the connection only over a message that crosses the end of a session.
* **Qt server.** A connection is named by the address of its socket on one
  thread and by a `Session*` on the other, and addresses are reused. Correct
  means that no pointer crossing between the threads outlives its object, that
  everything is deleted in the end, and that holding back the first request
  does not reorder the rest.
* **QML client.** Players die while their requests, sessions and signals are
  under way, and the connection is lost while they retry. Correct means: no
  pointer to a dead player, and every session the server granted is owned by a
  player or being torn down.
* **HTTP server.** A login lives in three places with three clocks: the cookie
  store of the HTTP thread, the browser, and the signalling server's token table
  on the main thread. Correct means: whoever the HTTP server takes for logged in,
  the signalling server does or will; a page is served only within the time last
  promised; a cookie is neither dropped early nor kept for ever, although the
  store is cleaned up only on visits and only now and then.
* **Parser.** One pass from left to right, with lines that may be folded, empty
  or blank, repeated names and a body that may begin like a header. Correct
  means that it accepts what the lines of the text say, and that a message
  serialized and read again is the same.

`PROJECT.json` lists these hazards line by line, with the properties that cover
each.

## 2. Modules

```
MediaDialog           abstract: what a server promises on one connection
ServerSession         Session.cpp + ServerSession.cpp + the transport's effects
  ServerSessionProps    safety, the inductive invariants, how it implements
                        MediaDialog, liveness
    ServerSessionProofs   TLAPS: types, answers, announcements, then ends,
                          candidate queues, SETUP, CSeqs, the refinement
  WsServer              WsServer.cpp under the session: send queue, writeable callback
    WsServerProps         extends ServerSessionProps: the transport settles
ClientSignalling      the client half of Session.cpp and WsClient
  ClientRecordSession   ClientRecordSession.cpp
    RecordCall            extends ServerSession, INSTANCE of the client, two channels
      RecordCallProps       what both ends agree on, liveness, the inductive invariant
        RecordCallProofs      TLAPS: agreement, who may drop whom, candidates
  ClientSession         ClientSession.cpp
    PlayCall              extends ServerSession, INSTANCE of the client, two channels
      PlayCallProps         what both ends agree on, liveness, the inductive invariant
        PlayCallProofs        TLAPS: agreement, nobody plays alone, candidates in step
QtServer              Server.cpp + Session.cpp + QActor: two threads, two queues
  QtServerProps, QtServerProofs
QmlClient             Connection.cpp + Player.cpp
  QmlClientProps, QmlClientProofs
HttpServer            HttpMicroServer.cpp: worker thread, main loop, browser
  MCHttpServer, HttpServerProofs
CSeqParser            ParseCSeq, one character a step
  RtspParser            RtspParser.cpp + RtspSerialize.cpp around it
    RtspParserProps       what a text says, by its lines; the inductive invariant
      MCRtspParser          the texts TLC reads
      RtspParserProofs      TLAPS: CSeqs of any width, messages of any text, there and back
CSeqPool              createRequest / handleResponse over a wrap
  CSeqPoolProofs
```

Actions carry the names of the functions they model. A whole handler is one
action: `onDescribeRequest` includes the lookup, the early returns, the creation
of the session and what is sent; `ClientStep` and `PeerCallback` only gather
them. Operators whose comment begins with *Slip* are plausible mistakes (a
forgotten reset, a guard left out); nothing uses them but the experiments in
which one replaces the definition it distorts, to see that the property listed
for it in `PROJECT.json` notices.

### ServerSession
`mediaSessions` is the map of the same name, with `NoSession` where it has no
entry; `link` is the connection (`terminating` is `SessionData::terminateSession`
set); `wire` is every message handed to the transport while it could still be
written; `inbox` and `gathered` are history. Decisions worth knowing:

* `disconnect()` only marks the connection. It keeps receiving and handling
  messages until the writeable callback, which closes before it looks at the
  queue (`WsServer.cpp:217`), so nothing handed over after that is written:
  `Emit` stops growing `wire`. Messages handed over before it that are still
  queued are dropped as well, which WsServer shows. A handler that returns false
  closes at once.
* Callbacks carry a session id. One that was under way when the entry was erased
  is `LateCallback`: it finds nothing.
* A SETUP body is the number of well-formed lines before the first malformed
  one: lines are applied one by one, so a malformed line fails the request when
  its predecessors have reached the peer.
* The n-th accepted request has CSeq n. That the requests do arrive so is
  checked where both ends are modelled (`RequestsInStep`); the wrap is CSeqPool's.
* Assertions are not guards: the model does what a release build does.
* `authorize` may refuse any method in `RefusedMethods`. Proxying and the other
  virtual hooks are not modelled; `teardownMediaSession` has no caller.

### WsServer
`queued` is the length of `sendMessages`: the last messages of `wire` that have not
left yet. `writable` says that `lws_callback_on_writable` was called and the
callback has not come yet: every step of the session that hands a message over, or
sets `terminateSession`, asks for it (`CallbackOnWritable`), and `WriteFront` asks
again while the queue is not empty. Without such a request nothing leaves and
nothing is closed, as `ServerWriteable` has it as a guard. So `TransportSettles`
fails when `send`, a null request or the write forgets to ask (two slips show it).
The client names only sessions, and answers only requests, of messages that were
written (`ClientKnows`). The branch for a callback that finds an empty queue is not
reached: the write that empties the queue asks for no other. What an empty
serialization does is what a null request does.

### RecordCall and PlayCall
The two ends share two FIFO channels: `toServer`, and the server's `wire` of
which the client has read `heard` messages. Either end may lose the connection
at any moment and the other notices later; what is in flight may be read until
then. In RecordCall an application starts and stops recording at any time;
`stopRecord` before the answer to RECORD meets `assert(!_p->session.empty())`; a
release build disconnects instead, and an OK read before the connection is down
reaches a destroyed streamer, which is the state `crashed`.
`hasty` remembers recordings stopped before they had asked to RECORD: nothing
clears their candidates and the next recording sends them as its own, so
`CandidatesReachTheirSession` leaves those out. In PlayCall the server's
`onSubscribeRequest` is a subclass's override that answers and calls
`startRecordToClient`; it is external.

### QtServer
The main thread's actions are the sockets' signals and one `MainEvent` per
posted event; the actor's are one per posted action. Sockets at one address are
told apart by a serial number no guard reads: the code cannot see it, the
properties can. What a session does with a message is abstract here: any
sequence of sending, disconnecting and failing (`Outcomes`). Not modelled:
destruction of the server itself, `sendAction`, the fixed LIST answer.

### QmlClient
`Connection`'s tables and each player's peer, describe, session and timer. A
peer is destroyed synchronously, but what it has emitted is in `signals` and may
arrive late, though before the player's timer (seconds) or a new connection; one
player's signals are numbered and arrive in the order they were emitted.
`Connection::_authRequest` is a CSeq compared with the response; when the
connection closes, `Connection` forgets its requests. `Session::_sentRequests`,
which the code does not clear, plays no part: CSeqs are not reused within the
bound. The server answers in any order and
closes the connection over anything it finds wrong.

### HttpServer
libmicrohttpd calls `httpCallback` several times for a request, all on one
thread: with the headers (`FirstCall`), with each piece of a body (`Upload`), and
to have it answered (`Refuse`, `Hide`, `Deny`, `Serve`: one action per way out of
the function). A call takes no time on the clock; time passes between them
(`Tick`). A request carries the cookie its browser held when it was sent, which
may have expired or been replaced when the request is handled; `jar` is what the
browser holds, and its `Max-Age` counts from when the answer is read.
`authCookies`, `nextCleanup` and the tokens posted as idle sources (`posted`) are
the code's; `tokens` is the receiver's table (external: the callback handed to the
constructor). `refreshCookie` emplaces a new expiry under a key that is there
already, which leaves the old one: the browser and the signalling server learn of
a further `MaxAge`, the store gives the cookie up at its first expiry. The model
does as the code does, so `ServedWithinPromise` is one-sided: nothing is served
after the promise, but a promise may end before its time. File contents, the
digest algorithm and the API handler's answer are left to chance (`status`).

### RtspParser
A text is a sequence of symbols; words the parser only compares or copies
(methods, protocol, status codes, a name other than CSeq) are one symbol each,
and so is CR LF. A tab is white space and a control character, so it is a symbol
apart from both. `ParseMethodLine`, `ParseStatusLine`, `ParseHeaderField`,
`TakeBody`, `ParseCSeq`, `EraseCSeq` are the steps of `ParseRequest` and
`ParseResponse`, one header field, or one character of the CSeq, a step;
`ParseParameter` and `ParseParameterName` are the rounds of the two body parsers.
An accepted text is serialized and read again, once. The reference
in RtspParserProps (`IsMessage`, `HeaderLineEnds`, `IsField`, `IsValueOf`...) does not
scan: it says which line ends of the whole text end a header line, where the header
ends, and what lies between two of them. An empty reason phrase is
refused, as a release build does (`IsEmptyToken` asserts in a debug build).

### CSeqParser and CSeqPool
`Modulus` is 2^32 in the build and any number in the theorems. CSeqParser reads a
token one character at a time, with the wrapped product and the overflow check
as written. CSeqPool gives out the next CSeq that is not in `_sentRequests` while
the other end answers in any order, or not at all, and rejects CSeq 0.

## 3. What the runs check

| Run | Instance | Shows |
|---|---|---|
| `server_playback` | WsServer: 2 playback sessions, 3 requests, 1 candidate, DESCRIBE may be refused | one answer per request, silence after the end, SETUP whole, DESCRIBE settles, the send queue drains and a marked connection closes |
| `server_dialog` | 1 session of any type, 2 requests, 2 candidates | announcement before use, the candidate queue, refinement of MediaDialog |
| `record_call` | 2 recordings, 2 candidates of the client's peer, 1 of the server's | the two ends agree, no orphan, candidates reach their session, who may drop whom, RECORD settles |
| `play_call` | 1 stream by DESCRIBE or SUBSCRIBE, 2 candidates each way | agreement, order, nobody plays alone, playback starts or the connection ends |
| `qt_server` | 2 addresses, 2 sockets, 2 messages, 1 callback, with a token | no stale pointer either way, deletion, order, refusal disconnects |
| `qml_client` | 2 players, 2 sessions, 6 requests, 2 signals, with a token | no dangling client, sessions accounted for, no player left with nothing to come |
| `parser` | texts of up to 6 symbols behind a start line or in a body, pairs of fields, CSeqs up to 4 digits against a 6-bit counter, broken start lines | a text is read as its lines say, what was read survives serializing, a CSeq that fits is exact |
| `http_server` | 2 connections, 2 cookies, 3 requests, 4 seconds; cookies live 1 second, cleanup every 3; 3 configurations | tokens cover cookies, expiry, nothing served beyond its promise, a browser's token arrives |
| `cseq_pool` | 2-bit counter, 9 requests | responses match across two wraps |
| `server_cseq_zero`, `cseq_overflow`, `qml_reconnect` | smallest that shows it | the disagreements of section 5 |

### Why these bounds
Two media sessions are what it takes to mistake one for another, and three
requests let a session be described, set up and torn down while another is
pending. MediaDialog is refined by one session of every type; that several do not
speak for each other there is `SessionImplementsDialog`, for any number of them.
Candidates: one before `prepared` and one after. Two recordings make
leftovers of the first visible in the second. Two sockets cover side by side and
one after the other at one address; two messages cover the held-back request and
its follower. A 2-bit counter wraps twice in nine requests, with old requests
unanswered; a 6-bit counter and four digits wrap far past the modulus. Two players
are what it takes to hand one's session or request to the other. Two
connections let a request be under way while another changes the store or the
browser's cookie; in four seconds a cookie expires and outlives a skipped cleanup,
because the interval between cleanups is longer than a cookie's life, as it may be
in the code. Six symbols hold a field, a fold, a blank line and a body. Bounds are
guards on inputs (`MaxRequests`, `MaxCandidates`...). In QmlClient `MaxCSeq` also
cuts off the requests a reaction sends, which is why only safety is checked
there; its violations would be found in a prefix. All runs disable the deadlock check, because a connection
that has ended, or a history at its bound, has nothing left to do; "something must
still happen" is stated as liveness instead.

### Fairness
* A peer settles: it reports prepared or eos (external: GStreamer reports an
  error as eos). Without it a DESCRIBE could wait for ever; the code has no
  timeout of its own for it.
* WsServer: a writeable callback is delivered if it was asked for
  (`lws_callback_on_writable`), and only then; that it is always asked for is what
  `TransportSettles` depends on.
* Both event loops run and read what has arrived; an end whose partner has closed
  sees its connection closed.
* Qt: both threads take the next entry of their queue, and a socket whose `close()`
  was called emits `disconnected`.
* HttpServer: the main loop runs the idle sources attached to it.
Nothing makes the remote client, the application or QML do anything.

## 4. What is proved

TLAPS proves these for every value of the constants, from the named assumptions
on them (bounds are natural numbers, sets of methods and types are subsets of the
known ones) and nothing else.

* **ServerSession.** `TypeCorrect`, then `DialogInvariant`: `AnswerInv /\
  AnnounceInv`. "Answered at most once" is not inductive: one has to know that a
  session still waiting for `prepared` *owes* the answer to its initial request,
  that this request is so far unanswered, and that two sessions owe answers to
  different requests (`AnswerInv`). "Announced before used" needs that a prepared
  session has been announced, unless the connection is ending and its messages
  are no longer written (`AnnounceInv`). One lemma per handler reduces it to one
  of a few kinds of step (quiet, close, answered by the handler, answered later,
  requests sent), and one lemma per kind shows it keeps the invariant.
  `AnsweredOnce` and `AnnouncedBeforeUse` follow.
* **ServerSession, continued.** `SilenceInvariant`: session
  ids only go up and everything that carries one came before `nextSessionId`
  (`IdsInv`); a session that ended on the wire has an id below it and no entry
  (`EndInv`), so no later callback, request or new session can name it. From it
  `AlwaysSilentAfterEnd`, `AlwaysQueueOnlyUntilPrepared` and `AlwaysAppliedWhole`
  follow. `ResponsesAlwaysAnswerRequests` is proved for servers without
  subscriptions, the exact condition: `server_cseq_zero` shows the other case.
* **ServerSession, candidates.** `CandidatesAlwaysInOrder` says of every SETUP on the
  wire that its candidates go on where the last one before it for the same session
  left off (`UpTo`), and the same of the queue. It needs `CandidateInv`: a session that
  is not prepared, or still has a queue, has relayed nothing; one that is prepared has
  nothing queued and has relayed all that was gathered, unless the connection is
  ending. `RelayingKeeps` and `PreparingKeeps` are the two sides of the switch.
* **ServerSession, refinement.** `SessionImplementsDialog`: read as the number of
  answers to each request, what the client has been told of each session and the
  candidates that have left, every handler does one step of MediaDialog, or none.
  The candidates that have left are a recursive function over the wire
  (`Relayed`); `RelayedIs` shows that on a wire in order (`UpTo`) they are the first n
  of their session. That is an induction, for which `Induction` is derived
  from the least element of a set of naturals. `NextSays`: whatever a handler does, it
  says nothing, one message, or an announcement together with the candidates that
  waited for it. What such messages change of the dialog (`PhaseAfter`,
  `AnswersAfter`, `CandidatesAdded`) follows from the invariants above (`SpokenInv`), of
  which `GatheredInv` adds only that peers stop at their bound, as the abstract
  candidates do.
* **RecordCall.** `CallInvariant`: `CallInv`, over both ends and both channels.
  What the server says (`ServerInv`) is not enough: that a session is not orphaned
  depends on what is in flight and on what the client has *heard*, so each half
  has a conjunct that meets the other in a channel.
  `WireInv` and `RecordedInv` say what the server has written: its answers name
  requests it has counted, and the answer to a RECORD is the first message that
  names its session. `ChannelInv` says the requests in flight have the CSeqs
  between those the server has counted and those the client has given out, none
  missing; so the n-th of them is the n-th the server will count, which is
  `RequestsInStep` (`AlwaysInStep`), and what ServerSession takes for granted.
  `OutstandingInv` and `PendingInv` say that each end waits exactly for the answers
  it has not read. `RecorderInv` says that one RECORD is under way at a time and
  that the client has heard of no session but its own, those it is tearing down
  and those it has heard end. `OrphanInv` is `NoOrphan` with the RECORD that made the
  session named: without that name an answer to one RECORD could leave another's
  session behind. `AlwaysAgreed` and `NeverOrphaned` follow. The proof reduces each
  handler to what it does to the other half: the server adds to `wire` and takes
  at most one message (`ServerTurn`); the client reads at most one message, gives
  out requests and answers (`ClientTurn`); one lemma per conjunct shows that each
  kind of turn keeps it. `ServerDropsOnlyOnCrossing` and
  `ClientDropsOnlyOnCrossing` are action properties: they go through every way a
  handler can return false and use the server's own promises (silence after the end, an
  announcement before anything else, one answer per request) to show that only a
  message that crossed the end of its session takes one.
* **RecordCall, candidates.** `CallOrderInvariant`: `CallOrderInv`, from which
  `CandidatesAlwaysReach` follows. The property itself says, message by message, that
  each SETUP in flight goes on where what is applied and what is ahead of it leave off
  (`InTurn`, `SentTo`), so a read from the channel moves a boundary (`SentTaken`,
  `InTurnTaken`) and a send adds at its end (`OffersMore`). Two more conjuncts make it
  inductive. `WaitingInv` is the switch in `onRecordResponse`: until there is a session
  what waits is left over from hasty recordings, then all of the current one; from then
  on nothing waits and all has been sent. The flush starts at the first candidate
  because the answer to RECORD is the first message to name its session
  (`RecordedInv`), so nothing has been sent to it. `TakesInv` says that a recording whose
  candidates left the client had asked to RECORD in time (`Decided`): it cannot
  become hasty later, and so drop out of the property that counted it.
* **PlayCall.** `PlayInvariant`: `PlayInv`, with the same two kinds of turns.
  `AlwaysPlaySessionAgreed` is inductive only with what a player may have heard
  (`PlayerInv`: until it has a session it has heard of none, then of that one only)
  and with `OpenInv`: while the connection lasts, a session that was ever named is
  there or its end is on the wire. So when the player takes the id from an answer,
  the end of that session, if there is one, is still ahead of it. `NobodyPlaysAlone`
  follows a fact through both channels (`AloneInv`, `WireInv`): an answer to a RECORD
  is in the channel only if its receiver plays, the answer to a PLAY is on the wire
  only if the server's peer does, and a receiver that was asked to record does not
  ask to play because its session is a subscription.
* **PlayCall, candidates.** `PlayOrderInvariant`: `CandidateInv` of the server carried
  over the channels, so that `CandidatesAlwaysInStep` follows. `GivenInv` says that
  the receiver has what the messages read so far bring (`UpTo` at `heard`), and
  `OfferedInv` that each SETUP in flight brings the candidate after those that are
  applied or ahead of it (`OfferedTo`), all of one session. A message read from a
  channel moves the boundary (`GivenMore`, `AppliesNext`), one that is sent goes on at
  its end (`UpToSent`, `OfferedMore`). That the receiver is not given candidates before
  `prepare()` follows from `AnnounceInv`: a SETUP comes after the message that announces
  its session, and that one makes the receiver prepare.
* **RtspParser, CSeqs.** `ParserTypeOK` and `ExactInRange` are inductive together: if
  what has been written fits, what has been read is equal to it, so the next step
  cannot wrap before the number itself stops fitting. `ExactWhateverTheWidth` says so
  of ParseCSeq alone, `RtspReadsExactly` of the CSeq of a message.
* **RtspParser, messages.** `RtspTypeCorrect`: the scans (`SkipAll`, `ValueEnd`) are
  given by what they return, a CHOOSE, so their first lemmas (`ScanIs`, `ValueScanIs`)
  say that a stop always exists, which the least element of a set of naturals gives.
  What is serialized has to be made of symbols again, and that is two inductions over
  data: over the lines (`FlattenSeq`) and over the digits (`Decimal`). They are done
  with `Induction`, derived from the least element of a set of naturals, because the
  library's induction theorems take an operator. `MessageReadAsWritten`: `ScanInv` says
  that between two steps the scan stands at the beginning of a line of the header, or
  behind the blank line, and that what it has read is what the reference finds in the
  lines that end before it (`ReadBefore`). One round of ParseHeaderField reads one
  line: the name ends at the first colon, the value at the first line end that no white
  space follows, which is the next of `LineEnds`; that none is skipped is where a
  folded line end right after the colon, or in an empty value, has to be followed
  through `SkipLWS`. If the round refuses, the line is no field, so the whole text is
  not a message, whatever follows; if it accepts, a line more is read.
* **RtspParser, there and back.** `ReadAgainTheSame`: whatever text was accepted, what
  RtspSerialize writes of it is accepted again and read as the same message, with the
  same CSeq. Texts are those of the model, where a status code is 100 or more: the
  serializer writes a smaller one, such as "050", as "100" (`RtspSerialize.cpp:14`). The invariant has two parts. `WritableInv` says that what has been read
  can be written: a name is a token (or, in parameters, has no colon), a value begins
  with no blank and has a line end only where a blank folds it, a uri has no blank and
  no control character, and an accepted CSeq is not 0. `RereadInv` says that a text that
  was written is laid out as it was put together (`LaidOut`: the start, lines that begin
  at `b[1]`, `b[2]`, ..., the rest), that the scan is where one of the lines begins, and
  that the fields read so far are those of the lines before it. That `FlattenSeq` has
  this layout is an induction over the lines (`FlattenBegins`). A line is then read as it
  was written (`HeaderLineFound`, `ParameterLineFound`): the value ends at its own line
  end, not before it, as its line ends are folded, and not behind it, as what follows is a
  name, the blank line or the end of the text (`NextNotBlank`). Names are written once
  each, so `emplace` drops none (`OneFieldMore`). For the CSeq `DigitsRead` says that the
  digits read so far are those of the number they make; that a number is determined by
  its digits, and that what begins them is a number again (`DecimalInjective`,
  `DecimalPrefix`), is strong induction over the numbers. So ParseCSeq passes numbers
  that only grow to the one that was written, the overflow check never refuses, and
  the result is not 0.
* **CSeqPool.** `PoolInv`: whatever is under way is the only message with its
  CSeq, and its request is the one remembered under it. Only unused CSeqs are
  given out, so this survives the wrap. Before the wrap CSeqs are given out in
  order, so none is 0.
* **QtServer.** `QtInv`: a connection goes through `destroySession`,
  `connectionOrphaned` and `deferredDelete` in this order, and each is the last
  entry of its queue to name it. Without "last" nothing prevents a later entry
  from naming a deleted object, so pointer safety alone is not inductive.
  `AlwaysInOrder` needs more (`OrderInv`): what is queued for a session is older
  than what is held back and younger than what it was given, and nothing is posted
  while something is held back.
* **QmlClient.** `QmlInv`: a player without a peer waits for nothing and owns no
  session, a player that does not exist is in its initial state, and a session
  with a TEARDOWN under way belongs to nobody and is older than the next one
  (otherwise the answer to the TEARDOWN could take a session from a new owner).
  `NeverDangling` and `SessionsAlwaysAccountedFor` are its parts, and with it
  `NobodyForgotten` is inductive (`NobodyEverForgotten`): every step leaves a
  player as it was, with the requests it waits for, or puts it where it waits for
  nothing. A player whose retry fired on a closed connection has a peer that was
  never described: it has asked for nothing, so this property does not count it,
  and `qml_reconnect` shows it instead.
* **HttpServer.** `HttpInv`: an entry of the store lasts exactly `MaxAge` from the
  making of its cookie, the next cleanup is due at most one interval after the
  last visit and after any entry's expiry, and each cookie made has a token in the
  table or under way that lasts at least as long. That refreshing does not move
  the entry is what makes the middle part inductive. The three invariants and
  `ServedWithinPromise` follow for any age, interval and number of browsers.

Only model-checked: liveness everywhere (out of the prover's reach), and with it
WsServer, whose every step is one of ServerSession's or leaves the session alone. The candidate
properties do not filter the wire: they speak of each message and those before it.

## 5. Where the code disagrees with itself

* `server_cseq_zero`: `eos` of an unprepared subscription sends a 502 with CSeq 0,
  the invalid one; the client closes the connection over it.
* `cseq_overflow`: the overflow check of `ParseCSeq` misses products that wrap to
  a larger value ("5000000000" is read as 705032704).
* `qml_reconnect`: `Player::reset` returns before it stops the retry timer when
  there is no peer, so a player may ask for its stream on a closed connection.

## 6. Plan

Done: server session and its abstract promise; CSeq numbering; the recording and
the playing call; the two threads of the Qt server; the QML client; the HTTP
server; the parser and the serializer; proofs about all of them.

Worth doing next:
1. **The destruction of the Qt server** while actions are queued.
2. **PLAY unanswered at the end of a stream** in the QML player.

## 7. Not modelled

* HTTP: file names and contents, libmicrohttpd's digest algorithm, TLS.
* Parser: `ParseOptions`, `ParseIceCandidate`, `ParseAuthentication` and `SplitUri`,
  which look into one value and keep nothing, and which methods, protocols and
  status codes there are (tables).
* Transports: reassembling the fragments of a frame, ping and pong, connecting,
  TLS, the listening sockets (libwebsockets and I/O).
* The GStreamer peers and the helpers (submodules without source here).
* LIST's contents, parameters' meaning and proxying (a subclass's business).
* Logging, configuration structures, applications, build files, and the value
  types QML shows (no behaviour a property could be about).
