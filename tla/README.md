# Autobahn|Python in TLA+

TLA+ models of the protocol machinery of Autobahn|Python (`src/autobahn`), TLC configurations
that check them on small instances, and TLAPS proofs of what must hold for every instance.

Short names of the sources: **P** = `src/autobahn/websocket/protocol.py`,
**W** = `src/autobahn/wamp/protocol.py`, **C** = `src/autobahn/wamp/component.py`.

## 1. Inventory

Autobahn is single-threaded and event-driven: everything happens in callbacks of a Twisted
reactor or an asyncio loop, each of which runs to its end. What makes it hard is the *order* of
the callbacks — bytes, lost streams, delayed calls, results of futures and calls of the
application — and what a callback finds when it runs late.

| component | state it keeps | operations | talks to | hard because of |
|---|---|---|---|---|
| WebSocket connection (P) | `state`, flags for who closed, failed or dropped, `wasClean`, handles of five delayed calls, futures `is_open` and `is_closed`, pending auto-ping | data received, connection lost, handshake steps, Close/Ping/Pong/data frames, five timeouts, `sendClose`, `dropConnection`, `_fail_connection` | transport below, application or WAMP above | timeouts against late answers, futures of handlers, double teardown, Close frames from both sides |
| transport adapters (`twisted/`, `asyncio/websocket.py`) | transport, receive queue and its waiter | `connectionMade`, `dataReceived`, `connectionLost`, hooks as calls or futures | event loop | exceptions out of callbacks; callbacks of futures run in a later iteration |
| send side (P) | `send_state`, announced frame length, `send_queue`, `triggered` | `sendMessage`, streaming calls, prepared messages, queued writes | transport | control frames between parts of a frame, writes delayed past the Close |
| frame parser (P) | buffer, current frame, message state, UTF-8 state | `consumeData`, `onFrame…`, `onMessage…` | lifecycle | any chunking of the octets, fragments with control frames between |
| handshake (P) | options of the factories, request, response, key, `countConnections` | `startHandshake`, `processHandshake`, `succeedHandshake`, proxy CONNECT | application's `onConnect…`, intermediaries | headers that come twice, not at all or from a cache; counted late |
| compression (`compress*.py`) | negotiated parameters, compressor, decompressor | offer, accept, response | handshake, frames | both ends derive their half of one agreement |
| WAMP session (W) | `_session_id`, `_goodbye_sent`, six dictionaries of outstanding requests, subscriptions, registrations, invocations | `onOpen`, `onMessage`, `onClose`, `join`, `leave`, `disconnect`, `subscribe`, `register`, `call`, `publish`, their inverses, cancel | ITransport, router, application's futures | requests cross their answers, sessions end with requests outstanding, hooks finish late |
| payload codecs and errors (W, `cryptobox.py`, `exception.py`) | keyring, maps of exceptions and URIs | `set_key`, `encode`, `decode`, `define`, `_exception_from_message` | session | keys change between a call and its answer; constructors raise |
| messages and option types (`message.py`, `types.py`) | none | constructor, `parse`, `marshal` of 25 classes | session, serializers | what is empty, false or missing has more than one wire form |
| serializers (`serializer.py`) | statistics | `serialize`, `unserialize`, batched and not | transports | several messages in one string, one of them bad |
| WAMP transports (`wamp/websocket.py`, `*/rawsocket.py`) | handshake octets, buffer, prefix, size limits, `_session` | `dataReceived`, `send`, `close`, `abort`, `_bailout` | session | length limits, rejected handshakes, frames behind a refused one |
| Component (C, `*/component.py`) | transports with retry counters, `_done_f`, `_delay_f`, `_session`, `_stopping` | `start`, `stop`, `_connect_once`, `transport_check` | event loop, session events | an attempt, its session and `stop()` end in any order |
| authenticators (`auth.py`, `cryptosign.py`) | SCRAM's nonce and verifier | `on_challenge`, `on_welcome` | session, router | two sides compute one signature apart; who proves what to whom |
| XBR market (`xbr/_buyer.py`, `_seller.py`) | channels with balance and sequence number, keys, key series | `unwrap`, `rotate`, `sell`, `start`, `stop` | market maker over WAMP | purchases awaited while the channel and the keys move on |
| XBR data (`xbr/_eip712_*`, `_secmod`, `_userkey`, `_config`, `_schema`) | keys with a lock, files, loaded types | sign, recover, lock, save, load, validate | file system | crashes between writes; what a signature leaves out |
| NVX, CLI, GUI, reactor glue | | | | no protocol logic |

What makes each of them correct:

* *connection*: every phase ends (timed, whatever the peer does); `onClose` is called exactly
  once, last, and reports "clean" only for a full closing handshake; futures are resolved once;
  the auto-ping neither dies nor doubles.
* *send side*: bytes in order, frames whole, nothing behind a Close.
* *parser*: the messages delivered do not depend on how the bytes were cut.
* *session*: each request's future is answered exactly once, also when the session is lost;
  `onJoin` and `onLeave` pair up; a conforming router is never accused of a violation; after all
  messages arrived session and router agree on subscriptions, registrations and invocations.
* *payloads*: arguments and exceptions arrive as they were given, only at whom they were meant
  for, and a call whose endpoint has ended is answered.
* *messages, serializers, transports*: what one session sends the other gets, whole and in order,
  and what `parse` accepts a handler can use.
* *Component*: its loop runs until it is done and then is done once; never tries more often than
  allowed; `stop()` stops it; it dials what the configuration says.
* *authentication*: who knows the secret is let in, and a client that asked for proof gets it.
* *XBR*: the three sides of a market agree on what was paid; a key offered is sold; keys,
  profiles and certificates survive; a signature is of one message and one key.

`PROJECT.json` lists all components with their sources and status, and every hazard at its line.

## 2. Modules

| module | what it is | code |
|---|---|---|
| `WebSocketChannel` | abstract: what `IWebSocketChannel` promises an application — phases never go back, `onClose` at most once and last, a closed channel is reported | `websocket/interfaces.py`, P |
| `WebSocketProtocol` | one endpoint, server or client, Twisted or asyncio, from the established stream to `onClose` | P, `twisted/websocket.py`, `asyncio/websocket.py`, `_bailout` of `wamp/websocket.py` |
| `PerMessageCompress` | negotiation of the three extensions, and the windows of each end | `websocket/compress*.py` |
| `WebSocketStream` | the sending half of one end, the stream, the receiving half of the other | P, `utf8validator.py`, `xormasker.py` |
| `WebSocketHandshake` | clients, web servers, a proxy and a server factory agree on a connection | P, `websocket/util.py`, `websocket/types.py` |
| `WampSession` | `ApplicationSession` and the newer `Session` against a router that may send anything | W, `wamp/request.py`, `wamp/websocket.py` |
| `WampRealm` | the session, a transport in both directions and a conforming router (external, modelled from what the session relies on) | |
| `KeyRing`, `WampErrors`, `WampPayload` | keyrings; exceptions on the wire; arguments of one call or publication between two sessions | W, `cryptobox.py`, `exception.py`, `uri.py` |
| `WampMessages` | option object → message → wire → message → details, for every class | `message.py`, `types.py` |
| `Serializer`, `WampTransport` | serializers; two sessions over one RawSocket or WebSocket | `serializer.py`, `rawsocket/util.py`, `*/rawsocket.py`, `wamp/websocket.py` |
| `Authentication`, `ComponentTransport`, `Component` | authenticators; configurations of transports; the reconnect loop, which uses both | `auth.py`, `cryptosign.py`, `*/component.py` |
| `XbrMarket` | seller, buyer and market maker | `xbr/_buyer.py`, `_seller.py`, `twisted/xbr` |
| `XbrTypedData`, `SecurityModule` | what is signed; keys, locks and certificates | `xbr/_eip712_*.py`, `_secmod.py`, `cryptosign.py` |
| `KeyFiles`, `SchemaRepository` | files written step by step; schemas and validation | `_userkey.py`, `_config.py`, `_schema.py` |
| `MC…` | instances for TLC | |
| `WebSocketProtocolProofs`, `WebSocketHandshakeProofs`, `WampSessionProofs`, `WampRealmProofs`, `WampMessagesProofs`, `WampPayloadProofs`, `ComponentProofs`, `XbrProofs` | TLAPS proofs, section 4 | |

**How a module corresponds to its code.** The attributes of an object are the fields of one record (`ws`,
`s`, `c`, `snd`, `rcv`, …). A method is an operator from a record to a record; because methods
call each other in sequence, composing them as operators keeps the order of the code. An entry
from the event loop — data, a delayed call, a future's result, a call of the application — is one
action that applies one operator, together with everything the method calls. What a run varies
about the situation (options of factories, configurations, what the peer or application does) is one
record, `opt` (`user` in `KeyFiles`, `setup` in `WampPayload`), chosen in `Init` and never changed; the MC
modules list the records, each combining what meets in the code.

### WebSocketProtocol

The entries are the seven `Receive…` actions, the five delayed calls, `OnConnectingDone` and
`OnConnectDone` (futures of the application), `SendClose`, `Bailout` (the WAMP layer's exception
handler) and `ConnectionLost`.

* *Delayed calls* are two functions: `handle` (the attribute is not `None`) and `live` (how many
  calls are scheduled). The code overwrites a handle without cancelling when a Close is received
  twice, so the two differ, and a call outlives its handle.
* *Futures*: `isOpen`, `isClosed`; resolving one twice raises (`raised`), and the rest of the
  method is then skipped, as in the code.
* *Frames* carry the number of header and payload checks that fail (0, 1, 2): with `failByDrop`
  off each is a call of `_fail_connection`, the second of which drops. `ReceivePartialHeader` is
  the header that is checked again when its extended length arrives.
* *Exceptions* out of `dataReceived` lose the connection under Twisted and end the receive loop
  under asyncio, with the stream left open.
* *Handlers* that return futures (`AsyncHandlers`) leave the instance as it is until they finish;
  on asyncio they always do.

Here the decision of a handshake is a choice among its outcomes; `WebSocketHandshake` models what
decides it. Octets are `WebSocketStream`'s.

### PerMessageCompress, WebSocketStream, WebSocketHandshake

`PerMessageCompress` follows the parameters from offer to the object each end keeps: `client_…`
and `server_…` options mean opposite halves to the two ends, and `compressor(p)` and
`decompressor(p)` are what the code makes of them. A window is the sequence of messages in it.

`WebSocketStream` models the octets: a payload octet knows its message, its UTF-8 class and the
position of the mask it was masked with, so that a mask applied at the wrong pointer, a swapped
chunk or a stale window is visible at the other end. `DataReceived` cuts the stream anywhere;
`ConsumeData` is one round of the parser's loop. `rcv.log` is what the peer's callbacks saw and
`snd.log` what the application did.

`WebSocketHandshake` runs up to three connections to one factory. A header is a sequence of
lines of items; an intermediary may drop or repeat one, answer from a cache, or add an address
to X-Forwarded-For. `onConnect` finishes at once or later, when other connections have come and
gone. Keys and accept hashes are terms.

### WampSession and WampRealm

The record `s` holds the session's attributes, and beside them what the application holds: the
future of each request (`reply`) and which subscription objects are active. Every request takes the
next id, and a subscription is named by the id of its SUBSCRIBE. `send` writes to `s.sent`, which
`WampRealm` moves to the router; when the transport cannot send it raises, with the effect the
particular caller gives it (`request`, `trySend`, `Leave`, `CancelReply`). The transport is the
WebSocket one seen from above: *open*, *closing* (we sent a Close: nothing more is sent, messages are
still received), *deaf* (failed, or closed by the peer) and *lost*.

In `WampSession` the router is any peer: `Next` may hand in every message at every moment. That is
the model the proofs are about. In `WampRealm` the router keeps to the protocol: it answers requests
in order and calls whenever the callee does, sends events and invocations only for what is
subscribed and registered, interrupts invocations that may already be answered, closes the realm, and
(`Forced`) takes registrations back. What it and the session send is under way in two sequences.

`Shim` selects the newer `Session` class; `AsyncHooks` lets `onWelcome` and `onChallenge` finish
later (with it off they finish before anything else happens, as a synchronous hook does).

### WampMessages, KeyRing, WampErrors, WampPayload

A value in `WampMessages` is one of a few names the checks of the code tell apart ("emptyList",
"negative", "word", …) and a Python type is a set of them. Each class has three tables translated
from its code: what the constructor asserts, what `parse` takes at each position and under each
key, and which values `marshal` leaves out. `Send` makes a message of options, `Garble` alters one
element of the wire as another implementation might, `Receive` parses it and makes the details object.

`WampPayload` follows one call or publication: the session that sends it, a router that may hand
the answer under another procedure's URI, the session that receives it, progress, result or error
and the way back; meanwhile keys are set, codecs replaced, exceptions defined.

### Serializer and WampTransport

One session at each end, each over Twisted's or asyncio's RawSocket or over WebSocket. A frame
prefix is two units (its first octet and the 24 bits), so that a string may be cut between the two;
`LengthBits = 2` makes 4 octets the longest RawSocket string, and `Rated` is what the automatic
report of the statistics counts to.

### Component, ComponentTransport, Authentication

`Component` holds `_done_f`, `_delay_f`, the transports' counters and the attempts under way, each
with its phase, the future of `_connect_once` and its session; attempts are numbered, and one that is closed
and that nobody refers to is swept at the end of the entry. The futures' callbacks run in the
entry that resolves them (Twisted) or right after it (asyncio). `ComponentTransport` is the checks
of `_create_transport` and what each framework dials. `Authentication` computes signatures as
terms; the router verifies with its own secret and may lie about the result.

### XBR

`XbrMarket`: a step is what one side does between two awaits; the market maker (external) is what
the calls and checks of both sides make of it. A *patient* market tells balances between purchases only; the
others are in section 6. `XbrTypedData` is a table per file: arguments with
what is asserted, members of the struct, and where their values come from; `SecurityModule` signs
with them and keeps certificates. `KeyFiles` takes one step per file operation: opening a file to
write empties it, closing fills it, and the program may end between any two. `SchemaRepository`
loads what the reflection of a schema says and checks payloads as the code does.

## 3. Runs

All bounds are named constants; the actions' guards refer to them.

| run | instance | shows |
|---|---|---|
| `MCWebSocket` | all 1280 combinations of the options, both roles, Twisted, synchronous handlers; up to 2 live calls of a kind and 2 requests | `ImplementsChannel`: the refinement of `WebSocketChannel` with its liveness |
| `WebSocketAsyncio` | asyncio client behind a proxy, handlers' futures, raising handlers | `TypeOK`, `CleanMeansHandshake`, `OpeningIsTimed`, `ClosingIsTimed`; `KeepaliveRuns`: the auto-ping of an open connection neither stops nor doubles; `LostIsTornDown`; `ClosingEnds`; `DeafConnectionDropped`: the auto-ping gets rid of a connection whose receive loop has ended |
| `WampSession` | any router, 1 topic, 1 invocation, 3 requests, 2 greetings | `AnsweredOnce`, `PendingIsOutstanding`, `JoinsAndLeavesPaired` |
| `WampRealm` | conforming router, 3 requests, events and interrupts while fewer than 2 messages are under way, calls may be cancelled | `NoProtocolError`, `SessionAndRouterAgree`, `LostIsAnswered` |
| `RealmLiveness` | the same with 2 requests, registrations taken back, calls and SUBSCRIBEs cancelled | `EverythingEnds`: requests are answered and goodbyes end |
| `MCStream` | up to 4 messages, pings and Closes: fragments with queued writes and auto-pings, both ends closing, streaming calls, prepared messages, every outcome of a negotiation | `ReceivedAsSent`, `NothingRefused`; `SentIsReceived` |
| `MCComponent` | 1 or 2 transports, retries −1, 0, 1, 2 starts, 2 connections alive, with and without main; every authenticator; 224 transports, alone and next to another, on both frameworks | `OneThingUnderWay`, `JoinedIsMutual`, `CredentialsAccepted`, `DialsItsRouter`; `JoinsOrEnds` |
| `MCWire` | handshakes, transports, messages and payloads side by side | ten properties, see below |
| `MCXbr` | patient markets, security modules, files and schemas side by side | six properties, see below |
| `LateAccept`, `ShimForgets`, `DetailedProgress` | one property each | violated: see section 6 |

`MCWire` and `MCXbr` are several components in one run, which have nothing to do with each other: a behaviour is one
of the component that the variable `part` names, and the others have not begun (`HandshakeOff`, `ExchangeOff`, `MarketOff`,
`FilesOff`: the initial state of one of their options) or have the value `Off` or `None`.

* `MCWire`, handshakes (`MCHandshake`): protocols, offers, versions and answers; URLs and origins;
  forwarders; an intermediary that meddles with each header; three connections to a server that
  takes one or two; a proxy. `HandshakeAgrees`: both ends agree on subprotocol, extensions and
  their parameters, and a client never takes an answer to another request for its own. `ServerKnows`: what the
  server believes of a client — peer, origin, path, protocols — is what the client asked for, and
  it never has more connections than it takes.
* `MCWire`, transports (`MCWampTransport`): both libraries at either end, limits below and above
  the messages, the longest frame, batches, closing by either side, refused and malformed messages,
  failed handshakes, subprotocols. `TransportDelivers`: messages arrive in order, whole, counted
  once. `TransportRefusesNothing`: none within the limits is refused.
* `MCWire`, messages (`MCWampMessages`): all classes with every pair of values in two attributes,
  and with one element altered. `Delivered`: what a session sends arrives as the same message, and
  the handler's details say what the options said. `AcceptedIsUsable`: an attribute that `parse`
  does not refuse is one that the constructor asserts, but for those that `Unchecked` names, and what
  `parse` accepts fits the handler's details and can be marshalled again.
* `MCWire`, payloads: keyrings that agree, partly agree, and change; two payloads that are told apart.
  `NothingIsMixedUp`: handlers and endpoints get what was given, encoded arguments only for their URI,
  and the caller sees the progressive results in their order, none twice. `AgreeingKeysWork`,
  `ErrorsArrive`, `CallsAreAnswered`.
* `MCXbr`: `ChannelsAgree`, `PaidIsUsable`, `SellerKeepsItsWord` of a market with two concurrent
  purchases; `SignaturesHold` for all 16 typed data and both key types; `FilesSurvive` with a
  program that ends at any step; `ValidatesExactly` for payloads that are and are not of their type.

*Why the bounds are enough.* Handles are boolean, and a second live call of the same kind already
shows the loss of the first: two are the interesting case. A second HTTP request behind the first
is what meets an outstanding `onConnect`; a third meets nothing new. Two requests are needed for
SUBSCRIBE to cross UNSUBSCRIBE of the same topic, three for another subscription to live through
it. One topic suffices because the broker's state is per topic, and one invocation because the session's is
per invocation. Two messages on a stream meet in the queue, in the window and in the parser's
buffer; a character of two octets meets every cut. A configuration of a component is dialled
the same in every attempt, so that configurations are combined with one retry only. A pair of attributes
is what `parse` and `marshal` relate at most, but for `args` and `kwargs`, which are such a pair. Two
purchases meet in a channel; three keys of a series are the one sold, the current one and the next.
What is proved needs no bound: `MaxId`, `MaxQueue`, `MaxStarts` and `MaxLive` are any numbers, and `Options` and `Unwraps`
any sets.

*Deadlock* is not checked: after the connection is lost, or when the bounds are reached, the
system really stops.

### Fairness

`WebSocketProtocol.Fairness`: weak fairness of each delayed call — the event loop runs what is scheduled and
not cancelled — and of `ConnectionLost` once we have closed or aborted the stream, which
both adapters report. Nothing is assumed of the peer or of the application: frames, futures and
application calls may never come. `WebSocketAsyncio` therefore shows that the timeouts *alone* end
a connection.

`WampRealm.FairSpec`: the conforming router handles what arrives and callees return (`Handle`,
`Answer`), the event loop delivers (`Deliver`), hooks finish (`Hooks`), and a transport
that is being closed is lost in the end (`Ending`) — which is what `WebSocketProtocol` shows of ours.
The application owes nothing.

`WebSocketStream.FairSpec`: the queue's delayed call runs, written octets arrive, and the parser's
loop, which is one callback in the code, goes on. `Component.FairSpec`: scheduled calls and delays
run, and a connection attempt gets on (connects or fails, is answered or lost). `XbrMarket.Fairness`:
awaited calls return.

## 4. Proofs

All theorems hold for every value of the constants that the `…Assumption` of the module admits
(the assumption says that options are booleans and excludes senseless combinations, e.g. a server
behind a proxy).

`WebSocketProtocolProofs` — for all options, both roles, both adapters:

* `TypeCorrect`: `Spec => []TypeOK`. It is not a formality: `live[t] \in Nat` fails when a call is
  cancelled twice, so the invariant has to relate handles and calls.
* `CleanIsEarned`: `Spec => []CleanMeansHandshake`.
* `OpeningAlwaysTimed`, `ClosingAlwaysTimed`: `Spec => []OpeningIsTimed`, `Spec => []ClosingIsTimed`.

The inductive invariant is `Safe == Sound /\ Timed`. `Sound` adds to the type that a handle refers to a
call still scheduled (the invariant behind `cancel`), that a connection in CLOSING has sent its
Close (behind `CleanMeansHandshake`: `onCloseFrame` sets `wasClean` there without sending
another), and the property itself. `Timed` is the two timing properties. There is one lemma per
method, in the order the methods call each other, and then one step per action.

The second half of the module assumes `HandlersInTime`: not a server whose
`onConnect` returns a future, which opens the connection whatever has become of it (that is `LateAccept`):

* `KeepaliveNeverStops` (`KeepaliveRuns`) and `LossIsTornDown` (`LostIsTornDown`).
* `ChannelImplemented`: the endpoint implements the safety half of `WebSocketChannel`, for synchronous handlers; the
  liveness half stays with `ImplementsChannel` of the run `MCWebSocket`.

`Safe` is strengthened by `Sane` (what the stream, the futures and the callbacks have to do with each other:
`isClosed` is resolved exactly in CLOSED, `onClose` was called exactly if the stream is gone) and `Pinging`
(exactly one of the auto-ping's two delayed calls is scheduled while the connection is open). Nearly every method only
`Keeps`: it leaves the connection as it is or ends it. That relation is transitive, so the lemma of a method follows from those of
the methods it calls; only opening the connection, handling a Pong and losing the stream need more.

`WebSocketHandshakeProofs` — any number of connections, clients and web servers, any options and answers of the
application, proxies and caches:

* `EndsAgree` (`HandshakeAgrees`), if nobody takes the outcome of the negotiation out of a response (`Untouched`). Where
  somebody does, the client believes in no subprotocol or extension and the server in one, and neither can know.
* `ServerKnowsItsClients` (`ServerKnows`), of which `ToldTheTruth` is what onConnect is told and `LimitHolds` the count. The
  hypotheses are `Released` (not drafts 11 and 12, section 6), `Addressed` (addresses are texts in a list) and `Limited` (limits are
  numbers).

`Good` says where each message under way comes from: a request at the server is the one its client made (`Outbound`), and a
response with an accept header, also one in a cache, was written by the one end that has read that key, which is still of that mind
unless its stream is lost (`From`). That is the point of the accept header: an intermediary may hand a response to another client, and
that client finds no accept of its own key in it. For the other two properties a step is one of three
(`Steps`): it connects a server's end (`Joins`), lets it read its client's request (`Reads`), or leaves what the server knows as it is
(`Goes`). `Seen` is what a server's end believes. For the limit, `Admitted` are the ends that are open or
will be when a future of onConnect is done; the last of *any* set of them to be admitted found all of them counted
(`WithinLimit`), which survives that some go and that the options change.

`WampSessionProofs` — for every router, both `Session` classes, any number of requests, topics
and invocations:

* `TypeCorrect`, `WaitsWithEntry` (`PendingIsOutstanding`) and `NeverAnsweredTwice`
  (`Spec => AnsweredOnce`, an action property).
* `LeavesArePaired` (`JoinsAndLeavesPaired`), assuming synchronous hooks: with `AsyncHooks` a
  WELCOME's future that finishes after the loss joins a session that nobody leaves (`LostIsDetached`
  in section 6).
* `LossIsAnswered`, assuming the older class: when the transport is lost no reply is waited for any
  more, unless the session itself failed the transport for a repeated registration id. Without
  the assumption it is false (`ShimForgets`).

The inductive invariant is `Good == Core /\ Emptied`. Beside the property, `Core` needs that ids not used yet have
neither entry nor reply (`Fresh`: a new request must not touch an old future), that a
synchronous WELCOME is finished in the session it began in (`Paired`), and that a failed transport is
deaf (so it fails once). `Emptied` says that the dictionaries of a lost session are empty: together
with "pending implies an entry" that is `LossIsAnswered`. `Keeps` relates the states before and after a
step and gives `AnsweredOnce`; every lemma about a method states `Good` and `Keeps`.

`WampRealmProofs` — for a router that keeps to the protocol, any number of requests:

* `RealmIsSession`: `RealmSpec => Spec`. What `WampSessionProofs` shows for any router holds of this one
  (`RealmWaitsWithEntry`, without the exception of a failed transport).
* `RealmLossIsAnswered`: `LostIsAnswered` for the older class, now without the exception for repeated ids.

`Routed` types the two sequences under way with `Questions` and `Answers`: a REGISTERED names its registration by the request
that made it, so that no id repeats. `Sure` says that every reply waited for has its entry.

The second half of the module — any number of topics, requests, invocations and messages under way, both `Session` classes:

* `RealmNoProtocolError` (`NoProtocolError`): the session never takes a message of such a router for a violation.
* `RealmAgrees` (`SessionAndRouterAgree`), for a router that does not take registrations back: the session only logs that it did
  (`onForcedUnregister`), and its dictionary keeps what the dealer has dropped.

Both assume `Prompt`: hooks are done at once (`~AsyncHooks`) and only calls and publications are cancelled. Neither can go: the
two rows about `NoProtocolError` in section 6 are the counterexamples.

The properties speak of what one message meets when it arrives, so the invariant `Agreement` says of *each* message under way
what it will meet. `Agreed(p, q)`, of a session p and a router q, has six parts:

* `Greeted`: the handshake. A WELCOME, CHALLENGE or ABORT is the first message under way and meets a session that has seen
  none; GOODBYE is the last one.
* `Matched`: each request under way and each answer has its entry, of the right kind, and no id is in two places among
  requests under way, calls in progress and answers under way.
* `Subscribed`, `Registered`: what the router knows of a topic (a registration) is what the session will have when it has read all that is
  under way. The queue is read as switches: SUBSCRIBED turns a topic on, UNSUBSCRIBED off, the last one decides (`Stays`).
  `Synced` says that each EVENT (INVOCATION) meets the topic (registration) turned on by then, and that what the router knows is on at
  the end; `Cleared` that nothing else is. With an empty queue that is `SubscriptionsAgree`. The topics an UNSUBSCRIBE
  under way is about are the exception (`Asked`): the session has no handler any more and keeps the key of its dictionary until the
  answer, which is why a late EVENT is no violation (the mutant `unsubscribeEarly` removes the key).
* `Invoked`: an invocation that the dealer waits for is in one place: under way, with the session, or answered under way.
* `Listed`: the session's own dictionaries fit each other; an object is in one dispatch list, once.

`Matched`, `Subscribed` and `Registered` bind only a session that is `Live`: it may still act on what it reads. There is a lemma for
each way a queue changes (`SyncedAppend`, `SyncedTail`, ...), from them one for each part (`…Says`, `…Read`, `…Tells`), then one for each
kind of message on either side (`RequestAgreed`; `SubscribedHeard`, `EventHeard`, ...), and one step per action.

`WampMessagesProofs` — any number of attributes given together, any timeouts, and any values in place of the elements that another
implementation garbles:

* `MessagesArrive` (`Delivered`), `AcceptedMessagesAreUsable` (`AcceptedIsUsable`).

The tables of a class are used through nine properties (`Tabled`), e.g. that a value left out is what the receiver makes of nothing
(`Leaving`), that what has been read can be written again (`Reading`) and that what is taken is asserted (`Checking`). One lemma per class looks at its tables; the rest is shown once, of a class that is
`Tabled` and a message that is `Sendable` (its values are what `parse` takes and its constructor leaves alone): such a message
passes the checks and is read as it was (`RoundTrip`). Made of options, it is `Sendable` because what is asked for is `Plausible`
(`MadeIsSendable`); made by `parse`, because it was checked (`AcceptedIsSendable`). `MessageInv` adds that the wire carries the message until it is garbled.
`NotCarried` stays a hypothesis: it names the losses of the code, and section 6 says where they come from.

`WampPayloadProofs` — any sessions, keyrings, exceptions, definitions and routers, any number of changes and progressive
results; all of them for exceptions as constructors make them (`Exceptional`):

* `ArgumentsAreKept` (`NothingIsMixedUp`), with no hypothesis on keys or routers; that progressive results are seen in
  their order, for any number of them.
* `EveryCallIsAnswered` (`CallsAreAnswered`), if errors can be encoded and have no keyword arguments named like a
  parameter of the constructors (`Answerable`): the two rows of section 6 are what happens else.
* `ExceptionsArrive` (`ErrorsArrive`), if no keyword argument is one that `ApplicationError` pops (`Passable`) and no program decorates
  `ApplicationError` itself (`OwnClasses`).
* `AgreeingSessionsWork` (`AgreeingKeysWork`), if the URIs of decoding failures are used for nothing else (`OwnErrors`).

`Intact` (`Shape`, `InOrder`, `Kept`) says how far the exchange has come and that each message, in the clear or encoded,
carries what was given. The order of progressive results needs an invariant of its own: `Ordered` says that the messages that come
back begin with the last n progressive results, that no other follows, and that each one seen has its place among those before.
A step makes n one more or one less, or adds what is no progressive result. `Waiting` says that the last message under way ends the call and can be made an exception of; `Sessions`,
`ClassesDefined` and `ErrorsDefined` what `define()` leaves in the two maps. `Erred` follows an exception from the endpoint to the
caller. `Undisturbed` is only about exchanges during which nothing changed: each message is in a box that the reader has.
`MCWire` ASSUMEs all hypotheses, so TLC evaluates them for the pairs of sessions that it checks.

`ComponentProofs` — any configurations, any number of transports, starts and connections:

* `NeverTwoLoops` (`OneThingUnderWay`): while a component is not done, exactly one of a check, a delay and a connection
  attempt is under way.
* `ScramIsMutual` (`JoinedIsMutual`): a session that joined with SCRAM has verified the router.
* `ConnectionsAreRight` (`DialsItsRouter`), for configurations that are `Straight`: without the three differences
  of the code from its documentation (C:227, 203-225, 170-178; section 6).
* `CredentialsAlwaysAccepted` (`CredentialsAccepted`): a router with the same secret accepts each answer to a challenge and
  the session accepts that router. It assumes that `None` is no signature (`NoneIsApart`) and `Complete` configurations:
  SCRAM is given a secret and an authid, which the code does not ask for, and the last authenticator has the authid that HELLO takes
  (W:1875).

The invariant is `Inv`: `Good` (`Sound` and `Loop`) and no attempt closed but swept. `Sound` keeps for each attempt that
its authenticators are `Honest` (their state fits what was asked and answered) and its join `Mutual`. An entry is a sequence of methods of
which only the last leaves a swept state, so the lemmas are about `Fine` states and about the frames `Tame` (the loop goes on)
and `Beside` (only attempt i changes). `Creds` says of each attempt which state its authenticators can be in at each phase.

`XbrProofs` — of the market, with any number of purchases, keys and prices:

* `ChannelsAlwaysAgree`, `PaidIsAlwaysUsable`, `SellerAlwaysKeepsItsWord`.

They assume `Patient` markets and that `None` is no purchase. The first is needed: `racingOptions` and `losingOptions` in
`MCXbr` break `ChannelsAgree`. The argument: the deal that the maker works on is the next of both channels or
of neither (`Paying`, `Earning`); a purchase that the seller sealed counts for it already; a key has
one buyer at a time and at most one receipt (`Calling`, `Bought`), and each key bought is in the ledger, whose keys the seller has in its
series (`Stocked`, `Settled`).

Of the files, with any number of starts and changes, any profiles and passwords, a program that ends at any step and a user who
meddles with the public file:

* `KeysAndProfilesSurvive` (`FilesSurvive`), if one program at a time loads the keys (`Alone`; `twoPrograms` of section 6 shows that
  it is needed) and `Nil`, the model's None, is no text and no file (`OwnValue`).

`OneKey` says what is in the two files at each place in `UserKey()`: a key is handed out only when the private file has it
(`HandedOut`), and that file is written only where nothing was handed out (`Placed`). `Kept` says that the
configuration file is what was last saved whenever nobody writes it, and what is saved has no None.

Of a security module, for any keys an application brings, any number it creates and deletes, and any typed data it signs:

* `SignaturesAlwaysHold` (`SignaturesHold`), if the keys created in the module are not of type cryptosign (`Guarded`;
  `cryptosignOptions` of section 6 shows that it is needed) and `Null` is no value and no certificate.

What is signed is a table, so the proof reads it once: every struct that can be encoded is `Regular`, each member of it is one
argument, of its name, and no argument is left out but the two securities of a market. Of a `Regular` struct a hash stands for
its type and the signed values (`HashesBind`). The invariant `SecurityInv` says that every signature on record is one of
those, that every file has such a certificate in it, and that what is unlocked was unlocked since it was opened.

The assumptions on the constants are in the modules: options are booleans and senseless combinations excluded
(`OptionsAssumption`), options are records of the stated type (`ComponentAssumption`, `MarketAssumption`), `None` is
none of the values it stands in for (`NoneAssumption`).

*Only model-checked*, with the reason:

* every liveness property and the refinement's fairness: fairness and ENABLED are out of the prover's reach;
* `ReceivedAsSent`, `NothingRefused`, `TransportDelivers`, `TransportRefusesNothing`: what comes out of octets that were cut
  and joined again is computed by folds over sequences, and needs induction over them;
* `ValidatesExactly`: recursive validation of nested payloads.

## 5. What is not modelled

* *Connection*: startTLS, `failHandshake`'s redirects beyond the code they send, traffic statistics,
  `WrappingWebSocketAdapter`; asyncio's cancellation of an endpoint's future in a later iteration.
* *Handshake*: headers the user adds, the content of status pages, data behind a header (the lifecycle
  has it), a client's `onConnect` that returns a future (the lifecycle has it), the SVS header.
* *Stream*: `maxFramePayloadSize`; `sendPong` of the application; `max_message_size` of
  permessage-deflate, which cuts a message short at the limit (`compress_deflate.py:654`);
  sizes that need a 16 or 64 bit length.
* *Session*: calls of the application back into the session from its callbacks, except a handler that
  unsubscribes itself; the wrap of request ids at 2^53 without a look at the requests outstanding
  (`util.py:239`); the kwargs of one EVENT, which all its handlers share (W:768); `type_check`,
  correlation attributes, the shapes a result may have.
* *Payloads*: `progress()` called after its endpoint has returned, when the result is sent already: nothing in the code
  keeps it from sending (W:1042).
* *Messages and serializers*: FlatBuffers; custom attributes of HELLO and WELCOME; the encodings
  themselves (JSON, MessagePack, CBOR, UBJSON).
* *Transports*: a session that closes its transport inside `onMessage`.
* *Component*: `run()`, signals, decorators, the older runners of `twisted/wamp.py` and `asyncio/wamp.py`.
* *Authentication*: key files, TOTP, key derivation (`derive_scram_credential`).
* *XBR*: the Ethereum node and its transactions, hashing, seed phrases, file formats, prompts, code
  generation (`map`, `render`), a stop between closing a key file and setting its mode (`Fills` does both), the seller's `close_channel` (it calls `recover` and `sign` with too
  few arguments and raises).
* NVX, the command line, the GUI and reactor glue have no protocol logic. Tests, examples and
  packaging are not part of the program.

## 6. Where the code and its documentation differ

Three differences are runs, each a finding in `PROJECT.json` with the sentence it contradicts:

| run | what happens |
|---|---|
| `LateAccept` | a server accepts a request whose connection is gone; the teardown then raises before `onClose` (P:3088) |
| `ShimForgets` | the newer `Session` class gives outstanding requests no error (W:1910) |
| `DetailedProgress` | with details asked for, a progressive result without keyword arguments raises in `onMessage` (W:914) |

The others are properties of the modules, or sets of options in the MC modules ("What each of the properties
that do not hold needs"), and TLC finds each violated when the configuration is changed as the second
column says.

| property | change | what happens |
|---|---|---|
| `ReplyIsTimed` | `WebSocketAsyncio.cfg`, Twisted | a client that replied to a Close waits for ever for the server to drop the stream (P:2031, against the comment at 790) |
| `OnOpenBeforeOnMessage`, `OnOpenMeansOpen` | `WebSocketAsyncio.cfg` | a client is OPEN before its `onConnect` has finished: `onMessage` before `onOpen`, `onOpen` after the end (P:3898, 3915) |
| `AwaitedPingWasSent` | `WebSocketAsyncio.cfg`, Twisted | in CLOSING a ping that was not written is waited for (P:1948) |
| `CleanStaysClean` | server, Twisted | the auto-ping's timeout after a finished closing handshake turns it unclean (P:873) |
| `CleanMeansServerDropped` | client, `FailByDrop = FALSE` | `wasClean` stays True when a second bad frame makes the client drop (P:937) |
| `NothingRefused` | `MCStream`, `tornOptions` | an auto-ping, a Pong or a Close is written into the middle of a streamed frame (P:2174) |
| `NothingRefused` | `MCStream`, `limitedOptions` | a message over the limit is refused after it went through the compressor, whose window the peer then does not have (P:2307) |
| `CloseIsLast` | `MCStream`, `preparedOptions` | `sendPreparedMessage` writes behind our Close (P:1385) |
| `CloseIsAnswered` | `MCStream`, `unansweredOptions` | queued octets, a Close reply among them, are dropped once the state is CLOSED (P:1316) |
| `NothingRefused` | `WebSocketHandshake`, `connectingOptions` | the subprotocols that `onConnecting` asks for are not those the answer is checked against (P:3866, against 3450) |
| `RequestSeen` | `WebSocketHandshake`, `draftOptions` | drafts 11 and 12 are version 8 to the server, which then reads another origin header |
| `LostIsDetached` | `WampSession`, `AsyncHooks` | a late `onWelcome` joins a session without a transport (W:590) |
| `NoProtocolError` | `WampRealm`, `AsyncHooks` | messages behind WELCOME meet an unfinished `onWelcome` and are "violations" (W:714) |
| `NoProtocolError` | `WampRealm`, `Cancelled = {"subscribe"}` | after a cancelled SUBSCRIBE the next EVENT is a "protocol violation" (W:822) |
| `RegistrationsAgree` | `WampRealm`, `Forced` | a registration taken back stays active (W:1236) |
| `EveryHandlerCalled` | `WampRealm` | a handler that unsubscribes itself makes the next one miss the event (W:745) |
| `LostIsAnswered` | `WampSession` | a repeated registration id loses the future of its REGISTER (W:1224) |
| `CallsAreAnswered` | `MCWampMessages`, `ownPairs` | an exception with the keyword arguments "error" or "self" makes a constructor raise that "never fails" (W:330): the caller is never answered |
| `CallsAreAnswered` | `MCWampMessages`, `oddPairs` | an error whose arguments cannot be encoded is not sent, and nothing else is |
| `AcceptedIsUsable` | `WampMessages`, `Unchecked` without one of its names | what `parse` lets through fails an assertion of the constructor, and the transport is closed for an internal error rather than the peer's: a `forward_for` with any list, since `valid` is set behind a `break` too (`message.py:1637`); an `enc_algo`, `enc_key` or `enc_serializer` that is false in Python (1590); text as payload of PUBLISH, CALL and RESULT (2442); what WELCOME says of the session (`Welcome.parse`) |
| `AcceptedIsUsable` | `WampMessages`, `NotCarried` without its line on text arguments | a PUBLISH with text for arguments and empty keyword arguments is accepted (2463); written again it is the arguments alone, which stand where a payload does, and is not what it was |
| `OptionsMakeMessages` | `MCWire`, `Timeouts` with "float" | `CallOptions` takes a float as timeout (`types.py:1058`), `Call` asserts an int |
| `NothingAfterRefusal` | `WampTransport`, `abortedOptions` | frames behind a refused one in the same chunk are delivered |
| `DialsItsRouter` | `MCComponent`, `clearOptions` | a `rss:` or `wss:` URL of a RawSocket transport is dialled without TLS (C:208) |
| `DialsItsRouter` | `MCComponent`, `unixOptions`, `barestOptions` | a `ws://unix` URL, an endpoint of a type alone: accepted by `Component()`, and raise when they are dialled |
| `StopIsFinal` | `MCComponent`, `stopOptions` | `stop()` while a connection is being made: its failure begins another delay (C:737) |
| `MainIsFinal` | `MCComponent`, `mainOptions` | a component whose main has returned connects again after an unclean end |
| `SuccessIsEarned` | `MCComponent`, `cleanOptions` | a connection that ends before its session has joined counts as success |
| `CredentialsAccepted` | `MCComponent`, `lastOptions` | HELLO has the authid of the last authenticator, or none (W:1875) |
| `ChannelsAgree` | `MCXbr`, `racingOptions`, `losingOptions` | a start that overlaps a purchase takes a balance that is stale when it is used |
| `WaitersEnd` | `MCXbr`, `waitingOptions`, with `MarketSpec` | a purchase that fails leaves its key False, and whoever waits for it sleeps for ever (`_buyer.py:420`, against 486 and 495) |
| `CreatingKeepsKeys` | `SecurityModule`, `deletingOptions` | a key created after one was deleted replaces another (`interfaces.py:1018`) |
| `SignsWhenUnlocked`, in `SignaturesHold` | `SecurityModule`, `cryptosignOptions` | `CryptosignKey.sign` does not look at the lock |
| `FilesSurvive` | `MCXbr`, `twoPrograms` as `Users` | two programs that start for the first time leave a pair that does not fit |

Reading the code for the models showed more, which the models have but no property is about:

* *Handshake*: `setProtocolOptions` resets `allowNullOrigin` on every call (P:3330); a server's check of the origin
  ignores scheme and port of its own; `create_url` refuses port 65535.
* *RawSocket*: on asyncio a message of exactly 2^24 octets is sent as a PING of length 0
  (`asyncio/rawsocket.py:112`), the reply to an unsupported serializer is never sent, and the id of a serializer
  does not tell batched from unbatched; Twisted's abort during a rejected handshake raises.
* *Serializers*: batched JSON drops silently what follows the last end mark.
* *Messages*: the check of `forward_for` accepts any list; Publish with kwargs and no args is refused by
  `parse`; HELLO `resume_session` and WELCOME `resumable` without a token can be constructed but not parsed;
  WELCOME drops `authmethod` without `authrole`; `TransportDetails.channel_id` is written raw and read
  as hex; `InvalidUriError` is no `ProtocolError`, so WebSocket closes with 1011.
* *Payloads*: errors are encoded with the key of the error's URI; a result that cannot be encoded is sent
  as it is; `KeyRing.rotate_key` calls a method that does not exist; a decorated subclass of a decorated class
  appends to its parent's URIs.
* *Component*: the retry count starts again only with main (C:799); `_stopping` is never reset; a
  native endpoint is refused on asyncio; a proxy is dialled without TLS.
* *XBR market*: on Twisted `on_rotate` sleeps with asyncio and breaks its loop, so that a later `stop()`
  raises and the seller stays STOPPING; a start that fails leaves it STARTING; `sell` does not compare the
  amount with the price; two concurrent purchases sign the same sequence number.
* *XBR data*: the typed data of `MemberUnregister` names a member its values lack; `securities` of `MarketCreate`
  is not signed; a certificate's `__eq__` recurses; a delegate certificate cannot be loaded;
  `parse_certificate_chain` verifies no signature.
* *Files and schemas*: a crash while the private key file is empty makes every later start fail; one in the loop
  that saves profiles loses them all; giving up at the prompts leaves an empty configuration for ever; a schema
  with a root table cannot be loaded; a text passes for any vector; of two types of the same name the first loaded wins.

## 7. Plan

Done: every component with protocol logic has a module, and the modules that interact are composed:
both ends of a stream, client and server of a handshake, session and router, two sessions over a transport,
a component with its authenticators, seller, market maker and buyer.

Proved is every safety property of the runs that is not computed by a fold or a recursion over sequences (section 4).

What could follow:

* `TransportDelivers` for frames as whole elements of the stream, with the cutting of octets left to TLC.
