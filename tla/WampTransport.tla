--------------------------- MODULE WampTransport ---------------------------
(***************************************************************************)
(* Two WAMP sessions over one connection: WAMP-over-RawSocket, in the      *)
(* versions for Twisted and for asyncio (twisted/rawsocket.py,             *)
(* asyncio/rawsocket.py), and WAMP-over-WebSocket (wamp/websocket.py).     *)
(*                                                                         *)
(* The stream is a sequence of octets and of abbreviations: the four       *)
(* octets of a RawSocket handshake are four, but the prefix of a frame is  *)
(* two, its first octet and the 24 bits behind it.  A WebSocket message is *)
(* one (WebSocketStream models how it is put together).                    *)
(***************************************************************************)
EXTENDS Serializer

CONSTANTS
    Options,       \* the connections considered: records, see OptionType
    LengthBits,    \* bits of the length in the prefix of a frame (24)
    MaxMessages    \* bound: strings the two sessions send (of all options)

\* What the instances assume of them.
TransportAssumption ==
    /\ LengthBits \in Nat \ {0}
    /\ \A o \in Options : o.messages.client + o.messages.server <= MaxMessages
    /\ \A o \in Options : o.max \in [{"client", "server"} -> 1 .. 2 ^ LengthBits]
    /\ Rated \in Nat \ {0}

Peers == {"client", "server"}
other(p) == IF p = "client" THEN "server" ELSE "client"
Libraries == {"twisted", "asyncio", "websocket"}
Types == [format : {"json", "msgpack", "cbor", "ubjson"}, batched : BOOLEAN]

OptionType ==
    [library : [Peers -> Libraries],
     max : [Peers -> Nat],            \* twisted: maxMessagePayloadSize
     wants : Seq(Types),              \* the client's serializers (RawSocket: its first)
     offers : Seq(Types),             \* the server's
     opens : [Peers -> {"yes", "noSession", "onOpenRaises"}],
     strict : BOOLEAN,                \* STRICT_PROTOCOL_NEGOTIATION
     greeting : {"own", "noMagic", "reserved"},  \* a foreign client's first octets
     sizes : SUBSET (Nat \ {0}), kinds : SUBSET Kinds,  \* of the messages sent
     messages : [Peers -> Nat],       \* bound: messages of each session
     closes : BOOLEAN,                \* the sessions close, and the network fails
     batches : BOOLEAN,               \* the client puts two messages in one string
     autoreset : Nat]                 \* rated messages between two reports; 0: none

VARIABLES
    opt,    \* the options of this connection
    side,   \* the two protocol instances
    wire,   \* octets on the way to each peer
    sent    \* messages each session has sent without an error, in order

vars == <<opt, side, wire, sent>>

NoSerializer == [none |-> TRUE]

is(q, library) == opt.library[q.peer] = library

-----------------------------------------------------------------------------
(* Octets of the handshake and of the prefix of a frame.                   *)

magic == [magic |-> TRUE]
wrong == [wrong |-> TRUE]
offer(exp, id) == [exp |-> exp, id |-> id]
reserved(n) == [reserved |-> n]
prefix(n) == <<[top |-> n \div 2 ^ LengthBits], [low |-> n % 2 ^ LengthBits]>>
request(types) == [request |-> types]
response(t) == [response |-> t]
string(payload) == [string |-> payload]

\* int(math.ceil(math.log(n, 2))); the code counts exponents from 9
exponent(n) == CHOOSE e \in 0 .. LengthBits : n <= 2 ^ e /\ (e = 0 \/ n > 2 ^ (e - 1))

announced(p) == IF opt.library[p] = "asyncio" THEN LengthBits ELSE exponent(opt.max[p])

-----------------------------------------------------------------------------
(* One protocol instance.                                                  *)

Side(p) ==
    [peer |-> p, transport |-> "up",    \* then closing or aborted, then lost
     unhandled |-> FALSE,               \* an exception went through to the event loop
     handshake |-> <<>>, complete |-> FALSE, session |-> "none",
     serializer |-> NoSerializer, maxSend |-> 0, buffer |-> <<>>, header |-> <<>>,
     writes |-> <<>>,                   \* octets written by the entry under way
     tried |-> 0,                       \* messages it has serialized
     received |-> <<>>,                 \* messages given to the session
     failed |-> FALSE]                  \* it has aborted the connection itself

up(q) == q.transport = "up"

\* Twisted still writes behind loseConnection(), asyncio does not behind close().
writable(q) == up(q) \/ (is(q, "twisted") /\ q.transport = "closing")

write(q, octets) == IF writable(q) THEN [q EXCEPT !.writes = @ \o octets] ELSE q

\* An exception the event loop logs; it then tears the connection down.
raise(q) == [q EXCEPT !.unhandled = TRUE, !.failed = TRUE, !.transport = "aborted"]

\* protocol_error: the transport is closed, what was written still goes out.
protocol_error(q) == [q EXCEPT !.failed = TRUE, !.transport = "closing"]

isOpen(q) == q.session = "open"

\* Without a session abort() raises TransportLost.
abort(q) == IF isOpen(q) THEN [q EXCEPT !.failed = TRUE, !.transport = "aborted"]
            ELSE raise(q)

\* _bailout: _fail_connection with failByDrop, no further frame is looked at.
bailout(q) == raise(q)

fail(q) == IF is(q, "websocket") THEN bailout(q) ELSE abort(q)

_on_handshake_complete(q) ==
    CASE opt.opens[q.peer] = "yes" -> [q EXCEPT !.session = "open"]
      [] opt.opens[q.peer] = "onOpenRaises" -> fail([q EXCEPT !.session = "open"])
      [] OTHER -> fail(q)

\* The session takes the message; or onMessage raises and the transport gives up.
deliver(q, m) ==
    CASE m.kind = "unwelcome" -> fail(q)
      [] m.kind = "cancelled" -> IF is(q, "twisted") THEN q ELSE raise(q)
      [] OTHER -> [q EXCEPT !.received = Append(@, m)]

\* The messages of one string, up to the first that raises.
stringReceived(q, payload) ==
    LET r == unserialize(q.serializer, payload)
        hear(x, m) == IF x.raised THEN x
                      ELSE [raised |-> m.kind \in {"unwelcome", "cancelled"}, q |-> deliver(x.q, m)]
    IN IF r.raised THEN fail(q)
       ELSE FoldLeft(hear, [raised |-> FALSE, q |-> [q EXCEPT !.serializer = r.s]], r.msgs).q

-----------------------------------------------------------------------------
(* Frames.  One iteration of the loop over the buffer; after an abort the  *)
(* loop goes on with what it has, after an exception it does not.          *)

\* What the first octets of a frame say; any other octets, read out of step, are
\* taken for a frame that nobody accepts.
typeOf(o) == IF "top" \in DOMAIN o THEN o.top ELSE 3
lengthOf(o) == IF "low" \in DOMAIN o THEN o.low ELSE 2 ^ LengthBits - 1

stuck(q) == q.unhandled \/ Len(q.buffer) < 2

drop(q, n) == [q EXCEPT !.buffer = SubSeq(@, n + 1, Len(@))]

\* Int32StringReceiver, with lengthLimitExceeded
frame_twisted(q) ==
    LET len == typeOf(q.buffer[1]) * 2 ^ LengthBits + lengthOf(q.buffer[2])
    IN IF len > 2 ^ announced(q.peer) THEN raise(q)
       ELSE IF Len(q.buffer) < 2 + len THEN q
       ELSE stringReceived(drop(q, 2 + len), SubSeq(q.buffer, 3, 2 + len))

\* Mutant: what is behind a frame in the buffer is dropped with it.
frame_dropsRest(q) ==
    LET type_ == IF q.header # <<>> THEN q.header[1].top ELSE typeOf(q.buffer[1])
        len   == IF q.header # <<>> THEN q.header[2].low ELSE lengthOf(q.buffer[2])
    IN IF q.header = <<>> /\ type_ > 2 THEN protocol_error(q)
       ELSE IF Len(q.buffer) < 2 + len THEN [q EXCEPT !.header = SubSeq(q.buffer, 1, 2)]
       ELSE IF type_ # 0 THEN raise(q)
       ELSE stringReceived([q EXCEPT !.header = <<>>, !.buffer = <<>>],
                           SubSeq(q.buffer, 3, 2 + len))

\* PrefixProtocol.data_received: pings and pongs raise NotImplementedError.  (A
\* length of 24 bits never exceeds max_length, "Frame too big" cannot happen.)
frame_asyncio(q) ==
    LET type_ == IF q.header # <<>> THEN q.header[1].top ELSE typeOf(q.buffer[1])
        len   == IF q.header # <<>> THEN q.header[2].low ELSE lengthOf(q.buffer[2])
    IN IF q.header = <<>> /\ type_ > 2 THEN protocol_error(q)
       ELSE IF Len(q.buffer) < 2 + len THEN [q EXCEPT !.header = SubSeq(q.buffer, 1, 2)]
       ELSE IF type_ # 0 THEN raise(q)
       ELSE stringReceived([drop(q, 2 + len) EXCEPT !.header = <<>>],
                           SubSeq(q.buffer, 3, 2 + len))

frame(q) == IF is(q, "twisted") THEN frame_twisted(q) ELSE frame_asyncio(q)

frames(q, data) ==
    FoldLeft(LAMBDA x, i : IF stuck(x) \/ x.transport = "closing" THEN x ELSE frame(x),
             [q EXCEPT !.buffer = @ \o data], [i \in 1 .. Len(q.buffer \o data) |-> i])

-----------------------------------------------------------------------------
(* The opening handshake of RawSocket.                                     *)

\* The factory keeps its serializers by id: of those that share one, the last.
known(types, id) == {i \in DOMAIN types : ids(types[i]) = id}
serializerOf(types, id) == Serializer(types[Max(known(types, id))], opt.autoreset)

hello(q, id) == write(q, <<magic, offer(announced(q.peer), id), reserved(0), reserved(0)>>)

\* Four octets are there: the server chooses, the client compares.  Twisted looks
\* at the magic octet first; the failing abort() ends it.
handshake_twisted(q) ==
    LET o == q.handshake[2]
        agreed == [q EXCEPT !.maxSend = 2 ^ o.exp, !.complete = TRUE]
    IN CASE q.handshake[1] # magic -> abort(q)
         [] q.handshake[1] = magic /\ q.peer = "server" ->
              IF known(opt.offers, o.id) = {} THEN abort(q)
              ELSE _on_handshake_complete(hello(
                       [agreed EXCEPT !.serializer = serializerOf(opt.offers, o.id)], o.id))
         [] OTHER -> IF o.id # ids(q.serializer.type) THEN abort(q)
                     ELSE _on_handshake_complete(agreed)

\* supports_serializer() aborts itself, so that the error reply is never sent.
handshake_asyncio(q) ==
    LET o == q.handshake[2]
        agreed == [q EXCEPT !.maxSend = 2 ^ o.exp, !.complete = TRUE]
    IN CASE q.handshake[1] # magic \/ q.handshake[3] # reserved(0) \/ q.handshake[4] # reserved(0)
              -> protocol_error(q)
         [] q.handshake[1] = magic /\ q.handshake[3] = reserved(0)
              /\ q.handshake[4] = reserved(0) /\ q.peer = "server" ->
              IF known(opt.offers, o.id) = {} THEN abort(q)
              ELSE _on_handshake_complete(hello(
                       [agreed EXCEPT !.serializer = serializerOf(opt.offers, o.id)], o.id))
         [] OTHER -> IF o.id # ids(q.serializer.type) THEN protocol_error(q)
                     ELSE _on_handshake_complete(agreed)

dataReceived(q, data) ==
    LET remaining == IF q.complete THEN 0 ELSE Min({4 - Len(q.handshake), Len(data)})
        h == [q EXCEPT !.handshake = @ \o SubSeq(data, 1, remaining)]
        rest == SubSeq(data, remaining + 1, Len(data))
        done == IF is(q, "twisted") THEN handshake_twisted(h) ELSE handshake_asyncio(h)
    IN IF q.complete THEN frames(q, data)
       ELSE IF Len(h.handshake) < 4 THEN h
       ELSE IF done.unhandled \/ ~done.complete THEN done
       ELSE frames(done, rest)

-----------------------------------------------------------------------------
(* WAMP-over-WebSocket: subprotocols wamp.2.<serializer id>, whole messages. *)

shared(wants, offers) == {i \in DOMAIN wants : wants[i] \in ToSet(offers)}

plainJson == type("json", FALSE)

\* WampWebSocketServerProtocol.onConnect, in the order of the client
onConnect_server(q, wants) ==
    LET both == shared(wants, opt.offers)
        t == IF both = {} THEN plainJson ELSE wants[Min(both)]
        chosen == [q EXCEPT !.serializer = Serializer(t, opt.autoreset), !.complete = TRUE]
    IN IF both = {} /\ (opt.strict \/ plainJson \notin ToSet(opt.offers)) THEN raise(q)
       ELSE _on_handshake_complete(write(chosen, <<response(IF both = {} THEN NoSerializer ELSE t)>>))

\* WampWebSocketClientProtocol.onConnect
onConnect_client(q, t) ==
    LET chosen == IF t = NoSerializer THEN plainJson ELSE t
    IN IF (t = NoSerializer /\ opt.strict) \/ chosen \notin ToSet(opt.wants) THEN raise(q)
       ELSE _on_handshake_complete(
                [q EXCEPT !.serializer = Serializer(chosen, opt.autoreset), !.complete = TRUE])

onMessage(q, o) ==
    CASE "request" \in DOMAIN o -> onConnect_server(q, o.request)
      [] "response" \in DOMAIN o -> onConnect_client(q, o.response)
      [] OTHER -> stringReceived(q, o.string)

messages(q, data) ==
    FoldLeft(LAMBDA x, o : IF x.unhandled THEN x ELSE onMessage(x, o), q, data)

-----------------------------------------------------------------------------
(* Steps.                                                                  *)

\* What the entry q wrote goes on the wire.
Put(q) ==
    /\ side' = [side EXCEPT ![q.peer] = [q EXCEPT !.writes = <<>>]]
    /\ wire' = [wire EXCEPT ![other(q.peer)] = @ \o q.writes]

\* connectionMade of the client, whose first octets may be another implementation's
connectionMade(q) ==
    LET t == opt.wants[1]
        s == [q EXCEPT !.serializer = Serializer(t, opt.autoreset)]
        octets == hello(s, ids(t)).writes
    IN IF is(q, "websocket") THEN write(q, <<request(opt.wants)>>)
       ELSE [s EXCEPT !.writes = CASE opt.greeting = "noMagic" -> <<wrong>> \o Tail(octets)
                                   [] opt.greeting = "reserved" -> SubSeq(octets, 1, 3) \o <<reserved(1)>>
                                   [] OTHER -> octets]

Init ==
    /\ opt \in Options
    /\ sent = [p \in Peers |-> <<>>]
    /\ LET q == connectionMade(Side("client")) IN
         /\ side = [client |-> [q EXCEPT !.writes = <<>>], server |-> Side("server")]
         /\ wire = [client |-> <<>>, server |-> q.writes]

\* The event loop reads any part of what has arrived.
DataReceived(p, n) ==
    /\ up(side[p]) /\ n \in 1 .. Len(wire[p])
    /\ LET q == [side[p] EXCEPT !.unhandled = FALSE]
           data == SubSeq(wire[p], 1, n)
           r == IF is(q, "websocket") THEN messages(q, data) ELSE dataReceived(q, data)
       IN /\ side' = [side EXCEPT ![p] = [r EXCEPT !.writes = <<>>]]
          /\ wire' = [wire EXCEPT ![p] = SubSeq(@, n + 1, Len(@)), ![other(p)] = @ \o r.writes]
    /\ UNCHANGED <<opt, sent>>

\* Mutant: the limit the peer asked for is not looked at.
fits_any(q, payload) == TRUE

\* Twisted raises PayloadExceededError, asyncio ValueError.
fits(q, payload) == is(q, "websocket") \/ Len(payload) <= q.maxSend

\* The session sends; another implementation may batch several messages in one string.
Send(p, batch) ==
    LET q == side[p]
        step(x, m) == LET r == serialize(x.s, m) IN [data |-> x.data \o r.data, s |-> r.s]
        r == FoldLeft(step, [data |-> <<>>, s |-> q.serializer], batch)
        p_ == [q EXCEPT !.serializer = r.s, !.tried = @ + Len(batch)]
    IN /\ isOpen(q) /\ q.tried < opt.messages[p]
       /\ IF fits(q, r.data)
          THEN /\ Put(write(p_, IF is(q, "websocket") THEN <<string(r.data)>>
                                ELSE prefix(Len(r.data)) \o r.data))
               /\ sent' = IF writable(q) THEN [sent EXCEPT ![p] = @ \o batch] ELSE sent
          ELSE Put(p_) /\ UNCHANGED sent
       /\ UNCHANGED opt

\* ITransport.close() and ITransport.abort() by the session
Close(p) ==
    /\ opt.closes /\ isOpen(side[p]) /\ up(side[p])
    /\ \E how \in {"closing", "aborted"} : side' = [side EXCEPT ![p].transport = how]
    /\ UNCHANGED <<opt, wire, sent>>

\* The connection ends for a side that has given it up, or after the octets of one
\* that has closed it; octets that were not read may be gone, on an error at any time.
ConnectionLost(p) ==
    /\ side[p].transport # "lost"
    /\ \/ opt.closes \/ ~up(side[p])
       \/ ~up(side[other(p)]) /\ (side[other(p)].transport = "closing" => wire[p] = <<>>)
    /\ side' = [side EXCEPT ![p].transport = "lost",
                            ![p].session = IF @ = "open" THEN "closed" ELSE @]
    /\ wire' = [wire EXCEPT ![p] = <<>>]
    /\ UNCHANGED <<opt, sent>>

\* The messages session p may send next.
Next_(p) == [nr : {side[p].tried + 1}, size : opt.sizes, kind : opt.kinds]
Batches(p) ==
    {<<m>> : m \in Next_(p)} \cup
    IF opt.batches /\ p = "client" THEN {<<m, [m EXCEPT !.nr = @ + 1]>> : m \in Next_(p)} ELSE {}

Next ==
    \E p \in Peers :
        \/ \E n \in 1 .. Len(wire[p]) : DataReceived(p, n)
        \/ \E batch \in Batches(p) : Send(p, batch)
        \/ Close(p)
        \/ ConnectionLost(p)

Spec == Init /\ [][Next]_vars

-----------------------------------------------------------------------------
(* Properties                                                              *)

\* However the stream is cut, a session is given the messages the other one sent:
\* each once, in their order, and none is left out as long as its side has not
\* failed the connection.  (A CancelledError under Twisted skips what is behind it
\* in its string.)
Delivered ==
    \A p \in Peers :
        LET heard == side[p].received
            said == SelectSeq(sent[other(p)], LAMBDA m : m.kind # "cancelled") IN
        /\ ~side[p].failed => IsPrefix(heard, said)
        /\ \A i, j \in DOMAIN heard : i < j => heard[i].nr < heard[j].nr
        /\ \A i \in DOMAIN heard : heard[i] \in ToSet(said)

\* What the two ends agreed on is enough for what they send: between sessions
\* that open and do not object, neither side ever refuses what the other wrote.
\* Left out, and refused by the code: a client and a server without a serializer
\* in common, a RawSocket client that batches (the id does not tell), and a frame
\* of 2^24 octets to asyncio, whose length field wraps.
Agreeing ==
    /\ opt.greeting = "own" /\ opt.kinds = {"accepted"}
    /\ \A p \in Peers : opt.opens[p] = "yes"
Wraps(p) ==
    opt.library[p] = "asyncio" /\ 2 ^ LengthBits \in opt.sizes
InCommon ==
    IF opt.library["client"] = "websocket"
    THEN shared(opt.wants, opt.offers) # {}
    ELSE known(opt.offers, ids(opt.wants[1])) # {} /\ ~opt.wants[1].batched
NothingRefused ==
    Agreeing /\ InCommon => \A p \in Peers : ~Wraps(p) => ~side[p].failed

\* Per-session statistics: a message that a serializer wrote or read is in exactly
\* one report or still counted, whatever autoreset does in between.
Counted ==
    \A p \in Peers :
        side[p].serializer # NoSerializer /\ opt.kinds = {"accepted"} =>
            total(side[p].serializer).messages = side[p].tried + Len(side[p].received)

\* Once a side has refused a message its session hears none of those behind it.
NothingAfterRefusal ==
    \A p \in Peers : IsPrefix(side[p].received,
                              SelectSeq(sent[other(p)], LAMBDA m : m.kind # "cancelled"))
=============================================================================
