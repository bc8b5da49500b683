--------------------------- MODULE MCWampTransport ---------------------------
(***************************************************************************)
(* Connections for WampTransport: each combines what meets in the code.    *)
(* With LengthBits = 2 a RawSocket frame has at most 4 octets.             *)
(***************************************************************************)
EXTENDS WampTransport

json == type("json", FALSE)
jsons == type("json", TRUE)
cbor == type("cbor", FALSE)
cbors == type("cbor", TRUE)

both(x) == [p \in Peers |-> x]

plain ==
    [library |-> both("twisted"), max |-> both(4), wants |-> <<json>>,
     offers |-> defaultSerializers(<<"cbor", "json">>, TRUE), opens |-> both("yes"),
     strict |-> TRUE, greeting |-> "own", sizes |-> {1}, kinds |-> {"accepted"},
     messages |-> [client |-> 3, server |-> 0], closes |-> FALSE,
     batches |-> FALSE, autoreset |-> 0]

\* All pairs of libraries, with limits of 2 and 4 octets and messages on both sides of them.
limits ==
    {[plain EXCEPT !.library = [client |-> c, server |-> s],
                   !.max = [client |-> 3, server |-> 2], !.sizes = {1, 3}, !.messages = n] :
     n \in {[client |-> 3, server |-> 0], [client |-> 1, server |-> 2]},
     c, s \in {"twisted", "asyncio"}}

\* The largest frame, which asyncio takes for a ping.
largest ==
    {[plain EXCEPT !.library = [client |-> c, server |-> s], !.sizes = {4}] :
     c, s \in {"twisted", "asyncio"}}

\* Two messages in one string, in both formats, and statistics with a report each.
batching ==
    {[plain EXCEPT !.library = both("twisted"), !.wants = <<t>>, !.offers = <<t>>,
                   !.batches = TRUE, !.messages = [client |-> 3, server |-> 1], !.autoreset = 2, !.kinds = k] :
     t \in {jsons, cbors}, k \in {{"accepted"}, {"accepted", "malformed"}}}

\* Messages both ways, while either side closes and the network fails.
closing ==
    {[plain EXCEPT !.library = [client |-> c, server |-> s], !.messages = both(2),
                   !.closes = TRUE] : c, s \in {"twisted", "asyncio"}}

\* A session that does not take every message.
unwelcome ==
    {[plain EXCEPT !.library = both(l), !.kinds = {"accepted", k}] :
     l \in Libraries, k \in {"unwelcome", "cancelled", "malformed"}}

\* Handshakes that fail, on either side.
unagreed ==
    {[plain EXCEPT !.library = both(l), !.greeting = g, !.offers = o, !.opens = s] :
     l \in {"twisted", "asyncio"}, g \in {"own", "noMagic", "reserved"},
     o \in {<<cbor>>, <<json>>},
     s \in {both("yes"), [client |-> "noSession", server |-> "onOpenRaises"]}}

\* The id of a RawSocket serializer does not tell whether it batches.
batchless == {[plain EXCEPT !.wants = <<jsons>>]}

\* Subprotocols, in the order of the client, with and without one in common.
subprotocols ==
    {[plain EXCEPT !.library = both("websocket"), !.wants = w, !.offers = o, !.strict = s,
                   !.autoreset = 1, !.messages = both(2), !.closes = TRUE] :
     w \in {<<cbors, json>>, <<jsons>>}, o \in {<<json, cbors>>, <<cbor>>}, s \in BOOLEAN}

TransportOptions ==
    UNION {limits, largest, batching, closing, unwelcome, unagreed, batchless, subprotocols}

\* What the property that does not hold needs.
abortedOptions == {o \in unwelcome : o.library = both("twisted") /\ "unwelcome" \in o.kinds}
=============================================================================
