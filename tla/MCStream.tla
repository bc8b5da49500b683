------------------------------ MODULE MCStream ------------------------------
(***************************************************************************)
(* Connections for WebSocketStream: each combines what meets in the code.  *)
(***************************************************************************)
EXTENDS WebSocketStream

plain ==
    [isServer |-> FALSE, masked |-> TRUE, pmce |-> None, autoFragmentSize |-> 0,
     maxMessagePayloadSize |-> 0, sync |-> FALSE, chop |-> FALSE, streaming |-> FALSE,
     prepared |-> FALSE, closes |-> FALSE, autoPing |-> FALSE,
     payloads |-> {<<"lead", "cont">>}, messages |-> 2, pings |-> 0]

\* Fragments, a limit that a message just meets, synched and chopped writes.
queueing ==
    [plain EXCEPT !.autoFragmentSize = 1, !.maxMessagePayloadSize = 2, !.sync = TRUE,
                  !.chop = TRUE, !.autoPing = TRUE, !.pings = 1, !.payloads = {<<"lead", "cont">>}]

\* Both ends close, from either side, with writes still queued.
closing ==
    {[plain EXCEPT !.isServer = s, !.masked = ~s, !.sync = TRUE, !.closes = TRUE,
                   !.payloads = {<<>>, <<"ascii">>}, !.pings = 1, !.messages = 1] :
     s \in BOOLEAN}

streams == [plain EXCEPT !.streaming = TRUE, !.sync = TRUE, !.pings = 1]

prepares == [plain EXCEPT !.prepared = TRUE, !.pings = 1]

\* Every outcome of a negotiation, in both directions.
codecs ==
    UNION {{[sender |-> compressor(p.client), receiver |-> decompressor(p.server)],
            [sender |-> compressor(p.server), receiver |-> decompressor(p.client)]} :
           p \in UNION {Processors(x) :
                        x \in {"permessage-deflate", "permessage-bzip2", "permessage-snappy"}}}

compressions == {[plain EXCEPT !.pmce = c, !.masked = FALSE] : c \in codecs}

\* With context takeover, all ways to send.
takeover ==
    {[plain EXCEPT !.pmce = c, !.masked = FALSE, !.prepared = TRUE, !.streaming = TRUE] :
     c \in {x \in codecs : /\ ~x.sender.resets /\ ~x.receiver.resets
                           /\ x.sender.size = x.receiver.size}}

\* What each of the properties that do not hold needs.
tornOptions == {[streams EXCEPT !.autoPing = TRUE]}
preparedOptions == {[prepares EXCEPT !.closes = TRUE]}
unansweredOptions == {[o EXCEPT !.chop = TRUE] : o \in closing}
limitedOptions == {[o EXCEPT !.maxMessagePayloadSize = 1, !.payloads = {<<"ascii">>, <<"ascii", "ascii">>}] : o \in compressions}

StreamOptions == {queueing, streams, prepares} \cup closing \cup compressions \cup takeover
=============================================================================
