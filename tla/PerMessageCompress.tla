------------------------- MODULE PerMessageCompress -------------------------
(***************************************************************************)
(* The per-message compression extensions of autobahn/websocket: what a    *)
(* client offers, what a server accepts, what the client makes of the      *)
(* response, and the compressor and decompressor that each end then keeps. *)
(*                                                                         *)
(* Parameters named client_... limit the client's compressor, those named  *)
(* server_... the server's.  A limit of 0 means that none was asked for.   *)
(* Sizes stands for the permissible window sizes of permessage-deflate and *)
(* the permissible levels of permessage-bzip2.                             *)
(***************************************************************************)
EXTENDS Naturals, SequencesExt

CONSTANTS
    Sizes,     \* the permissible sizes: a finite set of positive numbers
    None       \* Python's None: a value of its own

ASSUME SizesAssumption == Sizes # {} /\ Sizes \subseteq Nat \ {0}

Largest == CHOOSE s \in Sizes : \A t \in Sizes : t <= s

within(size, limit) == limit = 0 \/ size <= limit
override(value, default) == IF value = None THEN default ELSE value

\* A value an end may set for its own compressor, if it sets one.
ownTakeover(requested) == {None, TRUE} \cup (IF requested THEN {} ELSE {FALSE})
ownSize(limit) == {None} \cup {s \in Sizes : within(s, limit)}
sizesIf(supported) == {0} \cup (IF supported THEN Sizes ELSE {})
takeoverIf(supported) == {FALSE} \cup (IF supported THEN {TRUE} ELSE {})

-----------------------------------------------------------------------------
(* permessage-deflate                                                      *)

deflateOffers ==
    [accept_no_context_takeover : BOOLEAN, accept_max : BOOLEAN,
     request_no_context_takeover : BOOLEAN, request_max : {0} \cup Sizes]

\* The server takes client_no_context_takeover for granted.
deflateParseOffer(offer) == [offer EXCEPT !.accept_no_context_takeover = TRUE]

deflateOfferAccepts(offer) ==
    [request_no_context_takeover : takeoverIf(offer.accept_no_context_takeover),
     request_max : sizesIf(offer.accept_max),
     no_context_takeover : ownTakeover(offer.request_no_context_takeover),
     size : ownSize(offer.request_max)]

\* What the server's answer says, as the client parses it.
deflateResponse(offer, accept) ==
    [client_max |-> accept.request_max,
     client_no_context_takeover |-> accept.request_no_context_takeover,
     server_max |-> offer.request_max,
     server_no_context_takeover |-> offer.request_no_context_takeover]

deflateResponseAccepts(response) ==
    [no_context_takeover : ownTakeover(response.client_no_context_takeover),
     size : ownSize(response.client_max)]

deflate(is_server, serverReset, clientReset, serverMax, clientMax) ==
    [extension |-> "permessage-deflate", is_server |-> is_server,
     server_no_context_takeover |-> serverReset,
     client_no_context_takeover |-> clientReset,
     server_max |-> IF serverMax = 0 THEN Largest ELSE serverMax,
     client_max |-> IF clientMax = 0 THEN Largest ELSE clientMax]

deflateFromOfferAccept(offer, accept) ==
    deflate(TRUE,
            override(accept.no_context_takeover, offer.request_no_context_takeover),
            accept.request_no_context_takeover,
            override(accept.size, offer.request_max),
            accept.request_max)

deflateFromResponseAccept(response, accept) ==
    deflate(FALSE,
            response.server_no_context_takeover,
            override(accept.no_context_takeover, response.client_no_context_takeover),
            response.server_max,
            override(accept.size, response.client_max))

-----------------------------------------------------------------------------
(* permessage-bzip2: a compressor lives for one message, and its level is  *)
(* no concern of the decompressor, which reads blocks of every size.       *)

bzip2Offers == [accept_max : BOOLEAN, request_max : {0} \cup Sizes]

bzip2ParseOffer(offer) == offer

bzip2OfferAccepts(offer) ==
    [request_max : sizesIf(offer.accept_max), size : ownSize(offer.request_max)]

bzip2Response(offer, accept) ==
    [client_max |-> accept.request_max, server_max |-> offer.request_max]

bzip2ResponseAccepts(response) == [size : ownSize(response.client_max)]

bzip2(is_server, serverMax, clientMax) ==
    [extension |-> "permessage-bzip2", is_server |-> is_server,
     server_max |-> IF serverMax = 0 THEN Largest ELSE serverMax,
     client_max |-> IF clientMax = 0 THEN Largest ELSE clientMax]

bzip2FromOfferAccept(offer, accept) ==
    bzip2(TRUE, override(accept.size, offer.request_max), accept.request_max)

bzip2FromResponseAccept(response, accept) ==
    bzip2(FALSE, response.server_max, override(accept.size, response.client_max))

-----------------------------------------------------------------------------
(* permessage-snappy                                                       *)

snappyOffers == [accept_no_context_takeover : BOOLEAN, request_no_context_takeover : BOOLEAN]

snappyParseOffer(offer) == offer

snappyOfferAccepts(offer) ==
    [request_no_context_takeover : takeoverIf(offer.accept_no_context_takeover),
     no_context_takeover : ownTakeover(offer.request_no_context_takeover)]

snappyResponse(offer, accept) ==
    [client_no_context_takeover |-> accept.request_no_context_takeover,
     server_no_context_takeover |-> offer.request_no_context_takeover]

snappyResponseAccepts(response) ==
    [no_context_takeover : ownTakeover(response.client_no_context_takeover)]

snappy(is_server, serverReset, clientReset) ==
    [extension |-> "permessage-snappy", is_server |-> is_server,
     server_no_context_takeover |-> serverReset,
     client_no_context_takeover |-> clientReset]

snappyFromOfferAccept(offer, accept) ==
    snappy(TRUE, override(accept.no_context_takeover, offer.request_no_context_takeover),
           accept.request_no_context_takeover)

snappyFromResponseAccept(response, accept) ==
    snappy(FALSE, response.server_no_context_takeover,
           override(accept.no_context_takeover, response.client_no_context_takeover))

-----------------------------------------------------------------------------
(* The processors of the two ends after a handshake: every offer a client  *)
(* can make, every way to accept it and every way to take the response.    *)

negotiated(Offers, Parse(_), Accepts(_), Response(_, _), Takes(_), Server(_, _), Client(_, _)) ==
    UNION {LET offer == Parse(sent) IN
           UNION {LET response == Response(offer, a)
                  IN  {[server |-> Server(offer, a), client |-> Client(response, t)] :
                       t \in Takes(response)} :
                  a \in Accepts(offer)} :
           sent \in Offers}

Processors(extension) ==
    CASE extension = "permessage-deflate" ->
             negotiated(deflateOffers, deflateParseOffer, deflateOfferAccepts, deflateResponse,
                        deflateResponseAccepts, deflateFromOfferAccept, deflateFromResponseAccept)
      [] extension = "permessage-bzip2" ->
             negotiated(bzip2Offers, bzip2ParseOffer, bzip2OfferAccepts, bzip2Response,
                        bzip2ResponseAccepts, bzip2FromOfferAccept, bzip2FromResponseAccept)
      [] extension = "permessage-snappy" ->
             negotiated(snappyOffers, snappyParseOffer, snappyOfferAccepts, snappyResponse,
                        snappyResponseAccepts, snappyFromOfferAccept, snappyFromResponseAccept)

-----------------------------------------------------------------------------
(* Compressing and decompressing.  The libraries (zlib, bz2, snappy) are   *)
(* external: an octet is compressed against a window of the octets before  *)
(* it and is recovered by a decompressor that still has that window.       *)

resets(pmce, side) ==
    CASE pmce.extension = "permessage-bzip2" -> TRUE
      [] side = "server" -> pmce.server_no_context_takeover
      [] side = "client" -> pmce.client_no_context_takeover

windowSize(pmce, side) ==
    CASE pmce.extension # "permessage-deflate" -> Largest
      [] side = "server" -> pmce.server_max
      [] side = "client" -> pmce.client_max

side(pmce, isServer) ==
    LET s == IF isServer THEN "server" ELSE "client"
    IN  [resets |-> resets(pmce, s), size |-> windowSize(pmce, s)]

\* An end compresses by its own parameters and decompresses by its peer's.
compressor(pmce) == side(pmce, pmce.is_server)

\* Mutant: the decompressor looks at its own side's parameters.
decompressorOwn(pmce) == side(pmce, pmce.is_server)

decompressor(pmce) == side(pmce, ~pmce.is_server)

\* A codec in use is the window it has; that of permessage-bzip2 is given up
\* after each message, which comes to the same as a new one for each.
start_message(codec, window) == IF window = None \/ codec.resets THEN <<>> ELSE window

newest(octets, n) == SubSeq(octets, IF Len(octets) > n THEN Len(octets) - n + 1 ELSE 1, Len(octets))
slide(window, octet, size) == newest(Append(window, octet), size)

\* compress_message_data: the octets put out and the window they leave.
compress_message_data(codec, window, octets) ==
    FoldLeft(LAMBDA r, o : [out |-> Append(r.out, [of |-> o, window |-> r.window]),
                            window |-> slide(r.window, o, codec.size)],
             [out |-> <<>>, window |-> window], octets)

\* decompress_message_data: the octets recovered; the library raises on what it
\* cannot relate to its window.
decompress_message_data(codec, window, data) ==
    FoldLeft(LAMBDA r, z :
                IF r.raised \/ "window" \notin DOMAIN z \/ ~IsSuffix(z.window, r.window)
                THEN [r EXCEPT !.raised = TRUE]
                ELSE [r EXCEPT !.out = Append(@, z.of), !.window = slide(@, z.of, codec.size)],
             [out |-> <<>>, window |-> window, raised |-> FALSE], data)
=============================================================================
