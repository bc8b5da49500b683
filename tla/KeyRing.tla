------------------------------ MODULE KeyRing ------------------------------
(***************************************************************************)
(* The keyring of WAMP-cryptobox (autobahn/wamp/cryptobox.py): keys for    *)
(* URIs and their prefixes, and the encoding of payloads with them.  What  *)
(* a box encrypts, the box of the same two keys decrypts, and no other.    *)
(***************************************************************************)
EXTENDS Naturals, Sequences, SequencesExt, TLC

NoKey == [is |-> "none"]
NoBox == [is |-> "none"]
Raised == [is |-> "raised"]

\* A key of an originator and a responder; given are the parts a holder has.
Key(pair, given) ==
    LET priv(role) == (role \o "_priv") \in given
        known(role) == priv(role) \/ (role \o "_pub") \in given
    IN  IF ~known("originator") \/ ~known("responder") THEN Raised
        ELSE IF ~priv("originator") /\ ~priv("responder") THEN Raised
        ELSE [is |-> "key",
              originator_box |-> IF priv("originator") THEN [is |-> pair] ELSE NoBox,
              responder_box |-> IF priv("responder") THEN [is |-> pair] ELSE NoBox]

\* A single key is a key for both roles.
BothRoles(pair) == Key(pair, {"originator_priv", "responder_priv"})

EmptyRing == [uri_to_key |-> <<>>, default_key |-> NoKey]

\* The empty URI is the default's.
set_key(ring, uri, key) ==
    IF uri = <<>> THEN [ring EXCEPT !.default_key = key]
    ELSE LET others == [u \in DOMAIN ring.uri_to_key \ {uri} |-> ring.uri_to_key[u]]
         IN  [ring EXCEPT !.uri_to_key = IF key = NoKey THEN others ELSE others @@ uri :> key]

\* The key of the longest prefix, or else the default one.
_get_box(ring, is_originating, uri) ==
    LET prefixes == {u \in DOMAIN ring.uri_to_key : IsPrefix(u, uri)}
        longest == CHOOSE u \in prefixes : \A v \in prefixes : Len(v) <= Len(u)
        key == IF prefixes # {} THEN ring.uri_to_key[longest] ELSE ring.default_key
    IN  IF key = NoKey THEN NoBox
        ELSE IF is_originating THEN key.originator_box ELSE key.responder_box

\* What JSON cannot express cannot be encoded.
serializable(payload) == "odd" \notin ToSet(payload.args)

Clear == [is |-> "clear"]

\* Without a box the payload travels in the clear.
encode(ring, is_originating, uri, payload) ==
    LET box == _get_box(ring, is_originating, uri)
    IN  IF box = NoBox THEN Clear
        ELSE IF ~serializable(payload) THEN Raised
        ELSE [is |-> "encoded", box |-> box, uri |-> uri, payload |-> payload]

decode(ring, is_originating, uri, encoded) ==
    LET box == _get_box(ring, is_originating, uri)
    IN  IF box = NoBox \/ box # encoded.box THEN Raised
        ELSE [is |-> "decoded", uri |-> encoded.uri, payload |-> encoded.payload]
=============================================================================
