----------------------------- MODULE WampErrors -----------------------------
(***************************************************************************)
(* Exceptions as they travel in ERROR messages (autobahn/wamp/protocol.py: *)
(* BaseSession; the error decorator of uri.py and ApplicationError of      *)
(* exception.py).  A session is a record with the maps define() fills and  *)
(* its payload codec, a keyring or NoRing.  Keyword arguments are a        *)
(* function from names.                                                    *)
(***************************************************************************)
EXTENDS KeyRing, FiniteSets

NoRing == [is |-> "none"]
error(name) == <<"wamp", "error", name>>
none == <<>>      \* no keyword arguments: the empty function

\* What a class's constructor takes, and whether it keeps keyword arguments.
ClassType == [args : BOOLEAN, kwargs : BOOLEAN, keeps : BOOLEAN, parent : STRING]

\* SerializationError and PayloadExceededError are plain exceptions.
builtin == [args |-> TRUE, kwargs |-> FALSE, keeps |-> FALSE, parent |-> "Exception"]
Builtins == [c \in {"SerializationError", "PayloadExceededError", "RuntimeError"} |-> builtin]

put(f, k, v) == [n \in DOMAIN f \cup {k} |-> IF n = k THEN v ELSE f[n]]

-----------------------------------------------------------------------------
(* Classes and URIs.                                                       *)

\* hasattr finds the list of a base class, and a decorated subclass of a
\* decorated class adds to that.
owner(wampuris, classes, c) ==
    LET p == classes[c].parent
    IN  IF c \in DOMAIN wampuris THEN c
        ELSE IF p \in DOMAIN wampuris THEN p ELSE "nobody"

decorate(wampuris, classes, c, uri) ==
    LET o == owner(wampuris, classes, c)
    IN  IF o = "nobody" THEN put(wampuris, c, <<uri>>) ELSE [wampuris EXCEPT ![o] = Append(@, uri)]

\* The decorators run in the order of the program, d[i] is <<class, URI>>.
decorated(classes, d) == FoldLeft(LAMBDA w, e : decorate(w, classes, e[1], e[2]), <<>>, d)

_uri_to_ecls ==
    put(put(<<>>, error("invalid_payload"), "SerializationError"),
        error("payload_size_exceeded"), "PayloadExceededError")

\* define(c), or define(c, uri).  Raises for a class that is decorated with an
\* explicit URI, and for one that is not without.
define(s, wampuris, classes, c, uri) ==
    LET o == owner(wampuris, classes, c)
    IN  IF uri = <<>> /\ o # "nobody"
        THEN [s EXCEPT !.ecls = put(@, c, wampuris[o]), !.uris = put(@, wampuris[o][1], c)]
        ELSE IF uri # <<>> /\ o = "nobody"
        THEN [s EXCEPT !.ecls = put(@, c, <<uri>>), !.uris = put(@, uri, c)]
        ELSE s

-----------------------------------------------------------------------------
(* Exceptions.                                                             *)

\* Keywords that are the constructor's own parameters, and those it takes away.
Own == {"self", "error"}
Popped == {"enc_algo", "callee", "callee_authid", "callee_authrole", "forward_for"}

exception(class, uri, payload) == [is |-> "exception", class |-> class, uri |-> uri, payload |-> payload]

without(kwargs, names) == [k \in DOMAIN kwargs \ names |-> kwargs[k]]

ApplicationError(uri, payload) ==
    IF DOMAIN payload.kwargs \cap Own # {} THEN Raised
    ELSE exception("ApplicationError", uri,
                   [payload EXCEPT !.kwargs = without(@, Popped)])

\* An exception has its positional arguments whether its class keeps them or not.
construct(classes, c, payload) ==
    LET class == classes[c]
    IN  IF (payload.args # <<>> /\ ~class.args) \/ (payload.kwargs # none /\ ~class.kwargs) THEN Raised
        ELSE exception(c, <<>>, IF class.keeps THEN payload ELSE [payload EXCEPT !.kwargs = none])

text == [args |-> <<"text">>, kwargs |-> none]

\* A class that is not in the map is a runtime error to the caller.
error_uri(s, exc) ==
    IF exc.uri # <<>> THEN exc.uri
    ELSE IF exc.class \in DOMAIN s.ecls THEN s.ecls[exc.class][1] ELSE error("runtime_error")

\* What encode() raises is raised.
_message_from_exception(s, exc, tb) ==
    LET uri == error_uri(s, exc)
        payload == IF tb THEN [exc.payload EXCEPT !.kwargs = put(@, "traceback", "lines")]
                   ELSE exc.payload
        encoded == IF s.codec = NoRing THEN Clear ELSE encode(s.codec, FALSE, uri, payload)
    IN  IF encoded = Raised THEN Raised
        ELSE [type |-> "Error", uri |-> uri, enc |-> encoded,
              payload |-> IF encoded = Clear THEN payload ELSE [args |-> <<>>, kwargs |-> none]]

\* The payload of a message whose URI the receiver takes to be uri: as it is,
\* decoded, or the ApplicationError that says why not.
received(s, is_originating, uri, msg) ==
    LET failed(name) == ApplicationError(error(name), text)
        decoded == decode(s.codec, is_originating, uri, msg.enc)
    IN  IF msg.enc = Clear THEN [is |-> "payload", payload |-> msg.payload]
        ELSE IF s.codec = NoRing THEN failed("no_payload_codec")
        ELSE IF decoded = Raised THEN failed("decrypt_error")
        ELSE IF decoded.uri # uri THEN failed("trusted_uri_mismatch")
        ELSE [is |-> "payload", payload |-> decoded.payload]

\* Mutant: the arguments are dropped when there are keyword arguments.
_exception_from_message_kwargsOnly(s, classes, msg) ==
    LET r == received(s, TRUE, msg.uri, msg)
        payload == IF r.payload.kwargs # none THEN [r.payload EXCEPT !.args = <<>>] ELSE r.payload
        exc == IF msg.uri \in DOMAIN s.uris THEN construct(classes, s.uris[msg.uri], payload) ELSE Raised
    IN  IF r.is = "exception" THEN r
        ELSE IF exc # Raised THEN exc ELSE ApplicationError(msg.uri, r.payload)

\* Mutant: what the constructor of the class raises is not caught.
_exception_from_message_unguarded(s, classes, msg) ==
    LET r == received(s, TRUE, msg.uri, msg)
    IN  IF r.is = "exception" THEN r
        ELSE IF msg.uri \in DOMAIN s.uris THEN construct(classes, s.uris[msg.uri], r.payload)
        ELSE ApplicationError(msg.uri, r.payload)

\* The class of the URI, or ApplicationError when there is none or its constructor
\* does not take the arguments (onUserError is told).  The message's algorithm, its
\* callee and its forwarders, which are noted on the exception, are left out.
_exception_from_message(s, classes, msg) ==
    LET r == received(s, TRUE, msg.uri, msg)
        exc == IF msg.uri \in DOMAIN s.uris THEN construct(classes, s.uris[msg.uri], r.payload) ELSE Raised
    IN  IF r.is = "exception" THEN r
        ELSE IF exc # Raised THEN exc ELSE ApplicationError(msg.uri, r.payload)
=============================================================================
