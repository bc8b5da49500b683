---------------------------- MODULE WampPayload ----------------------------
(***************************************************************************)
(* What becomes of the arguments of a call, its progressive results, its   *)
(* result or error, and of a publication, between two sessions             *)
(* (autobahn/wamp/protocol.py) that may each have a payload codec, through *)
(* a router that hands them on.  One call or publication is followed; in   *)
(* the meantime codecs and keys change and exceptions are defined.         *)
(***************************************************************************)
EXTENDS WampErrors

CONSTANTS
    Pairs,        \* the pairs of sessions considered: records with the fields
                  \*   rings       the keyring of each party, or NoRing
                  \*   codecs, keys  what either may change to: keyrings, and
                  \*               pairs of a URI and a key
                  \*   classes, decorations  the exceptions of the program
                  \*   defines     the arguments define() may get: <<class, URI>>
                  \*   uris, payloads, exceptions  what there is to call and
                  \*               publish, to give and return, and to raise
                  \*   traceback_app, misroutes, progress, details  Booleans
    MaxChanges,   \* bound: changes of keys, codecs and definitions
    MaxProgress   \* bound: progressive results

VARIABLES
    setup,
    session,   \* the two sessions
    x          \* the call or publication

exchangeVars == <<setup, session, x>>

Parties == {"originator", "responder"}
Classes == setup.classes @@ Builtins
Absent == [is |-> "none"]

\* out, in: the message on its way to the router and from there; back: those to
\* the originator; end: what the endpoint ended with; told: what the caller got;
\* seen: the progressive results it got.  stable: nothing has changed since.
\* raised: onMessage raised, for which the transport is closed.
idle ==
    [is |-> "idle", changes |-> 0, stable |-> TRUE, uri |-> <<>>, payload |-> Absent, out |-> Absent,
     in |-> Absent, invocation |-> Absent, invoked |-> Absent, progressed |-> <<>>, back |-> <<>>,
     end |-> Absent, told |-> Absent, seen |-> <<>>, raised |-> FALSE]

ExchangeInit ==
    /\ setup \in Pairs
    /\ session = [p \in Parties |-> [ecls |-> <<>>, uris |-> _uri_to_ecls, codec |-> setup.rings[p]]]
    /\ x = idle

-----------------------------------------------------------------------------
(* The application changes its session.                                    *)

Changed(p, s) ==
    /\ x.changes < MaxChanges /\ s # session[p]
    /\ session' = [session EXCEPT ![p] = s]
    /\ x' = [x EXCEPT !.changes = @ + 1, !.stable = x.is = "idle"]
    /\ UNCHANGED setup

Define(p) ==
    \E d \in setup.defines :
        Changed(p, define(session[p], decorated(Classes, setup.decorations), Classes, d[1], d[2]))

SetKey(p) ==
    /\ session[p].codec # NoRing
    /\ \E k \in setup.keys : Changed(p, [session[p] EXCEPT !.codec = set_key(@, k[1], k[2])])

set_payload_codec(p) ==
    \E ring \in setup.codecs : Changed(p, [session[p] EXCEPT !.codec = ring])

-----------------------------------------------------------------------------
(* The originator's request, and what the responder makes of it.           *)

Message(type, uri, enc, payload) ==
    [type |-> type, uri |-> uri, enc |-> enc,
     payload |-> IF enc = Clear THEN payload ELSE [args |-> <<>>, kwargs |-> none]]

encodedFor(p, uri, payload) ==
    IF session[p].codec = NoRing THEN Clear
    ELSE encode(session[p].codec, p = "originator", uri, payload)

sendable(enc, payload) == enc # Raised /\ (enc = Clear => serializable(payload))

\* call() and publish() raise what the codec or the transport raises, and leave
\* no request behind.
Request(kind, type) ==
    /\ x.is = "idle"
    /\ \E uri \in setup.uris, payload \in setup.payloads :
        LET enc == encodedFor("originator", uri, payload)
        IN  /\ sendable(enc, payload)
            /\ x' = [x EXCEPT !.is = kind, !.uri = uri, !.payload = payload,
                              !.out = Message(type, uri, enc, payload)]
    /\ UNCHANGED <<setup, session>>

call == Request("call", "Invocation")
publish == Request("publication", "Event")

\* The router names the procedure or topic, and may have taken it for another.
Route ==
    /\ x.out # Absent
    /\ \E uri \in IF setup.misroutes THEN setup.uris ELSE {x.uri} :
        x' = [x EXCEPT !.out = Absent, !.in = [x.out EXCEPT !.uri = uri]]
    /\ UNCHANGED <<setup, session>>

\* Mutant: the URI within the payload is not looked at.
receivedRequest_anyUri ==
    LET s == session["responder"]
        decoded == decode(s.codec, FALSE, x.in.uri, x.in.enc)
    IN  IF x.in.enc = Clear \/ s.codec = NoRing THEN received(s, FALSE, x.in.uri, x.in)
        ELSE IF decoded = Raised THEN ApplicationError(error("decrypt_error"), text)
        ELSE [is |-> "payload", payload |-> decoded.payload]

receivedRequest == received(session["responder"], FALSE, x.in.uri, x.in)

\* What a handler or an endpoint is called with, for the URI the router named.
Called(r) ==
    [is |-> "called", payload |-> r.payload, uri |-> x.in.uri, encoded |-> x.in.enc # Clear]

OnInvocation ==
    /\ x.in # Absent /\ x.in.type = "Invocation"
    /\ LET r == receivedRequest
       IN  x' = IF r.is = "exception"
                THEN [x EXCEPT !.in = Absent, !.end = r,
                               !.back = <<_message_from_exception(session["responder"], r, FALSE)>>]
                ELSE [x EXCEPT !.in = Absent, !.invoked = Called(r),
                               !.invocation = [is |-> "invocation", uri |-> x.in.uri,
                                               encoded |-> x.in.enc # Clear]]
    /\ UNCHANGED <<setup, session>>

\* An event that cannot be decoded is ignored.
OnEvent ==
    /\ x.in # Absent /\ x.in.type = "Event"
    /\ x' = [x EXCEPT !.in = Absent,
                      !.invoked = IF receivedRequest.is = "payload" THEN Called(receivedRequest) ELSE Absent]
    /\ UNCHANGED <<setup, session>>

-----------------------------------------------------------------------------
(* The endpoint.                                                           *)

invalid_payload == Message("Error", error("invalid_payload"), Clear, text)

\* progress() raises to the endpoint what the codec or the transport raises.
Progress ==
    /\ setup.progress /\ x.invocation # Absent /\ Len(x.progressed) < MaxProgress
    /\ \E payload \in setup.payloads :
        LET enc == IF x.invocation.encoded THEN encodedFor("responder", x.invocation.uri, payload)
                   ELSE Clear
        IN  /\ x.invocation.encoded => session["responder"].codec # NoRing
            /\ sendable(enc, payload)
            /\ x' = [x EXCEPT !.progressed = Append(@, payload),
                              !.back = Append(@, Message("Progress", x.uri, enc, payload))]
    /\ UNCHANGED <<setup, session>>

\* A result that cannot be encoded is sent as it is.
Returns ==
    /\ x.invocation # Absent
    /\ \E payload \in setup.payloads :
        LET attempt == IF x.invocation.encoded
                       THEN encodedFor("responder", x.invocation.uri, payload) ELSE Clear
            enc == IF attempt = Raised THEN Clear ELSE attempt
        IN  x' = [x EXCEPT !.invocation = Absent, !.end = [is |-> "payload", payload |-> payload],
                           !.back = Append(@, IF sendable(enc, payload)
                                              THEN Message("Result", x.uri, enc, payload)
                                              ELSE invalid_payload)]
    /\ UNCHANGED <<setup, session>>

\* What raises while the error is being encoded leaves the call without an answer.
Raises ==
    /\ x.invocation # Absent
    /\ \E exc \in setup.exceptions :
        LET m == _message_from_exception(session["responder"], exc, setup.traceback_app)
        IN  x' = [x EXCEPT !.invocation = Absent, !.end = exc,
                           !.back = IF m = Raised THEN @
                                    ELSE Append(@, IF sendable(m.enc, m.payload) THEN m
                                                   ELSE invalid_payload)]
    /\ UNCHANGED <<setup, session>>

-----------------------------------------------------------------------------
(* The originator gets its answers, for the URI it called.                 *)

Answered(type) == x.back # <<>> /\ Head(x.back).type = type /\ ~x.raised

\* Mutant: decoded with the box of a responder.
receivedAnswer_asResponder == received(session["originator"], FALSE, x.uri, Head(x.back))

receivedAnswer == received(session["originator"], TRUE, x.uri, Head(x.back))

\* With details the arguments are unpacked although there may be none: a message
\* without keyword arguments has None for them.  Those that cannot be decoded go
\* to onUserError.
OnProgress ==
    /\ Answered("Progress")
    /\ LET r == receivedAnswer
           next == [x EXCEPT !.back = Tail(@)]
       IN  x' = IF r.is = "exception" THEN next
                ELSE IF setup.details /\ Head(x.back).enc = Clear /\ r.payload.kwargs = none
                     THEN [next EXCEPT !.raised = TRUE]
                ELSE [next EXCEPT !.seen = Append(@, r.payload)]
    /\ UNCHANGED <<setup, session>>

OnResult ==
    /\ Answered("Result")
    /\ x' = [x EXCEPT !.back = Tail(@), !.told = receivedAnswer]
    /\ UNCHANGED <<setup, session>>

\* The request is gone when the exception is made.
OnError ==
    /\ Answered("Error")
    /\ LET exc == _exception_from_message(session["originator"], Classes, Head(x.back))
       IN  x' = IF exc = Raised THEN [x EXCEPT !.back = Tail(@), !.raised = TRUE]
                ELSE [x EXCEPT !.back = Tail(@), !.told = exc]
    /\ UNCHANGED <<setup, session>>

ExchangeNext ==
    \/ \E p \in Parties : Define(p) \/ SetKey(p) \/ set_payload_codec(p)
    \/ call \/ publish \/ Route \/ OnInvocation \/ OnEvent
    \/ Progress \/ Returns \/ Raises
    \/ OnProgress \/ OnResult \/ OnError

ExchangeSpec == ExchangeInit /\ [][ExchangeNext]_exchangeVars

-----------------------------------------------------------------------------
(* Properties.                                                             *)

box(p, uri) ==
    IF session[p].codec = NoRing THEN NoBox
    ELSE _get_box(session[p].codec, p = "originator", uri)

\* Both sessions have the same keys for the URIs there are.
KeysAgree ==
    \A uri \in setup.uris \cup DOMAIN session["originator"].uris
                   \cup {error_uri(session["responder"], e) : e \in setup.exceptions} :
        box("originator", uri) = box("responder", uri)

Failures == {error(name) : name \in {"no_payload_codec", "decrypt_error", "trusted_uri_mismatch"}}

\* s is t, some of whose elements are left out: none is out of its order, or there
\* more often than in t.
PartOf(s, t) ==
    \E place \in [DOMAIN s -> DOMAIN t] :
        /\ \A i, j \in DOMAIN s : i < j => place[i] < place[j]
        /\ \A i \in DOMAIN s : s[i] = t[place[i]]

\* Whatever the keys are, whenever they change and wherever the router sends it: a
\* handler or an endpoint is called with the arguments that were given, and with
\* those that travelled encoded only for the URI they were given for; a call that
\* ends with a result ends with the one its endpoint returned; and the caller sees
\* the progressive results its endpoint made in their order, none of them twice,
\* where those that cannot be decoded are left out.
NothingIsMixedUp ==
    /\ x.invoked # Absent =>
          x.invoked.payload = x.payload /\ (x.invoked.encoded => x.invoked.uri = x.uri)
    /\ x.told # Absent /\ x.told.is = "payload" => x.told = x.end
    /\ PartOf(x.seen, x.progressed)

\* Sessions with the same keys understand each other: requests reach the handler,
\* and results the caller.
AgreeingKeysWork ==
    KeysAgree /\ x.stable /\ ~setup.misroutes =>
        /\ x.is # "idle" /\ x.out = Absent /\ x.in = Absent => x.invoked # Absent
        /\ x.told # Absent /\ x.end.is = "payload" /\ serializable(x.end.payload) => x.told = x.end
        /\ x.told # Absent /\ x.told.is = "exception" => x.told.uri \notin Failures

DefinedAlike(c) ==
    LET ecls == session["responder"].ecls
        uris == session["originator"].uris
    IN  c \in DOMAIN ecls /\ ecls[c][1] \in DOMAIN uris /\ uris[ecls[c][1]] = c

takes(c, payload) == construct(Classes, c, payload) # Raised

\* An exception that both sessions defined alike arrives as one of its class when
\* the class can be made of its arguments; any other as ApplicationError with its
\* URI.  No argument is lost, unless the class itself does not keep it.
ErrorsArrive ==
    KeysAgree /\ x.stable /\ x.invoked # Absent /\ x.end.is = "exception" /\ x.told # Absent
        /\ serializable(x.end.payload) =>
        LET uri == error_uri(session["responder"], x.end)
            payload == IF setup.traceback_app
                       THEN [x.end.payload EXCEPT !.kwargs = put(@, "traceback", "lines")]
                       ELSE x.end.payload
        IN  /\ x.told.is = "exception"
            /\ DefinedAlike(x.end.class) /\ takes(x.end.class, payload) => x.told.class = x.end.class
            /\ uri \notin DOMAIN session["originator"].uris =>
                  x.told.class = "ApplicationError" /\ x.told.uri = uri
            /\ x.told.payload.args = payload.args
            /\ x.told.class = "ApplicationError" \/ Classes[x.told.class].keeps =>
                  x.told.payload.kwargs = payload.kwargs

\* When the endpoint has ended, and its answer has come, the caller is told.
CallsAreAnswered ==
    x.end # Absent /\ x.back = <<>> => x.told # Absent

\* No progressive result is lost between sessions with the same keys: those that
\* arrived, and those that are on their way, are those that were sent.
ProgressArrives ==
    KeysAgree /\ x.stable /\ ~setup.misroutes =>
        Len(x.progressed) = Len(x.seen) + Len(SelectSeq(x.back, LAMBDA m : m.type = "Progress"))

-----------------------------------------------------------------------------
(* What the theorems take for granted.                                     *)

\* Keyword arguments: a function.
Keywords(f) == f = [n \in DOMAIN f |-> f[n]]

\* Exceptions are what their constructors made of them.
Exceptional ==
    \A o \in Pairs : \A e \in o.exceptions :
        /\ DOMAIN e = {"is", "class", "uri", "payload"} /\ e.is = "exception"
        /\ e.uri # <<>> => e.class = "ApplicationError"
        /\ DOMAIN e.payload = {"args", "kwargs"}
        /\ Keywords(e.payload.kwargs)

\* The errors of endpoints can be sent and be constructed by the caller.
Answerable ==
    \A o \in Pairs : \A e \in o.exceptions :
        serializable(e.payload) /\ DOMAIN e.payload.kwargs \cap Own = {}

\* Keyword arguments that ApplicationError does not take for its own.
Passable ==
    \A o \in Pairs : \A e \in o.exceptions :
        DOMAIN e.payload.kwargs \cap (Own \cup Popped) = {}

\* The classes of the program are not ApplicationError itself.
OwnClasses ==
    \A o \in Pairs : \A d \in o.defines : d[1] # "ApplicationError"

\* The URIs a session uses for messages it cannot decode are left to it.
OwnErrors ==
    \A o \in Pairs :
        /\ \A e \in o.exceptions : e.uri \notin Failures
        /\ \A d \in o.defines : d[2] \notin Failures
        /\ LET w == decorated(o.classes @@ Builtins, o.decorations)
           IN  \A c \in DOMAIN w : w[c][1] \notin Failures
=============================================================================
