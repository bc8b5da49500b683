--------------------------- MODULE MCWampMessages ---------------------------
(***************************************************************************)
(* Small instances of WampMessages and of WampPayload, which have nothing  *)
(* to do with each other: a behaviour is one of one of them.               *)
(***************************************************************************)
EXTENDS WampMessages, WampPayload

CONSTANT Off         \* the variables of messages when they do not run

VARIABLE part        \* which of them runs

-----------------------------------------------------------------------------
(* Messages: every class, with every pair of values given to two           *)
(* attributes, and one element garbled in the messages with at most one.   *)

MCClasses == DOMAIN MESSAGE_TYPE_MAP

\* One value of every type, the odd ones of each, and the false ones.
MCGarbled == {"none", "zero", "one", "negative", "float", "false", "emptyStr", "word",
              "text", "emptyList", "strs", "badHops", "emptyDict", "dict", "oddDict",
              "emptyBytes", "bytes"}

-----------------------------------------------------------------------------
(* Payloads: keyrings that agree, that do not, and that change; exceptions *)
(* that both sessions define, one of them, or none.                        *)

shared == BothRoles("app")
caller == Key("app", {"originator_priv", "responder_pub"})
callee == Key("app", {"originator_pub", "responder_priv"})
other == BothRoles("other")
ring(prefix, key) == set_key(EmptyRing, prefix, key)
com == ring(<<"com">>, shared)

passing(args, names) == [args |-> args, kwargs |-> [n \in names |-> "value"]]
arguments == {passing(a, n) : a \in {<<>>, <<"a">>}, n \in {{}, {"k"}}}
failed(payload) == ApplicationError(<<"com", "error">>, payload)
raisedOf(c, payload) == exception(c, <<>>, payload)

pair ==
    [rings |-> [originator |-> NoRing, responder |-> NoRing], codecs |-> {}, keys |-> {},
     classes |-> <<>>, decorations |-> <<>>, defines |-> {}, uris |-> {<<"com", "proc">>},
     payloads |-> {passing(<<"a">>, {"k"})}, exceptions |-> {failed(passing(<<"a">>, {"k"}))},
     traceback_app |-> FALSE, misroutes |-> FALSE, progress |-> TRUE, details |-> FALSE]
rings(a, b) == [originator |-> a, responder |-> b]

\* Two that are told apart wherever they get.
distinct == {passing(<<"a">>, {"k"}), passing(<<"b">>, {"k"})}

\* Keys for both roles and for one, for a prefix, a URI, or by default, the same
\* and others; a procedure with a key of its own and one without any.
encoding ==
    {[pair EXCEPT !.rings = r, !.uris = {<<"com", "proc">>, <<"org", "proc">>}, !.misroutes = m,
                  !.payloads = distinct, !.details = TRUE] :
     r \in {rings(com, com), rings(com, NoRing), rings(ring(<<>>, caller), ring(<<>>, callee)),
            rings(ring(<<"com">>, other), com), rings(ring(<<"com", "proc">>, shared), com)},
     m \in BOOLEAN}
    \cup {[pair EXCEPT !.rings = rings(com, com), !.codecs = {NoRing, com}, !.payloads = distinct,
                       !.keys = {<<<<"com", "proc">>, other>>, <<<<"com">>, NoKey>>}]}
    \cup {[pair EXCEPT !.rings = rings(com, com), !.payloads = {passing(<<"a">>, {}), passing(<<"odd">>, {})}],
          [pair EXCEPT !.payloads = arguments \cup {passing(<<"odd">>, {})}]}

taking(args, kwargs) == [args |-> args, kwargs |-> kwargs, keeps |-> kwargs, parent |-> "Exception"]
classes ==
    "Any" :> taking(TRUE, TRUE) @@ "Positional" :> taking(TRUE, FALSE) @@ "Bare" :> taking(FALSE, FALSE)
    @@ "Decorated" :> taking(TRUE, TRUE)
failing ==
    {[pair EXCEPT !.classes = classes, !.decorations = <<<<"Decorated", <<"com", "decorated">>>>>>,
                  !.defines = {<<"Decorated", <<>>>>, <<c, <<"com", "error">>>>, <<"Any", <<"com", "any">>>>},
                  !.exceptions = {raisedOf(c, p), raisedOf("Any", p), raisedOf("Decorated", p),
                                  failed(p), raisedOf("RuntimeError", [p EXCEPT !.kwargs = <<>>])},
                  !.rings = r, !.traceback_app = t, !.progress = FALSE] :
     c \in {"Positional", "Bare"}, p \in arguments, t \in BOOLEAN,
     r \in {rings(NoRing, NoRing), rings(ring(<<>>, shared), ring(<<>>, shared))}}

MCPairs == encoding \cup failing

\* What each of the properties that do not hold needs.
oddPairs == {[pair EXCEPT !.rings = rings(com, com), !.exceptions = {failed(passing(<<"odd">>, {}))}]}
ownPairs ==
    {[pair EXCEPT !.classes = classes,
                  !.exceptions = {raisedOf("Any", passing(<<>>, {"error"}))}]}
detailedPairs == {[pair EXCEPT !.payloads = {passing(<<"a">>, {})}, !.details = TRUE]}

-----------------------------------------------------------------------------
\* A call that is not the one looked at has not begun.
anyPair == CHOOSE o \in Pairs : TRUE
ExchangeOff == setup = anyPair /\ ExchangeInit
MessagesOff ==
    class = Off /\ asked = Off /\ message = Nothing /\ wire = Nothing /\ got = Nothing

MCInit ==
    \/ part = "messages" /\ MessageInit /\ ExchangeOff
    \/ part = "exchange" /\ ExchangeInit /\ MessagesOff

MCNext ==
    \/ part = "messages" /\ MessageNext /\ UNCHANGED <<part, exchangeVars>>
    \/ part = "exchange" /\ ExchangeNext /\ UNCHANGED <<part, messageVars>>

MCSpec == MCInit /\ [][MCNext]_<<part, exchangeVars, messageVars>>
=============================================================================
