------------------------- MODULE ComponentTransport -------------------------
(***************************************************************************)
(* The configuration of a component's transports: what Component() makes   *)
(* of a dictionary (autobahn/wamp/component.py: _create_transport), and    *)
(* what the connection it describes is dialled with, on Twisted and on     *)
(* asyncio.  A dictionary is a record with the set of its keys; a key that  *)
(* is not given has a value that nobody reads.                             *)
(***************************************************************************)
EXTENDS Naturals, Sequences, SequencesExt

TransportKeys == {"type", "url", "endpoint", "serializer", "serializers", "options", "proxy", "headers"}
EndpointKeys == {"type", "host", "port", "path", "tls", "timeout", "version"}

SERID_TO_SER == {"json", "msgpack", "cbor", "ubjson"}

\* odd are the keys of an endpoint whose values are not of the type they should be.
TransportType ==
    [given : SUBSET (TransportKeys \cup {"misspelt"}),
     type : {"websocket", "rawsocket", "other"},
     url : [scheme : {"ws", "wss", "rs", "rss", "http"}, host : {"host", "unix"}, port : Nat],
     endpoint : [native : BOOLEAN, given : SUBSET (EndpointKeys \cup {"misspelt"}),
                 type : {"tcp", "unix", "other"}, host : {"host", "elsewhere", "unix"}, port : Nat,
                 tls : {"no", "yes", "dict", "context", "odd"}, version : Nat,
                 odd : SUBSET {"host", "port", "timeout"}],
     serializers : Seq(STRING), options : SUBSET {"camelCase", "snake_case", "misspelt"},
     proxy : SUBSET {"host", "port", "misspelt"}, max_retries : Nat \cup {-1}]

kind(cfg) == IF "type" \in cfg.given THEN cfg.type ELSE "websocket"

-----------------------------------------------------------------------------
(* What Component() accepts.                                               *)

parses(url, schemes) == url.scheme \in schemes
isSecure(url) == url.scheme \in {"wss", "rss"}

\* With a URL of a Unix domain socket the path comes in the place of the port.
port(url) == IF url.port # 0 THEN url.port ELSE IF isSecure(url) THEN 443 ELSE 80

_check_native_endpoint(e, twisted) ==
    IF e.native THEN twisted ELSE "tls" \in e.given => e.tls # "odd"

\* Mutant: what an endpoint has to have is not looked for.
validate_endpoint_lax(e, twisted) ==
    _check_native_endpoint(e, twisted) /\ (e.native \/ e.given \subseteq EndpointKeys)

validate_endpoint(e, twisted) ==
    /\ _check_native_endpoint(e, twisted)
    /\ \/ e.native
       \/ /\ "type" \in e.given /\ e.given \subseteq EndpointKeys
          /\ \/ e.type = "tcp" /\ {"host", "port"} \subseteq e.given /\ "path" \notin e.given
             \/ e.type = "unix" /\ "path" \in e.given /\ e.given \cap {"host", "port", "tls"} = {}

\* The endpoint of a RawSocket transport is taken as it is.
accepts(cfg, twisted) ==
    /\ cfg.given \subseteq TransportKeys
    /\ kind(cfg) \in {"websocket", "rawsocket"}
    /\ "proxy" \in cfg.given => kind(cfg) = "websocket" /\ cfg.proxy = {"host", "port"}
    /\ \/ /\ kind(cfg) = "websocket"
          /\ "url" \in cfg.given /\ "serializer" \notin cfg.given
          /\ IF "endpoint" \in cfg.given THEN validate_endpoint(cfg.endpoint, twisted)
             ELSE parses(cfg.url, {"ws", "wss"})
          /\ "serializers" \in cfg.given => ToSet(cfg.serializers) \subseteq SERID_TO_SER
       \/ /\ kind(cfg) = "rawsocket"
          /\ cfg.given \cap {"serializers", "headers"} = {}
          /\ \/ "endpoint" \in cfg.given
             \/ "url" \in cfg.given /\ parses(cfg.url, {"rs", "rss", "ws", "wss"})

tcp(host, p, tls, odd) ==
    [native |-> FALSE, given |-> {"type", "host", "port", "tls"}, type |-> "tcp", host |-> host,
     port |-> p, tls |-> tls, version |-> 4, odd |-> odd]
unix == [tcp("unix", 0, "no", {}) EXCEPT !.given = {"type", "path"}, !.type = "unix"]

\* The endpoint that comes of the URL when there is none.  WebSocket over a Unix
\* domain socket becomes TCP to a host "unix", with the path for a port.
endpoint(cfg) ==
    IF "endpoint" \in cfg.given THEN cfg.endpoint
    ELSE IF kind(cfg) = "rawsocket" /\ cfg.url.host = "unix" THEN unix
    ELSE tcp(cfg.url.host, port(cfg.url),
             IF kind(cfg) = "websocket" /\ isSecure(cfg.url) THEN "yes" ELSE "no",
             IF cfg.url.host = "unix" THEN {"port"} ELSE {})

-----------------------------------------------------------------------------
(* What _connect_transport() dials.                                        *)

Raised == [raised |-> TRUE]
target(to, host, p, tls) == [raised |-> FALSE, to |-> to, host |-> host, port |-> p, tls |-> tls]

serializerIds(cfg) ==
    IF kind(cfg) = "websocket"
    THEN IF "serializers" \in cfg.given THEN cfg.serializers ELSE <<"cbor", "json">>
    ELSE IF "serializer" \in cfg.given THEN <<Head(cfg.serializers)>> ELSE <<"cbor">>

\* The factory parses the URL, finds the serializers, and tries each option under
\* both spellings.
factoryRaises(cfg) ==
    \/ kind(cfg) = "websocket" /\ ~parses(cfg.url, {"ws", "wss"})
    \/ ~(ToSet(serializerIds(cfg)) \subseteq SERID_TO_SER)
    \/ "options" \in cfg.given /\ "misspelt" \in cfg.options

secured(e) == "tls" \in e.given /\ e.tls # "no"

\* There is TLS over IPv6 only on asyncio.
endpointRaises(e, twisted) ==
    \/ "type" \notin e.given \/ e.type \notin {"tcp", "unix"}
    \/ /\ e.type = "tcp"
       /\ \/ ~({"host", "port"} \subseteq e.given) \/ e.odd \cap e.given # {}
          \/ "version" \in e.given /\ e.version \notin {4, 6}
          \/ secured(e) /\ e.tls = "odd"
          \/ twisted /\ secured(e) /\ "version" \in e.given /\ e.version = 6
    \/ e.type = "unix" /\ "path" \notin e.given

connected(e, twisted) ==
    IF e.native THEN IF twisted THEN target("native", "elsewhere", 0, FALSE) ELSE Raised
    ELSE IF endpointRaises(e, twisted) THEN Raised
    ELSE IF e.type = "unix" THEN target("unix", "unix", 0, FALSE)
    ELSE target("tcp", e.host, e.port, secured(e))

\* A proxy is dialled without TLS; only asyncio uses the endpoint's timeout.
connect_transport(cfg, twisted) ==
    IF factoryRaises(cfg) THEN Raised
    ELSE IF "proxy" \in cfg.given
         THEN IF ~twisted /\ "timeout" \in endpoint(cfg).given \cap endpoint(cfg).odd
              THEN Raised ELSE target("proxy", "proxy", 0, FALSE)
    ELSE connected(endpoint(cfg), twisted)

-----------------------------------------------------------------------------
(* What a configuration says, by the documentation of Component().         *)

\* The values are such as a key can have: Component() looks at the keys only.
valuesAreRight(cfg, twisted) ==
    /\ "url" \in cfg.given => parses(cfg.url, {"ws", "wss"} \cup
                                    (IF kind(cfg) = "rawsocket" THEN {"rs", "rss"} ELSE {}))
    /\ ToSet(cfg.serializers) \subseteq SERID_TO_SER
    /\ "misspelt" \notin cfg.options
    /\ "endpoint" \in cfg.given =>
          LET e == cfg.endpoint IN
          /\ e.odd = {} /\ e.tls # "odd" /\ e.version \in {4, 6}
          /\ e.version = 6 => e.tls = "no" \/ ~twisted

\* The router of the configuration: the endpoint's, or else the URL's.
router(cfg) ==
    IF "proxy" \in cfg.given THEN target("proxy", "proxy", 0, FALSE)
    ELSE IF "endpoint" \in cfg.given
         THEN LET e == cfg.endpoint IN
              IF e.native THEN target("native", "elsewhere", 0, FALSE)
              ELSE IF e.type = "unix" THEN target("unix", "unix", 0, FALSE)
              ELSE target("tcp", e.host, e.port, "tls" \in e.given /\ e.tls # "no")
    ELSE IF cfg.url.host = "unix" THEN target("unix", "unix", 0, FALSE)
    ELSE target("tcp", cfg.url.host,
                IF cfg.url.port # 0 THEN cfg.url.port
                ELSE IF cfg.url.scheme \in {"wss", "rss"} THEN 443 ELSE 80,
                cfg.url.scheme \in {"wss", "rss"})
=============================================================================
