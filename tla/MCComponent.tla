----------------------------- MODULE MCComponent -----------------------------
(***************************************************************************)
(* Components for TLC: what the reconnect loop depends on, and what        *)
(* authentication depends on, each with little of the other.               *)
(***************************************************************************)
EXTENDS Component

default ==
    [given |-> {"type", "url"}, type |-> "websocket",
     url |-> [scheme |-> "ws", host |-> "host", port |-> 8080],
     endpoint |-> tcp("elsewhere", 9000, "no", {}), serializers |-> <<>>, options |-> {},
     proxy |-> {"host", "port"}, max_retries |-> 0]
retrying(limits) == [t \in DOMAIN limits |-> [default EXCEPT !.max_retries = limits[t]]]

bare ==
    [twisted |-> TRUE, transports |-> retrying(<<0>>), main |-> FALSE, fatal |-> FALSE, stops |-> FALSE,
     loses |-> FALSE, configs |-> <<>>, tls |-> FALSE, router |-> "secret", lies |-> FALSE]

\* Without main the retries count for the component's life, with it they start
\* again at every join; one transport may be without a limit.
reconnecting ==
    {[bare EXCEPT !.twisted = t, !.transports = retrying(r), !.main = m, !.fatal = f, !.loses = TRUE] :
     t \in BOOLEAN, r \in {<<1>>, <<0, 1>>, <<-1, 0>>}, m \in BOOLEAN, f \in BOOLEAN}

\* Stopping where it works: see StopIsFinal for the rest.
stopping ==
    {[bare EXCEPT !.twisted = t, !.stops = TRUE, !.loses = TRUE] : t \in BOOLEAN}

ticket == [name |-> "ticket", authid |-> "joe", authrole |-> "user", secret |-> "secret",
           binding |-> None]
wampcra == [ticket EXCEPT !.name = "wampcra"]
scram == [ticket EXCEPT !.name = "scram"]
cryptosign == [ticket EXCEPT !.name = "cryptosign"]
bound == [cryptosign EXCEPT !.binding = "tls-unique"]
anonymous == [ticket EXCEPT !.name = "anonymous", !.secret = None]
nameless == [anonymous EXCEPT !.authid = None]

\* Every authenticator, alone and with another, against a router with the same
\* secret or another one, which may let in whom it cannot verify.
authenticating ==
    {[bare EXCEPT !.configs = a, !.tls = t, !.router = r, !.lies = l] :
     a \in {<<anonymous>>, <<ticket>>, <<wampcra>>, <<scram>>, <<cryptosign>>, <<bound>>,
            <<scram, ticket>>, <<wampcra, cryptosign>>},
     t \in BOOLEAN, r \in {"secret", "other"}, l \in BOOLEAN}
    \cup {[bare EXCEPT !.configs = <<[wampcra EXCEPT !.authid = None]>>]}

\* URLs with and without a port, endpoints of every kind, with every set of keys,
\* wrong values, a proxy; some next to a transport that is right.
urls == {[scheme |-> s, host |-> "host", port |-> p] : s \in {"ws", "wss", "rs"}, p \in {0, 8080}}
right == tcp("elsewhere", 9000, "yes", {})
endpoints ==
    {[right EXCEPT !.given = g, !.type = t] : g \in SUBSET {"type", "host", "port", "path", "tls"},
                                              t \in {"tcp", "unix", "other"}}
    \cup {[right EXCEPT !.given = EndpointKeys \ {"path"}, !.tls = t, !.version = v, !.odd = o] :
          t \in {"no", "yes", "dict", "context", "odd"}, v \in {4, 5, 6}, o \in {{}, {"timeout"}}}
    \cup {[right EXCEPT !.native = TRUE], [right EXCEPT !.given = @ \cup {"misspelt"}]}
transports ==
    {[default EXCEPT !.url = u, !.type = k, !.given = @ \cup g] :
     u \in urls, k \in {"websocket", "other"},
     g \in {{}, {"serializer"}, {"serializers"}, {"headers"}, {"proxy"}, {"misspelt"}}}
    \cup {[default EXCEPT !.url = u, !.type = "rawsocket", !.given = @ \cup g] :
          u \in {v \in urls : v.scheme # "wss"}, g \in {{}, {"serializer"}, {"serializers"}, {"headers"}}}
    \cup {[default EXCEPT !.url.scheme = "rs", !.url.host = "unix", !.type = "rawsocket"]}
    \cup {[default EXCEPT !.given = @ \cup {"endpoint"}, !.endpoint = e] : e \in endpoints}
    \cup {[default EXCEPT !.given = @ \cup {"options"}, !.options = {o}] :
          o \in {"camelCase", "snake_case", "misspelt"}}
    \cup {[default EXCEPT !.given = @ \cup {"proxy", "endpoint"}, !.endpoint.odd = o,
                          !.endpoint.given = EndpointKeys \ {"path"}] : o \in {{}, {"timeout"}}}
    \cup {[default EXCEPT !.given = @ \cup {"serializers"}, !.serializers = <<"json", s>>] :
          s \in {"cbor", "bson"}}
usable ==
    {[t EXCEPT !.serializers = IF @ = <<>> THEN <<"cbor">> ELSE @] : t \in transports}
configured ==
    {[bare EXCEPT !.twisted = w, !.transports = <<t>>] : w \in BOOLEAN, t \in usable}
    \cup {[bare EXCEPT !.transports = <<t, default>>] : t \in usable}

\* What each of the properties that do not hold needs.
clearOptions == {[bare EXCEPT !.transports = <<[default EXCEPT !.url.scheme = "rss", !.type = "rawsocket"]>>]}
unixOptions == {[bare EXCEPT !.transports = <<[default EXCEPT !.url.host = "unix"]>>]}
barestOptions ==
    {[bare EXCEPT !.transports = <<[default EXCEPT !.type = "rawsocket", !.given = @ \cup {"endpoint"},
                                                   !.endpoint.given = {"type"}]>>]}
stopOptions == {[bare EXCEPT !.stops = TRUE, !.transports = retrying(<<1>>)]}
mainOptions == {[bare EXCEPT !.main = TRUE, !.loses = TRUE, !.transports = retrying(<<1>>)]}
cleanOptions == {[bare EXCEPT !.loses = TRUE]}
lastOptions == {[bare EXCEPT !.configs = <<wampcra, nameless>>]}

ComponentOptions == reconnecting \cup stopping \cup authenticating \cup configured
=============================================================================
