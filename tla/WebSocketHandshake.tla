------------------------- MODULE WebSocketHandshake -------------------------
(***************************************************************************)
(* The opening handshake of autobahn/websocket/protocol.py, in full: the   *)
(* clients of several factories, through web servers and an HTTP proxy, to *)
(* the connections of one server factory.                                  *)
(*                                                                         *)
(* A header is a sequence of lines, and a line a sequence of the items     *)
(* between its commas.  WebSocketProtocol models when the callbacks and    *)
(* the timers of the handshake run, this module what it agrees on.         *)
(***************************************************************************)
EXTENDS Naturals, FiniteSets, SequencesExt, Functions

CONSTANTS
    Options,      \* the situations considered: records, see OptionType
    Connections,  \* bound: the connections of all clients
    None          \* Python's None: a value of its own

VARIABLES
    opt,       \* the options
    factory,   \* the server's factory
    conn,      \* the connections: the two protocol instances, and what is between
    cache      \* responses the intermediary has seen

vars == <<opt, factory, conn, cache>>

-----------------------------------------------------------------------------
(* URLs: autobahn/websocket/util.py                                        *)

MaxPort == 65535
root == <<"">>

tcp(n) == [tcp |-> n]
uds(path) == [uds |-> path]

\* None: the assertion on the port fails.
create_url(hostname, port, isSecure, path) ==
    CASE hostname = "unix" ->
             [secure |-> isSecure, host |-> "unix", port |-> None, path |-> port \o path]
      [] port = None ->
             [secure |-> isSecure, host |-> hostname, path |-> path,
              port |-> IF isSecure THEN 443 ELSE 80]
      [] port \in 0 .. MaxPort - 1 ->
             [secure |-> isSecure, host |-> hostname, port |-> port, path |-> path]
      [] OTHER -> None

\* None: ValueError
parse_url(url) ==
    CASE url.host = "unix" ->
             [isSecure |-> url.secure, host |-> "unix", port |-> uds(url.path), path |-> url.path]
      [] url.port = None ->
             [isSecure |-> url.secure, host |-> url.host, path |-> url.path,
              port |-> tcp(IF url.secure THEN 443 ELSE 80)]
      [] url.port \in 1 .. MaxPort ->
             [isSecure |-> url.secure, host |-> url.host, path |-> url.path,
              port |-> tcp(url.port)]
      [] OTHER -> None

-----------------------------------------------------------------------------
(* Origins.                                                                *)

origin(scheme, host, port) == [scheme |-> scheme, host |-> host, port |-> port]
null == origin("null", None, None)

\* None: no host part
_url_to_origin(o) ==
    CASE o.scheme \in {"null", "file"} -> null
      [] o.host = None -> None
      [] o.port = None /\ o.scheme = "https" -> [o EXCEPT !.port = 443]
      [] o.port = None /\ o.scheme = "http" -> [o EXCEPT !.port = 80]
      [] OTHER -> o

\* A pattern is an origin with None for a part that a wildcard stands for.
wildcards2patterns(wildcards) == wildcards

matches(pattern, o) ==
    \A part \in {"scheme", "host", "port"} : pattern[part] \in {None, o[part]}

\* Scheme and port of the server are parameters, and not looked at.
_is_same_origin(o, patterns) == o # null /\ \E p \in patterns : matches(p, o)

-----------------------------------------------------------------------------
(* Factories.                                                              *)

SUPPORTED_SPEC_VERSIONS == 10 .. 18
SUPPORTED_PROTOCOL_VERSIONS == {"8", "13"}
SPEC_TO_PROTOCOL_VERSION(spec) == IF spec < 13 THEN "8" ELSE "13"

ServerOptions == {"versions", "allowedOrigins", "allowNullOrigin", "maxConnections",
                  "trustXForwardedFor", "webStatus", "serveFlashSocketPolicy"}

server_resetProtocolOptions ==
    [versions |-> SUPPORTED_PROTOCOL_VERSIONS, webStatus |-> TRUE,
     serveFlashSocketPolicy |-> FALSE, allowedOrigins |-> {origin(None, None, None)},
     allowNullOrigin |-> TRUE, maxConnections |-> 0, trustXForwardedFor |-> 0]

\* What a call leaves out stays as it is, but for allowNullOrigin.
server_setProtocolOptions(options, given) ==
    [o \in ServerOptions |-> CASE o \in DOMAIN given -> given[o]
                               [] o = "allowNullOrigin" -> FALSE
                               [] OTHER -> options[o]]

serverFactory(o) ==
    [options |-> IF o.server = <<>> THEN server_resetProtocolOptions
                 ELSE server_setProtocolOptions(server_resetProtocolOptions, o.server),
     externalPort |-> o.externalPort, countConnections |-> 0, reset |-> FALSE]

\* url, origin, protocols, offers, version and proxy of a client's factory
clientFactory(c) ==
    LET k == opt.clients[c]
        url == parse_url(create_url(k.host, k.port, k.isSecure, k.path))
    IN  [attr \in DOMAIN k \cup {"url"} |-> IF attr = "url" THEN url ELSE k[attr]]

OptionType ==
    [clients : Seq([host : STRING, port : Nat, isSecure : BOOLEAN, path : Seq(STRING),
                    address : STRING, origin : [scheme : STRING], protocols : Seq(STRING),
                    connecting : BOOLEAN,   \* onConnecting returns a ConnectingRequest
                    asked : Seq(STRING),    \* with these protocols
                    version : SUPPORTED_SPEC_VERSIONS, offers : Seq([name : STRING]),
                    takes : BOOLEAN, proxy : BOOLEAN,
                    claims : Seq(STRING)]), \* X-Forwarded-For that it makes up
     server : [SUBSET ServerOptions -> STRING], externalPort : Nat,
     answers : SUBSET {"none", "first", "last", "foreign", "deny", "raise"},
     accepts : SUBSET {"none", "first", "last"},
     later : SUBSET [SUBSET ServerOptions -> STRING],  \* a call of setProtocolOptions
     forwarders : Seq(STRING),     \* the web servers in front of the server
     alters : SUBSET [of : {"request", "response"}, how : STRING, header : STRING],
     caches : BOOLEAN, loses : BOOLEAN, proxies : SUBSET Nat]

-----------------------------------------------------------------------------
(* HTTP messages.                                                          *)

one(item) == <<<<item>>>>

\* parseHttpHeader: the items of a header's lines, put together.
has(http, name) == name \in DOMAIN http.headers
field(http, name) == FlattenSeq(http.headers[name])
repeated(http, name) == Len(http.headers[name]) > 1

\* Headers without a line are not sent.
present(lines) == [name \in {n \in DOMAIN lines : lines[n] # <<>>} |-> lines[name]]

RequestHeaders ==
    {"host", "upgrade", "connection", "sec-websocket-key", "sec-websocket-version", "origin",
     "sec-websocket-origin", "sec-websocket-protocol", "sec-websocket-extensions",
     "x-forwarded-for"}

http_request(c, k, requested) ==
    LET originName == IF k.version > 10 THEN "origin" ELSE "sec-websocket-origin"
        lines(name) ==
            CASE name = "host" -> one([host |-> requested.host, port |-> requested.port])
              [] name = "upgrade" -> one("websocket")
              [] name = "connection" -> one("upgrade")
              [] name = "sec-websocket-key" -> one([key |-> c])
              [] name = "sec-websocket-version" -> one(SPEC_TO_PROTOCOL_VERSION(k.version))
              [] name = originName /\ requested.origin # None -> one(requested.origin)
              [] name = "sec-websocket-protocol" /\ requested.protocols # <<>> ->
                     <<requested.protocols>>
              [] name = "sec-websocket-extensions" /\ k.offers # <<>> -> <<k.offers>>
              [] name = "x-forwarded-for" /\ k.claims # <<>> -> <<k.claims>>
              [] OTHER -> <<>>
    IN  [method |-> "GET", http |-> "1.1", fragment |-> FALSE, redirect |-> FALSE,
         path |-> requested.resource,
         headers |-> present([name \in RequestHeaders |-> lines(name)])]

ResponseHeaders ==
    {"upgrade", "connection", "sec-websocket-accept", "sec-websocket-protocol",
     "sec-websocket-extensions"}

http_response(s) ==
    LET lines(name) ==
            CASE name = "upgrade" -> one("websocket")
              [] name = "connection" -> one("upgrade")
              [] name = "sec-websocket-accept" -> one(s.request.key)
              [] name = "sec-websocket-protocol" /\ s.protocol_in_use # None ->
                     one(s.protocol_in_use)
              [] name = "sec-websocket-extensions" /\ s.pmce # None -> one(s.pmce)
              [] OTHER -> <<>>
    IN  [status |-> 101, http |-> "1.1",
         headers |-> present([name \in ResponseHeaders |-> lines(name)])]

http_error(code) == [status |-> code, http |-> "1.1", headers |-> <<>>]

-----------------------------------------------------------------------------
(* The server's end of a connection.                                       *)

PERMESSAGE_COMPRESSION_EXTENSION == {"permessage-deflate", "permessage-bzip2"}

noServer == [state |-> "none", options |-> None, peer |-> None, request |-> None,
             pending |-> FALSE, protocol_in_use |-> None, pmce |-> None,
             code |-> None, writes |-> <<>>]

server_connectionMade(peer) ==
    [noServer EXCEPT !.state = "CONNECTING", !.options = factory.options, !.peer = peer]

dropConnection(p) == [p EXCEPT !.state = "CLOSED"]

sendHttpErrorResponse(s, code) == [s EXCEPT !.writes = Append(@, http_error(code))]

server_failHandshake(s, code) ==
    dropConnection([sendHttpErrorResponse(s, code) EXCEPT !.code = code])

sendServerStatus(s, http) ==
    dropConnection([s EXCEPT !.writes = Append(@, http_error(IF http.redirect THEN 303 ELSE 200))])

originHeader(version) == IF version = "8" THEN "sec-websocket-origin" ELSE "origin"

originIsAllowed(s, http, name) ==
    ~has(http, name) \/
    LET o == _url_to_origin(field(http, name)[1])
    IN  /\ ~repeated(http, name)
        /\ o # None
        /\ \/ o = null /\ factory.options.allowNullOrigin
           \/ _is_same_origin(o, wildcards2patterns(s.options.allowedOrigins))

ConnectionRequest(s, http, version) ==
    [host |-> field(http, "host")[1].host, path |-> http.path, version |-> version,
     origin |-> IF has(http, originHeader(version)) THEN field(http, originHeader(version))[1]
                ELSE None,
     protocols |-> IF has(http, "sec-websocket-protocol")
                   THEN field(http, "sec-websocket-protocol") ELSE <<>>,
     extensions |-> IF has(http, "sec-websocket-extensions")
                    THEN field(http, "sec-websocket-extensions") ELSE <<>>,
     key |-> field(http, "sec-websocket-key")[1]]

\* Mutant: the address that comes first in the header is taken.
peerOf_first(s, http) ==
    IF ~has(http, "x-forwarded-for") \/ s.options.trustXForwardedFor = 0 THEN s.peer
    ELSE field(http, "x-forwarded-for")[1]

\* trustXForwardedFor: the outermost of the trusted web servers names the peer.
peerOf(s, http) ==
    LET n == s.options.trustXForwardedFor
        addresses == field(http, "x-forwarded-for")
    IN  IF ~has(http, "x-forwarded-for") \/ n = 0 THEN s.peer
        ELSE addresses[IF n > Len(addresses) THEN 1 ELSE Len(addresses) - n + 1]

hostIsGood(http) ==
    /\ has(http, "host") /\ ~repeated(http, "host")
    /\ LET port == field(http, "host")[1].port
       IN  port = None \/ (/\ "tcp" \in DOMAIN port
                           /\ factory.externalPort \in {None, port.tcp})

keyIsGood(http) ==
    /\ has(http, "sec-websocket-key") /\ ~repeated(http, "sec-websocket-key")
    /\ field(http, "sec-websocket-key")[1].key # 0

full(s) == s.options.maxConnections > 0 /\ factory.countConnections > s.options.maxConnections

server_processHandshake(s, http) ==
    LET known == has(http, "sec-websocket-version")
                 /\ ~repeated(http, "sec-websocket-version")
        version == field(http, "sec-websocket-version")[1]
        duplicates == has(http, "sec-websocket-protocol")
                      /\ ~IsInjective(field(http, "sec-websocket-protocol"))
        p == [s EXCEPT !.peer = peerOf(s, http)]
    IN CASE http.method # "GET" -> server_failHandshake(p, 405)
         [] http.http # "1.1" -> server_failHandshake(p, 505)
         [] http.fragment \/ ~hostIsGood(http) -> server_failHandshake(p, 400)
         [] ~has(http, "upgrade") ->
                IF s.options.webStatus THEN sendServerStatus(p, http)
                ELSE server_failHandshake(p, 426)
         [] \/ "websocket" \notin Range(field(http, "upgrade"))
            \/ ~has(http, "connection") \/ "upgrade" \notin Range(field(http, "connection"))
            \/ ~known \/ version \notin s.options.versions
            \/ duplicates
            \/ ~originIsAllowed(s, http, originHeader(version))
            \/ ~keyIsGood(http)
            \/ has(http, "sec-websocket-extensions")
               /\ repeated(http, "sec-websocket-extensions") -> server_failHandshake(p, 400)
         [] full(p) -> server_failHandshake(p, 503)
         [] OTHER -> [p EXCEPT !.pending = TRUE, !.request = ConnectionRequest(p, http, version)]

serveFlashSocketPolicy(s) ==
    IF s.options.serveFlashSocketPolicy
    THEN dropConnection([s EXCEPT !.writes = Append(@, [policy |-> TRUE])]) ELSE s

\* onConnect has returned the subprotocol, or None.
succeedHandshake(s, protocol, accept) ==
    LET offers == SelectSeq(s.request.extensions,
                            LAMBDA e : e.name \in PERMESSAGE_COMPRESSION_EXTENSION)
        chosen == CASE offers = <<>> \/ accept = "none" -> None
                    [] accept = "first" -> offers[1]
                    [] accept = "last" -> offers[Len(offers)]
        opened == [s EXCEPT !.state = "OPEN", !.pending = FALSE,
                            !.protocol_in_use = protocol, !.pmce = chosen]
    IN CASE protocol # None /\ protocol \notin Range(s.request.protocols) ->
                [s EXCEPT !.pending = FALSE]      \* the callback raises; nobody notices
         [] \E i \in DOMAIN offers : offers[i].bad ->
                server_failHandshake([s EXCEPT !.pending = FALSE, !.protocol_in_use = protocol], 400)
         [] OTHER -> [opened EXCEPT !.writes = Append(@, http_response(opened))]

server_onConnect(s, answer, accept) ==
    LET protocols == s.request.protocols
        denied(code) == server_failHandshake([s EXCEPT !.pending = FALSE], code)
    IN CASE answer = "deny" -> denied(403)
         [] answer = "raise" -> denied(500)
         [] answer = "foreign" -> succeedHandshake(s, "foreign", accept)
         [] answer = "first" /\ protocols # <<>> -> succeedHandshake(s, protocols[1], accept)
         [] answer = "last" /\ protocols # <<>> ->
                succeedHandshake(s, protocols[Len(protocols)], accept)
         [] OTHER -> succeedHandshake(s, None, accept)

-----------------------------------------------------------------------------
(* The client's end of a connection.                                       *)

client_connectionMade(k) ==
    [state |-> IF k.proxy THEN "PROXY_CONNECTING" ELSE "CONNECTING",
     pending |-> ~k.proxy,              \* onConnecting has been called
     requested |-> None, websocket_version |-> None, protocol_in_use |-> None, pmce |-> None,
     refused |-> FALSE,
     writes |-> IF k.proxy THEN <<[connect |-> k.url.port]>> ELSE <<>>]

client_failHandshake(p) == [p EXCEPT !.state = "CLOSED", !.refused = TRUE]

processProxyConnect(p, http) ==
    IF http.http \in {"1.1", "1.0"} /\ http.status \in 200 .. 299
    THEN [p EXCEPT !.state = "CONNECTING", !.pending = TRUE]
    ELSE client_failHandshake(p)

\* startHandshake, got_options: onConnecting's answer, or the factory's parameters.
ConnectingRequest(k) ==
    [host |-> k.url.host, port |-> k.url.port, resource |-> k.url.path, origin |-> k.origin,
     protocols |-> IF k.connecting THEN k.asked ELSE k.protocols]

_actuallyStartHandshake(p, c, k) ==
    LET requested == ConnectingRequest(k)
    IN  [p EXCEPT !.pending = FALSE, !.requested = requested,
                  !.writes = Append(@, http_request(c, k, requested))]

\* Mutant: the client does not check that the response is to its request.
acceptIsGood_any(http, c) == has(http, "sec-websocket-accept")

acceptIsGood(http, c) ==
    /\ has(http, "sec-websocket-accept") /\ ~repeated(http, "sec-websocket-accept")
    /\ field(http, "sec-websocket-accept")[1].key = c

client_processHandshake(p, http, c, k) ==
    LET extensions == IF has(http, "sec-websocket-extensions")
                      THEN field(http, "sec-websocket-extensions") ELSE <<>>
        protocol == IF has(http, "sec-websocket-protocol")
                    THEN field(http, "sec-websocket-protocol")[1] ELSE None
        good == /\ http.http = "1.1" /\ http.status = 101
                /\ has(http, "upgrade") /\ field(http, "upgrade") = <<"websocket">>
                /\ has(http, "connection") /\ "upgrade" \in Range(field(http, "connection"))
                /\ acceptIsGood(http, c)
                /\ \A name \in {"sec-websocket-extensions", "sec-websocket-protocol"} :
                       has(http, name) => ~repeated(http, name)
                /\ Len(extensions) <= 1
                /\ \A i \in DOMAIN extensions :
                       extensions[i].name \in PERMESSAGE_COMPRESSION_EXTENSION /\ k.takes
                /\ protocol # None => protocol \in Range(k.protocols)
    IN  IF ~good THEN client_failHandshake(p)
        ELSE [p EXCEPT !.state = "OPEN", !.websocket_version = k.version,
                       !.protocol_in_use = protocol,
                       !.pmce = IF extensions = <<>> THEN None ELSE extensions[1]]

-----------------------------------------------------------------------------
(* Between the ends: an HTTP proxy of the clients, an intermediary with a  *)
(* cache, and web servers in front of the server.  All are external.       *)

altered(http, a) ==
    CASE a.how = "drop" ->
             [http EXCEPT !.headers = [n \in DOMAIN @ \ {a.header} |-> @[n]]]
      [] a.how = "repeat" /\ has(http, a.header) ->
             [http EXCEPT !.headers[a.header] = @ \o @]
      [] a.how = "method" -> [http EXCEPT !.method = "POST"]
      [] a.how = "http" -> [http EXCEPT !.http = "1.0"]
      [] a.how = "fragment" -> [http EXCEPT !.fragment = TRUE]
      [] a.how = "redirect" ->
             [http EXCEPT !.headers = [n \in DOMAIN @ \ {"upgrade"} |-> @[n]], !.redirect = TRUE]
      [] OTHER -> http

alterations(of) == {None} \cup {a \in opt.alters : a.of = of}
through(http, a) == IF a = None THEN http ELSE altered(http, a)

\* Each web server names the address it was called from, and calls the next.
callers(c) == <<opt.clients[c].address>> \o opt.forwarders

forwarded(http, c) ==
    LET n == Len(opt.forwarders)
        before == IF has(http, "x-forwarded-for") THEN field(http, "x-forwarded-for") ELSE <<>>
    IN  IF n = 0 THEN http
        ELSE [http EXCEPT !.headers =
                [name \in DOMAIN @ \cup {"x-forwarded-for"} |->
                    IF name = "x-forwarded-for" THEN <<before \o SubSeq(callers(c), 1, n)>>
                    ELSE @[name]]]

-----------------------------------------------------------------------------
noConnection ==
    [link |-> "none",         \* proxy: up to the proxy; up; down
     client |-> [state |-> "none", pending |-> FALSE, refused |-> FALSE],
     server |-> noServer, toServer |-> <<>>, toClient |-> <<>>, altered |-> FALSE]

Init ==
    /\ opt \in Options
    /\ factory = serverFactory(opt)
    /\ conn = [c \in Connections |-> noConnection]
    /\ cache = {}

\* What an entry of the event loop has written goes out; a lost link takes nothing.
flushed(n) ==
    LET out == [n EXCEPT !.client.writes = <<>>, !.server.writes = <<>>]
    IN  IF n.link = "down" THEN out
        ELSE [out EXCEPT !.toServer = @ \o n.client.writes, !.toClient = @ \o n.server.writes]

Put(c, n) == conn' = [conn EXCEPT ![c] = flushed(n)]

connected(n, c) == [n EXCEPT !.link = "up", !.server = server_connectionMade(Last(callers(c)))]
counted == factory' = [factory EXCEPT !.countConnections = @ + 1]

\* _connectionMade of the client, and of the server when no proxy is between.
ConnectionMade(c) ==
    LET k == clientFactory(c)
        n == [conn[c] EXCEPT !.client = client_connectionMade(k), !.link = "proxy"]
    IN  /\ c \in DOMAIN opt.clients /\ conn[c].link = "none"
        /\ c > 1 => conn[c - 1].link # "none"
        /\ IF k.proxy THEN Put(c, n) /\ UNCHANGED factory
           ELSE Put(c, connected(n, c)) /\ counted
        /\ UNCHANGED <<opt, cache>>

\* The proxy (external) answers CONNECT, and connects to the server if it may.
ProxyAnswers(c, status) ==
    LET n == [conn[c] EXCEPT !.toServer = Tail(@),
                             !.toClient = Append(@, http_error(status))]
    IN  /\ conn[c].link = "proxy" /\ conn[c].toServer # <<>> /\ status \in opt.proxies
        /\ IF status \in 200 .. 299 THEN Put(c, connected(n, c)) /\ counted
           ELSE Put(c, n) /\ UNCHANGED factory
        /\ UNCHANGED <<opt, cache>>

\* onConnecting's future.
Connecting(c) ==
    /\ conn[c].client.pending
    /\ \/ Put(c, [conn[c] EXCEPT !.client = _actuallyStartHandshake(@, c, clientFactory(c))])
       \/ /\ clientFactory(c).connecting /\ opt.loses   \* options_failed
          /\ Put(c, [conn[c] EXCEPT !.client = [dropConnection(@) EXCEPT !.pending = FALSE]])
    /\ UNCHANGED <<opt, factory, cache>>

ServerReceives(c, a) ==
    /\ conn[c].link = "up" /\ conn[c].toServer # <<>> /\ a \in alterations("request")
    /\ LET n == [conn[c] EXCEPT !.toServer = Tail(@), !.altered = @ \/ a # None]
           http == forwarded(through(conn[c].toServer[1], a), c)
           s == n.server
           policy == a # None /\ a.how = "policy"
       IN  \/ s.state # "CONNECTING" /\ Put(c, n)
           \/ s.state = "CONNECTING" /\ policy
              /\ Put(c, [n EXCEPT !.server = serveFlashSocketPolicy(s)])
           \/ s.state = "CONNECTING" /\ ~policy
              /\ Put(c, [n EXCEPT !.server = server_processHandshake(s, http)])
    /\ UNCHANGED <<opt, factory, cache>>

\* onConnect's future; the response may be seen by the intermediary.
Answer(c, answer, accept) ==
    LET s == server_onConnect(conn[c].server, answer, accept)
    IN  /\ conn[c].server.pending /\ answer \in opt.answers /\ accept \in opt.accepts
        /\ Put(c, [conn[c] EXCEPT !.server = s])
        /\ cache' = IF opt.caches THEN cache \cup {w \in Range(s.writes) : w.status = 101}
                    ELSE cache
        /\ UNCHANGED <<opt, factory>>

CacheAnswers(c, http) ==
    /\ conn[c].link = "up" /\ conn[c].toServer # <<>> /\ http \in cache
    /\ Put(c, [conn[c] EXCEPT !.toServer = Tail(@), !.toClient = Append(@, http),
                              !.altered = TRUE])
    /\ UNCHANGED <<opt, factory, cache>>

ClientReceives(c, a) ==
    /\ conn[c].toClient # <<>> /\ a \in alterations("response")
    /\ LET n == [conn[c] EXCEPT !.toClient = Tail(@), !.altered = @ \/ a # None]
           http == through(conn[c].toClient[1], a)
           p == n.client
           ignored == p.state = "CLOSED" \/ "policy" \in DOMAIN conn[c].toClient[1]
       IN  \/ ignored /\ Put(c, n)
           \/ ~ignored /\ p.state = "PROXY_CONNECTING"
              /\ Put(c, [n EXCEPT !.client = processProxyConnect(p, http)])
           \/ ~ignored /\ p.state # "PROXY_CONNECTING"
              /\ Put(c, [n EXCEPT !.client = client_processHandshake(p, http, c, clientFactory(c))])
    /\ UNCHANGED <<opt, factory, cache>>

\* An end has dropped the connection, or the network has: both ends hear of it.
ConnectionLost(c) ==
    /\ conn[c].link \in {"proxy", "up"}
    /\ opt.loses \/ "CLOSED" \in {conn[c].client.state, conn[c].server.state}
    /\ Put(c, [conn[c] EXCEPT !.link = "down", !.toServer = <<>>, !.toClient = <<>>,
                              !.client = dropConnection(@),
                              !.server = IF conn[c].link = "up" THEN dropConnection(@) ELSE @])
    /\ factory' = IF conn[c].link = "up" THEN [factory EXCEPT !.countConnections = @ - 1]
                  ELSE factory
    /\ UNCHANGED <<opt, cache>>

\* One call of setProtocolOptions while there are connections.
setProtocolOptions(given) ==
    /\ ~factory.reset /\ given \in opt.later
    /\ factory' = [factory EXCEPT !.options = server_setProtocolOptions(@, given), !.reset = TRUE]
    /\ UNCHANGED <<opt, conn, cache>>

Next ==
    \/ \E given \in opt.later : setProtocolOptions(given)
    \/ \E c \in Connections :
          \/ ConnectionMade(c) \/ Connecting(c) \/ ConnectionLost(c)
          \/ \E status \in opt.proxies : ProxyAnswers(c, status)
          \/ \E a \in alterations("request") : ServerReceives(c, a)
          \/ \E a \in alterations("response") : ClientReceives(c, a)
          \/ \E answer \in opt.answers, accept \in opt.accepts : Answer(c, answer, accept)
          \/ \E http \in cache : CacheAnswers(c, http)

Spec == Init /\ [][Next]_vars

-----------------------------------------------------------------------------
(* Properties.                                                             *)

Up == {c \in Connections : conn[c].link = "up"}

\* Both ends of an open connection speak the same subprotocol and compression, at
\* the same version, and the client is open only upon the answer to its own
\* request, whatever proxies and caches are between them.
HandshakeAgrees ==
    \A c \in Up :
        conn[c].client.state = "OPEN" =>
            /\ conn[c].server.state = "OPEN"
            /\ conn[c].client.protocol_in_use = conn[c].server.protocol_in_use
            /\ conn[c].client.pmce = conn[c].server.pmce
            /\ SPEC_TO_PROTOCOL_VERSION(conn[c].client.websocket_version)
                   = conn[c].server.request.version

\* What onConnect is told of a client is what the client has said and, if exactly
\* the web servers in front are trusted, where it called from, whatever it claims.
RequestSeen ==
    \A c \in Connections :
        LET s == conn[c].server
            told == s.request
            said == conn[c].client.requested
        IN  told # None /\ ~conn[c].altered =>
                /\ <<told.host, told.path, told.origin, told.protocols, told.extensions>>
                       = <<said.host, said.resource, said.origin, said.protocols,
                           opt.clients[c].offers>>
                /\ s.options.trustXForwardedFor = Len(opt.forwarders) =>
                       s.peer = opt.clients[c].address

\* At most maxConnections connections are open, however slow onConnect is and
\* whatever the factory is told in the meantime: the limit is that of the last.
ConnectionsBounded ==
    LET open == {c \in Up : conn[c].server.state = "OPEN"}
    IN  open # {} =>
            \E c \in open :
                LET most == conn[c].server.options.maxConnections
                IN  most = 0 \/ Cardinality(open) <= most

\* What the server knows of its clients is true, and how many they are.
ServerKnows == RequestSeen /\ ConnectionsBounded

\* The two ends have nothing to quarrel about.
Compatible(c) ==
    LET s == conn[c].server
        k == clientFactory(c)
        o == IF k.origin = None THEN None ELSE _url_to_origin(k.origin)
    IN /\ conn[c].link = "up" /\ ~conn[c].altered /\ conn[c].client.requested # None
       /\ SPEC_TO_PROTOCOL_VERSION(k.version) \in s.options.versions
       /\ factory.externalPort \in {None, k.url.port.tcp}
       /\ \/ k.origin = None
          \/ \E p \in s.options.allowedOrigins : o \notin {None, null} /\ matches(p, o)
          \/ o = null /\ factory.options.allowNullOrigin
       /\ IsInjective(conn[c].client.requested.protocols)
       /\ opt.answers \subseteq {"none", "first", "last"}
       /\ \A i \in DOMAIN k.offers : ~k.offers[i].bad
       /\ k.takes \/ opt.accepts = {"none"}
       /\ s.options.maxConnections = 0 \/ Cardinality(Up) <= s.options.maxConnections

Refused(c) == conn[c].client.refused \/ conn[c].server.code # None

\* Neither end refuses the other when they are compatible.
NothingRefused == [][\A c \in Connections : ~Refused(c) /\ Refused(c)' => ~Compatible(c)']_vars

-----------------------------------------------------------------------------
(* What the theorems take for granted.                                     *)

\* Nobody between the ends takes the outcome of a negotiation out of a response.
Untouched ==
    \A o \in Options : \A a \in o.alters :
        a.of = "response" /\ a.how = "drop" =>
            a.header \notin {"sec-websocket-protocol", "sec-websocket-extensions"}

\* Not the two drafts that are version 8 and send the later header.
Released ==
    \A o \in Options : \A c \in DOMAIN o.clients :
        o.clients[c].version \in SUPPORTED_SPEC_VERSIONS \ {11, 12}

\* Addresses are in lists, and clients have these parameters.
Addressed ==
    \A o \in Options :
        /\ o.forwarders \in Seq(STRING)
        /\ \A c \in DOMAIN o.clients :
              /\ {"claims", "offers", "version"} \subseteq DOMAIN o.clients[c]
              /\ o.clients[c].claims \in Seq(STRING)

\* Limits are numbers.
Limited ==
    \A o \in Options : \A given \in {o.server} \cup o.later :
        "maxConnections" \in DOMAIN given => given["maxConnections"] \in Nat
=============================================================================
