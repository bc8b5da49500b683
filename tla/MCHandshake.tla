----------------------------- MODULE MCHandshake -----------------------------
EXTENDS WebSocketHandshake

app == origin("https", "app", None)
evil == origin("https", "evil", 8443)

plain == [host |-> "host", port |-> None, isSecure |-> FALSE, path |-> root,
          address |-> "home", origin |-> None, protocols |-> <<>>,
          connecting |-> FALSE, asked |-> <<>>, version |-> 18, offers |-> <<>>,
          takes |-> TRUE, proxy |-> FALSE, claims |-> <<>>]

base == [clients |-> <<plain>>, server |-> <<>>, externalPort |-> None,
         answers |-> {"none", "first", "last"}, accepts |-> {"none"}, later |-> {},
         forwarders |-> <<>>, alters |-> {}, caches |-> FALSE, loses |-> FALSE,
         proxies |-> {}]

ext(name) == [name |-> name, bad |-> FALSE]
deflate == ext("permessage-deflate")
bzip2 == ext("permessage-bzip2")

client(changes) == changes @@ plain
situation(changes) == changes @@ base

Headers == {"host", "upgrade", "connection", "sec-websocket-key", "sec-websocket-version",
            "sec-websocket-protocol", "sec-websocket-extensions", "origin"}
asking == client([protocols |-> <<"p1", "p2">>, offers |-> <<deflate, bzip2>>, origin |-> app])

\* What two ends can agree on and disagree about.
agreeing ==
    {situation([clients |-> <<client([protocols |-> protocols, offers |-> offers,
                                      version |-> version, takes |-> takes])>>,
                answers |-> answers, accepts |-> accepts, server |-> server]) :
        protocols \in {<<>>, <<"p1", "p2">>, <<"p1", "p1">>},
        offers \in {<<>>, <<deflate, bzip2>>, <<ext("x-unknown"), deflate>>,
                    <<[name |-> "permessage-deflate", bad |-> TRUE]>>},
        version \in {10, 13, 18}, takes \in BOOLEAN,
        answers \in {{"none", "first", "last"}, {"foreign", "deny", "raise"}},
        accepts \in {{"none"}, {"none", "first", "last"}},
        server \in {<<>>, [versions |-> {"13"}], [versions |-> {"8"}]}}

\* Where a request comes from, and where to.
addressed ==
    {situation([clients |-> <<client([host |-> url[1], port |-> url[2], isSecure |-> url[3],
                                      path |-> url[4], origin |-> o, version |-> version])>>,
                server |-> server, externalPort |-> external]) :
        url \in {<<"host", 1, FALSE, root>>, <<"host", None, TRUE, <<"a", "b">>>>,
                 <<"host", MaxPort - 1, FALSE, <<"ws">>>>},
        o \in {None, null, app, evil, origin("http", None, None), origin("file", "x", None)},
        version \in {10, 18}, external \in {None, 443},
        server \in {<<>>, [allowedOrigins |-> {[app EXCEPT !.port = 443]}],
                    [allowedOrigins |-> {origin(None, "app", None)}, allowNullOrigin |-> TRUE]}}

\* Web servers in front, some trusted, and clients that claim to be behind more.
forwarding ==
    {situation([clients |-> <<client([claims |-> claims])>>, forwarders |-> forwarders,
                server |-> [trustXForwardedFor |-> trusted]]) :
        claims \in {<<>>, <<"office">>, <<"office", "abroad">>},
        forwarders \in {<<>>, <<"front">>, <<"edge", "front">>}, trusted \in 0 .. 2}

\* An intermediary repeats a header, or drops one, or answers from a cache.
meddling ==
    {situation([clients |-> <<asking>>, accepts |-> {"none", "last"},
                server |-> [webStatus |-> status, serveFlashSocketPolicy |-> status],
                alters |-> {[of |-> "request", how |-> how, header |-> h] :
                                how \in {"drop", "repeat"}, h \in Headers}
                           \cup {[of |-> "request", how |-> how, header |-> "none"] :
                                how \in {"method", "http", "fragment", "redirect", "policy"}}
                           \cup {[of |-> "response", how |-> "repeat", header |-> h] :
                                h \in Headers \cup {"sec-websocket-accept"}}
                           \cup {[of |-> "response", how |-> "drop", header |-> h] :
                                h \in {"upgrade", "connection", "sec-websocket-accept"}}]) :
        status \in BOOLEAN}
    \cup {situation([clients |-> <<asking, asking>>, accepts |-> {"none", "last"},
                     caches |-> TRUE])}

\* Several connections to a server that takes few, and changes its mind.
limiting ==
    {situation([clients |-> <<plain, plain, plain>>, server |-> [maxConnections |-> most],
                answers |-> {"none"}, loses |-> loses,
                later |-> {[maxConnections |-> 1], [maxConnections |-> 2],
                           [versions |-> {"8"}]}]) :
        most \in {1, 2}, loses \in BOOLEAN}

\* Through a proxy; with options of onConnecting.
proxied ==
    {situation([clients |-> <<client([proxy |-> proxy, connecting |-> connecting,
                                      protocols |-> <<"p1", "p2">>, asked |-> <<"p2">>])>>,
                proxies |-> {200, 407}, loses |-> TRUE]) :
        proxy \in BOOLEAN, connecting \in BOOLEAN}

HandshakeOptions ==
    agreeing \cup addressed \cup forwarding \cup meddling \cup limiting \cup proxied

\* protocol.py:3453: onConnecting's request is to be used for the connection, but
\* the subprotocol is looked for in the factory's list.
connectingOptions ==
    {situation([clients |-> <<client([connecting |-> TRUE, asked |-> <<"p1">>])>>])}

\* Drafts 11 and 12 are version 8 to the server, which then looks for another header.
draftOptions == {situation([clients |-> <<client([version |-> 12, origin |-> app])>>])}
=============================================================================
