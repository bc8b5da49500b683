---------------------- MODULE WebSocketHandshakeProofs ----------------------
(***************************************************************************)
(* Proofs about WebSocketHandshake: the ends of a connection agree, and    *)
(* what the server believes of its clients is true, for any number of      *)
(* connections, any options of the factories and any answers of the        *)
(* application, through proxies, caches and intermediaries that repeat and *)
(* drop headers.                                                           *)
(*                                                                         *)
(* The invariant says of each message between the ends where it comes      *)
(* from: a request that arrives at the server is the one the client made   *)
(* (Outbound), and a response with an accept header, wherever it is, was   *)
(* written by the one end whose key it has, and that end has not changed   *)
(* since unless its stream is lost (From).                                 *)
(***************************************************************************)
EXTENDS WebSocketHandshake, FiniteSetTheorems, TLAPS

ConnectionFields == {"link", "client", "server", "toServer", "toClient", "altered"}
ClientFields ==
    {"state", "pending", "requested", "websocket_version", "protocol_in_use", "pmce", "refused",
     "writes"}
ServerFields ==
    {"state", "options", "peer", "request", "pending", "protocol_in_use", "pmce", "code", "writes"}

IsSequence(s) == \E S : s \in Seq(S)

\* The request that the client of connection c makes, and its version's number.
request(c) == http_request(c, clientFactory(c), ConnectingRequest(clientFactory(c)))
versionOf(c) == SPEC_TO_PROTOCOL_VERSION(clientFactory(c).version)

Shape(n) ==
    /\ DOMAIN n = ConnectionFields
    /\ n.link \in {"none", "proxy", "up", "down"}
    /\ n.link = "none" => n = noConnection
    /\ n.link # "none" => DOMAIN n.client = ClientFields /\ n.client.writes = <<>>
    /\ DOMAIN n.server = ServerFields /\ n.server.writes = <<>>
    /\ IsSequence(n.toServer) /\ IsSequence(n.toClient)

\* What is on its way to the server is the client's request, or one to a proxy.
Outbound(c, n) ==
    /\ n.link = "proxy" =>
          /\ n.toServer # <<>> => Tail(n.toServer) = <<>>
          /\ n.client.state \in {"PROXY_CONNECTING", "CLOSED"} /\ ~n.client.pending
          /\ n.server.state = "none" /\ ~n.server.pending
          /\ \A m \in ToSet(n.toClient) : m.status \notin 200 .. 299
    /\ n.link = "up" =>
          \A m \in ToSet(n.toServer) :
              m = request(c) /\ n.client.requested = ConnectingRequest(clientFactory(c))
    /\ n.link = "down" => n.toServer = <<>> /\ n.toClient = <<>>

\* The server has read the request of this client, and answers it once.
Served(c, n) ==
    /\ n.server.pending \/ n.server.state = "OPEN" =>
          n.server.request.key = [key |-> c] /\ n.server.request.version = versionOf(c)
    /\ n.link = "up" /\ n.server.state = "OPEN" => ~n.server.pending

\* w is what the server's end of connection d has written, and still is of its mind.
From(w, d, n) ==
    /\ {"status", "headers"} \subseteq DOMAIN w
    /\ "sec-websocket-accept" \in DOMAIN w.headers
    /\ w.headers["sec-websocket-accept"] = one([key |-> d])
    /\ \/ n.link = "down"
       \/ n.link = "up" /\ n.server.state = "OPEN" /\ w = http_response(n.server)

Known(w, conns) == \E d \in Connections : From(w, d, conns[d])

\* Answers that are on their way: of a server, or refusals.
Refusal(w) ==
    "policy" \in DOMAIN w \/ ({"status", "headers"} \subseteq DOMAIN w /\ w.headers = <<>>)

Inbound(n, conns) == \A w \in ToSet(n.toClient) : Refusal(w) \/ Known(w, conns)

\* HandshakeAgrees, of one connection.
Agreed(c, n) ==
    Untouched /\ n.link = "up" /\ n.client.state = "OPEN" =>
        /\ n.server.state = "OPEN"
        /\ n.client.protocol_in_use = n.server.protocol_in_use
        /\ n.client.pmce = n.server.pmce
        /\ n.client.websocket_version = clientFactory(c).version

\* Each connection by itself.
Sound(c, n) == Shape(n) /\ Outbound(c, n) /\ Served(c, n) /\ Agreed(c, n)

Good ==
    /\ opt \in Options
    /\ DOMAIN conn = Connections
    /\ \A c \in Connections : Sound(c, conn[c]) /\ Inbound(conn[c], conn)
    /\ \A w \in cache : Known(w, conn)

-----------------------------------------------------------------------------
(* Sequences.                                                              *)

LEMMA EmptySequence == ToSet(<<>>) = {} /\ IsSequence(<<>>)
<1>1. <<>> \in Seq({})
  OBVIOUS
<1>2. DOMAIN <<>> = {}
  BY <1>1
<1> QED
  BY <1>1, <1>2 DEF ToSet, IsSequence

LEMMA OneElement ==
    ASSUME NEW m
    PROVE  IsSequence(<<m>>) /\ <<m>> # <<>> /\ ToSet(<<m>>) = {m} /\ Tail(<<m>>) = <<>>
<1>1. <<m>> \in Seq({m}) /\ Len(<<m>>) = 1 /\ <<m>>[1] = m /\ DOMAIN <<m>> = {1}
  OBVIOUS
<1>2. Tail(<<m>>) = <<>>
  BY <1>1
<1> QED
  BY <1>1, <1>2 DEF ToSet, IsSequence

LEMMA Appended ==
    ASSUME NEW s, IsSequence(s), NEW m
    PROVE  IsSequence(Append(s, m)) /\ ToSet(Append(s, m)) = ToSet(s) \cup {m}
<1>1. PICK S : s \in Seq(S)
  BY DEF IsSequence
<1>2. s \in Seq(S \cup {m})
  BY <1>1
<1>3. /\ Append(s, m) \in Seq(S \cup {m}) /\ Len(Append(s, m)) = Len(s) + 1 /\ Len(s) \in Nat
      /\ Append(s, m)[Len(s) + 1] = m /\ \A i \in 1 .. Len(s) : Append(s, m)[i] = s[i]
  BY <1>2
<1>4. DOMAIN s = 1 .. Len(s) /\ DOMAIN Append(s, m) = 1 .. (Len(s) + 1)
  BY <1>2, <1>3
<1>5. ToSet(Append(s, m)) \subseteq ToSet(s) \cup {m}
  BY <1>3, <1>4 DEF ToSet
<1>6. ToSet(s) \cup {m} \subseteq ToSet(Append(s, m))
  BY <1>3, <1>4 DEF ToSet
<1> QED
  BY <1>3, <1>5, <1>6 DEF IsSequence

LEMMA Taken ==
    ASSUME NEW s, IsSequence(s), s # <<>>
    PROVE  IsSequence(Tail(s)) /\ s[1] \in ToSet(s) /\ ToSet(Tail(s)) \subseteq ToSet(s)
<1>1. PICK S : s \in Seq(S)
  BY DEF IsSequence
<1>2. /\ Len(s) \in Nat /\ Len(s) > 0 /\ DOMAIN s = 1 .. Len(s)
      /\ Tail(s) \in Seq(S) /\ DOMAIN Tail(s) = 1 .. (Len(s) - 1)
      /\ \A i \in 1 .. (Len(s) - 1) : Tail(s)[i] = s[i + 1]
  BY <1>1
<1>3. s[1] \in ToSet(s)
  BY <1>2 DEF ToSet
<1>4. ToSet(Tail(s)) \subseteq ToSet(s)
  BY <1>2 DEF ToSet
<1> QED
  BY <1>2, <1>3, <1>4 DEF IsSequence

LEMMA Joined ==
    ASSUME NEW s, IsSequence(s), NEW t, IsSequence(t)
    PROVE  /\ IsSequence(s \o t) /\ ToSet(s \o t) = ToSet(s) \cup ToSet(t)
           /\ t = <<>> => s \o t = s
           /\ s = <<>> => s \o t = t
<1>1. PICK S : s \in Seq(S)
  BY DEF IsSequence
<1>2. PICK T : t \in Seq(T)
  BY DEF IsSequence
<1>3. s \in Seq(S \cup T) /\ t \in Seq(S \cup T)
  BY <1>1, <1>2
<1>4. /\ s \o t \in Seq(S \cup T) /\ Len(s) \in Nat /\ Len(t) \in Nat
      /\ Len(s \o t) = Len(s) + Len(t)
      /\ DOMAIN s = 1 .. Len(s) /\ DOMAIN t = 1 .. Len(t) /\ DOMAIN (s \o t) = 1 .. (Len(s) + Len(t))
      /\ \A i \in 1 .. Len(s) + Len(t) : (s \o t)[i] = IF i <= Len(s) THEN s[i] ELSE t[i - Len(s)]
  BY <1>3
<1>5. ToSet(s \o t) \subseteq ToSet(s) \cup ToSet(t)
  BY <1>4 DEF ToSet
<1>6. ToSet(s) \subseteq ToSet(s \o t)
  BY <1>4 DEF ToSet
<1>7. ToSet(t) \subseteq ToSet(s \o t)
  <2> SUFFICES ASSUME NEW i \in 1 .. Len(t)
               PROVE  t[i] \in ToSet(s \o t)
    BY <1>4 DEF ToSet
  <2>1. Len(s) + i \in 1 .. (Len(s) + Len(t)) /\ (s \o t)[Len(s) + i] = t[i]
    BY <1>4
  <2> QED
    BY <1>4, <2>1 DEF ToSet
<1>8. t = <<>> => s \o t = s
  BY <1>1
<1>9. s = <<>> => s \o t = t
  BY <1>2
<1> QED
  BY <1>4, <1>5, <1>6, <1>7, <1>8, <1>9 DEF IsSequence

-----------------------------------------------------------------------------
(* Headers of one line.                                                    *)

LEMMA OneLine ==
    ASSUME NEW s, Len(s) = 1
    PROVE  FlattenSeq(s) = s[1]
<1> DEFINE flatten ==
        CHOOSE flatten : flatten = [i \in 1 .. Len(s) |-> IF i = 1 THEN s[i] ELSE flatten[i - 1] \o s[i]]
<1>1. Len(s) # 0
  OBVIOUS
<1>2. FlattenSeq(s) = flatten[Len(s)]
  BY <1>1 DEF FlattenSeq
<1> DEFINE g == [i \in 1 .. Len(s) |-> s[i]]
<1>3. g = [i \in 1 .. Len(s) |-> IF i = 1 THEN s[i] ELSE g[i - 1] \o s[i]]
  OBVIOUS
<1>4. flatten = [i \in 1 .. Len(s) |-> IF i = 1 THEN s[i] ELSE flatten[i - 1] \o s[i]]
  BY <1>3, Zenon
<1>5. flatten[1] = s[1]
  BY <1>4
<1> QED
  BY <1>2, <1>5

LEMMA SingleLine ==
    ASSUME NEW http, NEW name, NEW line, http.headers[name] = <<line>>
    PROVE  ~repeated(http, name) /\ field(http, name) = line
<1>1. Len(<<line>>) = 1 /\ <<line>>[1] = line
  OBVIOUS
<1>2. FlattenSeq(<<line>>) = line
  BY <1>1, OneLine
<1> QED
  BY <1>1, <1>2 DEF repeated, field

LEMMA OneItem ==
    ASSUME NEW http, NEW name, NEW item, http.headers[name] = one(item)
    PROVE  ~repeated(http, name) /\ field(http, name) = <<item>> /\ field(http, name)[1] = item
<1>1. http.headers[name] = <<<<item>>>>
  BY DEF one
<1>2. <<item>>[1] = item
  OBVIOUS
<1> QED
  BY <1>1, <1>2, SingleLine

\* What an intermediary makes of a message.
LEMMA Passed ==
    ASSUME NEW http, {"status", "headers"} \subseteq DOMAIN http \/ {"path", "headers"} \subseteq DOMAIN http,
           NEW a
    PROVE  LET r == through(http, a)
           IN  /\ DOMAIN r = DOMAIN http
               /\ "status" \in DOMAIN http => r.status = http.status
               /\ "path" \in DOMAIN http => r.path = http.path
               /\ DOMAIN r.headers \subseteq DOMAIN http.headers
               /\ \A name \in DOMAIN r.headers :
                     \/ r.headers[name] = http.headers[name]
                     \/ r.headers[name] = http.headers[name] \o http.headers[name]
               /\ a # None /\ a.how = "drop" => DOMAIN http.headers \ {a.header} \subseteq DOMAIN r.headers
               /\ a # None /\ a.how # "drop" => DOMAIN http.headers \ {"upgrade"} \subseteq DOMAIN r.headers
               /\ a = None => r = http
  BY DEF through, altered, has

-----------------------------------------------------------------------------
(* Requests and responses.                                                 *)

LEMMA Present ==
    ASSUME NEW lines
    PROVE  /\ \A name : name \in DOMAIN present(lines) <=> name \in DOMAIN lines /\ lines[name] # <<>>
           /\ \A name \in DOMAIN present(lines) : present(lines)[name] = lines[name]
  BY DEF present

LEMMA SomeLine ==
    ASSUME NEW item
    PROVE  one(item) # <<>> /\ <<item>> # <<>>
<1>1. \A x : Len(<<x>>) = 1 /\ Len(<<>>) = 0
  OBVIOUS
<1> QED
  BY <1>1 DEF one

RequestFields == {"method", "http", "fragment", "redirect", "path", "headers"}

\* What is in the request q of connection c, with k's parameters and onConnecting's r.
IsRequest(q, c, k, r) ==
    LET headers == q.headers
        name == IF k.version > 10 THEN "origin" ELSE "sec-websocket-origin"
    IN  /\ DOMAIN q = RequestFields /\ q.path = r.resource
        /\ {"host", "sec-websocket-key", "sec-websocket-version"} \subseteq DOMAIN headers
        /\ headers["host"] = one([host |-> r.host, port |-> r.port])
        /\ headers["sec-websocket-key"] = one([key |-> c])
        /\ headers["sec-websocket-version"] = one(SPEC_TO_PROTOCOL_VERSION(k.version))
        /\ name \in DOMAIN headers <=> r.origin # None
        /\ r.origin # None => headers[name] = one(r.origin)
        /\ "sec-websocket-protocol" \in DOMAIN headers <=> r.protocols # <<>>
        /\ r.protocols # <<>> => headers["sec-websocket-protocol"] = <<r.protocols>>
        /\ "sec-websocket-extensions" \in DOMAIN headers <=> k.offers # <<>>
        /\ k.offers # <<>> => headers["sec-websocket-extensions"] = <<k.offers>>
        /\ "x-forwarded-for" \in DOMAIN headers <=> k.claims # <<>>
        /\ k.claims # <<>> => headers["x-forwarded-for"] = <<k.claims>>

LEMMA RequestIs ==
    ASSUME NEW c, NEW k, NEW r
    PROVE  IsRequest(http_request(c, k, r), c, k, r)
<1> DEFINE originName == IF k.version > 10 THEN "origin" ELSE "sec-websocket-origin"
           lines(name) ==
            CASE name = "host" -> one([host |-> r.host, port |-> r.port])
              [] name = "upgrade" -> one("websocket")
              [] name = "connection" -> one("upgrade")
              [] name = "sec-websocket-key" -> one([key |-> c])
              [] name = "sec-websocket-version" -> one(SPEC_TO_PROTOCOL_VERSION(k.version))
              [] name = originName /\ r.origin # None -> one(r.origin)
              [] name = "sec-websocket-protocol" /\ r.protocols # <<>> -> <<r.protocols>>
              [] name = "sec-websocket-extensions" /\ k.offers # <<>> -> <<k.offers>>
              [] name = "x-forwarded-for" /\ k.claims # <<>> -> <<k.claims>>
              [] OTHER -> <<>>
           all == [name \in RequestHeaders |-> lines(name)]
           q == http_request(c, k, r)
<1>1. /\ DOMAIN q = RequestFields /\ q.path = r.resource /\ q.headers = present(all)
  BY DEF http_request, RequestFields
<1>2. originName \in {"origin", "sec-websocket-origin"}
  OBVIOUS
<1>3. /\ lines("host") = one([host |-> r.host, port |-> r.port])
      /\ lines("sec-websocket-key") = one([key |-> c])
      /\ lines("sec-websocket-version") = one(SPEC_TO_PROTOCOL_VERSION(k.version))
  OBVIOUS
<1>4. lines(originName) = IF r.origin # None THEN one(r.origin) ELSE <<>>
  BY <1>2
<1>5. /\ lines("sec-websocket-protocol") = IF r.protocols # <<>> THEN <<r.protocols>> ELSE <<>>
      /\ lines("sec-websocket-extensions") = IF k.offers # <<>> THEN <<k.offers>> ELSE <<>>
      /\ lines("x-forwarded-for") = IF k.claims # <<>> THEN <<k.claims>> ELSE <<>>
  BY <1>2
<1> HIDE DEF originName, lines
<1>6. /\ DOMAIN all = RequestHeaders /\ \A name \in RequestHeaders : all[name] = lines(name)
      /\ originName \in RequestHeaders
      /\ {"host", "sec-websocket-key", "sec-websocket-version", "sec-websocket-protocol",
          "sec-websocket-extensions", "x-forwarded-for"} \subseteq RequestHeaders
  BY <1>2 DEF RequestHeaders
<1> HIDE DEF all, q
<1>7. \A name \in RequestHeaders :
          /\ name \in DOMAIN q.headers <=> lines(name) # <<>>
          /\ lines(name) # <<>> => q.headers[name] = lines(name)
  BY <1>1, <1>6, Present
<1>8. \A x : one(x) # <<>> /\ <<x>> # <<>>
  BY SomeLine
<1>9. /\ {"host", "sec-websocket-key", "sec-websocket-version"} \subseteq DOMAIN q.headers
      /\ q.headers["host"] = one([host |-> r.host, port |-> r.port])
      /\ q.headers["sec-websocket-key"] = one([key |-> c])
      /\ q.headers["sec-websocket-version"] = one(SPEC_TO_PROTOCOL_VERSION(k.version))
  BY <1>3, <1>6, <1>7, <1>8
<1>10. /\ originName \in DOMAIN q.headers <=> r.origin # None
       /\ r.origin # None => q.headers[originName] = one(r.origin)
  BY <1>4, <1>6, <1>7, <1>8
<1>11. /\ "sec-websocket-protocol" \in DOMAIN q.headers <=> r.protocols # <<>>
       /\ r.protocols # <<>> => q.headers["sec-websocket-protocol"] = <<r.protocols>>
  BY <1>5, <1>6, <1>7, <1>8
<1>12. /\ "sec-websocket-extensions" \in DOMAIN q.headers <=> k.offers # <<>>
       /\ k.offers # <<>> => q.headers["sec-websocket-extensions"] = <<k.offers>>
  BY <1>5, <1>6, <1>7, <1>8
<1>13. /\ "x-forwarded-for" \in DOMAIN q.headers <=> k.claims # <<>>
       /\ k.claims # <<>> => q.headers["x-forwarded-for"] = <<k.claims>>
  BY <1>5, <1>6, <1>7, <1>8
<1> QED
  BY <1>1, <1>9, <1>10, <1>11, <1>12, <1>13 DEF originName, q, IsRequest

LEMMA ResponseIs ==
    ASSUME NEW s
    PROVE  LET w == http_response(s)
               headers == w.headers
           IN  /\ DOMAIN w = {"status", "http", "headers"} /\ w.status = 101
               /\ "sec-websocket-accept" \in DOMAIN headers
               /\ headers["sec-websocket-accept"] = one(s.request.key)
               /\ "sec-websocket-protocol" \in DOMAIN headers <=> s.protocol_in_use # None
               /\ s.protocol_in_use # None => headers["sec-websocket-protocol"] = one(s.protocol_in_use)
               /\ "sec-websocket-extensions" \in DOMAIN headers <=> s.pmce # None
               /\ s.pmce # None => headers["sec-websocket-extensions"] = one(s.pmce)
<1> DEFINE lines(name) ==
            CASE name = "upgrade" -> one("websocket")
              [] name = "connection" -> one("upgrade")
              [] name = "sec-websocket-accept" -> one(s.request.key)
              [] name = "sec-websocket-protocol" /\ s.protocol_in_use # None -> one(s.protocol_in_use)
              [] name = "sec-websocket-extensions" /\ s.pmce # None -> one(s.pmce)
              [] OTHER -> <<>>
           all == [name \in ResponseHeaders |-> lines(name)]
           w == http_response(s)
<1>1. DOMAIN w = {"status", "http", "headers"} /\ w.status = 101 /\ w.headers = present(all)
  BY DEF http_response
<1>2. /\ lines("sec-websocket-accept") = one(s.request.key)
      /\ lines("sec-websocket-protocol") = IF s.protocol_in_use # None THEN one(s.protocol_in_use) ELSE <<>>
      /\ lines("sec-websocket-extensions") = IF s.pmce # None THEN one(s.pmce) ELSE <<>>
  OBVIOUS
<1> HIDE DEF lines
<1>3. /\ DOMAIN all = ResponseHeaders /\ \A name \in ResponseHeaders : all[name] = lines(name)
      /\ {"sec-websocket-accept", "sec-websocket-protocol", "sec-websocket-extensions"}
            \subseteq ResponseHeaders
  BY DEF ResponseHeaders
<1> HIDE DEF all, w
<1>4. \A name \in ResponseHeaders :
          /\ name \in DOMAIN w.headers <=> lines(name) # <<>>
          /\ lines(name) # <<>> => w.headers[name] = lines(name)
  BY <1>1, <1>3, Present
<1>5. \A x : one(x) # <<>>
  BY SomeLine
<1>6. "sec-websocket-accept" \in DOMAIN w.headers /\ w.headers["sec-websocket-accept"] = one(s.request.key)
  BY <1>2, <1>3, <1>4, <1>5
<1>7. /\ "sec-websocket-protocol" \in DOMAIN w.headers <=> s.protocol_in_use # None
      /\ s.protocol_in_use # None => w.headers["sec-websocket-protocol"] = one(s.protocol_in_use)
  BY <1>2, <1>3, <1>4, <1>5
<1>8. /\ "sec-websocket-extensions" \in DOMAIN w.headers <=> s.pmce # None
      /\ s.pmce # None => w.headers["sec-websocket-extensions"] = one(s.pmce)
  BY <1>2, <1>3, <1>4, <1>5
<1> QED
  BY <1>1, <1>6, <1>7, <1>8 DEF w

\* Only these attributes are in a response.
LEMMA SameResponse ==
    ASSUME NEW s, NEW t, t.request = s.request, t.protocol_in_use = s.protocol_in_use, t.pmce = s.pmce
    PROVE  http_response(t) = http_response(s)
  BY DEF http_response

\* A header of one line that has not been repeated is as it was sent.
LEMMA AsSent ==
    ASSUME NEW http, {"status", "headers"} \subseteq DOMAIN http \/ {"path", "headers"} \subseteq DOMAIN http,
           NEW a, NEW name, NEW line, http.headers[name] = <<line>>,
           has(through(http, a), name), ~repeated(through(http, a), name)
    PROVE  has(http, name) /\ through(http, a).headers[name] = <<line>>
<1>1. Len(<<line>> \o <<line>>) = 2
  OBVIOUS
<1>2. through(http, a).headers[name] # <<line>> \o <<line>>
  BY <1>1 DEF repeated
<1> QED
  BY <1>2, Passed DEF has

-----------------------------------------------------------------------------
(* What is written goes out.                                               *)

\* A connection in the middle of a step, and what the step leaves of it.
Whole(n) ==
    /\ DOMAIN n = ConnectionFields /\ DOMAIN n.client = ClientFields /\ DOMAIN n.server = ServerFields
    /\ IsSequence(n.toServer) /\ IsSequence(n.toClient)
    /\ IsSequence(n.client.writes) /\ IsSequence(n.server.writes)

SameClient(p, q) ==
    /\ q.state = p.state /\ q.pending = p.pending /\ q.requested = p.requested
    /\ q.websocket_version = p.websocket_version
    /\ q.protocol_in_use = p.protocol_in_use /\ q.pmce = p.pmce /\ q.refused = p.refused

SameServer(s, t) ==
    /\ t.state = s.state /\ t.options = s.options /\ t.peer = s.peer /\ t.request = s.request
    /\ t.pending = s.pending /\ t.protocol_in_use = s.protocol_in_use /\ t.pmce = s.pmce
    /\ t.code = s.code

Settled(n) == Whole(n) /\ n.client.writes = <<>> /\ n.server.writes = <<>>

LEMMA Flushed ==
    ASSUME NEW n, Whole(n)
    PROVE  LET f == flushed(n)
           IN  /\ Settled(f) /\ f.link = n.link /\ f.altered = n.altered
               /\ SameClient(n.client, f.client) /\ SameServer(n.server, f.server)
               /\ n.link = "down" => f.toServer = n.toServer /\ f.toClient = n.toClient
               /\ n.client.writes = <<>> => f.toServer = n.toServer
               /\ n.server.writes = <<>> => f.toClient = n.toClient
               /\ n.link # "down" /\ n.toServer = <<>> => f.toServer = n.client.writes
               /\ ToSet(f.toServer) \subseteq ToSet(n.toServer) \cup ToSet(n.client.writes)
               /\ ToSet(f.toClient) \subseteq ToSet(n.toClient) \cup ToSet(n.server.writes)
<1> DEFINE f == flushed(n)
<1>0. /\ DOMAIN n = ConnectionFields /\ DOMAIN n.client = ClientFields /\ DOMAIN n.server = ServerFields
      /\ IsSequence(n.toServer) /\ IsSequence(n.toClient)
      /\ IsSequence(n.client.writes) /\ IsSequence(n.server.writes)
  BY DEF Whole
<1>1. /\ DOMAIN f = ConnectionFields /\ f.link = n.link /\ f.altered = n.altered
      /\ f.client = [n.client EXCEPT !.writes = <<>>] /\ f.server = [n.server EXCEPT !.writes = <<>>]
  BY <1>0 DEF flushed, ConnectionFields
<1>2. IF n.link = "down" THEN f.toServer = n.toServer /\ f.toClient = n.toClient
      ELSE f.toServer = n.toServer \o n.client.writes /\ f.toClient = n.toClient \o n.server.writes
  BY <1>0 DEF flushed, ConnectionFields
<1> HIDE DEF f
<1>3. DOMAIN f.client = ClientFields /\ f.client.writes = <<>> /\ SameClient(n.client, f.client)
  BY <1>0, <1>1 DEF ClientFields, SameClient
<1>4. DOMAIN f.server = ServerFields /\ f.server.writes = <<>> /\ SameServer(n.server, f.server)
  BY <1>0, <1>1 DEF ServerFields, SameServer
<1>6. /\ IsSequence(f.toServer) /\ ToSet(f.toServer) \subseteq ToSet(n.toServer) \cup ToSet(n.client.writes)
      /\ n.client.writes = <<>> => f.toServer = n.toServer
      /\ n.link # "down" /\ n.toServer = <<>> => f.toServer = n.client.writes
  BY ZenonT(40), <1>0, <1>2, Joined
<1>7. /\ IsSequence(f.toClient) /\ ToSet(f.toClient) \subseteq ToSet(n.toClient) \cup ToSet(n.server.writes)
      /\ n.server.writes = <<>> => f.toClient = n.toClient
  BY ZenonT(40), <1>0, <1>2, Joined
<1>8. Settled(f)
  BY <1>1, <1>3, <1>4, <1>6, <1>7, EmptySequence DEF Settled, Whole
<1> QED
  BY <1>1, <1>2, <1>3, <1>4, <1>6, <1>7, <1>8 DEF f

-----------------------------------------------------------------------------
(* The server's methods.                                                   *)

\* What a request becomes: an error, or what onConnect is told.
LEMMA RequestProcessed ==
    ASSUME NEW s, DOMAIN s = ServerFields, IsSequence(s.writes), NEW http
    PROVE  LET r == server_processHandshake(s, http)
               version == field(http, "sec-websocket-version")[1]
           IN  /\ DOMAIN r = ServerFields /\ IsSequence(r.writes)
               /\ r.options = s.options /\ r.protocol_in_use = s.protocol_in_use /\ r.pmce = s.pmce
               /\ r.peer = peerOf(s, http)
               /\ \A w \in ToSet(r.writes) : w \in ToSet(s.writes) \/ Refusal(w)
               /\ \/ r.state = "CLOSED" /\ r.pending = s.pending /\ r.request = s.request
                  \/ /\ r.state = s.state /\ r.pending
                     /\ r.request = ConnectionRequest([s EXCEPT !.peer = peerOf(s, http)], http, version)
                     /\ has(http, "sec-websocket-version") /\ ~repeated(http, "sec-websocket-version")
                     /\ has(http, "sec-websocket-key") /\ ~repeated(http, "sec-websocket-key")
                     /\ ~full(s)
<1> DEFINE p == [s EXCEPT !.peer = peerOf(s, http)]
           version == field(http, "sec-websocket-version")[1]
           r == server_processHandshake(s, http)
           failed(code) == server_failHandshake(p, code)
           admitted == [p EXCEPT !.pending = TRUE, !.request = ConnectionRequest(p, http, version)]
<1>1. /\ DOMAIN p = ServerFields /\ p.peer = peerOf(s, http)
      /\ \A attr \in ServerFields \ {"peer"} : p[attr] = s[attr]
  BY DEF ServerFields
<1>2. \/ r \in {failed(400), failed(405), failed(426), failed(503), failed(505)}
      \/ r = sendServerStatus(p, http)
      \/ /\ r = admitted
         /\ has(http, "sec-websocket-version") /\ ~repeated(http, "sec-websocket-version")
         /\ keyIsGood(http) /\ ~full(p)
  BY DEF server_processHandshake
<1> HIDE DEF p, r, version
<1>3. full(p) <=> full(s)
  BY <1>1 DEF full, ServerFields
<1> DEFINE refused(x) ==
        /\ DOMAIN x = ServerFields /\ IsSequence(x.writes)
        /\ x.options = s.options /\ x.protocol_in_use = s.protocol_in_use /\ x.pmce = s.pmce
        /\ x.peer = peerOf(s, http) /\ x.state = "CLOSED" /\ x.pending = s.pending
        /\ x.request = s.request
        /\ \A w \in ToSet(x.writes) : w \in ToSet(s.writes) \/ Refusal(w)
<1>4. ASSUME NEW w, Refusal(w), NEW x, DOMAIN x = ServerFields, x.state = "CLOSED",
             x.writes = Append(s.writes, w),
             \A attr \in ServerFields \ {"state", "writes", "code"} : x[attr] = p[attr]
      PROVE  refused(x)
  <2>1. IsSequence(x.writes) /\ ToSet(x.writes) = ToSet(s.writes) \cup {w}
    BY <1>4, Appended
  <2> QED
    BY <1>1, <1>4, <2>1 DEF ServerFields
<1>5. \A code : Refusal(http_error(code))
  BY DEF http_error, Refusal
<1>6. \A code : refused(failed(code))
  <2> TAKE code
  <2> DEFINE x == failed(code)
  <2>1. /\ DOMAIN x = ServerFields /\ x.state = "CLOSED"
        /\ x.writes = Append(s.writes, http_error(code))
        /\ \A attr \in ServerFields \ {"state", "writes", "code"} : x[attr] = p[attr]
    BY <1>1 DEF server_failHandshake, dropConnection, sendHttpErrorResponse, ServerFields
  <2> QED
    BY <1>4, <1>5, <2>1
<1>7. refused(sendServerStatus(p, http))
  <2> DEFINE x == sendServerStatus(p, http)
             w == http_error(IF http.redirect THEN 303 ELSE 200)
  <2>1. /\ DOMAIN x = ServerFields /\ x.state = "CLOSED" /\ x.writes = Append(s.writes, w)
        /\ \A attr \in ServerFields \ {"state", "writes", "code"} : x[attr] = p[attr]
    BY <1>1 DEF sendServerStatus, dropConnection, ServerFields
  <2>2. Refusal(w)
    BY <1>5
  <2> QED
    <3> HIDE DEF x, w, refused
    <3> QED
      BY <1>4, <2>1, <2>2 DEF x
<1>8. /\ DOMAIN admitted = ServerFields /\ admitted.pending
      /\ admitted.request = ConnectionRequest(p, http, version)
      /\ \A attr \in ServerFields \ {"pending", "request"} : admitted[attr] = p[attr]
  BY <1>1 DEF ServerFields
<1>9. ConnectionRequest(p, http, version)
          = ConnectionRequest([s EXCEPT !.peer = peerOf(s, http)], http, version)
  BY DEF p
<1> HIDE DEF admitted, refused
<1>10. CASE refused(r)
  BY <1>10 DEF refused, r, version
<1>11. CASE /\ r = admitted
            /\ has(http, "sec-websocket-version") /\ ~repeated(http, "sec-websocket-version")
            /\ keyIsGood(http) /\ ~full(p)
  <2>1. has(http, "sec-websocket-key") /\ ~repeated(http, "sec-websocket-key")
    BY <1>11 DEF keyIsGood
  <2>2. /\ DOMAIN r = ServerFields /\ r.pending /\ r.request = ConnectionRequest(p, http, version)
        /\ r.peer = peerOf(s, http)
        /\ \A attr \in {"options", "protocol_in_use", "pmce", "writes", "state"} : r[attr] = s[attr]
    BY <1>1, <1>8, <1>11 DEF ServerFields
  <2> QED
    BY <1>3, <1>9, <1>11, <2>1, <2>2 DEF r, version
<1> QED
  BY <1>2, <1>6, <1>7, <1>10, <1>11

\* What onConnect's outcome makes of the server: an error, nothing when the callback
\* raises, or a response.
LEMMA RequestAnswered ==
    ASSUME NEW s, DOMAIN s = ServerFields, s.writes = <<>>, NEW answer, NEW accept
    PROVE  LET r == server_onConnect(s, answer, accept)
           IN  /\ DOMAIN r = ServerFields /\ IsSequence(r.writes)
               /\ r.options = s.options /\ r.peer = s.peer /\ r.request = s.request
               /\ ~r.pending
               /\ \/ /\ r.state = "CLOSED"
                     /\ \E code \in {400, 403, 500} : r.writes = <<http_error(code)>>
                  \/ r.state = s.state /\ r.writes = <<>>
                  \/ r.state = "OPEN" /\ r.writes = <<http_response(r)>>
<1> DEFINE done(r) ==
        /\ DOMAIN r = ServerFields /\ IsSequence(r.writes)
        /\ r.options = s.options /\ r.peer = s.peer /\ r.request = s.request
        /\ ~r.pending
        /\ \/ r.state = "CLOSED" /\ \E code \in {400, 403, 500} : r.writes = <<http_error(code)>>
           \/ r.state = s.state /\ r.writes = <<>>
           \/ r.state = "OPEN" /\ r.writes = <<http_response(r)>>
<1>0. \A m : Append(<<>>, m) = <<m>>
  OBVIOUS
<1>1. \A m : Append(<<>>, m) = <<m>> /\ IsSequence(<<m>>)
  BY <1>0, OneElement
<1>2. ASSUME NEW x, DOMAIN x = ServerFields, ~x.pending, x.writes = <<>>,
             x.options = s.options, x.peer = s.peer, x.request = s.request,
             NEW code \in {400, 403, 500}
      PROVE  done(server_failHandshake(x, code))
  <2> DEFINE r == server_failHandshake(x, code)
  <2>1. /\ DOMAIN r = ServerFields /\ r.state = "CLOSED" /\ r.writes = Append(<<>>, http_error(code))
        /\ r.options = s.options /\ r.peer = s.peer /\ r.request = s.request /\ ~r.pending
    BY <1>2 DEF server_failHandshake, dropConnection, sendHttpErrorResponse, ServerFields
  <2> QED
    BY <1>1, <2>1
<1>3. \A protocol : done(succeedHandshake(s, protocol, accept))
  <2> TAKE protocol
  <2> DEFINE offers == SelectSeq(s.request.extensions,
                                 LAMBDA e : e.name \in PERMESSAGE_COMPRESSION_EXTENSION)
             chosen == CASE offers = <<>> \/ accept = "none" -> None
                         [] accept = "first" -> offers[1]
                         [] accept = "last" -> offers[Len(offers)]
             opened == [s EXCEPT !.state = "OPEN", !.pending = FALSE,
                                 !.protocol_in_use = protocol, !.pmce = chosen]
             raised == [s EXCEPT !.pending = FALSE]
             bad == [s EXCEPT !.pending = FALSE, !.protocol_in_use = protocol]
             r == succeedHandshake(s, protocol, accept)
  <2>1. \/ r = raised
        \/ r = server_failHandshake(bad, 400)
        \/ r = [opened EXCEPT !.writes = Append(@, http_response(opened))]
    <3>1. r = CASE protocol # None /\ protocol \notin Range(s.request.protocols) -> raised
                [] \E i \in DOMAIN offers : offers[i].bad -> server_failHandshake(bad, 400)
                [] OTHER -> [opened EXCEPT !.writes = Append(@, http_response(opened))]
      BY Zenon DEF succeedHandshake
    <3> HIDE DEF offers, raised, opened, r, bad
    <3> QED
      BY <3>1
  <2> HIDE DEF r, chosen
  <2>2. CASE r = raised
    <3>1. /\ DOMAIN r = ServerFields /\ ~r.pending /\ r.writes = <<>> /\ r.state = s.state
          /\ r.options = s.options /\ r.peer = s.peer /\ r.request = s.request
      BY <2>2 DEF ServerFields
    <3> QED
      BY <3>1, EmptySequence DEF r
  <2>3. CASE r = server_failHandshake(bad, 400)
    <3>1. /\ DOMAIN bad = ServerFields /\ ~bad.pending /\ bad.writes = <<>>
          /\ bad.options = s.options /\ bad.peer = s.peer /\ bad.request = s.request
      BY DEF ServerFields
    <3>2. 400 \in {400, 403, 500}
      OBVIOUS
    <3> HIDE DEF bad, done
    <3>3. done(server_failHandshake(bad, 400))
      BY <1>2, <3>1, <3>2
    <3> QED
      BY <2>3, <3>3 DEF r
  <2>4. CASE r = [opened EXCEPT !.writes = Append(@, http_response(opened))]
    <3>1. /\ DOMAIN opened = ServerFields /\ ~opened.pending /\ opened.writes = <<>>
          /\ opened.state = "OPEN"
          /\ opened.options = s.options /\ opened.peer = s.peer /\ opened.request = s.request
      BY DEF ServerFields
    <3> HIDE DEF opened
    <3>2. /\ DOMAIN r = ServerFields /\ r.writes = Append(<<>>, http_response(opened))
          /\ \A attr \in ServerFields \ {"writes"} : r[attr] = opened[attr]
      BY <2>4, <3>1 DEF ServerFields
    <3>3. http_response(r) = http_response(opened)
      BY <3>2, SameResponse DEF ServerFields
    <3>4. r.writes = <<http_response(r)>> /\ IsSequence(r.writes)
      BY <1>1, <3>2, <3>3
    <3>5. /\ ~r.pending /\ r.state = "OPEN" /\ r.options = s.options /\ r.peer = s.peer
          /\ r.request = s.request
      BY <3>1, <3>2 DEF ServerFields
    <3> QED
      BY <3>2, <3>4, <3>5 DEF r
  <2> QED
    BY <2>1, <2>2, <2>3, <2>4
<1> DEFINE denied(code) == server_failHandshake([s EXCEPT !.pending = FALSE], code)
<1>5. ASSUME NEW x, x = [s EXCEPT !.pending = FALSE], NEW code \in {400, 403, 500}
      PROVE  done(server_failHandshake(x, code))
  <2>1. /\ DOMAIN x = ServerFields /\ ~x.pending /\ x.writes = <<>>
        /\ x.options = s.options /\ x.peer = s.peer /\ x.request = s.request
    BY <1>5 DEF ServerFields
  <2> HIDE DEF done
  <2> QED
    BY <1>2, <2>1
<1> HIDE DEF done
<1>6. \/ server_onConnect(s, answer, accept) \in {denied(403), denied(500)}
      \/ \E protocol : server_onConnect(s, answer, accept) = succeedHandshake(s, protocol, accept)
  BY DEF server_onConnect
<1>7. done(server_onConnect(s, answer, accept))
  <2>1. done(denied(403)) /\ done(denied(500))
    BY <1>5
  <2> QED
    BY <1>3, <1>6, <2>1
<1> QED
  BY <1>7 DEF done

-----------------------------------------------------------------------------
(* The client's methods.                                                   *)

\* A client that opens has the answer to its own request, and its protocol and
\* extension are those of the response.
LEMMA ResponseProcessed ==
    ASSUME NEW p, DOMAIN p = ClientFields, NEW http, NEW c, NEW k
    PROVE  LET r == client_processHandshake(p, http, c, k)
           IN  /\ DOMAIN r = ClientFields
               /\ r.requested = p.requested /\ r.pending = p.pending /\ r.writes = p.writes
               /\ \/ r.state = "CLOSED"
                  \/ /\ r.state = "OPEN" /\ r.websocket_version = k.version
                     /\ acceptIsGood(http, c)
                     /\ \A name \in {"sec-websocket-extensions", "sec-websocket-protocol"} :
                            has(http, name) => ~repeated(http, name)
                     /\ r.protocol_in_use = IF has(http, "sec-websocket-protocol")
                                            THEN field(http, "sec-websocket-protocol")[1] ELSE None
                     /\ has(http, "sec-websocket-extensions") =>
                           r.pmce = IF field(http, "sec-websocket-extensions") = <<>> THEN None
                                    ELSE field(http, "sec-websocket-extensions")[1]
                     /\ ~has(http, "sec-websocket-extensions") => r.pmce = None
  BY DEF client_processHandshake, client_failHandshake, ClientFields

-----------------------------------------------------------------------------
(* Steps of one connection.                                                *)

\* What the responses of a server's end are about does not change any more.
Keeps(k, n) ==
    /\ k.link = "down" => n.link = "down"
    /\ k.link = "up" /\ k.server.state = "OPEN" =>
          \/ n.link = "down"
          \/ /\ n.link = "up" /\ n.server.state = "OPEN"
             /\ http_response(n.server) = http_response(k.server)

LEMMA StillFrom ==
    ASSUME NEW w, NEW d, NEW k, NEW n, From(w, d, k), Keeps(k, n)
    PROVE  From(w, d, n)
  BY DEF From, Keeps

LEMMA OneMoves ==
    ASSUME Good, opt' = opt, NEW c \in Connections, NEW n,
           conn' = [conn EXCEPT ![c] = n], Keeps(conn[c], n), Sound(c, n),
           \A w \in ToSet(n.toClient) :
               w \in ToSet(conn[c].toClient) \/ Refusal(w) \/ From(w, c, n) \/ w \in cache,
           \A w \in cache' : w \in cache \/ From(w, c, n)
    PROVE  Good'
<1>1. /\ DOMAIN conn' = Connections /\ conn'[c] = n
      /\ \A d \in Connections \ {c} : conn'[d] = conn[d]
  BY DEF Good
<1>2. \A w : Known(w, conn) => Known(w, conn')
  <2> SUFFICES ASSUME NEW w, NEW d \in Connections, From(w, d, conn[d])
               PROVE  From(w, d, conn'[d])
    BY DEF Known
  <2>1. CASE d = c
    BY <1>1, <2>1, StillFrom
  <2>2. CASE d # c
    BY <1>1, <2>2
  <2> QED
    BY <2>1, <2>2
<1>3. \A w : From(w, c, n) => Known(w, conn')
  BY <1>1 DEF Known
<1>4. \A w \in cache : Known(w, conn')
  BY <1>2 DEF Good
<1>5. \A w \in cache' : Known(w, conn')
  BY <1>3, <1>4
<1>6. \A d \in Connections : Inbound(conn'[d], conn')
  <2>1. Inbound(n, conn')
    <3>1. \A w \in ToSet(conn[c].toClient) : Refusal(w) \/ Known(w, conn)
      BY DEF Good, Inbound
    <3> QED
      BY <1>2, <1>3, <1>4, <3>1 DEF Inbound
  <2>2. \A d \in Connections : Inbound(conn[d], conn')
    BY <1>2 DEF Good, Inbound
  <2> QED
    BY <1>1, <2>1, <2>2
<1>7. \A d : clientFactory(d)' = clientFactory(d)
  BY DEF clientFactory
<1>8. \A d : request(d)' = request(d) /\ versionOf(d)' = versionOf(d)
  BY <1>7 DEF request, versionOf
<1>9. \A d \in Connections : Sound(d, conn'[d])
  BY <1>1 DEF Good
<1>10. ASSUME NEW d \in Connections
       PROVE  Sound(d, conn[d])'
  <2>1. Shape(conn'[d]) /\ Outbound(d, conn'[d]) /\ Served(d, conn'[d]) /\ Agreed(d, conn'[d])
    BY <1>9 DEF Sound
  <2>2. ConnectingRequest(clientFactory(d))' = ConnectingRequest(clientFactory(d))
    BY <1>7 DEF ConnectingRequest
  <2>3. Shape(conn[d])'
    BY <2>1 DEF Shape
  <2>4. Outbound(d, conn[d])'
    BY <1>8, <2>1, <2>2 DEF Outbound
  <2>5. Served(d, conn[d])'
    BY <1>8, <2>1 DEF Served
  <2>6. Agreed(d, conn[d])'
    BY <1>7, <2>1 DEF Agreed
  <2> QED
    BY <2>3, <2>4, <2>5, <2>6 DEF Sound
<1>11. (\A w \in cache : Known(w, conn))'
  BY <1>5 DEF Known, From
<1>12. \A d \in Connections : Inbound(conn[d], conn)'
  BY <1>6 DEF Inbound, Known, From, Refusal
<1> QED
  BY <1>1, <1>10, <1>11, <1>12 DEF Good

\* A step connects the server's end,
Joins(c, k, n) ==
    /\ k.link \in {"none", "proxy"} /\ n.link = "up"
    /\ k.link = "none" => c \in DOMAIN opt.clients
    /\ factory' = [factory EXCEPT !.countConnections = @ + 1]
    /\ n.server.request = None /\ ~n.server.pending /\ n.server.state = "CONNECTING"
    /\ n.server.options = factory.options /\ n.server.peer = Last(callers(c))

\* or has it read the client's request, as a and the web servers have left it,
Reads(c, k, n) ==
    /\ k.link = "up" /\ n.link = "up" /\ factory' = factory
    /\ k.client.requested = ConnectingRequest(clientFactory(c))
    /\ n.client.requested = ConnectingRequest(clientFactory(c))
    /\ n.server.options = k.server.options
    /\ \E a : LET http == forwarded(through(request(c), a), c)
                  version == field(http, "sec-websocket-version")[1]
              IN  /\ ~n.altered => ~k.altered /\ a = None
                  /\ n.server.peer = peerOf(k.server, http)
                  /\ \/ /\ n.server.request = k.server.request
                        /\ n.server.pending => k.server.pending
                        /\ n.server.state # "OPEN"
                     \/ /\ ~full(k.server)
                        /\ n.server.request
                             = ConnectionRequest([k.server EXCEPT !.peer = n.server.peer], http, version)
                        /\ has(http, "sec-websocket-version") /\ ~repeated(http, "sec-websocket-version")

\* or leaves what the server knows as it is.
Goes(c, k, n) ==
    /\ \/ n.link = k.link /\ factory' = factory
       \/ k.link = "none" /\ n.link = "proxy" /\ factory' = factory
       \/ k.link = "proxy" /\ n.link = "down" /\ factory' = factory
       \/ /\ k.link = "up" /\ n.link = "down"
          /\ factory' = [factory EXCEPT !.countConnections = @ - 1]
    /\ k.link = "none" => c \in DOMAIN opt.clients
    /\ n.server.request = k.server.request /\ n.server.options = k.server.options
    /\ n.server.peer = k.server.peer
    /\ n.server.pending => k.server.pending
    /\ n.server.state = "OPEN" => k.server.state = "OPEN" \/ k.server.pending
    /\ k.altered => n.altered
    /\ k.link # "none" =>
          n.client.requested \in {k.client.requested, ConnectingRequest(clientFactory(c))}

Steps(c) ==
    \E n : /\ conn' = [conn EXCEPT ![c] = n] /\ opt' = opt
           /\ Joins(c, conn[c], n) \/ Reads(c, conn[c], n) \/ Goes(c, conn[c], n)

\* A connection of which there is nothing yet.
LEMMA Unconnected ==
    /\ DOMAIN noConnection = ConnectionFields /\ noConnection.link = "none"
    /\ ~noConnection.client.pending /\ ~noConnection.server.pending
    /\ noConnection.client.state = "none" /\ noConnection.server.state = "none"
    /\ DOMAIN noConnection.server = ServerFields /\ noConnection.server.writes = <<>>
    /\ noConnection.server.request = None
    /\ noConnection.toServer = <<>> /\ noConnection.toClient = <<>> /\ noConnection.altered = FALSE
  BY DEF noConnection, noServer, ConnectionFields, ServerFields

LEMMA GoodInit == Init => Good
<1> SUFFICES ASSUME Init
             PROVE  Good
  OBVIOUS
<1>1. opt \in Options /\ DOMAIN conn = Connections /\ cache = {}
  BY DEF Init
<1>2. \A c \in Connections : conn[c] = noConnection
  BY DEF Init
<1>3. ASSUME NEW c \in Connections
      PROVE  Sound(c, conn[c]) /\ Inbound(conn[c], conn)
  <2>1. Shape(conn[c])
    BY <1>2, Unconnected, EmptySequence DEF Shape
  <2>2. Outbound(c, conn[c]) /\ Served(c, conn[c]) /\ Agreed(c, conn[c])
    BY <1>2, Unconnected DEF Outbound, Served, Agreed
  <2>3. Inbound(conn[c], conn)
    BY <1>2, Unconnected, EmptySequence DEF Inbound
  <2> QED
    BY <2>1, <2>2, <2>3 DEF Sound
<1> QED
  BY <1>1, <1>3 DEF Good

LEMMA ServerMade ==
    ASSUME NEW peer
    PROVE  LET s == server_connectionMade(peer)
           IN  /\ DOMAIN s = ServerFields /\ s.writes = <<>> /\ ~s.pending /\ s.state = "CONNECTING"
               /\ s.request = None /\ s.options = factory.options /\ s.peer = peer
  BY DEF server_connectionMade, noServer, ServerFields

LEMMA ConnectionMadeGood ==
    ASSUME Good, NEW c \in Connections, ConnectionMade(c)
    PROVE  Good' /\ Steps(c)
<1> DEFINE k == clientFactory(c)
           client == client_connectionMade(k)
           m == [conn[c] EXCEPT !.client = client, !.link = "proxy"]
<1>1. conn[c] = noConnection
  BY DEF ConnectionMade, Good, Sound, Shape
<1>2. DOMAIN client = ClientFields /\ client.state \in {"PROXY_CONNECTING", "CONNECTING"}
  BY DEF client_connectionMade, ClientFields
<1>3. /\ k.proxy => client.state = "PROXY_CONNECTING" /\ ~client.pending /\ client.writes = <<[connect |-> k.url.port]>>
      /\ ~k.proxy => client.writes = <<>>
  BY DEF client_connectionMade
<1> HIDE DEF client, k
<1>4. /\ DOMAIN m = ConnectionFields /\ m.client = client /\ m.link = "proxy" /\ m.server = noConnection.server
      /\ m.toServer = <<>> /\ m.toClient = <<>>
  BY <1>1, Unconnected DEF ConnectionFields
<1>5. IsSequence(client.writes) /\ (client.writes # <<>> => Tail(client.writes) = <<>>)
  BY <1>3, OneElement, EmptySequence
<1> HIDE DEF m
<1>7. CASE k.proxy
  <2>1. /\ conn' = [conn EXCEPT ![c] = flushed(m)] /\ opt' = opt /\ cache' = cache
        /\ factory' = factory /\ c \in DOMAIN opt.clients
    BY <1>7 DEF ConnectionMade, Put, m, k, client
  <2>2. Whole(m)
    BY <1>2, <1>4, <1>5, EmptySequence, Unconnected DEF Whole
  <2>3. PICK n : n = flushed(m)
    OBVIOUS
  <2>4. /\ Settled(n) /\ n.link = "proxy" /\ n.toServer = client.writes /\ n.toClient = <<>>
        /\ SameClient(client, n.client) /\ SameServer(noConnection.server, n.server)
    BY <1>4, <2>2, <2>3, Flushed, Unconnected
  <2>5. Shape(n)
    BY <2>4 DEF Settled, Whole, Shape
  <2>6. Outbound(c, n) /\ Served(c, n) /\ Agreed(c, n)
    BY <1>3, <1>5, <1>7, <2>4, EmptySequence, Unconnected DEF SameClient, SameServer, Outbound, Served, Agreed
  <2>7. Keeps(conn[c], n)
    BY <1>1, Unconnected DEF Keeps
  <2>8. Goes(c, conn[c], n)
    BY <1>1, <2>1, <2>4, Unconnected DEF Goes, SameServer
  <2> QED
    BY <2>1, <2>3, <2>4, <2>5, <2>6, <2>7, <2>8, EmptySequence, OneMoves DEF Sound, Steps
<1>8. CASE ~k.proxy
  <2> DEFINE u == connected(m, c)
             s == server_connectionMade(Last(callers(c)))
  <2>1. /\ conn' = [conn EXCEPT ![c] = flushed(u)] /\ opt' = opt /\ cache' = cache
        /\ c \in DOMAIN opt.clients /\ factory' = [factory EXCEPT !.countConnections = @ + 1]
    BY <1>8 DEF ConnectionMade, Put, counted, m, k, client
  <2>2. /\ DOMAIN u = ConnectionFields /\ u.client = client /\ u.link = "up" /\ u.server = s
        /\ u.toServer = <<>> /\ u.toClient = <<>>
    BY <1>4 DEF connected, ConnectionFields
  <2>3. /\ DOMAIN s = ServerFields /\ s.writes = <<>> /\ ~s.pending /\ s.state = "CONNECTING"
        /\ s.request = None /\ s.options = factory.options /\ s.peer = Last(callers(c))
    BY ServerMade
  <2> HIDE DEF u, s
  <2>4. Whole(u)
    BY <1>2, <1>3, <1>8, <2>2, <2>3, EmptySequence DEF Whole
  <2>5. PICK n : n = flushed(u)
    OBVIOUS
  <2>6. /\ Settled(n) /\ n.link = "up" /\ n.toServer = <<>> /\ n.toClient = <<>>
        /\ SameClient(client, n.client) /\ SameServer(s, n.server)
    BY <1>3, <1>8, <2>2, <2>3, <2>4, <2>5, Flushed
  <2>7. Shape(n)
    BY <2>6 DEF Settled, Whole, Shape
  <2>8. Outbound(c, n) /\ Served(c, n) /\ Agreed(c, n)
    BY <1>2, <2>3, <2>6, EmptySequence DEF SameClient, SameServer, Outbound, Served, Agreed
  <2>9. Keeps(conn[c], n)
    BY <1>1, Unconnected DEF Keeps
  <2>10. Joins(c, conn[c], n)
    BY <1>1, <2>1, <2>3, <2>6, Unconnected DEF Joins, SameServer
  <2> QED
    BY <2>1, <2>5, <2>6, <2>7, <2>8, <2>9, <2>10, EmptySequence, OneMoves DEF Sound, Steps
<1> QED
  BY <1>7, <1>8


LEMMA AtRest ==
    ASSUME Good, NEW c \in Connections, conn[c].link # "none"
    PROVE  Settled(conn[c]) /\ conn[c].link \in {"proxy", "up", "down"}
<1>1. Shape(conn[c])
  BY DEF Good, Sound
<1> QED
  BY <1>1, EmptySequence DEF Shape, Settled, Whole

LEMMA NothingMoves ==
    ASSUME Good, UNCHANGED <<opt, conn, cache>>
    PROVE  Good'
<1>1. \A d : clientFactory(d)' = clientFactory(d)
  BY DEF clientFactory
<1>2. \A d : /\ request(d)' = request(d) /\ versionOf(d)' = versionOf(d)
             /\ ConnectingRequest(clientFactory(d))' = ConnectingRequest(clientFactory(d))
  BY <1>1 DEF request, versionOf, ConnectingRequest
<1>3. ASSUME NEW d \in Connections
      PROVE  Sound(d, conn[d])' /\ Inbound(conn[d], conn)'
  <2>1. Shape(conn[d]) /\ Outbound(d, conn[d]) /\ Served(d, conn[d]) /\ Agreed(d, conn[d]) /\ Inbound(conn[d], conn)
    BY DEF Good, Sound
  <2>2. Shape(conn[d])' /\ Served(d, conn[d])'
    BY <1>2, <2>1 DEF Shape, Served
  <2>3. Outbound(d, conn[d])' /\ Agreed(d, conn[d])'
    BY <1>1, <1>2, <2>1 DEF Outbound, Agreed
  <2>4. Inbound(conn[d], conn)'
    BY <2>1 DEF Inbound, Known, From, Refusal
  <2> QED
    BY <2>2, <2>3, <2>4 DEF Sound
<1>4. (\A w \in cache : Known(w, conn))'
  BY DEF Good, Known, From
<1> QED
  BY <1>3, <1>4 DEF Good

LEMMA SameServerKeeps ==
    ASSUME NEW k, NEW n, n.link = k.link \/ n.link = "down", SameServer(k.server, n.server)
    PROVE  Keeps(k, n)
<1>1. http_response(n.server) = http_response(k.server)
  BY SameResponse DEF SameServer
<1> QED
  BY <1>1 DEF Keeps, SameServer

LEMMA ProxyAnswersGood ==
    ASSUME Good, NEW c \in Connections, NEW status \in opt.proxies, ProxyAnswers(c, status)
    PROVE  Good' /\ Steps(c)
<1> DEFINE w == http_error(status)
           m == [conn[c] EXCEPT !.toServer = Tail(@), !.toClient = Append(@, w)]
<1>1. conn[c].link = "proxy" /\ conn[c].toServer # <<>>
  BY DEF ProxyAnswers
<1>2. Settled(conn[c]) /\ Sound(c, conn[c])
  BY <1>1, AtRest DEF Good
<1>3. /\ Tail(conn[c].toServer) = <<>> /\ conn[c].client.state \in {"PROXY_CONNECTING", "CLOSED"}
      /\ ~conn[c].client.pending /\ conn[c].server.state = "none" /\ ~conn[c].server.pending
      /\ \A x \in ToSet(conn[c].toClient) : x.status \notin 200 .. 299
  BY <1>1, <1>2 DEF Sound, Outbound
<1>4. w.status = status /\ Refusal(w)
  BY DEF http_error, Refusal
<1> HIDE DEF w
<1>5. /\ DOMAIN m = ConnectionFields /\ m.link = "proxy" /\ m.client = conn[c].client
      /\ m.server = conn[c].server /\ m.toServer = <<>> /\ m.toClient = Append(conn[c].toClient, w)
      /\ m.altered = conn[c].altered
  BY <1>1, <1>2, <1>3 DEF Settled, Whole, ConnectionFields
<1>6. IsSequence(m.toClient) /\ ToSet(m.toClient) = ToSet(conn[c].toClient) \cup {w}
  BY <1>2, <1>5, Appended DEF Settled, Whole
<1> HIDE DEF m
<1>7. CASE status \in 200 .. 299
  <2> DEFINE u == connected(m, c)
             s == server_connectionMade(Last(callers(c)))
  <2>1. /\ conn' = [conn EXCEPT ![c] = flushed(u)] /\ opt' = opt /\ cache' = cache
        /\ factory' = [factory EXCEPT !.countConnections = @ + 1]
    BY <1>7 DEF ProxyAnswers, Put, counted, m, w
  <2>2. /\ DOMAIN u = ConnectionFields /\ u.client = m.client /\ u.link = "up" /\ u.server = s
        /\ u.toServer = <<>> /\ u.toClient = m.toClient
    BY <1>5 DEF connected, ConnectionFields
  <2>3. /\ DOMAIN s = ServerFields /\ s.writes = <<>> /\ ~s.pending /\ s.state = "CONNECTING"
        /\ s.request = None /\ s.options = factory.options /\ s.peer = Last(callers(c))
    BY ServerMade
  <2> HIDE DEF u, s
  <2>4. Whole(u)
    BY <1>2, <1>5, <1>6, <2>2, <2>3, EmptySequence DEF Settled, Whole
  <2>5. PICK n : n = flushed(u)
    OBVIOUS
  <2>6. /\ Settled(n) /\ n.link = "up" /\ n.toServer = <<>> /\ n.toClient = m.toClient
        /\ SameClient(conn[c].client, n.client) /\ SameServer(s, n.server)
    BY <1>2, <1>5, <2>2, <2>3, <2>4, <2>5, Flushed DEF Settled
  <2>7. Shape(n)
    BY <2>6 DEF Settled, Whole, Shape
  <2>8. Outbound(c, n) /\ Served(c, n) /\ Agreed(c, n)
    BY <1>3, <2>3, <2>6, EmptySequence DEF SameClient, SameServer, Outbound, Served, Agreed
  <2>9. Keeps(conn[c], n)
    BY <1>1 DEF Keeps
  <2>10. Joins(c, conn[c], n)
    BY <1>1, <2>1, <2>3, <2>6 DEF Joins, SameServer
  <2> QED
    BY <1>4, <1>6, <2>1, <2>5, <2>6, <2>7, <2>8, <2>9, <2>10, OneMoves DEF Sound, Steps
<1>8. CASE status \notin 200 .. 299
  <2>1. /\ conn' = [conn EXCEPT ![c] = flushed(m)] /\ opt' = opt /\ cache' = cache /\ factory' = factory
    BY <1>8 DEF ProxyAnswers, Put, m, w
  <2>2. Whole(m)
    BY <1>2, <1>5, <1>6, EmptySequence DEF Settled, Whole
  <2>3. PICK n : n = flushed(m)
    OBVIOUS
  <2>4. /\ Settled(n) /\ n.link = "proxy" /\ n.toServer = <<>> /\ n.toClient = m.toClient
        /\ SameClient(conn[c].client, n.client) /\ SameServer(conn[c].server, n.server)
        /\ n.altered = conn[c].altered
    BY <1>2, <1>5, <2>2, <2>3, Flushed DEF Settled
  <2>5. Shape(n)
    BY <2>4 DEF Settled, Whole, Shape
  <2>6. Outbound(c, n) /\ Served(c, n) /\ Agreed(c, n)
    BY ZenonT(40), <1>2, <1>3, <1>4, <1>6, <1>8, <2>4, EmptySequence
       DEF SameClient, SameServer, Sound, Outbound, Served, Agreed
  <2>7. Keeps(conn[c], n)
    BY <1>1 DEF Keeps
  <2>8. Goes(c, conn[c], n)
    BY <1>1, <2>1, <2>4 DEF Goes, SameServer, SameClient
  <2> QED
    BY <1>4, <1>6, <2>1, <2>3, <2>4, <2>5, <2>6, <2>7, <2>8, OneMoves DEF Sound, Steps
<1> QED
  BY <1>7, <1>8

LEMMA ConnectingGood ==
    ASSUME Good, NEW c \in Connections, Connecting(c)
    PROVE  Good' /\ Steps(c)
<1> DEFINE p == conn[c].client
           k == clientFactory(c)
           started == _actuallyStartHandshake(p, c, k)
           given == [dropConnection(p) EXCEPT !.pending = FALSE]
<1>1. p.pending /\ opt' = opt /\ cache' = cache /\ factory' = factory
  BY DEF Connecting
<1>2. Sound(c, conn[c])
  BY DEF Good
<1>3. conn[c].link \notin {"none", "proxy"}
  BY <1>1, <1>2, Unconnected DEF Sound, Shape, Outbound
<1>4. Settled(conn[c]) /\ conn[c].link \in {"up", "down"}
  BY <1>3, AtRest
<1>5. DOMAIN p = ClientFields /\ p.writes = <<>>
  BY <1>4 DEF Settled, Whole
<1>6. /\ DOMAIN started = ClientFields /\ ~started.pending /\ started.requested = ConnectingRequest(k)
      /\ started.writes = Append(<<>>, request(c)) /\ started.state = p.state
      /\ started.websocket_version = p.websocket_version
      /\ started.protocol_in_use = p.protocol_in_use /\ started.pmce = p.pmce
  BY <1>5 DEF _actuallyStartHandshake, request, ClientFields
<1>7. DOMAIN given = ClientFields /\ given.writes = <<>> /\ given.state = "CLOSED" /\ given.requested = p.requested
  BY <1>5 DEF dropConnection, ClientFields
<1>8. \A x : Append(<<>>, x) = <<x>>
  OBVIOUS
<1>9. PICK q : q \in {started, given} /\ conn' = [conn EXCEPT ![c] = flushed([conn[c] EXCEPT !.client = q])]
  BY DEF Connecting, Put
<1> HIDE DEF started, given
<1>10. /\ DOMAIN q = ClientFields /\ IsSequence(q.writes) /\ ToSet(q.writes) \subseteq {request(c)}
       /\ (q.requested = p.requested /\ q.writes = <<>>) \/ q.requested = ConnectingRequest(k)
       /\ \/ q.state = "CLOSED"
          \/ /\ q.state = p.state /\ q.websocket_version = p.websocket_version
             /\ q.protocol_in_use = p.protocol_in_use /\ q.pmce = p.pmce
  BY ZenonT(40), <1>6, <1>7, <1>8, <1>9, OneElement, EmptySequence
<1> DEFINE m == [conn[c] EXCEPT !.client = q]
<1>11. /\ DOMAIN m = ConnectionFields /\ m.link = conn[c].link /\ m.client = q
       /\ m.server = conn[c].server /\ m.toServer = conn[c].toServer /\ m.toClient = conn[c].toClient
       /\ m.altered = conn[c].altered
  BY <1>4 DEF Settled, Whole, ConnectionFields
<1> HIDE DEF m
<1>12. Whole(m)
  BY <1>4, <1>10, <1>11 DEF Settled, Whole
<1>13. PICK n : n = flushed(m)
  OBVIOUS
<1>14. /\ Settled(n) /\ n.altered = conn[c].altered /\ n.link = conn[c].link /\ n.toClient = conn[c].toClient
       /\ SameClient(q, n.client) /\ SameServer(conn[c].server, n.server)
       /\ ToSet(n.toServer) \subseteq ToSet(conn[c].toServer) \cup {request(c)}
       /\ q.writes = <<>> => n.toServer = conn[c].toServer
       /\ n.link = "down" => n.toServer = conn[c].toServer
  BY <1>4, <1>10, <1>11, <1>12, <1>13, Flushed DEF Settled
<1>15. Shape(n)
  BY <1>4, <1>14 DEF Settled, Whole, Shape
<1>16. Outbound(c, n)
  BY <1>2, <1>4, <1>10, <1>14 DEF Sound, Outbound, SameClient
<1>17. Served(c, n) /\ Agreed(c, n)
  BY <1>2, <1>10, <1>14 DEF Sound, Served, Agreed, SameClient, SameServer
<1>18. Keeps(conn[c], n)
  BY <1>14, SameServerKeeps
<1>19. conn' = [conn EXCEPT ![c] = n]
  BY <1>9, <1>13 DEF m
<1>20. Goes(c, conn[c], n)
  BY <1>1, <1>3, <1>10, <1>14 DEF Goes, SameServer, SameClient
<1> QED
  BY <1>1, <1>14, <1>15, <1>16, <1>17, <1>18, <1>19, <1>20, OneMoves DEF Sound, Steps

LEMMA RequestOf ==
    ASSUME NEW c
    PROVE  /\ {"path", "headers"} \subseteq DOMAIN request(c)
           /\ request(c).headers["sec-websocket-key"] = one([key |-> c])
           /\ request(c).headers["sec-websocket-version"] = one(versionOf(c))
<1> DEFINE k == clientFactory(c)
<1>1. IsRequest(request(c), c, k, ConnectingRequest(k))
  BY RequestIs DEF request
<1> HIDE DEF k
<1> QED
  BY <1>1 DEF IsRequest, RequestFields, versionOf, k

\* What the web servers in front of the server make of a request.
LEMMA Forwarded ==
    ASSUME NEW http, {"path", "headers"} \subseteq DOMAIN http, NEW c
    PROVE  LET r == forwarded(http, c)
           IN  /\ DOMAIN r = DOMAIN http /\ r.path = http.path
               /\ \A name : name # "x-forwarded-for" =>
                     /\ name \in DOMAIN r.headers <=> name \in DOMAIN http.headers
                     /\ name \in DOMAIN http.headers => r.headers[name] = http.headers[name]
  BY DEF forwarded

\* The one header of the request that a server has accepted, if nobody puts others there.
LEMMA AsRequested ==
    ASSUME NEW c, NEW a, NEW name, name # "x-forwarded-for", NEW item,
           request(c).headers[name] = one(item),
           has(forwarded(through(request(c), a), c), name),
           ~repeated(forwarded(through(request(c), a), c), name)
    PROVE  field(forwarded(through(request(c), a), c), name)[1] = item
<1> DEFINE q == request(c)
           t == through(q, a)
           r == forwarded(t, c)
<1>1. {"path", "headers"} \subseteq DOMAIN q
  BY RequestOf
<1>2. {"path", "headers"} \subseteq DOMAIN t
  BY <1>1, Passed
<1>3. has(t, name) /\ r.headers[name] = t.headers[name]
  BY <1>2, Forwarded DEF has
<1>4. ~repeated(t, name)
  BY <1>3 DEF repeated
<1>5. t.headers[name] = one(item)
  <2>1. q.headers[name] = <<<<item>>>>
    BY DEF one
  <2> HIDE DEF q
  <2> QED
    BY <1>1, <1>3, <1>4, <2>1, AsSent DEF one
<1>6. r.headers[name] = one(item)
  BY <1>3, <1>5
<1> QED
  BY <1>6, OneItem

LEMMA ServerReceivesGood ==
    ASSUME Good, NEW c \in Connections, NEW a, ServerReceives(c, a)
    PROVE  Good' /\ Steps(c)
<1> DEFINE s == conn[c].server
           first == conn[c].toServer[1]
           m == [conn[c] EXCEPT !.toServer = Tail(@), !.altered = @ \/ a # None]
           http == forwarded(through(first, a), c)
           policy == serveFlashSocketPolicy(s)
           processed == server_processHandshake(s, http)
<1>1. conn[c].link = "up" /\ conn[c].toServer # <<>> /\ opt' = opt /\ cache' = cache /\ factory' = factory
  BY DEF ServerReceives
<1>2. Settled(conn[c]) /\ Sound(c, conn[c])
  BY <1>1, AtRest DEF Good
<1>3. /\ DOMAIN s = ServerFields /\ s.writes = <<>> /\ conn[c].client.writes = <<>>
      /\ IsSequence(Tail(conn[c].toServer)) /\ first \in ToSet(conn[c].toServer)
      /\ ToSet(Tail(conn[c].toServer)) \subseteq ToSet(conn[c].toServer)
  BY <1>1, <1>2, Taken DEF Settled, Whole
<1>4. first = request(c)
  BY <1>1, <1>2, <1>3 DEF Sound, Outbound
<1>5. /\ DOMAIN m = ConnectionFields /\ m.link = "up" /\ m.client = conn[c].client /\ m.server = s
      /\ m.toServer = Tail(conn[c].toServer) /\ m.toClient = conn[c].toClient
      /\ ~m.altered => ~conn[c].altered /\ a = None
  BY <1>1, <1>2 DEF Settled, Whole, ConnectionFields
<1>6. \E r : /\ conn' = [conn EXCEPT ![c] = flushed([m EXCEPT !.server = r])]
             /\ \/ r = s
                \/ s.state = "CONNECTING" /\ r \in {policy, processed}
  <2>1. m = [m EXCEPT !.server = s]
    BY <1>2, <1>5 DEF Settled, Whole, ConnectionFields
  <2>2. \/ Put(c, m)
        \/ s.state = "CONNECTING" /\ Put(c, [m EXCEPT !.server = policy])
        \/ s.state = "CONNECTING" /\ Put(c, [m EXCEPT !.server = processed])
    <3>1. m.server = s
      BY <1>5
    <3> QED
      BY <3>1 DEF ServerReceives
  <2> HIDE DEF m, s, policy, processed
  <2> QED
    BY <2>1, <2>2 DEF Put
<1>7. PICK r : /\ conn' = [conn EXCEPT ![c] = flushed([m EXCEPT !.server = r])]
               /\ r = s \/ (s.state = "CONNECTING" /\ r \in {policy, processed})
  BY <1>6
<1> DEFINE done(x) ==
        /\ DOMAIN x = ServerFields /\ IsSequence(x.writes)
        /\ \A w \in ToSet(x.writes) : Refusal(w)
        /\ x.pending \/ x.state = "OPEN" =>
              x.request.key = [key |-> c] /\ x.request.version = versionOf(c)
        /\ SameServer(s, x) \/ (s.state = "CONNECTING" /\ x.state \in {"CONNECTING", "CLOSED"})
        /\ x.state = "OPEN" => ~x.pending
<1>8. /\ s.pending \/ s.state = "OPEN" => s.request.key = [key |-> c] /\ s.request.version = versionOf(c)
      /\ s.state = "OPEN" => ~s.pending
  BY <1>1, <1>2 DEF Sound, Served
<1> HIDE DEF s, m, first
<1>9. done(s)
  BY <1>3, <1>8, EmptySequence DEF SameServer
<1>10. s.state = "CONNECTING" => done(policy)
  <2> SUFFICES ASSUME s.state = "CONNECTING"
               PROVE  done(policy)
    OBVIOUS
  <2>1. CASE policy = s
    BY <1>9, <2>1
  <2>2. CASE policy = dropConnection([s EXCEPT !.writes = Append(@, [policy |-> TRUE])])
    <3>1. /\ DOMAIN policy = ServerFields /\ policy.state = "CLOSED" /\ policy.request = s.request
          /\ policy.pending = s.pending /\ policy.writes = Append(<<>>, [policy |-> TRUE])
      BY <1>3, <2>2 DEF dropConnection, ServerFields
    <3>2. \A w : Append(<<>>, w) = <<w>>
      OBVIOUS
    <3>3. Refusal([policy |-> TRUE])
      BY DEF Refusal
    <3> DEFINE w == [policy |-> TRUE]
    <3>4. policy.writes = <<w>>
      BY <3>1, <3>2
    <3> HIDE DEF policy, w
    <3>5. IsSequence(policy.writes) /\ \A x \in ToSet(policy.writes) : x = w
      BY <3>4, OneElement
    <3> QED
      BY <1>8, <3>1, <3>3, <3>5 DEF w
  <2> QED
    BY <2>1, <2>2 DEF serveFlashSocketPolicy
<1>11. s.state = "CONNECTING" => done(processed)
  <2> SUFFICES ASSUME s.state = "CONNECTING"
               PROVE  done(processed)
    OBVIOUS
  <2> DEFINE version == field(http, "sec-websocket-version")[1]
  <2>1. /\ DOMAIN processed = ServerFields /\ IsSequence(processed.writes)
        /\ \A w \in ToSet(processed.writes) : Refusal(w)
        /\ \/ processed.state = "CLOSED" /\ processed.pending = s.pending /\ processed.request = s.request
           \/ /\ processed.state = s.state /\ processed.pending
              /\ processed.request = ConnectionRequest([s EXCEPT !.peer = peerOf(s, http)], http, version)
              /\ has(http, "sec-websocket-version") /\ ~repeated(http, "sec-websocket-version")
              /\ has(http, "sec-websocket-key") /\ ~repeated(http, "sec-websocket-key")
    BY <1>3, RequestProcessed, EmptySequence
  <2>2. CASE processed.state = "CLOSED" /\ processed.pending = s.pending /\ processed.request = s.request
    <3> HIDE DEF processed
    <3> QED
      BY <1>8, <2>1, <2>2
  <2>3. CASE /\ processed.state = s.state /\ processed.pending
             /\ processed.request = ConnectionRequest([s EXCEPT !.peer = peerOf(s, http)], http, version)
             /\ has(http, "sec-websocket-version") /\ ~repeated(http, "sec-websocket-version")
             /\ has(http, "sec-websocket-key") /\ ~repeated(http, "sec-websocket-key")
    <3>1. /\ processed.request.key = field(http, "sec-websocket-key")[1]
          /\ processed.request.version = version
      BY <2>3 DEF ConnectionRequest
    <3>2. /\ request(c).headers["sec-websocket-key"] = one([key |-> c])
          /\ request(c).headers["sec-websocket-version"] = one(versionOf(c))
      BY RequestOf
    <3>3. field(http, "sec-websocket-key")[1] = [key |-> c]
      BY <1>4, <2>3, <3>2, AsRequested
    <3>4. version = versionOf(c)
      BY <1>4, <2>3, <3>2, AsRequested
    <3> HIDE DEF processed, version, http
    <3> QED
      BY <2>1, <2>3, <3>1, <3>3, <3>4
  <2> QED
    <3> HIDE DEF processed, done
    <3> QED
      BY <2>1, <2>2, <2>3
<1> HIDE DEF done, policy, processed
<1>12. done(r)
  BY <1>7, <1>9, <1>10, <1>11
<1> DEFINE u == [m EXCEPT !.server = r]
<1>13. /\ DOMAIN u = ConnectionFields /\ u.link = "up" /\ u.client = conn[c].client /\ u.server = r
       /\ u.toServer = Tail(conn[c].toServer) /\ u.toClient = conn[c].toClient
       /\ ~u.altered => ~conn[c].altered /\ a = None
  BY <1>5 DEF ConnectionFields
<1> HIDE DEF u
<1>14. Whole(u)
  BY <1>2, <1>3, <1>12, <1>13, EmptySequence DEF Settled, Whole, done
<1>15. PICK n : n = flushed(u)
  OBVIOUS
<1>16. /\ Settled(n) /\ (~n.altered => ~conn[c].altered /\ a = None) /\ n.link = "up" /\ n.toServer = Tail(conn[c].toServer)
       /\ SameClient(conn[c].client, n.client) /\ SameServer(r, n.server)
       /\ ToSet(n.toClient) \subseteq ToSet(conn[c].toClient) \cup ToSet(r.writes)
  BY <1>3, <1>13, <1>14, <1>15, Flushed
<1>17. Shape(n)
  BY <1>16 DEF Settled, Whole, Shape
<1>18. Outbound(c, n)
  BY <1>1, <1>2, <1>3, <1>16 DEF Sound, Outbound, SameClient
<1>19. Served(c, n)
  BY <1>12, <1>16 DEF Served, SameServer, done
<1>20. Agreed(c, n)
  BY <1>1, <1>2, <1>12, <1>16 DEF Sound, Agreed, SameClient, SameServer, done, s
<1>21. Keeps(conn[c], n)
  <2>1. CASE SameServer(s, r)
    <3>1. SameServer(s, n.server)
      BY <1>16, <2>1 DEF SameServer
    <3> QED
      BY <1>1, <1>16, <3>1, SameServerKeeps DEF s
  <2>2. CASE s.state = "CONNECTING"
    BY <1>1, <2>2 DEF Keeps, s
  <2> QED
    BY <1>12, <2>1, <2>2 DEF done
<1>22. conn' = [conn EXCEPT ![c] = n]
  BY <1>7, <1>15 DEF u
<1>23. Reads(c, conn[c], n) \/ Goes(c, conn[c], n)
  <2>1. CASE r = s
    BY <1>1, <1>16, <2>1 DEF Goes, SameServer, SameClient, s
  <2>2. CASE r = policy
    <3>1. /\ policy.request = s.request /\ policy.options = s.options /\ policy.peer = s.peer
          /\ policy.pending = s.pending /\ policy.state \in {"CLOSED", s.state}
      BY <1>3 DEF policy, serveFlashSocketPolicy, dropConnection, ServerFields
    <3> QED
      BY <1>1, <1>16, <2>2, <3>1 DEF Goes, SameServer, SameClient, s
  <2>3. CASE s.state = "CONNECTING" /\ r = processed
    <3>1. conn[c].client.requested = ConnectingRequest(clientFactory(c))
      BY <1>1, <1>2, <1>3 DEF Sound, Outbound
    <3> DEFINE sent == forwarded(through(request(c), a), c)
               version == field(sent, "sec-websocket-version")[1]
    <3>2. http = sent
      BY <1>4
    <3> HIDE DEF http
    <3>3. r = server_processHandshake(s, sent)
      BY <2>3, <3>2 DEF processed
    <3> HIDE DEF sent
    <3>4. /\ r.options = s.options /\ r.peer = peerOf(s, sent)
          /\ \/ r.state = "CLOSED" /\ r.pending = s.pending /\ r.request = s.request
             \/ /\ r.request = ConnectionRequest([s EXCEPT !.peer = peerOf(s, sent)], sent, version)
                /\ has(sent, "sec-websocket-version") /\ ~repeated(sent, "sec-websocket-version")
                /\ ~full(s)
      BY <1>3, <3>3, RequestProcessed, EmptySequence
    <3>5. /\ n.server.options = s.options /\ n.server.peer = peerOf(s, sent)
          /\ \/ n.server.state = "CLOSED" /\ n.server.pending = s.pending /\ n.server.request = s.request
             \/ /\ n.server.request = ConnectionRequest([s EXCEPT !.peer = n.server.peer], sent, version)
                /\ has(sent, "sec-websocket-version") /\ ~repeated(sent, "sec-websocket-version")
                /\ ~full(s)
      BY <1>16, <3>4 DEF SameServer
    <3>6. n.client.requested = ConnectingRequest(clientFactory(c))
      BY <1>16, <3>1 DEF SameClient
    <3> HIDE DEF version
    <3>7. \E b : LET t == forwarded(through(request(c), b), c)
                     v == field(t, "sec-websocket-version")[1]
                 IN  /\ ~n.altered => ~conn[c].altered /\ b = None
                     /\ n.server.peer = peerOf(s, t)
                     /\ \/ /\ n.server.request = s.request
                           /\ n.server.pending => s.pending
                           /\ n.server.state # "OPEN"
                        \/ /\ ~full(s)
                           /\ n.server.request = ConnectionRequest([s EXCEPT !.peer = n.server.peer], t, v)
                           /\ has(t, "sec-websocket-version") /\ ~repeated(t, "sec-websocket-version")
      <4> WITNESS a
      <4> QED
        BY <1>16, <3>5 DEF sent, version
    <3> QED
      BY <1>1, <1>16, <3>1, <3>5, <3>6, <3>7 DEF Reads, s
  <2> QED
    BY <1>7, <2>1, <2>2, <2>3
<1> QED
  BY <1>1, <1>12, <1>16, <1>17, <1>18, <1>19, <1>20, <1>21, <1>22, <1>23, OneMoves
     DEF Sound, done, Steps

LEMMA AnswerGood ==
    ASSUME Good, NEW c \in Connections, NEW answer, NEW accept, Answer(c, answer, accept)
    PROVE  Good' /\ Steps(c)
<1> DEFINE s == conn[c].server
           r == server_onConnect(s, answer, accept)
           m == [conn[c] EXCEPT !.server = r]
<1>1. s.pending /\ opt' = opt /\ factory' = factory
  BY DEF Answer
<1>2. Sound(c, conn[c])
  BY DEF Good
<1>3. conn[c].link \notin {"none", "proxy"}
  BY <1>1, <1>2, Unconnected DEF Sound, Shape, Outbound
<1>4. Settled(conn[c]) /\ conn[c].link \in {"up", "down"}
  BY <1>3, AtRest
<1>5. DOMAIN s = ServerFields /\ s.writes = <<>> /\ conn[c].client.writes = <<>>
  BY <1>4 DEF Settled, Whole
<1>6. /\ s.request.key = [key |-> c] /\ s.request.version = versionOf(c)
      /\ conn[c].link = "up" => s.state # "OPEN" /\ (Untouched => conn[c].client.state # "OPEN")
  BY <1>1, <1>2 DEF Sound, Served, Agreed
<1>7. /\ DOMAIN r = ServerFields /\ IsSequence(r.writes) /\ r.request = s.request /\ ~r.pending
      /\ r.options = s.options /\ r.peer = s.peer
      /\ \/ /\ r.state = "CLOSED"
            /\ \E code \in {400, 403, 500} : r.writes = <<http_error(code)>>
         \/ r.state = s.state /\ r.writes = <<>>
         \/ r.state = "OPEN" /\ r.writes = <<http_response(r)>>
  BY <1>5, RequestAnswered
<1>8. conn' = [conn EXCEPT ![c] = flushed(m)]
  BY DEF Answer, Put
<1>9. \A w \in cache' : w \in cache \/ (w \in ToSet(r.writes) /\ w.status = 101)
  BY DEF Answer, Range, ToSet
<1> HIDE DEF r, s
<1>10. /\ DOMAIN m = ConnectionFields /\ m.link = conn[c].link /\ m.client = conn[c].client /\ m.server = r
       /\ m.toServer = conn[c].toServer /\ m.toClient = conn[c].toClient
       /\ m.altered = conn[c].altered
  BY <1>4 DEF Settled, Whole, ConnectionFields
<1> HIDE DEF m
<1>11. Whole(m)
  BY <1>4, <1>5, <1>7, <1>10, EmptySequence DEF Settled, Whole
<1>12. PICK n : n = flushed(m)
  OBVIOUS
<1>13. /\ Settled(n) /\ n.altered = conn[c].altered /\ n.link = conn[c].link /\ n.toServer = conn[c].toServer
       /\ SameClient(conn[c].client, n.client) /\ SameServer(r, n.server)
       /\ ToSet(n.toClient) \subseteq ToSet(conn[c].toClient) \cup ToSet(r.writes)
       /\ n.link = "down" => n.toClient = conn[c].toClient
  BY <1>5, <1>10, <1>11, <1>12, Flushed
<1>14. Shape(n)
  BY <1>4, <1>13 DEF Settled, Whole, Shape
<1>15. Outbound(c, n)
  BY <1>2, <1>4, <1>13 DEF Sound, Outbound, SameClient
<1>16. Served(c, n)
  BY <1>6, <1>7, <1>13 DEF Served, SameServer
<1>17. Agreed(c, n)
  BY <1>6, <1>13 DEF Agreed, SameClient
<1>18. Keeps(conn[c], n)
  BY <1>4, <1>6, <1>13 DEF Keeps, s
<1>19. ASSUME NEW w \in ToSet(r.writes)
       PROVE  (Refusal(w) /\ w.status # 101) \/ From(w, c, n)
  <2>1. CASE \E code \in {400, 403, 500} : r.writes = <<http_error(code)>>
    <3>1. PICK code \in {400, 403, 500} : r.writes = <<http_error(code)>>
      BY <2>1
    <3>2. PICK e : e = http_error(code)
      OBVIOUS
    <3>3. w = e
      BY <3>1, <3>2, OneElement
    <3> QED
      BY <3>2, <3>3 DEF Refusal, http_error
  <2>2. CASE r.writes = <<>>
    BY <2>2, EmptySequence
  <2>3. CASE r.state = "OPEN" /\ r.writes = <<http_response(r)>>
    <3>1. PICK e : e = http_response(r)
      OBVIOUS
    <3>2. w = e
      BY <2>3, <3>1, OneElement
    <3>3. e = http_response(n.server)
      BY <1>13, <3>1, SameResponse DEF SameServer
    <3>4. /\ DOMAIN e = {"status", "http", "headers"} /\ "sec-websocket-accept" \in DOMAIN e.headers
          /\ e.headers["sec-websocket-accept"] = one(r.request.key)
      BY <3>1, ResponseIs
    <3>5. r.request.key = [key |-> c]
      BY <1>6, <1>7
    <3>6. n.link = "down" \/ (n.link = "up" /\ n.server.state = "OPEN")
      BY <1>4, <1>13, <2>3 DEF SameServer
    <3> QED
      BY <3>2, <3>3, <3>4, <3>5, <3>6 DEF From
  <2> QED
    BY <1>7, <2>1, <2>2, <2>3
<1>20. conn' = [conn EXCEPT ![c] = n]
  BY <1>8, <1>12
<1>21. Goes(c, conn[c], n)
  BY <1>1, <1>3, <1>7, <1>13 DEF Goes, SameServer, SameClient, s
<1> QED
  BY <1>1, <1>9, <1>13, <1>14, <1>15, <1>16, <1>17, <1>18, <1>19, <1>20, <1>21, OneMoves DEF Sound, Steps

LEMMA CacheAnswersGood ==
    ASSUME Good, NEW c \in Connections, NEW http, CacheAnswers(c, http)
    PROVE  Good' /\ Steps(c)
<1> DEFINE m == [conn[c] EXCEPT !.toServer = Tail(@), !.toClient = Append(@, http), !.altered = TRUE]
<1>1. /\ conn[c].link = "up" /\ conn[c].toServer # <<>> /\ http \in cache
      /\ opt' = opt /\ cache' = cache /\ factory' = factory /\ conn' = [conn EXCEPT ![c] = flushed(m)]
  BY DEF CacheAnswers, Put
<1>2. Settled(conn[c]) /\ Sound(c, conn[c])
  BY <1>1, AtRest DEF Good
<1>3. /\ IsSequence(Tail(conn[c].toServer)) /\ IsSequence(Append(conn[c].toClient, http))
      /\ ToSet(Tail(conn[c].toServer)) \subseteq ToSet(conn[c].toServer)
      /\ ToSet(Append(conn[c].toClient, http)) = ToSet(conn[c].toClient) \cup {http}
  BY <1>1, <1>2, Taken, Appended DEF Settled, Whole
<1>4. /\ DOMAIN m = ConnectionFields /\ m.link = "up" /\ m.client = conn[c].client
      /\ m.server = conn[c].server /\ m.toServer = Tail(conn[c].toServer)
      /\ m.toClient = Append(conn[c].toClient, http) /\ m.altered
  BY <1>1, <1>2 DEF Settled, Whole, ConnectionFields
<1> HIDE DEF m
<1>5. Whole(m)
  BY <1>2, <1>3, <1>4 DEF Settled, Whole
<1>6. PICK n : n = flushed(m)
  OBVIOUS
<1>7. /\ Settled(n) /\ n.altered /\ n.link = "up" /\ n.toServer = m.toServer /\ n.toClient = m.toClient
      /\ SameClient(conn[c].client, n.client) /\ SameServer(conn[c].server, n.server)
  BY <1>2, <1>4, <1>5, <1>6, Flushed DEF Settled
<1>8. Shape(n)
  BY <1>7 DEF Settled, Whole, Shape
<1>9. Outbound(c, n)
  BY <1>1, <1>2, <1>3, <1>4, <1>7 DEF Sound, Outbound, SameClient
<1>10. Served(c, n) /\ Agreed(c, n)
  BY <1>1, <1>2, <1>7 DEF Sound, Served, Agreed, SameClient, SameServer
<1>11. Keeps(conn[c], n)
  BY <1>1, <1>7, SameServerKeeps
<1>12. Goes(c, conn[c], n)
  BY <1>1, <1>7 DEF Goes, SameServer, SameClient
<1> QED
  BY <1>1, <1>3, <1>4, <1>6, <1>7, <1>8, <1>9, <1>10, <1>11, <1>12, OneMoves DEF Sound, Steps

LEMMA ConnectionLostGood ==
    ASSUME Good, NEW c \in Connections, ConnectionLost(c)
    PROVE  Good' /\ Steps(c)
<1> DEFINE s == IF conn[c].link = "up" THEN dropConnection(conn[c].server) ELSE conn[c].server
           p == dropConnection(conn[c].client)
           m == [conn[c] EXCEPT !.link = "down", !.toServer = <<>>, !.toClient = <<>>,
                                !.client = p, !.server = s]
<1>1. conn[c].link \in {"proxy", "up"} /\ opt' = opt /\ cache' = cache
  BY DEF ConnectionLost
<1>0. factory' = IF conn[c].link = "up" THEN [factory EXCEPT !.countConnections = @ - 1] ELSE factory
  BY DEF ConnectionLost
<1>2. conn' = [conn EXCEPT ![c] = flushed(m)]
  <2>1. [conn[c] EXCEPT !.link = "down", !.toServer = <<>>, !.toClient = <<>>,
                        !.client = dropConnection(@),
                        !.server = IF conn[c].link = "up" THEN dropConnection(@) ELSE @] = m
    BY Zenon
  <2> QED
    BY <2>1 DEF ConnectionLost, Put
<1>3. Settled(conn[c]) /\ Sound(c, conn[c])
  BY <1>1, AtRest DEF Good
<1>4. DOMAIN p = ClientFields /\ p.writes = <<>> /\ p.requested = conn[c].client.requested
  BY <1>3 DEF Settled, Whole, dropConnection, ClientFields
<1>5. /\ DOMAIN s = ServerFields /\ s.writes = <<>> /\ s.pending = conn[c].server.pending
      /\ s.options = conn[c].server.options /\ s.peer = conn[c].server.peer
      /\ s.request = conn[c].server.request /\ s.state \in {"CLOSED", conn[c].server.state}
  BY <1>3 DEF Settled, Whole, dropConnection, ServerFields
<1> HIDE DEF p, s
<1>6. /\ DOMAIN m = ConnectionFields /\ m.link = "down" /\ m.client = p /\ m.server = s
      /\ m.toServer = <<>> /\ m.toClient = <<>> /\ m.altered = conn[c].altered
  BY <1>3 DEF Settled, Whole, ConnectionFields
<1> HIDE DEF m
<1>7. Whole(m)
  BY <1>4, <1>5, <1>6, EmptySequence DEF Whole
<1>8. PICK n : n = flushed(m)
  OBVIOUS
<1>9. /\ Settled(n) /\ n.link = "down" /\ n.toServer = <<>> /\ n.toClient = <<>>
      /\ SameServer(s, n.server) /\ SameClient(p, n.client) /\ n.altered = conn[c].altered
  BY <1>6, <1>7, <1>8, Flushed
<1>10. Shape(n)
  BY <1>9 DEF Settled, Whole, Shape
<1>11. Outbound(c, n) /\ Agreed(c, n) /\ Keeps(conn[c], n)
  BY <1>1, <1>9 DEF Outbound, Agreed, Keeps
<1>12. Served(c, n)
  BY <1>3, <1>5, <1>9 DEF Sound, Served, SameServer
<1>13. Goes(c, conn[c], n)
  BY <1>0, <1>1, <1>4, <1>5, <1>9 DEF Goes, SameServer, SameClient
<1> QED
  BY <1>1, <1>2, <1>8, <1>9, <1>10, <1>11, <1>12, <1>13, EmptySequence, OneMoves DEF Sound, Steps

\* The response that the client has accepted is the one its server's end has
\* written, and the outcome of the negotiation is still in it.
LEMMA AcceptedIsOwn ==
    ASSUME Good, Untouched, NEW c \in Connections, conn[c].link = "up",
           NEW w \in ToSet(conn[c].toClient), "policy" \notin DOMAIN w,
           NEW a \in alterations("response"), acceptIsGood(through(w, a), c)
    PROVE  /\ w = http_response(conn[c].server) /\ conn[c].server.state = "OPEN"
           /\ {"status", "headers"} \subseteq DOMAIN w
           /\ \A name \in {"sec-websocket-protocol", "sec-websocket-extensions"} :
                 has(through(w, a), name) <=> has(w, name)
<1> DEFINE t == through(w, a)
           accept == "sec-websocket-accept"
<1>1. has(t, accept) /\ ~repeated(t, accept) /\ field(t, accept)[1].key = c
  BY DEF acceptIsGood
<1>2. Refusal(w) \/ Known(w, conn)
  BY DEF Good, Inbound
<1>3. {"status", "headers"} \subseteq DOMAIN w
  BY <1>2 DEF Refusal, Known, From
<1>4. /\ DOMAIN t.headers \subseteq DOMAIN w.headers
      /\ a # None /\ a.how = "drop" => DOMAIN w.headers \ {a.header} \subseteq DOMAIN t.headers
      /\ a # None /\ a.how # "drop" => DOMAIN w.headers \ {"upgrade"} \subseteq DOMAIN t.headers
      /\ a = None => t = w
  BY <1>3, Passed
<1>5. w.headers # <<>>
  <2>1. DOMAIN <<>> = {}
    OBVIOUS
  <2> QED
    BY <1>1, <1>4, <2>1 DEF has
<1>6. PICK d \in Connections : From(w, d, conn[d])
  BY <1>2, <1>5 DEF Refusal, Known
<1>7. w.headers[accept] = <<<<[key |-> d]>>>>
  BY <1>6 DEF From, one
<1>8. t.headers[accept] = one([key |-> d])
  <2> HIDE DEF t
  <2> QED
    BY <1>1, <1>3, <1>7, AsSent DEF one, t
<1>9. d = c
  <2>1. field(t, accept)[1] = [key |-> d]
    BY <1>8, OneItem
  <2> QED
    BY <1>1, <2>1
<1>10. w = http_response(conn[c].server) /\ conn[c].server.state = "OPEN"
  BY <1>6, <1>9 DEF From
<1>11. ASSUME NEW name \in {"sec-websocket-protocol", "sec-websocket-extensions"}
       PROVE  has(t, name) <=> has(w, name)
  <2>1. a # None => a \in opt.alters /\ a.of = "response" /\ opt \in Options
    BY DEF alterations, Good
  <2>2. a # None /\ a.how = "drop" => a.header # name
    BY <2>1 DEF Untouched
  <2> HIDE DEF t
  <2> QED
    BY <1>4, <2>2 DEF has
<1> QED
  BY <1>3, <1>10, <1>11

\* A client that opens does it with what its server's end has.
LEMMA OpensAgreed ==
    ASSUME Good, Untouched, NEW c \in Connections, conn[c].link = "up",
           NEW w \in ToSet(conn[c].toClient), "policy" \notin DOMAIN w,
           NEW a \in alterations("response"), NEW k, NEW p, DOMAIN p = ClientFields, NEW r,
           r = client_processHandshake(p, through(w, a), c, k), r.state # "CLOSED"
    PROVE  /\ r.state = "OPEN" /\ r.websocket_version = k.version
           /\ conn[c].server.state = "OPEN"
           /\ r.protocol_in_use = conn[c].server.protocol_in_use
           /\ r.pmce = conn[c].server.pmce
<1> DEFINE s == conn[c].server
           t == through(w, a)
           proto == "sec-websocket-protocol"
           ext == "sec-websocket-extensions"
<1>1. /\ r.state = "OPEN" /\ r.websocket_version = k.version /\ acceptIsGood(t, c)
      /\ has(t, proto) => ~repeated(t, proto)
      /\ has(t, ext) => ~repeated(t, ext)
      /\ r.protocol_in_use = IF has(t, proto) THEN field(t, proto)[1] ELSE None
      /\ has(t, ext) => r.pmce = IF field(t, ext) = <<>> THEN None ELSE field(t, ext)[1]
      /\ ~has(t, ext) => r.pmce = None
  BY ResponseProcessed
<1>2. /\ w = http_response(s) /\ s.state = "OPEN" /\ {"status", "headers"} \subseteq DOMAIN w
      /\ has(t, proto) <=> has(w, proto)
      /\ has(t, ext) <=> has(w, ext)
  BY <1>1, AcceptedIsOwn
<1>3. /\ has(w, proto) <=> s.protocol_in_use # None
      /\ s.protocol_in_use # None => w.headers[proto] = one(s.protocol_in_use)
      /\ has(w, ext) <=> s.pmce # None
      /\ s.pmce # None => w.headers[ext] = one(s.pmce)
  BY <1>2, ResponseIs DEF has
<1> HIDE DEF t, s
<1>4. ASSUME NEW name, NEW item, w.headers[name] = one(item), has(t, name), ~repeated(t, name)
      PROVE  field(t, name) = <<item>> /\ field(t, name)[1] = item /\ <<item>> # <<>>
  <2>1. w.headers[name] = <<<<item>>>>
    BY <1>4 DEF one
  <2>2. t.headers[name] = one(item)
    BY <1>2, <1>4, <2>1, AsSent DEF t, one
  <2> QED
    BY <2>2, OneItem, SomeLine
<1>5. r.protocol_in_use = s.protocol_in_use
  BY <1>1, <1>2, <1>3, <1>4
<1>6. r.pmce = s.pmce
  BY <1>1, <1>2, <1>3, <1>4
<1> QED
  BY <1>1, <1>2, <1>5, <1>6 DEF s

LEMMA ClientReceivesGood ==
    ASSUME Good, NEW c \in Connections, NEW a, ClientReceives(c, a)
    PROVE  Good' /\ Steps(c)
<1> DEFINE p == conn[c].client
           first == conn[c].toClient[1]
           k == clientFactory(c)
           http == through(first, a)
           connect == processProxyConnect(p, http)
           processed == client_processHandshake(p, http, c, k)
           m == [conn[c] EXCEPT !.toClient = Tail(@), !.altered = @ \/ a # None]
<1>1. /\ conn[c].toClient # <<>> /\ a \in alterations("response") /\ opt' = opt /\ cache' = cache /\ factory' = factory
  BY DEF ClientReceives
<1>2. Sound(c, conn[c]) /\ Inbound(conn[c], conn)
  BY DEF Good
<1>3. conn[c].link \in {"proxy", "up"}
  BY <1>1, <1>2, Unconnected DEF Sound, Shape, Outbound
<1>4. Settled(conn[c])
  BY <1>3, AtRest
<1>5. /\ DOMAIN p = ClientFields /\ p.writes = <<>> /\ conn[c].server.writes = <<>>
      /\ IsSequence(Tail(conn[c].toClient)) /\ first \in ToSet(conn[c].toClient)
      /\ ToSet(Tail(conn[c].toClient)) \subseteq ToSet(conn[c].toClient)
  BY <1>1, <1>4, Taken DEF Settled, Whole
<1>6. /\ DOMAIN m = ConnectionFields /\ m.link = conn[c].link /\ m.client = p
      /\ m.server = conn[c].server /\ m.toServer = conn[c].toServer
      /\ m.toClient = Tail(conn[c].toClient) /\ (conn[c].altered => m.altered)
  BY <1>3, <1>4 DEF Settled, Whole, ConnectionFields
<1>7. PICK q : /\ conn' = [conn EXCEPT ![c] = flushed([m EXCEPT !.client = q])]
               /\ \/ q = p
                  \/ /\ q = connect /\ p.state = "PROXY_CONNECTING" /\ "policy" \notin DOMAIN first
                  \/ /\ q = processed /\ p.state \notin {"PROXY_CONNECTING", "CLOSED"}
                     /\ "policy" \notin DOMAIN first
  <2>1. m = [m EXCEPT !.client = p]
    BY <1>4, <1>6 DEF Settled, Whole, ConnectionFields
  <2>2. \/ Put(c, m)
        \/ /\ p.state = "PROXY_CONNECTING" /\ "policy" \notin DOMAIN first
           /\ Put(c, [m EXCEPT !.client = connect])
        \/ /\ p.state \notin {"PROXY_CONNECTING", "CLOSED"} /\ "policy" \notin DOMAIN first
           /\ Put(c, [m EXCEPT !.client = processed])
    <3>1. m.client = p
      BY <1>6
    <3> QED
      BY <3>1 DEF ClientReceives
  <2> HIDE DEF m, p, connect, processed, first
  <2> QED
    BY <2>1, <2>2 DEF Put
<1> DEFINE done(x) ==
        /\ DOMAIN x = ClientFields /\ x.writes = <<>> /\ x.requested = p.requested
        /\ \/ SameClient(p, x)
           \/ x.state = "CLOSED" /\ x.pending = p.pending
           \/ conn[c].link = "up" /\ x.state = "CONNECTING"
           \/ /\ conn[c].link = "up" /\ x.pending = p.pending
              /\ Untouched => /\ x.state = "OPEN" /\ x.websocket_version = k.version
                              /\ conn[c].server.state = "OPEN"
                              /\ x.protocol_in_use = conn[c].server.protocol_in_use
                              /\ x.pmce = conn[c].server.pmce
<1>8. q = p => done(q)
  BY <1>5 DEF SameClient
<1>9. ASSUME q = connect /\ p.state = "PROXY_CONNECTING" /\ "policy" \notin DOMAIN first
      PROVE  done(q)
  <2>1. /\ DOMAIN q = ClientFields /\ q.writes = <<>> /\ q.requested = p.requested
        /\ \/ q.state = "CLOSED" /\ q.pending = p.pending
           \/ q.state = "CONNECTING" /\ http.status \in 200 .. 299
    BY <1>5, <1>9 DEF processProxyConnect, client_failHandshake, ClientFields
  <2>2. conn[c].link = "proxy" => http.status \notin 200 .. 299
    <3>1. {"status", "headers"} \subseteq DOMAIN first
      BY <1>2, <1>5, <1>9 DEF Inbound, Refusal, Known, From
    <3>2. http.status = first.status
      BY <3>1, Passed
    <3>3. conn[c].link = "proxy" => first.status \notin 200 .. 299
      BY <1>2, <1>5 DEF Sound, Outbound
    <3> QED
      BY <3>2, <3>3
  <2> HIDE DEF p, http
  <2> QED
    BY <1>3, <2>1, <2>2
<1>10. ASSUME /\ q = processed /\ p.state \notin {"PROXY_CONNECTING", "CLOSED"}
              /\ "policy" \notin DOMAIN first
       PROVE  done(q)
  <2>1. conn[c].link = "up"
    BY <1>2, <1>3, <1>10 DEF Sound, Outbound
  <2>2. /\ DOMAIN q = ClientFields /\ q.writes = p.writes /\ q.requested = p.requested
        /\ q.pending = p.pending
    BY <1>5, <1>10, ResponseProcessed
  <2>3. PICK j : j = k
    OBVIOUS
  <2>4. PICK w : w = first
    OBVIOUS
  <2>5. Untouched /\ q.state # "CLOSED" =>
            /\ q.state = "OPEN" /\ q.websocket_version = j.version
            /\ conn[c].server.state = "OPEN"
            /\ q.protocol_in_use = conn[c].server.protocol_in_use
            /\ q.pmce = conn[c].server.pmce
    <3>1. q = client_processHandshake(conn[c].client, through(w, a), c, j)
      BY <1>10, <2>3, <2>4
    <3>2. w \in ToSet(conn[c].toClient) /\ "policy" \notin DOMAIN w
      BY <1>5, <1>10, <2>4
    <3>3. DOMAIN conn[c].client = ClientFields /\ a \in alterations("response")
      BY <1>1, <1>5
    <3>4. PICK x : x = conn[c].client
      OBVIOUS
    <3> HIDE DEF p
    <3>5. DOMAIN x = ClientFields /\ q = client_processHandshake(x, through(w, a), c, j)
      BY <3>1, <3>3, <3>4
    <3> QED
      BY <2>1, <3>2, <3>3, <3>5, OpensAgreed
  <2> HIDE DEF k, p
  <2> QED
    BY <1>5, <2>1, <2>2, <2>3, <2>5
<1> HIDE DEF p, connect, processed, m, k, first, done
<1>11. done(q)
  BY <1>7, <1>8, <1>9, <1>10
<1> DEFINE u == [m EXCEPT !.client = q]
<1>12. /\ DOMAIN u = ConnectionFields /\ u.link = conn[c].link /\ u.client = q
       /\ u.server = conn[c].server /\ u.toServer = conn[c].toServer
       /\ u.toClient = Tail(conn[c].toClient) /\ (conn[c].altered => u.altered)
  BY <1>6 DEF ConnectionFields
<1> HIDE DEF u
<1>13. Whole(u)
  BY <1>4, <1>5, <1>11, <1>12, EmptySequence DEF Settled, Whole, done
<1>14. PICK n : n = flushed(u)
  OBVIOUS
<1>15. /\ Settled(n) /\ (conn[c].altered => n.altered) /\ n.link = conn[c].link /\ n.toServer = conn[c].toServer
       /\ SameClient(q, n.client) /\ SameServer(conn[c].server, n.server)
       /\ n.toClient = Tail(conn[c].toClient)
  BY <1>5, <1>11, <1>12, <1>13, <1>14, Flushed DEF done
<1>16. Shape(n)
  BY <1>3, <1>15 DEF Settled, Whole, Shape
<1>17. Outbound(c, n)
  BY <1>2, <1>3, <1>5, <1>11, <1>15 DEF Sound, Outbound, SameClient, SameServer, done, p
<1>18. Served(c, n)
  BY <1>2, <1>15 DEF Sound, Served, SameServer
<1>19. Agreed(c, n)
  BY <1>2, <1>11, <1>15 DEF Sound, Agreed, SameClient, SameServer, done, p, k
<1>20. Keeps(conn[c], n)
  BY <1>15, SameServerKeeps
<1>21. conn' = [conn EXCEPT ![c] = n]
  BY <1>7, <1>14 DEF u
<1>22. Goes(c, conn[c], n)
  BY <1>1, <1>3, <1>11, <1>15 DEF Goes, SameServer, SameClient, done, p
<1> QED
  BY <1>1, <1>5, <1>15, <1>16, <1>17, <1>18, <1>19, <1>20, <1>21, <1>22, OneMoves DEF Sound, Steps

LEMMA GoodStep == Good /\ [Next]_vars => Good'
<1> SUFFICES ASSUME Good, [Next]_vars
             PROVE  Good'
  OBVIOUS
<1>1. CASE UNCHANGED vars
  BY <1>1, NothingMoves DEF vars
<1>2. ASSUME NEW given, setProtocolOptions(given)
      PROVE  Good'
  BY <1>2, NothingMoves DEF setProtocolOptions
<1> QED
  BY <1>1, <1>2, ConnectionMadeGood, ConnectingGood, ConnectionLostGood, ProxyAnswersGood,
     ServerReceivesGood, ClientReceivesGood, AnswerGood, CacheAnswersGood DEF Next

LEMMA AlwaysGood == Spec => []Good
  BY GoodInit, GoodStep, PTL DEF Spec

\* HandshakeAgrees: a client is open only if its server's end is, with the same
\* subprotocol, extension and version, whatever lies between them short of taking
\* the outcome of the negotiation out of the response.
THEOREM EndsAgree ==
    ASSUME Untouched
    PROVE  Spec => []HandshakeAgrees
<1>1. Good => HandshakeAgrees
  <2> SUFFICES ASSUME Good, NEW c \in Up, conn[c].client.state = "OPEN"
               PROVE  /\ conn[c].server.state = "OPEN"
                      /\ conn[c].client.protocol_in_use = conn[c].server.protocol_in_use
                      /\ conn[c].client.pmce = conn[c].server.pmce
                      /\ SPEC_TO_PROTOCOL_VERSION(conn[c].client.websocket_version)
                             = conn[c].server.request.version
    BY DEF HandshakeAgrees
  <2>1. c \in Connections /\ conn[c].link = "up" /\ Served(c, conn[c]) /\ Agreed(c, conn[c])
    BY DEF Up, Good, Sound
  <2>2. conn[c].server.request.version = SPEC_TO_PROTOCOL_VERSION(clientFactory(c).version)
    BY <2>1 DEF Served, Agreed, versionOf
  <2> QED
    BY <2>1, <2>2 DEF Agreed
<1> QED
  BY <1>1, AlwaysGood, PTL

\* Each step is one of those.
LEMMA OneSteps ==
    ASSUME Good, Next
    PROVE  (\E given \in opt.later : setProtocolOptions(given)) \/ (\E c \in Connections : Steps(c))
  BY ConnectionMadeGood, ConnectingGood, ConnectionLostGood, ProxyAnswersGood,
     ServerReceivesGood, ClientReceivesGood, AnswerGood, CacheAnswersGood DEF Next

-----------------------------------------------------------------------------
(* What onConnect is told.                                                 *)

\* What a client has said of itself.
TrueOf(told, c) ==
    LET r == ConnectingRequest(clientFactory(c))
    IN  /\ told.host = r.host /\ told.path = r.resource /\ told.origin = r.origin
        /\ told.protocols = r.protocols /\ told.extensions = opt.clients[c].offers

LEMMA ToldIs ==
    ASSUME opt \in Options, Released, Addressed, NEW c \in DOMAIN opt.clients, NEW p,
           NEW http, http = forwarded(request(c), c),
           NEW version, version = field(http, "sec-websocket-version")[1]
    PROVE  TrueOf(ConnectionRequest(p, http, version), c)
<1> DEFINE k == clientFactory(c)
           r == ConnectingRequest(k)
           q == request(c)
           name == IF k.version > 10 THEN "origin" ELSE "sec-websocket-origin"
           told == ConnectionRequest(p, http, version)
<1>1. IsRequest(q, c, k, r)
  BY RequestIs DEF request
<1>2. k.offers = opt.clients[c].offers /\ k.version \in SUPPORTED_SPEC_VERSIONS \ {11, 12}
  <2>1. /\ {"offers", "version"} \subseteq DOMAIN opt.clients[c]
        /\ opt.clients[c].version \in SUPPORTED_SPEC_VERSIONS \ {11, 12}
    BY DEF Addressed, Released
  <2>2. k.offers = opt.clients[c].offers /\ k.version = opt.clients[c].version
    BY <2>1 DEF clientFactory
  <2> QED
    BY <2>1, <2>2
<1> HIDE DEF k, r, q
<1>3. /\ DOMAIN q = RequestFields /\ q.path = r.resource
      /\ {"host", "sec-websocket-key", "sec-websocket-version"} \subseteq DOMAIN q.headers
      /\ q.headers["host"] = one([host |-> r.host, port |-> r.port])
      /\ q.headers["sec-websocket-version"] = one(SPEC_TO_PROTOCOL_VERSION(k.version))
      /\ name \in DOMAIN q.headers <=> r.origin # None
      /\ r.origin # None => q.headers[name] = one(r.origin)
      /\ "sec-websocket-protocol" \in DOMAIN q.headers <=> r.protocols # <<>>
      /\ r.protocols # <<>> => q.headers["sec-websocket-protocol"] = <<r.protocols>>
      /\ "sec-websocket-extensions" \in DOMAIN q.headers <=> k.offers # <<>>
      /\ k.offers # <<>> => q.headers["sec-websocket-extensions"] = <<k.offers>>
  BY <1>1 DEF IsRequest
<1>4. /\ http.path = r.resource
      /\ \A x : x # "x-forwarded-for" =>
            /\ has(http, x) <=> x \in DOMAIN q.headers
            /\ x \in DOMAIN q.headers => http.headers[x] = q.headers[x]
  <2>1. http = forwarded(q, c) /\ {"path", "headers"} \subseteq DOMAIN q
    BY <1>3 DEF q, RequestFields
  <2> QED
    BY <1>3, <2>1, Forwarded DEF has
<1>5. name = originHeader(version)
  <2>1. version = SPEC_TO_PROTOCOL_VERSION(k.version)
    <3>1. http.headers["sec-websocket-version"] = one(SPEC_TO_PROTOCOL_VERSION(k.version))
      BY <1>3, <1>4
    <3> QED
      BY <3>1, OneItem
  <2> QED
    BY <1>2, <2>1 DEF originHeader, SPEC_TO_PROTOCOL_VERSION, SUPPORTED_SPEC_VERSIONS
<1> DEFINE host == [host |-> r.host, port |-> r.port]
<1>6. told.host = r.host /\ told.path = r.resource
  <2>1. http.headers["host"] = one(host) /\ host.host = r.host
    BY <1>3, <1>4
  <2> HIDE DEF host
  <2>2. field(http, "host")[1] = host
    BY <2>1, OneItem
  <2> QED
    BY <1>4, <2>1, <2>2 DEF ConnectionRequest
<1>7. told.origin = r.origin
  <2>1. name # "x-forwarded-for"
    OBVIOUS
  <2> HIDE DEF name
  <2>2. has(http, name) <=> r.origin # None
    BY <1>3, <1>4, <2>1
  <2>3. r.origin # None => http.headers[name] = one(r.origin)
    BY <1>3, <1>4, <2>1
  <2>4. r.origin # None => field(http, name)[1] = r.origin
    BY <2>3, OneItem
  <2>5. told.origin = IF has(http, name) THEN field(http, name)[1] ELSE None
    BY <1>5 DEF ConnectionRequest
  <2> QED
    BY <2>2, <2>4, <2>5
<1>8. told.protocols = r.protocols
  <2>1. has(http, "sec-websocket-protocol") <=> r.protocols # <<>>
    BY <1>3, <1>4
  <2>2. r.protocols # <<>> => field(http, "sec-websocket-protocol") = r.protocols
    BY <1>3, <1>4, SingleLine
  <2> QED
    BY <2>1, <2>2 DEF ConnectionRequest
<1>9. told.extensions = k.offers
  <2>1. has(http, "sec-websocket-extensions") <=> k.offers # <<>>
    BY <1>3, <1>4
  <2>2. k.offers # <<>> => field(http, "sec-websocket-extensions") = k.offers
    BY <1>3, <1>4, SingleLine
  <2> QED
    BY <2>1, <2>2 DEF ConnectionRequest
<1> QED
  BY <1>2, <1>6, <1>7, <1>8, <1>9 DEF TrueOf, k, r

\* Trusting as many web servers as there are finds the client's address.
LEMMA PeerIs ==
    ASSUME opt \in Options, Addressed, NEW c \in DOMAIN opt.clients, NEW s,
           s.options.trustXForwardedFor = Len(opt.forwarders),
           Len(opt.forwarders) = 0 => s.peer = opt.clients[c].address
    PROVE  peerOf(s, forwarded(request(c), c)) = opt.clients[c].address
<1> DEFINE n == Len(opt.forwarders)
           q == request(c)
           http == forwarded(q, c)
           address == opt.clients[c].address
           before == IF has(q, "x-forwarded-for") THEN field(q, "x-forwarded-for") ELSE <<>>
           named == SubSeq(callers(c), 1, n)
           all == before \o named
<1>1. opt.forwarders \in Seq(STRING) /\ n \in Nat /\ opt.clients[c].claims \in Seq(STRING)
  BY DEF Addressed
<1>2. CASE n = 0
  BY <1>2 DEF peerOf
<1>3. CASE n # 0
  <2>1. PICK S : S = STRING \cup {address}
    OBVIOUS
  <2>2. /\ callers(c) \in Seq(S) /\ Len(callers(c)) = n + 1 /\ callers(c)[1] = address
    <3>1. PICK x : x = address
      OBVIOUS
    <3>2. PICK t : t = opt.forwarders
      OBVIOUS
    <3>3. t \in Seq(S) /\ x \in S /\ Len(t) = n
      BY <1>1, <2>1, <3>1, <3>2
    <3>4. <<x>> \o t \in Seq(S) /\ Len(<<x>> \o t) = n + 1 /\ (<<x>> \o t)[1] = x
      BY <1>1, <3>3
    <3> QED
      BY <3>1, <3>2, <3>4 DEF callers
  <2>3. named \in Seq(S) /\ Len(named) = n /\ named[1] = address
    <3>1. PICK t : t = callers(c)
      OBVIOUS
    <3>2. PICK m : m = n
      OBVIOUS
    <3>3. SubSeq(t, 1, m) \in Seq(S) /\ Len(SubSeq(t, 1, m)) = m /\ SubSeq(t, 1, m)[1] = t[1]
      BY <1>1, <1>3, <2>2, <3>1, <3>2
    <3> QED
      BY <2>2, <3>1, <3>2, <3>3
  <2>4. before \in Seq(S)
    <3>1. PICK t : t = opt.clients[c].claims
      OBVIOUS
    <3>2. t \in Seq(S)
      BY <1>1, <2>1, <3>1
    <3>3. clientFactory(c).claims = t
      BY <3>1 DEF clientFactory, Addressed
    <3>4. /\ "x-forwarded-for" \in DOMAIN q.headers <=> t # <<>>
          /\ t # <<>> => q.headers["x-forwarded-for"] = <<t>>
      <4>1. IsRequest(q, c, clientFactory(c), ConnectingRequest(clientFactory(c)))
        BY RequestIs DEF request
      <4> HIDE DEF q
      <4> QED
        BY <3>3, <4>1 DEF IsRequest
    <3> HIDE DEF q
    <3>5. before = t
      BY <3>4, SingleLine DEF has
    <3> QED
      BY <3>2, <3>5
  <2> HIDE DEF before, named
  <2>5. all \in Seq(S) /\ Len(all) = Len(before) + n /\ all[Len(before) + 1] = address
    <3>1. PICK b : b = before
      OBVIOUS
    <3>2. PICK t : t = named
      OBVIOUS
    <3>3. b \in Seq(S) /\ t \in Seq(S) /\ Len(t) \in Nat /\ Len(t) # 0 /\ t[1] = address
      BY <1>1, <1>3, <2>3, <2>4, <3>1, <3>2
    <3>4. b \o t \in Seq(S) /\ Len(b \o t) = Len(b) + Len(t) /\ (b \o t)[Len(b) + 1] = t[1]
      BY <3>3
    <3> QED
      BY <2>3, <3>1, <3>2, <3>3, <3>4
  <2>6. has(http, "x-forwarded-for") /\ http.headers["x-forwarded-for"] = <<all>>
    <3>1. "headers" \in DOMAIN q
      BY RequestOf
    <3>2. http = [q EXCEPT !.headers =
                [name \in DOMAIN @ \cup {"x-forwarded-for"} |->
                    IF name = "x-forwarded-for" THEN <<all>> ELSE @[name]]]
      BY <1>3 DEF forwarded, before, named
    <3> HIDE DEF q, all, http
    <3> QED
      BY <3>1, <3>2 DEF has
  <2>7. field(http, "x-forwarded-for") = all
    BY <2>6, SingleLine
  <2> HIDE DEF http, all
  <2>8. Len(before) \in Nat /\ ~(n > Len(all)) /\ Len(all) - n + 1 = Len(before) + 1
    BY <1>1, <2>4, <2>5
  <2> HIDE DEF n
  <2>9. peerOf(s, http) = all[Len(before) + 1]
    BY <1>3, <2>6, <2>7, <2>8 DEF peerOf, n
  <2> QED
    BY <2>5, <2>9 DEF http, q
<1> QED
  BY <1>2, <1>3

Seen(c, n) ==
    /\ n.link # "none" => c \in DOMAIN opt.clients
    /\ n.link = "up" /\ n.server.options.trustXForwardedFor = 0 /\ Len(opt.forwarders) = 0 =>
          n.server.peer = opt.clients[c].address
    /\ n.server.request # None /\ ~n.altered =>
          /\ n.client.requested = ConnectingRequest(clientFactory(c))
          /\ TrueOf(n.server.request, c)
          /\ n.server.options.trustXForwardedFor = Len(opt.forwarders) =>
                n.server.peer = opt.clients[c].address

AllSeen == \A c \in Connections : Seen(c, conn[c])

LEMMA OneSeen ==
    ASSUME Good, Released, Addressed, NEW c \in Connections, NEW k, NEW n,
           k = conn[c], Seen(c, k), Joins(c, k, n) \/ Reads(c, k, n) \/ Goes(c, k, n)
    PROVE  Seen(c, n)
<1>1. k.link = "none" => k.server.request = None
  BY Unconnected DEF Good, Sound, Shape
<1>2. opt \in Options
  BY DEF Good
<1>3. CASE Joins(c, k, n)
  <2>1. c \in DOMAIN opt.clients
    BY <1>3 DEF Joins, Seen
  <2>2. Len(opt.forwarders) = 0 => Last(callers(c)) = opt.clients[c].address
    <3>1. opt.forwarders \in Seq(STRING)
      BY <1>2 DEF Addressed
    <3>2. PICK x : x = opt.clients[c].address
      OBVIOUS
    <3>3. PICK t : t = opt.forwarders
      OBVIOUS
    <3>4. Len(t) = 0 => t = <<>>
      BY <3>1, <3>3
    <3>5. Len(<<x>> \o <<>>) = 1 /\ (<<x>> \o <<>>)[1] = x
      OBVIOUS
    <3> QED
      BY <3>2, <3>3, <3>4, <3>5 DEF callers, Last
  <2> QED
    BY <1>3, <2>1, <2>2 DEF Joins, Seen
<1>4. CASE Goes(c, k, n)
  <2>1. n.link # "none" => c \in DOMAIN opt.clients
    BY <1>4 DEF Goes, Seen
  <2>2. n.link = "up" => k.link = "up"
    BY <1>4 DEF Goes
  <2>3. n.server.request # None => k.link # "none"
    BY <1>1, <1>4 DEF Goes
  <2> QED
    BY <1>4, <2>1, <2>2, <2>3 DEF Goes, Seen
<1>5. CASE Reads(c, k, n)
  <2>1. c \in DOMAIN opt.clients /\ n.server.options = k.server.options /\ n.link = "up" /\ k.link = "up"
    BY <1>5 DEF Reads, Seen
  <2>2. PICK a : LET http == forwarded(through(request(c), a), c)
                     version == field(http, "sec-websocket-version")[1]
                 IN  /\ ~n.altered => ~k.altered /\ a = None
                     /\ n.server.peer = peerOf(k.server, http)
                     /\ n.server.request \in
                           {k.server.request,
                            ConnectionRequest([k.server EXCEPT !.peer = n.server.peer], http, version)}
    BY <1>5 DEF Reads
  <2>3. k.server.options.trustXForwardedFor = 0 => n.server.peer = k.server.peer
    BY <2>2 DEF peerOf
  <2>4. ASSUME ~n.altered
        PROVE  /\ n.server.request # None =>
                    n.server.request = k.server.request \/ TrueOf(n.server.request, c)
               /\ n.server.options.trustXForwardedFor = Len(opt.forwarders) =>
                     n.server.peer = opt.clients[c].address
    <3>1. through(request(c), a) = request(c)
      BY <2>2, <2>4 DEF through
    <3>2. PICK http : http = forwarded(request(c), c)
      OBVIOUS
    <3>3. PICK version : version = field(http, "sec-websocket-version")[1]
      OBVIOUS
    <3>4. /\ n.server.peer = peerOf(k.server, http)
          /\ n.server.request \in
                {k.server.request, ConnectionRequest([k.server EXCEPT !.peer = n.server.peer], http, version)}
      BY <2>2, <3>1, <3>2, <3>3
    <3>5. PICK p : p = [k.server EXCEPT !.peer = n.server.peer]
      OBVIOUS
    <3>6. TrueOf(ConnectionRequest(p, http, version), c)
      BY <1>2, <2>1, <3>2, <3>3, ToldIs
    <3>7. PICK s : s = k.server
      OBVIOUS
    <3>8. s.options.trustXForwardedFor = Len(opt.forwarders) => peerOf(s, http) = opt.clients[c].address
      BY <1>2, <2>1, <3>2, <3>7, PeerIs DEF Seen
    <3> QED
      BY <2>1, <3>4, <3>5, <3>6, <3>7, <3>8
  <2>5. n.client.requested = ConnectingRequest(clientFactory(c))
    BY <1>5 DEF Reads
  <2>6. ~n.altered => ~k.altered
    BY <2>2
  <2> QED
    BY <2>1, <2>3, <2>4, <2>5, <2>6 DEF Seen
<1> QED
  BY <1>3, <1>4, <1>5

LEMMA AlwaysSeen ==
    ASSUME Released, Addressed
    PROVE  Spec => []AllSeen
<1>1. Init => AllSeen
  BY Unconnected DEF Init, AllSeen, Seen
<1>2. Good /\ AllSeen /\ [Next]_vars => AllSeen'
  <2> SUFFICES ASSUME Good, AllSeen, [Next]_vars
               PROVE  AllSeen'
    OBVIOUS
  <2>1. ASSUME opt' = opt, NEW d, Seen(d, conn'[d])
        PROVE  Seen(d, conn[d])'
    <3>1. clientFactory(d)' = clientFactory(d)
      BY <2>1 DEF clientFactory
    <3>2. ConnectingRequest(clientFactory(d))' = ConnectingRequest(clientFactory(d))
      BY <3>1 DEF ConnectingRequest
    <3> QED
      BY <2>1, <3>1, <3>2 DEF Seen, TrueOf
  <2>2. CASE opt' = opt /\ conn' = conn
    BY <2>1, <2>2 DEF AllSeen
  <2>3. ASSUME NEW c \in Connections, Steps(c)
        PROVE  AllSeen'
    <3>1. PICK n : /\ conn' = [conn EXCEPT ![c] = n] /\ opt' = opt
                   /\ Joins(c, conn[c], n) \/ Reads(c, conn[c], n) \/ Goes(c, conn[c], n)
      BY <2>3 DEF Steps
    <3>2. PICK k : k = conn[c]
      OBVIOUS
    <3>3. Seen(c, n)
      BY <3>1, <3>2, OneSeen DEF AllSeen
    <3>4. conn'[c] = n /\ \A d \in Connections \ {c} : conn'[d] = conn[d]
      BY <3>1 DEF Good
    <3>5. \A d \in Connections : Seen(d, conn'[d])
      BY <3>3, <3>4 DEF AllSeen
    <3> QED
      BY <2>1, <3>1, <3>5 DEF AllSeen
  <2> QED
    BY <2>2, <2>3, OneSteps DEF vars, setProtocolOptions
<1> QED
  BY <1>1, <1>2, AlwaysGood, PTL DEF Spec

\* RequestSeen: what onConnect is told of a client is what that client has said, and
\* its address is where it called from if exactly the web servers in front are trusted.
THEOREM ToldTheTruth ==
    ASSUME Released, Addressed
    PROVE  Spec => []RequestSeen
<1>1. AllSeen => RequestSeen
  <2> SUFFICES ASSUME AllSeen, NEW c \in Connections, conn[c].server.request # None, ~conn[c].altered
               PROVE  LET told == conn[c].server.request
                          said == conn[c].client.requested
                      IN  /\ <<told.host, told.path, told.origin, told.protocols, told.extensions>>
                                = <<said.host, said.resource, said.origin, said.protocols,
                                    opt.clients[c].offers>>
                          /\ conn[c].server.options.trustXForwardedFor = Len(opt.forwarders) =>
                                conn[c].server.peer = opt.clients[c].address
    BY DEF RequestSeen
  <2>1. Seen(c, conn[c])
    BY DEF AllSeen
  <2> QED
    BY <2>1 DEF Seen, TrueOf
<1> QED
  BY <1>1, AlwaysSeen, PTL

-----------------------------------------------------------------------------
(* The limit.                                                              *)

\* Connections that are open, or will be as soon as onConnect's future is done.
Admitted == {c \in Up : conn[c].server.pending \/ conn[c].server.state = "OPEN"}

maxConnections(c) == conn[c].server.options.maxConnections

\* The last of them to come has looked at the count when all the others were there.
WithinLimit(S) == \E c \in S : maxConnections(c) = 0 \/ Cardinality(S) <= maxConnections(c)

Counted ==
    /\ {"options", "countConnections"} \subseteq DOMAIN factory
    /\ factory.options.maxConnections \in Nat
    /\ IsFiniteSet(Up) /\ factory.countConnections = Cardinality(Up)
    /\ \A c \in Up : maxConnections(c) \in Nat
    /\ \A S \in SUBSET Admitted : S # {} => WithinLimit(S)

\* A call of setProtocolOptions leaves a number there.
LEMMA LimitIsNumber ==
    ASSUME NEW options, NEW given, options.maxConnections \in Nat,
           "maxConnections" \in DOMAIN given => given["maxConnections"] \in Nat
    PROVE  server_setProtocolOptions(options, given).maxConnections \in Nat
<1> DEFINE value(o) == CASE o \in DOMAIN given -> given[o]
                         [] o = "allowNullOrigin" -> FALSE
                         [] OTHER -> options[o]
<1>1. value("maxConnections") \in Nat
  OBVIOUS
<1>2. server_setProtocolOptions(options, given) = [o \in ServerOptions |-> value(o)]
  BY DEF server_setProtocolOptions
<1> HIDE DEF value
<1> QED
  BY <1>1, <1>2 DEF ServerOptions

LEMMA CountedInit ==
    ASSUME Limited
    PROVE  Init => Counted
<1> SUFFICES ASSUME Init
             PROVE  Counted
  OBVIOUS
<1>1. Up = {}
  BY Unconnected DEF Init, Up
<1>2. Admitted = {}
  BY <1>1 DEF Admitted
<1>3. factory = serverFactory(opt) /\ opt \in Options
  BY DEF Init
<1>4. DOMAIN factory = {"options", "externalPort", "countConnections", "reset"} /\ factory.countConnections = 0
  BY <1>3 DEF serverFactory
<1>5. factory.options \in {server_resetProtocolOptions,
                           server_setProtocolOptions(server_resetProtocolOptions, opt.server)}
  BY <1>3 DEF serverFactory
<1>6. server_resetProtocolOptions.maxConnections \in Nat
  BY DEF server_resetProtocolOptions
<1>7. server_setProtocolOptions(server_resetProtocolOptions, opt.server).maxConnections \in Nat
  <2>1. PICK given : given = opt.server
    OBVIOUS
  <2>2. "maxConnections" \in DOMAIN given => given["maxConnections"] \in Nat
    BY <1>3, <2>1 DEF Limited
  <2>3. PICK options : options = server_resetProtocolOptions
    OBVIOUS
  <2> QED
    BY <1>6, <2>1, <2>2, <2>3, LimitIsNumber
<1>8. factory.options.maxConnections \in Nat
  BY <1>5, <1>6, <1>7
<1> QED
  BY <1>1, <1>2, <1>4, <1>8, FS_EmptySet DEF Counted

\* What matters is who is up, who is admitted and to which limit.
LEMMA CountedAgain ==
    ASSUME Counted, {"options", "countConnections"} \subseteq DOMAIN factory',
           factory.options.maxConnections' \in Nat,
           IsFiniteSet(Up'), factory.countConnections' = Cardinality(Up'),
           \A c \in Up' : maxConnections(c)' \in Nat,
           \A c \in Admitted' \cap Admitted : maxConnections(c)' = maxConnections(c),
           \A S \in SUBSET Admitted' : S # {} => S \subseteq Admitted \/ WithinLimit(S)'
    PROVE  Counted'
<1>1. ASSUME NEW S \in SUBSET Admitted', S # {}
      PROVE  WithinLimit(S)'
  <2>1. CASE S \subseteq Admitted
    <3>1. PICK c \in S : maxConnections(c) = 0 \/ Cardinality(S) <= maxConnections(c)
      BY <1>1, <2>1 DEF Counted, WithinLimit
    <3>2. maxConnections(c)' = maxConnections(c)
      BY <1>1, <2>1, <3>1
    <3> QED
      BY <3>1, <3>2 DEF WithinLimit
  <2> QED
    BY <1>1, <2>1
<1>2. (\A S \in SUBSET Admitted : S # {} => WithinLimit(S))'
  BY <1>1
<1> QED
  BY <1>2 DEF Counted

LEMMA CountedStep ==
    ASSUME Good, Counted, NEW c \in Connections, Steps(c)
    PROVE  Counted'
<1>1. PICK n : /\ conn' = [conn EXCEPT ![c] = n]
               /\ Joins(c, conn[c], n) \/ Reads(c, conn[c], n) \/ Goes(c, conn[c], n)
  BY DEF Steps
<1>2. conn'[c] = n /\ \A d \in Connections \ {c} : conn'[d] = conn[d]
  BY <1>1 DEF Good
<1>3. /\ \A d : d \in Up <=> d \in Connections /\ conn[d].link = "up"
      /\ \A d : d \in Up' <=> d \in Connections /\ conn'[d].link = "up"
  BY DEF Up
<1>4. /\ \A d : d \in Admitted <=> d \in Up /\ (conn[d].server.pending \/ conn[d].server.state = "OPEN")
      /\ \A d : d \in Admitted' <=> d \in Up' /\ (conn'[d].server.pending \/ conn'[d].server.state = "OPEN")
  BY DEF Admitted
<1>5. \A d : /\ maxConnections(d) = conn[d].server.options.maxConnections
             /\ maxConnections(d)' = conn'[d].server.options.maxConnections
  BY DEF maxConnections
<1>6. Cardinality(Up) \in Nat
  BY FS_CardinalityType DEF Counted
<1>7. CASE Joins(c, conn[c], n)
  <2>1. /\ conn[c].link # "up" /\ n.link = "up" /\ factory' = [factory EXCEPT !.countConnections = @ + 1]
        /\ ~n.server.pending /\ n.server.state # "OPEN" /\ n.server.options = factory.options
    BY <1>7 DEF Joins
  <2>2. Up' = Up \cup {c} /\ c \notin Up
    BY <1>2, <1>3, <2>1
  <2>3. IsFiniteSet(Up') /\ Cardinality(Up') = Cardinality(Up) + 1
    BY <2>2, FS_AddElement DEF Counted
  <2>4. Admitted' \subseteq Admitted /\ c \notin Admitted'
    BY <1>2, <1>3, <1>4, <2>1
  <2>5. /\ DOMAIN factory' = DOMAIN factory /\ factory'.options = factory.options
        /\ factory'.countConnections = factory.countConnections + 1
    BY <2>1 DEF Counted
  <2>6. \A d \in Admitted' : maxConnections(d)' = maxConnections(d)
    BY <1>2, <1>3, <1>4, <1>5, <2>4
  <2>7. \A d \in Up' : maxConnections(d)' \in Nat
    BY <1>2, <1>3, <1>5, <2>1, <2>2 DEF Counted
  <2>8. \A S \in SUBSET Admitted' : S \subseteq Admitted
    BY <2>4
  <2> QED
    BY <2>3, <2>5, <2>6, <2>7, <2>8, CountedAgain DEF Counted
<1>8. CASE Reads(c, conn[c], n)
  <2>1. /\ conn[c].link = "up" /\ n.link = "up" /\ factory' = factory
        /\ n.server.options = conn[c].server.options
        /\ \/ (n.server.pending => conn[c].server.pending) /\ n.server.state # "OPEN"
           \/ ~full(conn[c].server)
    BY <1>8 DEF Reads
  <2>2. Up' = Up
    BY <1>2, <1>3, <2>1
  <2>3. Admitted' \subseteq Admitted \cup {c}
    BY <1>2, <1>3, <1>4, <2>2
  <2>4. \A d \in Up' : maxConnections(d)' = maxConnections(d) /\ maxConnections(d) \in Nat
    BY <1>2, <1>3, <1>5, <2>1, <2>2 DEF Counted
  <2>5. Admitted' \subseteq Up'
    BY <1>4
  <2>6. ASSUME NEW S \in SUBSET Admitted', S # {}
        PROVE  S \subseteq Admitted \/ WithinLimit(S)'
    <3>1. CASE (n.server.pending => conn[c].server.pending) /\ n.server.state # "OPEN"
      BY <1>2, <1>3, <1>4, <2>1, <2>3, <3>1
    <3>2. CASE ~full(conn[c].server) /\ c \in S
      <4>1. IsFiniteSet(S) /\ Cardinality(S) <= Cardinality(Up) /\ Cardinality(S) \in Nat
        BY <2>2, <2>5, <2>6, FS_Subset, FS_CardinalityType DEF Counted
      <4>2. maxConnections(c) \in Nat /\ maxConnections(c)' = maxConnections(c)
        BY <2>4, <2>5, <2>6, <3>2
      <4>3. maxConnections(c) = 0 \/ Cardinality(Up) <= maxConnections(c)
        BY <1>5, <1>6, <3>2, <4>2 DEF full, Counted
      <4>4. maxConnections(c) = 0 \/ Cardinality(S) <= maxConnections(c)
        BY <1>6, <4>1, <4>2, <4>3
      <4>5. \E d \in S : maxConnections(d)' = 0 \/ Cardinality(S) <= maxConnections(d)'
        BY <3>2, <4>2, <4>4
      <4> QED
        BY <4>5 DEF WithinLimit
    <3>3. CASE c \notin S
      BY <2>3, <2>6, <3>3
    <3> QED
      BY <2>1, <3>1, <3>2, <3>3
  <2> QED
    BY <2>1, <2>2, <2>4, <2>5, <2>6, CountedAgain DEF Counted
<1>9. CASE Goes(c, conn[c], n)
  <2>1. /\ n.server.options = conn[c].server.options
        /\ n.server.pending => conn[c].server.pending
        /\ n.server.state = "OPEN" => conn[c].server.state = "OPEN" \/ conn[c].server.pending
        /\ \/ (n.link = "up" <=> conn[c].link = "up") /\ factory' = factory
           \/ /\ conn[c].link = "up" /\ n.link # "up"
              /\ factory' = [factory EXCEPT !.countConnections = @ - 1]
    BY <1>9 DEF Goes
  <2>2. Admitted' \subseteq Admitted
    BY <1>2, <1>3, <1>4, <2>1
  <2>3. \A d \in Up' : d \in Up /\ maxConnections(d)' = maxConnections(d) /\ maxConnections(d) \in Nat
    BY <1>2, <1>3, <1>5, <2>1 DEF Counted
  <2>4. Admitted' \subseteq Up' /\ \A S \in SUBSET Admitted' : S \subseteq Admitted
    BY <1>4, <2>2
  <2>5. /\ IsFiniteSet(Up') /\ factory.countConnections' = Cardinality(Up')
        /\ {"options", "countConnections"} \subseteq DOMAIN factory'
        /\ factory'.options = factory.options
    <3>1. CASE (n.link = "up" <=> conn[c].link = "up") /\ factory' = factory
      <4>1. Up' = Up
        BY <1>2, <1>3, <3>1
      <4> QED
        BY <3>1, <4>1 DEF Counted
    <3>2. CASE /\ conn[c].link = "up" /\ n.link # "up"
               /\ factory' = [factory EXCEPT !.countConnections = @ - 1]
      <4>1. Up' = Up \ {c} /\ c \in Up
        BY <1>2, <1>3, <3>2
      <4>2. IsFiniteSet(Up') /\ Cardinality(Up') = Cardinality(Up) - 1
        BY <4>1, FS_RemoveElement DEF Counted
      <4>3. /\ DOMAIN factory' = DOMAIN factory /\ factory'.options = factory.options
            /\ factory'.countConnections = factory.countConnections - 1
        BY <3>2 DEF Counted
      <4> QED
        BY <4>2, <4>3 DEF Counted
    <3> QED
      BY <2>1, <3>1, <3>2
  <2> QED
    BY <2>3, <2>4, <2>5, CountedAgain DEF Counted
<1> QED
  BY <1>1, <1>7, <1>8, <1>9

LEMMA AlwaysCounted ==
    ASSUME Limited
    PROVE  Spec => []Counted
<1>1. Init => Counted
  BY CountedInit
<1>2. Good /\ Counted /\ [Next]_vars => Counted'
  <2> SUFFICES ASSUME Good, Counted, [Next]_vars
               PROVE  Counted'
    OBVIOUS
  <2>1. ASSUME conn' = conn
        PROVE  /\ Up' = Up /\ Admitted' = Admitted
               /\ \A d : maxConnections(d)' = maxConnections(d)
    BY <2>1 DEF Up, Admitted, maxConnections
  <2>2. Admitted \subseteq Up
    BY DEF Admitted
  <2>3. CASE UNCHANGED vars
    BY <2>1, <2>2, <2>3, CountedAgain DEF vars, Counted
  <2>4. ASSUME NEW given \in opt.later, setProtocolOptions(given)
        PROVE  Counted'
    <3>1. /\ factory' = [factory EXCEPT !.options = server_setProtocolOptions(@, given), !.reset = TRUE]
          /\ conn' = conn
      BY <2>4 DEF setProtocolOptions
    <3>2. "maxConnections" \in DOMAIN given => given["maxConnections"] \in Nat
      BY <2>4 DEF Limited, Good
    <3>3. PICK options : options = factory.options
      OBVIOUS
    <3>4. server_setProtocolOptions(options, given).maxConnections \in Nat
      BY <3>2, <3>3, LimitIsNumber DEF Counted
    <3>5. /\ DOMAIN factory' = DOMAIN factory /\ factory'.countConnections = factory.countConnections
          /\ factory'.options = server_setProtocolOptions(options, given)
      BY <3>1, <3>3 DEF Counted
    <3> QED
      BY <2>1, <2>2, <3>1, <3>4, <3>5, CountedAgain DEF Counted
  <2> QED
    BY <2>3, <2>4, OneSteps, CountedStep
<1> QED
  BY <1>1, <1>2, AlwaysGood, PTL DEF Spec

\* ConnectionsBounded: no more are open than the last of them was told there may be.
THEOREM LimitHolds ==
    ASSUME Limited
    PROVE  Spec => []ConnectionsBounded
<1>1. Counted => ConnectionsBounded
  <2> SUFFICES ASSUME Counted
               PROVE  ConnectionsBounded
    OBVIOUS
  <2> DEFINE open == {c \in Up : conn[c].server.state = "OPEN"}
  <2>1. open \in SUBSET Admitted
    BY DEF Admitted
  <2> HIDE DEF open
  <2>2. open # {} => \E c \in open : maxConnections(c) = 0 \/ Cardinality(open) <= maxConnections(c)
    BY <2>1 DEF Counted, WithinLimit
  <2> QED
    BY <2>2 DEF ConnectionsBounded, maxConnections, open
<1> QED
  BY <1>1, AlwaysCounted, PTL

\* ServerKnows: what the server knows of its clients is true, and how many they are.
THEOREM ServerKnowsItsClients ==
    ASSUME Released, Addressed, Limited
    PROVE  Spec => []ServerKnows
<1>1. Spec => []RequestSeen
  BY ToldTheTruth
<1>2. Spec => []ConnectionsBounded
  BY LimitHolds
<1> QED
  BY <1>1, <1>2, PTL DEF ServerKnows
=============================================================================
