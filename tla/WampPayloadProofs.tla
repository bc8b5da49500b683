------------------------- MODULE WampPayloadProofs -------------------------
(***************************************************************************)
(* Proofs about WampPayload: for all sessions, keyrings, payloads and      *)
(* exceptions, any number of changes and of progressive results.           *)
(*                                                                         *)
(* InOrder says how far the exchange has come, Kept what its messages      *)
(* carry whatever the keys are, Ordered where the progressive results are, *)
(* Waiting that an answer is on its way, Undisturbed and Erred what they   *)
(* are when nothing has changed since.                                     *)
(***************************************************************************)
EXTENDS WampPayload, TLAPS

Fields ==
    {"is", "changes", "stable", "uri", "payload", "out", "in", "invocation", "invoked",
     "progressed", "back", "end", "told", "seen", "raised"}

MessageFields == {"type", "uri", "enc", "payload"}

\* The arguments within a message.
carried(m) == IF m.enc = Clear THEN m.payload ELSE m.enc.payload

IsSequence(s) == \E S : s \in Seq(S)

Shape ==
    /\ setup \in Pairs /\ DOMAIN x = Fields
    /\ IsSequence(x.back)
    /\ IsSequence(x.progressed)
    /\ IsSequence(x.seen)

\* One thing after the other: the request, the endpoint, its end, the answer.
InOrder ==
    /\ x.is = "idle" \/ x.out # Absent \/ x.in # Absent =>
          x.invoked = Absent /\ x.invocation = Absent /\ x.end = Absent /\ x.told = Absent /\ x.back = <<>>
    /\ x.is = "idle" => x.out = Absent /\ x.in = Absent
    /\ x.out # Absent => x.in = Absent
    /\ x.invocation # Absent => x.end = Absent
    /\ x.end = Absent => x.told = Absent

\* A request still is what it was when it was made.
Requested(m, uri, payload) ==
    /\ DOMAIN m = MessageFields
    /\ m.enc # Raised /\ carried(m) = payload
    /\ m.enc # Clear => m.enc.uri = uri

\* NothingIsMixedUp but for the order, and the same of what is still on its way.
Kept ==
    /\ x.out # Absent => Requested(x.out, x.uri, x.payload)
    /\ x.in # Absent => Requested(x.in, x.uri, x.payload)
    /\ x.invoked # Absent =>
          x.invoked.payload = x.payload /\ (x.invoked.encoded => x.invoked.uri = x.uri)
    /\ x.invocation # Absent => (x.invocation.encoded => x.invocation.uri = x.uri)
    /\ \A m \in ToSet(x.back) :
          /\ DOMAIN m = MessageFields /\ m.enc # Raised
          /\ m.type \in {"Progress", "Result", "Error"}
          /\ m.type = "Result" => x.end = [is |-> "payload", payload |-> carried(m)]
          /\ m.type # "Progress" => x.end # Absent
    /\ x.told # Absent /\ x.told.is = "payload" => x.told = x.end

\* The first n messages that come back are the last n progressive results; those
\* that have been seen are some of the others, each in its place.
InPlace(progressed, back, seen, n, place) ==
    /\ n <= Len(progressed)
    /\ \A i \in 1 .. Len(back) :
          /\ i <= n => /\ back[i].type = "Progress"
                       /\ carried(back[i]) = progressed[Len(progressed) - n + i]
          /\ i > n => back[i].type # "Progress"
    /\ \A i, j \in 1 .. Len(seen) : i < j => place[i] < place[j]
    /\ \A i \in 1 .. Len(seen) : seen[i] = progressed[place[i]]

OrderOf(progressed, back, seen) ==
    \E n \in 0 .. Len(back) : \E place \in [1 .. Len(seen) -> 1 .. Len(progressed) - n] :
        InPlace(progressed, back, seen, n, place)

\* The caller sees the progressive results in their order.
Ordered == OrderOf(x.progressed, x.back, x.seen)

\* The answer that is yet to come ends what is on its way.
Waiting ==
    x.end # Absent /\ x.told = Absent =>
        /\ x.back # <<>>
        /\ x.back[Len(x.back)].type # "Progress"
        /\ \A m \in ToSet(x.back) : m.type = "Error" => DOMAIN carried(m).kwargs \cap Own = {}

Sessions ==
    /\ DOMAIN session = Parties
    /\ \A p \in Parties : DOMAIN session[p] = {"ecls", "uris", "codec"}

\* What define() leaves behind: classes of the program, and its URIs.
ClassesDefined ==
    \A p \in Parties :
        /\ "ApplicationError" \notin DOMAIN session[p].ecls
        /\ \A uri \in DOMAIN session[p].uris : session[p].uris[uri] # "ApplicationError"

ErrorsDefined ==
    \A p \in Parties : \A c \in DOMAIN session[p].ecls : session[p].ecls[c][1] \notin Failures

originatorBox(codec, uri) == _get_box(codec, TRUE, uri)
responderBox(codec, uri) == _get_box(codec, FALSE, uri)

\* What the responder, and the originator, can read when it is about this URI.
ReadableByResponder(s, m, uri) ==
    m.enc # Clear =>
        s.codec # NoRing /\ m.enc.box # NoBox /\ m.enc.box = responderBox(s.codec, uri) /\ m.enc.uri = uri

ReadableByOriginator(s, m, uri) ==
    m.enc # Clear =>
        s.codec # NoRing /\ m.enc.box # NoBox /\ m.enc.box = originatorBox(s.codec, uri) /\ m.enc.uri = uri

\* Between sessions with the same keys everything can be read.
Undisturbed ==
    KeysAgree /\ x.stable /\ ~setup.misroutes /\ x.is # "idle" =>
        /\ x.uri \in setup.uris
        /\ x.out # Absent => x.out.uri = x.uri /\ ReadableByResponder(session["responder"], x.out, x.uri)
        /\ x.in # Absent => x.in.uri = x.uri /\ ReadableByResponder(session["responder"], x.in, x.uri)
        /\ x.invocation # Absent => x.invocation.uri = x.uri
        /\ x.out = Absent /\ x.in = Absent => x.invoked # Absent
        /\ \A m \in ToSet(x.back) :
              /\ m.type = "Result" => ReadableByOriginator(session["originator"], m, x.uri)
              /\ m.type = "Error" =>
                    /\ ReadableByOriginator(session["originator"], m, m.uri) /\ m.uri \notin Failures
                    /\ ~(x.end.is = "payload" /\ serializable(x.end.payload))
        /\ x.told # Absent =>
              /\ x.end.is = "payload" /\ serializable(x.end.payload) => x.told = x.end
              /\ x.told.is = "exception" => x.told.uri \notin Failures

\* The error of an endpoint is the one the caller is told.
Erred ==
    x.stable /\ x.invoked # Absent /\ x.end # Absent /\ x.end.is = "exception" /\ serializable(x.end.payload) =>
        LET m == _message_from_exception(session["responder"], x.end, setup.traceback_app)
        IN  /\ x.end \in setup.exceptions
            /\ \A a \in ToSet(x.back) : a.type # "Progress" => a = m
            /\ x.told # Absent =>
                  /\ m # Raised /\ x.told # Raised
                  /\ x.told = _exception_from_message(session["originator"], Classes, m)

-----------------------------------------------------------------------------
(* Sequences.                                                              *)

LEMMA AppendedTo ==
    ASSUME NEW s, IsSequence(s), NEW m
    PROVE  /\ IsSequence(Append(s, m))
           /\ Append(s, m) # <<>> /\ Append(s, m)[Len(Append(s, m))] = m
           /\ ToSet(Append(s, m)) = ToSet(s) \cup {m}
<1>1. PICK S : s \in Seq(S)
  BY DEF IsSequence
<1>2. s \in Seq(S \cup {m})
  BY <1>1
<1>3. /\ Append(s, m) \in Seq(S \cup {m}) /\ Len(Append(s, m)) = Len(s) + 1 /\ Len(s) \in Nat
      /\ Append(s, m)[Len(s) + 1] = m /\ \A i \in 1 .. Len(s) : Append(s, m)[i] = s[i]
  BY <1>2
<1>4. DOMAIN s = 1 .. Len(s) /\ DOMAIN Append(s, m) = 1 .. (Len(s) + 1)
  BY <1>2, <1>3
<1>5. ToSet(Append(s, m)) \subseteq ToSet(s) \cup {m}
  BY <1>3, <1>4 DEF ToSet
<1>6. ToSet(s) \cup {m} \subseteq ToSet(Append(s, m))
  BY <1>3, <1>4 DEF ToSet
<1> QED
  BY <1>3, <1>5, <1>6 DEF IsSequence

LEMMA TakenFrom ==
    ASSUME NEW s, IsSequence(s), s # <<>>
    PROVE  /\ IsSequence(Tail(s))
           /\ Head(s) \in ToSet(s) /\ ToSet(Tail(s)) \subseteq ToSet(s)
           /\ Tail(s) = <<>> => s[Len(s)] = Head(s)
           /\ Tail(s) # <<>> => Tail(s)[Len(Tail(s))] = s[Len(s)]
<1>1. PICK S : s \in Seq(S)
  BY DEF IsSequence
<1>2. /\ Len(s) \in Nat /\ Len(s) > 0 /\ DOMAIN s = 1 .. Len(s) /\ Head(s) = s[1]
      /\ Tail(s) \in Seq(S) /\ Len(Tail(s)) = Len(s) - 1 /\ DOMAIN Tail(s) = 1 .. (Len(s) - 1)
      /\ \A i \in 1 .. (Len(s) - 1) : Tail(s)[i] = s[i + 1]
  BY <1>1
<1>3. Head(s) \in ToSet(s)
  BY <1>2 DEF ToSet
<1>4. ToSet(Tail(s)) \subseteq ToSet(s)
  BY <1>2 DEF ToSet
<1>5. Tail(s) = <<>> => s[Len(s)] = Head(s)
  <2>1. HAVE Tail(s) = <<>>
  <2>2. Len(<<>>) = 0
    OBVIOUS
  <2>3. Len(s) \in Nat /\ Len(s) - 1 = 0
    BY <1>2, <2>1, <2>2
  <2>4. Len(s) = 1
    BY <2>3
  <2> QED
    BY <1>2, <2>4
<1>6. Tail(s) # <<>> => Len(s) - 1 > 0
  BY <1>2
<1>7. Tail(s) # <<>> => Tail(s)[Len(Tail(s))] = s[Len(s)]
  BY <1>2, <1>6
<1> QED
  BY <1>2, <1>3, <1>4, <1>5, <1>7 DEF IsSequence

LEMMA Nothing == ToSet(<<>>) = {} /\ IsSequence(<<>>)
<1>1. <<>> \in Seq({})
  OBVIOUS
<1>2. DOMAIN <<>> = {}
  BY <1>1
<1> QED
  BY <1>1, <1>2 DEF ToSet, IsSequence

LEMMA OnlyOne ==
    ASSUME NEW m
    PROVE  /\ IsSequence(<<m>>)
           /\ <<m>> # <<>> /\ <<m>>[Len(<<m>>)] = m /\ ToSet(<<m>>) = {m}
<1>1. <<m>> \in Seq({m}) /\ Len(<<m>>) = 1 /\ <<m>>[1] = m /\ DOMAIN <<m>> = {1}
  OBVIOUS
<1> QED
  BY <1>1 DEF ToSet, IsSequence

-----------------------------------------------------------------------------
(* The codec: what is encoded is what was given, and what is decoded is    *)
(* what is in the message.                                                 *)

LEMMA Terms ==
    /\ Clear # Raised
    /\ \A b, u, p : [is |-> "encoded", box |-> b, uri |-> u, payload |-> p] \notin {Clear, Raised}
    /\ \A p : [is |-> "payload", payload |-> p] \notin {Absent, Raised}
    /\ \A c, u, p : exception(c, u, p) \notin {Absent, Raised} /\ exception(c, u, p).is = "exception"
BY DEF Clear, Raised, Absent, exception

\* encode() and decode() when the box is known.
encodedWith(codec, b, uri, payload) ==
    IF codec = NoRing \/ b = NoBox THEN Clear
    ELSE IF ~serializable(payload) THEN Raised
    ELSE [is |-> "encoded", box |-> b, uri |-> uri, payload |-> payload]

receivedWith(codec, b, uri, msg) ==
    LET failed(name) == ApplicationError(error(name), text)
    IN  IF msg.enc = Clear THEN [is |-> "payload", payload |-> msg.payload]
        ELSE IF codec = NoRing THEN failed("no_payload_codec")
        ELSE IF b = NoBox \/ b # msg.enc.box THEN failed("decrypt_error")
        ELSE IF msg.enc.uri # uri THEN failed("trusted_uri_mismatch")
        ELSE [is |-> "payload", payload |-> msg.enc.payload]

LEMMA EncodedIs ==
    ASSUME NEW codec, NEW b, NEW uri, NEW payload
    PROVE  LET e == encodedWith(codec, b, uri, payload)
           IN  /\ e # Raised /\ e # Clear =>
                     codec # NoRing /\ e.uri = uri /\ e.payload = payload /\ e.box = b /\ b # NoBox
               /\ serializable(payload) => e # Raised
BY Terms DEF encodedWith

LEMMA EncodedByResponder ==
    ASSUME NEW codec, NEW uri, NEW payload
    PROVE  (IF codec = NoRing THEN Clear ELSE encode(codec, FALSE, uri, payload))
               = encodedWith(codec, responderBox(codec, uri), uri, payload)
BY DEF encode, encodedWith, responderBox

LEMMA EncodedFields ==
    ASSUME NEW p \in Parties, NEW uri, NEW payload,
           encodedFor(p, uri, payload) # Raised, encodedFor(p, uri, payload) # Clear
    PROVE  /\ encodedFor(p, uri, payload).payload = payload
           /\ encodedFor(p, uri, payload).uri = uri
           /\ encodedFor(p, uri, payload).box = box(p, uri)
           /\ box(p, uri) # NoBox /\ session[p].codec # NoRing
<1>1. /\ session[p].codec # NoRing
      /\ encodedFor(p, uri, payload) = encode(session[p].codec, p = "originator", uri, payload)
  BY DEF encodedFor
<1>2. box(p, uri) = _get_box(session[p].codec, p = "originator", uri)
  BY <1>1 DEF box
<1>3. encodedFor(p, uri, payload) = encodedWith(session[p].codec, box(p, uri), uri, payload)
  BY <1>1, <1>2 DEF encode, encodedWith
<1> QED
  BY <1>3, EncodedIs

LEMMA WireIs ==
    ASSUME NEW type, NEW uri, NEW enc, NEW payload
    PROVE  LET m == Message(type, uri, enc, payload)
           IN  /\ DOMAIN m = MessageFields
               /\ m.type = type /\ m.uri = uri /\ m.enc = enc
               /\ enc = Clear => carried(m) = payload
               /\ enc # Clear => carried(m) = enc.payload
BY DEF Message, MessageFields, carried

LEMMA ReceivedIs ==
    ASSUME NEW codec, NEW b, NEW uri, NEW msg
    PROVE  LET r == receivedWith(codec, b, uri, msg)
           IN  /\ r # Absent /\ r # Raised /\ r.is \in {"payload", "exception"}
               /\ r.is = "payload" =>
                     /\ r = [is |-> "payload", payload |-> carried(msg)]
                     /\ msg.enc # Clear => msg.enc.uri = uri
               /\ r.is = "exception" =>
                     \E name \in {"no_payload_codec", "decrypt_error", "trusted_uri_mismatch"} :
                         r = ApplicationError(error(name), text)
               /\ msg.enc = Clear \/ (codec # NoRing /\ b # NoBox /\ msg.enc.box = b /\ msg.enc.uri = uri)
                     => r.is = "payload"
<1> DEFINE r == receivedWith(codec, b, uri, msg)
           failed(name) == ApplicationError(error(name), text)
<1>1. \A name : failed(name).is = "exception" /\ failed(name) \notin {Absent, Raised}
  <2>1. DOMAIN text.kwargs = {}
    BY DEF text, none
  <2> QED
    BY <2>1, Terms DEF ApplicationError
<1>2. CASE msg.enc = Clear
  <2>1. r = [is |-> "payload", payload |-> carried(msg)]
    BY <1>2 DEF receivedWith, carried
  <2> QED
    BY <1>2, <2>1, Terms
<1>3. CASE msg.enc # Clear /\ (codec = NoRing \/ b = NoBox \/ b # msg.enc.box \/ msg.enc.uri # uri)
  <2>1. r \in {failed("no_payload_codec"), failed("decrypt_error"), failed("trusted_uri_mismatch")}
    BY <1>3 DEF receivedWith
  <2>2. r.is = "exception" /\ r # Absent /\ r # Raised
    BY <1>1, <2>1
  <2> QED
    BY <1>3, <2>1, <2>2
<1>4. CASE msg.enc # Clear /\ codec # NoRing /\ b # NoBox /\ b = msg.enc.box /\ msg.enc.uri = uri
  <2>1. r = [is |-> "payload", payload |-> carried(msg)]
    BY <1>4 DEF receivedWith, carried
  <2> QED
    BY <1>4, <2>1, Terms
<1> QED
  BY <1>2, <1>3, <1>4

LEMMA ReceivedByResponder ==
    ASSUME NEW s, NEW uri, NEW msg
    PROVE  received(s, FALSE, uri, msg)
               = receivedWith(s.codec, responderBox(s.codec, uri), uri, msg)
BY DEF received, receivedWith, decode, Raised, responderBox

LEMMA ReceivedByOriginator ==
    ASSUME NEW s, NEW uri, NEW msg
    PROVE  received(s, TRUE, uri, msg)
               = receivedWith(s.codec, originatorBox(s.codec, uri), uri, msg)
BY DEF received, receivedWith, decode, Raised, originatorBox

-----------------------------------------------------------------------------
(* Exceptions as messages.                                                 *)

\* The arguments of an exception as they are sent.
sent(exc, tb) ==
    IF tb THEN [exc.payload EXCEPT !.kwargs = put(@, "traceback", "lines")] ELSE exc.payload

LEMMA MessageOfException ==
    ASSUME NEW s, NEW exc, NEW tb
    PROVE  LET m == _message_from_exception(s, exc, tb)
               uri == error_uri(s, exc)
           IN  /\ m # Raised =>
                     /\ DOMAIN m = MessageFields /\ m.type = "Error" /\ m.uri = uri
                     /\ m.enc # Raised /\ carried(m) = sent(exc, tb)
                     /\ m.enc # Clear =>
                           /\ s.codec # NoRing /\ m.enc.uri = uri
                           /\ m.enc.box = responderBox(s.codec, uri) /\ m.enc.box # NoBox
               /\ serializable(sent(exc, tb)) => m # Raised
<1> DEFINE m == _message_from_exception(s, exc, tb)
           uri == error_uri(s, exc)
           payload == sent(exc, tb)
           encoded == IF s.codec = NoRing THEN Clear ELSE encode(s.codec, FALSE, uri, payload)
<1>0. encoded = encodedWith(s.codec, responderBox(s.codec, uri), uri, payload)
  BY EncodedByResponder
<1> HIDE DEF m, uri, payload
<1>1. m = IF encoded = Raised THEN Raised
          ELSE [type |-> "Error", uri |-> uri, enc |-> encoded,
                payload |-> IF encoded = Clear THEN payload ELSE [args |-> <<>>, kwargs |-> none]]
  BY DEF m, uri, payload, encoded, _message_from_exception, sent
<1> HIDE DEF encoded
<1>2. encoded \notin {Raised, Clear} =>
          /\ s.codec # NoRing /\ encoded.uri = uri /\ encoded.payload = payload
          /\ encoded.box = responderBox(s.codec, uri) /\ encoded.box # NoBox
  BY <1>0, EncodedIs
<1>3. serializable(payload) => encoded # Raised
  BY <1>0, EncodedIs
<1>4. m # Raised =>
          /\ DOMAIN m = MessageFields /\ m.type = "Error" /\ m.uri = uri /\ m.enc = encoded /\ encoded # Raised
          /\ encoded = Clear => m.payload = payload
  BY <1>1 DEF MessageFields
<1>5. m # Raised => carried(m) = payload
  BY <1>2, <1>4 DEF carried
<1>6. encoded # Raised => m # Raised
  BY <1>1 DEF Raised
<1>7. /\ m # Raised =>
            /\ DOMAIN m = MessageFields /\ m.type = "Error" /\ m.uri = uri
            /\ m.enc # Raised /\ carried(m) = payload
            /\ m.enc # Clear =>
                  /\ s.codec # NoRing /\ m.enc.uri = uri
                  /\ m.enc.box = responderBox(s.codec, uri) /\ m.enc.box # NoBox
      /\ serializable(payload) => m # Raised
  BY <1>2, <1>3, <1>4, <1>5, <1>6
<1> QED
  BY <1>7 DEF m, uri, payload

LEMMA ExceptionOfMessage ==
    ASSUME NEW s, NEW classes, NEW msg
    PROVE  LET exc == _exception_from_message(s, classes, msg)
           IN  /\ exc # Raised => exc.is = "exception" /\ exc # Absent
               /\ DOMAIN carried(msg).kwargs \cap Own = {} => exc # Raised
<1> DEFINE exc == _exception_from_message(s, classes, msg)
           r == received(s, TRUE, msg.uri, msg)
           made == IF msg.uri \in DOMAIN s.uris THEN construct(classes, s.uris[msg.uri], r.payload) ELSE Raised
<1>1. exc = IF r.is = "exception" THEN r
            ELSE IF made # Raised THEN made ELSE ApplicationError(msg.uri, r.payload)
  BY DEF _exception_from_message
<1>2. r # Absent /\ r.is \in {"payload", "exception"} /\ (r.is = "payload" => r.payload = carried(msg))
  <2> HIDE DEF exc, made
  <2>1. r = receivedWith(s.codec, originatorBox(s.codec, msg.uri), msg.uri, msg)
    BY ReceivedByOriginator
  <2> HIDE DEF r
  <2>2. r # Absent /\ r.is \in {"payload", "exception"}
    BY <2>1, ReceivedIs
  <2>3. r.is = "payload" => r = [is |-> "payload", payload |-> carried(msg)]
    BY <2>1, ReceivedIs
  <2> QED
    BY <2>2, <2>3
<1>3. made # Raised => made.is = "exception" /\ made # Absent
  BY Terms DEF construct
<1>4. \A uri, p : ApplicationError(uri, p) # Raised =>
          ApplicationError(uri, p).is = "exception" /\ ApplicationError(uri, p) # Absent
  BY Terms DEF ApplicationError
<1>5. \A uri, p : DOMAIN p.kwargs \cap Own = {} => ApplicationError(uri, p) # Raised
  BY Terms DEF ApplicationError
<1>6. r.is = "exception" => r # Raised
  <2>1. Raised.is = "raised"
    BY DEF Raised
  <2> QED
    BY <2>1
<1>7. exc # Raised => exc.is = "exception" /\ exc # Absent
  <2> HIDE DEF exc, r, made
  <2> QED
    BY <1>1, <1>2, <1>3, <1>4
<1>8. DOMAIN carried(msg).kwargs \cap Own = {} => exc # Raised
  <2> HIDE DEF exc, r, made
  <2> QED
    BY <1>1, <1>2, <1>5, <1>6
<1> QED
  BY <1>7, <1>8 DEF exc

LEMMA InvalidPayload ==
    /\ DOMAIN invalid_payload = MessageFields /\ invalid_payload.type = "Error"
    /\ invalid_payload.enc = Clear /\ invalid_payload.uri = error("invalid_payload")
    /\ DOMAIN carried(invalid_payload).kwargs = {}
<1>1. carried(invalid_payload) = text
  BY WireIs DEF invalid_payload
<1>2. DOMAIN text.kwargs = {}
  BY DEF text, none
<1> QED
  BY <1>1, <1>2, WireIs DEF invalid_payload

-----------------------------------------------------------------------------
(* What travels is what was given, whatever the keys are.                  *)

Intact == Shape /\ InOrder /\ Kept

\* The application's own changes leave the exchange alone.
Elsewhere == \E p \in Parties : Define(p) \/ SetKey(p) \/ set_payload_codec(p)

LEMMA ChangesOnlySessions ==
    ASSUME DOMAIN x = Fields, Elsewhere
    PROVE  /\ setup' = setup /\ DOMAIN x' = Fields
           /\ x'.stable => x.is = "idle"
           /\ \A f \in Fields \ {"changes", "stable"} : x'[f] = x[f]
<1>1. PICK p \in Parties : Define(p) \/ SetKey(p) \/ set_payload_codec(p)
  BY DEF Elsewhere
<1>2. \E s : Changed(p, s)
  BY <1>1 DEF Define, SetKey, set_payload_codec
<1>3. setup' = setup /\ x' = [x EXCEPT !.changes = @ + 1, !.stable = x.is = "idle"]
  BY <1>2 DEF Changed
<1> QED
  BY <1>3 DEF Fields

LEMMA IntactInit ==
    ASSUME ExchangeInit
    PROVE  Intact
<1>1. setup \in Pairs /\ x = idle
  BY DEF ExchangeInit
<1>2. /\ DOMAIN x = Fields /\ x.is = "idle" /\ x.out = Absent /\ x.in = Absent /\ x.invocation = Absent
      /\ x.invoked = Absent /\ x.end = Absent /\ x.told = Absent
      /\ x.back = <<>> /\ x.progressed = <<>> /\ x.seen = <<>>
  BY <1>1 DEF idle, Fields
<1>3. Shape
  BY <1>1, <1>2, Nothing DEF Shape
<1>4. InOrder
  BY <1>2 DEF InOrder
<1>5. Kept
  BY <1>2, Nothing DEF Kept
<1> QED
  BY <1>3, <1>4, <1>5 DEF Intact

\* The request.
LEMMA IntactRequest ==
    ASSUME Intact, call \/ publish
    PROVE  Intact'
<1> USE DEF Intact
<1>1. PICK kind \in {"call", "publication"}, type \in {"Invocation", "Event"} : Request(kind, type)
  BY DEF call, publish
<1>2. PICK uri \in setup.uris, payload \in setup.payloads :
          LET enc == encodedFor("originator", uri, payload)
          IN  /\ sendable(enc, payload)
              /\ x' = [x EXCEPT !.is = kind, !.uri = uri, !.payload = payload,
                                !.out = Message(type, uri, enc, payload)]
  BY <1>1 DEF Request
<1> DEFINE enc == encodedFor("originator", uri, payload)
           m == Message(type, uri, enc, payload)
<1>3. x.is = "idle" /\ setup' = setup /\ DOMAIN x = Fields /\ enc # Raised
  BY <1>1, <1>2 DEF Request, Shape, sendable
<1> HIDE DEF enc, m
<1>4. x' = [x EXCEPT !.is = kind, !.uri = uri, !.payload = payload, !.out = m]
  BY <1>2 DEF enc, m
<1>5. /\ DOMAIN x' = Fields /\ x'.is = kind /\ x'.uri = uri /\ x'.payload = payload /\ x'.out = m
      /\ \A f \in Fields \ {"is", "uri", "payload", "out"} : x'[f] = x[f]
  BY <1>3, <1>4 DEF Fields
<1>6. /\ x.out = Absent /\ x.in = Absent /\ x.invoked = Absent /\ x.invocation = Absent /\ x.end = Absent
      /\ x.told = Absent /\ x.back = <<>>
  BY <1>3 DEF InOrder
<1>7. Shape'
  BY <1>3, <1>5 DEF Shape, Fields
<1>8. InOrder'
  BY <1>5, <1>6 DEF InOrder, Fields
<1>9. Requested(m, uri, payload)
  <2>1. enc # Clear => enc.payload = payload /\ enc.uri = uri
    BY <1>3, EncodedFields DEF enc, Parties
  <2>2. DOMAIN m = MessageFields /\ m.enc = enc /\ carried(m) = payload
    BY <2>1, WireIs DEF m
  <2> QED
    BY <1>3, <1>5, <2>1, <2>2 DEF Requested
<1>10. x'.invoked = Absent /\ x'.invocation = Absent /\ x'.in = Absent /\ x'.told = Absent /\ x'.back = <<>>
  BY <1>5, <1>6 DEF Fields
<1>11. Kept'
  BY <1>5, <1>9, <1>10, Nothing DEF Kept
<1> QED
  BY <1>7, <1>8, <1>11

LEMMA IntactRoute ==
    ASSUME Intact, Route
    PROVE  Intact'
<1> USE DEF Intact
<1>1. PICK uri : x' = [x EXCEPT !.out = Absent, !.in = [x.out EXCEPT !.uri = uri]]
  BY DEF Route
<1>2. x.out # Absent /\ setup' = setup /\ DOMAIN x = Fields
  BY DEF Route, Shape
<1>3. /\ DOMAIN x' = Fields /\ x'.out = Absent /\ x'.in = [x.out EXCEPT !.uri = uri]
      /\ \A f \in Fields \ {"out", "in"} : x'[f] = x[f]
  BY <1>1, <1>2 DEF Fields
<1>4. Shape'
  BY <1>2, <1>3 DEF Shape, Fields
<1>5. InOrder'
  BY <1>2, <1>3 DEF InOrder, Fields
<1>6. Requested(x'.in, x.uri, x.payload)
  <2>1. Requested(x.out, x.uri, x.payload)
    BY <1>2 DEF Kept
  <2>2. /\ DOMAIN x'.in = MessageFields /\ x'.in.enc = x.out.enc /\ carried(x'.in) = carried(x.out)
    BY <1>3, <2>1 DEF Requested, MessageFields, carried
  <2> QED
    BY <1>3, <2>1, <2>2 DEF Requested, Fields
<1>7. Kept'
  BY <1>3, <1>6 DEF Kept, Fields
<1> QED
  BY <1>4, <1>5, <1>7

receivedByResponder(s, uri, msg) == received(s, FALSE, uri, msg)
receivedByOriginator(s, uri, msg) == received(s, TRUE, uri, msg)
failureMessage(s, exc) == _message_from_exception(s, exc, FALSE)

\* What the responder makes of a request.
LEMMA RequestReceived ==
    ASSUME NEW m, NEW uri, NEW payload, Requested(m, uri, payload), NEW s, NEW r,
           r = receivedByResponder(s, m.uri, m)
    PROVE  /\ r # Absent /\ r # Raised /\ r.is \in {"payload", "exception"}
           /\ r.is = "payload" => r.payload = payload /\ (m.enc # Clear => m.uri = uri)
           /\ r.is = "exception" =>
                 \E name \in {"no_payload_codec", "decrypt_error", "trusted_uri_mismatch"} :
                     r = ApplicationError(error(name), text)
<1>1. r = receivedWith(s.codec, responderBox(s.codec, m.uri), m.uri, m)
  BY ReceivedByResponder DEF receivedByResponder
<1>2. /\ r # Absent /\ r # Raised /\ r.is \in {"payload", "exception"}
      /\ r.is = "payload" =>
            /\ r = [is |-> "payload", payload |-> carried(m)]
            /\ m.enc # Clear => m.enc.uri = m.uri
  BY <1>1, ReceivedIs
<1>3. r.is = "exception" =>
          \E name \in {"no_payload_codec", "decrypt_error", "trusted_uri_mismatch"} :
              r = ApplicationError(error(name), text)
  BY <1>1, ReceivedIs
<1> QED
  BY <1>2, <1>3 DEF Requested

\* The error for a request that cannot be decoded.
LEMMA FailureSent ==
    ASSUME NEW s, NEW name
    PROVE  LET m == failureMessage(s, ApplicationError(error(name), text))
           IN  /\ DOMAIN m = MessageFields /\ m.type = "Error" /\ m.enc # Raised
               /\ carried(m).kwargs = none
<1> DEFINE exc == ApplicationError(error(name), text)
<1>1. exc.payload.args = <<"text">> /\ exc.payload.kwargs = none /\ DOMAIN exc.payload = {"args", "kwargs"}
  <2>1. text.args = <<"text">> /\ text.kwargs = none /\ DOMAIN text = {"args", "kwargs"} /\ DOMAIN none = {}
    BY DEF text, none
  <2>2. without(none, Popped) = none
    BY DEF without, none
  <2>3. exc = exception("ApplicationError", error(name), [text EXCEPT !.kwargs = without(@, Popped)])
    BY <2>1 DEF ApplicationError
  <2>4. exc.payload = [text EXCEPT !.kwargs = without(@, Popped)]
    BY <2>3 DEF exception
  <2> QED
    BY <2>1, <2>2, <2>4
<1> HIDE DEF exc
<1>2. sent(exc, FALSE) = exc.payload
  BY DEF sent
<1>3. serializable(exc.payload)
  <2>1. ToSet(<<"text">>) = {"text"}
    BY OnlyOne
  <2> QED
    BY <1>1, <2>1 DEF serializable
<1>4. LET m == failureMessage(s, exc)
      IN  /\ m # Raised /\ DOMAIN m = MessageFields /\ m.type = "Error" /\ m.enc # Raised
          /\ carried(m) = exc.payload
  <2> DEFINE m == _message_from_exception(s, exc, FALSE)
  <2>1. m # Raised /\ DOMAIN m = MessageFields /\ m.type = "Error" /\ m.enc # Raised
        /\ carried(m) = sent(exc, FALSE)
    BY ZenonT(40), <1>2, <1>3, MessageOfException
  <2> QED
    BY <1>2, <2>1 DEF failureMessage
<1> QED
  BY <1>1, <1>4 DEF exc

\* A handler or an endpoint is called with the arguments that were given, for the
\* URI they were given for when they are encoded.
CalledFor(c) ==
    c # Absent /\ c.payload = x.payload /\ (c.encoded => c.uri = x.uri)

LEMMA CalledIs ==
    ASSUME NEW r, r.payload = x.payload, x.in.enc # Clear => x.in.uri = x.uri
    PROVE  CalledFor(Called(r))
<1>1. Called(r).is = "called" /\ Absent.is = "none"
  BY DEF Called, Absent
<1>2. Called(r) # Absent
  BY <1>1
<1> QED
  BY <1>2 DEF Called, CalledFor

LEMMA InvocationFields ==
    ASSUME Intact, OnInvocation
    PROVE  LET r == receivedByResponder(session["responder"], x.in.uri, x.in)
               m == failureMessage(session["responder"], r)
           IN  /\ x.in # Absent /\ setup' = setup /\ session' = session
               /\ DOMAIN x = Fields /\ DOMAIN x' = Fields
               /\ r # Absent /\ r.is \in {"payload", "exception"} /\ x'.in = Absent
               /\ r.is = "exception" =>
                     /\ DOMAIN m = MessageFields /\ m.type = "Error" /\ m.enc # Raised
                     /\ carried(m).kwargs = none
                     /\ x'.end = r /\ x'.back = <<m>>
                     /\ \A f \in Fields \ {"in", "end", "back"} : x'[f] = x[f]
               /\ r.is = "payload" =>
                     /\ r.payload = x.payload
                     /\ x'.invoked = Called(r) /\ CalledFor(x'.invoked)
                     /\ x'.invocation # Absent /\ x'.invocation.uri = x.in.uri
                     /\ x'.invocation.encoded => x.in.uri = x.uri
                     /\ \A f \in Fields \ {"in", "invoked", "invocation"} : x'[f] = x[f]
<1> DEFINE r == receivedByResponder(session["responder"], x.in.uri, x.in)
           m == failureMessage(session["responder"], r)
           i == [is |-> "invocation", uri |-> x.in.uri, encoded |-> x.in.enc # Clear]
<1>1. /\ x.in # Absent /\ setup' = setup /\ session' = session /\ DOMAIN x = Fields
      /\ Requested(x.in, x.uri, x.payload)
  BY DEF OnInvocation, Intact, Shape, Kept
<1>2. x' = IF r.is = "exception" THEN [x EXCEPT !.in = Absent, !.end = r, !.back = <<m>>]
           ELSE [x EXCEPT !.in = Absent, !.invoked = Called(r), !.invocation = i]
  BY DEF OnInvocation, receivedRequest, receivedByResponder, failureMessage
<1>3. i # Absent /\ i.uri = x.in.uri /\ (i.encoded => x.in.enc # Clear)
  BY DEF Absent
<1> HIDE DEF r, m, i
<1>4. /\ r # Absent /\ r.is \in {"payload", "exception"}
      /\ r.is = "payload" => r.payload = x.payload /\ (x.in.enc # Clear => x.in.uri = x.uri)
      /\ r.is = "exception" => \E name : r = ApplicationError(error(name), text)
  BY <1>1, RequestReceived DEF r
<1>5. r.is = "exception" =>
          /\ DOMAIN m = MessageFields /\ m.type = "Error" /\ m.enc # Raised /\ carried(m).kwargs = none
  BY <1>4, FailureSent DEF m
<1>6. r.is = "exception" =>
          /\ DOMAIN x' = Fields /\ x'.in = Absent /\ x'.end = r /\ x'.back = <<m>>
          /\ \A f \in Fields \ {"in", "end", "back"} : x'[f] = x[f]
  BY <1>1, <1>2 DEF Fields
<1>7. r.is = "payload" =>
          /\ DOMAIN x' = Fields /\ x'.in = Absent /\ x'.invoked = Called(r) /\ x'.invocation = i
          /\ \A f \in Fields \ {"in", "invoked", "invocation"} : x'[f] = x[f]
  BY <1>1, <1>2 DEF Fields
<1>8. /\ r.is = "exception" => DOMAIN x' = Fields /\ x'.in = Absent
      /\ r.is = "payload" =>
            /\ DOMAIN x' = Fields /\ x'.in = Absent
            /\ r.payload = x.payload
            /\ x'.invoked = Called(r) /\ CalledFor(x'.invoked)
            /\ x'.invocation # Absent /\ x'.invocation.uri = x.in.uri
            /\ x'.invocation.encoded => x.in.uri = x.uri
            /\ \A f \in Fields \ {"in", "invoked", "invocation"} : x'[f] = x[f]
  BY <1>3, <1>4, <1>6, <1>7, CalledIs
<1> QED
  BY <1>1, <1>4, <1>5, <1>6, <1>8 DEF r, m

LEMMA IntactInvocation ==
    ASSUME Intact, OnInvocation
    PROVE  Intact'
<1> USE DEF Intact
<1> DEFINE r == receivedByResponder(session["responder"], x.in.uri, x.in)
           m == failureMessage(session["responder"], r)
<1>1. /\ x.in # Absent /\ setup' = setup
      /\ DOMAIN x = Fields /\ DOMAIN x' = Fields
      /\ r # Absent /\ r.is \in {"payload", "exception"} /\ x'.in = Absent
      /\ r.is = "exception" =>
            /\ DOMAIN m = MessageFields /\ m.type = "Error" /\ m.enc # Raised
            /\ x'.end = r /\ x'.back = <<m>>
            /\ \A f \in Fields \ {"in", "end", "back"} : x'[f] = x[f]
      /\ r.is = "payload" =>
            /\ r.payload = x.payload
            /\ CalledFor(x'.invoked) /\ x'.invocation.uri = x.in.uri
            /\ x'.invocation.encoded => x.in.uri = x.uri
            /\ \A f \in Fields \ {"in", "invoked", "invocation"} : x'[f] = x[f]
  BY InvocationFields
<1>2. /\ x.out = Absent /\ x.invoked = Absent /\ x.invocation = Absent /\ x.end = Absent
      /\ x.told = Absent /\ x.back = <<>> /\ x.is # "idle"
  BY <1>1 DEF InOrder
<1> HIDE DEF r, m
<1>3. CASE r.is = "exception"
  <2>1. ToSet(x'.back) = {m} /\ IsSequence(x'.back)
    BY <1>1, <1>3, OnlyOne
  <2>2. Shape'
    BY <1>1, <1>3, <2>1 DEF Shape, Fields
  <2>3. InOrder'
    BY <1>1, <1>2, <1>3 DEF InOrder, Fields
  <2>4. Kept'
    BY <1>1, <1>2, <1>3, <2>1 DEF Kept, Fields
  <2> QED
    BY <2>2, <2>3, <2>4
<1>4. CASE r.is = "payload"
  <2>1. Shape'
    BY <1>1, <1>4 DEF Shape, Fields
  <2>2. InOrder'
    BY <1>1, <1>2, <1>4 DEF InOrder, Fields
  <2>3. /\ x'.invoked.payload = x'.payload /\ (x'.invoked.encoded => x'.invoked.uri = x'.uri)
        /\ x'.invocation.encoded => x'.invocation.uri = x'.uri
    BY <1>1, <1>4 DEF Fields, CalledFor
  <2>4. Kept'
    BY <1>1, <1>2, <1>4, <2>3, Nothing DEF Kept, Fields
  <2> QED
    BY <2>1, <2>2, <2>4
<1> QED
  BY <1>1, <1>3, <1>4

LEMMA IntactEvent ==
    ASSUME Intact, OnEvent
    PROVE  Intact'
<1> USE DEF Intact
<1> DEFINE r == receivedRequest
           i == IF r.is = "payload" THEN Called(r) ELSE Absent
<1>1. x.in # Absent /\ setup' = setup /\ DOMAIN x = Fields /\ Requested(x.in, x.uri, x.payload)
  BY DEF OnEvent, Shape, Kept
<1>2. r.is = "payload" => r.payload = x.payload /\ (x.in.enc # Clear => x.in.uri = x.uri)
  <2>1. r = receivedByResponder(session["responder"], x.in.uri, x.in)
    BY DEF receivedRequest, receivedByResponder
  <2> HIDE DEF r
  <2> QED
    BY <1>1, <2>1, RequestReceived
<1>3. x' = [x EXCEPT !.in = Absent, !.invoked = i]
  BY DEF OnEvent
<1> HIDE DEF r
<1>4. i # Absent => CalledFor(i)
  BY <1>2, CalledIs
<1> HIDE DEF i
<1>5. /\ DOMAIN x' = Fields /\ x'.in = Absent /\ x'.invoked = i
      /\ \A f \in Fields \ {"in", "invoked"} : x'[f] = x[f]
  BY <1>1, <1>3 DEF Fields
<1>6. Shape'
  BY <1>1, <1>5 DEF Shape, Fields
<1>7. InOrder'
  BY <1>1, <1>5 DEF InOrder, Fields
<1>8. Kept'
  BY <1>4, <1>5 DEF Kept, Fields, CalledFor
<1> QED
  BY <1>6, <1>7, <1>8

\* What the endpoint sends.
LEMMA SendableFields ==
    ASSUME NEW type, NEW uri, NEW enc, NEW payload, sendable(enc, payload),
           enc # Clear /\ enc # Raised => enc.payload = payload
    PROVE  LET m == Message(type, uri, enc, payload)
           IN  /\ DOMAIN m = MessageFields /\ m.type = type /\ m.uri = uri /\ m.enc = enc
               /\ m.enc # Raised /\ carried(m) = payload
BY WireIs DEF sendable

LEMMA ProgressMade ==
    ASSUME Intact, Progress
    PROVE  /\ setup' = setup /\ DOMAIN x = Fields /\ x.invocation # Absent /\ DOMAIN x' = Fields
           /\ \A f \in Fields \ {"progressed", "back"} : x'[f] = x[f]
           /\ \E m : /\ DOMAIN m = MessageFields /\ m.type = "Progress" /\ m.enc # Raised
                     /\ x'.progressed = Append(x.progressed, carried(m))
                     /\ x'.back = Append(x.back, m) /\ x'.seen = x.seen
<1>1. PICK payload \in setup.payloads :
          LET enc == IF x.invocation.encoded THEN encodedFor("responder", x.invocation.uri, payload)
                     ELSE Clear
          IN  /\ sendable(enc, payload)
              /\ x' = [x EXCEPT !.progressed = Append(@, payload),
                                !.back = Append(@, Message("Progress", x.uri, enc, payload))]
  BY DEF Progress
<1> DEFINE enc == IF x.invocation.encoded THEN encodedFor("responder", x.invocation.uri, payload)
                  ELSE Clear
           m == Message("Progress", x.uri, enc, payload)
<1>2. enc # Clear /\ enc # Raised => enc.payload = payload
  BY EncodedFields DEF Parties
<1> HIDE DEF enc
<1>3. DOMAIN m = MessageFields /\ m.type = "Progress" /\ m.enc # Raised /\ carried(m) = payload
  BY <1>1, <1>2, SendableFields DEF enc
<1> HIDE DEF m
<1>4. setup' = setup /\ DOMAIN x = Fields /\ x.invocation # Absent
  BY DEF Progress, Intact, Shape
<1>5. x' = [x EXCEPT !.progressed = Append(@, payload), !.back = Append(@, m)]
  BY <1>1 DEF enc, m
<1>6. /\ DOMAIN x' = Fields /\ x'.progressed = Append(x.progressed, payload) /\ x'.back = Append(x.back, m)
      /\ \A f \in Fields \ {"progressed", "back"} : x'[f] = x[f]
  BY <1>4, <1>5 DEF Fields
<1> QED
  BY <1>3, <1>4, <1>6 DEF Fields

LEMMA IntactProgress ==
    ASSUME Intact, Progress
    PROVE  Intact'
<1> USE DEF Intact
<1>1. /\ setup' = setup /\ DOMAIN x = Fields /\ x.invocation # Absent /\ DOMAIN x' = Fields
      /\ \A f \in Fields \ {"progressed", "back"} : x'[f] = x[f]
  BY ProgressMade
<1>2. PICK m : /\ DOMAIN m = MessageFields /\ m.type = "Progress" /\ m.enc # Raised
               /\ x'.progressed = Append(x.progressed, carried(m))
               /\ x'.back = Append(x.back, m) /\ x'.seen = x.seen
  BY ProgressMade
<1>3. /\ IsSequence(x'.back) /\ IsSequence(x'.progressed)
      /\ ToSet(x'.back) = ToSet(x.back) \cup {m}
  BY <1>2, AppendedTo DEF Shape
<1>4. Shape'
  BY <1>1, <1>3 DEF Shape, Fields
<1>5. InOrder'
  BY <1>1 DEF InOrder, Fields
<1>6. Kept'
  BY <1>1, <1>2, <1>3 DEF Kept, Fields
<1> QED
  BY <1>4, <1>5, <1>6

\* The endpoint's end, with what is sent, if anything.
Ended(end, back) ==
    x' = [x EXCEPT !.invocation = Absent, !.end = end, !.back = back]

LEMMA IntactEnded ==
    ASSUME Intact, x.invocation # Absent, setup' = setup,
           NEW end, end # Absent, NEW back, Ended(end, back),
           \/ back = x.back
           \/ \E m : /\ back = Append(x.back, m)
                     /\ DOMAIN m = MessageFields /\ m.enc # Raised /\ m.type \in {"Result", "Error"}
                     /\ m.type = "Result" => end = [is |-> "payload", payload |-> carried(m)]
    PROVE  Intact'
<1> USE DEF Intact
<1>1. DOMAIN x = Fields /\ x.end = Absent /\ x.out = Absent /\ x.in = Absent /\ x.is # "idle" /\ x.told = Absent
  BY DEF InOrder, Shape
<1>2. /\ DOMAIN x' = Fields /\ x'.invocation = Absent /\ x'.end = end /\ x'.back = back
      /\ \A f \in Fields \ {"invocation", "end", "back"} : x'[f] = x[f]
  BY <1>1 DEF Fields, Ended
<1>3. /\ IsSequence(back)
      /\ \A m \in ToSet(back) :
            \/ m \in ToSet(x.back)
            \/ /\ DOMAIN m = MessageFields /\ m.enc # Raised /\ m.type \in {"Result", "Error"}
               /\ m.type = "Result" => end = [is |-> "payload", payload |-> carried(m)]
  <2>1. IsSequence(x.back)
    BY DEF Shape
  <2>2. CASE back = x.back
    BY <2>1, <2>2
  <2>3. CASE back # x.back
    <3>1. PICK m : /\ back = Append(x.back, m)
                   /\ DOMAIN m = MessageFields /\ m.enc # Raised /\ m.type \in {"Result", "Error"}
                   /\ m.type = "Result" => end = [is |-> "payload", payload |-> carried(m)]
      BY <2>3
    <3>2. IsSequence(back) /\ ToSet(back) = ToSet(x.back) \cup {m}
      BY <2>1, <3>1, AppendedTo
    <3> QED
      BY <3>1, <3>2
  <2> QED
    BY <2>2, <2>3
<1>4. Shape'
  BY <1>2, <1>3 DEF Shape, Fields
<1>5. InOrder'
  BY <1>1, <1>2 DEF InOrder, Fields
<1>6. \A m \in ToSet(x.back) : m.type = "Progress"
  BY <1>1 DEF Kept
<1>7. \A m \in ToSet(x'.back) :
          /\ DOMAIN m = MessageFields /\ m.enc # Raised
          /\ m.type \in {"Progress", "Result", "Error"}
          /\ m.type = "Result" => x'.end = [is |-> "payload", payload |-> carried(m)]
          /\ m.type # "Progress" => x'.end # Absent
  BY <1>2, <1>3, <1>6 DEF Kept, Fields
<1>8. Kept'
  BY <1>1, <1>2, <1>7 DEF Kept, Fields
<1> QED
  BY <1>4, <1>5, <1>8

\* What Returns sends.
LEMMA ReturnedFields ==
    ASSUME DOMAIN x = Fields, Returns
    PROVE  \E payload \in setup.payloads : \E enc, m :
               /\ Ended([is |-> "payload", payload |-> payload], Append(x.back, m))
               /\ \/ enc = Clear
                  \/ /\ x.invocation.encoded /\ enc = encodedFor("responder", x.invocation.uri, payload)
                     /\ enc # Raised /\ enc # Clear
               /\ \/ /\ sendable(enc, payload) /\ m = Message("Result", x.uri, enc, payload)
                     /\ m.type = "Result" /\ m.uri = x.uri /\ m.enc = enc
                     /\ carried(m) = payload
                  \/ ~serializable(payload) /\ m = invalid_payload
               /\ DOMAIN m = MessageFields /\ m.enc # Raised
<1>1. PICK payload \in setup.payloads :
          LET attempt == IF x.invocation.encoded
                         THEN encodedFor("responder", x.invocation.uri, payload) ELSE Clear
              enc == IF attempt = Raised THEN Clear ELSE attempt
          IN  x' = [x EXCEPT !.invocation = Absent, !.end = [is |-> "payload", payload |-> payload],
                             !.back = Append(@, IF sendable(enc, payload)
                                                THEN Message("Result", x.uri, enc, payload)
                                                ELSE invalid_payload)]
  BY DEF Returns
<1> DEFINE attempt == IF x.invocation.encoded
                      THEN encodedFor("responder", x.invocation.uri, payload) ELSE Clear
           enc == IF attempt = Raised THEN Clear ELSE attempt
           m == IF sendable(enc, payload) THEN Message("Result", x.uri, enc, payload) ELSE invalid_payload
<1>2. \/ enc = Clear
      \/ /\ x.invocation.encoded /\ enc = encodedFor("responder", x.invocation.uri, payload)
         /\ enc # Raised /\ enc # Clear
  OBVIOUS
<1>3. enc # Raised
  BY Terms
<1>4. enc # Clear => enc.payload = payload
  BY <1>2, EncodedFields DEF Parties
<1>5. x' = [x EXCEPT !.invocation = Absent, !.end = [is |-> "payload", payload |-> payload],
                     !.back = Append(@, m)]
  BY <1>1
<1> HIDE DEF attempt, enc
<1>6. sendable(enc, payload) =>
          /\ m = Message("Result", x.uri, enc, payload)
          /\ m.type = "Result" /\ m.uri = x.uri /\ m.enc = enc /\ carried(m) = payload
          /\ DOMAIN m = MessageFields /\ m.enc # Raised
  BY <1>4, SendableFields
<1>7. ~sendable(enc, payload) =>
          ~serializable(payload) /\ m = invalid_payload /\ DOMAIN m = MessageFields /\ m.enc # Raised
  BY <1>3, InvalidPayload, Terms DEF sendable
<1> HIDE DEF m
<1>8. Ended([is |-> "payload", payload |-> payload], Append(x.back, m))
  BY <1>5 DEF Ended, Fields
<1> QED
  BY <1>2, <1>6, <1>7, <1>8

LEMMA IntactReturns ==
    ASSUME Intact, Returns
    PROVE  Intact'
<1>1. DOMAIN x = Fields /\ x.invocation # Absent /\ setup' = setup
  BY DEF Returns, Intact, Shape
<1>2. PICK payload, m :
          /\ Ended([is |-> "payload", payload |-> payload], Append(x.back, m))
          /\ (m.type = "Result" /\ carried(m) = payload) \/ m = invalid_payload
          /\ DOMAIN m = MessageFields /\ m.enc # Raised
  BY <1>1, ReturnedFields
<1> DEFINE end == [is |-> "payload", payload |-> payload]
<1>3. end # Absent
  BY Terms
<1>4. m.type \in {"Result", "Error"} /\ (m.type = "Result" => end = [is |-> "payload", payload |-> carried(m)])
  BY <1>2, InvalidPayload
<1> HIDE DEF end
<1>5. Ended(end, Append(x.back, m))
  BY <1>2 DEF end
<1> QED
  BY <1>1, <1>2, <1>3, <1>4, <1>5, IntactEnded

\* What Raises sends, if anything.
endMessage(exc) == _message_from_exception(session["responder"], exc, setup.traceback_app)

LEMMA RaisedFields ==
    ASSUME DOMAIN x = Fields, Raises
    PROVE  \E exc \in setup.exceptions :
               \/ Ended(exc, x.back) /\ endMessage(exc) = Raised
               \/ \E m : /\ Ended(exc, Append(x.back, m)) /\ endMessage(exc) # Raised
                         /\ DOMAIN m = MessageFields /\ m.enc # Raised /\ m.type = "Error"
                         /\ m = endMessage(exc) \/ m = invalid_payload
                         /\ serializable(sent(exc, setup.traceback_app)) => m = endMessage(exc)
<1>1. PICK exc \in setup.exceptions :
          LET m == endMessage(exc)
          IN  x' = [x EXCEPT !.invocation = Absent, !.end = exc,
                             !.back = IF m = Raised THEN @
                                      ELSE Append(@, IF sendable(m.enc, m.payload) THEN m
                                                     ELSE invalid_payload)]
  BY DEF Raises, endMessage
<1> DEFINE e == endMessage(exc)
           m == IF sendable(e.enc, e.payload) THEN e ELSE invalid_payload
<1>2. e # Raised =>
          /\ DOMAIN e = MessageFields /\ e.type = "Error" /\ e.enc # Raised
          /\ carried(e) = sent(exc, setup.traceback_app)
  BY MessageOfException DEF endMessage
<1>3. e # Raised /\ serializable(sent(exc, setup.traceback_app)) => sendable(e.enc, e.payload)
  BY <1>2 DEF sendable, carried
<1> HIDE DEF e
<1>4. e = Raised => Ended(exc, x.back)
  BY <1>1 DEF Ended, e, Fields
<1>5. e # Raised => Ended(exc, Append(x.back, m))
  BY <1>1 DEF Ended, e, Fields
<1>6. e # Raised =>
          /\ DOMAIN m = MessageFields /\ m.enc # Raised /\ m.type = "Error"
          /\ m = e \/ m = invalid_payload
          /\ serializable(sent(exc, setup.traceback_app)) => m = e
  BY <1>2, <1>3, InvalidPayload, Terms
<1> HIDE DEF m
<1> QED
  BY <1>4, <1>5, <1>6 DEF e

LEMMA ExceptionalEnd ==
    ASSUME Exceptional, Intact, NEW exc \in setup.exceptions
    PROVE  /\ exc.is = "exception" /\ exc # Absent
           /\ DOMAIN exc = {"is", "class", "uri", "payload"}
           /\ exc.uri # <<>> => exc.class = "ApplicationError"
           /\ DOMAIN exc.payload = {"args", "kwargs"}
           /\ Keywords(exc.payload.kwargs)
<1>1. setup \in Pairs
  BY DEF Intact, Shape
<1>2. Absent.is = "none"
  BY DEF Absent
<1> QED
  BY <1>1, <1>2 DEF Exceptional

LEMMA IntactRaises ==
    ASSUME Exceptional, Intact, Raises
    PROVE  Intact'
<1>1. DOMAIN x = Fields /\ x.invocation # Absent /\ setup' = setup
  BY DEF Raises, Intact, Shape
<1>2. PICK exc \in setup.exceptions :
          \/ Ended(exc, x.back)
          \/ \E m : /\ Ended(exc, Append(x.back, m))
                    /\ DOMAIN m = MessageFields /\ m.enc # Raised /\ m.type = "Error"
  BY <1>1, RaisedFields
<1>3. exc # Absent
  BY ExceptionalEnd
<1>4. CASE Ended(exc, x.back)
  BY <1>1, <1>3, <1>4, IntactEnded
<1>5. CASE ~Ended(exc, x.back)
  <2>1. PICK m : /\ Ended(exc, Append(x.back, m))
                 /\ DOMAIN m = MessageFields /\ m.enc # Raised /\ m.type = "Error"
    BY <1>2, <1>5
  <2> DEFINE back == Append(x.back, m)
  <2>2. \E a : /\ back = Append(x.back, a)
               /\ DOMAIN a = MessageFields /\ a.enc # Raised /\ a.type \in {"Result", "Error"}
               /\ a.type = "Result" => exc = [is |-> "payload", payload |-> carried(a)]
    BY <2>1
  <2> HIDE DEF back
  <2>3. Ended(exc, back)
    BY <2>1 DEF back
  <2> QED
    BY <1>1, <1>3, <2>2, <2>3, IntactEnded
<1> QED
  BY <1>4, <1>5

\* The caller takes a message from what came back.
LEMMA Taken ==
    ASSUME Intact, NEW type, Answered(type)
    PROVE  LET m == Head(x.back)
           IN  /\ DOMAIN x = Fields
               /\ m \in ToSet(x.back) /\ m.type = type /\ m.enc # Raised /\ DOMAIN m = MessageFields
               /\ IsSequence(Tail(x.back)) /\ ToSet(Tail(x.back)) \subseteq ToSet(x.back)
               /\ Tail(x.back) = <<>> => x.back[Len(x.back)] = m
               /\ Tail(x.back) # <<>> => Tail(x.back)[Len(Tail(x.back))] = x.back[Len(x.back)]
               /\ x.is # "idle" /\ x.out = Absent /\ x.in = Absent
<1>1. DOMAIN x = Fields /\ IsSequence(x.back) /\ x.back # <<>> /\ Head(x.back).type = type
  BY DEF Intact, Shape, Answered
<1>2. /\ IsSequence(Tail(x.back))
      /\ Head(x.back) \in ToSet(x.back) /\ ToSet(Tail(x.back)) \subseteq ToSet(x.back)
      /\ Tail(x.back) = <<>> => x.back[Len(x.back)] = Head(x.back)
      /\ Tail(x.back) # <<>> => Tail(x.back)[Len(Tail(x.back))] = x.back[Len(x.back)]
  BY <1>1, TakenFrom
<1>3. x.is # "idle" /\ x.out = Absent /\ x.in = Absent
  BY <1>1 DEF Intact, InOrder
<1>4. Head(x.back).enc # Raised /\ DOMAIN Head(x.back) = MessageFields
  BY <1>2 DEF Intact, Kept
<1> QED
  BY <1>1, <1>2, <1>3, <1>4

LEMMA AnswerReceived ==
    ASSUME NEW r, NEW s, NEW uri, NEW m, r = receivedByOriginator(s, uri, m)
    PROVE  /\ r # Absent /\ r.is \in {"payload", "exception"}
           /\ r.is = "payload" => r = [is |-> "payload", payload |-> carried(m)]
           /\ r.is = "exception" =>
                 \E name \in {"no_payload_codec", "decrypt_error", "trusted_uri_mismatch"} :
                     r = ApplicationError(error(name), text)
           /\ \/ m.enc = Clear
              \/ /\ s.codec # NoRing /\ m.enc.box # NoBox /\ m.enc.box = originatorBox(s.codec, uri)
                 /\ m.enc.uri = uri
              => r.is = "payload"
<1>1. r = receivedWith(s.codec, originatorBox(s.codec, uri), uri, m)
  BY ReceivedByOriginator DEF receivedByOriginator
<1> QED
  BY <1>1, ReceivedIs

\* A progressive result is seen, is not, or makes onMessage raise.
LEMMA ProgressFields ==
    ASSUME Intact, OnProgress
    PROVE  /\ Answered("Progress") /\ setup' = setup /\ session' = session
           /\ DOMAIN x' = Fields /\ x'.back = Tail(x.back)
           /\ \A f \in Fields \ {"back", "raised", "seen"} : x'[f] = x[f]
           /\ x'.seen = x.seen \/ x'.seen = Append(x.seen, carried(Head(x.back)))
<1> DEFINE r == receivedAnswer
           next == [x EXCEPT !.back = Tail(@)]
<1>1. Answered("Progress") /\ DOMAIN x = Fields /\ setup' = setup /\ session' = session
  BY DEF OnProgress, Intact, Shape
<1>2. r = receivedByOriginator(session["originator"], x.uri, Head(x.back))
  BY DEF receivedAnswer, receivedByOriginator
<1> HIDE DEF r
<1>3. r.is \in {"payload", "exception"} /\ (r.is = "payload" => r.payload = carried(Head(x.back)))
  <2>1. r.is = "payload" => r = [is |-> "payload", payload |-> carried(Head(x.back))]
    BY <1>2, AnswerReceived
  <2> QED
    BY <1>2, <2>1, AnswerReceived
<1>4. \/ x' = next
      \/ x' = [next EXCEPT !.raised = TRUE]
      \/ r.is # "exception" /\ x' = [next EXCEPT !.seen = Append(@, r.payload)]
  BY DEF OnProgress, r
<1>5. CASE x' = next
  BY <1>1, <1>5 DEF Fields
<1>6. CASE x' = [next EXCEPT !.raised = TRUE]
  BY <1>1, <1>6 DEF Fields
<1>7. CASE r.is # "exception" /\ x' = [next EXCEPT !.seen = Append(@, r.payload)]
  BY <1>1, <1>3, <1>7 DEF Fields
<1> QED
  BY <1>1, <1>4, <1>5, <1>6, <1>7

LEMMA IntactOnProgress ==
    ASSUME Intact, OnProgress
    PROVE  Intact'
<1> DEFINE m == Head(x.back)
<1>1. /\ Answered("Progress") /\ setup' = setup
      /\ DOMAIN x' = Fields /\ x'.back = Tail(x.back)
      /\ \A f \in Fields \ {"back", "raised", "seen"} : x'[f] = x[f]
      /\ x'.seen = x.seen \/ x'.seen = Append(x.seen, carried(m))
  BY ProgressFields
<1>2. /\ DOMAIN x = Fields
      /\ m \in ToSet(x.back) /\ m.type = "Progress"
      /\ IsSequence(Tail(x.back)) /\ ToSet(Tail(x.back)) \subseteq ToSet(x.back)
      /\ x.is # "idle" /\ x.out = Absent /\ x.in = Absent
  BY <1>1, Taken
<1> HIDE DEF m
<1>3. IsSequence(x'.seen)
  BY <1>1, AppendedTo DEF Intact, Shape
<1>4. Shape'
  BY <1>1, <1>2, <1>3 DEF Intact, Shape, Fields
<1>5. InOrder'
  BY <1>1, <1>2 DEF Intact, InOrder, Fields
<1>6. Kept'
  BY <1>1, <1>2 DEF Intact, Kept, Fields
<1> QED
  BY <1>4, <1>5, <1>6 DEF Intact

\* The caller is told a result or an exception.
LEMMA IntactTold ==
    ASSUME Intact, NEW type \in {"Result", "Error"}, Answered(type), setup' = setup,
           NEW told, told = x.told \/ (told # Absent /\ (told = x.end \/ told.is = "exception")),
           DOMAIN x' = Fields, x'.back = Tail(x.back), x'.told = told,
           \A f \in Fields \ {"back", "raised", "told"} : x'[f] = x[f]
    PROVE  Intact'
<1> DEFINE m == Head(x.back)
<1>1. /\ DOMAIN x = Fields
      /\ m \in ToSet(x.back) /\ m.type = type
      /\ IsSequence(Tail(x.back)) /\ ToSet(Tail(x.back)) \subseteq ToSet(x.back)
      /\ x.is # "idle" /\ x.out = Absent /\ x.in = Absent
  BY Taken
<1>2. x.end # Absent
  BY <1>1 DEF Intact, Kept
<1>3. Shape'
  BY <1>1 DEF Intact, Shape, Fields
<1>4. InOrder'
  BY <1>1, <1>2 DEF Intact, InOrder, Fields
<1>5. Kept'
  BY <1>1 DEF Intact, Kept, Fields
<1> QED
  BY <1>3, <1>4, <1>5 DEF Intact

LEMMA ResultFields ==
    ASSUME Intact, OnResult
    PROVE  /\ Answered("Result") /\ setup' = setup /\ session' = session
           /\ DOMAIN x' = Fields /\ x'.back = Tail(x.back)
           /\ \A f \in Fields \ {"back", "told"} : x'[f] = x[f]
           /\ x'.told = receivedByOriginator(session["originator"], x.uri, Head(x.back))
           /\ x'.told # Absent
           /\ x'.told = x.end \/ x'.told.is = "exception"
<1> DEFINE r == receivedAnswer
           m == Head(x.back)
<1>1. Answered("Result") /\ DOMAIN x = Fields /\ setup' = setup /\ session' = session
  BY DEF OnResult, Intact, Shape
<1>2. r = receivedByOriginator(session["originator"], x.uri, m)
  BY DEF receivedAnswer, receivedByOriginator
<1>3. x' = [x EXCEPT !.back = Tail(@), !.told = r]
  BY DEF OnResult
<1> HIDE DEF r
<1>4. /\ DOMAIN x' = Fields /\ x'.back = Tail(x.back) /\ x'.told = r
      /\ \A f \in Fields \ {"back", "told"} : x'[f] = x[f]
  BY <1>1, <1>3 DEF Fields
<1>5. x.end = [is |-> "payload", payload |-> carried(m)]
  <2>1. m \in ToSet(x.back) /\ m.type = "Result"
    BY <1>1, Taken
  <2> QED
    BY <2>1 DEF Intact, Kept
<1>6. r # Absent /\ (r = x.end \/ r.is = "exception")
  BY <1>2, <1>5, AnswerReceived
<1> QED
  BY <1>1, <1>2, <1>4, <1>6

LEMMA ErrorFields ==
    ASSUME Intact, OnError
    PROVE  LET exc == _exception_from_message(session["originator"], Classes, Head(x.back))
           IN  /\ Answered("Error") /\ setup' = setup /\ session' = session
               /\ DOMAIN x' = Fields /\ x'.back = Tail(x.back)
               /\ \A f \in Fields \ {"back", "raised", "told"} : x'[f] = x[f]
               /\ exc = Raised => x'.told = x.told
               /\ exc # Raised => x'.told = exc /\ exc.is = "exception" /\ exc # Absent
<1> DEFINE exc == _exception_from_message(session["originator"], Classes, Head(x.back))
<1>1. Answered("Error") /\ DOMAIN x = Fields /\ setup' = setup /\ session' = session
  BY DEF OnError, Intact, Shape
<1>2. exc # Raised => exc.is = "exception" /\ exc # Absent
  BY ExceptionOfMessage
<1>3. x' = IF exc = Raised THEN [x EXCEPT !.back = Tail(@), !.raised = TRUE]
           ELSE [x EXCEPT !.back = Tail(@), !.told = exc]
  BY DEF OnError
<1> HIDE DEF exc
<1>4. CASE exc = Raised
  BY <1>1, <1>3, <1>4 DEF exc, Fields
<1>5. CASE exc # Raised
  BY <1>1, <1>2, <1>3, <1>5 DEF exc, Fields
<1> QED
  BY <1>4, <1>5

LEMMA IntactStep ==
    ASSUME Exceptional, Intact, [ExchangeNext]_exchangeVars
    PROVE  Intact'
<1>1. CASE Elsewhere
  <2>1. /\ setup' = setup /\ DOMAIN x' = Fields /\ DOMAIN x = Fields
        /\ \A f \in Fields \ {"changes", "stable"} : x'[f] = x[f]
    BY <1>1, ChangesOnlySessions DEF Intact, Shape
  <2>2. /\ x'.is = x.is /\ x'.uri = x.uri /\ x'.payload = x.payload /\ x'.out = x.out /\ x'.in = x.in
        /\ x'.invocation = x.invocation /\ x'.invoked = x.invoked /\ x'.progressed = x.progressed
        /\ x'.back = x.back /\ x'.end = x.end /\ x'.told = x.told /\ x'.seen = x.seen
    BY <2>1 DEF Fields
  <2>3. Shape' /\ InOrder'
    BY <2>1, <2>2 DEF Intact, Shape, InOrder
  <2>4. Kept'
    BY <2>2 DEF Intact, Kept
  <2> QED
    BY <2>3, <2>4 DEF Intact
<1>2. CASE call \/ publish
  BY <1>2, IntactRequest
<1>3. CASE Route
  BY <1>3, IntactRoute
<1>4. CASE OnInvocation
  BY <1>4, IntactInvocation
<1>5. CASE OnEvent
  BY <1>5, IntactEvent
<1>6. CASE Progress
  BY <1>6, IntactProgress
<1>7. CASE Returns
  BY <1>7, IntactReturns
<1>8. CASE Raises
  BY <1>8, IntactRaises
<1>9. CASE OnProgress
  BY <1>9, IntactOnProgress
<1>10. CASE OnResult
  <2>1. /\ Answered("Result") /\ setup' = setup /\ DOMAIN x' = Fields /\ x'.back = Tail(x.back)
        /\ \A f \in Fields \ {"back", "raised", "told"} : x'[f] = x[f]
        /\ x'.told # Absent /\ (x'.told = x.end \/ x'.told.is = "exception")
    BY <1>10, ResultFields
  <2> QED
    BY <2>1, IntactTold
<1>11. CASE OnError
  <2>1. /\ Answered("Error") /\ setup' = setup /\ DOMAIN x' = Fields /\ x'.back = Tail(x.back)
        /\ \A f \in Fields \ {"back", "raised", "told"} : x'[f] = x[f]
        /\ x'.told = x.told \/ (x'.told # Absent /\ x'.told.is = "exception")
    BY <1>11, ErrorFields
  <2> QED
    BY <2>1, IntactTold
<1>12. CASE UNCHANGED exchangeVars
  BY <1>12 DEF Intact, Shape, InOrder, Kept, exchangeVars
<1> QED
  BY <1>1, <1>2, <1>3, <1>4, <1>5, <1>6, <1>7, <1>8, <1>9, <1>10, <1>11, <1>12 DEF ExchangeNext, Elsewhere

-----------------------------------------------------------------------------
(* The caller sees the progressive results in their order.                 *)

LEMMA Indexed ==
    ASSUME NEW s, IsSequence(s)
    PROVE  /\ Len(s) \in Nat /\ DOMAIN s = 1 .. Len(s)
           /\ \A i \in 1 .. Len(s) : s[i] \in ToSet(s)
           /\ \A m : /\ Len(Append(s, m)) = Len(s) + 1 /\ Append(s, m)[Len(s) + 1] = m
                     /\ \A i \in 1 .. Len(s) : Append(s, m)[i] = s[i]
           /\ s # <<>> => /\ Len(s) > 0 /\ Head(s) = s[1] /\ Len(Tail(s)) = Len(s) - 1
                          /\ \A i \in 1 .. Len(s) - 1 : Tail(s)[i] = s[i + 1]
<1>1. PICK S : s \in Seq(S)
  BY DEF IsSequence
<1>2. \A i \in 1 .. Len(s) : s[i] \in ToSet(s)
  BY <1>1 DEF ToSet
<1>3. ASSUME NEW m
      PROVE  /\ Len(Append(s, m)) = Len(s) + 1 /\ Append(s, m)[Len(s) + 1] = m
             /\ \A i \in 1 .. Len(s) : Append(s, m)[i] = s[i]
  <2>1. s \in Seq(S \cup {m}) /\ m \in S \cup {m}
    BY <1>1
  <2> QED
    BY <2>1
<1> QED
  BY <1>1, <1>2, <1>3

LEMMA MadeInOrder ==
    ASSUME NEW p, IsSequence(p), NEW b, IsSequence(b), NEW s, IsSequence(s), OrderOf(p, b, s),
           \A m \in ToSet(b) : m.type = "Progress",
           NEW m, m.type = "Progress"
    PROVE  OrderOf(Append(p, carried(m)), Append(b, m), s)
<1>0. PICK n \in 0 .. Len(b) : \E place \in [1 .. Len(s) -> 1 .. Len(p) - n] : InPlace(p, b, s, n, place)
  BY DEF OrderOf
<1>1. PICK place \in [1 .. Len(s) -> 1 .. Len(p) - n] : InPlace(p, b, s, n, place)
  BY <1>0
<1> DEFINE q == Append(p, carried(m))
           c == Append(b, m)
<1>2. /\ Len(p) \in Nat /\ Len(b) \in Nat /\ Len(s) \in Nat /\ n \in Nat
      /\ Len(q) = Len(p) + 1 /\ q[Len(p) + 1] = carried(m) /\ \A i \in 1 .. Len(p) : q[i] = p[i]
      /\ Len(c) = Len(b) + 1 /\ c[Len(b) + 1] = m /\ \A i \in 1 .. Len(b) : c[i] = b[i]
  BY Indexed
<1>3. n = Len(b)
  <2>1. \A i \in 1 .. Len(b) : b[i].type = "Progress"
    BY Indexed
  <2> QED
    BY <1>1, <1>2, <2>1 DEF InPlace
<1> HIDE DEF q, c
<1>4. Len(p) - n = Len(q) - (n + 1) /\ n + 1 \in 0 .. Len(c)
  BY <1>2, <1>3
<1>5. place \in [1 .. Len(s) -> 1 .. Len(q) - (n + 1)]
  BY <1>4
<1>6. \A i \in 1 .. Len(c) : c[i].type = "Progress" /\ carried(c[i]) = q[Len(q) - (n + 1) + i]
  <2>1. SUFFICES ASSUME NEW i \in 1 .. Len(c)
                 PROVE  c[i].type = "Progress" /\ carried(c[i]) = q[Len(q) - (n + 1) + i]
    OBVIOUS
  <2>2. CASE i <= n
    <3>1. i \in 1 .. Len(b) /\ Len(p) - n + i \in 1 .. Len(p) /\ Len(q) - (n + 1) + i = Len(p) - n + i
      BY <1>1, <1>2, <1>3, <2>2 DEF InPlace
    <3> QED
      BY <1>1, <1>2, <2>2, <3>1 DEF InPlace
  <2>3. CASE i > n
    <3>1. i = Len(b) + 1 /\ Len(q) - (n + 1) + i = Len(p) + 1
      BY <1>2, <1>3, <2>3
    <3> QED
      BY <1>2, <3>1
  <2> QED
    BY <1>2, <2>2, <2>3
<1>7. \A i \in 1 .. Len(s) : s[i] = q[place[i]]
  <2>1. \A i \in 1 .. Len(s) : place[i] \in 1 .. Len(p)
    BY <1>2
  <2> QED
    BY <1>1, <1>2, <2>1 DEF InPlace
<1>8. InPlace(q, c, s, n + 1, place)
  BY <1>1, <1>2, <1>3, <1>6, <1>7 DEF InPlace
<1> QED
  BY <1>4, <1>5, <1>8 DEF OrderOf, q, c

LEMMA EndedInOrder ==
    ASSUME NEW p, NEW b, IsSequence(b), NEW s, OrderOf(p, b, s), NEW m, m.type # "Progress"
    PROVE  OrderOf(p, Append(b, m), s)
<1>0. PICK n \in 0 .. Len(b) : \E place \in [1 .. Len(s) -> 1 .. Len(p) - n] : InPlace(p, b, s, n, place)
  BY DEF OrderOf
<1>1. PICK place \in [1 .. Len(s) -> 1 .. Len(p) - n] : InPlace(p, b, s, n, place)
  BY <1>0
<1> DEFINE c == Append(b, m)
<1>2. /\ Len(b) \in Nat /\ n \in Nat
      /\ Len(c) = Len(b) + 1 /\ c[Len(b) + 1] = m /\ \A i \in 1 .. Len(b) : c[i] = b[i]
  BY Indexed
<1> HIDE DEF c
<1>3. InPlace(p, c, s, n, place)
  <2>1. ASSUME NEW i \in 1 .. Len(c) PROVE i \in 1 .. Len(b) \/ (i = Len(b) + 1 /\ ~(i <= n))
    BY <1>2
  <2> QED
    BY <1>1, <1>2, <2>1 DEF InPlace
<1>4. n \in 0 .. Len(c)
  BY <1>2
<1> QED
  BY <1>3, <1>4 DEF OrderOf, c

LEMMA TakenInOrder ==
    ASSUME NEW p, IsSequence(p), NEW b, IsSequence(b), b # <<>>, NEW s, IsSequence(s), OrderOf(p, b, s)
    PROVE  /\ OrderOf(p, Tail(b), s)
           /\ Head(b).type = "Progress" => OrderOf(p, Tail(b), Append(s, carried(Head(b))))
<1>0. PICK n \in 0 .. Len(b) : \E place \in [1 .. Len(s) -> 1 .. Len(p) - n] : InPlace(p, b, s, n, place)
  BY DEF OrderOf
<1>1. PICK place \in [1 .. Len(s) -> 1 .. Len(p) - n] : InPlace(p, b, s, n, place)
  BY <1>0
<1> DEFINE c == Tail(b)
           h == Head(b)
           t == Append(s, carried(h))
<1>2. /\ Len(p) \in Nat /\ Len(b) \in Nat /\ Len(s) \in Nat /\ n \in Nat
      /\ Len(b) > 0 /\ h = b[1] /\ Len(c) = Len(b) - 1 /\ \A i \in 1 .. Len(b) - 1 : c[i] = b[i + 1]
      /\ Len(t) = Len(s) + 1 /\ t[Len(s) + 1] = carried(h) /\ \A i \in 1 .. Len(s) : t[i] = s[i]
  BY Indexed
<1> HIDE DEF c, h, t
<1>3. CASE n = 0
  <2>1. h.type # "Progress"
    BY <1>1, <1>2, <1>3 DEF InPlace
  <2>2. InPlace(p, c, s, 0, place)
    <3>1. \A i \in 1 .. Len(c) : i + 1 \in 1 .. Len(b) /\ c[i] = b[i + 1] /\ i > 0 /\ i + 1 > 0 /\ ~(i <= 0)
      BY <1>2
    <3> QED
      BY <1>1, <1>2, <1>3, <3>1 DEF InPlace
  <2>3. 0 \in 0 .. Len(c)
    BY <1>2
  <2> QED
    BY <1>3, <2>1, <2>2, <2>3 DEF OrderOf, c, h
<1>4. CASE n > 0
  <2> DEFINE k == n - 1
             at == Len(p) - k
  <2>1. /\ k \in 0 .. Len(c) /\ k \in Nat /\ at \in Nat /\ at = Len(p) - n + 1 /\ k <= Len(p)
        /\ at \in 1 .. Len(p) - k
    BY <1>1, <1>2, <1>4 DEF InPlace
  <2>2. carried(h) = p[at] /\ \A i \in 1 .. Len(s) : place[i] \in 1 .. Len(p) - n /\ place[i] < at
    <3>1. 1 \in 1 .. Len(b) /\ 1 <= n
      BY <1>2, <1>4
    <3>2. carried(h) = p[at]
      BY <1>1, <1>2, <2>1, <3>1 DEF InPlace
    <3>3. \A i \in 1 .. Len(s) : place[i] \in 1 .. Len(p) - n
      OBVIOUS
    <3> QED
      BY <1>2, <2>1, <3>2, <3>3
  <2>3. \A i \in 1 .. Len(c) :
            /\ i <= k => c[i].type = "Progress" /\ carried(c[i]) = p[Len(p) - k + i]
            /\ i > k => c[i].type # "Progress"
    <3>1. SUFFICES ASSUME NEW i \in 1 .. Len(c)
                   PROVE  /\ i <= k => c[i].type = "Progress" /\ carried(c[i]) = p[Len(p) - k + i]
                          /\ i > k => c[i].type # "Progress"
      OBVIOUS
    <3>2. /\ i + 1 \in 1 .. Len(b) /\ c[i] = b[i + 1] /\ Len(p) - k + i = Len(p) - n + (i + 1)
          /\ i <= k <=> i + 1 <= n /\ (i > k <=> i + 1 > n)
      BY <1>2
    <3> QED
      BY <1>1, <3>2 DEF InPlace
  <2> HIDE DEF k, at
  <2>4. OrderOf(p, c, s)
    <3>1. place \in [1 .. Len(s) -> 1 .. Len(p) - k]
      BY <1>2, <2>1
    <3>2. InPlace(p, c, s, k, place)
      BY <1>1, <2>1, <2>3 DEF InPlace
    <3> QED
      BY <2>1, <3>1, <3>2 DEF OrderOf
  <2>5. OrderOf(p, c, t)
    <3> DEFINE wider == [i \in 1 .. Len(t) |-> IF i <= Len(s) THEN place[i] ELSE at]
    <3>1. \A i \in 1 .. Len(t) : i \in 1 .. Len(s) \/ (i = Len(s) + 1 /\ ~(i <= Len(s)))
      BY <1>2
    <3>2. /\ \A i \in 1 .. Len(s) : i \in 1 .. Len(t) /\ wider[i] = place[i]
          /\ wider[Len(s) + 1] = at
      BY <1>2
    <3>3. wider \in [1 .. Len(t) -> 1 .. Len(p) - k]
      <4>1. \A i \in 1 .. Len(s) : place[i] \in 1 .. Len(p) - k
        BY <1>2, <2>1
      <4> QED
        BY <2>1, <3>1, <4>1
    <3> HIDE DEF wider
    <3>4. ASSUME NEW i \in 1 .. Len(t), NEW j \in 1 .. Len(t), i < j
          PROVE  wider[i] < wider[j]
      <4>1. i \in 1 .. Len(s)
        BY <1>2, <3>4
      <4>2. CASE j \in 1 .. Len(s)
        BY <1>1, <3>2, <3>4, <4>1, <4>2 DEF InPlace
      <4>3. CASE j = Len(s) + 1
        BY <2>2, <3>2, <4>1, <4>3
      <4> QED
        BY <3>1, <4>2, <4>3
    <3>5. \A i \in 1 .. Len(t) : t[i] = p[wider[i]]
      BY <1>1, <1>2, <2>2, <3>1, <3>2 DEF InPlace
    <3>6. InPlace(p, c, t, k, wider)
      BY <2>1, <2>3, <3>4, <3>5 DEF InPlace
    <3> QED
      BY <2>1, <3>3, <3>6 DEF OrderOf
  <2> QED
    BY <2>4, <2>5 DEF c, h, t
<1> QED
  BY <1>2, <1>3, <1>4

LEMMA OrderedInit ==
    ASSUME ExchangeInit
    PROVE  Ordered
<1>1. x.progressed = <<>> /\ x.back = <<>> /\ x.seen = <<>>
  BY DEF ExchangeInit, idle
<1> DEFINE zero == Len(<<>>)
<1>2. zero = 0
  OBVIOUS
<1> HIDE DEF zero
<1>3. /\ 0 \in 0 .. zero /\ 0 <= zero /\ \A i : i \notin 1 .. zero
      /\ [i \in 1 .. zero |-> i] \in [1 .. zero -> 1 .. zero - 0]
  BY <1>2
<1>4. OrderOf(<<>>, <<>>, <<>>)
  <2>1. InPlace(<<>>, <<>>, <<>>, 0, [i \in 1 .. zero |-> i])
    BY <1>3 DEF InPlace, zero
  <2> QED
    BY <1>3, <2>1 DEF OrderOf, zero
<1> QED
  BY <1>1, <1>4 DEF Ordered

LEMMA OrderedStep ==
    ASSUME Exceptional, Intact, Ordered, [ExchangeNext]_exchangeVars
    PROVE  Ordered'
<1> DEFINE p == x.progressed
           b == x.back
           s == x.seen
<1>1. DOMAIN x = Fields /\ IsSequence(p) /\ IsSequence(b) /\ IsSequence(s) /\ OrderOf(p, b, s)
  BY DEF Intact, Shape, Ordered
<1>2. x.invocation # Absent => \A m \in ToSet(b) : m.type = "Progress"
  BY DEF Intact, InOrder, Kept
<1>3. CASE Elsewhere
  BY <1>1, <1>3, ChangesOnlySessions DEF Fields, Ordered
<1>4. CASE call \/ publish \/ Route \/ OnEvent \/ UNCHANGED exchangeVars
  <2>1. x'.progressed = p /\ x'.back = b /\ x'.seen = s
    <3>1. CASE UNCHANGED exchangeVars
      BY <3>1 DEF exchangeVars
    <3>2. CASE call \/ publish \/ Route \/ OnEvent
      BY <1>1, <3>2 DEF call, publish, Request, Route, OnEvent, Fields
    <3> QED
      BY <1>4, <3>1, <3>2
  <2> QED
    BY <1>1, <2>1 DEF Ordered
<1>5. CASE OnInvocation
  <2> DEFINE r == receivedByResponder(session["responder"], x.in.uri, x.in)
             m == failureMessage(session["responder"], r)
  <2>1. /\ x.in # Absent /\ r.is \in {"payload", "exception"}
        /\ r.is = "exception" => /\ m.type = "Error" /\ x'.back = <<m>>
                                 /\ x'.progressed = p /\ x'.seen = s
        /\ r.is = "payload" => x'.back = b /\ x'.progressed = p /\ x'.seen = s
    BY <1>5, InvocationFields DEF Fields
  <2>2. b = <<>> /\ <<m>> = Append(<<>>, m)
    BY <2>1 DEF Intact, InOrder
  <2> HIDE DEF r, m
  <2>3. r.is = "exception" => OrderOf(p, Append(b, m), s)
    BY <1>1, <2>1, EndedInOrder
  <2> QED
    BY <1>1, <2>1, <2>2, <2>3 DEF Ordered
<1>6. CASE Progress
  <2>1. PICK m : /\ m.type = "Progress"
                 /\ x'.progressed = Append(p, carried(m)) /\ x'.back = Append(b, m) /\ x'.seen = s
    BY <1>6, ProgressMade
  <2>2. x.invocation # Absent
    BY <1>6 DEF Progress
  <2> HIDE DEF p, b, s
  <2>3. OrderOf(Append(p, carried(m)), Append(b, m), s)
    BY <1>1, <1>2, <2>1, <2>2, MadeInOrder
  <2> QED
    BY <2>1, <2>3 DEF Ordered
<1>7. CASE Returns \/ Raises
  <2>1. PICK end, back :
            /\ Ended(end, back)
            /\ back = b \/ \E m : back = Append(b, m) /\ m.type # "Progress"
    <3>1. CASE Returns
      BY <1>1, <3>1, ReturnedFields, InvalidPayload
    <3>2. CASE Raises
      BY <1>1, <3>2, RaisedFields
    <3> QED
      BY <1>7, <3>1, <3>2
  <2>2. x'.progressed = p /\ x'.back = back /\ x'.seen = s
    BY <1>1, <2>1 DEF Ended, Fields
  <2> HIDE DEF p, b, s
  <2>3. OrderOf(p, back, s)
    BY <1>1, <2>1, EndedInOrder
  <2> QED
    BY <2>2, <2>3 DEF Ordered
<1>8. CASE OnProgress \/ OnResult \/ OnError
  <2>1. /\ b # <<>> /\ x'.back = Tail(b) /\ x'.progressed = p
        /\ x'.seen = s \/ (Head(b).type = "Progress" /\ x'.seen = Append(s, carried(Head(b))))
    <3>1. CASE OnProgress
      BY <3>1, ProgressFields DEF Answered, Fields
    <3>2. CASE OnResult
      BY <3>2, ResultFields DEF Answered, Fields
    <3>3. CASE OnError
      BY <3>3, ErrorFields DEF Answered, Fields
    <3> QED
      BY <1>8, <3>1, <3>2, <3>3
  <2> HIDE DEF p, b, s
  <2>2. /\ OrderOf(p, Tail(b), s)
        /\ Head(b).type = "Progress" => OrderOf(p, Tail(b), Append(s, carried(Head(b))))
    BY <1>1, <2>1, TakenInOrder
  <2> QED
    BY <2>1, <2>2 DEF Ordered
<1> QED
  BY <1>3, <1>4, <1>5, <1>6, <1>7, <1>8 DEF ExchangeNext, Elsewhere

\* What is seen are some of the progressive results.
LEMMA OrderedIsPart ==
    ASSUME Intact, Ordered
    PROVE  PartOf(x.seen, x.progressed)
<1> DEFINE p == x.progressed
           s == x.seen
<1>1. /\ Len(p) \in Nat /\ DOMAIN p = 1 .. Len(p) /\ Len(s) \in Nat /\ DOMAIN s = 1 .. Len(s)
      /\ Len(x.back) \in Nat
  BY Indexed DEF Intact, Shape
<1>0. PICK n \in 0 .. Len(x.back) : \E place \in [1 .. Len(s) -> 1 .. Len(p) - n] : InPlace(p, x.back, s, n, place)
  BY DEF Ordered, OrderOf
<1>2. PICK place \in [1 .. Len(s) -> 1 .. Len(p) - n] : InPlace(p, x.back, s, n, place)
  BY <1>0
<1> HIDE DEF p, s
<1>3. place \in [DOMAIN s -> DOMAIN p]
  BY <1>1, <1>2
<1>4. PartOf(s, p)
  BY <1>1, <1>2, <1>3 DEF InPlace, PartOf
<1> QED
  BY <1>4 DEF p, s

\* Whatever the keys are, whenever they change and wherever the router sends it:
\* handlers and endpoints are called with what was given, and with what is encoded
\* only for its URI, the caller gets the result of its endpoint, and the progressive
\* results in their order.
THEOREM ArgumentsAreKept ==
    ASSUME Exceptional
    PROVE  ExchangeSpec => []NothingIsMixedUp
<1>1. ExchangeInit => Intact /\ Ordered
  BY IntactInit, OrderedInit
<1>2. Intact /\ Ordered /\ [ExchangeNext]_exchangeVars => (Intact /\ Ordered)'
  BY IntactStep, OrderedStep
<1>3. Intact /\ Ordered => NothingIsMixedUp
  BY OrderedIsPart DEF Intact, Kept, NothingIsMixedUp
<1> QED
  BY <1>1, <1>2, <1>3, PTL DEF ExchangeSpec

-----------------------------------------------------------------------------
(* Every call is answered.                                                 *)

\* These steps are before the endpoint's end.
LEMMA BeforeTheEnd ==
    ASSUME Intact, call \/ publish \/ Route \/ OnEvent \/ Progress
    PROVE  x.end = Absent /\ x'.end = Absent
<1>1. DOMAIN x = Fields
  BY DEF Intact, Shape
<1>2. x.end = Absent
  BY DEF Intact, InOrder, call, publish, Request, Route, OnEvent, Progress
<1>3. CASE call \/ publish
  <2>1. PICK kind, type : Request(kind, type)
    BY <1>3 DEF call, publish
  <2>2. PICK uri, payload, m :
            x' = [x EXCEPT !.is = kind, !.uri = uri, !.payload = payload, !.out = m]
    BY <2>1 DEF Request
  <2> QED
    BY <1>1, <1>2, <2>2 DEF Fields
<1>4. CASE Route
  BY <1>1, <1>2, <1>4 DEF Route, Fields
<1>5. CASE OnEvent
  BY <1>1, <1>2, <1>5 DEF OnEvent, Fields
<1>6. CASE Progress
  <2>1. \E progressed, back : x' = [x EXCEPT !.progressed = progressed, !.back = back]
    BY <1>6 DEF Progress
  <2> QED
    BY <1>1, <1>2, <2>1 DEF Fields
<1> QED
  BY <1>2, <1>3, <1>4, <1>5, <1>6

LEMMA SentArguments ==
    ASSUME Exceptional, Answerable, Intact, NEW exc \in setup.exceptions
    PROVE  /\ serializable(sent(exc, setup.traceback_app))
           /\ DOMAIN sent(exc, setup.traceback_app).kwargs \cap Own = {}
<1>1. setup \in Pairs
  BY DEF Intact, Shape
<1>2. serializable(exc.payload) /\ DOMAIN exc.payload.kwargs \cap Own = {}
  BY <1>1 DEF Answerable
<1>3. DOMAIN exc.payload = {"args", "kwargs"}
  BY ExceptionalEnd
<1> DEFINE lines == [exc.payload EXCEPT !.kwargs = put(@, "traceback", "lines")]
<1>4. lines.args = exc.payload.args /\ lines.kwargs = put(exc.payload.kwargs, "traceback", "lines")
  BY <1>3
<1>5. DOMAIN put(exc.payload.kwargs, "traceback", "lines") = {"traceback"} \cup DOMAIN exc.payload.kwargs
  BY DEF put
<1>6. serializable(lines) /\ DOMAIN lines.kwargs \cap Own = {}
  BY <1>2, <1>4, <1>5 DEF serializable, Own
<1> HIDE DEF lines
<1>7. sent(exc, setup.traceback_app) \in {lines, exc.payload}
  BY DEF sent, lines
<1> QED
  BY <1>2, <1>6, <1>7

\* What the endpoint ends with is followed by a result or an error.
LEMMA EndedWaiting ==
    ASSUME Intact, x.invocation # Absent, NEW end, NEW m, Ended(end, Append(x.back, m)),
           m.type # "Progress", m.type = "Error" => DOMAIN carried(m).kwargs \cap Own = {}
    PROVE  Waiting'
<1>1. DOMAIN x = Fields /\ x.end = Absent /\ IsSequence(x.back)
  BY DEF Intact, Shape, InOrder
<1>2. x'.back = Append(x.back, m)
  BY <1>1 DEF Ended, Fields
<1>3. x'.back # <<>> /\ x'.back[Len(x'.back)] = m /\ ToSet(x'.back) = ToSet(x.back) \cup {m}
  BY <1>1, <1>2, AppendedTo
<1>4. \A a \in ToSet(x.back) : a.type = "Progress"
  BY <1>1 DEF Intact, Kept
<1> QED
  BY <1>3, <1>4 DEF Waiting

LEMMA WaitingStep ==
    ASSUME Exceptional, Answerable, Intact, Waiting, [ExchangeNext]_exchangeVars
    PROVE  Waiting'
<1>1. CASE Elsewhere
  <2>1. x'.end = x.end /\ x'.told = x.told /\ x'.back = x.back
    BY <1>1, ChangesOnlySessions DEF Intact, Shape, Fields
  <2> QED
    BY <2>1 DEF Waiting
<1>2. CASE call \/ publish \/ Route \/ OnEvent \/ Progress
  BY <1>2, BeforeTheEnd DEF Waiting
<1>3. CASE OnInvocation
  <2> DEFINE r == receivedByResponder(session["responder"], x.in.uri, x.in)
             m == failureMessage(session["responder"], r)
  <2>1. /\ x.in # Absent /\ r.is \in {"payload", "exception"}
        /\ r.is = "exception" => m.type = "Error" /\ carried(m).kwargs = none /\ x'.back = <<m>>
        /\ r.is = "payload" => x'.end = x.end
    BY <1>3, InvocationFields DEF Fields
  <2> HIDE DEF r, m
  <2>2. x.end = Absent
    BY <2>1 DEF Intact, InOrder
  <2>3. CASE r.is = "exception"
    <3>1. x'.back # <<>> /\ x'.back[Len(x'.back)] = m /\ ToSet(x'.back) = {m}
      BY <2>1, <2>3, OnlyOne
    <3>2. DOMAIN carried(m).kwargs = {}
      BY <2>1, <2>3 DEF none
    <3> QED
      BY <2>1, <2>3, <3>1, <3>2 DEF Waiting
  <2> QED
    BY <2>1, <2>2, <2>3 DEF Waiting
<1>4. CASE Returns
  <2>1. DOMAIN x = Fields /\ x.invocation # Absent
    BY <1>4 DEF Returns, Intact, Shape
  <2>2. PICK end, m : /\ Ended(end, Append(x.back, m))
                      /\ m.type = "Result" \/ m = invalid_payload
    BY <1>4, <2>1, ReturnedFields
  <2>3. m.type # "Progress" /\ (m.type = "Error" => DOMAIN carried(m).kwargs \cap Own = {})
    BY <2>2, InvalidPayload
  <2> QED
    BY <2>1, <2>2, <2>3, EndedWaiting
<1>5. CASE Raises
  <2>1. DOMAIN x = Fields /\ x.invocation # Absent
    BY <1>5 DEF Raises, Intact, Shape
  <2>2. PICK exc \in setup.exceptions :
            \/ Ended(exc, x.back) /\ endMessage(exc) = Raised
            \/ \E m : /\ Ended(exc, Append(x.back, m)) /\ m.type = "Error"
                      /\ m = endMessage(exc) \/ m = invalid_payload
    BY <1>5, <2>1, RaisedFields
  <2>3. /\ serializable(sent(exc, setup.traceback_app))
        /\ DOMAIN sent(exc, setup.traceback_app).kwargs \cap Own = {}
    BY SentArguments
  <2>4. endMessage(exc) # Raised /\ carried(endMessage(exc)) = sent(exc, setup.traceback_app)
    BY <2>3, MessageOfException DEF endMessage
  <2>5. PICK m : /\ Ended(exc, Append(x.back, m)) /\ m.type = "Error"
                 /\ m = endMessage(exc) \/ m = invalid_payload
    BY <2>2, <2>4
  <2>6. DOMAIN carried(m).kwargs \cap Own = {}
    BY <2>3, <2>4, <2>5, InvalidPayload
  <2> QED
    BY <2>1, <2>5, <2>6, EndedWaiting
<1>6. CASE OnProgress
  <2>1. Answered("Progress") /\ x'.back = Tail(x.back) /\ x'.end = x.end /\ x'.told = x.told
    BY <1>6, ProgressFields DEF Fields
  <2>2. LET m == Head(x.back)
        IN  /\ m.type = "Progress" /\ ToSet(Tail(x.back)) \subseteq ToSet(x.back)
            /\ Tail(x.back) = <<>> => x.back[Len(x.back)] = m
            /\ Tail(x.back) # <<>> => Tail(x.back)[Len(Tail(x.back))] = x.back[Len(x.back)]
    BY <2>1, Taken
  <2> QED
    BY <2>1, <2>2 DEF Waiting
<1>7. CASE OnResult
  BY <1>7, ResultFields DEF Waiting
<1>8. CASE OnError
  <2>1. Answered("Error") /\ x'.end = x.end
    BY <1>8, ErrorFields DEF Fields
  <2>2. Head(x.back) \in ToSet(x.back) /\ Head(x.back).type = "Error"
    BY <2>1, Taken
  <2>3. CASE x.end # Absent /\ x.told = Absent
    <3>1. DOMAIN carried(Head(x.back)).kwargs \cap Own = {}
      BY <2>2, <2>3 DEF Waiting
    <3>2. _exception_from_message(session["originator"], Classes, Head(x.back)) # Raised
      BY <3>1, ExceptionOfMessage
    <3>3. x'.told # Absent
      BY <1>8, <3>2, ErrorFields
    <3> QED
      BY <3>3 DEF Waiting
  <2>4. x.told # Absent => x'.told # Absent
    BY <1>8, ErrorFields
  <2> QED
    BY <2>1, <2>3, <2>4 DEF Waiting
<1>9. CASE UNCHANGED exchangeVars
  BY <1>9 DEF Waiting, exchangeVars
<1> QED
  BY <1>1, <1>2, <1>3, <1>4, <1>5, <1>6, <1>7, <1>8, <1>9 DEF ExchangeNext, Elsewhere

\* Once the endpoint has ended, its caller is told, if errors can be sent and their
\* keywords are none of the constructor's own: onMessage raises otherwise.
THEOREM EveryCallIsAnswered ==
    ASSUME Exceptional, Answerable
    PROVE  ExchangeSpec => []CallsAreAnswered
<1>1. ExchangeInit => Intact /\ Waiting
  <2>1. ExchangeInit => x.end = Absent
    BY DEF ExchangeInit, idle
  <2> QED
    BY <2>1, IntactInit DEF Waiting
<1>2. Intact /\ Waiting /\ [ExchangeNext]_exchangeVars => (Intact /\ Waiting)'
  BY IntactStep, WaitingStep
<1>3. Waiting => CallsAreAnswered
  BY DEF Waiting, CallsAreAnswered
<1> QED
  BY <1>1, <1>2, <1>3, PTL DEF ExchangeSpec

-----------------------------------------------------------------------------
(* The sessions' own maps.                                                 *)

LEMMA SessionsInit ==
    ASSUME ExchangeInit
    PROVE  Sessions /\ ClassesDefined /\ ErrorsDefined
<1>1. session = [p \in Parties |-> [ecls |-> <<>>, uris |-> _uri_to_ecls, codec |-> setup.rings[p]]]
  BY DEF ExchangeInit
<1>2. \A p \in Parties :
          /\ DOMAIN session[p] = {"ecls", "uris", "codec"}
          /\ session[p].ecls = <<>> /\ session[p].uris = _uri_to_ecls
  BY <1>1
<1>3. DOMAIN <<>> = {}
  OBVIOUS
<1>4. \A uri \in DOMAIN _uri_to_ecls : _uri_to_ecls[uri] # "ApplicationError"
  BY <1>3 DEF _uri_to_ecls, put
<1> QED
  BY <1>1, <1>2, <1>3, <1>4 DEF Sessions, ClassesDefined, ErrorsDefined

\* What define() may note.
LEMMA DefineIs ==
    ASSUME NEW s, DOMAIN s = {"ecls", "uris", "codec"}, NEW w, NEW classes, NEW c, NEW uri
    PROVE  LET n == define(s, w, classes, c, uri)
           IN  /\ DOMAIN n = {"ecls", "uris", "codec"}
               /\ \A k \in DOMAIN n.uris : (k \in DOMAIN s.uris /\ n.uris[k] = s.uris[k]) \/ n.uris[k] = c
               /\ \A k \in DOMAIN n.ecls :
                     \/ k \in DOMAIN s.ecls /\ n.ecls[k] = s.ecls[k]
                     \/ k = c /\ (n.ecls[k] = <<uri>> \/ \E o \in DOMAIN w : n.ecls[k] = w[o])
<1> DEFINE o == owner(w, classes, c)
           n == define(s, w, classes, c, uri)
<1>1. o # "nobody" => o \in DOMAIN w
  BY DEF owner
<1> HIDE DEF o
<1>2. CASE uri = <<>> /\ o # "nobody"
  <2>1. n = [s EXCEPT !.ecls = put(@, c, w[o]), !.uris = put(@, w[o][1], c)]
    BY <1>2 DEF define, o
  <2> HIDE DEF n
  <2>2. DOMAIN n = {"ecls", "uris", "codec"} /\ n.ecls = put(s.ecls, c, w[o]) /\ n.uris = put(s.uris, w[o][1], c)
    BY <2>1
  <2>3. \A k \in DOMAIN n.uris : (k \in DOMAIN s.uris /\ n.uris[k] = s.uris[k]) \/ n.uris[k] = c
    BY <2>2 DEF put
  <2>4. \A k \in DOMAIN n.ecls : (k \in DOMAIN s.ecls /\ n.ecls[k] = s.ecls[k]) \/ (k = c /\ n.ecls[k] = w[o])
    BY <2>2 DEF put
  <2> QED
    BY <1>1, <1>2, <2>2, <2>3, <2>4 DEF n
<1>3. CASE uri # <<>> /\ o = "nobody"
  <2>1. n = [s EXCEPT !.ecls = put(@, c, <<uri>>), !.uris = put(@, uri, c)]
    BY <1>3 DEF define, o
  <2> HIDE DEF n
  <2>2. DOMAIN n = {"ecls", "uris", "codec"} /\ n.ecls = put(s.ecls, c, <<uri>>) /\ n.uris = put(s.uris, uri, c)
    BY <2>1
  <2>3. \A k \in DOMAIN n.uris : (k \in DOMAIN s.uris /\ n.uris[k] = s.uris[k]) \/ n.uris[k] = c
    BY <2>2 DEF put
  <2>4. \A k \in DOMAIN n.ecls : (k \in DOMAIN s.ecls /\ n.ecls[k] = s.ecls[k]) \/ (k = c /\ n.ecls[k] = <<uri>>)
    BY <2>2 DEF put
  <2> QED
    BY <1>1, <1>3, <2>2, <2>3, <2>4 DEF n
<1>4. CASE ~(uri = <<>> /\ o # "nobody") /\ ~(uri # <<>> /\ o = "nobody")
  BY <1>4 DEF define, o
<1> QED
  BY <1>2, <1>3, <1>4

\* How the application changes a session.
LEMMA ChangedSession ==
    ASSUME Sessions, Elsewhere
    PROVE  \E p \in Parties : \E s :
               /\ session' = [session EXCEPT ![p] = s] /\ DOMAIN s = {"ecls", "uris", "codec"}
               /\ \/ s.ecls = session[p].ecls /\ s.uris = session[p].uris
                  \/ \E d \in setup.defines :
                        s = define(session[p], decorated(Classes, setup.decorations), Classes, d[1], d[2])
<1>1. PICK p \in Parties : Define(p) \/ SetKey(p) \/ set_payload_codec(p)
  BY DEF Elsewhere
<1>2. DOMAIN session[p] = {"ecls", "uris", "codec"}
  BY DEF Sessions
<1>3. CASE Define(p)
  <2>1. PICK d \in setup.defines :
            Changed(p, define(session[p], decorated(Classes, setup.decorations), Classes, d[1], d[2]))
    BY <1>3 DEF Define
  <2> DEFINE s == define(session[p], decorated(Classes, setup.decorations), Classes, d[1], d[2])
  <2>2. session' = [session EXCEPT ![p] = s]
    BY <2>1 DEF Changed
  <2>3. DOMAIN s = {"ecls", "uris", "codec"}
    BY <1>2, DefineIs
  <2> QED
    BY <2>2, <2>3
<1>4. CASE SetKey(p) \/ set_payload_codec(p)
  <2>1. PICK codec : Changed(p, [session[p] EXCEPT !.codec = codec])
    BY <1>4 DEF SetKey, set_payload_codec
  <2> DEFINE s == [session[p] EXCEPT !.codec = codec]
  <2>2. session' = [session EXCEPT ![p] = s]
    BY <2>1 DEF Changed
  <2>3. DOMAIN s = {"ecls", "uris", "codec"} /\ s.ecls = session[p].ecls /\ s.uris = session[p].uris
    BY <1>2
  <2> QED
    BY <2>2, <2>3
<1> QED
  BY <1>1, <1>3, <1>4

\* The other steps leave the sessions alone.
LEMMA SameSessions ==
    ASSUME [ExchangeNext]_exchangeVars, ~Elsewhere
    PROVE  setup' = setup /\ session' = session
BY DEF ExchangeNext, Elsewhere, exchangeVars, call, publish, Request, Route, OnInvocation, OnEvent, Progress, Returns,
       Raises, OnProgress, OnResult, OnError

LEMMA SessionsStep ==
    ASSUME Shape, Sessions, [ExchangeNext]_exchangeVars
    PROVE  /\ Sessions'
           /\ OwnClasses /\ ClassesDefined => ClassesDefined'
           /\ OwnErrors /\ ErrorsDefined => ErrorsDefined'
<1>1. CASE Elsewhere
  <2>1. PICK p, s :
            /\ p \in Parties /\ session' = [session EXCEPT ![p] = s] /\ DOMAIN s = {"ecls", "uris", "codec"}
            /\ \/ s.ecls = session[p].ecls /\ s.uris = session[p].uris
               \/ \E d \in setup.defines :
                     s = define(session[p], decorated(Classes, setup.decorations), Classes, d[1], d[2])
    BY <1>1, ChangedSession
  <2>2. setup \in Pairs /\ DOMAIN session = Parties /\ DOMAIN session[p] = {"ecls", "uris", "codec"}
    BY <2>1 DEF Shape, Sessions
  <2>3. DOMAIN session' = Parties /\ session'[p] = s /\ \A q \in Parties \ {p} : session'[q] = session[q]
    BY <2>1, <2>2
  <2>4. Sessions'
    BY <2>1, <2>3 DEF Sessions
  <2>5. CASE s.ecls = session[p].ecls /\ s.uris = session[p].uris
    BY <2>3, <2>4, <2>5 DEF ClassesDefined, ErrorsDefined
  <2>6. CASE ~(s.ecls = session[p].ecls /\ s.uris = session[p].uris)
    <3> DEFINE w == decorated(Classes, setup.decorations)
    <3>1. PICK d \in setup.defines : s = define(session[p], w, Classes, d[1], d[2])
      BY <2>1, <2>6
    <3> HIDE DEF w
    <3>2. /\ \A k \in DOMAIN s.uris :
               (k \in DOMAIN session[p].uris /\ s.uris[k] = session[p].uris[k]) \/ s.uris[k] = d[1]
          /\ \A k \in DOMAIN s.ecls :
               \/ k \in DOMAIN session[p].ecls /\ s.ecls[k] = session[p].ecls[k]
               \/ k = d[1] /\ (s.ecls[k] = <<d[2]>> \/ \E o \in DOMAIN w : s.ecls[k] = w[o])
      BY <2>2, <3>1, DefineIs
    <3>3. ASSUME OwnClasses, ClassesDefined PROVE ClassesDefined'
      <4>1. d[1] # "ApplicationError"
        BY <2>2, <3>3 DEF OwnClasses
      <4> QED
        BY <2>3, <3>2, <3>3, <4>1 DEF ClassesDefined
    <3>4. ASSUME OwnErrors, ErrorsDefined PROVE ErrorsDefined'
      <4>1. d[2] \notin Failures
        BY <2>2, <3>4 DEF OwnErrors
      <4>2. \A o \in DOMAIN w : w[o][1] \notin Failures
        BY <2>2, <3>4 DEF OwnErrors, w, Classes
      <4>3. <<d[2]>>[1] = d[2]
        OBVIOUS
      <4>4. \A k \in DOMAIN s.ecls : s.ecls[k][1] \notin Failures
        BY <2>1, <3>2, <3>4, <4>1, <4>2, <4>3 DEF ErrorsDefined
      <4> QED
        BY <2>3, <3>4, <4>4 DEF ErrorsDefined
    <3> QED
      BY <2>4, <3>3, <3>4
  <2> QED
    BY <2>5, <2>6
<1>2. CASE ~Elsewhere
  BY <1>2, SameSessions DEF Sessions, ClassesDefined, ErrorsDefined
<1> QED
  BY <1>1, <1>2

-----------------------------------------------------------------------------
(* An exception arrives as what it was.                                    *)

LEMMA ErredStep ==
    ASSUME Exceptional, Intact, Erred, [ExchangeNext]_exchangeVars
    PROVE  Erred'
<1>1. CASE Elsewhere
  <2>1. x'.invoked = x.invoked /\ (x'.stable => x.is = "idle")
    BY <1>1, ChangesOnlySessions DEF Intact, Shape, Fields
  <2> QED
    BY <2>1 DEF Intact, InOrder, Erred
<1>2. CASE call \/ publish \/ Route \/ OnEvent \/ Progress
  BY <1>2, BeforeTheEnd DEF Erred
<1>3. CASE OnInvocation
  <2> DEFINE r == receivedByResponder(session["responder"], x.in.uri, x.in)
  <2>1. /\ x.in # Absent /\ r.is \in {"payload", "exception"}
        /\ r.is = "exception" => x'.invoked = x.invoked
        /\ r.is = "payload" => x'.end = x.end
    BY <1>3, InvocationFields DEF Fields
  <2>2. x.end = Absent /\ x.invoked = Absent
    BY <2>1 DEF Intact, InOrder
  <2> HIDE DEF r
  <2> QED
    BY <2>1, <2>2 DEF Erred
<1>4. CASE Returns
  <2>1. DOMAIN x = Fields
    BY DEF Intact, Shape
  <2>2. PICK payload, back : Ended([is |-> "payload", payload |-> payload], back)
    BY <1>4, <2>1, ReturnedFields
  <2>3. x'.end.is = "payload"
    BY <2>1, <2>2 DEF Ended, Fields
  <2> QED
    BY <2>3 DEF Erred
<1>5. CASE Raises
  <2>1. DOMAIN x = Fields /\ x.invocation # Absent /\ IsSequence(x.back) /\ setup' = setup /\ session' = session
    BY <1>5 DEF Raises, Intact, Shape
  <2>2. PICK exc \in setup.exceptions :
            \/ Ended(exc, x.back)
            \/ \E m : /\ Ended(exc, Append(x.back, m))
                      /\ serializable(sent(exc, setup.traceback_app)) => m = endMessage(exc)
    BY <1>5, <2>1, RaisedFields
  <2>3. x.end = Absent /\ x.told = Absent
    BY <2>1 DEF Intact, InOrder
  <2>4. \A m \in ToSet(x.back) : m.type = "Progress"
    BY <2>3 DEF Intact, Kept
  <2>5. serializable(exc.payload) => serializable(sent(exc, setup.traceback_app))
    <3>1. DOMAIN exc.payload = {"args", "kwargs"}
      BY ExceptionalEnd
    <3>2. sent(exc, setup.traceback_app).args = exc.payload.args
      BY <3>1 DEF sent
    <3> QED
      BY <3>2 DEF serializable
  <2>6. x'.end = exc /\ x'.told = Absent
    BY <2>1, <2>2, <2>3 DEF Ended, Fields
  <2>7. serializable(exc.payload) => \A m \in ToSet(x'.back) : m.type # "Progress" => m = endMessage(exc)
    <3>1. CASE Ended(exc, x.back)
      <4>1. x'.back = x.back
        BY <2>1, <3>1 DEF Ended, Fields
      <4> QED
        BY <2>4, <4>1
    <3>2. CASE ~Ended(exc, x.back)
      <4>1. PICK m : /\ Ended(exc, Append(x.back, m))
                     /\ serializable(sent(exc, setup.traceback_app)) => m = endMessage(exc)
        BY <2>2, <3>2
      <4>2. x'.back = Append(x.back, m)
        BY <2>1, <4>1 DEF Ended, Fields
      <4>3. ToSet(x'.back) = ToSet(x.back) \cup {m}
        BY <2>1, <4>2, AppendedTo
      <4> QED
        BY <2>4, <2>5, <4>1, <4>3
    <3> QED
      BY <3>1, <3>2
  <2> QED
    BY <2>1, <2>6, <2>7 DEF Erred, endMessage
<1>6. CASE OnProgress
  <2>1. /\ Answered("Progress") /\ setup' = setup /\ session' = session /\ x'.back = Tail(x.back)
        /\ x'.stable = x.stable /\ x'.invoked = x.invoked /\ x'.end = x.end /\ x'.told = x.told
    BY <1>6, ProgressFields DEF Fields
  <2>2. ToSet(x'.back) \subseteq ToSet(x.back)
    BY <2>1, Taken
  <2> QED
    BY <2>1, <2>2 DEF Erred, Classes
<1>7. CASE OnResult
  <2>1. Answered("Result") /\ x'.end = x.end
    BY <1>7, ResultFields DEF Fields
  <2>2. x.end.is = "payload"
    <3>1. Head(x.back) \in ToSet(x.back) /\ Head(x.back).type = "Result"
      BY <2>1, Taken
    <3>2. x.end = [is |-> "payload", payload |-> carried(Head(x.back))]
      BY <3>1 DEF Intact, Kept
    <3> QED
      BY <3>2
  <2> QED
    BY <2>1, <2>2 DEF Erred
<1>8. CASE OnError
  <2> DEFINE m == Head(x.back)
             exc == _exception_from_message(session["originator"], Classes, m)
  <2>1. /\ Answered("Error") /\ setup' = setup /\ session' = session /\ x'.back = Tail(x.back)
        /\ x'.stable = x.stable /\ x'.invoked = x.invoked /\ x'.end = x.end
        /\ x'.told = x.told \/ (exc # Raised /\ x'.told = exc)
    BY <1>8, ErrorFields DEF Fields
  <2>2. m \in ToSet(x.back) /\ m.type = "Error" /\ ToSet(x'.back) \subseteq ToSet(x.back) /\ DOMAIN m = MessageFields
    BY <2>1, Taken
  <2>3. m # Raised
    <3>1. DOMAIN Raised = {"is"}
      BY DEF Raised
    <3> QED
      BY <2>2, <3>1 DEF MessageFields
  <2> HIDE DEF m
  <2> QED
    BY <2>1, <2>2, <2>3 DEF Erred, Classes
<1>9. CASE UNCHANGED exchangeVars
  BY <1>9 DEF Erred, exchangeVars, Classes
<1> QED
  BY <1>1, <1>2, <1>3, <1>4, <1>5, <1>6, <1>7, <1>8, <1>9 DEF ExchangeNext, Elsewhere

\* The two sides of KeysAgree.
LEMMA BoxesAre ==
    ASSUME NEW uri
    PROVE  /\ session["originator"].codec # NoRing =>
                 box("originator", uri) = originatorBox(session["originator"].codec, uri)
           /\ session["responder"].codec # NoRing =>
                 box("responder", uri) = responderBox(session["responder"].codec, uri)
           /\ session["originator"].codec = NoRing => box("originator", uri) = NoBox
           /\ session["responder"].codec = NoRing => box("responder", uri) = NoBox
<1>1. session["originator"].codec # NoRing =>
          box("originator", uri) = originatorBox(session["originator"].codec, uri)
  BY DEF box, originatorBox
<1>2. session["responder"].codec # NoRing =>
          box("responder", uri) = responderBox(session["responder"].codec, uri)
  BY DEF box, responderBox
<1> QED
  BY <1>1, <1>2 DEF box

LEMMA AgreedOn ==
    ASSUME KeysAgree, NEW uri,
           uri \in setup.uris \/ \E e \in setup.exceptions : uri = error_uri(session["responder"], e)
    PROVE  box("originator", uri) = box("responder", uri)
BY DEF KeysAgree

\* What a class or ApplicationError makes of what the caller could read.
LEMMA ErrorReceived ==
    ASSUME NEW s, NEW classes, NEW m, ReadableByOriginator(s, m, m.uri),
           NEW payload, carried(m) = payload,
           NEW told, told = _exception_from_message(s, classes, m), told # Raised
    PROVE  LET made == construct(classes, s.uris[m.uri], payload)
           IN  /\ told.is = "exception"
               /\ m.uri \in DOMAIN s.uris /\ made # Raised => told = made
               /\ m.uri \notin DOMAIN s.uris \/ made = Raised => told = ApplicationError(m.uri, payload)
<1> DEFINE r == received(s, TRUE, m.uri, m)
           made == construct(classes, s.uris[m.uri], payload)
<1>1. r = [is |-> "payload", payload |-> payload]
  <2>1. r = receivedByOriginator(s, m.uri, m)
    BY DEF receivedByOriginator
  <2> HIDE DEF r
  <2> QED
    BY <2>1, AnswerReceived DEF ReadableByOriginator
<1>2. r.is # "exception" /\ r.payload = payload
  <2> HIDE DEF r, made
  <2> QED
    BY <1>1
<1>3. told = IF r.is = "exception" THEN r
             ELSE IF (IF m.uri \in DOMAIN s.uris THEN construct(classes, s.uris[m.uri], r.payload) ELSE Raised) # Raised
             THEN IF m.uri \in DOMAIN s.uris THEN construct(classes, s.uris[m.uri], r.payload) ELSE Raised
             ELSE ApplicationError(m.uri, r.payload)
  BY DEF _exception_from_message
<1>4. told.is = "exception"
  BY ExceptionOfMessage
<1> HIDE DEF r
<1> QED
  BY <1>2, <1>3, <1>4

LEMMA MadeOf ==
    ASSUME NEW classes, NEW c, NEW payload, DOMAIN payload = {"args", "kwargs"},
           construct(classes, c, payload) # Raised
    PROVE  LET made == construct(classes, c, payload)
           IN  /\ made.class = c /\ made.uri = <<>> /\ made.payload.args = payload.args
               /\ classes[c].keeps => made.payload.kwargs = payload.kwargs
<1>1. construct(classes, c, payload)
          = exception(c, <<>>, IF classes[c].keeps THEN payload ELSE [payload EXCEPT !.kwargs = none])
  BY DEF construct
<1> DEFINE kept == IF classes[c].keeps THEN payload ELSE [payload EXCEPT !.kwargs = none]
<1>2. kept.args = payload.args /\ (classes[c].keeps => kept.kwargs = payload.kwargs)
  OBVIOUS
<1> HIDE DEF kept
<1>3. construct(classes, c, payload) = exception(c, <<>>, kept)
  BY <1>1 DEF kept
<1> QED
  BY <1>2, <1>3 DEF exception

LEMMA ApplicationErrorOf ==
    ASSUME NEW uri, NEW payload, DOMAIN payload = {"args", "kwargs"}, ApplicationError(uri, payload) # Raised
    PROVE  LET exc == ApplicationError(uri, payload)
           IN  /\ exc.class = "ApplicationError" /\ exc.uri = uri /\ exc.payload.args = payload.args
               /\ /\ Keywords(payload.kwargs)
                  /\ DOMAIN payload.kwargs \cap Popped = {}
                  => exc.payload.kwargs = payload.kwargs
<1> DEFINE kept == [payload EXCEPT !.kwargs = without(@, Popped)]
<1>1. kept.args = payload.args /\ kept.kwargs = without(payload.kwargs, Popped)
  OBVIOUS
<1>2. Keywords(payload.kwargs) /\ DOMAIN payload.kwargs \cap Popped = {}
          => without(payload.kwargs, Popped) = payload.kwargs
  BY DEF without, Keywords
<1> HIDE DEF kept
<1>3. ApplicationError(uri, payload) = exception("ApplicationError", uri, kept)
  BY DEF ApplicationError, kept
<1> QED
  BY <1>1, <1>2, <1>3 DEF exception

LEMMA PutIs ==
    ASSUME NEW f, NEW k, NEW v
    PROVE  DOMAIN put(f, k, v) = DOMAIN f \cup {k} /\ Keywords(put(f, k, v))
BY DEF put, Keywords

LEMMA ErrorsArriveThen ==
    ASSUME Exceptional, Passable, Intact, Sessions, ClassesDefined, Erred
    PROVE  ErrorsArrive
<1> DEFINE sr == session["responder"]
           so == session["originator"]
           tb == setup.traceback_app
           uri == error_uri(sr, x.end)
           payload == sent(x.end, tb)
           m == _message_from_exception(sr, x.end, tb)
           made == construct(Classes, so.uris[uri], payload)
<1>1. SUFFICES ASSUME KeysAgree, x.stable, x.invoked # Absent, x.end.is = "exception", x.told # Absent,
                      serializable(x.end.payload)
               PROVE  /\ x.told.is = "exception"
                      /\ DefinedAlike(x.end.class) /\ takes(x.end.class, payload) => x.told.class = x.end.class
                      /\ uri \notin DOMAIN so.uris => x.told.class = "ApplicationError" /\ x.told.uri = uri
                      /\ x.told.payload.args = payload.args
                      /\ x.told.class = "ApplicationError" \/ Classes[x.told.class].keeps =>
                            x.told.payload.kwargs = payload.kwargs
  BY DEF ErrorsArrive, sent
<1>2. x.end # Absent
  BY <1>1 DEF Intact, InOrder
<1>3. /\ x.end \in setup.exceptions /\ m # Raised /\ x.told # Raised
      /\ x.told = _exception_from_message(so, Classes, m)
  BY <1>1, <1>2 DEF Erred
<1>4. /\ m.uri = uri /\ carried(m) = payload
      /\ m.enc # Clear => /\ sr.codec # NoRing /\ m.enc.uri = uri
                          /\ m.enc.box = responderBox(sr.codec, uri) /\ m.enc.box # NoBox
  BY <1>3, MessageOfException
<1>5. box("originator", uri) = box("responder", uri)
  BY <1>1, <1>3, AgreedOn
<1> HIDE DEF uri, payload, m, made, tb
<1>6. ReadableByOriginator(so, m, m.uri)
  BY <1>4, <1>5, BoxesAre DEF ReadableByOriginator
<1>7. /\ DOMAIN x.end.payload = {"args", "kwargs"} /\ Keywords(x.end.payload.kwargs)
      /\ x.end.uri # <<>> => x.end.class = "ApplicationError"
  BY <1>3, ExceptionalEnd
<1>8. /\ DOMAIN payload = {"args", "kwargs"} /\ Keywords(payload.kwargs)
      /\ DOMAIN payload.kwargs \cap Popped = {}
  <2>1. DOMAIN x.end.payload.kwargs \cap Popped = {}
    BY <1>3 DEF Passable, Intact, Shape
  <2> DEFINE lines == [x.end.payload EXCEPT !.kwargs = put(@, "traceback", "lines")]
  <2>2. DOMAIN lines = {"args", "kwargs"} /\ lines.kwargs = put(x.end.payload.kwargs, "traceback", "lines")
    BY <1>7
  <2>3. /\ DOMAIN put(x.end.payload.kwargs, "traceback", "lines") = DOMAIN x.end.payload.kwargs \cup {"traceback"}
        /\ Keywords(put(x.end.payload.kwargs, "traceback", "lines"))
    BY PutIs
  <2>4. DOMAIN lines.kwargs \cap Popped = {} /\ Keywords(lines.kwargs)
    BY <2>1, <2>2, <2>3 DEF Popped
  <2>5. payload = IF tb THEN lines ELSE x.end.payload
    BY DEF payload, sent
  <2> HIDE DEF lines
  <2> QED
    BY <1>7, <2>1, <2>2, <2>4, <2>5
<1>9. /\ x.told.is = "exception"
      /\ uri \in DOMAIN so.uris /\ made # Raised => x.told = made
      /\ uri \notin DOMAIN so.uris \/ made = Raised => x.told = ApplicationError(uri, payload)
  BY <1>3, <1>4, <1>6, ErrorReceived DEF made
<1>10. CASE uri \in DOMAIN so.uris /\ made # Raised
  <2>1. /\ x.told.class = so.uris[uri] /\ x.told.payload.args = payload.args
        /\ Classes[so.uris[uri]].keeps => x.told.payload.kwargs = payload.kwargs
    BY <1>8, <1>9, <1>10, MadeOf DEF made
  <2>2. so.uris[uri] # "ApplicationError"
    BY <1>10 DEF ClassesDefined, Parties
  <2>3. DefinedAlike(x.end.class) => so.uris[uri] = x.end.class
    <3>1. SUFFICES ASSUME DefinedAlike(x.end.class) PROVE so.uris[uri] = x.end.class
      OBVIOUS
    <3>2. x.end.class \in DOMAIN sr.ecls /\ so.uris[sr.ecls[x.end.class][1]] = x.end.class
      BY <3>1 DEF DefinedAlike
    <3>3. x.end.uri = <<>>
      BY <1>7, <3>2 DEF ClassesDefined, Parties
    <3>4. uri = sr.ecls[x.end.class][1]
      BY <3>2, <3>3 DEF uri, error_uri
    <3> QED
      BY <3>2, <3>4
  <2> QED
    BY <1>9, <1>10, <2>1, <2>2, <2>3
<1>11. CASE uri \notin DOMAIN so.uris \/ made = Raised
  <2>1. /\ x.told.class = "ApplicationError" /\ x.told.uri = uri /\ x.told.payload.args = payload.args
        /\ x.told.payload.kwargs = payload.kwargs
    BY <1>3, <1>8, <1>9, <1>11, ApplicationErrorOf
  <2>2. ~(DefinedAlike(x.end.class) /\ takes(x.end.class, payload))
    <3>1. SUFFICES ASSUME DefinedAlike(x.end.class), takes(x.end.class, payload) PROVE FALSE
      OBVIOUS
    <3>2. /\ x.end.class \in DOMAIN sr.ecls /\ sr.ecls[x.end.class][1] \in DOMAIN so.uris
          /\ so.uris[sr.ecls[x.end.class][1]] = x.end.class
      BY <3>1 DEF DefinedAlike
    <3>3. x.end.uri = <<>>
      BY <1>7, <3>2 DEF ClassesDefined, Parties
    <3>4. uri = sr.ecls[x.end.class][1]
      BY <3>2, <3>3 DEF uri, error_uri
    <3>5. made # Raised
      BY <3>1, <3>2, <3>4 DEF made, takes
    <3> QED
      BY <1>11, <3>2, <3>4, <3>5
  <2> QED
    BY <1>9, <2>1, <2>2
<1> QED
  BY <1>10, <1>11

\* An exception arrives as one of its class, or as ApplicationError with its URI,
\* with its arguments, whoever decorates and defines what, and in whichever order.
THEOREM ExceptionsArrive ==
    ASSUME Exceptional, Passable, OwnClasses
    PROVE  ExchangeSpec => []ErrorsArrive
<1> DEFINE Inv == Intact /\ Sessions /\ ClassesDefined /\ Erred
<1>1. ExchangeInit => Inv
  <2>1. ExchangeInit => Erred
    BY DEF ExchangeInit, idle, Erred
  <2> QED
    BY <2>1, IntactInit, SessionsInit
<1>2. Inv /\ [ExchangeNext]_exchangeVars => Inv'
  <2>1. Inv => Shape
    BY DEF Intact
  <2> QED
    BY <2>1, IntactStep, SessionsStep, ErredStep
<1>3. Inv => ErrorsArrive
  BY ErrorsArriveThen
<1> QED
  BY <1>1, <1>2, <1>3, PTL DEF ExchangeSpec

-----------------------------------------------------------------------------
(* Sessions with the same keys understand each other.                      *)

\* KeysAgree says the same of the same sessions.
LEMMA AgreeingStill ==
    ASSUME setup' = setup, session' = session
    PROVE  KeysAgree' => KeysAgree
BY DEF KeysAgree, box

LEMMA ErrorUris ==
    ASSUME OwnErrors, Shape, ErrorsDefined, NEW exc \in setup.exceptions
    PROVE  error_uri(session["responder"], exc) \notin Failures
<1>1. setup \in Pairs /\ exc.uri \notin Failures
  BY DEF Shape, OwnErrors
<1>2. \A c \in DOMAIN session["responder"].ecls : session["responder"].ecls[c][1] \notin Failures
  BY DEF ErrorsDefined, Parties
<1>3. error("runtime_error") \notin Failures
  BY DEF error, Failures
<1> QED
  BY <1>1, <1>2, <1>3 DEF error_uri

LEMMA UndisturbedRequest ==
    ASSUME Intact, Undisturbed, call \/ publish
    PROVE  Undisturbed'
<1>1. PICK kind, type : Request(kind, type)
  BY DEF call, publish
<1>2. PICK uri, payload :
          LET enc == encodedFor("originator", uri, payload)
          IN  /\ uri \in setup.uris /\ sendable(enc, payload)
              /\ x' = [x EXCEPT !.is = kind, !.uri = uri, !.payload = payload,
                                !.out = Message(type, uri, enc, payload)]
  BY <1>1 DEF Request
<1> DEFINE enc == encodedFor("originator", uri, payload)
           m == Message(type, uri, enc, payload)
<1>3. enc # Raised /\ m.uri = uri /\ m.enc = enc
  BY <1>2, WireIs DEF sendable
<1>4. enc # Clear => enc.uri = uri /\ enc.box = box("originator", uri) /\ enc.box # NoBox
  BY <1>3, EncodedFields DEF Parties
<1> HIDE DEF enc
<1>5. x' = [x EXCEPT !.is = kind, !.uri = uri, !.payload = payload, !.out = m]
  BY <1>2 DEF enc
<1> HIDE DEF m
<1>6. x.is = "idle" /\ setup' = setup /\ session' = session /\ DOMAIN x = Fields
  BY <1>1 DEF Request, Intact, Shape
<1>7. /\ x'.uri = uri /\ x'.out = m /\ x'.in = x.in /\ x'.invocation = x.invocation
      /\ x'.back = x.back /\ x'.told = x.told
  BY <1>5, <1>6 DEF Fields
<1>8. x.in = Absent /\ x.invocation = Absent /\ x.back = <<>> /\ x.told = Absent
  BY <1>6 DEF Intact, InOrder
<1>9. m # Absent
  BY WireIs DEF m, Absent, MessageFields
<1>10. KeysAgree => ReadableByResponder(session["responder"], m, uri)
  <2>1. KeysAgree => box("originator", uri) = box("responder", uri)
    BY <1>2, AgreedOn
  <2> QED
    BY <1>3, <1>4, <2>1, BoxesAre DEF ReadableByResponder
<1> QED
  BY <1>2, <1>3, <1>6, <1>7, <1>8, <1>9, <1>10, AgreeingStill, Nothing DEF Undisturbed

LEMMA UndisturbedRoute ==
    ASSUME Intact, Undisturbed, Route
    PROVE  Undisturbed'
<1>1. PICK uri \in IF setup.misroutes THEN setup.uris ELSE {x.uri} :
          x' = [x EXCEPT !.out = Absent, !.in = [x.out EXCEPT !.uri = uri]]
  BY DEF Route
<1>2. x.out # Absent /\ setup' = setup /\ session' = session /\ DOMAIN x = Fields /\ DOMAIN x.out = MessageFields
  BY DEF Route, Intact, Shape, Kept, Requested
<1>3. /\ x'.out = Absent /\ x'.in = [x.out EXCEPT !.uri = uri] /\ x'.is = x.is /\ x'.stable = x.stable
      /\ x'.uri = x.uri /\ x'.invocation = x.invocation /\ x'.back = x.back /\ x'.told = x.told
      /\ x'.end = x.end /\ x'.invoked = x.invoked
  BY <1>1, <1>2 DEF Fields
<1>4. x'.in # Absent /\ x'.in.uri = uri /\ x'.in.enc = x.out.enc
  BY <1>2, <1>3 DEF MessageFields, Absent
<1>5. x.back = <<>> /\ x.told = Absent /\ x.in = Absent /\ x.is # "idle"
  BY <1>2 DEF Intact, InOrder
<1> QED
  BY <1>1, <1>2, <1>3, <1>4, <1>5, AgreeingStill, Nothing DEF Undisturbed, ReadableByResponder

\* The responder can read it.
LEMMA RequestRead ==
    ASSUME NEW s, NEW m, NEW uri, m.uri = uri, ReadableByResponder(s, m, uri)
    PROVE  LET r == receivedByResponder(s, m.uri, m)
           IN  r.is = "payload" /\ r # Absent
<1>1. receivedByResponder(s, m.uri, m) = receivedWith(s.codec, responderBox(s.codec, m.uri), m.uri, m)
  BY ReceivedByResponder DEF receivedByResponder
<1> QED
  BY <1>1, ReceivedIs DEF ReadableByResponder

LEMMA UndisturbedReceived ==
    ASSUME Intact, Undisturbed, OnInvocation \/ OnEvent
    PROVE  Undisturbed'
<1> DEFINE r == receivedByResponder(session["responder"], x.in.uri, x.in)
<1>1. /\ x.in # Absent /\ setup' = setup /\ session' = session /\ DOMAIN x = Fields
  BY DEF OnInvocation, OnEvent, Intact, Shape
<1>2. /\ x.out = Absent /\ x.invocation = Absent /\ x.back = <<>> /\ x.told = Absent /\ x.is # "idle"
  BY <1>1 DEF Intact, InOrder
<1>3. CASE ~(KeysAgree /\ x.stable /\ ~setup.misroutes)
  <2>1. x'.stable = x.stable
    <3>1. CASE OnInvocation
      BY <3>1, InvocationFields DEF Fields
    <3>2. CASE OnEvent
      BY <1>1, <3>2 DEF OnEvent, Fields
    <3> QED
      BY <3>1, <3>2
  <2> QED
    BY <1>1, <1>3, <2>1, AgreeingStill DEF Undisturbed
<1>4. CASE KeysAgree /\ x.stable /\ ~setup.misroutes
  <2>1. x.uri \in setup.uris /\ x.in.uri = x.uri /\ ReadableByResponder(session["responder"], x.in, x.uri)
    BY <1>1, <1>2, <1>4 DEF Undisturbed
  <2>2. r.is = "payload" /\ r # Absent
    BY <2>1, RequestRead
  <2>3. /\ x'.uri = x.uri /\ x'.in = Absent /\ x'.out = Absent /\ x'.invoked # Absent
        /\ x'.invocation # Absent => x'.invocation.uri = x.uri
        /\ x'.back = <<>> /\ x'.told = Absent
    <3>1. CASE OnInvocation
      BY <1>2, <2>1, <2>2, <3>1, InvocationFields DEF Fields, CalledFor
    <3>2. CASE OnEvent
      <4>1. x' = [x EXCEPT !.in = Absent, !.invoked = IF r.is = "payload" THEN Called(r) ELSE Absent]
        BY <3>2 DEF OnEvent, receivedRequest, receivedByResponder
      <4> HIDE DEF r
      <4>2. Called(r) # Absent
        <5>1. Called(r).is = "called" /\ Absent.is = "none"
          BY DEF Called, Absent
        <5> QED
          BY <5>1
      <4> QED
        BY <1>1, <1>2, <2>2, <4>1, <4>2 DEF Fields
    <3> QED
      BY <3>1, <3>2
  <2> QED
    BY <1>1, <2>1, <2>3, Nothing DEF Undisturbed
<1> QED
  BY <1>3, <1>4

\* The endpoint's end: what it sends can be read.
LEMMA UndisturbedEnded ==
    ASSUME Intact, Undisturbed, x.invocation # Absent, setup' = setup, session' = session,
           NEW end, NEW back, Ended(end, back),
           \A m \in ToSet(back) \ ToSet(x.back) : KeysAgree /\ ~setup.misroutes /\ x.invocation.uri = x.uri
                                                      /\ x.uri \in setup.uris =>
              /\ m.type = "Result" => ReadableByOriginator(session["originator"], m, x.uri)
              /\ m.type = "Error" =>
                    /\ ReadableByOriginator(session["originator"], m, m.uri) /\ m.uri \notin Failures
                    /\ ~(end.is = "payload" /\ serializable(end.payload))
    PROVE  Undisturbed'
<1>1. DOMAIN x = Fields /\ x.end = Absent /\ x.told = Absent /\ x.out = Absent /\ x.in = Absent /\ x.is # "idle"
  BY DEF Intact, Shape, InOrder
<1>2. /\ x'.invocation = Absent /\ x'.end = end /\ x'.back = back
      /\ x'.is = x.is /\ x'.stable = x.stable /\ x'.uri = x.uri /\ x'.out = Absent /\ x'.in = Absent
      /\ x'.invoked = x.invoked /\ x'.told = Absent
  BY <1>1 DEF Ended, Fields
<1>3. \A m \in ToSet(x.back) : m.type \notin {"Result", "Error"}
  BY <1>1 DEF Intact, Kept
<1>4. SUFFICES ASSUME KeysAgree, x.stable, ~setup.misroutes
               PROVE  Undisturbed'
  BY <1>2, AgreeingStill DEF Undisturbed
<1>5. x.uri \in setup.uris /\ x.invocation.uri = x.uri /\ x.invoked # Absent
  BY <1>1, <1>4 DEF Undisturbed
<1>6. \A m \in ToSet(back) :
          /\ m.type = "Result" => ReadableByOriginator(session["originator"], m, x.uri)
          /\ m.type = "Error" =>
                /\ ReadableByOriginator(session["originator"], m, m.uri) /\ m.uri \notin Failures
                /\ ~(end.is = "payload" /\ serializable(end.payload))
  BY <1>3, <1>4, <1>5
<1> QED
  BY <1>2, <1>5, <1>6 DEF Undisturbed

LEMMA UndisturbedReturns ==
    ASSUME Intact, Undisturbed, Returns
    PROVE  Undisturbed'
<1>1. DOMAIN x = Fields /\ x.invocation # Absent /\ setup' = setup /\ session' = session /\ IsSequence(x.back)
  BY DEF Returns, Intact, Shape
<1>2. PICK payload, enc, m :
          /\ Ended([is |-> "payload", payload |-> payload], Append(x.back, m))
          /\ \/ enc = Clear
             \/ /\ enc = encodedFor("responder", x.invocation.uri, payload)
                /\ enc # Raised /\ enc # Clear
          /\ \/ m.type = "Result" /\ m.enc = enc
             \/ ~serializable(payload) /\ m = invalid_payload
  BY <1>1, ReturnedFields
<1> DEFINE end == [is |-> "payload", payload |-> payload]
           back == Append(x.back, m)
<1>3. end.payload = payload
  OBVIOUS
<1>4. enc # Clear => /\ enc.uri = x.invocation.uri /\ enc.box # NoBox
                     /\ enc.box = box("responder", x.invocation.uri)
  BY <1>2, EncodedFields DEF Parties
<1>5. ToSet(back) = ToSet(x.back) \cup {m}
  BY <1>1, AppendedTo
<1> HIDE DEF end, back
<1>6. Ended(end, back)
  BY <1>2 DEF end, back
<1>7. ASSUME KeysAgree, x.invocation.uri = x.uri, x.uri \in setup.uris
      PROVE  /\ m.type = "Result" => ReadableByOriginator(session["originator"], m, x.uri)
             /\ m.type = "Error" =>
                   /\ ReadableByOriginator(session["originator"], m, m.uri) /\ m.uri \notin Failures
                   /\ ~(end.is = "payload" /\ serializable(end.payload))
  <2>1. box("originator", x.uri) = box("responder", x.uri)
    BY <1>7, AgreedOn
  <2>2. m.type = "Result" /\ m.enc = enc => ReadableByOriginator(session["originator"], m, x.uri)
    BY <1>4, <1>7, <2>1, BoxesAre DEF ReadableByOriginator
  <2>3. m = invalid_payload =>
            /\ m.type = "Error" /\ m.uri \notin Failures
            /\ ReadableByOriginator(session["originator"], m, m.uri)
    <3>1. error("invalid_payload") \notin Failures
      BY DEF Failures, error
    <3> QED
      BY <3>1, InvalidPayload DEF ReadableByOriginator
  <2> QED
    BY <1>2, <1>3, <2>2, <2>3
<1> QED
  BY <1>1, <1>5, <1>6, <1>7, UndisturbedEnded

LEMMA UndisturbedRaises ==
    ASSUME Exceptional, OwnErrors, Intact, ErrorsDefined, Undisturbed, Raises
    PROVE  Undisturbed'
<1>1. DOMAIN x = Fields /\ x.invocation # Absent /\ setup' = setup /\ session' = session /\ IsSequence(x.back)
  BY DEF Raises, Intact, Shape
<1>2. PICK exc \in setup.exceptions :
          \/ Ended(exc, x.back)
          \/ \E m : /\ Ended(exc, Append(x.back, m)) /\ endMessage(exc) # Raised /\ m.type = "Error"
                    /\ m = endMessage(exc) \/ m = invalid_payload
  BY <1>1, RaisedFields
<1>3. exc.is = "exception"
  BY ExceptionalEnd
<1>4. CASE Ended(exc, x.back)
  BY <1>1, <1>4, UndisturbedEnded
<1>5. CASE ~Ended(exc, x.back)
  <2>1. PICK m : /\ Ended(exc, Append(x.back, m)) /\ endMessage(exc) # Raised /\ m.type = "Error"
                 /\ m = endMessage(exc) \/ m = invalid_payload
    BY <1>2, <1>5
  <2> DEFINE back == Append(x.back, m)
             uri == error_uri(session["responder"], exc)
  <2>2. ToSet(back) = ToSet(x.back) \cup {m}
    BY <1>1, AppendedTo
  <2> HIDE DEF back, uri
  <2>3. Ended(exc, back)
    BY <2>1 DEF back
  <2>4. ASSUME KeysAgree
        PROVE  ReadableByOriginator(session["originator"], m, m.uri) /\ m.uri \notin Failures
    <3>1. CASE m = endMessage(exc)
      <4>1. /\ m.uri = uri
            /\ m.enc # Clear => /\ session["responder"].codec # NoRing /\ m.enc.uri = uri
                                /\ m.enc.box = responderBox(session["responder"].codec, uri) /\ m.enc.box # NoBox
        BY <2>1, <3>1, MessageOfException DEF endMessage, uri
      <4>2. box("originator", uri) = box("responder", uri)
        BY <2>4, AgreedOn DEF uri
      <4>3. uri \notin Failures
        BY ErrorUris DEF Intact, uri
      <4> QED
        BY <4>1, <4>2, <4>3, BoxesAre DEF ReadableByOriginator
    <3>2. CASE m = invalid_payload
      <4>1. error("invalid_payload") \notin Failures
        BY DEF Failures, error
      <4> QED
        BY <3>2, <4>1, InvalidPayload DEF ReadableByOriginator
    <3> QED
      BY <2>1, <3>1, <3>2
  <2> QED
    BY <1>1, <1>3, <2>1, <2>2, <2>3, <2>4, UndisturbedEnded
<1> QED
  BY <1>4, <1>5

LEMMA UndisturbedOnResult ==
    ASSUME Intact, Undisturbed, OnResult
    PROVE  Undisturbed'
<1> DEFINE m == Head(x.back)
           r == receivedByOriginator(session["originator"], x.uri, m)
<1>1. /\ Answered("Result") /\ setup' = setup /\ session' = session /\ x'.back = Tail(x.back) /\ x'.told = r
      /\ x'.is = x.is /\ x'.stable = x.stable /\ x'.uri = x.uri /\ x'.out = x.out /\ x'.in = x.in
      /\ x'.invocation = x.invocation /\ x'.invoked = x.invoked /\ x'.end = x.end
  BY ResultFields DEF Fields
<1>2. m \in ToSet(x.back) /\ m.type = "Result" /\ ToSet(x'.back) \subseteq ToSet(x.back)
  BY <1>1, Taken
<1>3. x.end = [is |-> "payload", payload |-> carried(m)]
  BY <1>2 DEF Intact, Kept
<1>4. KeysAgree /\ x.stable /\ ~setup.misroutes /\ x.is # "idle" => r = x.end /\ x.end.is = "payload"
  <2>1. SUFFICES ASSUME KeysAgree, x.stable, ~setup.misroutes, x.is # "idle" PROVE r = x.end /\ x.end.is = "payload"
    OBVIOUS
  <2>2. ReadableByOriginator(session["originator"], m, x.uri)
    BY <1>2, <2>1 DEF Undisturbed
  <2> QED
    BY <1>3, <2>2, AnswerReceived DEF ReadableByOriginator
<1> HIDE DEF m, r
<1> QED
  BY <1>1, <1>2, <1>4, AgreeingStill DEF Undisturbed

LEMMA UndisturbedOnError ==
    ASSUME Intact, Undisturbed, OnError
    PROVE  Undisturbed'
<1> DEFINE m == Head(x.back)
           told == _exception_from_message(session["originator"], Classes, m)
<1>1. /\ Answered("Error") /\ setup' = setup /\ session' = session /\ x'.back = Tail(x.back)
      /\ told = Raised => x'.told = x.told
      /\ told # Raised => x'.told = told
      /\ x'.is = x.is /\ x'.stable = x.stable /\ x'.uri = x.uri /\ x'.out = x.out /\ x'.in = x.in
      /\ x'.invocation = x.invocation /\ x'.invoked = x.invoked /\ x'.end = x.end
  BY ErrorFields DEF Fields
<1>2. m \in ToSet(x.back) /\ m.type = "Error" /\ ToSet(x'.back) \subseteq ToSet(x.back)
  BY <1>1, Taken
<1>3. ASSUME KeysAgree, x.stable, ~setup.misroutes, x.is # "idle", told # Raised
      PROVE  told.uri \notin Failures /\ ~(x.end.is = "payload" /\ serializable(x.end.payload))
  <2>1. /\ ReadableByOriginator(session["originator"], m, m.uri) /\ m.uri \notin Failures
        /\ ~(x.end.is = "payload" /\ serializable(x.end.payload))
    BY <1>2, <1>3 DEF Undisturbed
  <2> DEFINE made == construct(Classes, session["originator"].uris[m.uri], carried(m))
  <2>2. (told = made /\ made # Raised) \/ told = ApplicationError(m.uri, carried(m))
    BY <1>3, <2>1, ErrorReceived
  <2>3. made # Raised => made.uri = <<>>
    BY DEF construct, exception
  <2>4. ApplicationError(m.uri, carried(m)) # Raised => ApplicationError(m.uri, carried(m)).uri = m.uri
    BY DEF ApplicationError, exception
  <2>5. <<>> \notin Failures
    BY DEF Failures, error
  <2> HIDE DEF m, told, made
  <2> QED
    BY <1>3, <2>1, <2>2, <2>3, <2>4, <2>5
<1> HIDE DEF m, told
<1>4. CASE told = Raised
  BY <1>1, <1>2, <1>4, AgreeingStill DEF Undisturbed
<1>5. CASE told # Raised
  BY <1>1, <1>2, <1>3, <1>5, AgreeingStill DEF Undisturbed
<1> QED
  BY <1>4, <1>5

LEMMA UndisturbedStep ==
    ASSUME Exceptional, OwnErrors, Intact, ErrorsDefined, Undisturbed, [ExchangeNext]_exchangeVars
    PROVE  Undisturbed'
<1>1. CASE Elsewhere
  <2>1. x'.is = x.is /\ (x'.stable => x.is = "idle")
    BY <1>1, ChangesOnlySessions DEF Intact, Shape, Fields
  <2> QED
    BY <2>1 DEF Undisturbed
<1>2. CASE call \/ publish
  BY <1>2, UndisturbedRequest
<1>3. CASE Route
  BY <1>3, UndisturbedRoute
<1>4. CASE OnInvocation \/ OnEvent
  BY <1>4, UndisturbedReceived
<1>5. CASE Progress
  <2>1. PICK payload, enc :
            /\ sendable(enc, payload)
            /\ x' = [x EXCEPT !.progressed = Append(@, payload),
                              !.back = Append(@, Message("Progress", x.uri, enc, payload))]
    BY <1>5 DEF Progress
  <2> DEFINE m == Message("Progress", x.uri, enc, payload)
  <2>2. m.type = "Progress"
    BY WireIs
  <2> HIDE DEF m
  <2>3. x' = [x EXCEPT !.progressed = Append(@, payload), !.back = Append(@, m)]
    BY <2>1 DEF m
  <2>4. DOMAIN x = Fields /\ IsSequence(x.back) /\ setup' = setup /\ session' = session
    BY <1>5 DEF Progress, Intact, Shape
  <2>5. /\ x'.back = Append(x.back, m) /\ x'.is = x.is /\ x'.stable = x.stable /\ x'.uri = x.uri
        /\ x'.out = x.out /\ x'.in = x.in /\ x'.invocation = x.invocation /\ x'.invoked = x.invoked
        /\ x'.end = x.end /\ x'.told = x.told
    BY <2>3, <2>4 DEF Fields
  <2>6. ToSet(x'.back) = ToSet(x.back) \cup {m}
    BY <2>4, <2>5, AppendedTo
  <2> QED
    BY <2>2, <2>4, <2>5, <2>6, AgreeingStill DEF Undisturbed
<1>6. CASE Returns
  BY <1>6, UndisturbedReturns
<1>7. CASE Raises
  BY <1>7, UndisturbedRaises
<1>8. CASE OnProgress
  <2>1. /\ Answered("Progress") /\ setup' = setup /\ session' = session /\ x'.back = Tail(x.back)
        /\ x'.is = x.is /\ x'.stable = x.stable /\ x'.uri = x.uri
        /\ x'.out = x.out /\ x'.in = x.in /\ x'.invocation = x.invocation /\ x'.invoked = x.invoked
        /\ x'.end = x.end /\ x'.told = x.told
    BY <1>8, ProgressFields DEF Fields
  <2>2. ToSet(x'.back) \subseteq ToSet(x.back)
    BY <2>1, Taken
  <2> QED
    BY <2>1, <2>2, AgreeingStill DEF Undisturbed
<1>9. CASE OnResult
  BY <1>9, UndisturbedOnResult
<1>10. CASE OnError
  BY <1>10, UndisturbedOnError
<1>11. CASE UNCHANGED exchangeVars
  <2>1. x' = x /\ setup' = setup /\ session' = session
    BY <1>11 DEF exchangeVars
  <2> QED
    BY <2>1, AgreeingStill DEF Undisturbed
<1> QED
  BY <1>1, <1>2, <1>3, <1>4, <1>5, <1>6, <1>7, <1>8, <1>9, <1>10, <1>11 DEF ExchangeNext, Elsewhere

\* Sessions whose keyrings agree, however their keys are spread over prefixes,
\* never fail to decode: requests reach the handler and results the caller, unless
\* keys changed in the meantime or the router sent the request elsewhere.
THEOREM AgreeingSessionsWork ==
    ASSUME Exceptional, OwnErrors
    PROVE  ExchangeSpec => []AgreeingKeysWork
<1> DEFINE Inv == Intact /\ Sessions /\ ErrorsDefined /\ Undisturbed
<1>1. ExchangeInit => Inv
  <2>1. ExchangeInit => Undisturbed
    BY DEF ExchangeInit, idle, Undisturbed
  <2> QED
    BY <2>1, IntactInit, SessionsInit
<1>2. Inv /\ [ExchangeNext]_exchangeVars => Inv'
  <2>1. Inv => Shape
    BY DEF Intact
  <2> QED
    BY <2>1, IntactStep, SessionsStep, UndisturbedStep
<1>3. Inv => AgreeingKeysWork
  <2>1. SUFFICES ASSUME Inv, KeysAgree, x.stable, ~setup.misroutes
                 PROVE  /\ x.is # "idle" /\ x.out = Absent /\ x.in = Absent => x.invoked # Absent
                        /\ x.told # Absent /\ x.end.is = "payload" /\ serializable(x.end.payload) => x.told = x.end
                        /\ x.told # Absent /\ x.told.is = "exception" => x.told.uri \notin Failures
    BY DEF AgreeingKeysWork
  <2>2. x.is = "idle" => x.told = Absent
    BY <2>1 DEF Intact, InOrder
  <2> QED
    BY <2>1, <2>2 DEF Undisturbed
<1> QED
  BY <1>1, <1>2, <1>3, PTL DEF ExchangeSpec
=============================================================================
