------------------------- MODULE WampMessagesProofs -------------------------
(***************************************************************************)
(* Proofs about WampMessages: what an application may ask for arrives, and *)
(* what parse() accepts can be used and sent on, for any number of         *)
(* attributes, any timeouts and any garbled elements.                      *)
(*                                                                         *)
(* The tables of every class have a few properties (Tabled), each a look   *)
(* at the tables.  Of a class with these properties, and of a message with *)
(* values that parse() takes (Sendable), it is shown once for all that the *)
(* message survives marshal() and parse().  Messages made of options and   *)
(* messages that parse() has made are both Sendable.                       *)
(***************************************************************************)
EXTENDS WampMessages, TLAPS

Initial(c) == MESSAGE_TYPE_MAP[c].init
Taking(c) == MESSAGE_TYPE_MAP[c].takes
Omitted(c) == MESSAGE_TYPE_MAP[c].omits
layout(c) == MESSAGE_TYPE_MAP[c].layout
least(c) == MESSAGE_TYPE_MAP[c].layout.least
decoded(c, a, v) == code(MESSAGE_TYPE_MAP[c].reads, a, v)
encoded(c, a, v) == code(MESSAGE_TYPE_MAP[c].writes, a, v)
Elements(c) == Positioned(c) \ {"options"}

-----------------------------------------------------------------------------
(* What is true of the tables of every class.                              *)

\* Only options may be missing at the end.
Laid(c) ==
    /\ Len(Positions(c)) \in Nat
    /\ least(c) \in 1..Len(Positions(c))
    /\ \A i \in 1..Len(Positions(c)) : i > least(c) => Positions(c)[i] = "options"

\* An attribute has a position, a key or a place in the payload.
Keyed(c) ==
    /\ Attributes(c) = Elements(c) \cup DOMAIN Omitted(c) \cup (IF HasPayload(c) THEN Payload ELSE {})
    /\ DOMAIN Omitted(c) \cap (Positioned(c) \cup Payload) = {}
    /\ Positioned(c) \cap Payload = {}
    /\ "options" \notin Attributes(c)
    /\ DOMAIN Taking(c) = Attributes(c) \ (Payload \cup {"peer_cert"})
    /\ "peer_cert" \in Attributes(c) => c = "TransportDetails"
    /\ "peer_cert" \notin Positioned(c)
    /\ HasPayload(c) => Enc \subseteq DOMAIN Omitted(c)
    /\ ~HasPayload(c) => (Enc \cup Payload) \cap Attributes(c) = {}

\* Payloads are the same in all classes that have them, but for the text of PUBLISH.
Carrying(c) == HasPayload(c) =>
    /\ \A a \in {"payload"} \cup Enc : Initial(c)[a] = Payload_init[a]
    /\ \A a \in {"args", "kwargs"} : Payload_init[a] \subseteq Initial(c)[a]
    /\ \A a \in Enc : Taking(c)[a] = Enc_parse[a] /\ Omitted(c)[a] = {"none"}
    /\ bytes \subseteq layout(c).payload /\ layout(c).payload \subseteq opaque
    /\ layout(c).args \cup {"none"} = Initial(c).args
    /\ layout(c).kwargs \cup {"none"} = Initial(c).kwargs
    /\ c # "Publish" => layout(c).args = optional(list)
    /\ c = "Publish" => layout(c).args = list \cup opaque

\* A value that is left out is what the receiver makes of nothing.
Leaving(c) == \A a \in DOMAIN Omitted(c) :
    /\ Omitted(c)[a] # {} => "none" \in Initial(c)[a]
    /\ \A v \in Omitted(c)[a] : default(a, v) = v => Same(v, default(a, "none"))

\* Defaults are values of their attributes.
Defaults(c) == \A a \in Attributes(c) : \A v \in Initial(c)[a] : default(a, v) \in Initial(c)[a]

\* A value that is written is taken, and read as it was.
Sent(c, a, v) ==
    a \in DOMAIN Taking(c) /\ v \notin Omitted(c)[a] =>
      \/ encoded(c, a, v) \in Taking(c)[a] /\ decoded(c, a, encoded(c, a, v)) = v
      \/ c = "TransportDetails" /\ a = "channel_id" /\ v # "none"

\* What has been read, or has not been there, can be written again.
Reading(c) ==
    /\ \A a \in Elements(c) : \A v \in Taking(c)[a] : default(a, v) \in Taking(c)[a]
    /\ \A a \in DOMAIN Omitted(c) \cap DOMAIN Taking(c) : \A v \in Taking(c)[a] :
          decoded(c, a, v) \in Initial(c)[a] => Sent(c, a, default(a, decoded(c, a, v)))
    /\ \A a \in DOMAIN Omitted(c) : "none" \in Initial(c)[a] => Sent(c, a, default(a, "none"))

\* What is taken of an attribute is asserted of it.
Checking(c) == \A a \in Attributes(c) \ Unchecked(c) :
    /\ a \in Elements(c) => Taking(c)[a] \subseteq Initial(c)[a]
    /\ a \in DOMAIN Omitted(c) =>
          /\ "none" \in Initial(c)[a] \/ (a = "roles" /\ c \in {"Hello", "Welcome"})
          /\ a \in DOMAIN Taking(c) => \A v \in Taking(c)[a] : decoded(c, a, v) \in Initial(c)[a]
    /\ a = "payload" => layout(c).payload \subseteq bytes

\* What is required has a value to begin with.
Needing(c) == \A a \in Elements(c) : \E v \in {"one", "word", "roles"} : v \in Initial(c)[a]

\* The attributes that applications and routers give.
Plausible(c, a, v) ==
    /\ v \notin {"negative", "huge", "oddDict", "badRoles", "badHops"}
    /\ a \notin {"match", "invoke"} => v \notin match \cup {"single"}
    /\ v = "openEnd" => c = "Register" /\ a = "procedure"
    /\ v = "gap" => c \in {"Register", "Subscribe"} /\ a \in {"procedure", "topic"}
    /\ a \in {"realm", "reason", "error", "topic", "procedure"} /\ c # "SessionDetails"
          => v \notin {"emptyStr", "text"}
    /\ a \in Positioned(c) => v # "none"
    /\ a = "request_type" => v \in {"one", "word", "roles", "none"}

\* They can be written.
Writing(c) ==
    /\ \A a \in Elements(c) : \A v \in Initial(c)[a] :
          Plausible(c, a, v) => default(a, v) \in Taking(c)[a]
    /\ \A a \in DOMAIN Omitted(c) : \A v \in Initial(c)[a] :
          Plausible(c, a, v) => Sent(c, a, default(a, v))

Tabled(c) ==
    /\ Laid(c) /\ Keyed(c) /\ Carrying(c) /\ Needing(c)
    /\ Leaving(c) /\ Defaults(c) /\ Checking(c) /\ Reading(c) /\ Writing(c)

\* What only some classes have.
Particular ==
    /\ \A c \in {"Hello", "Welcome"} :
          /\ {"roles", "resume_token"} \subseteq DOMAIN Omitted(c)
          /\ {"roles", "resume_token"} \subseteq DOMAIN Taking(c)
          /\ Omitted(c).roles = {}
    /\ "resume_session" \in DOMAIN Omitted("Hello") \cap DOMAIN Taking("Hello")
    /\ {"authmethod", "authrole", "resumable"} \subseteq DOMAIN Omitted("Welcome") \cap DOMAIN Taking("Welcome")
    /\ Omitted("Hello").resume_token = {"none"}
    /\ Omitted("Welcome").resume_token = Falsy
    /\ "none" \in Initial("Welcome").authmethod
    /\ {"procedure", "match"} \subseteq Attributes("Register")
    /\ "procedure" \in Positioned("Register") /\ "match" \in DOMAIN Omitted("Register")
    /\ Initial("Register").match = optional(match)
    /\ Omitted("Register").match = {"none", "exact"}
    /\ "request" \in Positioned("Unsubscribed") /\ "request" \in Positioned("Unregistered")
    /\ "subscription" \in DOMAIN Omitted("Unsubscribed") /\ Omitted("Unsubscribed").subscription = {"none"}
    /\ "registration" \in DOMAIN Omitted("Unregistered") /\ Omitted("Unregistered").registration = {"none"}
    /\ {"channel_id", "peer_cert"} \subseteq DOMAIN Omitted("TransportDetails")

-----------------------------------------------------------------------------
(* What is sent is what is received.                                       *)

\* A message with values that a receiver takes.
Sendable(c, m) ==
    /\ DOMAIN m = Attributes(c)
    /\ consistent(c, m)
    /\ \A a \in Attributes(c) : m[a] \in Initial(c)[a] /\ default(a, m[a]) = m[a]
    /\ \A a \in Elements(c) : m[a] \in Taking(c)[a]
    /\ \A a \in DOMAIN Omitted(c) : Sent(c, a, m[a])
    /\ c = "Register" => m.procedure \in procedureUri(m.match)

Carries(w, c, m) == w.list = marshal(c, m).list /\ w.options = marshal(c, m).options

LEMMA TailIsSequence ==
  ASSUME NEW m
  PROVE  /\ tail(m) \in Seq({m.payload, m.args, m.kwargs})
         /\ m.payload \notin Falsy => Len(tail(m)) = 1 /\ tail(m)[1] = m.payload
         /\ m.payload \in Falsy /\ m.kwargs \notin Falsy =>
               Len(tail(m)) = 2 /\ tail(m)[1] = m.args /\ tail(m)[2] = m.kwargs
         /\ m.payload \in Falsy /\ m.kwargs \in Falsy /\ m.args \notin Falsy =>
               Len(tail(m)) = 1 /\ tail(m)[1] = m.args
         /\ m.payload \in Falsy /\ m.kwargs \in Falsy /\ m.args \in Falsy => Len(tail(m)) = 0
<1> HIDE DEF Falsy
<1>1. CASE m.payload \notin Falsy
  <2>1. tail(m) = <<m.payload>>
    BY <1>1 DEF tail
  <2> QED BY <1>1, <2>1
<1>2. CASE m.payload \in Falsy /\ m.kwargs \notin Falsy
  <2>1. tail(m) = <<m.args, m.kwargs>>
    BY <1>2 DEF tail
  <2> QED BY <1>2, <2>1
<1>3. CASE m.payload \in Falsy /\ m.kwargs \in Falsy /\ m.args \notin Falsy
  <2>1. tail(m) = <<m.args>>
    BY <1>3 DEF tail
  <2> QED BY <1>3, <2>1
<1>4. CASE m.payload \in Falsy /\ m.kwargs \in Falsy /\ m.args \in Falsy
  <2>1. tail(m) = <<>>
    BY <1>4 DEF tail
  <2> QED BY <1>4, <2>1
<1> QED BY <1>1, <1>2, <1>3, <1>4

\* The list and the options of a message.
LEMMA OnTheWire ==
  ASSUME NEW c, NEW m, NEW w, Laid(c), Carries(w, c, m)
  PROVE  LET n == Len(Positions(c)) IN
         /\ Len(w.list) \in Nat /\ least(c) <= Len(w.list)
         /\ \A i \in 1..n : i <= Len(w.list) =>
               w.list[i] = IF Positions(c)[i] = "options" THEN "dict" ELSE m[Positions(c)[i]]
         /\ HasPayload(c) =>
               /\ Len(w.list) = n + Len(tail(m))
               /\ \A i \in 1..Len(tail(m)) : w.list[n + i] = tail(m)[i]
         /\ ~HasPayload(c) => Len(w.list) <= n
         /\ DOMAIN w.options = written(c, m)
         /\ \A a \in written(c, m) : w.options[a] = encoded(c, a, m[a])
<1> DEFINE n == Len(Positions(c))
           head == [i \in 1..n |-> IF Positions(c)[i] = "options" THEN "dict" ELSE m[Positions(c)[i]]]
           S == {head[i] : i \in 1..n} \cup {m.payload, m.args, m.kwargs}
<1>1. /\ w.list = IF HasPayload(c) THEN head \o tail(m)
                  ELSE IF written(c, m) = {} THEN SubSeq(head, 1, least(c)) ELSE head
      /\ w.options = [a \in written(c, m) |-> encoded(c, a, m[a])]
  BY DEF Carries, marshal, least, encoded
<1>2. n \in Nat /\ least(c) \in 1..n
  BY DEF Laid
<1>3. head \in Seq(S) /\ Len(head) = n /\ \A i \in 1..n : head[i] = IF Positions(c)[i] = "options" THEN "dict" ELSE m[Positions(c)[i]]
  BY <1>2
<1>4. tail(m) \in Seq(S)
  <2>1. {m.payload, m.args, m.kwargs} \subseteq S
    OBVIOUS
  <2>2. tail(m) \in Seq({m.payload, m.args, m.kwargs})
    BY TailIsSequence
  <2> HIDE DEF S
  <2> QED BY <2>1, <2>2
<1> HIDE DEF n, head, S
<1>5. CASE HasPayload(c)
  <2>1. w.list = head \o tail(m)
    BY <1>1, <1>5
  <2>2. Len(tail(m)) \in Nat /\ Len(w.list) = n + Len(tail(m))
    <3>1. Len(tail(m)) \in Nat
      BY <1>4
    <3>2. Len(head \o tail(m)) = Len(head) + Len(tail(m))
      BY <1>3, <1>4
    <3> QED BY <1>3, <2>1, <3>1, <3>2
  <2>3. \A i \in 1..n : w.list[i] = head[i]
    BY <1>2, <1>3, <1>4, <2>1
  <2>4. \A i \in 1..Len(tail(m)) : w.list[n + i] = tail(m)[i]
    BY <1>2, <1>3, <1>4, <2>1
  <2> QED BY <1>1, <1>2, <1>3, <1>5, <2>2, <2>3, <2>4 DEF n
<1>6. CASE ~HasPayload(c) /\ written(c, m) = {}
  <2>1. w.list = SubSeq(head, 1, least(c))
    BY <1>1, <1>6
  <2>2. Len(w.list) = least(c) /\ \A i \in 1..least(c) : w.list[i] = head[i]
    BY <1>2, <1>3, <2>1
  <2> QED BY <1>1, <1>2, <1>3, <1>6, <2>2 DEF n
<1>7. CASE ~HasPayload(c) /\ written(c, m) # {}
  BY <1>1, <1>2, <1>3, <1>7 DEF n
<1> QED BY <1>5, <1>6, <1>7

IsList(l) == \E S : l \in Seq(S)

LEMMA MarshalledIsList ==
  ASSUME NEW c, NEW m, NEW w, Laid(c), Carries(w, c, m)
  PROVE  IsList(w.list)
<1> DEFINE n == Len(Positions(c))
           head == [i \in 1..n |-> IF Positions(c)[i] = "options" THEN "dict" ELSE m[Positions(c)[i]]]
           S == {head[i] : i \in 1..n} \cup {m.payload, m.args, m.kwargs}
<1>1. w.list = IF HasPayload(c) THEN head \o tail(m)
               ELSE IF written(c, m) = {} THEN SubSeq(head, 1, least(c)) ELSE head
  BY DEF Carries, marshal, least
<1>2. n \in Nat /\ least(c) \in 1..n
  BY DEF Laid
<1>3. head \in Seq(S) /\ Len(head) = n
  BY <1>2
<1>4. tail(m) \in Seq(S)
  <2>1. {m.payload, m.args, m.kwargs} \subseteq S
    OBVIOUS
  <2>2. tail(m) \in Seq({m.payload, m.args, m.kwargs})
    BY TailIsSequence
  <2> HIDE DEF S
  <2> QED BY <2>1, <2>2
<1> HIDE DEF n, head, S
<1>5. w.list \in Seq(S)
  <2>1. head \o tail(m) \in Seq(S)
    BY <1>3, <1>4
  <2>2. SubSeq(head, 1, least(c)) \in Seq(S)
    BY <1>2, <1>3
  <2> QED BY <1>1, <1>3, <2>1, <2>2
<1> QED BY <1>5 DEF IsList

\* A payload that is not empty is sent in transparent form, and found to be.
LEMMA TransparentIfSent ==
  ASSUME NEW c, NEW m, NEW w, Laid(c), Keyed(c), Carrying(c), Sendable(c, m), Carries(w, c, m),
         ~NotCarried(c, m)
  PROVE  transparent(c, w) <=> HasPayload(c) /\ m.payload \notin Falsy
<1> DEFINE n == Len(Positions(c))
<1>1. n \in Nat
  BY DEF Laid
<1>2. CASE ~HasPayload(c)
  BY <1>1, <1>2, OnTheWire DEF transparent
<1>3. CASE HasPayload(c)
  <2>1. m.payload \in optional(bytes) /\ m.args \in layout(c).args \cup {"none"}
    BY <1>3 DEF Sendable, Carrying, Keyed, Payload, Payload_init
  <2>2. Len(w.list) = n + Len(tail(m)) /\ \A i \in 1..Len(tail(m)) : w.list[n + i] = tail(m)[i]
    BY <1>3, OnTheWire
  <2>3. transparent(c, w) <=> Len(tail(m)) = 1 /\ w.list[n + 1] \in layout(c).payload
    <3>1. Len(tail(m)) \in Nat
      BY TailIsSequence
    <3>2. Len(w.list) = n + 1 <=> Len(tail(m)) = 1
      <4> DEFINE t == Len(tail(m))
      <4>1. t \in Nat /\ n \in Nat /\ Len(w.list) = n + t
        BY <1>1, <2>2, <3>1
      <4> HIDE DEF t, n
      <4>2. Len(w.list) = n + 1 <=> t = 1
        BY <4>1
      <4> QED BY <4>2 DEF t, n
    <3> QED BY <3>2 DEF transparent, layout
  <2>4. CASE m.payload \notin Falsy
    <3>1. Len(tail(m)) = 1 /\ tail(m)[1] = m.payload
      BY <2>4, TailIsSequence
    <3>2. m.payload \in bytes
      BY <2>1, <2>4 DEF optional, Falsy
    <3>3. w.list[n + 1] = m.payload
      BY <2>2, <3>1
    <3> QED BY <1>3, <2>3, <2>4, <3>1, <3>2, <3>3 DEF Carrying
  <2>5. CASE m.payload \in Falsy /\ Len(tail(m)) = 1
    <3>1. tail(m)[1] = m.args /\ m.args \notin Falsy /\ m.kwargs \in Falsy
      <4>1. m.kwargs \notin Falsy => Len(tail(m)) = 2
        BY <2>5, TailIsSequence
      <4>2. m.kwargs \in Falsy /\ m.args \in Falsy => Len(tail(m)) = 0
        BY <2>5, TailIsSequence
      <4>3. m.kwargs \in Falsy /\ m.args \notin Falsy
        BY <2>5, <4>1, <4>2
      <4> QED BY <2>5, <4>3, TailIsSequence
    <3>2. m.args \in list
      <4>1. CASE c = "Publish"
        <5>1. m.args \in list \cup opaque
          BY <1>3, <2>1, <3>1, <4>1 DEF Carrying, Falsy
        <5> QED BY <3>1, <4>1, <5>1 DEF NotCarried
      <4>2. CASE c # "Publish"
        BY <1>3, <2>1, <3>1, <4>2 DEF Carrying, optional, Falsy
      <4> QED BY <4>1, <4>2
    <3>3. list \cap opaque = {}
      BY DEF list, hops, opaque, str, uri, match, bytes
    <3>4. w.list[n + 1] = m.args
      BY <2>2, <2>5, <3>1
    <3> QED BY <1>3, <2>3, <2>5, <3>2, <3>3, <3>4 DEF Carrying
  <2> QED BY <2>3, <2>4, <2>5
<1> QED BY <1>2, <1>3

\* What parse() finds, by where it looks.
read(c, w, a) == IF a \in DOMAIN w.options \cap DOMAIN Taking(c)
                 THEN decoded(c, a, w.options[a]) ELSE "none"

LEMMA Found ==
  ASSUME NEW c, NEW w, Laid(c), Keyed(c)
  PROVE  LET n == Len(Positions(c))  m == found(c, w) IN
         /\ DOMAIN m = Attributes(c)
         /\ \A a \in Elements(c) : \E i \in 1..least(c) : Positions(c)[i] = a /\ m[a] = at(w, i)
         /\ HasPayload(c) =>
               /\ m.payload = IF transparent(c, w) THEN at(w, n + 1) ELSE "none"
               /\ m.args = IF transparent(c, w) THEN "none" ELSE at(w, n + 1)
               /\ m.kwargs = at(w, n + 2)
         /\ \A a \in DOMAIN Omitted(c) :
               m[a] = IF a \in Enc /\ ~transparent(c, w) THEN "none" ELSE read(c, w, a)
<1> DEFINE n == Len(Positions(c))
           m == found(c, w)
<1>1. m = [a \in Attributes(c) |->
    CASE a \in Positioned(c) -> at(w, CHOOSE i \in 1..n : Positions(c)[i] = a)
      [] a = "payload" -> IF transparent(c, w) THEN at(w, n + 1) ELSE "none"
      [] a = "args"    -> IF transparent(c, w) THEN "none" ELSE at(w, n + 1)
      [] a = "kwargs"  -> at(w, n + 2)
      [] a \in Enc /\ ~transparent(c, w) -> "none"
      [] OTHER -> read(c, w, a)]
  BY DEF found, read, decoded, Taking
<1>2. ASSUME NEW a \in Elements(c)
      PROVE  \E i \in 1..least(c) : Positions(c)[i] = a /\ m[a] = at(w, i)
  <2> DEFINE i == CHOOSE j \in 1..n : Positions(c)[j] = a
  <2>1. i \in 1..n /\ Positions(c)[i] = a
    BY DEF Elements, Positioned
  <2>2. i \in 1..least(c)
    <3> HIDE DEF i
    <3> QED BY <2>1 DEF Laid, Elements
  <2>3. a \in Positioned(c) /\ a \in Attributes(c) /\ a \notin Payload \cup Enc
    BY DEF Elements, Keyed
  <2>4. m[a] = at(w, i)
    <3> HIDE DEF i, m
    <3> QED BY <1>1, <2>3 DEF Payload, i
  <2> HIDE DEF i
  <2> QED BY <2>1, <2>2, <2>4
<1>3. ASSUME HasPayload(c)
      PROVE  /\ m.payload = IF transparent(c, w) THEN at(w, n + 1) ELSE "none"
             /\ m.args = IF transparent(c, w) THEN "none" ELSE at(w, n + 1)
             /\ m.kwargs = at(w, n + 2)
  <2>1. Payload \subseteq Attributes(c) /\ Payload \cap Positioned(c) = {}
    BY <1>3 DEF Keyed
  <2> HIDE DEF m, n
  <2> QED BY <1>1, <2>1 DEF Payload, Enc
<1>4. ASSUME NEW a \in DOMAIN Omitted(c)
      PROVE  m[a] = IF a \in Enc /\ ~transparent(c, w) THEN "none" ELSE read(c, w, a)
  <2>1. a \in Attributes(c) /\ a \notin Positioned(c) \cup Payload
    BY DEF Keyed
  <2> HIDE DEF m, n
  <2> QED BY <1>1, <2>1 DEF Payload
<1>5. DOMAIN m = Attributes(c)
  BY <1>1
<1> QED BY <1>2, <1>3, <1>4, <1>5

\* Of a message that is sent, parse() finds every attribute, or nothing where
\* it makes the same of that.
LEMMA FoundAsSent ==
  ASSUME NEW c, NEW m, NEW w, Tabled(c), Particular,
         Sendable(c, m), Carries(w, c, m), ~NotCarried(c, m)
  PROVE  /\ DOMAIN found(c, w) = Attributes(c)
         /\ \A a \in Elements(c) : found(c, w)[a] = m[a]
         /\ \A a \in DOMAIN Omitted(c) :
               \/ found(c, w)[a] = m[a] /\ (a \in written(c, m) \/ m[a] = "none")
               \/ /\ found(c, w)[a] = "none" /\ a \notin Enc
                  /\ m[a] \in Omitted(c)[a]
         /\ HasPayload(c) =>
               /\ m.payload \notin Falsy => found(c, w).payload = m.payload
               /\ m.payload \in Falsy => found(c, w).payload = "none"
               /\ found(c, w).args = m.args \/ (found(c, w).args = "none" /\ m.args \in Falsy)
               /\ found(c, w).kwargs = m.kwargs \/ (found(c, w).kwargs = "none" /\ m.kwargs \in Falsy)
<1> DEFINE n == Len(Positions(c))
           f == found(c, w)
<1> USE DEF Tabled
<1>1. ASSUME NEW a \in Elements(c)
      PROVE  f[a] = m[a]
  <2>1. PICK i \in 1..least(c) : Positions(c)[i] = a /\ f[a] = at(w, i)
    BY Found
  <2>2. i \in 1..n /\ i <= Len(w.list) /\ Positions(c)[i] # "options"
    BY <2>1, OnTheWire DEF Laid, Elements
  <2>3. w.list[i] = m[a]
    BY <2>1, <2>2, OnTheWire
  <2> QED BY <2>1, <2>2, <2>3 DEF at
<1>2. ASSUME HasPayload(c)
      PROVE  /\ m.payload \notin Falsy => f.payload = m.payload
             /\ m.payload \in Falsy => f.payload = "none"
             /\ f.args = m.args \/ (f.args = "none" /\ m.args \in Falsy)
             /\ f.kwargs = m.kwargs \/ (f.kwargs = "none" /\ m.kwargs \in Falsy)
  <2>1. /\ f.payload = IF transparent(c, w) THEN at(w, n + 1) ELSE "none"
        /\ f.args = IF transparent(c, w) THEN "none" ELSE at(w, n + 1)
        /\ f.kwargs = at(w, n + 2)
    BY <1>2, Found
  <2>2. /\ n \in Nat /\ Len(tail(m)) \in Nat /\ Len(w.list) = n + Len(tail(m))
        /\ \A i \in 1..Len(tail(m)) : w.list[n + i] = tail(m)[i]
    BY <1>2, OnTheWire, TailIsSequence DEF Laid
  <2>3. transparent(c, w) <=> m.payload \notin Falsy
    BY <1>2, TransparentIfSent
  <2> HIDE DEF n, f
  <2>4. CASE m.payload \notin Falsy
    <3>1. Len(tail(m)) = 1 /\ tail(m)[1] = m.payload
      BY <2>4, TailIsSequence
    <3>2. m.args = "none" /\ m.kwargs = "none"
      BY <1>2, <2>4 DEF Sendable, consistent, Falsy
    <3>3. w.list[n + 1] = m.payload
      BY <2>2, <3>1
    <3>4. at(w, n + 1) = m.payload /\ at(w, n + 2) = "none"
      BY <2>2, <3>1, <3>3 DEF at
    <3> QED BY <2>1, <2>3, <2>4, <3>2, <3>4
  <2>5. CASE m.payload \in Falsy /\ m.kwargs \notin Falsy
    <3>1. Len(tail(m)) = 2 /\ tail(m)[1] = m.args /\ tail(m)[2] = m.kwargs
      BY <2>5, TailIsSequence
    <3>2. w.list[n + 1] = m.args /\ w.list[n + 2] = m.kwargs
      BY <2>2, <3>1
    <3>3. at(w, n + 1) = m.args /\ at(w, n + 2) = m.kwargs
      BY <2>2, <3>1, <3>2 DEF at
    <3> QED BY <2>1, <2>3, <2>5, <3>3
  <2>6. CASE m.payload \in Falsy /\ m.kwargs \in Falsy /\ m.args \notin Falsy
    <3>1. Len(tail(m)) = 1 /\ tail(m)[1] = m.args
      BY <2>6, TailIsSequence
    <3>2. w.list[n + 1] = m.args
      BY <2>2, <3>1
    <3>3. at(w, n + 1) = m.args /\ at(w, n + 2) = "none"
      BY <2>2, <3>1, <3>2 DEF at
    <3> QED BY <2>1, <2>3, <2>6, <3>3
  <2>7. CASE m.payload \in Falsy /\ m.kwargs \in Falsy /\ m.args \in Falsy
    <3>1. Len(tail(m)) = 0
      BY <2>7, TailIsSequence
    <3>2. at(w, n + 1) = "none" /\ at(w, n + 2) = "none"
      BY <2>2, <3>1 DEF at
    <3> QED BY <2>1, <2>3, <2>7, <3>2
  <2> QED BY <2>4, <2>5, <2>6, <2>7
<1>3. ASSUME NEW a \in DOMAIN Omitted(c)
      PROVE  \/ f[a] = m[a] /\ (a \in written(c, m) \/ m[a] = "none")
             \/ f[a] = "none" /\ a \notin Enc /\ m[a] \in Omitted(c)[a]
  <2>1. f[a] = IF a \in Enc /\ ~transparent(c, w) THEN "none" ELSE read(c, w, a)
    BY Found
  <2>2. DOMAIN w.options = written(c, m) /\ \A b \in written(c, m) : w.options[b] = encoded(c, b, m[b])
    BY OnTheWire
  <2>3. /\ a \in Attributes(c)
        /\ a \in Enc => HasPayload(c) /\ Omitted(c)[a] = {"none"}
    BY DEF Keyed, Carrying
  <2>4. a \in Enc /\ ~transparent(c, w) => m[a] = "none"
    <3>1. SUFFICES ASSUME a \in Enc, ~transparent(c, w)
                   PROVE  m[a] = "none"
      OBVIOUS
    <3>2. HasPayload(c) /\ m.payload \in Falsy
      BY <2>3, <3>1, TransparentIfSent
    <3>3. m.payload \in optional(bytes)
      BY <3>2 DEF Sendable, Carrying, Keyed, Payload, Payload_init
    <3>4. m.payload \in {"none", "emptyBytes"}
      BY <3>2, <3>3 DEF optional, bytes, Falsy
    <3> QED BY <3>1, <3>2, <3>4 DEF NotCarried, Sendable, consistent
  <2>5. CASE a \in written(c, m) /\ ~(a \in Enc /\ ~transparent(c, w))
    <3>1. m[a] \notin Omitted(c)[a]
      BY <2>5 DEF written, Omitted
    <3>2. a = "peer_cert" => c = "TransportDetails" /\ m[a] = "none"
      BY <2>3 DEF Keyed, NotCarried
    <3>3. a \in DOMAIN Taking(c) => read(c, w, a) = decoded(c, a, encoded(c, a, m[a]))
      BY <2>2, <2>5 DEF read
    <3>4. a \in DOMAIN Taking(c) => decoded(c, a, encoded(c, a, m[a])) = m[a]
      BY <3>1 DEF Sendable, Sent, NotCarried
    <3>5. a \notin DOMAIN Taking(c) => a = "peer_cert"
      BY <2>3 DEF Keyed
    <3>6. a \notin DOMAIN Taking(c) => read(c, w, a) = "none"
      BY DEF read
    <3> QED BY <2>1, <2>5, <3>2, <3>3, <3>4, <3>5, <3>6
  <2>6. CASE a \notin written(c, m)
    <3>1. read(c, w, a) = "none"
      BY <2>2, <2>6 DEF read
    <3>2. \/ m[a] \in Omitted(c)[a]
          \/ a \in Enc /\ m.payload \in Falsy
          \/ c = "Welcome" /\ a = "authmethod" /\ m.authrole \in Falsy
      BY <2>6 DEF written, Omitted
    <3>3. a \in Enc /\ m.payload \in Falsy => ~transparent(c, w)
      BY <2>3, TransparentIfSent
    <3>4. c = "Welcome" /\ a = "authmethod" /\ m.authrole \in Falsy => m[a] = "none"
      BY DEF NotCarried
    <3> QED BY <2>1, <2>3, <2>4, <3>1, <3>2, <3>3, <3>4
  <2>7. CASE a \in Enc /\ ~transparent(c, w)
    BY <2>1, <2>4, <2>7
  <2> QED BY <2>5, <2>6, <2>7
<1> QED BY <1>1, <1>2, <1>3, Found

\* The checks of parse() let through what is sent.
LEMMA ChecksPass ==
  ASSUME NEW c, NEW m, NEW w, Tabled(c), Particular,
         Sendable(c, m), Carries(w, c, m), ~NotCarried(c, m)
  PROVE  /\ rightLength(c, w.list) /\ elementsTaken(c, w) /\ keysTaken(c, w)
         /\ elementsAgree(c, w, found(c, w))
<1> DEFINE n == Len(Positions(c))
           f == found(c, w)
<1> USE DEF Tabled
<1>1. /\ Len(w.list) \in Nat /\ least(c) <= Len(w.list)
      /\ \A i \in 1..n : i <= Len(w.list) =>
            w.list[i] = IF Positions(c)[i] = "options" THEN "dict" ELSE m[Positions(c)[i]]
      /\ HasPayload(c) =>
            /\ Len(w.list) = n + Len(tail(m))
            /\ \A i \in 1..Len(tail(m)) : w.list[n + i] = tail(m)[i]
      /\ ~HasPayload(c) => Len(w.list) <= n
      /\ DOMAIN w.options = written(c, m)
      /\ \A a \in written(c, m) : w.options[a] = encoded(c, a, m[a])
  BY OnTheWire
<1>2. n \in Nat /\ least(c) \in Nat
  BY DEF Laid
<1>3. Len(tail(m)) \in {0, 1, 2}
  BY TailIsSequence
<1>4. transparent(c, w) <=> HasPayload(c) /\ m.payload \notin Falsy
  BY TransparentIfSent
<1>5. rightLength(c, w.list)
  <2>1. CASE HasPayload(c)
    <3>1. Len(w.list) <= n + 2
      <4>1. Len(w.list) = n + Len(tail(m))
        BY <1>1, <2>1
      <4> DEFINE t == Len(tail(m))
      <4>2. n \in Nat /\ t \in {0, 1, 2}
        BY <1>2, <1>3
      <4> HIDE DEF n, t
      <4>3. n + t <= n + 2
        BY <4>2
      <4> QED BY <4>1, <4>3 DEF t
    <3> QED BY <1>1, <2>1, <3>1 DEF rightLength, least
  <2>2. CASE ~HasPayload(c)
    <3>1. Len(w.list) <= n + 0
      BY <1>1, <1>2, <2>2
    <3> QED BY <1>1, <2>2, <3>1 DEF rightLength, least
  <2> QED BY <2>1, <2>2
<1>6. elementsTaken(c, w)
  <2> SUFFICES ASSUME NEW i \in 1..Len(w.list)
               PROVE  IF i <= n
                      THEN w.list[i] \in IF Positions(c)[i] = "options" THEN extra
                                         ELSE Taking(c)[Positions(c)[i]]
                      ELSE \/ transparent(c, w)
                           \/ w.list[i] \in IF i = n + 1 THEN layout(c).args ELSE layout(c).kwargs
    BY DEF elementsTaken, Taking, layout
  <2>1. CASE i <= n
    <3>1. i \in 1..n /\ w.list[i] = IF Positions(c)[i] = "options" THEN "dict" ELSE m[Positions(c)[i]]
      BY <1>1, <1>2, <2>1
    <3>2. Positions(c)[i] # "options" => Positions(c)[i] \in Elements(c)
      BY <3>1 DEF Elements, Positioned
    <3>3. "dict" \in extra
      BY DEF extra
    <3> QED BY <2>1, <3>1, <3>2, <3>3 DEF Sendable
  <2>2. CASE i > n /\ ~transparent(c, w)
    <3>1. HasPayload(c) /\ m.payload \in Falsy
      BY <1>1, <1>2, <1>4, <2>2
    <3>2. PICK j \in 1..Len(tail(m)) : i = n + j
      <4>1. i - n \in 1..Len(tail(m)) /\ i = n + (i - n)
        BY <1>1, <1>2, <1>3, <2>2, <3>1
      <4> QED BY <4>1
    <3>3. w.list[i] = tail(m)[j]
      BY <1>1, <3>1, <3>2
    <3>4. m.args \in layout(c).args \cup {"none"} /\ m.kwargs \in layout(c).kwargs \cup {"none"}
      BY <3>1 DEF Sendable, Carrying, Keyed, Payload
    <3>5. CASE m.kwargs \notin Falsy
      <4>1. Len(tail(m)) = 2 /\ tail(m)[1] = m.args /\ tail(m)[2] = m.kwargs
        BY <3>1, <3>5, TailIsSequence
      <4>2. c = "Publish" => m.args # "none"
        BY <3>5 DEF NotCarried
      <4>3. m.args \in layout(c).args
        BY <3>1, <3>4, <4>2 DEF Carrying, optional
      <4>4. m.kwargs \in layout(c).kwargs
        BY <3>4, <3>5 DEF Falsy
      <4>5. j = 1 \/ j = 2
        BY <4>1
      <4> QED BY <1>2, <2>2, <3>2, <3>3, <4>1, <4>3, <4>4, <4>5
    <3>6. CASE m.kwargs \in Falsy
      <4>1. Len(tail(m)) = 1 /\ tail(m)[1] = m.args /\ m.args \notin Falsy
        <5>1. m.args \in Falsy => Len(tail(m)) = 0
          BY <3>1, <3>6, TailIsSequence
        <5>2. m.args \notin Falsy
          BY <3>2, <5>1
        <5> QED BY <3>1, <3>6, <5>2, TailIsSequence
      <4>2. m.args \in layout(c).args
        BY <3>4, <4>1 DEF Falsy
      <4>3. j = 1 /\ i = n + 1
        BY <1>2, <3>2, <4>1
      <4> QED BY <1>2, <2>2, <3>1, <3>3, <4>1, <4>2, <4>3 DEF Carrying
    <3> QED BY <3>5, <3>6
  <2> QED BY <1>1, <1>2, <2>1, <2>2
<1>7. keysTaken(c, w)
  <2> SUFFICES ASSUME NEW a \in (DOMAIN w.options \cap DOMAIN Taking(c)) \ Positioned(c),
                      a \in Enc => transparent(c, w)
               PROVE  w.options[a] \in Taking(c)[a]
    BY DEF keysTaken, Taking
  <2>1. a \in written(c, m) /\ a \in DOMAIN Omitted(c) /\ m[a] \notin Omitted(c)[a]
    BY <1>1 DEF written, Omitted
  <2>2. encoded(c, a, m[a]) \in Taking(c)[a]
    BY <2>1 DEF Sendable, Sent, NotCarried
  <2> QED BY <1>1, <2>1, <2>2
<1>8. elementsAgree(c, w, f)
  <2>1. /\ \A a \in Elements(c) : f[a] = m[a]
        /\ \A a \in DOMAIN Omitted(c) :
              \/ f[a] = m[a] /\ (a \in written(c, m) \/ m[a] = "none")
              \/ f[a] = "none" /\ m[a] \in Omitted(c)[a]
    BY FoundAsSent
  <2>2. c \in {"Hello", "Welcome"} => "roles" \in DOMAIN w.options
    BY <1>1 DEF Particular, written, Omitted, Enc
  <2>3. c = "Hello" /\ f.resume_session \notin Falsy => "resume_token" \in DOMAIN w.options
    <3>1. SUFFICES ASSUME c = "Hello", f.resume_session \notin Falsy
                   PROVE  "resume_token" \in DOMAIN w.options
      OBVIOUS
    <3>2. f.resume_session = m.resume_session
      BY <2>1, <3>1 DEF Particular, Falsy
    <3>3. m.resume_token # "none"
      BY <3>1, <3>2 DEF NotCarried
    <3> QED BY <1>1, <3>1, <3>3 DEF Particular, written, Omitted, Enc
  <2>4. c = "Welcome" /\ f.resumable = "true" => "resume_token" \in DOMAIN w.options
    <3>1. SUFFICES ASSUME c = "Welcome", f.resumable = "true"
                   PROVE  "resume_token" \in DOMAIN w.options
      OBVIOUS
    <3>2. m.resumable = "true"
      BY <2>1, <3>1 DEF Particular
    <3>3. m.resume_token \notin Falsy
      BY <3>1, <3>2 DEF NotCarried
    <3> QED BY <1>1, <3>1, <3>3 DEF Particular, written, Omitted, Enc
  <2>5. c = "Register" => f.procedure \in procedureUri(f.match)
    <3>1. SUFFICES ASSUME c = "Register"
                   PROVE  f.procedure \in procedureUri(f.match)
      OBVIOUS
    <3>2. f.procedure = m.procedure /\ m.procedure \in procedureUri(m.match)
      BY <2>1, <3>1 DEF Particular, Elements, Sendable
    <3>3. "match" \in DOMAIN Omitted(c) /\ Omitted(c)["match"] = {"none", "exact"}
      BY <3>1 DEF Particular
    <3>4. f.match = m.match \/ (f.match = "none" /\ m.match \in {"none", "exact"})
      BY <2>1, <3>3
    <3> QED BY <3>2, <3>4 DEF procedureUri
  <2> QED BY <2>2, <2>3, <2>4, <2>5 DEF elementsAgree
<1> QED BY <1>5, <1>6, <1>7, <1>8

\* What is sent is accepted, as it is.
LEMMA RoundTrip ==
  ASSUME NEW c, NEW m, NEW w, Tabled(c), Particular,
         Sendable(c, m), Carries(w, c, m), ~NotCarried(c, m)
  PROVE  /\ parse(c, w).is = "message"
         /\ \A a \in Attributes(c) : Same(m[a], parse(c, w).m[a])
<1> DEFINE f == found(c, w)
<1> USE DEF Tabled
<1>1. /\ \A a \in Elements(c) : f[a] = m[a]
      /\ \A a \in DOMAIN Omitted(c) :
            \/ f[a] = m[a] /\ (a \in written(c, m) \/ m[a] = "none")
            \/ f[a] = "none" /\ a \notin Enc /\ m[a] \in Omitted(c)[a]
      /\ HasPayload(c) =>
            /\ m.payload \notin Falsy => f.payload = m.payload
            /\ m.payload \in Falsy => f.payload = "none"
            /\ f.args = m.args \/ (f.args = "none" /\ m.args \in Falsy)
            /\ f.kwargs = m.kwargs \/ (f.kwargs = "none" /\ m.kwargs \in Falsy)
  BY FoundAsSent
<1>2. parse(c, w) = constructed(c, f)
  BY ChecksPass DEF parse
<1>3. \A a \in Attributes(c) :
         a \in Elements(c) \/ a \in DOMAIN Omitted(c) \/ (HasPayload(c) /\ a \in Payload)
  <2>1. CASE HasPayload(c)
    BY <2>1 DEF Keyed
  <2>2. CASE ~HasPayload(c)
    BY <2>2 DEF Keyed
  <2> QED BY <2>1, <2>2
<1>4. HasPayload(c) => /\ "none" \in Initial(c)["payload"] /\ "none" \in Initial(c)["args"]
                       /\ "none" \in Initial(c)["kwargs"]
  BY DEF Carrying, Payload, Payload_init, optional
<1>5. \A a \in Attributes(c) : f[a] \in Initial(c)[a]
  <2> SUFFICES ASSUME NEW a \in Attributes(c) PROVE f[a] \in Initial(c)[a]
    OBVIOUS
  <2>1. m[a] \in Initial(c)[a]
    BY DEF Sendable
  <2>2. a \in Elements(c) => f[a] \in Initial(c)[a]
    BY <1>1, <2>1
  <2>3. a \in DOMAIN Omitted(c) => f[a] \in Initial(c)[a]
    BY <1>1, <2>1 DEF Leaving
  <2>4. HasPayload(c) /\ a \in Payload => f[a] \in Initial(c)[a]
    BY <1>1, <1>4, <2>1 DEF Payload
  <2> QED BY <1>3, <2>2, <2>3, <2>4
<1>6. \A a \in Attributes(c) : Same(m[a], default(a, f[a]))
  <2> SUFFICES ASSUME NEW a \in Attributes(c) PROVE Same(m[a], default(a, f[a]))
    OBVIOUS
  <2>1. default(a, m[a]) = m[a]
    BY DEF Sendable
  <2>2. a \in Elements(c) => Same(m[a], default(a, f[a]))
    BY <1>1, <2>1 DEF Same
  <2>3. a \in DOMAIN Omitted(c) => Same(m[a], default(a, f[a]))
    BY <1>1, <2>1 DEF Leaving, Same
  <2>4. HasPayload(c) /\ a \in Payload => Same(m[a], default(a, f[a]))
    BY <1>1, <2>1 DEF Payload, default, Same
  <2> QED BY <1>3, <2>2, <2>3, <2>4
<1>7. consistent(c, f)
  <2>1. ASSUME HasPayload(c)
        PROVE  /\ f.payload # "none" => f.args = "none" /\ f.kwargs = "none"
               /\ \/ \A a \in Enc : f[a] = "none"
                  \/ f.payload # "none" /\ f.enc_algo # "none"
    <3>1. /\ m.payload # "none" => m.args = "none" /\ m.kwargs = "none"
          /\ \/ \A a \in Enc : m[a] = "none"
             \/ m.payload # "none" /\ m.enc_algo # "none"
      BY <2>1 DEF Sendable, consistent
    <3>2. \A a \in Enc : f[a] = m[a]
      BY <1>1, <2>1 DEF Keyed
    <3>3. m.payload \in Falsy => m.payload \in {"none", "emptyBytes"}
      BY <2>1 DEF Sendable, Carrying, Keyed, Payload, Payload_init, optional, bytes, Falsy
    <3>4. m.payload = "emptyBytes" => m.enc_algo = "none"
      BY <2>1 DEF NotCarried
    <3>5. "enc_algo" \in Enc /\ "none" \in Falsy
      BY DEF Enc, Falsy
    <3> QED BY <1>1, <2>1, <3>1, <3>2, <3>3, <3>4, <3>5
  <2>2. c = "Unsubscribed" => f.request = m.request /\ f.subscription = m.subscription
    BY <1>1 DEF Particular, Elements
  <2>3. c = "Unregistered" => f.request = m.request /\ f.registration = m.registration
    BY <1>1 DEF Particular, Elements
  <2> QED BY <2>1, <2>2, <2>3 DEF Sendable, consistent
<1>8. constructed(c, f) = [is |-> "message", m |-> [a \in Attributes(c) |-> default(a, f[a])]]
  BY <1>5, <1>7 DEF constructed, Initial
<1> QED BY <1>2, <1>6, <1>8

-----------------------------------------------------------------------------
(* What is accepted can be sent on.                                        *)

LEMMA ConsistentWithDefaults ==
  ASSUME NEW c, NEW f, Keyed(c), Particular, consistent(c, f), DOMAIN f = Attributes(c)
  PROVE  consistent(c, [a \in Attributes(c) |-> default(a, f[a])])
<1> DEFINE m == [a \in Attributes(c) |-> default(a, f[a])]
<1>1. \A a \in Attributes(c) : a \notin {"match", "invoke", "extra"} => m[a] = f[a]
  BY DEF default
<1>2. ASSUME HasPayload(c)
      PROVE  /\ m.payload = f.payload /\ m.args = f.args /\ m.kwargs = f.kwargs
             /\ \A a \in Enc : m[a] = f[a]
             /\ m.enc_algo = f.enc_algo
  <2>1. Payload \cup Enc \subseteq Attributes(c)
    BY <1>2 DEF Keyed
  <2> HIDE DEF m
  <2> QED BY <1>1, <2>1 DEF Payload, Enc
<1>3. c = "Unsubscribed" => m.request = f.request /\ m.subscription = f.subscription
  <2>1. c = "Unsubscribed" => "request" \in Attributes(c) /\ "subscription" \in Attributes(c)
    BY DEF Particular, Keyed, Elements
  <2> HIDE DEF m
  <2> QED BY <1>1, <2>1
<1>4. c = "Unregistered" => m.request = f.request /\ m.registration = f.registration
  <2>1. c = "Unregistered" => "request" \in Attributes(c) /\ "registration" \in Attributes(c)
    BY DEF Particular, Keyed, Elements
  <2> HIDE DEF m
  <2> QED BY <1>1, <2>1
<1> HIDE DEF m
<1>5. consistent(c, m)
  BY <1>2, <1>3, <1>4 DEF consistent
<1> QED BY <1>5 DEF m

\* Defaults are defaults of themselves.
LEMMA DefaultTwice == \A a, v : default(a, default(a, v)) = default(a, v)
  BY DEF default, Falsy

LEMMA AcceptedIsSendable ==
  ASSUME NEW c, NEW w, Tabled(c), Particular, Len(w.list) \in Nat, parse(c, w).is = "message"
  PROVE  Sendable(c, parse(c, w).m)
<1> DEFINE f == found(c, w)
           m == [a \in Attributes(c) |-> default(a, f[a])]
<1> USE DEF Tabled
<1>1. /\ rightLength(c, w.list) /\ elementsTaken(c, w) /\ keysTaken(c, w) /\ elementsAgree(c, w, f)
      /\ parse(c, w) = constructed(c, f)
  BY DEF parse, Rejected
<1>2. /\ consistent(c, f) /\ \A a \in Attributes(c) : f[a] \in Initial(c)[a]
      /\ parse(c, w).m = m
  BY <1>1 DEF constructed, AssertionError, Initial
<1>3. /\ DOMAIN f = Attributes(c)
      /\ \A a \in Elements(c) : \E i \in 1..least(c) : Positions(c)[i] = a /\ f[a] = at(w, i)
      /\ \A a \in DOMAIN Omitted(c) :
            f[a] = IF a \in Enc /\ ~transparent(c, w) THEN "none" ELSE read(c, w, a)
  BY Found
<1>4. DOMAIN m = Attributes(c) /\ consistent(c, m)
  BY <1>2, <1>3, ConsistentWithDefaults
<1>5. \A a \in Attributes(c) : m[a] = default(a, f[a]) /\ m[a] \in Initial(c)[a] /\ default(a, m[a]) = m[a]
  BY <1>2, DefaultTwice DEF Defaults
<1>6. ASSUME NEW a \in Elements(c)
      PROVE  m[a] \in Taking(c)[a]
  <2>1. PICK i \in 1..least(c) : Positions(c)[i] = a /\ f[a] = at(w, i)
    BY <1>3
  <2>2. i \in 1..Len(Positions(c)) /\ i \in 1..Len(w.list) /\ Positions(c)[i] # "options"
    BY <1>1, <2>1 DEF Laid, rightLength, least, Elements
  <2>3. w.list[i] \in Taking(c)[a]
    BY <1>1, <2>1, <2>2 DEF elementsTaken, Taking
  <2>4. f[a] \in Taking(c)[a]
    BY <2>1, <2>2, <2>3 DEF at
  <2>5. a \in Attributes(c)
    BY DEF Keyed
  <2> HIDE DEF m, f
  <2> QED BY <1>5, <2>4, <2>5 DEF Reading
<1>7. ASSUME NEW a \in DOMAIN Omitted(c)
      PROVE  Sent(c, a, m[a])
  <2>1. a \in Attributes(c) /\ a \notin Positioned(c)
    BY DEF Keyed
  <2>2. CASE f[a] = "none"
    <3>1. "none" \in Initial(c)[a] /\ m[a] = default(a, "none")
      BY <1>2, <1>5, <2>1, <2>2
    <3> QED BY <3>1 DEF Reading
  <2>3. CASE f[a] # "none"
    <3>1. ~(a \in Enc /\ ~transparent(c, w)) /\ f[a] = read(c, w, a)
      BY <1>3, <2>3
    <3>2. a \in DOMAIN w.options \cap DOMAIN Taking(c) /\ f[a] = decoded(c, a, w.options[a])
      BY <2>3, <3>1 DEF read
    <3>3. w.options[a] \in Taking(c)[a]
      BY <1>1, <2>1, <3>1, <3>2 DEF keysTaken, Taking
    <3>4. decoded(c, a, w.options[a]) \in Initial(c)[a] /\ m[a] = default(a, decoded(c, a, w.options[a]))
      BY <1>2, <1>5, <2>1, <3>2
    <3> QED BY <3>2, <3>3, <3>4 DEF Reading
  <2> QED BY <2>2, <2>3
<1>8. c = "Register" => m.procedure \in procedureUri(m.match)
  <2>1. SUFFICES ASSUME c = "Register"
                 PROVE  m.procedure \in procedureUri(m.match)
    OBVIOUS
  <2>2. {"procedure", "match"} \subseteq Attributes(c) /\ Initial(c)["match"] = optional(match)
    BY <2>1 DEF Particular
  <2>3. m.procedure = default("procedure", f.procedure) /\ m.match = default("match", f.match)
    BY <1>5, <2>2
  <2>4. m.procedure = f.procedure
    BY <2>3 DEF default
  <2>5. f.match \in optional(match)
    BY <1>2, <2>2
  <2>6. m.match = f.match \/ (f.match = "none" /\ m.match = "exact")
    BY <2>3, <2>5 DEF default, optional, match, Falsy
  <2>7. f.procedure \in procedureUri(f.match)
    BY <1>1, <2>1 DEF elementsAgree
  <2> QED BY <2>4, <2>6, <2>7 DEF procedureUri
<1> HIDE DEF m
<1>9. Sendable(c, m)
  BY <1>4, <1>5, <1>6, <1>7, <1>8 DEF Sendable
<1> QED BY <1>2, <1>9

\* What is not refused is asserted, as far as it is checked.
LEMMA NotRefused ==
  ASSUME NEW c, NEW w, Tabled(c), Particular, Len(w.list) \in Nat, parse(c, w) # Rejected
  PROVE  \A a \in Attributes(c) \ Unchecked(c) : found(c, w)[a] \in Initial(c)[a]
<1> DEFINE n == Len(Positions(c))
           f == found(c, w)
<1>1. rightLength(c, w.list) /\ elementsTaken(c, w) /\ keysTaken(c, w) /\ elementsAgree(c, w, f)
  BY DEF parse
<1> Laid(c) /\ Keyed(c)
  BY DEF Tabled
<1>2. /\ \A a \in Elements(c) : \E i \in 1..least(c) : Positions(c)[i] = a /\ f[a] = at(w, i)
      /\ HasPayload(c) =>
            /\ f.payload = IF transparent(c, w) THEN at(w, n + 1) ELSE "none"
            /\ f.args = IF transparent(c, w) THEN "none" ELSE at(w, n + 1)
            /\ f.kwargs = at(w, n + 2)
      /\ \A a \in DOMAIN Omitted(c) :
            f[a] = IF a \in Enc /\ ~transparent(c, w) THEN "none" ELSE read(c, w, a)
  BY Found
<1> USE DEF Tabled
<1> SUFFICES ASSUME NEW a \in Attributes(c) \ Unchecked(c) PROVE f[a] \in Initial(c)[a]
  OBVIOUS
<1> HIDE DEF f
<1>3. CASE a \in Elements(c)
  <2>1. PICK i \in 1..least(c) : Positions(c)[i] = a /\ f[a] = at(w, i)
    BY <1>2, <1>3
  <2>2. i \in 1..Len(Positions(c)) /\ i \in 1..Len(w.list) /\ Positions(c)[i] # "options"
    BY <1>1, <1>3, <2>1 DEF Laid, rightLength, least, Elements
  <2>3. w.list[i] \in Taking(c)[a]
    BY <1>1, <2>1, <2>2 DEF elementsTaken, Taking
  <2> QED BY <1>3, <2>1, <2>2, <2>3 DEF at, Checking
<1>4. CASE a \in DOMAIN Omitted(c)
  <2>1. a \notin Enc /\ f[a] = read(c, w, a) /\ a \notin Positioned(c)
    BY <1>2, <1>4 DEF Unchecked, Keyed
  <2>2. CASE a \in DOMAIN w.options \cap DOMAIN Taking(c)
    <3>1. w.options[a] \in Taking(c)[a]
      BY <1>1, <2>1, <2>2 DEF keysTaken, Taking
    <3> QED BY <1>4, <2>1, <2>2, <3>1 DEF read, Checking
  <2>3. CASE a \notin DOMAIN w.options \cap DOMAIN Taking(c)
    <3>1. f[a] = "none"
      BY <2>1, <2>3 DEF read
    <3>2. ~(a = "roles" /\ c \in {"Hello", "Welcome"})
      BY <1>1, <2>3 DEF elementsAgree, Particular
    <3> QED BY <1>4, <3>1, <3>2 DEF Checking
  <2> QED BY <2>2, <2>3
<1>5. CASE HasPayload(c) /\ a \in Payload
  <2>1. n \in Nat
    BY DEF Laid
  <2>2. n + 1 <= Len(w.list) /\ ~transparent(c, w) => w.list[n + 1] \in layout(c).args
    <3>1. SUFFICES ASSUME n + 1 <= Len(w.list), ~transparent(c, w) PROVE w.list[n + 1] \in layout(c).args
      OBVIOUS
    <3>2. n + 1 \in 1..Len(w.list) /\ ~(n + 1 <= n)
      BY <2>1, <3>1
    <3> QED BY <1>1, <3>1, <3>2 DEF elementsTaken, layout
  <2>3. n + 2 <= Len(w.list) => w.list[n + 2] \in layout(c).kwargs
    <3>1. SUFFICES ASSUME n + 2 <= Len(w.list) PROVE w.list[n + 2] \in layout(c).kwargs
      OBVIOUS
    <3>2. n + 2 \in 1..Len(w.list) /\ ~(n + 2 <= n) /\ n + 2 # n + 1 /\ Len(w.list) # n + 1
      BY <2>1, <3>1
    <3>3. ~transparent(c, w)
      BY <3>2 DEF transparent
    <3> QED BY <1>1, <3>2, <3>3 DEF elementsTaken, layout
  <2>4. /\ "none" \in Initial(c)["payload"] /\ "none" \in Initial(c)["args"]
        /\ "none" \in Initial(c)["kwargs"] /\ bytes \subseteq Initial(c)["payload"]
        /\ layout(c).args \subseteq Initial(c)["args"] /\ layout(c).kwargs \subseteq Initial(c)["kwargs"]
    BY <1>5 DEF Carrying, Payload_init, optional
  <2>5. CASE a = "payload"
    <3>1. transparent(c, w) => at(w, n + 1) \in layout(c).payload
      <4>1. SUFFICES ASSUME transparent(c, w) PROVE at(w, n + 1) \in layout(c).payload
        OBVIOUS
      <4>2. Len(w.list) = n + 1 /\ w.list[n + 1] \in layout(c).payload /\ n + 1 <= Len(w.list)
        BY <2>1, <4>1 DEF transparent, layout
      <4> QED BY <4>2 DEF at
    <3>2. layout(c).payload \subseteq bytes
      BY <2>5 DEF Checking
    <3> QED BY <1>2, <1>5, <2>4, <2>5, <3>1, <3>2
  <2>6. CASE a = "args"
    BY <1>2, <1>5, <2>2, <2>4, <2>6 DEF at
  <2>7. CASE a = "kwargs"
    BY <1>2, <1>5, <2>3, <2>4, <2>7 DEF at
  <2> QED BY <1>5, <2>5, <2>6, <2>7 DEF Payload
<1>6. a \in Elements(c) \/ a \in DOMAIN Omitted(c) \/ (HasPayload(c) /\ a \in Payload)
  <2>1. CASE HasPayload(c)
    BY <2>1 DEF Keyed
  <2>2. CASE ~HasPayload(c)
    BY <2>2 DEF Keyed
  <2> QED BY <2>1, <2>2
<1> QED BY <1>3, <1>4, <1>5, <1>6

\* Routers can send on what they were sent.
LEMMA AcceptedAgain ==
  ASSUME NEW c, NEW w, Tabled(c), Particular, Len(w.list) \in Nat, parse(c, w).is = "message",
         ~NotCarried(c, parse(c, w).m)
  PROVE  LET m == parse(c, w).m  again == parse(c, marshal(c, m)) IN
         /\ again.is = "message"
         /\ \A a \in Attributes(c) : Same(m[a], again.m[a])
BY AcceptedIsSendable, RoundTrip DEF Carries

\* The details objects for handlers take what the messages hold.
LEMMA DetailsTake ==
  ASSUME NEW c \in DOMAIN details, NEW m, Sendable(c, m)
  PROVE  \A a \in DOMAIN details[c] : m[a] \in details[c][a]
<1>1. /\ MESSAGE_TYPE_MAP["Event"].init = Event_init
      /\ MESSAGE_TYPE_MAP["Invocation"].init = Invocation_init
      /\ MESSAGE_TYPE_MAP["Result"].init = Result_init
  BY DEF MESSAGE_TYPE_MAP, table
<1>2. c = "Event" => \A a \in DOMAIN EventDetails :
         a \in DOMAIN Event_init /\ Event_init[a] \subseteq EventDetails[a]
  BY DEF EventDetails, Event_init, Payload_init, ++, optional, known, str, uri
<1>3. c = "Invocation" => \A a \in DOMAIN CallDetails :
         a \in DOMAIN Invocation_init /\ Invocation_init[a] \subseteq CallDetails[a]
  BY DEF CallDetails, Invocation_init, Payload_init, ++, optional, known, str, uri
<1>4. c = "Result" => \A a \in DOMAIN CallResult :
         a \in DOMAIN Result_init /\ Result_init[a] \subseteq CallResult[a]
  BY DEF CallResult, Result_init, Payload_init, ++
<1>5. /\ c \in {"Event", "Invocation", "Result"}
      /\ c = "Event" => details[c] = EventDetails
      /\ c = "Invocation" => details[c] = CallDetails
      /\ c = "Result" => details[c] = CallResult
  BY DEF details
<1>6. \A a \in DOMAIN details[c] : a \in Attributes(c) /\ Initial(c)[a] \subseteq details[c][a]
  BY <1>1, <1>2, <1>3, <1>4, <1>5 DEF Attributes, Initial
<1> QED BY <1>6 DEF Sendable

-----------------------------------------------------------------------------
(* What applications and routers give can be sent.                         *)

LEMMA SessionsHaveNoTopics == Attributes("SessionDetails") \cap {"procedure", "topic"} = {}
<1>1. MESSAGE_TYPE_MAP["SessionDetails"].init = SessionDetails_init
  BY DEF MESSAGE_TYPE_MAP, table
<1> QED BY <1>1 DEF Attributes, SessionDetails_init, ++

LEMMA RequiredIsPlausible ==
  ASSUME NEW c, NEW a \in Attributes(c), Needing(c), "options" \notin Attributes(c)
  PROVE  Plausible(c, a, required(c)[a])
<1> DEFINE fits == MESSAGE_TYPE_MAP[c].init[a] \cap {"one", "word", "roles"}
           v == required(c)[a]
<1>1. v = IF a \in Positioned(c) \cup {"roles"} /\ fits # {} THEN CHOOSE w \in fits : TRUE ELSE "none"
  BY DEF required
<1>2. a \in Positioned(c) => fits # {}
  BY DEF Needing, Elements, Initial
<1>3. fits # {} => (CHOOSE w \in fits : TRUE) \in fits
  OBVIOUS
<1>4. v \in {"one", "word", "roles", "none"} /\ (a \in Positioned(c) => v # "none")
  <2> HIDE DEF v
  <2> QED BY <1>1, <1>2, <1>3
<1> HIDE DEF v
<1>5. Plausible(c, a, v)
  BY <1>4 DEF Plausible, match
<1> QED BY <1>5 DEF v

LEMMA GivenIsPlausible ==
  ASSUME NEW c, NEW a \in Attributes(c), NEW v \in Giveable(c, a), NEW given_,
         wellFormed(c, a, v, given_), v = "none" => a \notin Positioned(c)
  PROVE  Plausible(c, a, message_attr(c, a, v))
<1>1. message_attr(c, a, v) = v \/ message_attr(c, a, v) \in {"ints", "strs", "true"}
  BY DEF message_attr, PublishOptions_message_attr, CallOptions_message_attr
<1>2. v \notin {"negative", "huge", "oddDict", "badRoles", "badHops"}
  BY DEF Giveable
<1>3. a \notin {"match", "invoke"} => v # "exact"
  BY DEF Giveable
<1>4. /\ v \in {"openEnd", "gap"} => a \in {"procedure", "topic"}
      /\ a # "request_type"
      /\ v \in {"prefix", "wildcard", "single"} => a \in {"match", "invoke"}
  BY DEF wellFormed
<1>5. a \in {"realm", "reason", "error", "topic", "procedure"} /\ c # "SessionDetails"
        => \/ v \in {"word", "none"}
           \/ v = "openEnd" /\ c = "Register" /\ a = "procedure"
           \/ v = "gap" /\ c = "Register" /\ a = "procedure"
           \/ v = "gap" /\ c = "Subscribe" /\ a = "topic"
  BY DEF wellFormed
<1>6. c = "SessionDetails" => a \notin {"procedure", "topic"}
  BY SessionsHaveNoTopics
<1>7. a \notin {"match", "invoke"} => v \notin match \cup {"single"}
  BY <1>3, <1>4 DEF match
<1>8. v = "openEnd" => c = "Register" /\ a = "procedure"
  BY <1>4, <1>5, <1>6
<1>9. v = "gap" => c \in {"Register", "Subscribe"} /\ a \in {"procedure", "topic"}
  BY <1>4, <1>5, <1>6
<1>10. a \in {"realm", "reason", "error", "topic", "procedure"} /\ c # "SessionDetails"
          => v \notin {"emptyStr", "text"}
  BY <1>5
<1>11. Plausible(c, a, v)
  BY <1>2, <1>4, <1>7, <1>8, <1>9, <1>10 DEF Plausible
<1>12. \A u \in {"ints", "strs", "true"} : Plausible(c, a, u)
  BY <1>4 DEF Plausible, match
<1> QED BY <1>1, <1>11, <1>12

LEMMA EncodedIsPlausible ==
  ASSUME NEW c, HasPayload(c), Keyed(c), NEW a \in {"payload"} \cup Enc,
         NEW v \in bytes \cup {"none", "word"}
  PROVE  a \in Attributes(c) /\ Plausible(c, a, message_attr(c, a, v))
<1>1. a \in Attributes(c) /\ a \notin Positioned(c)
  BY DEF Keyed, Payload
<1>2. message_attr(c, a, v) = v
  BY DEF message_attr, PublishOptions_message_attr, CallOptions_message_attr, Scalars, bytes, Enc
<1>3. Plausible(c, a, v)
  BY <1>1 DEF Plausible, match, bytes, Enc
<1> QED BY <1>1, <1>2, <1>3

LEMMA MadeIsSendable ==
  ASSUME NEW c, NEW f, Tabled(c), Particular, DOMAIN f = Attributes(c),
         \A a \in Attributes(c) : Plausible(c, a, f[a]),
         c = "Register" => f.procedure \in procedureUri(f.match),
         constructed(c, f) # AssertionError
  PROVE  constructed(c, f).is = "message" /\ Sendable(c, constructed(c, f).m)
<1> DEFINE m == [a \in Attributes(c) |-> default(a, f[a])]
<1> USE DEF Tabled
<1>1. /\ consistent(c, f) /\ \A a \in Attributes(c) : f[a] \in Initial(c)[a]
      /\ constructed(c, f) = [is |-> "message", m |-> m]
  BY DEF constructed, Initial
<1>2. DOMAIN m = Attributes(c) /\ consistent(c, m)
  BY <1>1, ConsistentWithDefaults
<1>3. \A a \in Attributes(c) :
         m[a] = default(a, f[a]) /\ m[a] \in Initial(c)[a] /\ default(a, m[a]) = m[a]
  BY <1>1, DefaultTwice DEF Defaults
<1>4. Elements(c) \cup DOMAIN Omitted(c) \subseteq Attributes(c)
  BY DEF Keyed
<1>5. c = "Register" => m.procedure \in procedureUri(m.match)
  <2>1. SUFFICES ASSUME c = "Register"
                 PROVE  m.procedure \in procedureUri(m.match)
    OBVIOUS
  <2>2. {"procedure", "match"} \subseteq Attributes(c) /\ Initial(c)["match"] = optional(match)
    BY <2>1 DEF Particular
  <2>3. m.procedure = default("procedure", f.procedure) /\ m.match = default("match", f.match)
    BY <1>3, <2>2
  <2>4. m.procedure = f.procedure
    BY <2>3 DEF default
  <2>5. f.match \in optional(match)
    BY <1>1, <2>2
  <2>6. m.match = f.match \/ (f.match = "none" /\ m.match = "exact")
    BY <2>3, <2>5 DEF default, optional, match, Falsy
  <2> QED BY <2>1, <2>4, <2>6 DEF procedureUri
<1> HIDE DEF m
<1>6. \A a \in Elements(c) : m[a] \in Taking(c)[a]
  BY <1>1, <1>3, <1>4 DEF Writing
<1>7. \A a \in DOMAIN Omitted(c) : Sent(c, a, m[a])
  BY <1>1, <1>3, <1>4 DEF Writing
<1>8. Sendable(c, m)
  BY <1>2, <1>3, <1>5, <1>6, <1>7 DEF Sendable
<1> QED BY <1>1, <1>8

-----------------------------------------------------------------------------
(* A look at the tables, class by class.                                   *)

\* What a class without codes needs to be read and written.
Fitting(c) ==
    /\ \A a \in Elements(c) :
          /\ \A v \in Taking(c)[a] : default(a, v) \in Taking(c)[a]
          /\ \A v \in Initial(c)[a] : Plausible(c, a, v) => default(a, v) \in Taking(c)[a]
    /\ \A a \in DOMAIN Omitted(c) \cap DOMAIN Taking(c) :
          LET known_ == Omitted(c)[a] \cup Taking(c)[a] IN
          /\ \A v \in Taking(c)[a] \cap Initial(c)[a] : default(a, v) \in known_
          /\ "none" \in Initial(c)[a] => default(a, "none") \in known_
          /\ \A v \in Initial(c)[a] : Plausible(c, a, v) => default(a, v) \in known_

\* What it needs to be checked.
Strict(c) == \A a \in Attributes(c) \ Unchecked(c) :
    /\ a \in DOMAIN Taking(c) => Taking(c)[a] \subseteq Initial(c)[a]
    /\ a \in DOMAIN Omitted(c) =>
          "none" \in Initial(c)[a] \/ (a = "roles" /\ c \in {"Hello", "Welcome"})
    /\ a = "payload" => layout(c).payload \subseteq bytes

LEMMA NothingOmitted == DOMAIN <<>> = {}
  OBVIOUS

LEMMA WithoutCodes ==
  ASSUME NEW i, NEW p, NEW o, NEW c, MESSAGE_TYPE_MAP[c] = table(i, p, o),
         Keyed(c), Fitting(c), Strict(c)
  PROVE  Checking(c) /\ Reading(c) /\ Writing(c)
<1>1. \A a, v : encoded(c, a, v) = v /\ decoded(c, a, v) = v
  BY NothingOmitted DEF encoded, decoded, code, table, empty
<1>2. ASSUME NEW a \in DOMAIN Omitted(c), NEW v,
             a \in DOMAIN Taking(c) => v \in Omitted(c)[a] \cup Taking(c)[a]
      PROVE  Sent(c, a, v)
  BY <1>1, <1>2 DEF Sent
<1>3. Reading(c)
  <2>1. ASSUME NEW a \in DOMAIN Omitted(c) \cap DOMAIN Taking(c),
               NEW v \in Taking(c)[a], decoded(c, a, v) \in Initial(c)[a]
        PROVE  Sent(c, a, default(a, decoded(c, a, v)))
    BY <1>1, <1>2, <2>1 DEF Fitting
  <2>2. ASSUME NEW a \in DOMAIN Omitted(c), "none" \in Initial(c)[a]
        PROVE  Sent(c, a, default(a, "none"))
    BY <1>2, <2>2 DEF Fitting
  <2> QED BY <2>1, <2>2 DEF Reading, Fitting
<1>4. Writing(c)
  <2>1. ASSUME NEW a \in DOMAIN Omitted(c), NEW v \in Initial(c)[a], Plausible(c, a, v)
        PROVE  Sent(c, a, default(a, v))
    BY <1>2, <2>1 DEF Fitting
  <2> QED BY <2>1 DEF Writing, Fitting
<1>5. Checking(c)
  <2>1. ASSUME NEW a \in Elements(c) PROVE a \in DOMAIN Taking(c)
    BY DEF Keyed, Elements
  <2> QED BY <1>1, <2>1 DEF Checking, Strict
<1> QED BY <1>3, <1>4, <1>5

\* The values, their types, and how the tables are written.
USE DEF int, bool, match, uri, str, hops, list, extra, dict, bytes, opaque, Values, Falsy, optional, id,
        uri_gaps, uri_open, known, features, ints, strs, forward_for, given, truthy, ++,
        Payload, Enc, Payload_init, Enc_parse, Enc_marshal, Layout, PayloadAfter, Codes, Keys, Numbers,
        Positions, Attributes, HasPayload, Initial, Taking, Omitted, layout, least, Elements

LEMMA HelloTables == Tabled("Hello")
<1> USE DEF Hello_init, Hello_parse, Hello_marshal
<1>1. MESSAGE_TYPE_MAP["Hello"] = table(Hello_init, Hello_parse, Hello_marshal)
  BY DEF MESSAGE_TYPE_MAP
<1>2. /\ MESSAGE_TYPE_MAP["Hello"].layout = Hello_parse.layout
      /\ MESSAGE_TYPE_MAP["Hello"].init = Hello_init
      /\ MESSAGE_TYPE_MAP["Hello"].takes = Hello_parse.takes
      /\ MESSAGE_TYPE_MAP["Hello"].omits = Hello_marshal
  BY <1>1 DEF table
<1>3. /\ Len(Positions("Hello")) = 2 /\ least("Hello") = 2 /\ 1..2 = {1, 2}
      /\ Positions("Hello")[1] = "realm" /\ Positions("Hello")[2] = "options"
  BY <1>2
<1>4. Positioned("Hello") = {"realm", "options"}
  BY <1>3 DEF Positioned
<1>5. Laid("Hello")
  BY <1>3 DEF Laid
<1>6. Keyed("Hello")
  BY <1>2, <1>4, NothingOmitted DEF Keyed
<1>7. Carrying("Hello") /\ Needing("Hello")
  BY <1>2, <1>4 DEF Carrying, Needing
<1>8. Leaving("Hello") /\ Defaults("Hello")
  BY <1>2, NothingOmitted DEF Leaving, Defaults, Same, default
<1>9. Fitting("Hello")
  BY <1>2, <1>4, NothingOmitted DEF Fitting, Plausible, default
<1>10. Strict("Hello")
  BY <1>2, <1>4, NothingOmitted DEF Strict, Unchecked
<1> QED BY <1>1, <1>5, <1>6, <1>7, <1>8, <1>9, <1>10, WithoutCodes DEF Tabled

LEMMA WelcomeTables == Tabled("Welcome")
<1> USE DEF Welcome_init, Welcome_parse, Welcome_marshal
<1>1. MESSAGE_TYPE_MAP["Welcome"] = table(Welcome_init, Welcome_parse, Welcome_marshal)
  BY DEF MESSAGE_TYPE_MAP
<1>2. /\ MESSAGE_TYPE_MAP["Welcome"].layout = Welcome_parse.layout
      /\ MESSAGE_TYPE_MAP["Welcome"].init = Welcome_init
      /\ MESSAGE_TYPE_MAP["Welcome"].takes = Welcome_parse.takes
      /\ MESSAGE_TYPE_MAP["Welcome"].omits = Welcome_marshal
  BY <1>1 DEF table
<1>3. /\ Len(Positions("Welcome")) = 2 /\ least("Welcome") = 2 /\ 1..2 = {1, 2}
      /\ Positions("Welcome")[1] = "session" /\ Positions("Welcome")[2] = "options"
  BY <1>2
<1>4. Positioned("Welcome") = {"session", "options"}
  BY <1>3 DEF Positioned
<1>5. Laid("Welcome")
  BY <1>3 DEF Laid
<1>6. Keyed("Welcome")
  BY <1>2, <1>4, NothingOmitted DEF Keyed
<1>7. Carrying("Welcome") /\ Needing("Welcome")
  BY <1>2, <1>4 DEF Carrying, Needing
<1>8. Leaving("Welcome") /\ Defaults("Welcome")
  BY <1>2, NothingOmitted DEF Leaving, Defaults, Same, default
<1>9. Fitting("Welcome")
  BY <1>2, <1>4, NothingOmitted DEF Fitting, Plausible, default
<1>10. Strict("Welcome")
  BY <1>2, <1>4, NothingOmitted DEF Strict, Unchecked
<1> QED BY <1>1, <1>5, <1>6, <1>7, <1>8, <1>9, <1>10, WithoutCodes DEF Tabled

LEMMA AbortTables == Tabled("Abort")
<1> USE DEF Abort_init, Abort_parse, Abort_marshal
<1>1. MESSAGE_TYPE_MAP["Abort"] = table(Abort_init, Abort_parse, Abort_marshal)
  BY DEF MESSAGE_TYPE_MAP
<1>2. /\ MESSAGE_TYPE_MAP["Abort"].layout = Abort_parse.layout
      /\ MESSAGE_TYPE_MAP["Abort"].init = Abort_init
      /\ MESSAGE_TYPE_MAP["Abort"].takes = Abort_parse.takes
      /\ MESSAGE_TYPE_MAP["Abort"].omits = Abort_marshal
  BY <1>1 DEF table
<1>3. /\ Len(Positions("Abort")) = 2 /\ least("Abort") = 2 /\ 1..2 = {1, 2}
      /\ Positions("Abort")[1] = "options" /\ Positions("Abort")[2] = "reason"
  BY <1>2
<1>4. Positioned("Abort") = {"options", "reason"}
  BY <1>3 DEF Positioned
<1>5. Laid("Abort")
  BY <1>3 DEF Laid
<1>6. Keyed("Abort")
  BY <1>2, <1>4, NothingOmitted DEF Keyed
<1>7. Carrying("Abort") /\ Needing("Abort")
  BY <1>2, <1>4 DEF Carrying, Needing
<1>8. Leaving("Abort") /\ Defaults("Abort")
  BY <1>2, NothingOmitted DEF Leaving, Defaults, Same, default
<1>9. Fitting("Abort")
  BY <1>2, <1>4, NothingOmitted DEF Fitting, Plausible, default
<1>10. Strict("Abort")
  BY <1>2, <1>4, NothingOmitted DEF Strict, Unchecked
<1> QED BY <1>1, <1>5, <1>6, <1>7, <1>8, <1>9, <1>10, WithoutCodes DEF Tabled

LEMMA ChallengeTables == Tabled("Challenge")
<1> USE DEF Challenge_init, Challenge_parse, Challenge_marshal
<1>1. MESSAGE_TYPE_MAP["Challenge"] = table(Challenge_init, Challenge_parse, Challenge_marshal)
  BY DEF MESSAGE_TYPE_MAP
<1>2. /\ MESSAGE_TYPE_MAP["Challenge"].layout = Challenge_parse.layout
      /\ MESSAGE_TYPE_MAP["Challenge"].init = Challenge_init
      /\ MESSAGE_TYPE_MAP["Challenge"].takes = Challenge_parse.takes
      /\ MESSAGE_TYPE_MAP["Challenge"].omits = Challenge_marshal
  BY <1>1 DEF table
<1>3. /\ Len(Positions("Challenge")) = 2 /\ least("Challenge") = 2 /\ 1..2 = {1, 2}
      /\ Positions("Challenge")[1] = "method" /\ Positions("Challenge")[2] = "extra"
  BY <1>2
<1>4. Positioned("Challenge") = {"method", "extra"}
  BY <1>3 DEF Positioned
<1>5. Laid("Challenge")
  BY <1>3 DEF Laid
<1>6. Keyed("Challenge")
  BY <1>2, <1>4, NothingOmitted DEF Keyed
<1>7. Carrying("Challenge") /\ Needing("Challenge")
  BY <1>2, <1>4 DEF Carrying, Needing
<1>8. Leaving("Challenge") /\ Defaults("Challenge")
  BY <1>2, NothingOmitted DEF Leaving, Defaults, Same, default
<1>9. Fitting("Challenge")
  BY <1>2, <1>4, NothingOmitted DEF Fitting, Plausible, default
<1>10. Strict("Challenge")
  BY <1>2, <1>4, NothingOmitted DEF Strict, Unchecked
<1> QED BY <1>1, <1>5, <1>6, <1>7, <1>8, <1>9, <1>10, WithoutCodes DEF Tabled

LEMMA AuthenticateTables == Tabled("Authenticate")
<1> USE DEF Authenticate_init, Authenticate_parse, Authenticate_marshal
<1>1. MESSAGE_TYPE_MAP["Authenticate"] = table(Authenticate_init, Authenticate_parse, Authenticate_marshal)
  BY DEF MESSAGE_TYPE_MAP
<1>2. /\ MESSAGE_TYPE_MAP["Authenticate"].layout = Authenticate_parse.layout
      /\ MESSAGE_TYPE_MAP["Authenticate"].init = Authenticate_init
      /\ MESSAGE_TYPE_MAP["Authenticate"].takes = Authenticate_parse.takes
      /\ MESSAGE_TYPE_MAP["Authenticate"].omits = Authenticate_marshal
  BY <1>1 DEF table
<1>3. /\ Len(Positions("Authenticate")) = 2 /\ least("Authenticate") = 2 /\ 1..2 = {1, 2}
      /\ Positions("Authenticate")[1] = "signature" /\ Positions("Authenticate")[2] = "extra"
  BY <1>2
<1>4. Positioned("Authenticate") = {"signature", "extra"}
  BY <1>3 DEF Positioned
<1>5. Laid("Authenticate")
  BY <1>3 DEF Laid
<1>6. Keyed("Authenticate")
  BY <1>2, <1>4, NothingOmitted DEF Keyed
<1>7. Carrying("Authenticate") /\ Needing("Authenticate")
  BY <1>2, <1>4 DEF Carrying, Needing
<1>8. Leaving("Authenticate") /\ Defaults("Authenticate")
  BY <1>2, NothingOmitted DEF Leaving, Defaults, Same, default
<1>9. Fitting("Authenticate")
  BY <1>2, <1>4, NothingOmitted DEF Fitting, Plausible, default
<1>10. Strict("Authenticate")
  BY <1>2, <1>4, NothingOmitted DEF Strict, Unchecked
<1> QED BY <1>1, <1>5, <1>6, <1>7, <1>8, <1>9, <1>10, WithoutCodes DEF Tabled

LEMMA GoodbyeTables == Tabled("Goodbye")
<1> USE DEF Goodbye_init, Goodbye_parse, Goodbye_marshal
<1>1. MESSAGE_TYPE_MAP["Goodbye"] = table(Goodbye_init, Goodbye_parse, Goodbye_marshal)
  BY DEF MESSAGE_TYPE_MAP
<1>2. /\ MESSAGE_TYPE_MAP["Goodbye"].layout = Goodbye_parse.layout
      /\ MESSAGE_TYPE_MAP["Goodbye"].init = Goodbye_init
      /\ MESSAGE_TYPE_MAP["Goodbye"].takes = Goodbye_parse.takes
      /\ MESSAGE_TYPE_MAP["Goodbye"].omits = Goodbye_marshal
  BY <1>1 DEF table
<1>3. /\ Len(Positions("Goodbye")) = 2 /\ least("Goodbye") = 2 /\ 1..2 = {1, 2}
      /\ Positions("Goodbye")[1] = "options" /\ Positions("Goodbye")[2] = "reason"
  BY <1>2
<1>4. Positioned("Goodbye") = {"options", "reason"}
  BY <1>3 DEF Positioned
<1>5. Laid("Goodbye")
  BY <1>3 DEF Laid
<1>6. Keyed("Goodbye")
  BY <1>2, <1>4, NothingOmitted DEF Keyed
<1>7. Carrying("Goodbye") /\ Needing("Goodbye")
  BY <1>2, <1>4 DEF Carrying, Needing
<1>8. Leaving("Goodbye") /\ Defaults("Goodbye")
  BY <1>2, NothingOmitted DEF Leaving, Defaults, Same, default
<1>9. Fitting("Goodbye")
  BY <1>2, <1>4, NothingOmitted DEF Fitting, Plausible, default
<1>10. Strict("Goodbye")
  BY <1>2, <1>4, NothingOmitted DEF Strict, Unchecked
<1> QED BY <1>1, <1>5, <1>6, <1>7, <1>8, <1>9, <1>10, WithoutCodes DEF Tabled

LEMMA ErrorTables == Tabled("Error")
<1> USE DEF Error_init, Error_parse, Error_marshal
<1>1. MESSAGE_TYPE_MAP["Error"] = table(Error_init, Error_parse, Error_marshal)
  BY DEF MESSAGE_TYPE_MAP
<1>2. /\ MESSAGE_TYPE_MAP["Error"].layout = Error_parse.layout
      /\ MESSAGE_TYPE_MAP["Error"].init = Error_init
      /\ MESSAGE_TYPE_MAP["Error"].takes = Error_parse.takes
      /\ MESSAGE_TYPE_MAP["Error"].omits = Error_marshal
  BY <1>1 DEF table
<1>3. /\ Len(Positions("Error")) = 4 /\ least("Error") = 4 /\ 1..4 = {1, 2, 3, 4}
      /\ Positions("Error")[1] = "request_type" /\ Positions("Error")[2] = "request"
      /\ Positions("Error")[3] = "options" /\ Positions("Error")[4] = "error"
  BY <1>2
<1>4. Positioned("Error") = {"request_type", "request", "options", "error"}
  BY <1>3 DEF Positioned
<1>5. Laid("Error")
  BY <1>3 DEF Laid
<1>6. Keyed("Error")
  BY <1>2, <1>4, NothingOmitted DEF Keyed
<1>7. Carrying("Error") /\ Needing("Error")
  BY <1>2, <1>4 DEF Carrying, Needing
<1>8. Leaving("Error") /\ Defaults("Error")
  BY <1>2, NothingOmitted DEF Leaving, Defaults, Same, default
<1>9. Fitting("Error")
  BY <1>2, <1>4, NothingOmitted DEF Fitting, Plausible, default
<1>10. Strict("Error")
  BY <1>2, <1>4, NothingOmitted DEF Strict, Unchecked
<1> QED BY <1>1, <1>5, <1>6, <1>7, <1>8, <1>9, <1>10, WithoutCodes DEF Tabled

LEMMA PublishTables == Tabled("Publish")
<1> USE DEF Publish_init, Publish_parse, Publish_marshal
<1>1. MESSAGE_TYPE_MAP["Publish"] = table(Publish_init, Publish_parse, Publish_marshal)
  BY DEF MESSAGE_TYPE_MAP
<1>2. /\ MESSAGE_TYPE_MAP["Publish"].layout = Publish_parse.layout
      /\ MESSAGE_TYPE_MAP["Publish"].init = Publish_init
      /\ MESSAGE_TYPE_MAP["Publish"].takes = Publish_parse.takes
      /\ MESSAGE_TYPE_MAP["Publish"].omits = Publish_marshal
  BY <1>1 DEF table
<1>3. /\ Len(Positions("Publish")) = 3 /\ least("Publish") = 3 /\ 1..3 = {1, 2, 3}
      /\ Positions("Publish")[1] = "request" /\ Positions("Publish")[2] = "options"
      /\ Positions("Publish")[3] = "topic"
  BY <1>2
<1>4. Positioned("Publish") = {"request", "options", "topic"}
  BY <1>3 DEF Positioned
<1>5. Laid("Publish")
  BY <1>3 DEF Laid
<1>6. Keyed("Publish")
  BY <1>2, <1>4, NothingOmitted DEF Keyed
<1>7. Carrying("Publish") /\ Needing("Publish")
  BY <1>2, <1>4 DEF Carrying, Needing
<1>8. Leaving("Publish") /\ Defaults("Publish")
  BY <1>2, NothingOmitted DEF Leaving, Defaults, Same, default
<1>9. Fitting("Publish")
  BY <1>2, <1>4, NothingOmitted DEF Fitting, Plausible, default
<1>10. Strict("Publish")
  BY <1>2, <1>4, NothingOmitted DEF Strict, Unchecked
<1> QED BY <1>1, <1>5, <1>6, <1>7, <1>8, <1>9, <1>10, WithoutCodes DEF Tabled

LEMMA PublishedTables == Tabled("Published")
<1> USE DEF Published_init, Published_parse, Published_marshal
<1>1. MESSAGE_TYPE_MAP["Published"] = table(Published_init, Published_parse, Published_marshal)
  BY DEF MESSAGE_TYPE_MAP
<1>2. /\ MESSAGE_TYPE_MAP["Published"].layout = Published_parse.layout
      /\ MESSAGE_TYPE_MAP["Published"].init = Published_init
      /\ MESSAGE_TYPE_MAP["Published"].takes = Published_parse.takes
      /\ MESSAGE_TYPE_MAP["Published"].omits = Published_marshal
  BY <1>1 DEF table
<1>3. /\ Len(Positions("Published")) = 2 /\ least("Published") = 2 /\ 1..2 = {1, 2}
      /\ Positions("Published")[1] = "request" /\ Positions("Published")[2] = "publication"
  BY <1>2
<1>4. Positioned("Published") = {"request", "publication"}
  BY <1>3 DEF Positioned
<1>5. Laid("Published")
  BY <1>3 DEF Laid
<1>6. Keyed("Published")
  BY <1>2, <1>4, NothingOmitted DEF Keyed
<1>7. Carrying("Published") /\ Needing("Published")
  BY <1>2, <1>4 DEF Carrying, Needing
<1>8. Leaving("Published") /\ Defaults("Published")
  BY <1>2, NothingOmitted DEF Leaving, Defaults, Same, default
<1>9. Fitting("Published")
  BY <1>2, <1>4, NothingOmitted DEF Fitting, Plausible, default
<1>10. Strict("Published")
  BY <1>2, <1>4, NothingOmitted DEF Strict, Unchecked
<1> QED BY <1>1, <1>5, <1>6, <1>7, <1>8, <1>9, <1>10, WithoutCodes DEF Tabled

LEMMA SubscribeTables == Tabled("Subscribe")
<1> USE DEF Subscribe_init, Subscribe_parse, Subscribe_marshal
<1>1. MESSAGE_TYPE_MAP["Subscribe"] = table(Subscribe_init, Subscribe_parse, Subscribe_marshal)
  BY DEF MESSAGE_TYPE_MAP
<1>2. /\ MESSAGE_TYPE_MAP["Subscribe"].layout = Subscribe_parse.layout
      /\ MESSAGE_TYPE_MAP["Subscribe"].init = Subscribe_init
      /\ MESSAGE_TYPE_MAP["Subscribe"].takes = Subscribe_parse.takes
      /\ MESSAGE_TYPE_MAP["Subscribe"].omits = Subscribe_marshal
  BY <1>1 DEF table
<1>3. /\ Len(Positions("Subscribe")) = 3 /\ least("Subscribe") = 3 /\ 1..3 = {1, 2, 3}
      /\ Positions("Subscribe")[1] = "request" /\ Positions("Subscribe")[2] = "options"
      /\ Positions("Subscribe")[3] = "topic"
  BY <1>2
<1>4. Positioned("Subscribe") = {"request", "options", "topic"}
  BY <1>3 DEF Positioned
<1>5. Laid("Subscribe")
  BY <1>3 DEF Laid
<1>6. Keyed("Subscribe")
  BY <1>2, <1>4, NothingOmitted DEF Keyed
<1>7. Carrying("Subscribe") /\ Needing("Subscribe")
  BY <1>2, <1>4 DEF Carrying, Needing
<1>8. Leaving("Subscribe") /\ Defaults("Subscribe")
  BY <1>2, NothingOmitted DEF Leaving, Defaults, Same, default
<1>9. Fitting("Subscribe")
  BY <1>2, <1>4, NothingOmitted DEF Fitting, Plausible, default
<1>10. Strict("Subscribe")
  BY <1>2, <1>4, NothingOmitted DEF Strict, Unchecked
<1> QED BY <1>1, <1>5, <1>6, <1>7, <1>8, <1>9, <1>10, WithoutCodes DEF Tabled

LEMMA SubscribedTables == Tabled("Subscribed")
<1> USE DEF Subscribed_init, Subscribed_parse, Subscribed_marshal
<1>1. MESSAGE_TYPE_MAP["Subscribed"] = table(Subscribed_init, Subscribed_parse, Subscribed_marshal)
  BY DEF MESSAGE_TYPE_MAP
<1>2. /\ MESSAGE_TYPE_MAP["Subscribed"].layout = Subscribed_parse.layout
      /\ MESSAGE_TYPE_MAP["Subscribed"].init = Subscribed_init
      /\ MESSAGE_TYPE_MAP["Subscribed"].takes = Subscribed_parse.takes
      /\ MESSAGE_TYPE_MAP["Subscribed"].omits = Subscribed_marshal
  BY <1>1 DEF table
<1>3. /\ Len(Positions("Subscribed")) = 2 /\ least("Subscribed") = 2 /\ 1..2 = {1, 2}
      /\ Positions("Subscribed")[1] = "request" /\ Positions("Subscribed")[2] = "subscription"
  BY <1>2
<1>4. Positioned("Subscribed") = {"request", "subscription"}
  BY <1>3 DEF Positioned
<1>5. Laid("Subscribed")
  BY <1>3 DEF Laid
<1>6. Keyed("Subscribed")
  BY <1>2, <1>4, NothingOmitted DEF Keyed
<1>7. Carrying("Subscribed") /\ Needing("Subscribed")
  BY <1>2, <1>4 DEF Carrying, Needing
<1>8. Leaving("Subscribed") /\ Defaults("Subscribed")
  BY <1>2, NothingOmitted DEF Leaving, Defaults, Same, default
<1>9. Fitting("Subscribed")
  BY <1>2, <1>4, NothingOmitted DEF Fitting, Plausible, default
<1>10. Strict("Subscribed")
  BY <1>2, <1>4, NothingOmitted DEF Strict, Unchecked
<1> QED BY <1>1, <1>5, <1>6, <1>7, <1>8, <1>9, <1>10, WithoutCodes DEF Tabled

LEMMA UnsubscribeTables == Tabled("Unsubscribe")
<1> USE DEF Unsubscribe_init, Unsubscribe_parse, Unsubscribe_marshal
<1>1. MESSAGE_TYPE_MAP["Unsubscribe"] = table(Unsubscribe_init, Unsubscribe_parse, Unsubscribe_marshal)
  BY DEF MESSAGE_TYPE_MAP
<1>2. /\ MESSAGE_TYPE_MAP["Unsubscribe"].layout = Unsubscribe_parse.layout
      /\ MESSAGE_TYPE_MAP["Unsubscribe"].init = Unsubscribe_init
      /\ MESSAGE_TYPE_MAP["Unsubscribe"].takes = Unsubscribe_parse.takes
      /\ MESSAGE_TYPE_MAP["Unsubscribe"].omits = Unsubscribe_marshal
  BY <1>1 DEF table
<1>3. /\ Len(Positions("Unsubscribe")) = 3 /\ least("Unsubscribe") = 2 /\ 1..3 = {1, 2, 3}
      /\ Positions("Unsubscribe")[1] = "request" /\ Positions("Unsubscribe")[2] = "subscription"
      /\ Positions("Unsubscribe")[3] = "options"
  BY <1>2
<1>4. Positioned("Unsubscribe") = {"request", "subscription", "options"}
  BY <1>3 DEF Positioned
<1>5. Laid("Unsubscribe")
  BY <1>3 DEF Laid
<1>6. Keyed("Unsubscribe")
  BY <1>2, <1>4, NothingOmitted DEF Keyed
<1>7. Carrying("Unsubscribe") /\ Needing("Unsubscribe")
  BY <1>2, <1>4 DEF Carrying, Needing
<1>8. Leaving("Unsubscribe") /\ Defaults("Unsubscribe")
  BY <1>2, NothingOmitted DEF Leaving, Defaults, Same, default
<1>9. Fitting("Unsubscribe")
  BY <1>2, <1>4, NothingOmitted DEF Fitting, Plausible, default
<1>10. Strict("Unsubscribe")
  BY <1>2, <1>4, NothingOmitted DEF Strict, Unchecked
<1> QED BY <1>1, <1>5, <1>6, <1>7, <1>8, <1>9, <1>10, WithoutCodes DEF Tabled

LEMMA UnsubscribedTables == Tabled("Unsubscribed")
<1> USE DEF Unsubscribed_init, Unsubscribed_parse, Unsubscribed_marshal
<1>1. MESSAGE_TYPE_MAP["Unsubscribed"] = table(Unsubscribed_init, Unsubscribed_parse, Unsubscribed_marshal)
  BY DEF MESSAGE_TYPE_MAP
<1>2. /\ MESSAGE_TYPE_MAP["Unsubscribed"].layout = Unsubscribed_parse.layout
      /\ MESSAGE_TYPE_MAP["Unsubscribed"].init = Unsubscribed_init
      /\ MESSAGE_TYPE_MAP["Unsubscribed"].takes = Unsubscribed_parse.takes
      /\ MESSAGE_TYPE_MAP["Unsubscribed"].omits = Unsubscribed_marshal
  BY <1>1 DEF table
<1>3. /\ Len(Positions("Unsubscribed")) = 2 /\ least("Unsubscribed") = 1 /\ 1..2 = {1, 2}
      /\ Positions("Unsubscribed")[1] = "request" /\ Positions("Unsubscribed")[2] = "options"
  BY <1>2
<1>4. Positioned("Unsubscribed") = {"request", "options"}
  BY <1>3 DEF Positioned
<1>5. Laid("Unsubscribed")
  BY <1>3 DEF Laid
<1>6. Keyed("Unsubscribed")
  BY <1>2, <1>4, NothingOmitted DEF Keyed
<1>7. Carrying("Unsubscribed") /\ Needing("Unsubscribed")
  BY <1>2, <1>4 DEF Carrying, Needing
<1>8. Leaving("Unsubscribed") /\ Defaults("Unsubscribed")
  BY <1>2, NothingOmitted DEF Leaving, Defaults, Same, default
<1>9. Fitting("Unsubscribed")
  BY <1>2, <1>4, NothingOmitted DEF Fitting, Plausible, default
<1>10. Strict("Unsubscribed")
  BY <1>2, <1>4, NothingOmitted DEF Strict, Unchecked
<1> QED BY <1>1, <1>5, <1>6, <1>7, <1>8, <1>9, <1>10, WithoutCodes DEF Tabled

LEMMA EventTables == Tabled("Event")
<1> USE DEF Event_init, Event_parse, Event_marshal
<1>1. MESSAGE_TYPE_MAP["Event"] = table(Event_init, Event_parse, Event_marshal)
  BY DEF MESSAGE_TYPE_MAP
<1>2. /\ MESSAGE_TYPE_MAP["Event"].layout = Event_parse.layout
      /\ MESSAGE_TYPE_MAP["Event"].init = Event_init
      /\ MESSAGE_TYPE_MAP["Event"].takes = Event_parse.takes
      /\ MESSAGE_TYPE_MAP["Event"].omits = Event_marshal
  BY <1>1 DEF table
<1>3. /\ Len(Positions("Event")) = 3 /\ least("Event") = 3 /\ 1..3 = {1, 2, 3}
      /\ Positions("Event")[1] = "subscription" /\ Positions("Event")[2] = "publication"
      /\ Positions("Event")[3] = "options"
  BY <1>2
<1>4. Positioned("Event") = {"subscription", "publication", "options"}
  BY <1>3 DEF Positioned
<1>5. Laid("Event")
  BY <1>3 DEF Laid
<1>6. Keyed("Event")
  BY <1>2, <1>4, NothingOmitted DEF Keyed
<1>7. Carrying("Event") /\ Needing("Event")
  BY <1>2, <1>4 DEF Carrying, Needing
<1>8. Leaving("Event") /\ Defaults("Event")
  BY <1>2, NothingOmitted DEF Leaving, Defaults, Same, default
<1>9. Fitting("Event")
  BY <1>2, <1>4, NothingOmitted DEF Fitting, Plausible, default
<1>10. Strict("Event")
  BY <1>2, <1>4, NothingOmitted DEF Strict, Unchecked
<1> QED BY <1>1, <1>5, <1>6, <1>7, <1>8, <1>9, <1>10, WithoutCodes DEF Tabled

LEMMA EventReceivedTables == Tabled("EventReceived")
<1> USE DEF EventReceived_init, EventReceived_parse, EventReceived_marshal
<1>1. MESSAGE_TYPE_MAP["EventReceived"] = table(EventReceived_init, EventReceived_parse, EventReceived_marshal)
  BY DEF MESSAGE_TYPE_MAP
<1>2. /\ MESSAGE_TYPE_MAP["EventReceived"].layout = EventReceived_parse.layout
      /\ MESSAGE_TYPE_MAP["EventReceived"].init = EventReceived_init
      /\ MESSAGE_TYPE_MAP["EventReceived"].takes = EventReceived_parse.takes
      /\ MESSAGE_TYPE_MAP["EventReceived"].omits = EventReceived_marshal
  BY <1>1 DEF table
<1>3. /\ Len(Positions("EventReceived")) = 1 /\ least("EventReceived") = 1 /\ 1..1 = {1}
      /\ Positions("EventReceived")[1] = "publication"
  BY <1>2
<1>4. Positioned("EventReceived") = {"publication"}
  BY <1>3 DEF Positioned
<1>5. Laid("EventReceived")
  BY <1>3 DEF Laid
<1>6. Keyed("EventReceived")
  BY <1>2, <1>4, NothingOmitted DEF Keyed
<1>7. Carrying("EventReceived") /\ Needing("EventReceived")
  BY <1>2, <1>4 DEF Carrying, Needing
<1>8. Leaving("EventReceived") /\ Defaults("EventReceived")
  BY <1>2, NothingOmitted DEF Leaving, Defaults, Same, default
<1>9. Fitting("EventReceived")
  BY <1>2, <1>4, NothingOmitted DEF Fitting, Plausible, default
<1>10. Strict("EventReceived")
  BY <1>2, <1>4, NothingOmitted DEF Strict, Unchecked
<1> QED BY <1>1, <1>5, <1>6, <1>7, <1>8, <1>9, <1>10, WithoutCodes DEF Tabled

LEMMA CallTables == Tabled("Call")
<1> USE DEF Call_init, Call_parse, Call_marshal
<1>1. MESSAGE_TYPE_MAP["Call"] = table(Call_init, Call_parse, Call_marshal)
  BY DEF MESSAGE_TYPE_MAP
<1>2. /\ MESSAGE_TYPE_MAP["Call"].layout = Call_parse.layout
      /\ MESSAGE_TYPE_MAP["Call"].init = Call_init
      /\ MESSAGE_TYPE_MAP["Call"].takes = Call_parse.takes
      /\ MESSAGE_TYPE_MAP["Call"].omits = Call_marshal
  BY <1>1 DEF table
<1>3. /\ Len(Positions("Call")) = 3 /\ least("Call") = 3 /\ 1..3 = {1, 2, 3}
      /\ Positions("Call")[1] = "request" /\ Positions("Call")[2] = "options"
      /\ Positions("Call")[3] = "procedure"
  BY <1>2
<1>4. Positioned("Call") = {"request", "options", "procedure"}
  BY <1>3 DEF Positioned
<1>5. Laid("Call")
  BY <1>3 DEF Laid
<1>6. Keyed("Call")
  BY <1>2, <1>4, NothingOmitted DEF Keyed
<1>7. Carrying("Call") /\ Needing("Call")
  BY <1>2, <1>4 DEF Carrying, Needing
<1>8. Leaving("Call") /\ Defaults("Call")
  BY <1>2, NothingOmitted DEF Leaving, Defaults, Same, default
<1>9. Fitting("Call")
  BY <1>2, <1>4, NothingOmitted DEF Fitting, Plausible, default
<1>10. Strict("Call")
  BY <1>2, <1>4, NothingOmitted DEF Strict, Unchecked
<1> QED BY <1>1, <1>5, <1>6, <1>7, <1>8, <1>9, <1>10, WithoutCodes DEF Tabled

LEMMA CancelTables == Tabled("Cancel")
<1> USE DEF Cancel_init, Cancel_parse, Cancel_marshal
<1>1. MESSAGE_TYPE_MAP["Cancel"] = table(Cancel_init, Cancel_parse, Cancel_marshal)
  BY DEF MESSAGE_TYPE_MAP
<1>2. /\ MESSAGE_TYPE_MAP["Cancel"].layout = Cancel_parse.layout
      /\ MESSAGE_TYPE_MAP["Cancel"].init = Cancel_init
      /\ MESSAGE_TYPE_MAP["Cancel"].takes = Cancel_parse.takes
      /\ MESSAGE_TYPE_MAP["Cancel"].omits = Cancel_marshal
  BY <1>1 DEF table
<1>3. /\ Len(Positions("Cancel")) = 2 /\ least("Cancel") = 2 /\ 1..2 = {1, 2}
      /\ Positions("Cancel")[1] = "request" /\ Positions("Cancel")[2] = "options"
  BY <1>2
<1>4. Positioned("Cancel") = {"request", "options"}
  BY <1>3 DEF Positioned
<1>5. Laid("Cancel")
  BY <1>3 DEF Laid
<1>6. Keyed("Cancel")
  BY <1>2, <1>4, NothingOmitted DEF Keyed
<1>7. Carrying("Cancel") /\ Needing("Cancel")
  BY <1>2, <1>4 DEF Carrying, Needing
<1>8. Leaving("Cancel") /\ Defaults("Cancel")
  BY <1>2, NothingOmitted DEF Leaving, Defaults, Same, default
<1>9. Fitting("Cancel")
  BY <1>2, <1>4, NothingOmitted DEF Fitting, Plausible, default
<1>10. Strict("Cancel")
  BY <1>2, <1>4, NothingOmitted DEF Strict, Unchecked
<1> QED BY <1>1, <1>5, <1>6, <1>7, <1>8, <1>9, <1>10, WithoutCodes DEF Tabled

LEMMA ResultTables == Tabled("Result")
<1> USE DEF Result_init, Result_parse, Result_marshal
<1>1. MESSAGE_TYPE_MAP["Result"] = table(Result_init, Result_parse, Result_marshal)
  BY DEF MESSAGE_TYPE_MAP
<1>2. /\ MESSAGE_TYPE_MAP["Result"].layout = Result_parse.layout
      /\ MESSAGE_TYPE_MAP["Result"].init = Result_init
      /\ MESSAGE_TYPE_MAP["Result"].takes = Result_parse.takes
      /\ MESSAGE_TYPE_MAP["Result"].omits = Result_marshal
  BY <1>1 DEF table
<1>3. /\ Len(Positions("Result")) = 2 /\ least("Result") = 2 /\ 1..2 = {1, 2}
      /\ Positions("Result")[1] = "request" /\ Positions("Result")[2] = "options"
  BY <1>2
<1>4. Positioned("Result") = {"request", "options"}
  BY <1>3 DEF Positioned
<1>5. Laid("Result")
  BY <1>3 DEF Laid
<1>6. Keyed("Result")
  BY <1>2, <1>4, NothingOmitted DEF Keyed
<1>7. Carrying("Result") /\ Needing("Result")
  BY <1>2, <1>4 DEF Carrying, Needing
<1>8. Leaving("Result") /\ Defaults("Result")
  BY <1>2, NothingOmitted DEF Leaving, Defaults, Same, default
<1>9. Fitting("Result")
  BY <1>2, <1>4, NothingOmitted DEF Fitting, Plausible, default
<1>10. Strict("Result")
  BY <1>2, <1>4, NothingOmitted DEF Strict, Unchecked
<1> QED BY <1>1, <1>5, <1>6, <1>7, <1>8, <1>9, <1>10, WithoutCodes DEF Tabled

LEMMA RegisterTables == Tabled("Register")
<1> USE DEF Register_init, Register_parse, Register_marshal
<1>1. MESSAGE_TYPE_MAP["Register"] = table(Register_init, Register_parse, Register_marshal)
  BY DEF MESSAGE_TYPE_MAP
<1>2. /\ MESSAGE_TYPE_MAP["Register"].layout = Register_parse.layout
      /\ MESSAGE_TYPE_MAP["Register"].init = Register_init
      /\ MESSAGE_TYPE_MAP["Register"].takes = Register_parse.takes
      /\ MESSAGE_TYPE_MAP["Register"].omits = Register_marshal
  BY <1>1 DEF table
<1>3. /\ Len(Positions("Register")) = 3 /\ least("Register") = 3 /\ 1..3 = {1, 2, 3}
      /\ Positions("Register")[1] = "request" /\ Positions("Register")[2] = "options"
      /\ Positions("Register")[3] = "procedure"
  BY <1>2
<1>4. Positioned("Register") = {"request", "options", "procedure"}
  BY <1>3 DEF Positioned
<1>5. Laid("Register")
  BY <1>3 DEF Laid
<1>6. Keyed("Register")
  BY <1>2, <1>4, NothingOmitted DEF Keyed
<1>7. Carrying("Register") /\ Needing("Register")
  BY <1>2, <1>4 DEF Carrying, Needing
<1>8. Leaving("Register") /\ Defaults("Register")
  BY <1>2, NothingOmitted DEF Leaving, Defaults, Same, default
<1>9. Fitting("Register")
  BY <1>2, <1>4, NothingOmitted DEF Fitting, Plausible, default
<1>10. Strict("Register")
  BY <1>2, <1>4, NothingOmitted DEF Strict, Unchecked
<1> QED BY <1>1, <1>5, <1>6, <1>7, <1>8, <1>9, <1>10, WithoutCodes DEF Tabled

LEMMA RegisteredTables == Tabled("Registered")
<1> USE DEF Registered_init, Registered_parse, Registered_marshal
<1>1. MESSAGE_TYPE_MAP["Registered"] = table(Registered_init, Registered_parse, Registered_marshal)
  BY DEF MESSAGE_TYPE_MAP
<1>2. /\ MESSAGE_TYPE_MAP["Registered"].layout = Registered_parse.layout
      /\ MESSAGE_TYPE_MAP["Registered"].init = Registered_init
      /\ MESSAGE_TYPE_MAP["Registered"].takes = Registered_parse.takes
      /\ MESSAGE_TYPE_MAP["Registered"].omits = Registered_marshal
  BY <1>1 DEF table
<1>3. /\ Len(Positions("Registered")) = 2 /\ least("Registered") = 2 /\ 1..2 = {1, 2}
      /\ Positions("Registered")[1] = "request" /\ Positions("Registered")[2] = "registration"
  BY <1>2
<1>4. Positioned("Registered") = {"request", "registration"}
  BY <1>3 DEF Positioned
<1>5. Laid("Registered")
  BY <1>3 DEF Laid
<1>6. Keyed("Registered")
  BY <1>2, <1>4, NothingOmitted DEF Keyed
<1>7. Carrying("Registered") /\ Needing("Registered")
  BY <1>2, <1>4 DEF Carrying, Needing
<1>8. Leaving("Registered") /\ Defaults("Registered")
  BY <1>2, NothingOmitted DEF Leaving, Defaults, Same, default
<1>9. Fitting("Registered")
  BY <1>2, <1>4, NothingOmitted DEF Fitting, Plausible, default
<1>10. Strict("Registered")
  BY <1>2, <1>4, NothingOmitted DEF Strict, Unchecked
<1> QED BY <1>1, <1>5, <1>6, <1>7, <1>8, <1>9, <1>10, WithoutCodes DEF Tabled

LEMMA UnregisterTables == Tabled("Unregister")
<1> USE DEF Unregister_init, Unregister_parse, Unregister_marshal
<1>1. MESSAGE_TYPE_MAP["Unregister"] = table(Unregister_init, Unregister_parse, Unregister_marshal)
  BY DEF MESSAGE_TYPE_MAP
<1>2. /\ MESSAGE_TYPE_MAP["Unregister"].layout = Unregister_parse.layout
      /\ MESSAGE_TYPE_MAP["Unregister"].init = Unregister_init
      /\ MESSAGE_TYPE_MAP["Unregister"].takes = Unregister_parse.takes
      /\ MESSAGE_TYPE_MAP["Unregister"].omits = Unregister_marshal
  BY <1>1 DEF table
<1>3. /\ Len(Positions("Unregister")) = 3 /\ least("Unregister") = 2 /\ 1..3 = {1, 2, 3}
      /\ Positions("Unregister")[1] = "request" /\ Positions("Unregister")[2] = "registration"
      /\ Positions("Unregister")[3] = "options"
  BY <1>2
<1>4. Positioned("Unregister") = {"request", "registration", "options"}
  BY <1>3 DEF Positioned
<1>5. Laid("Unregister")
  BY <1>3 DEF Laid
<1>6. Keyed("Unregister")
  BY <1>2, <1>4, NothingOmitted DEF Keyed
<1>7. Carrying("Unregister") /\ Needing("Unregister")
  BY <1>2, <1>4 DEF Carrying, Needing
<1>8. Leaving("Unregister") /\ Defaults("Unregister")
  BY <1>2, NothingOmitted DEF Leaving, Defaults, Same, default
<1>9. Fitting("Unregister")
  BY <1>2, <1>4, NothingOmitted DEF Fitting, Plausible, default
<1>10. Strict("Unregister")
  BY <1>2, <1>4, NothingOmitted DEF Strict, Unchecked
<1> QED BY <1>1, <1>5, <1>6, <1>7, <1>8, <1>9, <1>10, WithoutCodes DEF Tabled

LEMMA UnregisteredTables == Tabled("Unregistered")
<1> USE DEF Unregistered_init, Unregistered_parse, Unregistered_marshal
<1>1. MESSAGE_TYPE_MAP["Unregistered"] = table(Unregistered_init, Unregistered_parse, Unregistered_marshal)
  BY DEF MESSAGE_TYPE_MAP
<1>2. /\ MESSAGE_TYPE_MAP["Unregistered"].layout = Unregistered_parse.layout
      /\ MESSAGE_TYPE_MAP["Unregistered"].init = Unregistered_init
      /\ MESSAGE_TYPE_MAP["Unregistered"].takes = Unregistered_parse.takes
      /\ MESSAGE_TYPE_MAP["Unregistered"].omits = Unregistered_marshal
  BY <1>1 DEF table
<1>3. /\ Len(Positions("Unregistered")) = 2 /\ least("Unregistered") = 1 /\ 1..2 = {1, 2}
      /\ Positions("Unregistered")[1] = "request" /\ Positions("Unregistered")[2] = "options"
  BY <1>2
<1>4. Positioned("Unregistered") = {"request", "options"}
  BY <1>3 DEF Positioned
<1>5. Laid("Unregistered")
  BY <1>3 DEF Laid
<1>6. Keyed("Unregistered")
  BY <1>2, <1>4, NothingOmitted DEF Keyed
<1>7. Carrying("Unregistered") /\ Needing("Unregistered")
  BY <1>2, <1>4 DEF Carrying, Needing
<1>8. Leaving("Unregistered") /\ Defaults("Unregistered")
  BY <1>2, NothingOmitted DEF Leaving, Defaults, Same, default
<1>9. Fitting("Unregistered")
  BY <1>2, <1>4, NothingOmitted DEF Fitting, Plausible, default
<1>10. Strict("Unregistered")
  BY <1>2, <1>4, NothingOmitted DEF Strict, Unchecked
<1> QED BY <1>1, <1>5, <1>6, <1>7, <1>8, <1>9, <1>10, WithoutCodes DEF Tabled

LEMMA InvocationTables == Tabled("Invocation")
<1> USE DEF Invocation_init, Invocation_parse, Invocation_marshal
<1>1. MESSAGE_TYPE_MAP["Invocation"] = table(Invocation_init, Invocation_parse, Invocation_marshal)
  BY DEF MESSAGE_TYPE_MAP
<1>2. /\ MESSAGE_TYPE_MAP["Invocation"].layout = Invocation_parse.layout
      /\ MESSAGE_TYPE_MAP["Invocation"].init = Invocation_init
      /\ MESSAGE_TYPE_MAP["Invocation"].takes = Invocation_parse.takes
      /\ MESSAGE_TYPE_MAP["Invocation"].omits = Invocation_marshal
  BY <1>1 DEF table
<1>3. /\ Len(Positions("Invocation")) = 3 /\ least("Invocation") = 3 /\ 1..3 = {1, 2, 3}
      /\ Positions("Invocation")[1] = "request" /\ Positions("Invocation")[2] = "registration"
      /\ Positions("Invocation")[3] = "options"
  BY <1>2
<1>4. Positioned("Invocation") = {"request", "registration", "options"}
  BY <1>3 DEF Positioned
<1>5. Laid("Invocation")
  BY <1>3 DEF Laid
<1>6. Keyed("Invocation")
  BY <1>2, <1>4, NothingOmitted DEF Keyed
<1>7. Carrying("Invocation") /\ Needing("Invocation")
  BY <1>2, <1>4 DEF Carrying, Needing
<1>8. Leaving("Invocation") /\ Defaults("Invocation")
  BY <1>2, NothingOmitted DEF Leaving, Defaults, Same, default
<1>9. Fitting("Invocation")
  BY <1>2, <1>4, NothingOmitted DEF Fitting, Plausible, default
<1>10. Strict("Invocation")
  BY <1>2, <1>4, NothingOmitted DEF Strict, Unchecked
<1> QED BY <1>1, <1>5, <1>6, <1>7, <1>8, <1>9, <1>10, WithoutCodes DEF Tabled

LEMMA InterruptTables == Tabled("Interrupt")
<1> USE DEF Interrupt_init, Interrupt_parse, Interrupt_marshal
<1>1. MESSAGE_TYPE_MAP["Interrupt"] = table(Interrupt_init, Interrupt_parse, Interrupt_marshal)
  BY DEF MESSAGE_TYPE_MAP
<1>2. /\ MESSAGE_TYPE_MAP["Interrupt"].layout = Interrupt_parse.layout
      /\ MESSAGE_TYPE_MAP["Interrupt"].init = Interrupt_init
      /\ MESSAGE_TYPE_MAP["Interrupt"].takes = Interrupt_parse.takes
      /\ MESSAGE_TYPE_MAP["Interrupt"].omits = Interrupt_marshal
  BY <1>1 DEF table
<1>3. /\ Len(Positions("Interrupt")) = 2 /\ least("Interrupt") = 2 /\ 1..2 = {1, 2}
      /\ Positions("Interrupt")[1] = "request" /\ Positions("Interrupt")[2] = "options"
  BY <1>2
<1>4. Positioned("Interrupt") = {"request", "options"}
  BY <1>3 DEF Positioned
<1>5. Laid("Interrupt")
  BY <1>3 DEF Laid
<1>6. Keyed("Interrupt")
  BY <1>2, <1>4, NothingOmitted DEF Keyed
<1>7. Carrying("Interrupt") /\ Needing("Interrupt")
  BY <1>2, <1>4 DEF Carrying, Needing
<1>8. Leaving("Interrupt") /\ Defaults("Interrupt")
  BY <1>2, NothingOmitted DEF Leaving, Defaults, Same, default
<1>9. Fitting("Interrupt")
  BY <1>2, <1>4, NothingOmitted DEF Fitting, Plausible, default
<1>10. Strict("Interrupt")
  BY <1>2, <1>4, NothingOmitted DEF Strict, Unchecked
<1> QED BY <1>1, <1>5, <1>6, <1>7, <1>8, <1>9, <1>10, WithoutCodes DEF Tabled

LEMMA YieldTables == Tabled("Yield")
<1> USE DEF Yield_init, Yield_parse, Yield_marshal
<1>1. MESSAGE_TYPE_MAP["Yield"] = table(Yield_init, Yield_parse, Yield_marshal)
  BY DEF MESSAGE_TYPE_MAP
<1>2. /\ MESSAGE_TYPE_MAP["Yield"].layout = Yield_parse.layout
      /\ MESSAGE_TYPE_MAP["Yield"].init = Yield_init
      /\ MESSAGE_TYPE_MAP["Yield"].takes = Yield_parse.takes
      /\ MESSAGE_TYPE_MAP["Yield"].omits = Yield_marshal
  BY <1>1 DEF table
<1>3. /\ Len(Positions("Yield")) = 2 /\ least("Yield") = 2 /\ 1..2 = {1, 2}
      /\ Positions("Yield")[1] = "request" /\ Positions("Yield")[2] = "options"
  BY <1>2
<1>4. Positioned("Yield") = {"request", "options"}
  BY <1>3 DEF Positioned
<1>5. Laid("Yield")
  BY <1>3 DEF Laid
<1>6. Keyed("Yield")
  BY <1>2, <1>4, NothingOmitted DEF Keyed
<1>7. Carrying("Yield") /\ Needing("Yield")
  BY <1>2, <1>4 DEF Carrying, Needing
<1>8. Leaving("Yield") /\ Defaults("Yield")
  BY <1>2, NothingOmitted DEF Leaving, Defaults, Same, default
<1>9. Fitting("Yield")
  BY <1>2, <1>4, NothingOmitted DEF Fitting, Plausible, default
<1>10. Strict("Yield")
  BY <1>2, <1>4, NothingOmitted DEF Strict, Unchecked
<1> QED BY <1>1, <1>5, <1>6, <1>7, <1>8, <1>9, <1>10, WithoutCodes DEF Tabled

LEMMA SessionDetailsTables == Tabled("SessionDetails")
<1> USE DEF SessionDetails_init, SessionDetails_parse, SessionDetails_marshal
<1>1. MESSAGE_TYPE_MAP["SessionDetails"] = table(SessionDetails_init, SessionDetails_parse, SessionDetails_marshal)
  BY DEF MESSAGE_TYPE_MAP
<1>2. /\ MESSAGE_TYPE_MAP["SessionDetails"].layout = SessionDetails_parse.layout
      /\ MESSAGE_TYPE_MAP["SessionDetails"].init = SessionDetails_init
      /\ MESSAGE_TYPE_MAP["SessionDetails"].takes = SessionDetails_parse.takes
      /\ MESSAGE_TYPE_MAP["SessionDetails"].omits = SessionDetails_marshal
  BY <1>1 DEF table
<1>3. /\ Len(Positions("SessionDetails")) = 1 /\ least("SessionDetails") = 1 /\ 1..1 = {1}
      /\ Positions("SessionDetails")[1] = "options"
  BY <1>2
<1>4. Positioned("SessionDetails") = {"options"}
  BY <1>3 DEF Positioned
<1>5. Laid("SessionDetails")
  BY <1>3 DEF Laid
<1>6. Keyed("SessionDetails")
  BY <1>2, <1>4, NothingOmitted DEF Keyed
<1>7. Carrying("SessionDetails") /\ Needing("SessionDetails")
  BY <1>2, <1>4 DEF Carrying, Needing
<1>8. Leaving("SessionDetails") /\ Defaults("SessionDetails")
  BY <1>2, NothingOmitted DEF Leaving, Defaults, Same, default
<1>9. Fitting("SessionDetails")
  BY <1>2, <1>4, NothingOmitted DEF Fitting, Plausible, default
<1>10. Strict("SessionDetails")
  BY <1>2, <1>4, NothingOmitted DEF Strict, Unchecked
<1> QED BY <1>1, <1>5, <1>6, <1>7, <1>8, <1>9, <1>10, WithoutCodes DEF Tabled

(* TransportDetails and CryptosignAuthextra have codes. *)

LEMMA CryptosignAuthextraTables == Tabled("CryptosignAuthextra")
<1> USE DEF CryptosignAuthextra_init, CryptosignAuthextra_parse, CryptosignAuthextra_marshal
<1>1. MESSAGE_TYPE_MAP["CryptosignAuthextra"] =
        coded(CryptosignAuthextra_init, CryptosignAuthextra_parse,
              CryptosignAuthextra_marshal, CryptosignAuthextra_writes)
  BY DEF MESSAGE_TYPE_MAP
<1>2. /\ MESSAGE_TYPE_MAP["CryptosignAuthextra"].layout = CryptosignAuthextra_parse.layout
      /\ MESSAGE_TYPE_MAP["CryptosignAuthextra"].init = CryptosignAuthextra_init
      /\ MESSAGE_TYPE_MAP["CryptosignAuthextra"].takes = CryptosignAuthextra_parse.takes
      /\ MESSAGE_TYPE_MAP["CryptosignAuthextra"].omits = CryptosignAuthextra_marshal
      /\ MESSAGE_TYPE_MAP["CryptosignAuthextra"].reads = [a \in Keys |-> unhexed]
      /\ MESSAGE_TYPE_MAP["CryptosignAuthextra"].writes = [a \in Keys |-> hexed]
  BY <1>1 DEF table, coded, CryptosignAuthextra_writes
<1>3. /\ Len(Positions("CryptosignAuthextra")) = 1 /\ least("CryptosignAuthextra") = 1
      /\ 1..1 = {1} /\ Positions("CryptosignAuthextra")[1] = "options"
  BY <1>2
<1>4. Positioned("CryptosignAuthextra") = {"options"}
  BY <1>3 DEF Positioned
<1>5. Laid("CryptosignAuthextra")
  BY <1>3 DEF Laid
<1>6. Keyed("CryptosignAuthextra")
  BY <1>2, <1>4, NothingOmitted DEF Keyed
<1>7. Carrying("CryptosignAuthextra") /\ Needing("CryptosignAuthextra")
  BY <1>2, <1>4 DEF Carrying, Needing
<1>8. Leaving("CryptosignAuthextra") /\ Defaults("CryptosignAuthextra")
  BY <1>2, NothingOmitted DEF Leaving, Defaults, Same, default
<1>9. ASSUME NEW a \in Attributes("CryptosignAuthextra"), NEW v \in Initial("CryptosignAuthextra")[a]
      PROVE  v # "none" => Sent("CryptosignAuthextra", a, v)
  <2>1. a \in Keys => v \in {"raw", "none"}
    BY <1>2, <1>9
  <2>2. a \in Keys => Taking("CryptosignAuthextra")[a] = {"hex", "none"}
    BY <1>2
  <2>3. a \notin Keys => Taking("CryptosignAuthextra")[a] = Initial("CryptosignAuthextra")[a]
    BY <1>2
  <2>4. a \in Keys => encoded("CryptosignAuthextra", a, "raw") = "hex" /\ decoded("CryptosignAuthextra", a, "hex") = "raw"
    BY <1>2 DEF encoded, decoded, code, hexed, unhexed
  <2>5. a \notin Keys => encoded("CryptosignAuthextra", a, v) = v /\ decoded("CryptosignAuthextra", a, v) = v
    BY <1>2 DEF encoded, decoded, code
  <2> QED BY <2>1, <2>2, <2>3, <2>4, <2>5 DEF Sent
<1>10. \A a \in Attributes("CryptosignAuthextra") :
          default(a, "none") = "none" /\ Sent("CryptosignAuthextra", a, "none")
  BY <1>2 DEF default, Sent
<1>11. \A a \in Attributes("CryptosignAuthextra") : \A v : default(a, v) = v
  BY <1>2 DEF default
<1>12. Reading("CryptosignAuthextra")
  BY <1>4, <1>6, <1>9, <1>10, <1>11 DEF Reading, Keyed
<1>13. Writing("CryptosignAuthextra")
  BY <1>4, <1>6, <1>9, <1>10, <1>11 DEF Writing, Keyed
<1>14. Checking("CryptosignAuthextra")
  <2>1. ASSUME NEW a \in Attributes("CryptosignAuthextra"),
               NEW v \in Taking("CryptosignAuthextra")[a]
        PROVE  decoded("CryptosignAuthextra", a, v) \in Initial("CryptosignAuthextra")[a]
    <3>1. CASE a \in Keys
      BY <1>2, <3>1 DEF decoded, code, unhexed
    <3>2. CASE a \notin Keys
      BY <1>2, <3>2 DEF decoded, code
    <3> QED BY <3>1, <3>2
  <2>2. \A a \in Attributes("CryptosignAuthextra") :
           "none" \in Initial("CryptosignAuthextra")[a] /\ a # "payload"
    BY <1>2
  <2> QED BY <1>4, <2>1, <2>2 DEF Checking
<1> QED BY <1>5, <1>6, <1>7, <1>8, <1>12, <1>13, <1>14 DEF Tabled

LEMMA TransportDetailsTables == Tabled("TransportDetails")
<1> DEFINE Names == {"own", "peer", "websocket_protocol", "http_cbtid"}
           Processes == {"own_pid", "own_tid", "own_fd"}
           Flags == {"is_server", "is_secure"}
           Maps == {"peer_cert", "http_headers_received", "http_headers_sent"}
           All == Codes \cup Names \cup Processes \cup Flags \cup Maps
                  \cup {"channel_id", "websocket_extensions_in_use"}
<1>1. MESSAGE_TYPE_MAP["TransportDetails"] =
        coded(TransportDetails_init, TransportDetails_parse,
              TransportDetails_marshal, TransportDetails_writes)
  BY DEF MESSAGE_TYPE_MAP
<1>2. /\ MESSAGE_TYPE_MAP["TransportDetails"].layout = TransportDetails_parse.layout
      /\ MESSAGE_TYPE_MAP["TransportDetails"].init = TransportDetails_init
      /\ MESSAGE_TYPE_MAP["TransportDetails"].takes = TransportDetails_parse.takes
      /\ MESSAGE_TYPE_MAP["TransportDetails"].omits = TransportDetails_marshal
      /\ MESSAGE_TYPE_MAP["TransportDetails"].reads =
           [a \in Codes |-> unnamed] ++ [channel_id |-> unhexed]
      /\ MESSAGE_TYPE_MAP["TransportDetails"].writes = [a \in Codes |-> named]
  BY <1>1 DEF table, coded, TransportDetails_parse, TransportDetails_writes
<1>3. /\ Len(Positions("TransportDetails")) = 1 /\ least("TransportDetails") = 1
      /\ 1..1 = {1} /\ Positions("TransportDetails")[1] = "options"
  BY <1>2 DEF TransportDetails_parse
<1>4. Positioned("TransportDetails") = {"options"}
  BY <1>3 DEF Positioned
<1>5. Laid("TransportDetails")
  BY <1>3 DEF Laid
<1>6. /\ DOMAIN TransportDetails_init = All
      /\ \A a \in Codes : TransportDetails_init[a] = {"zero", "one", "none"}
      /\ \A a \in All : "none" \in TransportDetails_init[a]
      /\ TransportDetails_init["channel_id"] = {"raw", "none"}
  <2>1. DOMAIN TransportDetails_init = All
    BY DEF TransportDetails_init
  <2>2. \A a \in Codes : TransportDetails_init[a] = {"zero", "one", "none"}
    BY DEF TransportDetails_init
  <2>3. \A a \in Codes \cup Names \cup Processes : "none" \in TransportDetails_init[a]
    BY DEF TransportDetails_init
  <2>4. \A a \in Flags \cup Maps : "none" \in TransportDetails_init[a]
    BY DEF TransportDetails_init
  <2>5. "none" \in TransportDetails_init["websocket_extensions_in_use"]
    BY DEF TransportDetails_init
  <2>6. TransportDetails_init["channel_id"] = {"raw", "none"}
    BY DEF TransportDetails_init
  <2> QED BY <2>1, <2>2, <2>3, <2>4, <2>5, <2>6
<1>7. /\ DOMAIN TransportDetails_parse.takes = All \ {"peer_cert"}
      /\ \A a \in Codes : TransportDetails_parse.takes[a] = {"nullName", "name", "none"}
      /\ \A a \in All \ (Codes \cup {"peer_cert"}) :
            TransportDetails_parse.takes[a] =
              IF a = "channel_id" THEN {"hex", "none"} ELSE TransportDetails_init[a]
  BY <1>6 DEF TransportDetails_parse
<1>8. DOMAIN TransportDetails_marshal = All /\ \A a \in All : TransportDetails_marshal[a] = {}
  BY <1>6 DEF TransportDetails_marshal
<1>9. Attributes("TransportDetails") = All /\ "payload" \notin All /\ "options" \notin All
  BY <1>2, <1>6
<1>10. Keyed("TransportDetails")
  BY <1>2, <1>4, <1>7, <1>8, <1>9 DEF Keyed
<1>11. Carrying("TransportDetails") /\ Needing("TransportDetails")
  BY <1>4, <1>9 DEF Carrying, Needing
<1>12. \A a \in All : \A v : default(a, v) = v
  BY DEF default
<1>13. Leaving("TransportDetails") /\ Defaults("TransportDetails")
  BY <1>2, <1>8, <1>9, <1>12 DEF Leaving, Defaults
<1>14. ASSUME NEW a \in All, NEW v \in TransportDetails_init[a]
       PROVE  Sent("TransportDetails", a, v)
  <2>1. CASE a \in Codes
    <3>1. /\ encoded("TransportDetails", a, "zero") = "nullName"
          /\ encoded("TransportDetails", a, "one") = "name"
          /\ encoded("TransportDetails", a, "none") = "none"
      BY <1>2, <2>1 DEF encoded, code, named
    <3>2. /\ decoded("TransportDetails", a, "nullName") = "zero"
          /\ decoded("TransportDetails", a, "name") = "one"
          /\ decoded("TransportDetails", a, "none") = "none"
      BY <1>2, <2>1 DEF decoded, code, unnamed
    <3>3. v \in {"zero", "one", "none"} /\ Taking("TransportDetails")[a] = {"nullName", "name", "none"}
      BY <1>2, <1>6, <1>7, <2>1
    <3> QED BY <3>1, <3>2, <3>3 DEF Sent
  <2>2. CASE a = "channel_id"
    <3>1. encoded("TransportDetails", a, "none") = "none" /\ decoded("TransportDetails", a, "none") = "none"
      BY <1>2, <2>2 DEF encoded, decoded, code, unhexed
    <3>2. "none" \in Taking("TransportDetails")[a]
      BY <1>2, <1>7, <2>2
    <3> QED BY <2>2, <3>1, <3>2 DEF Sent
  <2>3. CASE a \notin Codes /\ a # "channel_id"
    <3>1. encoded("TransportDetails", a, v) = v /\ decoded("TransportDetails", a, v) = v
      BY <1>2, <2>3 DEF encoded, decoded, code
    <3>2. a \in DOMAIN Taking("TransportDetails") => v \in Taking("TransportDetails")[a]
      BY <1>2, <1>7, <1>14, <2>3
    <3> QED BY <3>1, <3>2 DEF Sent
  <2> QED BY <2>1, <2>2, <2>3
<1>15. Reading("TransportDetails")
  BY <1>2, <1>4, <1>6, <1>8, <1>12, <1>14 DEF Reading
<1>16. Writing("TransportDetails")
  BY <1>2, <1>4, <1>6, <1>8, <1>12, <1>14 DEF Writing
<1>17. Checking("TransportDetails")
  <2>1. ASSUME NEW a \in All \ {"peer_cert"}, NEW v \in TransportDetails_parse.takes[a]
        PROVE  decoded("TransportDetails", a, v) \in TransportDetails_init[a]
    <3>1. CASE a \in Codes
      BY <1>2, <1>6, <1>7, <2>1, <3>1 DEF decoded, code, unnamed
    <3>2. CASE a = "channel_id"
      BY <1>2, <1>6, <1>7, <2>1, <3>2 DEF decoded, code, unhexed
    <3>3. CASE a \notin Codes /\ a # "channel_id"
      BY <1>2, <1>7, <2>1, <3>3 DEF decoded, code
    <3> QED BY <3>1, <3>2, <3>3
  <2> QED BY <1>2, <1>4, <1>6, <1>7, <1>9, <2>1 DEF Checking
<1> QED BY <1>5, <1>10, <1>11, <1>13, <1>15, <1>16, <1>17 DEF Tabled

LEMMA ParticularTables == Particular
<1>1. /\ MESSAGE_TYPE_MAP["Hello"].init = Hello_init
      /\ MESSAGE_TYPE_MAP["Hello"].takes = Hello_parse.takes
      /\ MESSAGE_TYPE_MAP["Hello"].omits = Hello_marshal
  BY DEF MESSAGE_TYPE_MAP, table
<1>2. /\ MESSAGE_TYPE_MAP["Welcome"].init = Welcome_init
      /\ MESSAGE_TYPE_MAP["Welcome"].takes = Welcome_parse.takes
      /\ MESSAGE_TYPE_MAP["Welcome"].omits = Welcome_marshal
  BY DEF MESSAGE_TYPE_MAP, table
<1>3. /\ MESSAGE_TYPE_MAP["Register"].init = Register_init
      /\ MESSAGE_TYPE_MAP["Register"].layout = Register_parse.layout
      /\ MESSAGE_TYPE_MAP["Register"].omits = Register_marshal
  BY DEF MESSAGE_TYPE_MAP, table
<1>4. /\ MESSAGE_TYPE_MAP["Unsubscribed"].layout = Unsubscribed_parse.layout
      /\ MESSAGE_TYPE_MAP["Unsubscribed"].omits = Unsubscribed_marshal
  BY DEF MESSAGE_TYPE_MAP, table
<1>5. /\ MESSAGE_TYPE_MAP["Unregistered"].layout = Unregistered_parse.layout
      /\ MESSAGE_TYPE_MAP["Unregistered"].omits = Unregistered_marshal
  BY DEF MESSAGE_TYPE_MAP, table
<1>6. MESSAGE_TYPE_MAP["TransportDetails"].omits = TransportDetails_marshal
  BY DEF MESSAGE_TYPE_MAP, table, coded
<1>7. /\ \A c \in {"Hello", "Welcome"} :
          /\ {"roles", "resume_token"} \subseteq DOMAIN Omitted(c)
          /\ {"roles", "resume_token"} \subseteq DOMAIN Taking(c)
          /\ Omitted(c).roles = {}
      /\ "resume_session" \in DOMAIN Omitted("Hello") \cap DOMAIN Taking("Hello")
      /\ {"authmethod", "authrole", "resumable"} \subseteq DOMAIN Omitted("Welcome") \cap DOMAIN Taking("Welcome")
      /\ Omitted("Hello").resume_token = {"none"}
      /\ Omitted("Welcome").resume_token = Falsy
      /\ "none" \in Initial("Welcome").authmethod
  BY <1>1, <1>2 DEF Hello_parse, Hello_marshal, Welcome_init, Welcome_parse, Welcome_marshal
<1>8. /\ {"procedure", "match"} \subseteq Attributes("Register")
      /\ "procedure" \in Positioned("Register") /\ "match" \in DOMAIN Omitted("Register")
      /\ Initial("Register").match = optional(match)
      /\ Omitted("Register").match = {"none", "exact"}
  BY <1>3 DEF Register_init, Register_parse, Register_marshal, Positioned
<1>9. /\ "request" \in Positioned("Unsubscribed") /\ "request" \in Positioned("Unregistered")
      /\ "subscription" \in DOMAIN Omitted("Unsubscribed") /\ Omitted("Unsubscribed").subscription = {"none"}
      /\ "registration" \in DOMAIN Omitted("Unregistered") /\ Omitted("Unregistered").registration = {"none"}
  BY <1>4, <1>5 DEF Unsubscribed_parse, Unsubscribed_marshal, Unregistered_parse, Unregistered_marshal, Positioned
<1>10. {"channel_id", "peer_cert"} \subseteq DOMAIN Omitted("TransportDetails")
  BY <1>6 DEF TransportDetails_marshal, TransportDetails_init
<1> QED BY <1>7, <1>8, <1>9, <1>10 DEF Particular


HIDE DEF int, bool, match, uri, str, hops, list, extra, dict, bytes, opaque, Values, Falsy, optional, id,
         uri_gaps, uri_open, known, features, ints, strs, forward_for, given, truthy, ++,
         Payload, Enc, Payload_init, Enc_parse, Enc_marshal, Layout, PayloadAfter, Codes, Keys, Numbers,
         Positions, Attributes, HasPayload, Initial, Taking, Omitted, layout, least, Elements

LEMMA Tables == \A c \in DOMAIN MESSAGE_TYPE_MAP : Tabled(c)
<1>1. DOMAIN MESSAGE_TYPE_MAP =
              {"Hello", "Welcome", "Abort", "Challenge", "Authenticate", "Goodbye", "Error",
               "Publish", "Published", "Subscribe", "Subscribed", "Unsubscribe",
               "Unsubscribed", "Event", "EventReceived", "Call", "Cancel",
               "Result", "Register", "Registered", "Unregister", "Unregistered",
               "Invocation", "Interrupt", "Yield", "TransportDetails",
               "SessionDetails", "CryptosignAuthextra"}
  BY DEF MESSAGE_TYPE_MAP
<1> QED
  BY <1>1,
     HelloTables, WelcomeTables, AbortTables, ChallengeTables, AuthenticateTables,
     GoodbyeTables, ErrorTables, PublishTables, PublishedTables, SubscribeTables,
     SubscribedTables, UnsubscribeTables, UnsubscribedTables, EventTables,
     EventReceivedTables, CallTables, CancelTables, ResultTables, RegisterTables,
     RegisteredTables, UnregisterTables, UnregisteredTables, InvocationTables,
     InterruptTables, YieldTables, TransportDetailsTables, SessionDetailsTables,
     CryptosignAuthextraTables

-----------------------------------------------------------------------------
(* The messages of MessageSpec.                                            *)

LEMMA ListsChange ==
  ASSUME NEW l, IsList(l), NEW v
  PROVE  /\ \A i \in 1..Len(l) : IsList([l EXCEPT ![i] = v])
         /\ l # <<>> => IsList(SubSeq(l, 1, Len(l) - 1))
         /\ IsList(Append(l, v))
<1>1. PICK S : l \in Seq(S)
  BY DEF IsList
<1>2. l \in Seq(S \cup {v}) /\ v \in S \cup {v}
  BY <1>1
<1> DEFINE T == S \cup {v}
<1> HIDE DEF T
<1>3. l \in Seq(T) /\ v \in T
  BY <1>2 DEF T
<1>4. \A i \in 1..Len(l) : [l EXCEPT ![i] = v] \in Seq(T)
  BY <1>3
<1>5. l # <<>> => SubSeq(l, 1, Len(l) - 1) \in Seq(T)
  BY <1>3
<1>6. Append(l, v) \in Seq(T)
  BY <1>3
<1> QED BY <1>4, <1>5, <1>6 DEF IsList

\* What was asked for can be written, and only a pattern has a gap.
AskedPlausible == \A a \in DOMAIN asked :
    a \in Attributes(class) /\ Plausible(class, a, message_attr(class, a, asked[a]))

PatternFits(given_) ==
    "procedure" \in DOMAIN given_ =>
      \/ given_.procedure = "word"
      \/ /\ "match" \in DOMAIN given_
         /\ \/ given_.procedure = "openEnd" /\ given_.match = "prefix"
            \/ given_.procedure = "gap" /\ given_.match = "wildcard"

MadeSendable ==
    \/ message \in {Nothing, AssertionError}
    \/ message.is = "message" /\ Sendable(class, message.m)

WireIsWire == DOMAIN wire = {"list", "options", "garbled"} /\ IsList(wire.list)

WrittenAsMade == message.is = "message" /\ ~wire.garbled => Carries(wire, class, message.m)

GotAsParsed == got # Nothing => message.is = "message" /\ got = parse(class, wire)

MessageInv ==
    /\ class \in DOMAIN MESSAGE_TYPE_MAP
    /\ AskedPlausible
    /\ class = "Register" => PatternFits(asked)
    /\ MadeSendable
    /\ WireIsWire
    /\ WrittenAsMade
    /\ GotAsParsed

LEMMA MessageInvInit == MessageInit => MessageInv
<1> SUFFICES ASSUME MessageInit PROVE MessageInv
  OBVIOUS
<1> USE DEF MessageInit
<1>1. class \in DOMAIN MESSAGE_TYPE_MAP
  BY ClassesAssumption
<1>2. DOMAIN asked = {}
  BY NothingOmitted DEF empty
<1>3. AskedPlausible /\ PatternFits(asked)
  BY <1>2 DEF AskedPlausible, PatternFits
<1>4. MadeSendable /\ GotAsParsed
  BY DEF MadeSendable, GotAsParsed
<1>5. IsList(<<>>)
  <2>1. <<>> \in Seq({})
    OBVIOUS
  <2> QED BY <2>1 DEF IsList
<1>6. WireIsWire
  BY <1>5 DEF WireIsWire
<1>7. WrittenAsMade
  BY DEF WrittenAsMade, Nothing
<1> QED BY <1>1, <1>3, <1>4, <1>6, <1>7 DEF MessageInv

LEMMA GiveKeeps ==
  ASSUME MessageInv, NEW a \in Attributes(class), NEW v, Give(a, v)
  PROVE  MessageInv'
<1>1. /\ message = Nothing /\ a \notin DOMAIN asked
      /\ asked' = with(asked, a, v)
      /\ class' = class /\ message' = message /\ wire' = wire /\ got' = got
      /\ v \in Giveable(class, a) /\ wellFormed(class, a, v, asked)
      /\ v = "none" => a \notin Positioned(class)
      /\ v # required(class)[a]
  BY DEF Give
<1>2. /\ DOMAIN asked' = DOMAIN asked \cup {a} /\ asked'[a] = v
      /\ \A b \in DOMAIN asked : asked'[b] = asked[b]
  BY <1>1 DEF with
<1>3. Plausible(class, a, message_attr(class, a, v))
  BY <1>1, GivenIsPlausible
<1>4. AskedPlausible'
  BY <1>1, <1>2, <1>3 DEF MessageInv, AskedPlausible
<1>5. class = "Register" => PatternFits(asked')
  <2>1. SUFFICES ASSUME class = "Register", "procedure" \in DOMAIN asked'
                 PROVE  \/ asked'.procedure = "word"
                        \/ /\ "match" \in DOMAIN asked'
                           /\ \/ asked'.procedure = "openEnd" /\ asked'.match = "prefix"
                              \/ asked'.procedure = "gap" /\ asked'.match = "wildcard"
    BY DEF PatternFits
  <2>2. CASE a = "procedure"
    <3>1. v # "none"
      BY <1>1, <2>1, <2>2, ParticularTables DEF Particular
    <3>2. \/ v = "word"
          \/ v = "openEnd" /\ "match" \in DOMAIN asked /\ asked.match = "prefix"
          \/ v = "gap" /\ "match" \in DOMAIN asked /\ asked.match = "wildcard"
      BY <1>1, <2>1, <2>2, <3>1 DEF wellFormed
    <3> QED BY <1>2, <2>2, <3>2
  <2>3. CASE a # "procedure"
    BY <1>2, <2>1, <2>3 DEF MessageInv, PatternFits
  <2> QED BY <2>2, <2>3
<1> QED BY <1>1, <1>4, <1>5
        DEF MessageInv, MadeSendable, WireIsWire, WrittenAsMade, GotAsParsed, PatternFits

LEMMA EncodeKeeps ==
  ASSUME MessageInv, NEW payload \in bytes, NEW key \in {"none", "word"},
         NEW serializer \in {"none", "word"}, Encode(payload, key, serializer)
  PROVE  MessageInv'
<1> DEFINE given_ == [payload |-> payload, enc_algo |-> "word", enc_key |-> key,
                      enc_serializer |-> serializer]
<1>1. /\ HasPayload(class) /\ DOMAIN asked \cap (Payload \cup Enc) = {}
      /\ asked' = given_ ++ asked
      /\ class' = class /\ message' = message /\ wire' = wire /\ got' = got
  BY DEF Encode
<1>2. Keyed(class)
  BY Tables DEF MessageInv, Tabled
<1>3. DOMAIN given_ = {"payload"} \cup Enc
  BY DEF Enc
<1>4. \A a \in DOMAIN given_ : given_[a] \in bytes \cup {"none", "word"}
  OBVIOUS
<1> HIDE DEF given_
<1>5. /\ DOMAIN asked' = DOMAIN given_ \cup DOMAIN asked
      /\ \A a \in DOMAIN given_ : asked'[a] = given_[a]
      /\ \A a \in DOMAIN asked \ DOMAIN given_ : asked'[a] = asked[a]
  BY <1>1 DEF ++
<1>6. AskedPlausible'
  <2> SUFFICES ASSUME NEW a \in DOMAIN asked'
               PROVE  a \in Attributes(class) /\ Plausible(class, a, message_attr(class, a, asked'[a]))
    BY <1>1 DEF AskedPlausible
  <2>1. CASE a \in DOMAIN given_
    BY <1>1, <1>2, <1>3, <1>4, <1>5, <2>1, EncodedIsPlausible
  <2>2. CASE a \notin DOMAIN given_
    BY <1>5, <2>2 DEF MessageInv, AskedPlausible
  <2> QED BY <2>1, <2>2
<1>7. class = "Register" => PatternFits(asked')
  <2>1. {"procedure", "match"} \cap DOMAIN given_ = {}
    BY <1>3 DEF Enc
  <2> QED BY <1>5, <2>1 DEF MessageInv, PatternFits
<1> QED BY <1>1, <1>6, <1>7
        DEF MessageInv, MadeSendable, WireIsWire, WrittenAsMade, GotAsParsed, PatternFits

LEMMA SendKeeps ==
  ASSUME MessageInv, Send
  PROVE  MessageInv'
<1> DEFINE attr == [a \in DOMAIN asked |-> message_attr(class, a, asked[a])]
           f == attr ++ required(class)
           made == constructed(class, f)
<1>1. /\ message = Nothing /\ message' = made
      /\ wire' = IF made = AssertionError THEN wire ELSE [garbled |-> FALSE] ++ marshal(class, made.m)
      /\ class' = class /\ asked' = asked /\ got' = got
  BY DEF Send
<1>2. Tabled(class) /\ Particular
  BY Tables, ParticularTables DEF MessageInv
<1>3. /\ DOMAIN f = Attributes(class)
      /\ \A a \in Attributes(class) :
            f[a] = IF a \in DOMAIN asked THEN message_attr(class, a, asked[a]) ELSE required(class)[a]
  <2>1. DOMAIN asked \subseteq Attributes(class)
    BY DEF MessageInv, AskedPlausible
  <2>2. DOMAIN required(class) = Attributes(class)
    BY DEF required
  <2>3. DOMAIN attr = DOMAIN asked /\ \A a \in DOMAIN asked : attr[a] = message_attr(class, a, asked[a])
    OBVIOUS
  <2> HIDE DEF attr
  <2> QED BY <2>1, <2>2, <2>3 DEF ++
<1> HIDE DEF f
<1>4. ASSUME NEW a \in Attributes(class)
      PROVE  Plausible(class, a, f[a])
  <2>1. CASE a \in DOMAIN asked
    BY <1>3, <2>1 DEF MessageInv, AskedPlausible
  <2>2. CASE a \notin DOMAIN asked
    <3>1. Needing(class) /\ "options" \notin Attributes(class)
      BY <1>2 DEF Tabled, Keyed
    <3> QED BY <1>3, <2>2, <3>1, RequiredIsPlausible
  <2> QED BY <2>1, <2>2
<1>5. class = "Register" => f.procedure \in procedureUri(f.match)
  <2>1. SUFFICES ASSUME class = "Register"
                 PROVE  f.procedure \in procedureUri(f.match)
    OBVIOUS
  <2>2. {"procedure", "match"} \subseteq Attributes(class)
    BY <1>2, <2>1 DEF Particular
  <2>3. \A a, v : message_attr(class, a, v) = v
    BY <2>1 DEF message_attr
  <2>4. "procedure" \notin DOMAIN asked => f.procedure = "word"
    <3>1. SUFFICES ASSUME "procedure" \notin DOMAIN asked
                   PROVE  f.procedure = "word"
      OBVIOUS
    <3>2. MESSAGE_TYPE_MAP["Register"].init = Register_init
      BY DEF MESSAGE_TYPE_MAP, table
    <3>3. Register_init.procedure \cap {"one", "word", "roles"} = {"word"}
      BY DEF Register_init, str, uri, match
    <3>4. "procedure" \in Positioned("Register")
      BY <1>2 DEF Particular
    <3>5. required("Register")["procedure"] = "word"
      BY <2>1, <2>2, <3>2, <3>3, <3>4 DEF required
    <3> QED BY <1>3, <2>1, <2>2, <3>1, <3>5
  <2>5. "procedure" \in DOMAIN asked => f.procedure = asked.procedure
    BY <1>3, <2>2, <2>3
  <2>6. "match" \in DOMAIN asked => f.match = asked.match
    BY <1>3, <2>2, <2>3
  <2>7. \/ f.procedure = "word"
        \/ f.procedure = "openEnd" /\ f.match = "prefix"
        \/ f.procedure = "gap" /\ f.match = "wildcard"
    BY <2>1, <2>4, <2>5, <2>6 DEF MessageInv, PatternFits
  <2>8. \A v : "word" \in procedureUri(v)
    BY DEF procedureUri, uri_open, uri_gaps, uri
  <2>9. "openEnd" \in procedureUri("prefix") /\ "gap" \in procedureUri("wildcard")
    BY DEF procedureUri, uri_open, uri_gaps
  <2> QED BY <2>7, <2>8, <2>9
<1>6. MadeSendable'
  <2>1. made # AssertionError => made.is = "message" /\ Sendable(class, made.m)
    BY <1>2, <1>3, <1>4, <1>5, MadeIsSendable
  <2> QED BY <1>1, <2>1 DEF MadeSendable
<1>7. got' = Nothing
  BY <1>1 DEF MessageInv, GotAsParsed, Nothing
<1>8. CASE made = AssertionError
  <2>1. WireIsWire' /\ WrittenAsMade'
    BY <1>1, <1>8 DEF MessageInv, WireIsWire, WrittenAsMade, AssertionError
  <2> QED BY <1>1, <1>6, <1>7, <2>1 DEF MessageInv, AskedPlausible, PatternFits, GotAsParsed
<1>9. CASE made # AssertionError
  <2> DEFINE sent == marshal(class, made.m)
  <2> HIDE DEF made
  <2>1. DOMAIN sent = {"list", "options"}
    BY DEF marshal
  <2> HIDE DEF sent
  <2>2. /\ DOMAIN wire' = {"list", "options", "garbled"}
        /\ wire'.list = sent.list /\ wire'.options = sent.options
    <3>1. wire' = [garbled |-> FALSE] ++ sent
      BY <1>1, <1>9 DEF sent
    <3> QED BY <2>1, <3>1 DEF ++
  <2>3. Carries(wire', class, made.m)
    BY <2>2 DEF Carries, sent
  <2>4. IsList(wire'.list)
    BY <1>2, <2>3, MarshalledIsList DEF Tabled
  <2>5. WireIsWire' /\ WrittenAsMade'
    BY <1>1, <2>2, <2>3, <2>4 DEF WireIsWire, WrittenAsMade
  <2> QED BY <1>1, <1>6, <1>7, <2>5 DEF MessageInv, AskedPlausible, PatternFits, GotAsParsed
<1> QED BY <1>8, <1>9

LEMMA GarbleKeeps ==
  ASSUME MessageInv, Garble
  PROVE  MessageInv'
<1>1. /\ got = Nothing /\ class' = class /\ asked' = asked /\ message' = message /\ got' = got
  BY DEF Garble
<1>2. DOMAIN wire = {"list", "options", "garbled"} /\ IsList(wire.list)
  BY DEF MessageInv, WireIsWire
<1>3. DOMAIN wire' = {"list", "options", "garbled"} /\ IsList(wire'.list) /\ wire'.garbled = TRUE
  <2>1. ASSUME NEW i \in 1..Len(wire.list), NEW v \in Garbled,
               wire' = [wire EXCEPT !.list[i] = v, !.garbled = TRUE]
        PROVE  DOMAIN wire' = {"list", "options", "garbled"} /\ IsList(wire'.list) /\ wire'.garbled = TRUE
    <3>1. wire'.list = [wire.list EXCEPT ![i] = v]
      BY <1>2, <2>1
    <3> QED BY <1>2, <2>1, <3>1, ListsChange
  <2>2. ASSUME wire.list # <<>>,
               wire' = [wire EXCEPT !.list = SubSeq(@, 1, Len(@) - 1), !.garbled = TRUE]
        PROVE  DOMAIN wire' = {"list", "options", "garbled"} /\ IsList(wire'.list) /\ wire'.garbled = TRUE
    <3>1. wire'.list = SubSeq(wire.list, 1, Len(wire.list) - 1)
      BY <1>2, <2>2
    <3> QED BY <1>2, <2>2, <3>1, ListsChange
  <2>3. ASSUME NEW v \in Garbled, wire' = [wire EXCEPT !.list = Append(@, v), !.garbled = TRUE]
        PROVE  DOMAIN wire' = {"list", "options", "garbled"} /\ IsList(wire'.list) /\ wire'.garbled = TRUE
    <3>1. wire'.list = Append(wire.list, v)
      BY <1>2, <2>3
    <3> QED BY <1>2, <2>3, <3>1, ListsChange
  <2>4. ASSUME NEW given_, wire' = [wire EXCEPT !.options = given_, !.garbled = TRUE]
        PROVE  DOMAIN wire' = {"list", "options", "garbled"} /\ IsList(wire'.list) /\ wire'.garbled = TRUE
    <3>1. wire'.list = wire.list
      BY <1>2, <2>4
    <3> QED BY <1>2, <2>4, <3>1
  <2> QED BY <2>1, <2>2, <2>3, <2>4 DEF Garble
<1>4. WireIsWire' /\ WrittenAsMade'
  BY <1>3 DEF WireIsWire, WrittenAsMade
<1> QED BY <1>1, <1>4
        DEF MessageInv, AskedPlausible, PatternFits, MadeSendable, GotAsParsed

LEMMA ReceiveKeeps ==
  ASSUME MessageInv, Receive
  PROVE  MessageInv'
<1>1. /\ message # Nothing /\ message # AssertionError /\ got' = parse(class, wire)
      /\ class' = class /\ asked' = asked /\ message' = message /\ wire' = wire
  BY DEF Receive
<1>2. message.is = "message"
  BY <1>1 DEF MessageInv, MadeSendable
<1>3. GotAsParsed'
  BY <1>1, <1>2 DEF GotAsParsed
<1> QED BY <1>1, <1>3
        DEF MessageInv, AskedPlausible, PatternFits, MadeSendable, WireIsWire, WrittenAsMade

LEMMA MessageInvKept == MessageInv /\ [MessageNext]_messageVars => MessageInv'
<1> SUFFICES ASSUME MessageInv, [MessageNext]_messageVars PROVE MessageInv'
  OBVIOUS
<1>1. CASE \E a \in Attributes(class), v \in Values \cup {"raw", "callable"} : Give(a, v)
  BY <1>1, GiveKeeps
<1>2. CASE \E payload \in bytes, key, serializer \in {"none", "word"} : Encode(payload, key, serializer)
  BY <1>2, EncodeKeeps
<1>3. CASE Send
  BY <1>3, SendKeeps
<1>4. CASE Garble
  BY <1>4, GarbleKeeps
<1>5. CASE Receive
  BY <1>5, ReceiveKeeps
<1>6. CASE UNCHANGED messageVars
  BY <1>6 DEF messageVars, MessageInv, AskedPlausible, PatternFits, MadeSendable, WireIsWire,
              WrittenAsMade, GotAsParsed
<1> QED BY <1>1, <1>2, <1>3, <1>4, <1>5, <1>6 DEF MessageNext

LEMMA MessageInvHolds == MessageSpec => []MessageInv
<1> QED BY MessageInvInit, MessageInvKept, PTL DEF MessageSpec

LEMMA WhatArrives == MessageInv => Delivered
<1> SUFFICES ASSUME MessageInv, got # Nothing, ~wire.garbled, ~NotCarried(class, message.m)
             PROVE  got.is = "message" /\ \A a \in Attributes(class) : Same(message.m[a], got.m[a])
  BY DEF Delivered
<1>1. Tabled(class) /\ Particular
  BY Tables, ParticularTables DEF MessageInv
<1>2. message.is = "message" /\ got = parse(class, wire)
  BY DEF MessageInv, GotAsParsed
<1>3. Carries(wire, class, message.m)
  BY <1>2 DEF MessageInv, WrittenAsMade
<1>4. Sendable(class, message.m)
  BY <1>2 DEF MessageInv, MadeSendable, Nothing, AssertionError
<1> QED BY <1>1, <1>2, <1>3, <1>4, RoundTrip

LEMMA WhatIsAccepted == MessageInv => AcceptedIsUsable
<1>0. ASSUME MessageInv, got \notin {Nothing, Rejected}
      PROVE  \A a \in Attributes(class) \ Unchecked(class) :
                found(class, wire)[a] \in MESSAGE_TYPE_MAP[class].init[a]
  <2>1. Tabled(class) /\ Particular
    BY <1>0, Tables, ParticularTables DEF MessageInv
  <2>2. got = parse(class, wire) /\ parse(class, wire) # Rejected
    BY <1>0 DEF MessageInv, GotAsParsed
  <2>3. Len(wire.list) \in Nat
    BY <1>0 DEF MessageInv, WireIsWire, IsList
  <2> QED BY <2>1, <2>2, <2>3, NotRefused DEF Initial
<1> SUFFICES ASSUME MessageInv, got.is = "message"
             PROVE  /\ class \in DOMAIN details =>
                         \A a \in DOMAIN details[class] : got.m[a] \in details[class][a]
                    /\ NotCarried(class, got.m) \/
                       LET again == parse(class, marshal(class, got.m)) IN
                         /\ again.is = "message"
                         /\ \A a \in Attributes(class) : Same(got.m[a], again.m[a])
  BY <1>0 DEF AcceptedIsUsable
<1>1. Tabled(class) /\ Particular
  BY Tables, ParticularTables DEF MessageInv
<1>2. got = parse(class, wire)
  BY DEF MessageInv, GotAsParsed, Nothing
<1>3. Len(wire.list) \in Nat
  BY DEF MessageInv, WireIsWire, IsList
<1>4. Sendable(class, got.m)
  BY <1>1, <1>2, <1>3, AcceptedIsSendable
<1>5. class \in DOMAIN details => \A a \in DOMAIN details[class] : got.m[a] \in details[class][a]
  BY <1>4, DetailsTake
<1>6. NotCarried(class, got.m) \/
      LET again == parse(class, marshal(class, got.m)) IN
        /\ again.is = "message"
        /\ \A a \in Attributes(class) : Same(got.m[a], again.m[a])
  BY <1>1, <1>2, <1>3, AcceptedAgain
<1> QED BY <1>5, <1>6

\* Delivered: whatever attributes an application or a router gives a message,
\* however many of them, the message that marshal() writes is accepted by
\* parse() and has the same attributes there.
THEOREM MessagesArrive == MessageSpec => []Delivered
<1> QED BY MessageInvHolds, WhatArrives, PTL

\* AcceptedIsUsable: whatever elements another implementation writes, of a
\* message that parse() accepts the handler's details object can be made, and
\* it can be marshalled into one that the next peer accepts as the same.
THEOREM AcceptedMessagesAreUsable == MessageSpec => []AcceptedIsUsable
<1> QED BY MessageInvHolds, WhatIsAccepted, PTL
=============================================================================
