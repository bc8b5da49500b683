-------------------------- MODULE WampRealmProofs --------------------------
(***************************************************************************)
(* Proofs about WampRealm: with a router that keeps to the protocol.       *)
(*                                                                         *)
(* First, the session sends only Questions and the router only Answers     *)
(* (Routed), so the session of the realm is one of WampSession, and what   *)
(* is proved of that one holds of it.  And because such a router names     *)
(* registrations by the request that made them, no reply that is waited    *)
(* for is without its entry any more (Sure).                               *)
(*                                                                         *)
(* Then, session and router understand each other.  The invariant says of  *)
(* every message under way what it finds when it arrives.  Greeted is      *)
(* about the handshake and the end of a session, Matched about requests    *)
(* and their answers, Subscribed and Registered about what the router      *)
(* knows of the session, Invoked about invocations, Listed about the       *)
(* session's own dictionaries.                                             *)
(***************************************************************************)
EXTENDS WampRealm, WampSessionProofs, FiniteSetTheorems, SequenceTheorems

\* The requests proper.
Verbs == {Verb[kind] : kind \in Kinds}

\* What the session sends.
Questions ==
    {m \in Messages : /\ m.type \in Verbs => m.request \in Ids
                      /\ m.type = "SUBSCRIBE" => m.about \in Topics}

\* What the router sends.
Answers ==
    {m \in Greetings \cup Replies \cup Requests : m.type = "REGISTERED" => m.about = m.request}

Routed(q) ==
    /\ q \in Routers
    /\ q.toRouter \in Seq(Questions) /\ q.toClient \in Seq(Answers)

\* A reply that is waited for has its entry, without exception; registrations
\* are named by requests that were answered.
Sure(p) ==
    /\ p.sent \in Seq(Questions)
    /\ \A i \in Ids : p.reply[i] = "pending" => p.outstanding[i] # "none"
    /\ \A i \in p.registrations : i <= p.lastId /\ p.outstanding[i] # "register"

\* q agrees with p on what Sure speaks of, but for what is sent.
Level(p, q) ==
    /\ q.lastId = p.lastId /\ q.outstanding = p.outstanding
    /\ q.reply = p.reply /\ q.registrations = p.registrations

LEMMA LevelSure ==
    ASSUME NEW p, Sure(p), NEW q, Level(p, q), q.sent = p.sent
    PROVE  Sure(q)
BY DEF Sure, Level

-----------------------------------------------------------------------------
(* The session's methods.                                                  *)

LEMMA QuestionTyped ==
    /\ \A kind \in Kinds, i \in Ids, about \in Targets :
          (kind = "subscribe" => about \in Topics) => Message(Verb[kind], i, about) \in Questions
    /\ \A type \in Types \ Verbs, i \in Ids \cup {0}, about \in Targets :
          Message(type, i, about) \in Questions
<1>1. \A kind \in Kinds : Verb[kind] \in Types /\ (Verb[kind] = "SUBSCRIBE" => kind = "subscribe")
  BY DEF Verb, Kinds, Types
<1>2. \A type, i, about : /\ Message(type, i, about).type = type
                          /\ Message(type, i, about).request = i
                          /\ Message(type, i, about).about = about
  BY DEF Message
<1>3. "SUBSCRIBE" \in Verbs
  BY DEF Verbs, Verb, Kinds
<1> QED
  BY <1>1, <1>2, <1>3, MessageTyped DEF Questions

LEMMA SendSure ==
    ASSUME NEW p \in Sessions, Sure(p), NEW m \in Questions
    PROVE  /\ Sure(send(p, m)) /\ Level(p, send(p, m)) /\ send(p, m) \in Sessions
           /\ Sure(trySend(p, m)) /\ Level(p, trySend(p, m)) /\ trySend(p, m) \in Sessions
<1> DEFINE sent == p.sent
<1>1. send(p, m).sent = Append(sent, m) /\ Level(p, send(p, m)) /\ Level(p, p)
  BY DEF send, Sessions, Level
<1>2. sent \in Seq(Questions) /\ sent \in Seq(Messages) /\ m \in Messages
  BY DEF Sure, Sessions, Questions
<1> HIDE DEF sent
<1>3. Append(sent, m) \in Seq(Questions) /\ Append(sent, m) \in Seq(Messages)
  BY <1>2
<1>4. send(p, m) \in Sessions
  <2> DEFINE x == Append(sent, m)
  <2>1. send(p, m) = [p EXCEPT !.sent = x] /\ x \in Seq(Messages)
    BY <1>3 DEF send, sent
  <2> HIDE DEF x
  <2>2. [p EXCEPT !.sent = x] \in Sessions
    BY <2>1, Zenon DEF Sessions
  <2> QED
    BY <2>1, <2>2
<1> QED
  BY <1>1, <1>3, <1>4 DEF Sure, Level, trySend

LEMMA DisconnectSure ==
    ASSUME NEW p \in Sessions, Sure(p), NEW why
    PROVE  Sure(disconnect(p)) /\ Sure(bailout(p, why))
<1>1. /\ Level(p, disconnect(p)) /\ disconnect(p).sent = p.sent
      /\ Level(p, bailout(p, why)) /\ bailout(p, why).sent = p.sent
  BY DEF disconnect, bailout, Sessions, Level
<1> QED
  BY <1>1, LevelSure

LEMMA ErrbackSure ==
    ASSUME NEW p \in Sessions, Sure(p)
    PROVE  Sure(errbackOutstandingRequests(p))
<1> DEFINE q == errbackOutstandingRequests(p)
<1>1. /\ q.sent = p.sent /\ q.lastId = p.lastId /\ q.registrations = p.registrations
      /\ \A i \in Ids : q.outstanding[i] = "none"
      /\ \A i \in Ids : q.reply[i] = "pending" => p.reply[i] = "pending" /\ p.outstanding[i] = "none"
  BY DEF errbackOutstandingRequests, nothingOutstanding, Sessions
<1>2. p.registrations \subseteq Ids
  BY DEF Sessions
<1> QED
  BY <1>1, <1>2 DEF Sure

LEMMA OnLeaveSure ==
    ASSUME NEW p, Core(p), Sure(p)
    PROVE  Sure(onLeave(p))
<1>1. p \in Sessions
  BY DEF Core
<1>2. CASE Shim
  BY <1>1, <1>2, DisconnectSure DEF onLeave
<1>3. CASE ~Shim
  <2>1. errbackOutstandingRequests(p) \in Sessions
    BY ErrbackCore DEF Core
  <2> QED
    BY <1>1, <1>3, <2>1, ErrbackSure, DisconnectSure DEF onLeave
<1> QED
  BY <1>2, <1>3

LEMMA LeaveSessionSure ==
    ASSUME NEW p, Core(p), Sure(p), p.joined
    PROVE  Sure(leaveSession(p))
<1> DEFINE l == [p EXCEPT !.joined = FALSE, !.leaves = @ + 1]
<1>1. leaveSession(p) = onLeave(l) /\ Level(p, l) /\ l.sent = p.sent
  BY DEF leaveSession, Core, Sessions, Level
<1>2. Core(l)
  <2>1. /\ l.joined = FALSE /\ l.leaves = p.leaves + 1 /\ l.joins = p.joins
        /\ l.welcomes = p.welcomes /\ l.transport = p.transport /\ l.lastId = p.lastId
        /\ l.outstanding = p.outstanding /\ l.reply = p.reply /\ l.bailedOut = p.bailedOut
    BY DEF Core, Sessions
  <2>2. p.leaves \in Nat
    BY DEF Core, Sessions
  <2>3. l \in Sessions
    <3>1. p \in Sessions /\ p.leaves + 1 \in Nat
      BY DEF Core, Sessions
    <3>2. l = [p EXCEPT !.joined = FALSE, !.leaves = p.leaves + 1]
      OBVIOUS
    <3> QED
      BY <3>1, <3>2 DEF Sessions
  <2> HIDE DEF l
  <2> QED
    BY <2>1, <2>2, <2>3 DEF Core, Fresh, Waiting, Paired
<1> HIDE DEF l
<1> QED
  BY <1>1, <1>2, LevelSure, OnLeaveSure

LEMMA DenySessionSure ==
    ASSUME NEW p, Good(p), Sure(p)
    PROVE  Sure(denySession(p))
<1> DEFINE d == [p EXCEPT !.denied = TRUE]
<1>1. /\ d \in Sessions /\ Same(p, d) /\ Level(p, d) /\ d.sent = p.sent
      /\ denySession(p) = onLeave(d)
  BY DEF denySession, Good, Core, Sessions, Same, Alike, Level
<1> HIDE DEF d
<1> QED
  BY <1>1, LevelSure, SameGood, OnLeaveSure DEF Good

LEMMA OnCloseSure ==
    ASSUME NEW p, Good(p), Sure(p), ~AsyncHooks => p.welcomes = 0
    PROVE  Sure(onClose(p))
<1> DEFINE lost == [p EXCEPT !.transport = "lost"]
           left == IF lost.joined THEN leaveSession(lost) ELSE lost
<1>1. lost \in Sessions /\ lost.joined = p.joined /\ Level(p, lost) /\ lost.sent = p.sent
  BY DEF Good, Core, Sessions, Level
<1>2. Core(lost)
  <2>1. /\ lost.transport = "lost" /\ Alike(p, lost) /\ lost.lastId = p.lastId
        /\ lost.outstanding = p.outstanding /\ lost.reply = p.reply
        /\ lost.bailedOut = p.bailedOut
    BY DEF Good, Core, Sessions, Alike
  <2> HIDE DEF lost
  <2> QED
    BY <1>1, <2>1 DEF Good, Core, Fresh, Waiting, Paired, Alike
<1>3. onClose(p) = onDisconnect(left)
  BY <1>1 DEF onClose
<1> HIDE DEF lost
<1>4. Sure(lost)
  BY <1>1, LevelSure
<1>5. Core(left) /\ Sure(left)
  BY <1>2, <1>4, LeaveSessionSure, LeaveSessionCore
<1> HIDE DEF left
<1> QED
  BY <1>3, <1>5, ErrbackSure DEF onDisconnect, Core

\* Registrations are named by earlier ids than that of a new request.
LEMMA RequestSure ==
    ASSUME NEW p, Good(p), Sure(p), p.lastId < MaxId, NEW kind \in Kinds, NEW target \in Targets,
           kind = "subscribe" => target \in Topics
    PROVE  Sure(request(p, kind, target))
<1> DEFINE id == p.lastId + 1
           m == Message(Verb[kind], id, target)
           e == [p EXCEPT !.lastId = id, !.outstanding[id] = kind,
                          !.about[id] = target, !.reply[id] = "pending"]
           f == [p EXCEPT !.lastId = id]
<1>1. p \in Sessions /\ p.lastId \in Nat /\ id \in Ids /\ p.registrations \subseteq Ids
  BY SessionAssumption DEF Good, Core, Sessions, Ids
<1>2. \/ request(p, kind, target) = send(e, m)
      \/ request(p, kind, target) = f \/ request(p, kind, target) = e
  BY DEF request
<1>3. m \in Questions
  BY <1>1, QuestionTyped
<1>4. /\ e.sent = p.sent /\ e.lastId = id /\ e.registrations = p.registrations
      /\ e.outstanding = [p.outstanding EXCEPT ![id] = kind]
      /\ e.reply = [p.reply EXCEPT ![id] = "pending"]
      /\ f.sent = p.sent /\ f.lastId = id /\ f.registrations = p.registrations
      /\ f.outstanding = p.outstanding /\ f.reply = p.reply
  BY <1>1 DEF Sessions
<1>5. /\ p.outstanding \in [Ids -> Kinds \cup {"none"}]
      /\ p.reply \in [Ids -> {"none", "pending", "resolved", "rejected", "cancelled"}]
      /\ "none" \notin Kinds /\ Ids \subseteq Nat
  BY <1>1 DEF Sessions, Kinds, Ids
<1> HIDE DEF e, f, m
<1>6. Sure(f)
  <2>1. \A i \in p.registrations : i \in Nat /\ i <= p.lastId /\ p.outstanding[i] # "register"
    BY <1>1, <1>5 DEF Sure
  <2>2. \A i \in p.registrations : i <= id
    BY <1>1, <2>1
  <2> HIDE DEF id
  <2> QED
    BY <1>4, <2>1, <2>2 DEF Sure
<1>7. Sure(e)
  <2>1. \A i \in Ids : e.reply[i] = "pending" => e.outstanding[i] # "none"
    <3> SUFFICES ASSUME NEW i \in Ids, e.reply[i] = "pending" PROVE e.outstanding[i] # "none"
      OBVIOUS
    <3>1. CASE i = id
      BY <1>4, <1>5, <3>1
    <3>2. CASE i # id
      BY <1>4, <1>5, <3>2 DEF Sure
    <3> QED
      BY <3>1, <3>2
  <2>2. \A i \in p.registrations : i <= id /\ e.outstanding[i] # "register"
    <3> SUFFICES ASSUME NEW i \in p.registrations PROVE i <= id /\ e.outstanding[i] # "register"
      OBVIOUS
    <3>1. i \in Ids /\ i <= p.lastId /\ p.outstanding[i] # "register"
      BY <1>1 DEF Sure
    <3>2. i # id /\ i <= id
      BY <1>1, <1>5, <3>1
    <3>3. e.outstanding[i] = p.outstanding[i]
      BY <1>4, <1>5, <3>1, <3>2
    <3> QED
      BY <3>1, <3>2, <3>3
  <2> QED
    BY <1>4, <2>1, <2>2 DEF Sure
<1>8. Sure(send(e, m))
  <2>1. /\ send(e, m).sent = Append(p.sent, m) /\ send(e, m).lastId = e.lastId
        /\ send(e, m).outstanding = e.outstanding /\ send(e, m).reply = e.reply
        /\ send(e, m).registrations = e.registrations
    BY <1>1 DEF send, e, Sessions
  <2>2. Append(p.sent, m) \in Seq(Questions)
    <3> DEFINE sent == p.sent
    <3>1. sent \in Seq(Questions)
      BY DEF Sure
    <3> HIDE DEF sent
    <3> QED
      BY <1>3, <3>1 DEF sent
  <2> QED
    BY <1>7, <2>1, <2>2 DEF Sure
<1> QED
  BY <1>2, <1>6, <1>7, <1>8

LEMMA UnsubscribeSure ==
    ASSUME NEW p, Good(p), Sure(p), p.lastId < MaxId, NEW topic \in Topics,
           NEW k \in 1 .. Len(p.handlers[topic])
    PROVE  Sure(unsubscribe(p, topic, k))
<1> DEFINE h == p.handlers[topic]
           id == h[k]
           rest == SubSeq(h, 1, k - 1) \o SubSeq(h, k + 1, Len(h))
           handlers == [p.handlers EXCEPT ![topic] = rest]
           active == p.active \ {id}
           released == p.released \cup {id}
           q == [p EXCEPT !.handlers = handlers, !.active = active, !.released = released]
<1>1. p \in Sessions /\ h \in Seq(Ids)
  BY DEF Good, Core, Sessions
<1>2. rest \in Seq(Ids) /\ id \in Ids
  BY <1>1, WithoutTyped
<1>3. handlers \in [Topics -> Seq(Ids)] /\ active \subseteq Ids /\ released \subseteq Ids
  <2> HIDE DEF rest, id
  <2> QED
    BY <1>1, <1>2 DEF Sessions
<1>4. unsubscribe(p, topic, k)
        = IF Len(q.handlers[topic]) = 0 THEN request(q, "unsubscribe", topic) ELSE q
  BY <1>1 DEF unsubscribe, Sessions
<1> HIDE DEF handlers, active, released
<1>5. q \in Sessions /\ Same(p, q) /\ Level(p, q) /\ q.sent = p.sent
  BY <1>1, <1>3 DEF Sessions, Same, Alike, Level
<1> HIDE DEF q
<1>6. Good(q) /\ Sure(q) /\ q.lastId < MaxId
  BY <1>5, SameGood, LevelSure DEF Same
<1>7. "unsubscribe" \in Kinds /\ topic \in Targets
  BY DEF Kinds, Targets
<1> QED
  BY <1>4, <1>6, <1>7, RequestSure

\* An answered request gives up its entry, and is the only one to name a new
\* registration.
LEMMA AnsweredSure ==
    ASSUME NEW p, Good(p), Sure(p), NEW i \in Ids, p.outstanding[i] # "none",
           NEW q, q.sent = p.sent, q.lastId = p.lastId,
           q.outstanding = [p.outstanding EXCEPT ![i] = "none"], q.reply[i] # "pending",
           \A j \in Ids : q.reply[j] = "pending" => p.reply[j] = "pending",
           q.registrations \subseteq p.registrations \cup {i}
    PROVE  Sure(q)
<1>1. /\ p.outstanding \in [Ids -> Kinds \cup {"none"}] /\ p.registrations \subseteq Ids
      /\ p.lastId \in Nat /\ Ids \subseteq Nat
  BY DEF Good, Core, Sessions, Ids
<1>2. i <= p.lastId
  BY <1>1 DEF Good, Core, Fresh
<1>3. \A j \in Ids : q.reply[j] = "pending" => q.outstanding[j] # "none"
  BY <1>1 DEF Sure
<1>4. \A j \in q.registrations : j <= q.lastId /\ q.outstanding[j] # "register"
  <2> SUFFICES ASSUME NEW j \in q.registrations
               PROVE  j <= q.lastId /\ q.outstanding[j] # "register"
    OBVIOUS
  <2>1. CASE j = i
    BY <1>1, <1>2, <2>1
  <2>2. CASE j # i
    BY <1>1, <2>2 DEF Sure
  <2> QED
    BY <2>1, <2>2
<1> QED
  BY <1>3, <1>4 DEF Sure

LEMMA ReplySure ==
    ASSUME NEW p, Good(p), Sure(p), NEW kind \in Kinds, NEW m \in Messages,
           kind = "register" => m.about = m.request
    PROVE  Sure(onReply(p, kind, m))
<1> DEFINE i == m.request
           a == answered(p, i)
           q == onReply(p, kind, m)
<1>1. p \in Sessions
  BY DEF Good, Core
<1>2. CASE i = 0 \/ p.outstanding[i] # kind
  BY <1>1, <1>2, DisconnectSure DEF onReply
<1>3. CASE ~(i = 0 \/ p.outstanding[i] # kind)
  <2>1. i \in Ids /\ p.outstanding[i] # "none"
    BY <1>3 DEF Messages, Kinds
  <2>2. /\ a \in Sessions /\ a.sent = p.sent /\ a.lastId = p.lastId /\ a.reply = p.reply
        /\ a.outstanding = [p.outstanding EXCEPT ![i] = "none"]
        /\ a.registrations = p.registrations
    <3>1. a.sent = p.sent
      BY <1>1 DEF answered, Sessions
    <3> QED
      BY <2>1, <3>1, AnsweredGood
  <2>3. CASE p.reply[i] # "pending"
    BY <1>3, <2>1, <2>2, <2>3, AnsweredSure DEF onReply
  <2>4. CASE p.reply[i] = "pending"
    <3> DEFINE Settles(x) ==
                 /\ x.sent = a.sent /\ x.lastId = a.lastId /\ x.outstanding = a.outstanding
                 /\ x.reply = [a.reply EXCEPT ![i] = "resolved"]
                 /\ x.registrations \subseteq a.registrations \cup {i}
    <3> HIDE DEF a
    <3>1. ASSUME kind = "subscribe" PROVE Settles(q)
      <4>1. q = onSubscribed(a, i, m.about)
        BY <1>3, <2>4, <3>1 DEF onReply, a
      <4>2. Settles(onSubscribed(a, i, m.about))
        BY <2>2 DEF onSubscribed, resolve, Sessions
      <4> QED
        BY <4>1, <4>2
    <3>2. ASSUME kind = "unsubscribe" PROVE Settles(q)
      <4>1. q = onUnsubscribed(a, i)
        BY <1>3, <2>4, <3>2 DEF onReply, a
      <4>2. Settles(onUnsubscribed(a, i))
        BY <2>2 DEF onUnsubscribed, resolve, Sessions
      <4> QED
        BY <4>1, <4>2
    <3>3. ASSUME kind = "register" PROVE Settles(q)
      <4>1. q = onRegistered(a, i, i)
        BY <1>3, <2>4, <3>3 DEF onReply, a
      <4>2. i \notin a.registrations
        BY <1>3, <2>2, <3>3 DEF Sure
      <4>3. Settles(onRegistered(a, i, i))
        BY <2>2, <4>2 DEF onRegistered, resolve, Sessions
      <4> QED
        BY <4>1, <4>3
    <3>4. ASSUME kind = "unregister" PROVE Settles(q)
      <4>1. q = onUnregistered(a, i)
        BY <1>3, <2>4, <3>4 DEF onReply, a
      <4>2. Settles(onUnregistered(a, i))
        BY <2>2 DEF onUnregistered, resolve, Sessions
      <4> QED
        BY <4>1, <4>2
    <3>5. ASSUME kind \in {"publish", "call"} PROVE Settles(q)
      <4>1. q = resolve(a, i)
        BY <1>3, <2>4, <3>5 DEF onReply, a
      <4>2. Settles(resolve(a, i))
        BY <2>2 DEF resolve, Sessions
      <4> QED
        BY <4>1, <4>2
    <3>6. Settles(q)
      BY <3>1, <3>2, <3>3, <3>4, <3>5 DEF Kinds
    <3>7. a.reply \in [Ids -> {"none", "pending", "resolved", "rejected", "cancelled"}]
      BY <2>2 DEF Sessions
    <3> HIDE DEF q
    <3>8. q.reply[i] # "pending" /\ \A j \in Ids : q.reply[j] = "pending" => p.reply[j] = "pending"
      BY <2>1, <2>2, <3>6, <3>7
    <3>9. /\ q.sent = p.sent /\ q.lastId = p.lastId
          /\ q.outstanding = [p.outstanding EXCEPT ![i] = "none"]
          /\ q.registrations \subseteq p.registrations \cup {i}
      BY <2>2, <3>6
    <3>10. Sure(q)
      <4> HIDE DEF i
      <4> QED
        BY <2>1, <3>8, <3>9, AnsweredSure
    <3> QED
      BY <3>10 DEF q
  <2> QED
    BY <2>3, <2>4
<1> QED
  BY <1>2, <1>3

LEMMA ErrorSure ==
    ASSUME NEW p, Good(p), Sure(p), NEW m \in Messages
    PROVE  Sure(onError(p, m))
<1> DEFINE i == m.request
           a == answered(p, i)
           q == IF p.reply[i] # "pending" THEN a ELSE [a EXCEPT !.reply[i] = "rejected"]
<1>1. p \in Sessions
  BY DEF Good, Core
<1>2. CASE i = 0 \/ m.kind = "none" \/ p.outstanding[i] # m.kind
  BY <1>1, <1>2, DisconnectSure DEF onError
<1>3. CASE ~(i = 0 \/ m.kind = "none" \/ p.outstanding[i] # m.kind)
  <2>1. i \in Ids /\ p.outstanding[i] # "none"
    BY <1>3 DEF Messages, Kinds
  <2>2. /\ q.sent = p.sent /\ q.lastId = p.lastId /\ q.registrations = p.registrations
        /\ q.outstanding = [p.outstanding EXCEPT ![i] = "none"]
        /\ q.reply[i] # "pending"
        /\ \A j \in Ids : q.reply[j] = "pending" => p.reply[j] = "pending"
    BY <1>1, <2>1 DEF answered, Sessions
  <2>3. onError(p, m) = q
    BY <1>3 DEF onError
  <2> HIDE DEF q
  <2> QED
    BY <2>1, <2>2, <2>3, AnsweredSure
<1> QED
  BY <1>2, <1>3

\* The end of an invocation.
LEMMA DoneSure ==
    ASSUME NEW p, Good(p), Sure(p), NEW i \in p.invocations, NEW type \in {"YIELD", "ERROR"}
    PROVE  Sure(trySend([p EXCEPT !.invocations = @ \ {i}], Message(type, 0, i)))
<1> DEFINE q == [p EXCEPT !.invocations = @ \ {i}]
           m == Message(type, 0, i)
<1>1. p \in Sessions /\ i \in Invocations
  BY DEF Good, Core, Sessions
<1>2. q \in Sessions /\ Level(p, q) /\ q.sent = p.sent
  BY <1>1 DEF Level, Sessions
<1>3. m \in Questions
  BY <1>1, QuestionTyped DEF Types, Targets, Verbs, Verb, Kinds
<1> HIDE DEF q, m
<1> QED
  BY <1>2, <1>3, LevelSure, SendSure DEF q, m

\* A message of the router.
LEMMA MessageSure ==
    ASSUME NEW p, Good(p), Sure(p), NEW m \in Answers, NEW k \in Nat,
           p.transport \in {"open", "closing"},
           k > 0 => p.lastId < MaxId /\ k <= Len(p.handlers[m.about])
    PROVE  Sure(onMessage(p, m, k))
<1>1. /\ p \in Sessions /\ m \in Messages
      /\ m.type = "EVENT" => m.about \in Topics
      /\ m.type = "REGISTERED" => m.about = m.request
  BY RouterSays DEF Good, Core, Answers
<1>2. CASE ~p.joined
  <2>1. onMessage(p, m, k) = onHandshake(p, m)
    BY <1>2 DEF onMessage
  <2> DEFINE w == [p EXCEPT !.welcomes = @ + 1, !.greeted = @ + 1]
             c == [p EXCEPT !.challenges = @ + 1, !.greeted = @ + 1]
  <2>2. onHandshake(p, m) \in {w, c, denySession(p), bailout(p, "protocol")}
    BY DEF onHandshake
  <2>3. Level(p, w) /\ w.sent = p.sent /\ Level(p, c) /\ c.sent = p.sent
    BY <1>1 DEF Level, Sessions
  <2> HIDE DEF w, c
  <2> QED
    BY <1>1, <2>1, <2>2, <2>3, LevelSure, DenySessionSure, DisconnectSure
<1>3. CASE p.joined /\ m.type = "GOODBYE"
  <2> DEFINE g == Message("GOODBYE", 0, 0)
             q == send(p, g)
  <2>1. \/ onMessage(p, m, k) = leaveSession(p) \/ onMessage(p, m, k) = leaveSession(q)
        \/ onMessage(p, m, k) = bailout(p, "internal")
    BY <1>3 DEF onMessage, onGoodbye, ReplyKind
  <2>2. g \in Questions /\ g \in Messages
    BY QuestionTyped, MessageTyped DEF Types, Targets, Verbs, Verb, Kinds
  <2> HIDE DEF g
  <2>3. Core(q) /\ Sure(q) /\ q.joined
    BY <1>1, <1>3, <2>2, SendGood, SendSure DEF Good, Same, Alike
  <2> QED
    BY <1>1, <1>3, <2>1, <2>3, LeaveSessionSure, DisconnectSure DEF Good
<1>4. CASE p.joined /\ m.type = "EVENT"
  <2> DEFINE u == unsubscribe(p, m.about, k)
             v == [u EXCEPT !.skipped = @ \/ k < Len(p.handlers[m.about])]
  <2>1. \/ onMessage(p, m, k) = p \/ onMessage(p, m, k) = bailout(p, "protocol")
        \/ k > 0 /\ onMessage(p, m, k) = v
    BY <1>4 DEF onMessage, onEvent, ReplyKind
  <2>2. CASE k > 0
    <3>1. k \in 1 .. Len(p.handlers[m.about])
      BY <1>1, <1>4, <2>2 DEF Sessions
    <3>2. Sure(u) /\ u \in Sessions
      BY <1>1, <1>4, <2>2, <3>1, UnsubscribeSure, UnsubscribeGood DEF Good, Core
    <3> HIDE DEF u
    <3>3. Level(u, v) /\ v.sent = u.sent
      BY <3>2 DEF Level, Sessions
    <3> HIDE DEF v
    <3> QED
      BY <1>1, <2>1, <3>2, <3>3, LevelSure, DisconnectSure
  <2> QED
    BY <1>1, <2>1, <2>2, DisconnectSure
<1>5. CASE p.joined /\ m.type = "UNREGISTERED" /\ m.request = 0
  BY <1>1, <1>5, DisconnectSure DEF onMessage, onForcedUnregister
<1>6. CASE /\ p.joined /\ m.type \in DOMAIN ReplyKind
           /\ ~(m.type = "UNREGISTERED" /\ m.request = 0)
  <2>1. onMessage(p, m, k) = onReply(p, ReplyKind[m.type], m)
    BY <1>6 DEF onMessage, ReplyKind
  <2>2. /\ ReplyKind[m.type] \in Kinds
        /\ ReplyKind[m.type] = "register" => m.type = "REGISTERED"
    BY <1>6 DEF ReplyKind, Kinds
  <2> QED
    BY <1>1, <2>1, <2>2, ReplySure
<1>7. CASE p.joined /\ m.type = "ERROR"
  BY <1>1, <1>7, ErrorSure DEF onMessage, ReplyKind
<1>8. CASE p.joined /\ m.type = "INVOCATION"
  <2> DEFINE q == [p EXCEPT !.invocations = @ \cup {m.about}]
  <2>1. onMessage(p, m, k) \in {q, bailout(p, "protocol")}
    BY <1>8 DEF onMessage, onInvocation, ReplyKind
  <2>2. Level(p, q) /\ q.sent = p.sent
    BY <1>1 DEF Level, Sessions
  <2> HIDE DEF q
  <2> QED
    BY <1>1, <2>1, <2>2, LevelSure, DisconnectSure
<1>9. CASE p.joined /\ m.type = "INTERRUPT"
  BY <1>9, DoneSure DEF onMessage, onInterrupt, ReplyKind
<1>10. CASE p.joined /\ m.type \notin DOMAIN ReplyKind \cup
                {"GOODBYE", "EVENT", "ERROR", "INVOCATION", "INTERRUPT", "UNREGISTERED"}
  BY <1>1, <1>10, DisconnectSure DEF onMessage
<1> QED
  BY <1>2, <1>3, <1>4, <1>5, <1>6, <1>7, <1>8, <1>9, <1>10 DEF ReplyKind

-----------------------------------------------------------------------------
(* The session's steps.                                                    *)

LEMMA BeginSure ==
    ASSUME Good(s), Sure(s)
    PROVE  Good(begin) /\ Sure(begin) /\ begin \in Sessions /\ Level(s, begin)
<1>1. Level(s, begin) /\ begin.sent = <<>> /\ <<>> \in Seq(Questions)
  BY DEF begin, Good, Core, Sessions, Level
<1>2. Good(begin)
  BY BeginGood
<1> QED
  BY <1>1, <1>2 DEF Sure, Level, Good, Core

\* Every step of the session but the receipt of a message.
LEMMA OwnStepSure ==
    ASSUME Good(s), Sure(s),
           Application \/ OnOpen \/ PeerClosing \/ TransportLost
    PROVE  Sure(s')
<1> USE BeginSure, BeginGood
<1> DEFINE abort == Message("ABORT", 0, 0)
           question == Message("AUTHENTICATE", 0, 0)
           hello == Message("HELLO", 0, 0)
           goodbye == Message("GOODBYE", 0, 0)
<1>0. /\ abort \in Questions /\ question \in Questions /\ hello \in Questions /\ goodbye \in Questions
      /\ abort \in Messages
  BY QuestionTyped, MessageTyped DEF Types, Targets, Verbs, Verb, Kinds
<1>1. CASE Subscribe
  <2>1. \A t \in Topics : t \in Targets
    BY DEF Targets
  <2> QED
    BY <1>1, <2>1, RequestSure DEF Subscribe, HasIds, Kinds
<1>2. CASE Unsubscribe
  <2>1. PICK t \in s.tracked : \E k \in 1 .. Len(s.handlers[t]) : s' = unsubscribe(begin, t, k)
    BY <1>2 DEF Unsubscribe
  <2>2. t \in Topics /\ s.lastId < MaxId
    BY <1>2 DEF Good, Core, Sessions, Unsubscribe, HasIds
  <2> QED
    BY <2>1, <2>2, UnsubscribeSure
<1>3. CASE Register \/ Unregister \/ Call \/ Publish
  <2>1. PICK kind \in Kinds \ {"subscribe"}, target \in Targets : s' = request(begin, kind, target)
    <3>1. s.registrations \subseteq Targets
      BY DEF Good, Core, Sessions, Targets
    <3> QED
      BY <1>3, <3>1 DEF Register, Unregister, Call, Publish, Kinds, Targets
  <2>2. s.lastId < MaxId
    BY <1>3 DEF Register, Unregister, Call, Publish, HasIds
  <2> QED
    BY <2>1, <2>2, RequestSure
<1>4. CASE CancelReply
  <2>1. PICK i \in Ids :
           LET p == [begin EXCEPT !.reply[i] = "cancelled"]
           IN  s' = p \/ s' = send(p, Message("CANCEL", i, 0))
    BY <1>4 DEF CancelReply
  <2> DEFINE p == [begin EXCEPT !.reply[i] = "cancelled"]
             m == Message("CANCEL", i, 0)
  <2>2. m \in Questions
    BY QuestionTyped DEF Types, Targets, Verbs, Verb, Kinds
  <2>3. p \in Sessions
    <3> DEFINE replies == [begin.reply EXCEPT ![i] = "cancelled"]
    <3>1. replies \in [Ids -> {"none", "pending", "resolved", "rejected", "cancelled"}]
      BY DEF Sessions
    <3>2. p = [begin EXCEPT !.reply = replies]
      OBVIOUS
    <3> HIDE DEF replies, p
    <3> QED
      BY <3>1, <3>2 DEF Sessions
  <2>4. /\ p.sent = begin.sent /\ p.lastId = begin.lastId /\ p.registrations = begin.registrations
        /\ p.outstanding = begin.outstanding
        /\ \A j \in Ids : p.reply[j] = "pending" => begin.reply[j] = "pending"
    BY DEF Sessions
  <2> HIDE DEF p, m
  <2>5. Sure(p)
    BY <2>4 DEF Sure
  <2> QED
    BY <2>1, <2>2, <2>3, <2>5, SendSure DEF p, m
<1>5. CASE Leave
  <2> DEFINE p == send(begin, goodbye)
             q == [p EXCEPT !.goodbyeSent = TRUE]
  <2>1. s' = q
    BY <1>5 DEF Leave
  <2>2. Sure(p)
    BY <1>0, SendSure
  <2>3. Level(p, q) /\ q.sent = p.sent
    BY DEF send, Sessions, Level
  <2> HIDE DEF p, q
  <2> QED
    BY <2>1, <2>2, <2>3, LevelSure
<1>6. CASE Disconnect
  BY <1>6, DisconnectSure DEF Disconnect
<1>7. CASE EndpointDone
  BY <1>7, DoneSure DEF EndpointDone
<1>8. CASE WelcomeDone
  <2> DEFINE p == [begin EXCEPT !.welcomes = @ - 1]
             j == [p EXCEPT !.joined = TRUE]
             f == [j EXCEPT !.joins = @ + 1]
             t == trySend(p, abort)
             d == [t EXCEPT !.denied = TRUE]
  <2>1. s' = j \/ s' = f \/ s' = d
    BY <1>8 DEF WelcomeDone
  <2>2. /\ Level(begin, j) /\ j.sent = begin.sent /\ Level(begin, f) /\ f.sent = begin.sent
        /\ Level(begin, p) /\ p.sent = begin.sent
    BY DEF Sessions, Level
  <2>3. p \in Sessions
    <3>1. begin.welcomes - 1 \in Nat
      BY <1>8 DEF WelcomeDone, Sessions
    <3> QED
      BY <3>1 DEF Sessions
  <2> HIDE DEF p
  <2>4. Sure(t) /\ t \in Sessions
    BY <1>0, <2>2, <2>3, LevelSure, SendSure
  <2> HIDE DEF t
  <2>5. Level(t, d) /\ d.sent = t.sent
    BY <2>4 DEF Level, Sessions
  <2> HIDE DEF j, f, d
  <2> QED
    BY <2>1, <2>2, <2>4, <2>5, LevelSure
<1>9. CASE ChallengeDone
  <2> DEFINE p == [begin EXCEPT !.challenges = @ - 1]
             a == send(p, abort)
  <2>1. s' = p \/ s' = trySend(p, question) \/ s' = denySession(a)
    BY <1>9 DEF ChallengeDone
  <2>2. Level(begin, p) /\ p.sent = begin.sent /\ Same(begin, p)
    BY DEF Sessions, Level, Same, Alike
  <2>3. p \in Sessions
    <3>1. begin.challenges - 1 \in Nat
      BY <1>9 DEF ChallengeDone, Sessions
    <3> QED
      BY <3>1 DEF Sessions
  <2> HIDE DEF p
  <2>4. Good(p) /\ Sure(p)
    BY <2>2, <2>3, LevelSure, SameGood
  <2>5. Good(a) /\ Sure(a)
    BY <1>0, <2>3, <2>4, SendGood, SendSure
  <2> QED
    BY <1>0, <2>1, <2>3, <2>4, <2>5, SendSure, DenySessionSure
<1>10. CASE OnOpen
  <2> DEFINE p == [begin EXCEPT !.transport = "open"]
  <2>1. s' = send(p, hello)
    BY <1>10 DEF OnOpen
  <2>2. p \in Sessions /\ Level(begin, p) /\ p.sent = begin.sent
    BY DEF Sessions, Level
  <2> HIDE DEF p
  <2> QED
    BY <1>0, <2>1, <2>2, LevelSure, SendSure
<1>11. CASE PeerClosing
  <2> DEFINE p == [begin EXCEPT !.transport = "deaf"]
  <2>1. s' = p
    BY <1>11 DEF PeerClosing
  <2>2. Level(begin, p) /\ p.sent = begin.sent
    BY DEF Sessions, Level
  <2> HIDE DEF p
  <2> QED
    BY <2>1, <2>2, LevelSure
<1>12. CASE TransportLost
  BY <1>12, OnCloseSure DEF TransportLost, HasTransport, HooksDone
<1> QED
  BY <1>1, <1>2, <1>3, <1>4, <1>5, <1>6, <1>7, <1>8, <1>9, <1>10, <1>11, <1>12
     DEF Application

LEMMA ReceiveSure ==
    ASSUME Good(s), Sure(s), NEW m \in Answers, Receive(m)
    PROVE  Sure(s')
<1>1. PICK k \in 0 .. MaxId :
         /\ k > 0 => s.lastId < MaxId /\ k <= Len(s.handlers[m.about])
         /\ s' = onMessage(begin, m, k)
  BY DEF Receive, HasIds
<1>2. k \in Nat /\ s.transport \in {"open", "closing"}
  BY SessionAssumption DEF Receive, HasMessages
<1> QED
  BY <1>1, <1>2, BeginGood, BeginSure, MessageSure

-----------------------------------------------------------------------------
(* The router's steps.                                                     *)

LEMMA ReplyRouted ==
    ASSUME NEW q, Routed(q), NEW m \in Answers
    PROVE  Routed(reply(q, m))
<1> DEFINE said == q.toClient
           x == Append(said, m)
<1>1. /\ q \in Routers /\ said \in Seq(Answers) /\ said \in Seq(Messages) /\ m \in Messages
  BY RouterSays DEF Routed, Routers, Answers
<1>2. reply(q, m) = [q EXCEPT !.toClient = x]
  BY DEF reply
<1> HIDE DEF said
<1>3. x \in Seq(Answers) /\ x \in Seq(Messages)
  BY <1>1
<1> HIDE DEF x
<1>4. [q EXCEPT !.toClient = x] \in Routers
  BY <1>1, <1>3, Zenon DEF Routers
<1>5. [q EXCEPT !.toClient = x].toClient = x /\ [q EXCEPT !.toClient = x].toRouter = q.toRouter
  BY <1>1 DEF Routers
<1> QED
  BY <1>2, <1>3, <1>4, <1>5 DEF Routed

\* What the router may answer.
LEMMA AnswerTyped ==
    /\ \A type \in {"WELCOME", "CHALLENGE", "ABORT", "GOODBYE"} : Message(type, 0, 0) \in Answers
    /\ \A i \in Ids, type \in {"PUBLISHED", "RESULT", "UNSUBSCRIBED", "UNREGISTERED"} :
          Message(type, i, 0) \in Answers
    /\ \A i \in Ids, t \in Topics : Message("SUBSCRIBED", i, t) \in Answers
    /\ \A i \in Ids : Message("REGISTERED", i, i) \in Answers
    /\ \A i \in Ids, kind \in Kinds : Error(kind, i) \in Answers
    /\ \A t \in Topics : Message("EVENT", 0, t) \in Answers
    /\ \A g \in Ids : Message("UNREGISTERED", 0, g) \in Answers
    /\ \A g \in Ids, i \in Invocations : Message("INVOCATION", g, i) \in Answers
    /\ \A i \in Invocations : Message("INTERRUPT", 0, i) \in Answers
<1>1. \A type, i, about : /\ Message(type, i, about).type = type
                          /\ Message(type, i, about).request = i
                          /\ Message(type, i, about).about = about
  BY DEF Message
<1>2. \A kind, i : Error(kind, i).type = "ERROR"
  BY DEF Error, Message
<1>3. /\ \A type \in {"WELCOME", "CHALLENGE", "ABORT", "GOODBYE"} : Message(type, 0, 0) \in Greetings
      /\ \A i \in Ids, type \in {"PUBLISHED", "RESULT", "UNSUBSCRIBED", "UNREGISTERED"} :
            Message(type, i, 0) \in Replies
      /\ \A i \in Ids, t \in Topics : Message("SUBSCRIBED", i, t) \in Replies
      /\ \A i \in Ids : Message("REGISTERED", i, i) \in Replies
      /\ \A i \in Ids, kind \in Kinds : Error(kind, i) \in Replies
      /\ \A t \in Topics : Message("EVENT", 0, t) \in Requests
      /\ \A g \in Ids : Message("UNREGISTERED", 0, g) \in Requests
      /\ \A g \in Ids, i \in Invocations : Message("INVOCATION", g, i) \in Requests
      /\ \A i \in Invocations : Message("INTERRUPT", 0, i) \in Requests
  BY DEF Greetings, Replies, Requests
<1> QED
  BY <1>1, <1>2, <1>3 DEF Answers

\* What the router remembers, one field at a time.
LEMMA NotedRouted ==
    ASSUME NEW q, Routed(q)
    PROVE  /\ \A x \in {"waiting", "challenged", "joined", "closing", "out"} :
                 Routed([q EXCEPT !.phase = x])
           /\ \A x \in SUBSET Topics : Routed([q EXCEPT !.subs = x])
           /\ \A x \in SUBSET Ids : Routed([q EXCEPT !.regs = x]) /\ Routed([q EXCEPT !.calls = x])
           /\ \A x \in SUBSET Invocations :
                 /\ Routed([q EXCEPT !.invoked = x])
                 /\ \A y \in BOOLEAN : Routed([q EXCEPT !.open = x, !.stray = y])
                 /\ \A y \in SUBSET Invocations : Routed([q EXCEPT !.invoked = x, !.open = y])
           /\ \A x \in Seq(Questions) : Routed([q EXCEPT !.toRouter = x])
           /\ \A x \in Seq(Answers) : Routed([q EXCEPT !.toClient = x])
<1>1. q \in Routers /\ q.toRouter \in Seq(Questions) /\ q.toClient \in Seq(Answers)
  BY DEF Routed
<1>2. Questions \subseteq Messages /\ Answers \subseteq Messages
  BY RouterSays DEF Questions, Answers
<1>3. ASSUME NEW x \in {"waiting", "challenged", "joined", "closing", "out"}
      PROVE  Routed([q EXCEPT !.phase = x])
  BY <1>1 DEF Routed, Routers
<1>4. ASSUME NEW x \in SUBSET Topics
      PROVE  Routed([q EXCEPT !.subs = x])
  BY <1>1 DEF Routed, Routers
<1>5. ASSUME NEW x \in SUBSET Ids
      PROVE  Routed([q EXCEPT !.regs = x]) /\ Routed([q EXCEPT !.calls = x])
  BY <1>1 DEF Routed, Routers
<1>6. ASSUME NEW x \in SUBSET Invocations, NEW y \in BOOLEAN
      PROVE  Routed([q EXCEPT !.invoked = x]) /\ Routed([q EXCEPT !.open = x, !.stray = y])
  BY <1>1 DEF Routed, Routers
<1>7. ASSUME NEW x \in SUBSET Invocations, NEW y \in SUBSET Invocations
      PROVE  Routed([q EXCEPT !.invoked = x, !.open = y])
  BY <1>1 DEF Routed, Routers
<1>8. ASSUME NEW x \in Seq(Questions)
      PROVE  Routed([q EXCEPT !.toRouter = x])
  <2>1. x \in Seq(Messages)
    BY <1>2
  <2> QED
    BY <1>1, <2>1 DEF Routed, Routers
<1>9. ASSUME NEW x \in Seq(Answers)
      PROVE  Routed([q EXCEPT !.toClient = x])
  <2>1. x \in Seq(Messages)
    BY <1>2
  <2> QED
    BY <1>1, <2>1 DEF Routed, Routers
<1> QED
  BY <1>3, <1>4, <1>5, <1>6, <1>7, <1>8, <1>9

LEMMA OnRequestRouted ==
    ASSUME NEW q, Routed(q), NEW m \in Questions, NEW n \in onRequest(q, m)
    PROVE  Routed(n)
<1> DEFINE i == m.request
           ok(type, about) == reply(q, Message(type, i, about))
           refused(kind) == reply(q, Error(kind, i))
<1>1. q \in Routers /\ m \in Messages /\ m.type \in Types
  BY DEF Routed, Questions, Messages
<1>2. m.type \in Verbs =>
         /\ i \in Ids /\ Routed(refused("subscribe")) /\ Routed(refused("register"))
         /\ Routed(refused("unsubscribe")) /\ Routed(refused("unregister"))
         /\ Routed(refused("publish"))
  BY ReplyRouted, AnswerTyped DEF Questions, Kinds
<1>3. /\ q.subs \subseteq Topics /\ q.regs \subseteq Ids /\ q.calls \subseteq Ids
      /\ q.open \subseteq Invocations /\ q.stray \in BOOLEAN
  BY <1>1 DEF Routers
<1>4. \A a : /\ reply(q, a).subs = q.subs /\ reply(q, a).regs = q.regs
             /\ reply(q, a).calls = q.calls
  BY <1>1 DEF reply, Routers
<1>5. {"SUBSCRIBE", "REGISTER", "UNSUBSCRIBE", "UNREGISTER", "PUBLISH", "CALL"} \subseteq Verbs
  BY DEF Verbs, Verb, Kinds
<1>6. CASE m.type = "SUBSCRIBE"
  <2> DEFINE x == ok("SUBSCRIBED", m.about)
             subs == x.subs \cup {m.about}
  <2>1. n = refused("subscribe") \/ n = [x EXCEPT !.subs = subs]
    BY <1>6 DEF onRequest
  <2>2. Routed(x) /\ subs \subseteq Topics
    BY <1>2, <1>3, <1>4, <1>5, <1>6, ReplyRouted, AnswerTyped DEF Questions
  <2> HIDE DEF x, subs
  <2>3. Routed([x EXCEPT !.subs = subs])
    BY <2>2, NotedRouted
  <2> QED
    BY <1>2, <1>5, <1>6, <2>1, <2>3
<1>7. CASE m.type = "REGISTER"
  <2> DEFINE x == ok("REGISTERED", i)
             regs == x.regs \cup {i}
  <2>1. n = refused("register") \/ n = [x EXCEPT !.regs = regs]
    BY <1>7 DEF onRequest
  <2>2. Routed(x) /\ regs \subseteq Ids
    BY <1>2, <1>3, <1>4, <1>5, <1>7, ReplyRouted, AnswerTyped
  <2> HIDE DEF x, regs
  <2>3. Routed([x EXCEPT !.regs = regs])
    BY <2>2, NotedRouted
  <2> QED
    BY <1>2, <1>5, <1>7, <2>1, <2>3
<1>8. CASE m.type = "UNSUBSCRIBE"
  <2> DEFINE x == ok("UNSUBSCRIBED", 0)
             subs == x.subs \ {m.about}
  <2>1. n = refused("unsubscribe") \/ n = [x EXCEPT !.subs = subs]
    BY <1>8 DEF onRequest
  <2>2. Routed(x) /\ subs \subseteq Topics
    BY <1>2, <1>3, <1>4, <1>5, <1>8, ReplyRouted, AnswerTyped
  <2> HIDE DEF x, subs
  <2>3. Routed([x EXCEPT !.subs = subs])
    BY <2>2, NotedRouted
  <2> QED
    BY <1>2, <1>5, <1>8, <2>1, <2>3
<1>9. CASE m.type = "UNREGISTER"
  <2> DEFINE x == ok("UNREGISTERED", 0)
             regs == x.regs \ {m.about}
  <2>1. n = refused("unregister") \/ n = [x EXCEPT !.regs = regs]
    BY <1>9 DEF onRequest
  <2>2. Routed(x) /\ regs \subseteq Ids
    BY <1>2, <1>3, <1>4, <1>5, <1>9, ReplyRouted, AnswerTyped
  <2> HIDE DEF x, regs
  <2>3. Routed([x EXCEPT !.regs = regs])
    BY <2>2, NotedRouted
  <2> QED
    BY <1>2, <1>5, <1>9, <2>1, <2>3
<1>10. CASE m.type = "PUBLISH"
  <2>1. n = refused("publish") \/ n = ok("PUBLISHED", 0)
    BY <1>10 DEF onRequest
  <2> QED
    BY <1>2, <1>5, <1>10, <2>1, ReplyRouted, AnswerTyped DEF Kinds
<1>11. CASE m.type = "CALL"
  <2> DEFINE calls == q.calls \cup {i}
  <2>1. n = [q EXCEPT !.calls = calls] /\ calls \subseteq Ids
    BY <1>2, <1>3, <1>5, <1>11 DEF onRequest
  <2> HIDE DEF calls
  <2> QED
    BY <2>1, NotedRouted
<1>12. CASE m.type = "CANCEL"
  <2> DEFINE x == refused("call")
             calls == x.calls \ {i}
  <2>1. n = q \/ (i \in q.calls /\ n = [x EXCEPT !.calls = calls])
    BY <1>12 DEF onRequest
  <2>2. i \in q.calls => Routed(x) /\ calls \subseteq Ids
    BY <1>3, <1>4, ReplyRouted, AnswerTyped DEF Kinds
  <2> HIDE DEF x, calls
  <2>3. i \in q.calls => Routed([x EXCEPT !.calls = calls])
    BY <2>2, NotedRouted
  <2> QED
    BY <2>1, <2>3
<1>13. CASE m.type \in {"YIELD", "ERROR"}
  <2> DEFINE open == q.open \ {m.about}
             stray == q.stray \/ m.about \notin q.open
  <2>1. n = [q EXCEPT !.open = open, !.stray = stray]
    BY <1>1, <1>13 DEF onRequest, Routers
  <2>2. open \in SUBSET Invocations /\ stray \in BOOLEAN
    BY <1>3
  <2> HIDE DEF open, stray
  <2> QED
    BY <2>1, <2>2, NotedRouted
<1>14. CASE m.type = "GOODBYE"
  <2> DEFINE x == reply(q, Message("GOODBYE", 0, 0))
  <2>1. n = [x EXCEPT !.phase = "out"] /\ Routed(x)
    BY <1>14, ReplyRouted, AnswerTyped DEF onRequest
  <2> HIDE DEF x
  <2> QED
    BY <2>1, NotedRouted
<1>15. CASE m.type \notin {"SUBSCRIBE", "REGISTER", "UNSUBSCRIBE", "UNREGISTER", "PUBLISH", "CALL",
                           "CANCEL", "YIELD", "ERROR", "GOODBYE"}
  <2>1. n = [q EXCEPT !.phase = "out"]
    BY <1>15 DEF onRequest
  <2> QED
    BY <2>1, NotedRouted
<1> QED
  BY <1>6, <1>7, <1>8, <1>9, <1>10, <1>11, <1>12, <1>13, <1>14, <1>15

LEMMA OnRouterMessageRouted ==
    ASSUME NEW q, Routed(q), NEW m \in Questions, NEW n \in onRouterMessage(q, m)
    PROVE  Routed(n)
<1>1. \A types \in SUBSET {"WELCOME", "CHALLENGE", "ABORT"} : n \in greet(q, types) => Routed(n)
  <2> SUFFICES ASSUME NEW type \in {"WELCOME", "CHALLENGE", "ABORT"},
                      NEW x, x = reply(q, Message(type, 0, 0)),
                      NEW y \in {"joined", "challenged", "out"}, n = [x EXCEPT !.phase = y]
               PROVE  Routed(n)
    BY DEF greet
  <2>1. Routed(x)
    BY ReplyRouted, AnswerTyped
  <2> QED
    BY <2>1, NotedRouted
<1>2. q.phase \in {"waiting", "challenged", "joined", "closing", "out"}
  BY DEF Routed, Routers
<1>3. CASE q.phase = "waiting" \/ (q.phase = "challenged" /\ m.type = "AUTHENTICATE")
  BY <1>1, <1>3 DEF onRouterMessage
<1>4. CASE q.phase = "joined"
  BY <1>4, OnRequestRouted DEF onRouterMessage
<1>5. CASE q.phase = "challenged" /\ m.type # "AUTHENTICATE"
  <2>1. n = [q EXCEPT !.phase = "out"]
    BY <1>5 DEF onRouterMessage
  <2> QED
    BY <2>1, NotedRouted
<1>6. CASE q.phase = "closing"
  <2>1. n = [q EXCEPT !.phase = IF m.type = "GOODBYE" THEN "out" ELSE q.phase]
    BY <1>6 DEF onRouterMessage
  <2> QED
    BY <1>2, <2>1, NotedRouted
<1>7. CASE q.phase = "out"
  BY <1>7 DEF onRouterMessage
<1> QED
  BY <1>2, <1>3, <1>4, <1>5, <1>6, <1>7

-----------------------------------------------------------------------------
(* The realm.                                                              *)

Whole == Good(s) /\ Sure(s) /\ Routed(r)

\* A step of the session, as the realm takes it.
LEMMA OwnStep ==
    ASSUME Whole, Application \/ OnOpen \/ PeerClosing \/ TransportLost
    PROVE  Next /\ Good(s') /\ Sure(s') /\ s'.sent \in Seq(Questions)
<1>1. Next /\ Good(s')
  BY NextGood DEF Next, Whole
<1>2. Sure(s')
  BY OwnStepSure DEF Whole
<1> QED
  BY <1>1, <1>2 DEF Sure

LEMMA TransmitRouted ==
    ASSUME Routed(r), Transmit, s'.sent \in Seq(Questions)
    PROVE  Routed(r')
<1> DEFINE x == r.toRouter \o s'.sent
<1>1. x \in Seq(Questions)
  BY DEF Routed
<1>2. r' = [r EXCEPT !.toRouter = x]
  BY DEF Transmit
<1> HIDE DEF x
<1> QED
  BY <1>1, <1>2, NotedRouted

LEMMA DeliverStep ==
    ASSUME Whole, Deliver
    PROVE  Next /\ Whole'
<1> DEFINE m == Head(r.toClient)
           x == Tail(r.toClient)
           y == r.toRouter \o s'.sent
<1>1. m \in Answers /\ x \in Seq(Answers)
  BY DEF Whole, Routed, Deliver
<1>2. Receive(m) /\ r' = [r EXCEPT !.toClient = x, !.toRouter = y]
  BY DEF Deliver
<1>3. Next /\ Good(s')
  BY <1>1, <1>2, NextGood DEF Next, Answers, Whole
<1>4. Sure(s')
  BY <1>1, <1>2, ReceiveSure DEF Whole
<1>5. y \in Seq(Questions)
  BY <1>4 DEF Sure, Whole, Routed
<1> HIDE DEF m, x, y
<1>6. Routed([r EXCEPT !.toClient = x])
  BY <1>1, NotedRouted DEF Whole
<1>7. [r EXCEPT !.toClient = x, !.toRouter = y] = [[r EXCEPT !.toClient = x] EXCEPT !.toRouter = y]
  BY DEF Whole, Routed, Routers
<1> DEFINE z == [r EXCEPT !.toClient = x]
<1> HIDE DEF z
<1>8. Routed([z EXCEPT !.toRouter = y])
  BY <1>5, <1>6, NotedRouted DEF z
<1> QED
  BY <1>2, <1>3, <1>4, <1>7, <1>8 DEF Whole, z

LEMMA LostRouted ==
    ASSUME Routed(r), Lost
    PROVE  Routed(r')
<1>1. <<>> \in Seq(Questions) /\ <<>> \in Seq(Answers)
  OBVIOUS
<1>2. r' = [[[r EXCEPT !.phase = "out"] EXCEPT !.toRouter = <<>>] EXCEPT !.toClient = <<>>]
  BY DEF Lost, Routed, Routers
<1> DEFINE x == [r EXCEPT !.phase = "out"]
           y == [x EXCEPT !.toRouter = <<>>]
<1>3. Routed(x)
  BY NotedRouted
<1> HIDE DEF x
<1>4. Routed(y)
  BY <1>1, <1>3, NotedRouted
<1> HIDE DEF y
<1>5. Routed([y EXCEPT !.toClient = <<>>])
  BY <1>1, <1>4, NotedRouted
<1> QED
  BY <1>2, <1>5 DEF x, y

LEMMA HandleRouted ==
    ASSUME Routed(r), Handle
    PROVE  Routed(r')
<1> DEFINE m == Head(r.toRouter)
           x == Tail(r.toRouter)
<1>1. m \in Questions /\ x \in Seq(Questions)
  BY DEF Routed, Handle
<1>2. r' \in onRouterMessage([r EXCEPT !.toRouter = x], m)
  BY DEF Handle
<1> HIDE DEF m, x
<1>3. Routed([r EXCEPT !.toRouter = x])
  BY <1>1, NotedRouted
<1> QED
  BY <1>1, <1>2, <1>3, OnRouterMessageRouted

LEMMA RouterRouted ==
    ASSUME Routed(r), Router
    PROVE  Routed(r')
<1>0. r \in Routers
  BY DEF Routed
<1>1. CASE Answer
  <2>1. PICK i \in r.calls : \E m \in {Message("RESULT", i, 0), Error("call", i)} :
           r' = reply([r EXCEPT !.calls = @ \ {i}], m)
    BY <1>1 DEF Answer
  <2>2. PICK m \in {Message("RESULT", i, 0), Error("call", i)} :
           r' = reply([r EXCEPT !.calls = @ \ {i}], m)
    BY <2>1
  <2> DEFINE calls == r.calls \ {i}
  <2>3. calls \in SUBSET Ids /\ i \in Ids /\ m \in Answers
    BY <1>0, AnswerTyped DEF Routers, Kinds
  <2> HIDE DEF calls
  <2>4. Routed([r EXCEPT !.calls = calls])
    BY <2>3, NotedRouted
  <2> QED
    BY <2>2, <2>3, <2>4, ReplyRouted DEF calls
<1>2. CASE Event
  BY <1>0, <1>2, AnswerTyped, ReplyRouted DEF Event, Routers
<1>3. CASE Invoke
  <2>1. PICK g \in r.regs, i \in Invocations :
           r' = reply([r EXCEPT !.invoked = @ \cup {i}, !.open = @ \cup {i}],
                      Message("INVOCATION", g, i))
    BY <1>3 DEF Invoke
  <2> DEFINE invoked == r.invoked \cup {i}
             open == r.open \cup {i}
  <2>2. invoked \in SUBSET Invocations /\ open \in SUBSET Invocations /\ g \in Ids
    BY <1>0 DEF Routers
  <2> HIDE DEF invoked, open
  <2>3. Routed([r EXCEPT !.invoked = invoked, !.open = open])
    BY <2>2, NotedRouted
  <2> QED
    BY <2>1, <2>2, <2>3, AnswerTyped, ReplyRouted DEF invoked, open
<1>4. CASE Interrupt
  BY <1>0, <1>4, AnswerTyped, ReplyRouted DEF Interrupt, Routers
<1>5. CASE TakeBack
  <2>1. PICK g \in r.regs : r' = reply([r EXCEPT !.regs = @ \ {g}], Message("UNREGISTERED", 0, g))
    BY <1>5 DEF TakeBack
  <2> DEFINE regs == r.regs \ {g}
  <2>2. regs \in SUBSET Ids /\ g \in Ids
    BY <1>0 DEF Routers
  <2> HIDE DEF regs
  <2>3. Routed([r EXCEPT !.regs = regs])
    BY <2>2, NotedRouted
  <2> QED
    BY <2>1, <2>2, <2>3, AnswerTyped, ReplyRouted DEF regs
<1>6. CASE CloseRealm
  <2>1. Routed([r EXCEPT !.phase = "closing"])
    BY NotedRouted
  <2> QED
    BY <1>6, <2>1, AnswerTyped, ReplyRouted DEF CloseRealm
<1> QED
  BY <1>1, <1>2, <1>3, <1>4, <1>5, <1>6 DEF Router

LEMMA RealmStep ==
    ASSUME Whole, RealmNext
    PROVE  [Next]_s /\ Whole'
<1> USE DEF Whole
<1>1. CASE Handle
  BY <1>1, HandleRouted DEF Handle
<1>2. CASE Router
  <2>1. UNCHANGED s
    BY <1>2 DEF Router, Answer, Event, Invoke, Interrupt, TakeBack, CloseRealm
  <2> QED
    BY <1>2, <2>1, RouterRouted
<1>3. CASE Deliver
  BY <1>3, DeliverStep
<1>4. CASE Requesting \/ Cancelling \/ Leaving \/ Finishing \/ Opening
  <2>1. (Application \/ OnOpen) /\ Transmit
    BY <1>4 DEF Requesting, Cancelling, Leaving, Finishing, Opening, Application
  <2> QED
    BY <2>1, OwnStep, TransmitRouted
<1>5. CASE Lost
  BY <1>5, OwnStep, LostRouted DEF Lost
<1>6. CASE PeerClosed
  BY <1>6, OwnStep DEF PeerClosed
<1> QED
  BY <1>1, <1>2, <1>3, <1>4, <1>5, <1>6 DEF RealmNext

LEMMA RealmInitWhole == RealmInit => Init /\ Whole
<1> SUFFICES ASSUME RealmInit PROVE Init /\ Whole
  OBVIOUS
<1>1. Init /\ Good(s)
  BY InitGood DEF RealmInit
<1>2. Sure(s)
  <2>1. /\ s.sent = <<>> /\ s.registrations = {} /\ s.reply = [i \in Ids |-> "none"]
    BY <1>1 DEF Init
  <2>2. <<>> \in Seq(Questions)
    OBVIOUS
  <2> QED
    BY <2>1, <2>2 DEF Sure
<1>3. Routed(r)
  <2>1. <<>> \in Seq(Questions) /\ <<>> \in Seq(Answers) /\ <<>> \in Seq(Messages)
    OBVIOUS
  <2> QED
    BY <2>1 DEF RealmInit, Routed, Routers
<1> QED
  BY <1>1, <1>2, <1>3 DEF Whole

LEMMA AlwaysWhole == RealmSpec => []Whole
<1>1. RealmInit => Whole
  BY RealmInitWhole
<1>2. Whole /\ [RealmNext]_<<s, r>> => Whole'
  BY RealmStep DEF Whole
<1> QED
  BY <1>1, <1>2, PTL DEF RealmSpec

-----------------------------------------------------------------------------
(* Theorems.                                                               *)

\* The session of a realm is a session: the router of WampRealm says nothing that
\* WampSession's router may not say, so what is proved of the latter's session
\* (types, replies given once, paired leaves) holds in the realm.
THEOREM RealmIsSession == RealmSpec => Spec
<1>1. RealmInit => Init
  BY RealmInitWhole
<1>2. Whole /\ [RealmNext]_<<s, r>> => [Next]_s
  BY RealmStep
<1> QED
  BY <1>1, <1>2, AlwaysWhole, PTL DEF RealmSpec, Spec

\* With a router that keeps to the protocol a request that is waited for always
\* has its entry: onRegistered never meets a registration it has already.
THEOREM RealmWaitsWithEntry ==
    RealmSpec => [](\A i \in Ids : s.reply[i] = "pending" => s.outstanding[i] # "none")
<1>1. Whole => \A i \in Ids : s.reply[i] = "pending" => s.outstanding[i] # "none"
  BY DEF Whole, Sure
<1> QED
  BY <1>1, AlwaysWhole, PTL

\* The older API with such a router: when the transport is lost, at any time and
\* in any state of any request, nothing is waited for any more.
THEOREM RealmLossIsAnswered ==
    ASSUME ~Shim
    PROVE  RealmSpec => []LostIsAnswered
<1>1. Whole => LostIsAnswered
  BY DEF Whole, Sure, Good, Emptied, LostIsAnswered
<1> QED
  BY <1>1, AlwaysWhole, PTL

-----------------------------------------------------------------------------
(* Session and router understand each other.                               *)

\* Hooks are done at once, and the application cancels calls and publications.
Prompt == ~AsyncHooks /\ Cancelled \subseteq {"call", "publish"}

-----------------------------------------------------------------------------
(* What a queue does to one thing that its reader has or has not.          *)

\* Whether x is there after the first n messages of queue, when it was there
\* before for the things in have: the last of ons and offs decides.
Stays(queue, n, x, have, ons, offs) ==
    \/ \E j \in 1 .. n : queue[j] \in ons /\ \A l \in j + 1 .. n : queue[l] \notin offs
    \/ x \in have /\ \A l \in 1 .. n : queue[l] \notin offs

\* Messages that need x find it, and what the writer knows of the reader will
\* have it.
Synced(queue, x, known, have, uses, ons, offs) ==
    /\ \A k \in DOMAIN queue : queue[k] \in uses => Stays(queue, k - 1, x, have, ons, offs)
    /\ x \in known => Stays(queue, Len(queue), x, have, ons, offs)

\* What the writer does not know of the reader will not have.
Cleared(queue, x, known, have, ons, offs) ==
    Stays(queue, Len(queue), x, have, ons, offs) => x \in known

-----------------------------------------------------------------------------
(* The invariant.                                                          *)

\* The session answers for what it does with messages.
Live(p) ==
    /\ p.transport \in {"none", "open", "closing"} /\ ~p.denied
    /\ p.joined \/ p.joins = 0

Listening(p) == p.transport \in {"open", "closing"} /\ ~p.denied

\* Nothing of the handshake has arrived.
Unmet(p) == ~p.joined /\ p.joins = 0 /\ p.welcomes = 0 /\ p.challenges = 0 /\ ~p.denied

Greeting == {"WELCOME", "CHALLENGE", "ABORT"}

Signed(q) == \E k \in DOMAIN q.toRouter : q.toRouter[k].type = "AUTHENTICATE"

\* The session's progress.
Progress(p) ==
    /\ p.welcomes > 0 => ~p.joined /\ p.joins = 0 /\ p.challenges = 0 /\ p.welcomes = 1
    /\ p.challenges > 0 => ~p.joined /\ p.joins = 0 /\ p.challenges = 1
    /\ p.joined \/ p.welcomes > 0 \/ p.challenges > 0 => ~p.denied /\ p.transport # "none"
    /\ p.joined => p.joins > 0

\* The handshake and the GOODBYEs under way.
Greeted(p, q) ==
    /\ p.transport = "none" => q.phase = "waiting" /\ q.toRouter = <<>>
    /\ q.phase = "waiting" => q.toClient = <<>> /\ Unmet(p) /\ ~Signed(q)
    /\ q.phase = "challenged" =>
         /\ Len(q.toClient) <= 1 /\ ~p.joined /\ p.joins = 0 /\ p.welcomes = 0
         /\ q.toClient # <<>> => q.toClient[1].type = "CHALLENGE"
         /\ q.toClient # <<>> \/ p.challenges > 0 \/ p.denied => ~Signed(q)
    /\ p.challenges > 0 => q.toClient = <<>> /\ q.phase \in {"challenged", "closing", "out"}
    /\ \A k \in DOMAIN q.toClient : q.toClient[k].type \in Greeting => k = 1 /\ Unmet(p)
    /\ \A k \in DOMAIN q.toClient :
         q.toClient[k].type = "GOODBYE" => k = Len(q.toClient) /\ q.phase \in {"closing", "out"}
    /\ Listening(p) /\ (q.phase = "joined" \/ \E k \in DOMAIN q.toClient : q.toClient[k].type \notin Greeting)
         => \/ p.joined \/ p.welcomes = 1
            \/ q.toClient # <<>> /\ q.toClient[1].type = "WELCOME"
    /\ Listening(p) /\ ~p.joined /\ p.joins > 0 => q.toClient = <<>> /\ q.phase \in {"closing", "out"}
    /\ q.phase \in {"waiting", "challenged"} =>
         q.subs = {} /\ q.regs = {} /\ q.calls = {} /\ q.open = {}

Asks == {m \in Questions : m.type \in Verbs}

Replying == {m \in Answers : m.type \in DOMAIN ReplyKind \cup {"ERROR"} /\ m.request \in Ids}

\* The kind of request that a reply answers.
Answering(m) == IF m.type = "ERROR" THEN m.kind ELSE ReplyKind[m.type]

\* Every request under way and every answer has its entry, and is in one place.
Matched(p, q) ==
    /\ \A k \in DOMAIN q.toRouter : q.toRouter[k] \in Asks =>
         LET m == q.toRouter[k]
         IN  p.outstanding[m.request] # "none" /\ Verb[p.outstanding[m.request]] = m.type
             /\ p.about[m.request] = m.about
    /\ \A k \in DOMAIN q.toClient : q.toClient[k] \in Replying =>
         LET m == q.toClient[k]
         IN  p.outstanding[m.request] = Answering(m)
    /\ \A i \in q.calls : p.outstanding[i] = "call"
    /\ \A k, l \in DOMAIN q.toRouter :
         q.toRouter[k] \in Asks /\ q.toRouter[l] \in Asks /\ k # l
           => q.toRouter[k].request # q.toRouter[l].request
    /\ \A k, l \in DOMAIN q.toClient :
         q.toClient[k] \in Replying /\ q.toClient[l] \in Replying /\ k # l
           => q.toClient[k].request # q.toClient[l].request
    /\ \A k \in DOMAIN q.toRouter, l \in DOMAIN q.toClient :
         q.toRouter[k] \in Asks /\ q.toClient[l] \in Replying
           => q.toRouter[k].request # q.toClient[l].request
    /\ \A k \in DOMAIN q.toRouter : q.toRouter[k] \in Asks => q.toRouter[k].request \notin q.calls
    /\ \A k \in DOMAIN q.toClient : q.toClient[k] \in Replying => q.toClient[k].request \notin q.calls
    /\ \A i \in Ids : p.outstanding[i] \in Kinds \ {"call", "publish"} => p.reply[i] = "pending"

Handled(p) == {t \in Topics : p.handlers[t] # <<>>}
Asked(q) == {t \in Topics : \E k \in DOMAIN q.toRouter :
                               q.toRouter[k].type = "UNSUBSCRIBE" /\ q.toRouter[k].about = t}

Events(t) == {m \in Answers : m.type = "EVENT" /\ m.about = t}
Subscribing(t) == {m \in Answers : m.type = "SUBSCRIBED" /\ m.about = t}
Unsubscribing(p, t) ==
    {m \in Answers : m.type = "UNSUBSCRIBED" /\ m.request \in Ids /\ p.about[m.request] = t}

Subscribed(p, q) ==
    \A t \in Topics :
        /\ Synced(q.toClient, t, q.subs, p.tracked, Events(t), Subscribing(t), Unsubscribing(p, t))
        /\ Cleared(q.toClient, t, q.subs, Handled(p), Subscribing(t), Unsubscribing(p, t))
        /\ p.transport = "open" /\ q.phase = "joined" =>
             Synced(q.toClient, t, q.subs \ Asked(q), Handled(p), {}, Subscribing(t), Unsubscribing(p, t))

Uses(g) ==
    {m \in Answers : \/ m.type = "INVOCATION" /\ m.request = g
                     \/ m.type = "UNREGISTERED" /\ m.request = 0 /\ m.about = g}
Registering(g) == {m \in Answers : m.type = "REGISTERED" /\ m.request = g}
Unregistering(p, g) ==
    {m \in Answers : m.type = "UNREGISTERED" /\ m.request \in Ids /\ p.about[m.request] = g}

Registered(p, q) ==
    \A g \in Ids :
        /\ Synced(q.toClient, g, q.regs, p.registrations, Uses(g), Registering(g), Unregistering(p, g))
        /\ ~Forced =>
             Cleared(q.toClient, g, q.regs, p.registrations, Registering(g), Unregistering(p, g))

Invoking == {m \in Answers : m.type = "INVOCATION"}
Yielding == {m \in Questions : m.type \in {"YIELD", "ERROR"}}

\* Every invocation the dealer waits for is in one place.
Invoked(p, q) ==
    /\ q.open \subseteq q.invoked /\ p.invocations \subseteq q.open /\ ~q.stray
    /\ \A k \in DOMAIN q.toClient : q.toClient[k] \in Invoking =>
         q.toClient[k].about \in q.open \ p.invocations
    /\ \A k \in DOMAIN q.toRouter : q.toRouter[k] \in Yielding =>
         q.toRouter[k].about \in q.open \ p.invocations
    /\ \A k, l \in DOMAIN q.toClient :
         q.toClient[k] \in Invoking /\ q.toClient[l] \in Invoking /\ k # l
           => q.toClient[k].about # q.toClient[l].about
    /\ \A k, l \in DOMAIN q.toRouter :
         q.toRouter[k] \in Yielding /\ q.toRouter[l] \in Yielding /\ k # l
           => q.toRouter[k].about # q.toRouter[l].about
    /\ \A k \in DOMAIN q.toRouter, l \in DOMAIN q.toClient :
         q.toRouter[k] \in Yielding /\ q.toClient[l] \in Invoking
           => q.toRouter[k].about # q.toClient[l].about
    /\ p.transport = "open" /\ q.phase = "joined" =>
         \A i \in q.open :
            \/ i \in p.invocations
            \/ \E k \in DOMAIN q.toClient : q.toClient[k] \in Invoking /\ q.toClient[k].about = i
            \/ \E k \in DOMAIN q.toRouter : q.toRouter[k] \in Yielding /\ q.toRouter[k].about = i

\* The session's dictionaries, whatever the router does.
Listed(p) ==
    /\ \A t, u \in Topics : \A k \in DOMAIN p.handlers[t], l \in DOMAIN p.handlers[u] :
         p.handlers[t][k] = p.handlers[u][l] => t = u /\ k = l
    /\ \A i \in Ids : i \in p.active <=> \E t \in Topics : \E k \in DOMAIN p.handlers[t] : p.handlers[t][k] = i
    /\ \A t \in Topics : \A k \in DOMAIN p.handlers[t] :
         /\ p.handlers[t][k] <= p.lastId
         /\ p.outstanding[p.handlers[t][k]] # "subscribe"
    /\ \A t \in Topics \ p.tracked : p.handlers[t] = <<>>
    /\ p.enabled = p.registrations

Agreed(p, q) ==
    /\ Progress(p) /\ Greeted(p, q) /\ Invoked(p, q) /\ Listed(p)
    /\ Live(p) => Matched(p, q) /\ Subscribed(p, q) /\ Registered(p, q)
    /\ p.bailedOut = "protocol" => p.denied

-----------------------------------------------------------------------------
(* Queues.                                                                 *)

LEMMA StaysOn ==
    ASSUME NEW queue, NEW queue2, NEW n \in Nat, NEW x, NEW have, NEW have2,
           NEW ons, NEW offs, NEW ons2, NEW offs2,
           \A l \in 1 .. n : queue[l] \in ons => queue2[l] \in ons2,
           \A l \in 1 .. n : queue2[l] \in offs2 => queue[l] \in offs,
           x \in have => x \in have2, Stays(queue, n, x, have, ons, offs)
    PROVE  Stays(queue2, n, x, have2, ons2, offs2)
<1>1. CASE \E j \in 1 .. n : queue[j] \in ons /\ \A l \in j + 1 .. n : queue[l] \notin offs
  <2>1. PICK j \in 1 .. n : queue[j] \in ons /\ \A l \in j + 1 .. n : queue[l] \notin offs
    BY <1>1
  <2>2. queue2[j] \in ons2 /\ \A l \in j + 1 .. n : queue2[l] \notin offs2
    BY <2>1
  <2> QED
    BY <2>2 DEF Stays
<1>2. CASE x \in have /\ \A l \in 1 .. n : queue[l] \notin offs
  BY <1>2 DEF Stays
<1> QED
  BY <1>1, <1>2 DEF Stays

\* One more message.
LEMMA StaysLast ==
    ASSUME NEW queue, NEW n \in Nat, NEW x, NEW have, NEW ons, NEW offs
    PROVE  Stays(queue, n + 1, x, have, ons, offs)
             <=> \/ queue[n + 1] \in ons
                 \/ queue[n + 1] \notin offs /\ Stays(queue, n, x, have, ons, offs)
<1>1. ASSUME queue[n + 1] \in ons
      PROVE  Stays(queue, n + 1, x, have, ons, offs)
  <2>1. n + 1 \in 1 .. n + 1 /\ \A l \in (n + 1) + 1 .. n + 1 : queue[l] \notin offs
    OBVIOUS
  <2> QED
    BY <1>1, <2>1 DEF Stays
<1>2. ASSUME queue[n + 1] \notin offs, Stays(queue, n, x, have, ons, offs)
      PROVE  Stays(queue, n + 1, x, have, ons, offs)
  BY <1>2 DEF Stays
<1>3. ASSUME Stays(queue, n + 1, x, have, ons, offs), queue[n + 1] \notin ons
      PROVE  queue[n + 1] \notin offs /\ Stays(queue, n, x, have, ons, offs)
  BY <1>3 DEF Stays
<1> QED
  BY <1>1, <1>2, <1>3

\* The first message has been read.
LEMMA StaysRest ==
    ASSUME NEW queue, NEW rest, NEW n \in Nat, NEW x, NEW have, NEW have2, NEW ons, NEW offs,
           \A l \in 1 .. n : rest[l] = queue[l + 1],
           x \in have2 <=> queue[1] \in ons \/ (x \in have /\ queue[1] \notin offs)
    PROVE  Stays(rest, n, x, have2, ons, offs) <=> Stays(queue, n + 1, x, have, ons, offs)
<1>1. ASSUME Stays(rest, n, x, have2, ons, offs)
      PROVE  Stays(queue, n + 1, x, have, ons, offs)
  <2>1. ASSUME NEW j \in 1 .. n, rest[j] \in ons, \A l \in j + 1 .. n : rest[l] \notin offs
        PROVE  Stays(queue, n + 1, x, have, ons, offs)
    <3>1. j + 1 \in 1 .. n + 1 /\ queue[j + 1] \in ons
      BY <2>1
    <3>2. ASSUME NEW l \in (j + 1) + 1 .. n + 1
          PROVE  queue[l] \notin offs
      <4>1. l - 1 \in j + 1 .. n /\ l - 1 \in 1 .. n /\ (l - 1) + 1 = l
        OBVIOUS
      <4> QED
        BY <2>1, <4>1
    <3> QED
      BY <3>1, <3>2 DEF Stays
  <2>2. ASSUME x \in have2, \A l \in 1 .. n : rest[l] \notin offs
        PROVE  Stays(queue, n + 1, x, have, ons, offs)
    <3>1. ASSUME NEW l \in 2 .. n + 1
          PROVE  queue[l] \notin offs
      <4>1. l - 1 \in 1 .. n /\ (l - 1) + 1 = l
        OBVIOUS
      <4> QED
        BY <2>2, <4>1
    <3>2. CASE queue[1] \in ons
      <4>1. 1 \in 1 .. n + 1 /\ \A l \in 1 + 1 .. n + 1 : queue[l] \notin offs
        BY <3>1
      <4> QED
        BY <3>2, <4>1 DEF Stays
    <3>3. CASE x \in have /\ queue[1] \notin offs
      <4>1. \A l \in 1 .. n + 1 : queue[l] \notin offs
        BY <3>1, <3>3
      <4> QED
        BY <3>3, <4>1 DEF Stays
    <3> QED
      BY <2>2, <3>2, <3>3
  <2> QED
    BY <1>1, <2>1, <2>2 DEF Stays
<1>2. ASSUME Stays(queue, n + 1, x, have, ons, offs)
      PROVE  Stays(rest, n, x, have2, ons, offs)
  <2>1. ASSUME NEW j \in 1 .. n + 1, queue[j] \in ons, \A l \in j + 1 .. n + 1 : queue[l] \notin offs
        PROVE  Stays(rest, n, x, have2, ons, offs)
    <3>1. ASSUME NEW l \in j .. n, l >= 1
          PROVE  rest[l] \notin offs
      <4>1. l \in 1 .. n /\ l + 1 \in j + 1 .. n + 1
        BY <3>1
      <4> QED
        BY <2>1, <4>1
    <3>2. CASE j = 1
      <4>1. \A l \in 1 .. n : rest[l] \notin offs
        BY <3>1, <3>2
      <4> QED
        BY <2>1, <3>2, <4>1 DEF Stays
    <3>3. CASE j # 1
      <4>1. j - 1 \in 1 .. n /\ (j - 1) + 1 = j
        BY <3>3
      <4>2. rest[j - 1] \in ons
        BY <2>1, <4>1
      <4>3. \A l \in (j - 1) + 1 .. n : rest[l] \notin offs
        BY <3>1, <4>1
      <4> QED
        BY <4>1, <4>2, <4>3 DEF Stays
    <3> QED
      BY <3>2, <3>3
  <2>2. ASSUME x \in have, \A l \in 1 .. n + 1 : queue[l] \notin offs
        PROVE  Stays(rest, n, x, have2, ons, offs)
    <3>1. \A l \in 1 .. n : l + 1 \in 1 .. n + 1
      OBVIOUS
    <3>2. 1 \in 1 .. n + 1
      OBVIOUS
    <3> QED
      BY <2>2, <3>1, <3>2 DEF Stays
  <2> QED
    BY <1>2, <2>1, <2>2 DEF Stays
<1> QED
  BY <1>1, <1>2

LEMMA Appended ==
    ASSUME NEW S, NEW queue \in Seq(S), NEW m \in S
    PROVE  /\ Len(Append(queue, m)) = Len(queue) + 1 /\ Len(queue) \in Nat
           /\ DOMAIN Append(queue, m) = 1 .. Len(queue) + 1 /\ DOMAIN queue = 1 .. Len(queue)
           /\ \A k \in 1 .. Len(queue) : Append(queue, m)[k] = queue[k]
           /\ Append(queue, m)[Len(queue) + 1] = m
OBVIOUS

LEMMA Rested ==
    ASSUME NEW S, NEW queue \in Seq(S), queue # <<>>
    PROVE  /\ Len(queue) \in Nat \ {0} /\ Len(Tail(queue)) = Len(queue) - 1
           /\ DOMAIN queue = 1 .. Len(queue) /\ DOMAIN Tail(queue) = 1 .. Len(queue) - 1
           /\ \A k \in 1 .. Len(queue) - 1 : Tail(queue)[k] = queue[k + 1]
           /\ queue[1] = Head(queue) /\ 1 \in DOMAIN queue
OBVIOUS

LEMMA SyncedAppend ==
    ASSUME NEW S, NEW queue \in Seq(S), NEW m \in S, NEW x, NEW known, NEW known2, NEW have,
           NEW uses, NEW ons, NEW offs, Synced(queue, x, known, have, uses, ons, offs),
           m \in uses => x \in known,
           x \in known2 => m \in ons \/ (x \in known /\ m \notin offs)
    PROVE  Synced(Append(queue, m), x, known2, have, uses, ons, offs)
<1> DEFINE more == Append(queue, m)
           n == Len(queue)
<1>1. /\ Len(more) = n + 1 /\ n \in Nat /\ DOMAIN more = 1 .. n + 1 /\ DOMAIN queue = 1 .. n
      /\ \A k \in 1 .. n : more[k] = queue[k]
      /\ more[n + 1] = m
  BY Appended
<1> HIDE DEF more, n
<1>2. ASSUME NEW k \in 0 .. n
      PROVE  Stays(queue, k, x, have, ons, offs) => Stays(more, k, x, have, ons, offs)
  <2>1. k \in Nat /\ \A l \in 1 .. k : more[l] = queue[l]
    BY <1>1
  <2>2. /\ \A l \in 1 .. k : queue[l] \in ons => more[l] \in ons
        /\ \A l \in 1 .. k : more[l] \in offs => queue[l] \in offs
    BY <2>1
  <2> QED
    BY <2>1, <2>2, StaysOn
<1>3. x \in known => Stays(queue, n, x, have, ons, offs)
  BY DEF Synced, n
<1>4. ASSUME NEW k \in DOMAIN more, more[k] \in uses
      PROVE  Stays(more, k - 1, x, have, ons, offs)
  <2>1. CASE k \in 1 .. n
    <3>1. Stays(queue, k - 1, x, have, ons, offs) /\ k - 1 \in 0 .. n
      BY <1>1, <1>4, <2>1 DEF Synced
    <3> QED
      BY <1>2, <3>1
  <2>2. CASE k = n + 1
    <3>1. m \in uses /\ n \in 0 .. n /\ k - 1 = n
      BY <1>1, <1>4, <2>2
    <3> QED
      BY <1>2, <1>3, <3>1
  <2> QED
    BY <1>1, <2>1, <2>2
<1>5. x \in known2 => Stays(more, n + 1, x, have, ons, offs)
  <2>1. n \in 0 .. n
    BY <1>1
  <2> QED
    BY <1>1, <1>2, <1>3, <2>1, StaysLast
<1>6. Synced(more, x, known2, have, uses, ons, offs)
  BY <1>1, <1>4, <1>5 DEF Synced
<1> QED
  BY <1>6 DEF more

LEMMA ClearedAppend ==
    ASSUME NEW S, NEW queue \in Seq(S), NEW m \in S, NEW x, NEW known, NEW known2, NEW have,
           NEW ons, NEW offs, Cleared(queue, x, known, have, ons, offs),
           x \notin known2 => m \notin ons /\ (m \in offs \/ x \notin known)
    PROVE  Cleared(Append(queue, m), x, known2, have, ons, offs)
<1> DEFINE more == Append(queue, m)
           n == Len(queue)
<1>1. /\ Len(more) = n + 1 /\ n \in Nat
      /\ \A k \in 1 .. n : more[k] = queue[k]
      /\ more[n + 1] = m
  BY Appended
<1> HIDE DEF more, n
<1>2. Stays(more, n, x, have, ons, offs) => Stays(queue, n, x, have, ons, offs)
  BY <1>1, StaysOn
<1>3. Stays(queue, n, x, have, ons, offs) => x \in known
  BY DEF Cleared, n
<1>4. Stays(more, n + 1, x, have, ons, offs) => x \in known2
  BY <1>1, <1>2, <1>3, StaysLast
<1>5. Cleared(more, x, known2, have, ons, offs)
  BY <1>1, <1>4 DEF Cleared
<1> QED
  BY <1>5 DEF more

LEMMA SyncedTail ==
    ASSUME NEW S, NEW queue \in Seq(S), queue # <<>>, NEW x, NEW known, NEW have, NEW have2,
           NEW uses, NEW ons, NEW offs, Synced(queue, x, known, have, uses, ons, offs),
           x \in have2 <=> Head(queue) \in ons \/ (x \in have /\ Head(queue) \notin offs)
    PROVE  Synced(Tail(queue), x, known, have2, uses, ons, offs)
<1> DEFINE rest == Tail(queue)
           n == Len(rest)
<1>1. /\ n \in Nat /\ Len(queue) = n + 1 /\ DOMAIN rest = 1 .. n /\ DOMAIN queue = 1 .. n + 1
      /\ \A k \in 1 .. n : rest[k] = queue[k + 1]
      /\ queue[1] = Head(queue)
  BY Rested
<1> HIDE DEF rest, n
<1>2. ASSUME NEW k \in 0 .. n
      PROVE  Stays(queue, k + 1, x, have, ons, offs) => Stays(rest, k, x, have2, ons, offs)
  <2>1. k \in Nat /\ \A l \in 1 .. k : rest[l] = queue[l + 1]
    BY <1>1
  <2> QED
    BY <1>1, <2>1, StaysRest
<1>3. ASSUME NEW k \in DOMAIN rest, rest[k] \in uses
      PROVE  Stays(rest, k - 1, x, have2, ons, offs)
  <2>1. /\ k + 1 \in DOMAIN queue /\ queue[k + 1] \in uses
        /\ (k + 1) - 1 = (k - 1) + 1 /\ k - 1 \in 0 .. n
    BY <1>1, <1>3
  <2>2. Stays(queue, (k + 1) - 1, x, have, ons, offs)
    BY <2>1 DEF Synced
  <2>3. Stays(queue, (k - 1) + 1, x, have, ons, offs)
    BY <2>1, <2>2
  <2> QED
    BY <1>2, <2>1, <2>3
<1>4. x \in known => Stays(rest, n, x, have2, ons, offs)
  <2>1. x \in known => Stays(queue, n + 1, x, have, ons, offs)
    BY <1>1 DEF Synced
  <2>2. n \in 0 .. n
    BY <1>1
  <2> QED
    BY <1>2, <2>1, <2>2
<1>5. Synced(rest, x, known, have2, uses, ons, offs)
  BY <1>3, <1>4 DEF Synced, n
<1> QED
  BY <1>5 DEF rest

LEMMA ClearedTail ==
    ASSUME NEW S, NEW queue \in Seq(S), queue # <<>>, NEW x, NEW known, NEW have, NEW have2,
           NEW ons, NEW offs, Cleared(queue, x, known, have, ons, offs),
           x \in have2 <=> Head(queue) \in ons \/ (x \in have /\ Head(queue) \notin offs)
    PROVE  Cleared(Tail(queue), x, known, have2, ons, offs)
<1> DEFINE rest == Tail(queue)
           n == Len(rest)
<1>1. /\ n \in Nat /\ Len(queue) = n + 1
      /\ \A k \in 1 .. n : rest[k] = queue[k + 1]
      /\ queue[1] = Head(queue)
  BY Rested
<1> HIDE DEF rest, n
<1>2. Stays(rest, n, x, have2, ons, offs) => Stays(queue, n + 1, x, have, ons, offs)
  BY <1>1, StaysRest
<1>3. Cleared(rest, x, known, have2, ons, offs)
  BY <1>1, <1>2 DEF Cleared, n
<1> QED
  BY <1>3 DEF rest

\* Both speak of the queue's own messages only.
LEMMA SyncedOn ==
    ASSUME NEW S, NEW queue \in Seq(S), NEW x, NEW known, NEW known2, NEW have, NEW have2,
           NEW uses, NEW ons, NEW offs, NEW offs2, Synced(queue, x, known, have, uses, ons, offs),
           \A k \in DOMAIN queue : queue[k] \in offs2 => queue[k] \in offs,
           x \in known2 => x \in known, x \in have => x \in have2
    PROVE  Synced(queue, x, known2, have2, uses, ons, offs2)
<1>1. ASSUME NEW k \in 0 .. Len(queue), Stays(queue, k, x, have, ons, offs)
      PROVE  Stays(queue, k, x, have2, ons, offs2)
  <2>1. k \in Nat /\ \A l \in 1 .. k : l \in DOMAIN queue
    OBVIOUS
  <2> QED
    BY <1>1, <2>1, StaysOn
<1>2. Len(queue) \in 0 .. Len(queue) /\ \A k \in DOMAIN queue : k - 1 \in 0 .. Len(queue)
  OBVIOUS
<1> QED
  BY <1>1, <1>2 DEF Synced

LEMMA ClearedOn ==
    ASSUME NEW S, NEW queue \in Seq(S), NEW x, NEW known, NEW known2, NEW have, NEW have2,
           NEW ons, NEW offs, NEW offs2, Cleared(queue, x, known, have, ons, offs),
           \A k \in DOMAIN queue : queue[k] \in offs => queue[k] \in offs2,
           x \in known => x \in known2, x \in have2 => x \in have
    PROVE  Cleared(queue, x, known2, have2, ons, offs2)
<1>1. Len(queue) \in Nat /\ \A l \in 1 .. Len(queue) : l \in DOMAIN queue
  OBVIOUS
<1>2. Stays(queue, Len(queue), x, have2, ons, offs2) => Stays(queue, Len(queue), x, have, ons, offs)
  BY <1>1, StaysOn
<1> QED
  BY <1>2 DEF Cleared

-----------------------------------------------------------------------------
(* What the router does to Subscribed and Registered.                      *)

LEMMA SubscribedStill ==
    ASSUME NEW p, NEW q, NEW n, Routed(q), Subscribed(p, q),
           n.toClient = q.toClient, n.subs = q.subs,
           n.phase = "joined" => q.phase = "joined" /\ \A t \in q.subs : t \in Asked(q) => t \in Asked(n)
    PROVE  Subscribed(p, n)
<1>1. q.toClient \in Seq(Answers)
  BY DEF Routed
<1> SUFFICES ASSUME NEW t \in Topics, p.transport = "open", n.phase = "joined"
             PROVE  Synced(q.toClient, t, q.subs \ Asked(n), Handled(p), {},
                           Subscribing(t), Unsubscribing(p, t))
  BY DEF Subscribed
<1>2. Synced(q.toClient, t, q.subs \ Asked(q), Handled(p), {}, Subscribing(t), Unsubscribing(p, t))
  BY DEF Subscribed
<1>3. t \in q.subs \ Asked(n) => t \in q.subs \ Asked(q)
  OBVIOUS
<1> QED
  BY <1>1, <1>2, <1>3, SyncedOn

LEMMA SubscribedSays ==
    ASSUME NEW p, NEW q, NEW n, Routed(q), Subscribed(p, q), NEW m \in Answers,
           n.toClient = Append(q.toClient, m),
           \A t \in Topics :
              /\ m \in Events(t) => t \in q.subs
              /\ t \in n.subs => m \in Subscribing(t) \/ (t \in q.subs /\ m \notin Unsubscribing(p, t))
              /\ t \notin n.subs => m \notin Subscribing(t) /\ (m \in Unsubscribing(p, t) \/ t \notin q.subs)
              /\ n.phase = "joined" /\ t \in n.subs /\ m \notin Subscribing(t)
                   => q.phase = "joined" /\ (t \in Asked(q) => t \in Asked(n))
    PROVE  Subscribed(p, n)
<1>1. q.toClient \in Seq(Answers)
  BY DEF Routed
<1> SUFFICES ASSUME NEW t \in Topics
             PROVE  /\ Synced(n.toClient, t, n.subs, p.tracked, Events(t), Subscribing(t), Unsubscribing(p, t))
                    /\ Cleared(n.toClient, t, n.subs, Handled(p), Subscribing(t), Unsubscribing(p, t))
                    /\ p.transport = "open" /\ n.phase = "joined" =>
                         Synced(n.toClient, t, n.subs \ Asked(n), Handled(p), {}, Subscribing(t), Unsubscribing(p, t))
  BY DEF Subscribed
<1> DEFINE ons == Subscribing(t)
           offs == Unsubscribing(p, t)
<1>2. /\ Synced(q.toClient, t, q.subs, p.tracked, Events(t), ons, offs)
      /\ Cleared(q.toClient, t, q.subs, Handled(p), ons, offs)
      /\ p.transport = "open" /\ q.phase = "joined" =>
           Synced(q.toClient, t, q.subs \ Asked(q), Handled(p), {}, ons, offs)
  BY DEF Subscribed
<1>3. /\ m \in Events(t) => t \in q.subs
      /\ t \in n.subs => m \in ons \/ (t \in q.subs /\ m \notin offs)
      /\ t \notin n.subs => m \notin ons /\ (m \in offs \/ t \notin q.subs)
      /\ n.phase = "joined" /\ t \in n.subs /\ m \notin ons
           => q.phase = "joined" /\ (t \in Asked(q) => t \in Asked(n))
  OBVIOUS
<1> HIDE DEF ons, offs
<1>4. Synced(Append(q.toClient, m), t, n.subs, p.tracked, Events(t), ons, offs)
  BY <1>1, <1>2, <1>3, SyncedAppend
<1>5. Cleared(Append(q.toClient, m), t, n.subs, Handled(p), ons, offs)
  BY <1>1, <1>2, <1>3, ClearedAppend
<1>6. ASSUME p.transport = "open", n.phase = "joined"
      PROVE  Synced(Append(q.toClient, m), t, n.subs \ Asked(n), Handled(p), {}, ons, offs)
  <2>1. CASE q.phase = "joined"
    <3>1. Synced(q.toClient, t, q.subs \ Asked(q), Handled(p), {}, ons, offs)
      BY <1>2, <1>6, <2>1
    <3>2. t \in n.subs \ Asked(n) => m \in ons \/ (t \in q.subs \ Asked(q) /\ m \notin offs)
      BY <1>3, <1>6
    <3>3. m \in {} => t \in q.subs \ Asked(q)
      OBVIOUS
    <3> QED
      BY <1>1, <3>1, <3>2, <3>3, SyncedAppend
  <2>2. CASE q.phase # "joined"
    <3>1. Synced(q.toClient, t, {}, Handled(p), {}, ons, offs)
      BY DEF Synced
    <3>2. t \in n.subs \ Asked(n) => m \in ons \/ (t \in {} /\ m \notin offs)
      BY <1>3, <1>6, <2>2
    <3>3. m \in {} => t \in {}
      OBVIOUS
    <3> QED
      BY <1>1, <3>1, <3>2, <3>3, SyncedAppend
  <2> QED
    BY <2>1, <2>2
<1> QED
  BY <1>4, <1>5, <1>6 DEF ons, offs

LEMMA RegisteredSays ==
    ASSUME NEW p, NEW q, NEW n, Routed(q), Registered(p, q), NEW m \in Answers,
           n.toClient = Append(q.toClient, m),
           \A g \in Ids :
              /\ m \in Uses(g) => g \in q.regs
              /\ g \in n.regs => m \in Registering(g) \/ (g \in q.regs /\ m \notin Unregistering(p, g))
              /\ ~Forced /\ g \notin n.regs
                   => m \notin Registering(g) /\ (m \in Unregistering(p, g) \/ g \notin q.regs)
    PROVE  Registered(p, n)
<1>1. q.toClient \in Seq(Answers)
  BY DEF Routed
<1> SUFFICES ASSUME NEW g \in Ids
             PROVE  /\ Synced(n.toClient, g, n.regs, p.registrations, Uses(g), Registering(g), Unregistering(p, g))
                    /\ ~Forced => Cleared(n.toClient, g, n.regs, p.registrations, Registering(g), Unregistering(p, g))
  BY DEF Registered
<1> DEFINE ons == Registering(g)
           offs == Unregistering(p, g)
<1>2. /\ Synced(q.toClient, g, q.regs, p.registrations, Uses(g), ons, offs)
      /\ ~Forced => Cleared(q.toClient, g, q.regs, p.registrations, ons, offs)
  BY DEF Registered
<1>3. /\ m \in Uses(g) => g \in q.regs
      /\ g \in n.regs => m \in ons \/ (g \in q.regs /\ m \notin offs)
      /\ ~Forced /\ g \notin n.regs => m \notin ons /\ (m \in offs \/ g \notin q.regs)
  OBVIOUS
<1> HIDE DEF ons, offs
<1>4. Synced(Append(q.toClient, m), g, n.regs, p.registrations, Uses(g), ons, offs)
  BY <1>1, <1>2, <1>3, SyncedAppend
<1>5. ~Forced => Cleared(Append(q.toClient, m), g, n.regs, p.registrations, ons, offs)
  BY <1>1, <1>2, <1>3, ClearedAppend
<1> QED
  BY <1>4, <1>5 DEF ons, offs

LEMMA RegisteredStill ==
    ASSUME NEW p, NEW q, NEW n, Registered(p, q), n.toClient = q.toClient, n.regs = q.regs
    PROVE  Registered(p, n)
BY DEF Registered

-----------------------------------------------------------------------------
(* What the router does to Matched.                                        *)

\* The router has read at most one message.
Later(q, n) ==
    \E d \in {0, 1} : \A k \in DOMAIN n.toRouter :
        k + d \in DOMAIN q.toRouter /\ n.toRouter[k] = q.toRouter[k + d]

LEMMA LaterTail ==
    ASSUME NEW q, Routed(q), q.toRouter # <<>>, NEW n, n.toRouter = Tail(q.toRouter)
    PROVE  /\ Later(q, n)
           /\ \A k \in DOMAIN n.toRouter : k + 1 \in DOMAIN q.toRouter /\ n.toRouter[k] = q.toRouter[k + 1]
           /\ \A k \in DOMAIN q.toRouter : k = 1 \/ (k - 1 \in DOMAIN n.toRouter /\ n.toRouter[k - 1] = q.toRouter[k])
           /\ 1 \in DOMAIN q.toRouter /\ q.toRouter[1] = Head(q.toRouter)
<1>1. q.toRouter \in Seq(Questions)
  BY DEF Routed
<1>2. /\ Len(q.toRouter) \in Nat \ {0} /\ DOMAIN q.toRouter = 1 .. Len(q.toRouter)
      /\ DOMAIN n.toRouter = 1 .. Len(q.toRouter) - 1
      /\ \A k \in 1 .. Len(q.toRouter) - 1 : n.toRouter[k] = q.toRouter[k + 1]
      /\ q.toRouter[1] = Head(q.toRouter) /\ 1 \in DOMAIN q.toRouter
  BY <1>1, Rested
<1>3. \A k \in DOMAIN n.toRouter : k + 1 \in DOMAIN q.toRouter /\ n.toRouter[k] = q.toRouter[k + 1]
  BY <1>2
<1>4. ASSUME NEW k \in DOMAIN q.toRouter, k # 1
      PROVE  k - 1 \in DOMAIN n.toRouter /\ n.toRouter[k - 1] = q.toRouter[k]
  <2>1. k - 1 \in 1 .. Len(q.toRouter) - 1 /\ (k - 1) + 1 = k
    BY <1>2, <1>4
  <2> QED
    BY <1>2, <2>1
<1>5. Later(q, n)
  BY <1>3 DEF Later
<1> QED
  BY <1>2, <1>3, <1>4, <1>5

LEMMA LaterSame ==
    ASSUME NEW q, Routed(q), NEW n, n.toRouter = q.toRouter
    PROVE  Later(q, n)
<1>1. \A k \in DOMAIN n.toRouter : k + 0 = k
  BY DEF Routed
<1> QED
  BY <1>1 DEF Later

\* If m is a reply, it is the only one to a request outstanding.
Due(p, q, n, m) ==
    m \in Replying =>
        /\ p.outstanding[m.request] = Answering(m) /\ m.request \notin n.calls
        /\ \A k \in DOMAIN n.toRouter : n.toRouter[k] \in Asks => n.toRouter[k].request # m.request
        /\ \A k \in DOMAIN q.toClient : q.toClient[k] \in Replying => q.toClient[k].request # m.request

LEMMA MatchedSays ==
    ASSUME NEW p, NEW q, NEW n, Routed(q), Routed(n), Matched(p, q), Later(q, n), n.calls \subseteq q.calls,
           NEW m \in Answers, n.toClient = Append(q.toClient, m),
           Due(p, q, n, m)
    PROVE  Matched(p, n)
<1> DEFINE c == Len(q.toClient)
<1>1. /\ c \in Nat /\ DOMAIN n.toClient = 1 .. c + 1 /\ DOMAIN q.toClient = 1 .. c
      /\ \A k \in 1 .. c : n.toClient[k] = q.toClient[k]
      /\ n.toClient[c + 1] = m
  BY Appended DEF Routed
<1>2. \A k \in DOMAIN n.toClient : (k \in DOMAIN q.toClient /\ n.toClient[k] = q.toClient[k]) \/ (k = c + 1 /\ n.toClient[k] = m)
  BY <1>1
<1> HIDE DEF c
<1>3. PICK d \in {0, 1} : \A k \in DOMAIN n.toRouter :
          k + d \in DOMAIN q.toRouter /\ n.toRouter[k] = q.toRouter[k + d]
  BY DEF Later
<1>4. \A k, l \in DOMAIN n.toRouter : k # l => k + d # l + d
  BY DEF Routed
<1>5. \A k \in DOMAIN n.toRouter : n.toRouter[k] \in Asks =>
         /\ p.outstanding[n.toRouter[k].request] # "none"
         /\ Verb[p.outstanding[n.toRouter[k].request]] = n.toRouter[k].type
         /\ p.about[n.toRouter[k].request] = n.toRouter[k].about
  BY <1>3 DEF Matched
<1>6. \A k \in DOMAIN n.toClient : n.toClient[k] \in Replying =>
         p.outstanding[n.toClient[k].request] = Answering(n.toClient[k])
  BY <1>2 DEF Matched, Due
<1>7. \A i \in n.calls : p.outstanding[i] = "call"
  BY DEF Matched
<1>8. \A k, l \in DOMAIN n.toRouter :
         n.toRouter[k] \in Asks /\ n.toRouter[l] \in Asks /\ k # l
           => n.toRouter[k].request # n.toRouter[l].request
  BY <1>3, <1>4 DEF Matched
<1>9. \A k, l \in DOMAIN n.toClient :
         n.toClient[k] \in Replying /\ n.toClient[l] \in Replying /\ k # l
           => n.toClient[k].request # n.toClient[l].request
  BY <1>2 DEF Matched, Due
<1>10. \A k \in DOMAIN n.toRouter, l \in DOMAIN n.toClient :
         n.toRouter[k] \in Asks /\ n.toClient[l] \in Replying
           => n.toRouter[k].request # n.toClient[l].request
  <2> SUFFICES ASSUME NEW k \in DOMAIN n.toRouter, NEW l \in DOMAIN n.toClient,
                      n.toRouter[k] \in Asks, n.toClient[l] \in Replying
               PROVE  n.toRouter[k].request # n.toClient[l].request
    OBVIOUS
  <2>1. k + d \in DOMAIN q.toRouter /\ n.toRouter[k] = q.toRouter[k + d]
    BY <1>3
  <2> QED
    BY <1>2, <2>1 DEF Matched, Due
<1>11. \A k \in DOMAIN n.toRouter : n.toRouter[k] \in Asks => n.toRouter[k].request \notin n.calls
  BY <1>3 DEF Matched
<1>12. \A k \in DOMAIN n.toClient : n.toClient[k] \in Replying => n.toClient[k].request \notin n.calls
  BY <1>2 DEF Matched, Due
<1>13. \A i \in Ids : p.outstanding[i] \in Kinds \ {"call", "publish"} => p.reply[i] = "pending"
  BY DEF Matched
<1> QED
  BY <1>5, <1>6, <1>7, <1>8, <1>9, <1>10, <1>11, <1>12, <1>13 DEF Matched

LEMMA MatchedStill ==
    ASSUME NEW p, NEW q, NEW n, Routed(q), Routed(n), Matched(p, q), Later(q, n),
           n.toClient = q.toClient,
           \A i \in n.calls : i \in q.calls \/
              /\ p.outstanding[i] = "call"
              /\ \A k \in DOMAIN n.toRouter : n.toRouter[k] \in Asks => n.toRouter[k].request # i
              /\ \A k \in DOMAIN q.toClient : q.toClient[k] \in Replying => q.toClient[k].request # i
    PROVE  Matched(p, n)
<1>3. PICK d \in {0, 1} : \A k \in DOMAIN n.toRouter :
          k + d \in DOMAIN q.toRouter /\ n.toRouter[k] = q.toRouter[k + d]
  BY DEF Later
<1>4. \A k, l \in DOMAIN n.toRouter : k # l => k + d # l + d
  BY DEF Routed
<1>5. \A k \in DOMAIN n.toRouter : n.toRouter[k] \in Asks =>
         /\ p.outstanding[n.toRouter[k].request] # "none"
         /\ Verb[p.outstanding[n.toRouter[k].request]] = n.toRouter[k].type
         /\ p.about[n.toRouter[k].request] = n.toRouter[k].about
  BY <1>3 DEF Matched
<1>6. \A i \in n.calls : p.outstanding[i] = "call"
  BY DEF Matched
<1>7. \A k, l \in DOMAIN n.toRouter :
         n.toRouter[k] \in Asks /\ n.toRouter[l] \in Asks /\ k # l
           => n.toRouter[k].request # n.toRouter[l].request
  BY <1>3, <1>4 DEF Matched
<1>8. \A k \in DOMAIN n.toRouter, l \in DOMAIN n.toClient :
         n.toRouter[k] \in Asks /\ n.toClient[l] \in Replying
           => n.toRouter[k].request # n.toClient[l].request
  BY <1>3 DEF Matched
<1>9. \A k \in DOMAIN n.toRouter : n.toRouter[k] \in Asks => n.toRouter[k].request \notin n.calls
  BY <1>3 DEF Matched
<1>10. \A k \in DOMAIN n.toClient : n.toClient[k] \in Replying => n.toClient[k].request \notin n.calls
  BY DEF Matched
<1> QED
  BY <1>5, <1>6, <1>7, <1>8, <1>9, <1>10 DEF Matched

-----------------------------------------------------------------------------
(* What the router does to Invoked and Greeted.                            *)

LEMMA InvokedOn ==
    ASSUME NEW p, NEW q, NEW n, Routed(q), Routed(n), Invoked(p, q), Later(q, n),
           n.open = q.open, n.invoked = q.invoked, n.stray = q.stray,
           \A k \in DOMAIN n.toClient : n.toClient[k] \in Invoking =>
              k \in DOMAIN q.toClient /\ n.toClient[k] = q.toClient[k],
           n.phase = "joined" =>
              \/ q.open = {}
              \/ /\ q.phase = "joined"
                 /\ \A k \in DOMAIN q.toClient : k \in DOMAIN n.toClient /\ n.toClient[k] = q.toClient[k]
                 /\ \A k \in DOMAIN q.toRouter : q.toRouter[k] \in Yielding =>
                       \E l \in DOMAIN n.toRouter : n.toRouter[l] = q.toRouter[k]
    PROVE  Invoked(p, n)
<1>1. PICK d \in {0, 1} : \A k \in DOMAIN n.toRouter :
          k + d \in DOMAIN q.toRouter /\ n.toRouter[k] = q.toRouter[k + d]
  BY DEF Later
<1>2. \A k, l \in DOMAIN n.toRouter : k # l => k + d # l + d
  BY DEF Routed
<1>3. /\ n.open \subseteq n.invoked /\ p.invocations \subseteq n.open /\ ~n.stray
  BY DEF Invoked
<1>4. \A k \in DOMAIN n.toClient : n.toClient[k] \in Invoking =>
         n.toClient[k].about \in n.open \ p.invocations
  BY DEF Invoked
<1>5. \A k \in DOMAIN n.toRouter : n.toRouter[k] \in Yielding =>
         n.toRouter[k].about \in n.open \ p.invocations
  BY <1>1 DEF Invoked
<1>6. \A k, l \in DOMAIN n.toClient :
         n.toClient[k] \in Invoking /\ n.toClient[l] \in Invoking /\ k # l
           => n.toClient[k].about # n.toClient[l].about
  BY DEF Invoked
<1>7. \A k, l \in DOMAIN n.toRouter :
         n.toRouter[k] \in Yielding /\ n.toRouter[l] \in Yielding /\ k # l
           => n.toRouter[k].about # n.toRouter[l].about
  BY <1>1, <1>2 DEF Invoked
<1>8. \A k \in DOMAIN n.toRouter, l \in DOMAIN n.toClient :
         n.toRouter[k] \in Yielding /\ n.toClient[l] \in Invoking
           => n.toRouter[k].about # n.toClient[l].about
  BY <1>1 DEF Invoked
<1>9. ASSUME p.transport = "open", n.phase = "joined", NEW i \in n.open
      PROVE  \/ i \in p.invocations
             \/ \E k \in DOMAIN n.toClient : n.toClient[k] \in Invoking /\ n.toClient[k].about = i
             \/ \E k \in DOMAIN n.toRouter : n.toRouter[k] \in Yielding /\ n.toRouter[k].about = i
  <2>1. /\ q.phase = "joined"
        /\ \A k \in DOMAIN q.toClient : k \in DOMAIN n.toClient /\ n.toClient[k] = q.toClient[k]
        /\ \A k \in DOMAIN q.toRouter : q.toRouter[k] \in Yielding =>
              \E l \in DOMAIN n.toRouter : n.toRouter[l] = q.toRouter[k]
    BY <1>9
  <2>2. \/ i \in p.invocations
        \/ \E k \in DOMAIN q.toClient : q.toClient[k] \in Invoking /\ q.toClient[k].about = i
        \/ \E k \in DOMAIN q.toRouter : q.toRouter[k] \in Yielding /\ q.toRouter[k].about = i
    BY <1>9, <2>1 DEF Invoked
  <2> QED
    BY <2>1, <2>2
<1> QED
  BY <1>3, <1>4, <1>5, <1>6, <1>7, <1>8, <1>9 DEF Invoked

\* The dealer gets an answer it waits for.
LEMMA InvokedAnswered ==
    ASSUME NEW p, NEW q, NEW n, Routed(q), Routed(n), Invoked(p, q), q.toRouter # <<>>,
           NEW m \in Yielding, m = Head(q.toRouter), n.toRouter = Tail(q.toRouter),
           n.toClient = q.toClient, n.phase = q.phase,
           n.open = q.open \ {m.about}, n.stray <=> q.stray \/ m.about \notin q.open,
           n.invoked = q.invoked
    PROVE  Invoked(p, n)
<1>1. /\ Later(q, n)
      /\ \A k \in DOMAIN n.toRouter : k + 1 \in DOMAIN q.toRouter /\ n.toRouter[k] = q.toRouter[k + 1]
      /\ \A k \in DOMAIN q.toRouter : k = 1 \/ (k - 1 \in DOMAIN n.toRouter /\ n.toRouter[k - 1] = q.toRouter[k])
      /\ 1 \in DOMAIN q.toRouter /\ q.toRouter[1] = Head(q.toRouter)
  BY LaterTail
<1>2. \A k, l \in DOMAIN n.toRouter : (k # l => k + 1 # l + 1) /\ k + 1 # 1
  BY DEF Routed
<1>3. m.about \in q.open \ p.invocations
  BY <1>1 DEF Invoked
<1>4. /\ n.open \subseteq n.invoked /\ p.invocations \subseteq n.open /\ ~n.stray
  BY <1>3 DEF Invoked
<1>5. \A k \in DOMAIN n.toClient : n.toClient[k] \in Invoking =>
         n.toClient[k].about \in n.open \ p.invocations
  BY <1>1 DEF Invoked
<1>6. \A k \in DOMAIN n.toRouter : n.toRouter[k] \in Yielding =>
         n.toRouter[k].about \in n.open \ p.invocations
  BY <1>1, <1>2 DEF Invoked
<1>7. \A k, l \in DOMAIN n.toRouter :
         n.toRouter[k] \in Yielding /\ n.toRouter[l] \in Yielding /\ k # l
           => n.toRouter[k].about # n.toRouter[l].about
  BY <1>1, <1>2 DEF Invoked
<1>8. \A k \in DOMAIN n.toRouter, l \in DOMAIN n.toClient :
         n.toRouter[k] \in Yielding /\ n.toClient[l] \in Invoking
           => n.toRouter[k].about # n.toClient[l].about
  BY <1>1 DEF Invoked
<1>9. ASSUME p.transport = "open", n.phase = "joined", NEW i \in n.open
      PROVE  \/ i \in p.invocations
             \/ \E k \in DOMAIN n.toClient : n.toClient[k] \in Invoking /\ n.toClient[k].about = i
             \/ \E k \in DOMAIN n.toRouter : n.toRouter[k] \in Yielding /\ n.toRouter[k].about = i
  <2>1. \/ i \in p.invocations
        \/ \E k \in DOMAIN q.toClient : q.toClient[k] \in Invoking /\ q.toClient[k].about = i
        \/ \E k \in DOMAIN q.toRouter : q.toRouter[k] \in Yielding /\ q.toRouter[k].about = i
    BY <1>9 DEF Invoked
  <2>2. \A k \in DOMAIN q.toRouter : q.toRouter[k].about = i => k # 1
    BY <1>1, <1>9
  <2>3. \A k \in DOMAIN q.toRouter : q.toRouter[k].about = i =>
           k - 1 \in DOMAIN n.toRouter /\ n.toRouter[k - 1] = q.toRouter[k]
    BY <1>1, <2>2
  <2> QED
    BY <2>1, <2>3
<1> QED
  BY <1>4, <1>5, <1>6, <1>7, <1>8, <1>9 DEF Invoked

\* The dealer invokes.
LEMMA InvokedMore ==
    ASSUME NEW p, NEW q, NEW n, Routed(q), Routed(n), Invoked(p, q), NEW m \in Invoking,
           m.about \notin q.invoked, n.invoked = q.invoked \cup {m.about},
           n.open = q.open \cup {m.about}, n.stray = q.stray, n.phase = q.phase,
           n.toRouter = q.toRouter, n.toClient = Append(q.toClient, m)
    PROVE  Invoked(p, n)
<1> DEFINE c == Len(q.toClient)
<1>0. m \in Answers
  BY DEF Invoking
<1>1. /\ c \in Nat /\ DOMAIN n.toClient = 1 .. c + 1 /\ DOMAIN q.toClient = 1 .. c
      /\ \A k \in 1 .. c : n.toClient[k] = q.toClient[k]
      /\ n.toClient[c + 1] = m
  BY <1>0, Appended DEF Routed
<1>2. /\ \A k \in DOMAIN n.toClient : (k \in DOMAIN q.toClient /\ n.toClient[k] = q.toClient[k])
                                      \/ (k = c + 1 /\ n.toClient[k] = m)
      /\ \A k \in DOMAIN q.toClient : k \in DOMAIN n.toClient /\ n.toClient[k] = q.toClient[k]
      /\ c + 1 \in DOMAIN n.toClient
  BY <1>1
<1> HIDE DEF c
<1>3. m.about \notin q.open /\ m.about \notin p.invocations
  BY DEF Invoked
<1>4. /\ n.open \subseteq n.invoked /\ p.invocations \subseteq n.open /\ ~n.stray
  BY DEF Invoked
<1>5. \A k \in DOMAIN n.toClient : n.toClient[k] \in Invoking =>
         n.toClient[k].about \in n.open \ p.invocations
  BY <1>2, <1>3 DEF Invoked
<1>6. \A k \in DOMAIN n.toRouter : n.toRouter[k] \in Yielding =>
         n.toRouter[k].about \in n.open \ p.invocations
  BY DEF Invoked
<1>7. \A k, l \in DOMAIN n.toClient :
         n.toClient[k] \in Invoking /\ n.toClient[l] \in Invoking /\ k # l
           => n.toClient[k].about # n.toClient[l].about
  BY <1>2, <1>3 DEF Invoked
<1>8. \A k \in DOMAIN n.toRouter, l \in DOMAIN n.toClient :
         n.toRouter[k] \in Yielding /\ n.toClient[l] \in Invoking
           => n.toRouter[k].about # n.toClient[l].about
  BY <1>2, <1>3 DEF Invoked
<1>9. \A k, l \in DOMAIN n.toRouter :
         n.toRouter[k] \in Yielding /\ n.toRouter[l] \in Yielding /\ k # l
           => n.toRouter[k].about # n.toRouter[l].about
  BY DEF Invoked
<1>10. ASSUME p.transport = "open", n.phase = "joined", NEW i \in n.open
      PROVE  \/ i \in p.invocations
             \/ \E k \in DOMAIN n.toClient : n.toClient[k] \in Invoking /\ n.toClient[k].about = i
             \/ \E k \in DOMAIN n.toRouter : n.toRouter[k] \in Yielding /\ n.toRouter[k].about = i
  <2>1. CASE i = m.about
    BY <1>2, <2>1
  <2>2. CASE i \in q.open
    <3>1. \/ i \in p.invocations
          \/ \E k \in DOMAIN q.toClient : q.toClient[k] \in Invoking /\ q.toClient[k].about = i
          \/ \E k \in DOMAIN q.toRouter : q.toRouter[k] \in Yielding /\ q.toRouter[k].about = i
      BY <1>10, <2>2 DEF Invoked
    <3> QED
      BY <1>2, <3>1
  <2> QED
    BY <1>10, <2>1, <2>2
<1> QED
  BY <1>4, <1>5, <1>6, <1>7, <1>8, <1>9, <1>10 DEF Invoked

LEMMA GreetedSays ==
    ASSUME NEW p, NEW q, NEW n, Routed(q), Progress(p), Greeted(p, q),
           q.phase = "joined", n.phase = "joined",
           \/ n.toClient = q.toClient
           \/ \E m \in Answers : n.toClient = Append(q.toClient, m) /\ m.type \notin Greeting \cup {"GOODBYE"}
    PROVE  Greeted(p, n)
<1>1. (p.transport # "none" /\ p.challenges = 0) \/ ~(p.challenges > 0)
  BY DEF Greeted
<1>2. Listening(p) => \/ p.joined \/ p.welcomes = 1
                      \/ q.toClient # <<>> /\ q.toClient[1].type = "WELCOME"
  BY DEF Greeted
<1>3. Listening(p) /\ ~p.joined => ~(p.joins > 0)
  BY DEF Greeted
<1>4. p.transport # "none"
  BY DEF Greeted
<1>5. ~(p.challenges > 0)
  BY DEF Greeted
<1>6. /\ \A k \in DOMAIN n.toClient : n.toClient[k].type \in Greeting =>
            k \in DOMAIN q.toClient /\ n.toClient[k] = q.toClient[k]
      /\ \A k \in DOMAIN n.toClient : n.toClient[k].type = "GOODBYE" =>
            k \in DOMAIN q.toClient /\ n.toClient[k] = q.toClient[k]
      /\ q.toClient # <<>> => n.toClient # <<>> /\ n.toClient[1] = q.toClient[1]
  <2>1. CASE n.toClient = q.toClient
    BY <2>1
  <2>2. ASSUME NEW m \in Answers, n.toClient = Append(q.toClient, m),
               m.type \notin Greeting \cup {"GOODBYE"}
        PROVE  <1>6!:
    <3>1. /\ Len(q.toClient) \in Nat /\ DOMAIN n.toClient = 1 .. Len(q.toClient) + 1
          /\ DOMAIN q.toClient = 1 .. Len(q.toClient)
          /\ \A k \in 1 .. Len(q.toClient) : n.toClient[k] = q.toClient[k]
          /\ n.toClient[Len(q.toClient) + 1] = m
      BY <2>2, Appended DEF Routed
    <3>2. q.toClient # <<>> => 1 \in DOMAIN q.toClient
      BY DEF Routed
    <3>3. n.toClient # <<>>
      BY <3>1
    <3> QED
      BY <2>2, <3>1, <3>2, <3>3
  <2> QED
    BY <2>1, <2>2
<1>7. \A k \in DOMAIN n.toClient : n.toClient[k].type \in Greeting => k = 1 /\ Unmet(p)
  BY <1>6 DEF Greeted
<1>8. \A k \in DOMAIN n.toClient : n.toClient[k].type # "GOODBYE"
  BY <1>6 DEF Greeted
<1> QED
  BY <1>2, <1>3, <1>4, <1>5, <1>6, <1>7, <1>8 DEF Greeted

\* The router says goodbye, or stops.
LEMMA GreetedEnds ==
    ASSUME NEW p, NEW q, NEW n, Routed(q), Progress(p), Greeted(p, q),
           q.phase = "joined", n.phase \in {"closing", "out"},
           n.toClient = q.toClient \/ n.toClient = Append(q.toClient, Message("GOODBYE", 0, 0))
    PROVE  Greeted(p, n)
<1> DEFINE m == Message("GOODBYE", 0, 0)
<1>1. m \in Answers /\ m.type = "GOODBYE"
  BY AnswerTyped DEF Message
<1>2. Listening(p) => \/ p.joined \/ p.welcomes = 1
                      \/ q.toClient # <<>> /\ q.toClient[1].type = "WELCOME"
  BY DEF Greeted
<1>3. Listening(p) /\ ~p.joined => ~(p.joins > 0)
  BY DEF Greeted
<1>4. p.transport # "none"
  BY DEF Greeted
<1>5. ~(p.challenges > 0)
  BY DEF Greeted
<1> HIDE DEF m
<1>6. /\ \A k \in DOMAIN n.toClient : n.toClient[k].type \in Greeting =>
            k \in DOMAIN q.toClient /\ n.toClient[k] = q.toClient[k]
      /\ \A k \in DOMAIN n.toClient : n.toClient[k].type = "GOODBYE" =>
            k = Len(n.toClient) \/ (k \in DOMAIN q.toClient /\ n.toClient[k] = q.toClient[k])
      /\ q.toClient # <<>> => n.toClient # <<>> /\ n.toClient[1] = q.toClient[1]
  <2>1. CASE n.toClient = q.toClient
    BY <2>1
  <2>2. CASE n.toClient = Append(q.toClient, m)
    <3>1. /\ Len(q.toClient) \in Nat /\ DOMAIN n.toClient = 1 .. Len(q.toClient) + 1
          /\ Len(n.toClient) = Len(q.toClient) + 1
          /\ DOMAIN q.toClient = 1 .. Len(q.toClient)
          /\ \A k \in 1 .. Len(q.toClient) : n.toClient[k] = q.toClient[k]
          /\ n.toClient[Len(q.toClient) + 1] = m
      BY <1>1, <2>2, Appended DEF Routed
    <3>2. q.toClient # <<>> => 1 \in DOMAIN q.toClient
      BY DEF Routed
    <3>3. n.toClient # <<>>
      BY <3>1
    <3> QED
      BY <1>1, <3>1, <3>2, <3>3 DEF Greeting
  <2> QED
    BY <2>1, <2>2 DEF m
<1>7. \A k \in DOMAIN n.toClient : n.toClient[k].type \in Greeting => k = 1 /\ Unmet(p)
  BY <1>6 DEF Greeted
<1>8. \A k \in DOMAIN n.toClient : n.toClient[k].type = "GOODBYE" => k = Len(n.toClient)
  BY <1>6 DEF Greeted
<1> QED
  BY <1>2, <1>3, <1>4, <1>5, <1>6, <1>7, <1>8 DEF Greeted

\* The router hears nobody any more.
LEMMA GreetedDeaf ==
    ASSUME NEW p, NEW q, NEW n, Routed(q), Progress(p), Greeted(p, q), n.toClient = q.toClient,
           n.phase \in {"closing", "out"}, n.phase = q.phase \/ n.phase = "out",
           q.phase \in {"challenged", "closing", "out"}
    PROVE  Greeted(p, n)
<1>1. p.transport # "none"
  BY DEF Greeted
<1>2. p.challenges > 0 => n.toClient = <<>> /\ n.phase \in {"closing", "out"}
  BY DEF Greeted
<1>3. \A k \in DOMAIN n.toClient : n.toClient[k].type \in Greeting => k = 1 /\ Unmet(p)
  BY DEF Greeted
<1>4. \A k \in DOMAIN n.toClient : n.toClient[k].type = "GOODBYE" => k = Len(n.toClient)
  BY DEF Greeted
<1>5. Listening(p) /\ (\E k \in DOMAIN n.toClient : n.toClient[k].type \notin Greeting)
         => \/ p.joined \/ p.welcomes = 1
            \/ n.toClient # <<>> /\ n.toClient[1].type = "WELCOME"
  BY DEF Greeted
<1>6. Listening(p) /\ ~p.joined /\ p.joins > 0 => n.toClient = <<>>
  BY DEF Greeted, Unmet
<1> QED
  BY <1>1, <1>2, <1>3, <1>4, <1>5, <1>6 DEF Greeted

LEMMA GreetedGreets ==
    ASSUME NEW p \in Sessions, NEW q, NEW n, Routed(q), Progress(p), Greeted(p, q), q.toRouter # <<>>,
           \/ q.phase = "waiting"
           \/ q.phase = "challenged" /\ Head(q.toRouter).type = "AUTHENTICATE",
           NEW type, \/ type = "WELCOME" /\ n.phase = "joined"
                     \/ type = "CHALLENGE" /\ n.phase = "challenged" /\ q.phase = "waiting"
                     \/ type = "ABORT" /\ n.phase = "out",
           n.toRouter = Tail(q.toRouter),
           n.toClient = Append(q.toClient, Message(type, 0, 0)),
           n.subs = q.subs, n.regs = q.regs, n.calls = q.calls, n.open = q.open
    PROVE  Greeted(p, n)
<1> DEFINE m == Message(type, 0, 0)
<1>1. m \in Answers /\ m.type = type /\ type # "GOODBYE"
  BY AnswerTyped DEF Message, Greeting
<1>2. /\ Later(q, n)
      /\ \A k \in DOMAIN n.toRouter : k + 1 \in DOMAIN q.toRouter /\ n.toRouter[k] = q.toRouter[k + 1]
      /\ \A k \in DOMAIN q.toRouter : k = 1 \/ (k - 1 \in DOMAIN n.toRouter /\ n.toRouter[k - 1] = q.toRouter[k])
      /\ 1 \in DOMAIN q.toRouter /\ q.toRouter[1] = Head(q.toRouter)
  BY LaterTail
<1>3. q.toClient = <<>> /\ Unmet(p)
  <2>1. CASE q.phase = "waiting"
    BY <2>1 DEF Greeted
  <2>2. CASE q.phase = "challenged" /\ Head(q.toRouter).type = "AUTHENTICATE"
    <3>1. Signed(q)
      BY <1>2, <2>2 DEF Signed
    <3>2. /\ q.toClient = <<>> /\ ~(p.challenges > 0) /\ ~p.denied
          /\ ~p.joined /\ p.joins = 0 /\ p.welcomes = 0
      BY <2>2, <3>1 DEF Greeted
    <3>3. p.challenges = 0
      BY <3>2 DEF Sessions
    <3> QED
      BY <3>2, <3>3 DEF Unmet
  <2> QED
    BY <2>1, <2>2
<1>4. q.phase = "waiting" => ~Signed(n)
  BY <1>2 DEF Greeted, Signed
<1>5. n.toClient = <<m>> /\ n.toClient # <<>>
  BY <1>3
<1>6. DOMAIN n.toClient = {1} /\ Len(n.toClient) = 1 /\ n.toClient[1] = m
  BY <1>5
<1>7. p.transport # "none" /\ n.phase # "waiting" /\ ~(p.challenges > 0)
  BY <1>3 DEF Greeted, Unmet, Greeting
<1>8. n.phase = "challenged" => type = "CHALLENGE" /\ q.phase = "waiting"
  BY DEF Greeting
<1>9. n.phase = "joined" => type = "WELCOME"
  BY DEF Greeting
<1>10. q.subs = {} /\ q.regs = {} /\ q.calls = {} /\ q.open = {}
  BY DEF Greeted
<1> HIDE DEF m
<1> QED
  BY <1>1, <1>3, <1>4, <1>5, <1>6, <1>7, <1>8, <1>9, <1>10 DEF Greeted, Unmet, Greeting

-----------------------------------------------------------------------------
(* The router handles a message.                                           *)

LEMMA AskedTail ==
    ASSUME NEW q, Routed(q), q.toRouter # <<>>, NEW n, n.toRouter = Tail(q.toRouter),
           NEW t, t \in Asked(q), t \notin Asked(n)
    PROVE  Head(q.toRouter).type = "UNSUBSCRIBE" /\ Head(q.toRouter).about = t
<1>1. /\ Later(q, n)
      /\ \A k \in DOMAIN n.toRouter : k + 1 \in DOMAIN q.toRouter /\ n.toRouter[k] = q.toRouter[k + 1]
      /\ \A k \in DOMAIN q.toRouter : k = 1 \/ (k - 1 \in DOMAIN n.toRouter /\ n.toRouter[k - 1] = q.toRouter[k])
      /\ 1 \in DOMAIN q.toRouter /\ q.toRouter[1] = Head(q.toRouter)
  BY LaterTail
<1>2. t \in Topics /\ \E k \in DOMAIN q.toRouter : q.toRouter[k].type = "UNSUBSCRIBE" /\ q.toRouter[k].about = t
  BY DEF Asked
<1>3. PICK k \in DOMAIN q.toRouter : q.toRouter[k].type = "UNSUBSCRIBE" /\ q.toRouter[k].about = t
  BY <1>2
<1>4. k = 1
  BY <1>1, <1>2, <1>3 DEF Asked
<1> QED
  BY <1>1, <1>3, <1>4

LEMMA SubscribedOther ==
    ASSUME NEW p, NEW q, NEW n, Routed(q), Subscribed(p, q), NEW a \in Answers,
           a.type \notin {"EVENT", "SUBSCRIBED", "UNSUBSCRIBED"},
           n.toClient = Append(q.toClient, a), n.subs = q.subs,
           n.phase = "joined" => q.phase = "joined" /\ \A t \in q.subs : t \in Asked(q) => t \in Asked(n)
    PROVE  Subscribed(p, n)
<1>1. \A t \in Topics : a \notin Events(t) /\ a \notin Subscribing(t) /\ a \notin Unsubscribing(p, t)
  BY DEF Events, Subscribing, Unsubscribing
<1> QED
  BY <1>1, SubscribedSays

LEMMA RegisteredOther ==
    ASSUME NEW p, NEW q, NEW n, Routed(q), Registered(p, q), NEW a \in Answers,
           a.type \notin {"INVOCATION", "REGISTERED", "UNREGISTERED"},
           n.toClient = Append(q.toClient, a), n.regs = q.regs
    PROVE  Registered(p, n)
<1>1. \A g \in Ids : a \notin Uses(g) /\ a \notin Registering(g) /\ a \notin Unregistering(p, g)
  BY DEF Uses, Registering, Unregistering
<1> QED
  BY <1>1, RegisteredSays

LEMMA VerbsDiffer == \A x, y \in Kinds : Verb[x] = Verb[y] => x = y
BY DEF Verb, Kinds

\* A request, or the cancellation of a call, is answered.
LEMMA AnswerAgreed ==
    ASSUME NEW p \in Sessions, NEW q, NEW n, Routed(q), Routed(n), Agreed(p, q), q.toRouter # <<>>,
           NEW m, m = Head(q.toRouter), n.toRouter = Tail(q.toRouter),
           q.phase = "joined", n.phase = "joined",
           n.open = q.open, n.invoked = q.invoked, n.stray = q.stray,
           NEW a \in Replying, n.toClient = Append(q.toClient, a), a.request = m.request,
           \/ m \in Asks /\ Answering(a) \in Kinds /\ m.type = Verb[Answering(a)] /\ n.calls = q.calls
           \/ m.type = "CANCEL" /\ m.request \in q.calls /\ Answering(a) = "call"
                /\ n.calls = q.calls \ {m.request}
    PROVE  Greeted(p, n) /\ Invoked(p, n) /\ (Live(p) => Matched(p, n))
<1>1. /\ Later(q, n)
      /\ \A k \in DOMAIN n.toRouter : k + 1 \in DOMAIN q.toRouter /\ n.toRouter[k] = q.toRouter[k + 1]
      /\ \A k \in DOMAIN q.toRouter : k = 1 \/ (k - 1 \in DOMAIN n.toRouter /\ n.toRouter[k - 1] = q.toRouter[k])
      /\ 1 \in DOMAIN q.toRouter /\ q.toRouter[1] = Head(q.toRouter)
  BY LaterTail
<1>2. a \in Answers /\ a.type \notin Greeting \cup {"GOODBYE", "INVOCATION"} /\ a.request \in Ids
  BY DEF Replying, ReplyKind, Greeting
<1>3. /\ Len(q.toClient) \in Nat /\ DOMAIN n.toClient = 1 .. Len(q.toClient) + 1
      /\ DOMAIN q.toClient = 1 .. Len(q.toClient)
      /\ \A k \in 1 .. Len(q.toClient) : n.toClient[k] = q.toClient[k]
      /\ n.toClient[Len(q.toClient) + 1] = a
  BY <1>2, Appended DEF Routed
<1>4. Greeted(p, n)
  BY <1>2, GreetedSays DEF Agreed
<1>5. Invoked(p, n)
  <2>1. m \notin Yielding
    BY DEF Yielding, Asks, Verbs, Verb, Kinds
  <2>2. \A k \in DOMAIN n.toClient : n.toClient[k] \in Invoking =>
              k \in DOMAIN q.toClient /\ n.toClient[k] = q.toClient[k]
    BY <1>2, <1>3 DEF Invoking
  <2>3. \A k \in DOMAIN q.toClient : k \in DOMAIN n.toClient /\ n.toClient[k] = q.toClient[k]
    BY <1>3
  <2>4. \A k \in DOMAIN q.toRouter : q.toRouter[k] \in Yielding =>
              \E l \in DOMAIN n.toRouter : n.toRouter[l] = q.toRouter[k]
    BY <1>1, <2>1
  <2>5. Invoked(p, q)
    BY DEF Agreed
  <2> QED
    BY <1>1, <2>2, <2>3, <2>4, <2>5, InvokedOn
<1>6. ASSUME Live(p)
      PROVE  Matched(p, n)
  <2>1. Matched(p, q)
    BY <1>6 DEF Agreed
  <2>2. ASSUME m \in Asks, Answering(a) \in Kinds, m.type = Verb[Answering(a)], n.calls = q.calls
        PROVE  Due(p, q, n, a) /\ n.calls \subseteq q.calls
    <3>1. p.outstanding[m.request] # "none" /\ Verb[p.outstanding[m.request]] = m.type
      BY <1>1, <2>1, <2>2 DEF Matched
    <3>2. p.outstanding[m.request] \in Kinds
      BY <1>2, <3>1 DEF Sessions
    <3>3. p.outstanding[a.request] = Answering(a)
      BY <2>2, <3>1, <3>2, VerbsDiffer
    <3>4. a.request \notin n.calls
      BY <1>1, <2>1, <2>2 DEF Matched
    <3>5. \A k \in DOMAIN q.toClient : q.toClient[k] \in Replying => q.toClient[k].request # a.request
      BY <1>1, <2>1, <2>2 DEF Matched
    <3>6. \A k \in DOMAIN n.toRouter : n.toRouter[k] \in Asks => n.toRouter[k].request # a.request
      <4>1. \A k \in DOMAIN n.toRouter : k + 1 # 1
        BY DEF Routed
      <4> QED
        BY <1>1, <2>1, <2>2, <4>1 DEF Matched
    <3>7. n.calls \subseteq q.calls
      BY <2>2
    <3> QED
      BY <3>3, <3>4, <3>5, <3>6, <3>7 DEF Due
  <2>3. ASSUME m.type = "CANCEL", m.request \in q.calls, Answering(a) = "call",
               n.calls = q.calls \ {m.request}
        PROVE  Due(p, q, n, a) /\ n.calls \subseteq q.calls
    <3>3. p.outstanding[a.request] = Answering(a) /\ a.request \notin n.calls
      BY <2>1, <2>3 DEF Matched
    <3>5. \A k \in DOMAIN q.toClient : q.toClient[k] \in Replying => q.toClient[k].request # a.request
      BY <2>1, <2>3 DEF Matched
    <3>6. \A k \in DOMAIN n.toRouter : n.toRouter[k] \in Asks => n.toRouter[k].request # a.request
      BY <1>1, <2>1, <2>3 DEF Matched
    <3>7. n.calls \subseteq q.calls
      BY <2>3
    <3> QED
      BY <3>3, <3>5, <3>6, <3>7 DEF Due
  <2>4. Due(p, q, n, a) /\ n.calls \subseteq q.calls
    BY <2>2, <2>3
  <2>5. Later(q, n) /\ a \in Answers
    BY <1>1, <1>2
  <2> QED
    BY <2>1, <2>4, <2>5, MatchedSays
<1> QED
  BY <1>4, <1>5, <1>6

\* What the session knows is not touched.
LEMMA AgreedAnswer ==
    ASSUME NEW p \in Sessions, NEW q, NEW n, Routed(q), Routed(n), Agreed(p, q), q.toRouter # <<>>,
           NEW m, m = Head(q.toRouter), n.toRouter = Tail(q.toRouter),
           q.phase = "joined", n.phase = "joined",
           n.open = q.open, n.invoked = q.invoked, n.stray = q.stray,
           NEW a \in Replying, n.toClient = Append(q.toClient, a), a.request = m.request,
           \/ m \in Asks /\ Answering(a) \in Kinds /\ m.type = Verb[Answering(a)] /\ n.calls = q.calls
           \/ m.type = "CANCEL" /\ m.request \in q.calls /\ Answering(a) = "call"
                /\ n.calls = q.calls \ {m.request},
           \/ /\ a.type \notin {"SUBSCRIBED", "UNSUBSCRIBED"} /\ n.subs = q.subs
              /\ m.type = "UNSUBSCRIBE" => m.about \notin q.subs
           \/ a.type = "SUBSCRIBED" /\ a.about = m.about /\ n.subs = q.subs \cup {m.about}
           \/ a.type = "UNSUBSCRIBED" /\ n.subs = q.subs \ {m.about},
           \/ a.type \notin {"REGISTERED", "UNREGISTERED"} /\ n.regs = q.regs
           \/ a.type = "REGISTERED" /\ n.regs = q.regs \cup {m.request}
           \/ a.type = "UNREGISTERED" /\ n.regs = q.regs \ {m.about}
    PROVE  Agreed(p, n)
<1>1. Greeted(p, n) /\ Invoked(p, n) /\ (Live(p) => Matched(p, n))
  BY AnswerAgreed
<1>2. /\ a \in Answers /\ a.request \in Ids /\ a.type # "EVENT" /\ a.type # "INVOCATION"
      /\ \A t \in Topics : a \notin Events(t)
      /\ \A g \in Ids : a \notin Uses(g)
  <2>1. 0 \notin Ids
    BY DEF Ids
  <2> QED
    BY <2>1 DEF Replying, ReplyKind, Events, Uses
<1>3. \A t \in Topics : t \in Asked(q) => t \in Asked(n) \/ (m.type = "UNSUBSCRIBE" /\ m.about = t)
  BY AskedTail
<1>4. 1 \in DOMAIN q.toRouter /\ q.toRouter[1] = m
  BY Rested DEF Routed
<1>5. a.type \in {"SUBSCRIBED", "UNSUBSCRIBED", "REGISTERED", "UNREGISTERED"}
        => m \in Asks /\ a.type # "ERROR" /\ m.type = Verb[ReplyKind[a.type]]
  BY DEF Answering, ReplyKind
<1>6. ASSUME Live(p)
      PROVE  Subscribed(p, n)
  <2>1. Matched(p, q) /\ Subscribed(p, q)
    BY <1>6 DEF Agreed
  <2>2. CASE /\ a.type \notin {"SUBSCRIBED", "UNSUBSCRIBED"} /\ n.subs = q.subs
             /\ m.type = "UNSUBSCRIBE" => m.about \notin q.subs
    <3>1. \A t \in q.subs : t \in Asked(q) => t \in Asked(n)
      BY <1>3, <2>2 DEF Routed, Routers
    <3> QED
      BY <1>2, <2>1, <2>2, <3>1, SubscribedOther
  <2>3. CASE a.type = "SUBSCRIBED" /\ a.about = m.about /\ n.subs = q.subs \cup {m.about}
    <3>1. m.type # "UNSUBSCRIBE"
      BY <1>5, <2>3 DEF ReplyKind, Verb, Kinds
    <3>2. \A t \in Topics : /\ a \in Subscribing(t) <=> t = m.about
                            /\ a \notin Unsubscribing(p, t)
      BY <1>2, <2>3 DEF Subscribing, Unsubscribing
    <3>3. \A t \in Topics : t \in Asked(q) => t \in Asked(n)
      BY <1>3, <3>1
    <3> QED
      BY <1>2, <2>1, <2>3, <3>2, <3>3, SubscribedSays
  <2>4. CASE a.type = "UNSUBSCRIBED" /\ n.subs = q.subs \ {m.about}
    <3>1. m \in Asks
      BY <1>5, <2>4
    <3>2. p.about[a.request] = m.about
      <4>1. \A k \in DOMAIN q.toRouter : q.toRouter[k] \in Asks =>
               p.about[q.toRouter[k].request] = q.toRouter[k].about
        BY <2>1 DEF Matched
      <4> QED
        BY <1>4, <3>1, <4>1
    <3>3. \A t \in Topics : /\ a \notin Subscribing(t)
                            /\ a \in Unsubscribing(p, t) <=> t = m.about
      BY <1>2, <2>4, <3>2 DEF Subscribing, Unsubscribing
    <3>4. \A t \in Topics : t # m.about /\ t \in Asked(q) => t \in Asked(n)
      BY <1>3
    <3> QED
      BY <1>2, <2>1, <2>4, <3>3, <3>4, SubscribedSays
  <2> QED
    BY <2>2, <2>3, <2>4
<1>7. ASSUME Live(p)
      PROVE  Registered(p, n)
  <2>1. Matched(p, q) /\ Registered(p, q)
    BY <1>7 DEF Agreed
  <2>2. CASE a.type \notin {"REGISTERED", "UNREGISTERED"} /\ n.regs = q.regs
    BY <1>2, <2>1, <2>2, RegisteredOther
  <2>3. CASE a.type = "REGISTERED" /\ n.regs = q.regs \cup {m.request}
    <3>1. \A g \in Ids : /\ a \in Registering(g) <=> g = m.request
                         /\ a \notin Unregistering(p, g)
      BY <1>2, <2>3 DEF Registering, Unregistering
    <3> QED
      BY <1>2, <2>1, <2>3, <3>1, RegisteredSays
  <2>4. CASE a.type = "UNREGISTERED" /\ n.regs = q.regs \ {m.about}
    <3>1. m \in Asks
      BY <1>5, <2>4
    <3>2. p.about[a.request] = m.about
      <4>1. \A k \in DOMAIN q.toRouter : q.toRouter[k] \in Asks =>
               p.about[q.toRouter[k].request] = q.toRouter[k].about
        BY <2>1 DEF Matched
      <4> QED
        BY <1>4, <3>1, <4>1
    <3>3. \A g \in Ids : /\ a \notin Registering(g)
                         /\ a \in Unregistering(p, g) <=> g = m.about
      BY <1>2, <2>4, <3>2 DEF Registering, Unregistering
    <3> QED
      BY <1>2, <2>1, <2>4, <3>3, RegisteredSays
  <2> QED
    BY <2>2, <2>3, <2>4
<1> QED
  BY <1>1, <1>6, <1>7 DEF Agreed

\* What the router only takes note of, or does not hear.
LEMMA AgreedNote ==
    ASSUME NEW p \in Sessions, NEW q, NEW n, Routed(q), Routed(n), Agreed(p, q), q.toRouter # <<>>,
           NEW m, m = Head(q.toRouter), n.toRouter = Tail(q.toRouter),
           n.toClient = q.toClient, n.subs = q.subs, n.regs = q.regs, n.invoked = q.invoked,
           n.open = q.open, n.stray = q.stray, n.calls \subseteq q.calls,
           \/ n.phase = "joined" /\ q.phase = "joined" /\ m.type \notin {"UNSUBSCRIBE", "YIELD", "ERROR"}
           \/ n.phase \in {"closing", "out"} /\ (n.phase = q.phase \/ n.phase = "out") /\ q.phase # "waiting"
    PROVE  Agreed(p, n)
<1>1. /\ Later(q, n)
      /\ \A k \in DOMAIN n.toRouter : k + 1 \in DOMAIN q.toRouter /\ n.toRouter[k] = q.toRouter[k + 1]
      /\ \A k \in DOMAIN q.toRouter : k = 1 \/ (k - 1 \in DOMAIN n.toRouter /\ n.toRouter[k - 1] = q.toRouter[k])
      /\ 1 \in DOMAIN q.toRouter /\ q.toRouter[1] = Head(q.toRouter)
  BY LaterTail
<1>2. Greeted(p, n)
  <2>1. q.phase \in {"challenged", "joined", "closing", "out"} \/ q.phase = "waiting"
    BY DEF Routed, Routers
  <2> QED
    BY <2>1, GreetedSays, GreetedEnds, GreetedDeaf DEF Agreed
<1>3. Invoked(p, n)
  <2>1. n.phase = "joined" =>
          \A k \in DOMAIN q.toRouter : q.toRouter[k] \in Yielding =>
              \E l \in DOMAIN n.toRouter : n.toRouter[l] = q.toRouter[k]
    BY <1>1 DEF Yielding
  <2>2. Invoked(p, q)
    BY DEF Agreed
  <2> QED
    BY <1>1, <2>1, <2>2, InvokedOn
<1>4. ASSUME Live(p)
      PROVE  Matched(p, n) /\ Subscribed(p, n) /\ Registered(p, n)
  <2>1. Matched(p, q) /\ Subscribed(p, q) /\ Registered(p, q)
    BY <1>4 DEF Agreed
  <2>2. Matched(p, n)
    BY <1>1, <2>1, MatchedStill
  <2>3. n.phase = "joined" => q.phase = "joined" /\ \A t \in q.subs : t \in Asked(q) => t \in Asked(n)
    BY AskedTail
  <2> QED
    BY <2>1, <2>2, <2>3, SubscribedStill, RegisteredStill
<1> QED
  BY <1>2, <1>3, <1>4 DEF Agreed

LEMMA ReplyFields ==
    ASSUME NEW q, Routed(q), NEW a
    PROVE  /\ reply(q, a).toClient = Append(q.toClient, a) /\ reply(q, a).toRouter = q.toRouter
           /\ reply(q, a).phase = q.phase /\ reply(q, a).subs = q.subs /\ reply(q, a).regs = q.regs
           /\ reply(q, a).calls = q.calls /\ reply(q, a).invoked = q.invoked
           /\ reply(q, a).open = q.open /\ reply(q, a).stray = q.stray
           /\ DOMAIN reply(q, a) = DOMAIN q
BY DEF reply, Routed, Routers

LEMMA MessageFields ==
    /\ \A type, i, about : /\ Message(type, i, about).type = type
                           /\ Message(type, i, about).request = i
                           /\ Message(type, i, about).about = about
    /\ \A kind, i : /\ Error(kind, i).type = "ERROR" /\ Error(kind, i).kind = kind
                    /\ Error(kind, i).request = i /\ Error(kind, i).about = 0
BY DEF Message, Error

\* Answers to requests are replies.
LEMMA ReplyingTyped ==
    /\ \A i \in Ids, type \in {"PUBLISHED", "RESULT", "UNSUBSCRIBED", "UNREGISTERED"} :
          Message(type, i, 0) \in Replying /\ Answering(Message(type, i, 0)) = ReplyKind[type]
    /\ \A i \in Ids, t \in Topics :
          Message("SUBSCRIBED", i, t) \in Replying /\ Answering(Message("SUBSCRIBED", i, t)) = "subscribe"
    /\ \A i \in Ids :
          Message("REGISTERED", i, i) \in Replying /\ Answering(Message("REGISTERED", i, i)) = "register"
    /\ \A i \in Ids, kind \in Kinds : Error(kind, i) \in Replying /\ Answering(Error(kind, i)) = kind
BY AnswerTyped, MessageFields DEF Replying, Answering, ReplyKind

LEMMA AgreedCall ==
    ASSUME NEW p \in Sessions, NEW q, NEW n, Routed(q), Routed(n), Agreed(p, q), q.toRouter # <<>>,
           NEW m \in Asks, m = Head(q.toRouter), m.type = "CALL", n.toRouter = Tail(q.toRouter),
           n.toClient = q.toClient, n.subs = q.subs, n.regs = q.regs, n.invoked = q.invoked,
           n.open = q.open, n.stray = q.stray, n.calls = q.calls \cup {m.request},
           n.phase = "joined", q.phase = "joined"
    PROVE  Agreed(p, n)
<1>1. /\ Later(q, n)
      /\ \A k \in DOMAIN n.toRouter : k + 1 \in DOMAIN q.toRouter /\ n.toRouter[k] = q.toRouter[k + 1]
      /\ \A k \in DOMAIN q.toRouter : k = 1 \/ (k - 1 \in DOMAIN n.toRouter /\ n.toRouter[k - 1] = q.toRouter[k])
      /\ 1 \in DOMAIN q.toRouter /\ q.toRouter[1] = Head(q.toRouter)
  BY LaterTail
<1>2. Greeted(p, n)
  BY GreetedSays DEF Agreed
<1>3. Invoked(p, n)
  <2>1. \A k \in DOMAIN q.toRouter : q.toRouter[k] \in Yielding =>
              \E l \in DOMAIN n.toRouter : n.toRouter[l] = q.toRouter[k]
    BY <1>1 DEF Yielding
  <2>2. Invoked(p, q)
    BY DEF Agreed
  <2> QED
    BY <1>1, <2>1, <2>2, InvokedOn
<1>4. ASSUME Live(p)
      PROVE  Matched(p, n) /\ Subscribed(p, n) /\ Registered(p, n)
  <2>1. Matched(p, q) /\ Subscribed(p, q) /\ Registered(p, q)
    BY <1>4 DEF Agreed
  <2>2. p.outstanding[m.request] = "call"
    <3>1. p.outstanding[m.request] # "none" /\ Verb[p.outstanding[m.request]] = "CALL"
      BY <1>1, <2>1 DEF Matched
    <3>2. m.request \in Ids /\ p.outstanding[m.request] \in Kinds
      BY <3>1 DEF Asks, Questions, Sessions
    <3> QED
      BY <3>1, <3>2 DEF Verb, Kinds
  <2>3. \A k \in DOMAIN q.toClient : q.toClient[k] \in Replying => q.toClient[k].request # m.request
    BY <1>1, <2>1 DEF Matched
  <2>4. \A k \in DOMAIN n.toRouter : n.toRouter[k] \in Asks => n.toRouter[k].request # m.request
    <3>1. \A k \in DOMAIN n.toRouter : k + 1 # 1
      BY DEF Routed
    <3> QED
      BY <1>1, <2>1, <3>1 DEF Matched
  <2>5. Matched(p, n)
    BY <1>1, <2>1, <2>2, <2>3, <2>4, MatchedStill, ZenonT(60)
  <2>6. \A t \in q.subs : t \in Asked(q) => t \in Asked(n)
    BY AskedTail
  <2> QED
    BY <2>1, <2>5, <2>6, SubscribedStill, RegisteredStill
<1> QED
  BY <1>2, <1>3, <1>4 DEF Agreed

LEMMA AgreedYield ==
    ASSUME NEW p \in Sessions, NEW q, NEW n, Routed(q), Routed(n), Agreed(p, q), q.toRouter # <<>>,
           NEW m \in Yielding, m = Head(q.toRouter), n.toRouter = Tail(q.toRouter),
           n.toClient = q.toClient, n.subs = q.subs, n.regs = q.regs, n.calls = q.calls,
           n.invoked = q.invoked, n.open = q.open \ {m.about},
           n.stray <=> q.stray \/ m.about \notin q.open,
           n.phase = q.phase, q.phase = "joined"
    PROVE  Agreed(p, n)
<1>1. Later(q, n) /\ m.type # "UNSUBSCRIBE"
  BY LaterTail DEF Yielding
<1>2. Greeted(p, n)
  BY GreetedSays DEF Agreed
<1>3. Invoked(p, n)
  BY InvokedAnswered DEF Agreed
<1>4. ASSUME Live(p)
      PROVE  Matched(p, n) /\ Subscribed(p, n) /\ Registered(p, n)
  <2>1. Matched(p, q) /\ Subscribed(p, q) /\ Registered(p, q)
    BY <1>4 DEF Agreed
  <2>2. Matched(p, n)
    BY <1>1, <2>1, MatchedStill
  <2>3. \A t \in q.subs : t \in Asked(q) => t \in Asked(n)
    BY <1>1, AskedTail
  <2> QED
    BY <2>1, <2>2, <2>3, SubscribedStill, RegisteredStill
<1> QED
  BY <1>2, <1>3, <1>4 DEF Agreed

\* The router closes the realm, or answers that it is closed.
LEMMA AgreedGoodbye ==
    ASSUME NEW p \in Sessions, NEW q, NEW n, Routed(q), Routed(n), Agreed(p, q), q.phase = "joined",
           n.phase \in {"closing", "out"}, n.toRouter = q.toRouter \/
                             (q.toRouter # <<>> /\ n.toRouter = Tail(q.toRouter)),
           n.toClient = Append(q.toClient, Message("GOODBYE", 0, 0)),
           n.subs = q.subs, n.regs = q.regs, n.calls = q.calls,
           n.invoked = q.invoked, n.open = q.open, n.stray = q.stray
    PROVE  Agreed(p, n)
<1> DEFINE a == Message("GOODBYE", 0, 0)
<1>1. Later(q, n) /\ a \in Answers /\ a.type = "GOODBYE" /\ a \notin Replying /\ a \notin Invoking
  BY LaterTail, LaterSame, AnswerTyped, MessageFields DEF Replying, ReplyKind, Invoking
<1>2. Greeted(p, n)
  BY GreetedEnds DEF Agreed
<1> HIDE DEF a
<1>3. Invoked(p, n)
  <2>1. \A k \in DOMAIN n.toClient : n.toClient[k] \in Invoking =>
            k \in DOMAIN q.toClient /\ n.toClient[k] = q.toClient[k]
    <3>1. /\ Len(q.toClient) \in Nat /\ DOMAIN n.toClient = 1 .. Len(q.toClient) + 1
          /\ DOMAIN q.toClient = 1 .. Len(q.toClient)
          /\ \A k \in 1 .. Len(q.toClient) : n.toClient[k] = q.toClient[k]
          /\ n.toClient[Len(q.toClient) + 1] = a
      BY <1>1, Appended DEF Routed, a
    <3> QED
      BY <1>1, <3>1
  <2>2. Invoked(p, q) /\ n.phase # "joined"
    BY DEF Agreed
  <2> QED
    BY <1>1, <2>1, <2>2, InvokedOn
<1>4. ASSUME Live(p)
      PROVE  Matched(p, n) /\ Subscribed(p, n) /\ Registered(p, n)
  <2>1. Matched(p, q) /\ Subscribed(p, q) /\ Registered(p, q)
    BY <1>4 DEF Agreed
  <2>2. Matched(p, n)
    BY <1>1, <2>1, MatchedSays DEF Due, a
  <2>3. n.phase # "joined"
    OBVIOUS
  <2> QED
    BY <1>1, <2>1, <2>2, <2>3, SubscribedOther, RegisteredOther DEF a
<1> QED
  BY <1>2, <1>3, <1>4 DEF Agreed

\* q has read its first message, otherwise h is q.
Heard(q, h) ==
    /\ Routed(h) /\ h.toRouter = Tail(q.toRouter) /\ h.toClient = q.toClient
    /\ h.phase = q.phase /\ h.subs = q.subs /\ h.regs = q.regs /\ h.calls = q.calls
    /\ h.invoked = q.invoked /\ h.open = q.open /\ h.stray = q.stray

LEMMA RequestAgreed ==
    ASSUME NEW p \in Sessions, NEW q, Routed(q), Agreed(p, q), q.toRouter # <<>>, q.phase = "joined",
           NEW h, Heard(q, h), NEW m, m = Head(q.toRouter), NEW n \in onRequest(h, m), Routed(n)
    PROVE  Agreed(p, n)
<1> DEFINE i == m.request
           ok(type, about) == reply(h, Message(type, i, about))
           refused(kind) == reply(h, Error(kind, i))
<1>1. m \in Questions /\ m.type \in Types
  BY DEF Routed, Questions, Messages
<1>2. m.type \in Verbs => m \in Asks /\ i \in Ids
  BY <1>1 DEF Asks, Questions
<1>3. \A a : /\ reply(h, a).toClient = Append(q.toClient, a) /\ reply(h, a).toRouter = Tail(q.toRouter)
             /\ reply(h, a).phase = "joined" /\ reply(h, a).subs = q.subs /\ reply(h, a).regs = q.regs
             /\ reply(h, a).calls = q.calls /\ reply(h, a).invoked = q.invoked
             /\ reply(h, a).open = q.open /\ reply(h, a).stray = q.stray
             /\ DOMAIN reply(h, a) = DOMAIN h
  BY ReplyFields DEF Heard
<1>4. DOMAIN h = {"phase", "subs", "regs", "calls", "invoked", "open", "stray", "toRouter", "toClient"}
  BY DEF Heard, Routed, Routers
<1>5. /\ Verb["subscribe"] = "SUBSCRIBE" /\ Verb["unsubscribe"] = "UNSUBSCRIBE"
      /\ Verb["register"] = "REGISTER" /\ Verb["unregister"] = "UNREGISTER"
      /\ Verb["publish"] = "PUBLISH" /\ Verb["call"] = "CALL"
      /\ {"SUBSCRIBE", "REGISTER", "UNSUBSCRIBE", "UNREGISTER", "PUBLISH", "CALL"} \subseteq Verbs
  BY DEF Verb, Verbs, Kinds
<1>6. /\ {"subscribe", "unsubscribe", "register", "unregister", "publish", "call"} \subseteq Kinds
      /\ ReplyKind["UNSUBSCRIBED"] = "unsubscribe" /\ ReplyKind["UNREGISTERED"] = "unregister"
      /\ ReplyKind["PUBLISHED"] = "publish"
  BY DEF Kinds, ReplyKind
\* A refusal of the request m.
<1>7. ASSUME NEW kind \in Kinds, m.type = Verb[kind], i \in Ids, m \in Asks, n = refused(kind),
             kind = "unsubscribe" => m.about \notin q.subs
      PROVE  Agreed(p, n)
  <2> DEFINE a == Error(kind, i)
  <2>1. /\ a \in Replying /\ Answering(a) = kind /\ a.request = m.request
        /\ a.type = "ERROR"
    BY <1>7, ReplyingTyped, MessageFields
  <2>2. m.type = "UNSUBSCRIBE" => m.about \notin q.subs
    BY <1>5, <1>6, <1>7, VerbsDiffer
  <2>3. /\ n.toClient = Append(q.toClient, a) /\ n.toRouter = Tail(q.toRouter)
        /\ n.phase = "joined" /\ n.subs = q.subs /\ n.regs = q.regs
        /\ n.calls = q.calls /\ n.invoked = q.invoked /\ n.open = q.open /\ n.stray = q.stray
    BY <1>3, <1>7
  <2> HIDE DEF a
  <2> QED
    BY <1>7, <2>1, <2>2, <2>3, AgreedAnswer
<1>8. CASE m.type = "SUBSCRIBE"
  <2> DEFINE a == Message("SUBSCRIBED", i, m.about)
  <2>1. n = refused("subscribe") \/ n = [ok("SUBSCRIBED", m.about) EXCEPT !.subs = @ \cup {m.about}]
    BY <1>8 DEF onRequest
  <2>2. CASE n = [ok("SUBSCRIBED", m.about) EXCEPT !.subs = @ \cup {m.about}]
    <3>1. /\ a \in Replying /\ Answering(a) = "subscribe" /\ a.request = m.request
          /\ a.type = "SUBSCRIBED" /\ a.about = m.about
      BY <1>1, <1>2, <1>5, <1>8, ReplyingTyped, MessageFields DEF Questions
    <3>2. /\ n.toClient = Append(q.toClient, a) /\ n.toRouter = Tail(q.toRouter)
          /\ n.phase = "joined" /\ n.subs = q.subs \cup {m.about} /\ n.regs = q.regs
          /\ n.calls = q.calls /\ n.invoked = q.invoked /\ n.open = q.open /\ n.stray = q.stray
      BY <1>3, <1>4, <2>2
    <3> HIDE DEF a
    <3> QED
      BY <1>2, <1>5, <1>6, <1>8, <3>1, <3>2, AgreedAnswer
  <2> QED
    BY <1>2, <1>5, <1>6, <1>7, <1>8, <2>1, <2>2
<1>9. CASE m.type = "REGISTER"
  <2> DEFINE a == Message("REGISTERED", i, i)
  <2>1. n = refused("register") \/ n = [ok("REGISTERED", i) EXCEPT !.regs = @ \cup {i}]
    BY <1>9 DEF onRequest
  <2>2. CASE n = [ok("REGISTERED", i) EXCEPT !.regs = @ \cup {i}]
    <3>1. /\ a \in Replying /\ Answering(a) = "register" /\ a.request = m.request
          /\ a.type = "REGISTERED"
      BY <1>2, <1>5, <1>9, ReplyingTyped, MessageFields
    <3>2. /\ n.toClient = Append(q.toClient, a) /\ n.toRouter = Tail(q.toRouter)
          /\ n.phase = "joined" /\ n.subs = q.subs /\ n.regs = q.regs \cup {m.request}
          /\ n.calls = q.calls /\ n.invoked = q.invoked /\ n.open = q.open /\ n.stray = q.stray
      BY <1>3, <1>4, <2>2
    <3> HIDE DEF a
    <3> QED
      BY <1>2, <1>5, <1>6, <1>9, <3>1, <3>2, AgreedAnswer
  <2> QED
    BY <1>2, <1>5, <1>6, <1>7, <1>9, <2>1, <2>2
<1>10. CASE m.type = "UNSUBSCRIBE"
  <2> DEFINE a == Message("UNSUBSCRIBED", i, 0)
  <2>1. \/ m.about \notin q.subs /\ n = refused("unsubscribe")
        \/ n = [ok("UNSUBSCRIBED", 0) EXCEPT !.subs = @ \ {m.about}]
    BY <1>10 DEF onRequest, Heard
  <2>2. CASE n = [ok("UNSUBSCRIBED", 0) EXCEPT !.subs = @ \ {m.about}]
    <3>1. /\ a \in Replying /\ Answering(a) = "unsubscribe" /\ a.request = m.request
          /\ a.type = "UNSUBSCRIBED"
      BY <1>2, <1>5, <1>6, <1>10, ReplyingTyped, MessageFields
    <3>2. /\ n.toClient = Append(q.toClient, a) /\ n.toRouter = Tail(q.toRouter)
          /\ n.phase = "joined" /\ n.subs = q.subs \ {m.about} /\ n.regs = q.regs
          /\ n.calls = q.calls /\ n.invoked = q.invoked /\ n.open = q.open /\ n.stray = q.stray
      BY <1>3, <1>4, <2>2
    <3> HIDE DEF a
    <3> QED
      BY <1>2, <1>5, <1>6, <1>10, <3>1, <3>2, AgreedAnswer
  <2> QED
    BY <1>2, <1>5, <1>6, <1>7, <1>10, <2>1, <2>2
<1>11. CASE m.type = "UNREGISTER"
  <2> DEFINE a == Message("UNREGISTERED", i, 0)
  <2>1. \/ n = refused("unregister")
        \/ n = [ok("UNREGISTERED", 0) EXCEPT !.regs = @ \ {m.about}]
    BY <1>11 DEF onRequest, Heard
  <2>2. CASE n = [ok("UNREGISTERED", 0) EXCEPT !.regs = @ \ {m.about}]
    <3>1. /\ a \in Replying /\ Answering(a) = "unregister" /\ a.request = m.request
          /\ a.type = "UNREGISTERED"
      BY <1>2, <1>5, <1>6, <1>11, ReplyingTyped, MessageFields
    <3>2. /\ n.toClient = Append(q.toClient, a) /\ n.toRouter = Tail(q.toRouter)
          /\ n.phase = "joined" /\ n.subs = q.subs /\ n.regs = q.regs \ {m.about}
          /\ n.calls = q.calls /\ n.invoked = q.invoked /\ n.open = q.open /\ n.stray = q.stray
      BY <1>3, <1>4, <2>2
    <3> HIDE DEF a
    <3> QED
      BY <1>2, <1>5, <1>6, <1>11, <3>1, <3>2, AgreedAnswer
  <2> QED
    BY <1>2, <1>5, <1>6, <1>7, <1>11, <2>1, <2>2
<1>12. CASE m.type = "PUBLISH"
  <2> DEFINE a == Message("PUBLISHED", i, 0)
  <2>1. n = refused("publish") \/ n = ok("PUBLISHED", 0)
    BY <1>12 DEF onRequest
  <2>2. CASE n = ok("PUBLISHED", 0)
    <3>1. /\ a \in Replying /\ Answering(a) = "publish" /\ a.request = m.request
          /\ a.type = "PUBLISHED"
      BY <1>2, <1>5, <1>6, <1>12, ReplyingTyped, MessageFields
    <3>2. /\ n.toClient = Append(q.toClient, a) /\ n.toRouter = Tail(q.toRouter)
          /\ n.phase = "joined" /\ n.subs = q.subs /\ n.regs = q.regs
          /\ n.calls = q.calls /\ n.invoked = q.invoked /\ n.open = q.open /\ n.stray = q.stray
      BY <1>3, <2>2
    <3> HIDE DEF a
    <3> QED
      BY <1>2, <1>5, <1>6, <1>12, <3>1, <3>2, AgreedAnswer
  <2> QED
    BY <1>2, <1>5, <1>6, <1>7, <1>12, <2>1, <2>2
<1>13. CASE m.type = "CALL"
  <2>1. n = [h EXCEPT !.calls = @ \cup {i}]
    BY <1>13 DEF onRequest
  <2>2. /\ n.toRouter = Tail(q.toRouter) /\ n.toClient = q.toClient /\ n.phase = q.phase
        /\ n.subs = q.subs /\ n.regs = q.regs /\ n.calls = q.calls \cup {i}
        /\ n.invoked = q.invoked /\ n.open = q.open /\ n.stray = q.stray
    BY <1>4, <2>1 DEF Heard
  <2> QED
    BY <1>2, <1>5, <1>13, <2>2, AgreedCall
<1>14. CASE m.type = "CANCEL"
  <2> DEFINE a == Error("call", i)
  <2>1. n = h \/ (i \in q.calls /\ n = [refused("call") EXCEPT !.calls = @ \ {i}])
    BY <1>14 DEF onRequest, Heard
  <2>2. CASE n = h
    BY <1>14, <2>2, AgreedNote DEF Heard
  <2>3. CASE i \in q.calls /\ n = [refused("call") EXCEPT !.calls = @ \ {i}]
    <3>1. i \in Ids
      BY <2>3 DEF Routed, Routers
    <3>2. /\ a \in Replying /\ Answering(a) = "call" /\ a.request = m.request
          /\ a.type = "ERROR"
      BY <1>6, <3>1, ReplyingTyped, MessageFields
    <3>3. /\ n.toClient = Append(q.toClient, a) /\ n.toRouter = Tail(q.toRouter)
          /\ n.phase = "joined" /\ n.subs = q.subs /\ n.regs = q.regs
          /\ n.calls = q.calls \ {m.request} /\ n.invoked = q.invoked /\ n.open = q.open /\ n.stray = q.stray
      BY <1>3, <1>4, <2>3
    <3>4. m.type = "CANCEL" /\ m.request \in q.calls /\ Answering(a) = "call"
             /\ n.calls = q.calls \ {m.request}
      BY <1>14, <2>3, <3>2, <3>3
    <3>5. a.type \notin {"SUBSCRIBED", "UNSUBSCRIBED"} /\ (m.type = "UNSUBSCRIBE" => m.about \notin q.subs)
      BY <1>14, <3>2
    <3>6. a.type \notin {"REGISTERED", "UNREGISTERED"}
      BY <3>2
    <3> HIDE DEF a
    <3> QED
      BY <3>2, <3>3, <3>4, <3>5, <3>6, AgreedAnswer
  <2> QED
    BY <2>1, <2>2, <2>3
<1>15. CASE m.type \in {"YIELD", "ERROR"}
  <2>1. n = [h EXCEPT !.open = @ \ {m.about}, !.stray = @ \/ m.about \notin h.open]
    BY <1>15 DEF onRequest
  <2>2. /\ n.toRouter = Tail(q.toRouter) /\ n.toClient = q.toClient /\ n.phase = q.phase
        /\ n.subs = q.subs /\ n.regs = q.regs /\ n.calls = q.calls
        /\ n.invoked = q.invoked /\ n.open = q.open \ {m.about}
    BY <1>4, <2>1 DEF Heard
  <2>3. n.stray <=> q.stray \/ m.about \notin q.open
    BY <1>4, <2>1 DEF Heard
  <2> QED
    BY <1>1, <1>15, <2>2, <2>3, AgreedYield DEF Yielding
<1>16. CASE m.type = "GOODBYE"
  <2> DEFINE a == Message("GOODBYE", 0, 0)
  <2>1. n = [reply(h, a) EXCEPT !.phase = "out"]
    BY <1>16 DEF onRequest
  <2>2. /\ n.toClient = Append(q.toClient, a) /\ n.toRouter = Tail(q.toRouter)
        /\ n.phase = "out" /\ n.subs = q.subs /\ n.regs = q.regs
        /\ n.calls = q.calls /\ n.invoked = q.invoked /\ n.open = q.open /\ n.stray = q.stray
    BY <1>3, <1>4, <2>1
  <2> QED
    BY <2>2, AgreedGoodbye
<1>17. CASE m.type \notin {"SUBSCRIBE", "REGISTER", "UNSUBSCRIBE", "UNREGISTER", "PUBLISH", "CALL",
                           "CANCEL", "YIELD", "ERROR", "GOODBYE"}
  <2>1. n = [h EXCEPT !.phase = "out"]
    BY <1>17 DEF onRequest
  <2>2. /\ n.toRouter = Tail(q.toRouter) /\ n.toClient = q.toClient /\ n.phase = "out"
        /\ n.subs = q.subs /\ n.regs = q.regs /\ n.calls = q.calls
        /\ n.invoked = q.invoked /\ n.open = q.open /\ n.stray = q.stray
    BY <1>4, <2>1 DEF Heard
  <2> QED
    BY <2>2, AgreedNote
<1> QED
  BY <1>8, <1>9, <1>10, <1>11, <1>12, <1>13, <1>14, <1>15, <1>16, <1>17

-----------------------------------------------------------------------------
(* The router's steps.                                                     *)

LEMMA AgreedGreets ==
    ASSUME NEW p \in Sessions, NEW q, NEW n, Routed(q), Routed(n), Agreed(p, q), q.toRouter # <<>>,
           \/ q.phase = "waiting"
           \/ q.phase = "challenged" /\ Head(q.toRouter).type = "AUTHENTICATE",
           NEW type, \/ type = "WELCOME" /\ n.phase = "joined"
                     \/ type = "CHALLENGE" /\ n.phase = "challenged" /\ q.phase = "waiting"
                     \/ type = "ABORT" /\ n.phase = "out",
           n.toRouter = Tail(q.toRouter),
           n.toClient = Append(q.toClient, Message(type, 0, 0)),
           n.subs = q.subs, n.regs = q.regs, n.calls = q.calls,
           n.invoked = q.invoked, n.open = q.open, n.stray = q.stray
    PROVE  Agreed(p, n)
<1> DEFINE a == Message(type, 0, 0)
<1>1. /\ Later(q, n) /\ a \in Answers /\ a.type = type /\ type \in Greeting
      /\ a \notin Replying /\ a \notin Invoking
  BY LaterTail, AnswerTyped, MessageFields DEF Replying, ReplyKind, Invoking, Greeting
<1>2. Greeted(p, n)
  BY GreetedGreets DEF Agreed
<1>3. n.toClient = Append(q.toClient, a)
  OBVIOUS
<1> HIDE DEF a
<1>4. q.subs = {} /\ q.open = {}
  BY DEF Agreed, Greeted
<1>5. Invoked(p, n)
  <2>1. \A k \in DOMAIN n.toClient : n.toClient[k] \in Invoking =>
            k \in DOMAIN q.toClient /\ n.toClient[k] = q.toClient[k]
    <3>1. /\ Len(q.toClient) \in Nat /\ DOMAIN n.toClient = 1 .. Len(q.toClient) + 1
          /\ DOMAIN q.toClient = 1 .. Len(q.toClient)
          /\ \A k \in 1 .. Len(q.toClient) : n.toClient[k] = q.toClient[k]
          /\ n.toClient[Len(q.toClient) + 1] = a
      BY <1>1, <1>3, Appended DEF Routed
    <3> QED
      BY <1>1, <3>1
  <2>2. Invoked(p, q)
    BY DEF Agreed
  <2> QED
    BY <1>1, <1>4, <2>1, <2>2, InvokedOn
<1>6. ASSUME Live(p)
      PROVE  Matched(p, n) /\ Subscribed(p, n) /\ Registered(p, n)
  <2>1. Matched(p, q) /\ Subscribed(p, q) /\ Registered(p, q)
    BY <1>6 DEF Agreed
  <2>2. Due(p, q, n, a) /\ n.calls \subseteq q.calls
    BY <1>1 DEF Due
  <2>3. Matched(p, n)
    BY <1>1, <1>3, <2>1, <2>2, MatchedSays
  <2>4. \A t \in Topics :
           /\ a \notin Events(t) /\ a \notin Subscribing(t) /\ a \notin Unsubscribing(p, t)
           /\ t \notin q.subs /\ t \notin n.subs
    BY <1>1, <1>4 DEF Events, Subscribing, Unsubscribing, Greeting
  <2>5. Subscribed(p, n)
    BY <1>1, <1>3, <2>1, <2>4, SubscribedSays
  <2>6. a.type \notin {"INVOCATION", "REGISTERED", "UNREGISTERED"}
    BY <1>1 DEF Greeting
  <2>7. Registered(p, n)
    BY <1>1, <1>3, <2>1, <2>6, RegisteredOther
  <2> QED
    BY <2>3, <2>5, <2>7
<1> QED
  BY <1>2, <1>5, <1>6 DEF Agreed

LEMMA RouterMessageAgreed ==
    ASSUME NEW p \in Sessions, NEW q, Routed(q), Agreed(p, q), q.toRouter # <<>>,
           NEW h, Heard(q, h), NEW m, m = Head(q.toRouter), NEW n \in onRouterMessage(h, m), Routed(n)
    PROVE  Agreed(p, n)
<1>1. \A a : /\ reply(h, a).toClient = Append(q.toClient, a) /\ reply(h, a).toRouter = Tail(q.toRouter)
             /\ reply(h, a).subs = q.subs /\ reply(h, a).regs = q.regs
             /\ reply(h, a).calls = q.calls /\ reply(h, a).invoked = q.invoked
             /\ reply(h, a).open = q.open /\ reply(h, a).stray = q.stray
             /\ DOMAIN reply(h, a) = DOMAIN h
  BY ReplyFields DEF Heard
<1>2. DOMAIN h = {"phase", "subs", "regs", "calls", "invoked", "open", "stray", "toRouter", "toClient"}
  BY DEF Heard, Routed, Routers
<1>3. h.phase = q.phase /\ q.phase \in {"waiting", "challenged", "joined", "closing", "out"}
  BY DEF Heard, Routed, Routers
<1>4. ASSUME NEW types \in SUBSET Greeting, n \in greet(h, types),
             \/ q.phase = "waiting"
             \/ q.phase = "challenged" /\ m.type = "AUTHENTICATE" /\ "CHALLENGE" \notin types
      PROVE  Agreed(p, n)
  <2>1. PICK type \in types :
           n = [reply(h, Message(type, 0, 0)) EXCEPT
                  !.phase = CASE type = "WELCOME" -> "joined" [] type = "CHALLENGE" -> "challenged"
                              [] type = "ABORT" -> "out"]
    BY <1>4 DEF greet
  <2>2. type \in Greeting
    BY <1>4
  <2>3. \/ type = "WELCOME" /\ n.phase = "joined"
        \/ type = "CHALLENGE" /\ n.phase = "challenged" /\ q.phase = "waiting"
        \/ type = "ABORT" /\ n.phase = "out"
    BY <1>1, <1>2, <1>4, <2>1, <2>2 DEF Greeting
  <2>4. /\ n.toRouter = Tail(q.toRouter) /\ n.toClient = Append(q.toClient, Message(type, 0, 0))
        /\ n.subs = q.subs /\ n.regs = q.regs /\ n.calls = q.calls
        /\ n.invoked = q.invoked /\ n.open = q.open /\ n.stray = q.stray
    BY <1>1, <1>2, <2>1
  <2>5. q.phase = "waiting" \/ (q.phase = "challenged" /\ Head(q.toRouter).type = "AUTHENTICATE")
    BY <1>4
  <2> QED
    BY <2>3, <2>4, <2>5, AgreedGreets
\* The router goes away without an answer, or has gone.
<1>5. ASSUME NEW phase \in {"closing", "out"}, n = [h EXCEPT !.phase = phase],
             phase = q.phase \/ phase = "out", q.phase # "waiting"
      PROVE  Agreed(p, n)
  <2>1. /\ n.toRouter = Tail(q.toRouter) /\ n.toClient = q.toClient /\ n.phase = phase
        /\ n.subs = q.subs /\ n.regs = q.regs /\ n.calls = q.calls
        /\ n.invoked = q.invoked /\ n.open = q.open /\ n.stray = q.stray
    BY <1>2, <1>5 DEF Heard
  <2> QED
    BY <1>5, <2>1, AgreedNote, ZenonT(60)
<1>6. CASE q.phase = "waiting"
  BY <1>3, <1>4, <1>6 DEF onRouterMessage, Greeting
<1>7. CASE q.phase = "challenged" /\ m.type = "AUTHENTICATE"
  BY <1>3, <1>4, <1>7 DEF onRouterMessage, Greeting
<1>8. CASE q.phase = "challenged" /\ m.type # "AUTHENTICATE"
  BY <1>3, <1>5, <1>8 DEF onRouterMessage
<1>9. CASE q.phase = "joined"
  <2>1. n \in onRequest(h, m)
    BY <1>3, <1>9 DEF onRouterMessage
  <2> QED
    BY <1>9, <2>1, RequestAgreed
<1>10. CASE q.phase = "closing"
  <2>1. n = [h EXCEPT !.phase = IF m.type = "GOODBYE" THEN "out" ELSE h.phase]
    BY <1>3, <1>10 DEF onRouterMessage
  <2> QED
    BY <1>3, <1>5, <1>10, <2>1
<1>11. CASE q.phase = "out"
  <2>1. n = h
    BY <1>3, <1>11 DEF onRouterMessage
  <2> QED
    BY <1>11, <2>1, AgreedNote DEF Heard
<1> QED
  BY <1>3, <1>6, <1>7, <1>8, <1>9, <1>10, <1>11

LEMMA HandleAgreed ==
    ASSUME s \in Sessions, Routed(r), Agreed(s, r), Handle
    PROVE  Agreed(s', r')
<1> DEFINE h == [r EXCEPT !.toRouter = Tail(r.toRouter)]
           m == Head(r.toRouter)
<1>1. r.toRouter # <<>> /\ s' = s /\ r' \in onRouterMessage(h, m)
  BY DEF Handle
<1>2. Routed(h)
  <2> DEFINE x == Tail(r.toRouter)
  <2>1. x \in Seq(Questions)
    BY <1>1 DEF Routed
  <2> HIDE DEF x
  <2>2. Routed([r EXCEPT !.toRouter = x])
    BY <2>1, NotedRouted
  <2> QED
    BY <2>2 DEF x
<1>3. Heard(r, h)
  BY <1>2 DEF Heard, Routed, Routers
<1>4. Routed(r')
  BY HandleRouted
<1> HIDE DEF h, m
<1>5. \A n \in onRouterMessage(h, m) : Routed(n) => Agreed(s, n)
  BY <1>1, <1>3, RouterMessageAgreed DEF m
<1> QED
  BY <1>1, <1>4, <1>5

\* What the router says on its own.
LEMMA AgreedSays ==
    ASSUME NEW p \in Sessions, NEW q, NEW n, Routed(q), Routed(n), Agreed(p, q),
           q.phase = "joined", n.phase = "joined", n.toRouter = q.toRouter, n.subs = q.subs,
           NEW a \in Answers, n.toClient = Append(q.toClient, a),
           a.type \in {"RESULT", "ERROR", "EVENT", "INVOCATION", "INTERRUPT", "UNREGISTERED"},
           a.type = "EVENT" => a.about \in q.subs,
           \A g \in Ids : a \in Uses(g) => g \in q.regs,
           n.regs = q.regs \/ (Forced /\ n.regs \subseteq q.regs),
           \/ a \notin Replying /\ n.calls = q.calls
           \/ a \in Replying /\ a.type \in {"RESULT", "ERROR"} /\ a.request \in q.calls /\ Answering(a) = "call"
                /\ n.calls = q.calls \ {a.request},
           \/ a \notin Invoking /\ n.invoked = q.invoked /\ n.open = q.open
           \/ a \in Invoking /\ a.about \notin q.invoked /\ n.invoked = q.invoked \cup {a.about}
                /\ n.open = q.open \cup {a.about},
           n.stray = q.stray
    PROVE  Agreed(p, n)
<1>1. Later(q, n) /\ n.calls \subseteq q.calls
  BY LaterSame
<1>2. Greeted(p, n)
  BY GreetedSays DEF Agreed, Greeting
<1>3. Invoked(p, n)
  <2>1. Invoked(p, q)
    BY DEF Agreed
  <2>2. CASE a \in Invoking
    BY <2>1, <2>2, InvokedMore
  <2>3. CASE a \notin Invoking
    <3>1. /\ Len(q.toClient) \in Nat /\ DOMAIN n.toClient = 1 .. Len(q.toClient) + 1
          /\ DOMAIN q.toClient = 1 .. Len(q.toClient)
          /\ \A k \in 1 .. Len(q.toClient) : n.toClient[k] = q.toClient[k]
          /\ n.toClient[Len(q.toClient) + 1] = a
      BY Appended DEF Routed
    <3>2. \A k \in DOMAIN n.toClient : n.toClient[k] \in Invoking =>
              k \in DOMAIN q.toClient /\ n.toClient[k] = q.toClient[k]
      BY <2>3, <3>1
    <3>3. \A k \in DOMAIN q.toClient : k \in DOMAIN n.toClient /\ n.toClient[k] = q.toClient[k]
      BY <3>1
    <3>4. \A k \in DOMAIN q.toRouter : q.toRouter[k] \in Yielding =>
              \E l \in DOMAIN n.toRouter : n.toRouter[l] = q.toRouter[k]
      OBVIOUS
    <3> QED
      BY <1>1, <2>1, <2>3, <3>2, <3>3, <3>4, InvokedOn
  <2> QED
    BY <2>2, <2>3
<1>4. ASSUME Live(p)
      PROVE  Matched(p, n) /\ Subscribed(p, n) /\ Registered(p, n)
  <2>1. Matched(p, q) /\ Subscribed(p, q) /\ Registered(p, q)
    BY <1>4 DEF Agreed
  <2>2. Due(p, q, n, a)
    BY <2>1 DEF Due, Matched
  <2>3. Matched(p, n)
    BY <1>1, <2>1, <2>2, MatchedSays
  <2>4. \A t \in Topics : /\ a \in Events(t) => t \in q.subs
                          /\ a \notin Subscribing(t) /\ a \notin Unsubscribing(p, t)
                          /\ t \in Asked(q) => t \in Asked(n)
    BY DEF Events, Subscribing, Unsubscribing, Asked
  <2>5. Subscribed(p, n)
    BY <2>1, <2>4, SubscribedSays
  <2>6. \A g \in Ids : a \notin Registering(g) /\ a \notin Unregistering(p, g)
    <3>1. 0 \notin Ids
      BY DEF Ids
    <3>2. a.type = "UNREGISTERED" => a.request \notin Ids
      BY DEF Replying, ReplyKind
    <3> QED
      BY <3>2 DEF Registering, Unregistering
  <2>7. Registered(p, n)
    BY <2>1, <2>6, RegisteredSays
  <2> QED
    BY <2>3, <2>5, <2>7
<1> QED
  BY <1>2, <1>3, <1>4 DEF Agreed

LEMMA UsesTyped ==
    /\ \A t \in Topics, g \in Ids : Message("EVENT", 0, t) \notin Uses(g)
    /\ \A i \in Invocations, g \in Ids : Message("INTERRUPT", 0, i) \notin Uses(g)
    /\ \A i \in Ids, g \in Ids : Message("RESULT", i, 0) \notin Uses(g)
    /\ \A i \in Ids, kind \in Kinds, g \in Ids : Error(kind, i) \notin Uses(g)
    /\ \A f, g \in Ids : Message("UNREGISTERED", 0, f) \in Uses(g) => f = g
    /\ \A i \in Invocations, f, g \in Ids : Message("INVOCATION", f, i) \in Uses(g) => f = g
BY MessageFields DEF Uses

LEMMA RouterAgreed ==
    ASSUME s \in Sessions, Routed(r), Agreed(s, r), Router
    PROVE  Agreed(s', r')
<1>1. s' = s
  BY DEF Router, Answer, Event, Invoke, Interrupt, TakeBack, CloseRealm
<1>2. Routed(r')
  BY RouterRouted
<1>3. /\ r.calls \subseteq Ids /\ r.subs \subseteq Topics /\ r.regs \subseteq Ids
      /\ r.open \subseteq Invocations
      /\ DOMAIN r = {"phase", "subs", "regs", "calls", "invoked", "open", "stray", "toRouter", "toClient"}
  BY DEF Routed, Routers
<1>4. 0 \notin Ids
  BY DEF Ids
<1>5. CASE Answer
  <2>1. PICK i \in r.calls : \E m \in {Message("RESULT", i, 0), Error("call", i)} :
           r' = reply([r EXCEPT !.calls = @ \ {i}], m)
    BY <1>5 DEF Answer
  <2>2. PICK a \in {Message("RESULT", i, 0), Error("call", i)} :
           r' = reply([r EXCEPT !.calls = @ \ {i}], a)
    BY <2>1
  <2>3. i \in Ids /\ "call" \in Kinds /\ "RESULT" \in {"PUBLISHED", "RESULT", "UNSUBSCRIBED", "UNREGISTERED"}
    BY <1>3 DEF Kinds
  <2>4. /\ a \in Replying /\ Answering(a) = "call" /\ a.request = i
        /\ a.type \in {"RESULT", "ERROR"} /\ a \in Answers
        /\ \A g \in Ids : a \notin Uses(g)
    BY <2>3, ReplyingTyped, MessageFields, UsesTyped, AnswerTyped DEF ReplyKind
  <2>5. /\ r'.toClient = Append(r.toClient, a) /\ r'.toRouter = r.toRouter
        /\ r'.phase = "joined" /\ r'.subs = r.subs /\ r'.regs = r.regs
        /\ r'.calls = r.calls \ {a.request} /\ r'.invoked = r.invoked /\ r'.open = r.open /\ r'.stray = r.stray
    BY <1>3, <1>5, <2>2, <2>4 DEF reply, Answer
  <2>6. a \notin Invoking /\ r.phase = "joined"
    BY <1>5, <2>4 DEF Invoking, Answer
  <2> QED
    BY <1>1, <1>2, <2>1, <2>4, <2>5, <2>6, AgreedSays
<1>6. CASE Event
  <2>1. PICK t \in r.subs : r' = reply(r, Message("EVENT", 0, t))
    BY <1>6 DEF Event
  <2> DEFINE a == Message("EVENT", 0, t)
  <2>2. /\ a \in Answers /\ a.type = "EVENT" /\ a.about = t
        /\ \A g \in Ids : a \notin Uses(g)
    BY <1>3, AnswerTyped, MessageFields, UsesTyped
  <2>3. a \notin Replying /\ a \notin Invoking /\ r.phase = "joined"
    BY <1>6, <2>2 DEF Replying, ReplyKind, Invoking, Event
  <2>4. /\ r'.toClient = Append(r.toClient, a) /\ r'.toRouter = r.toRouter
        /\ r'.phase = "joined" /\ r'.subs = r.subs /\ r'.regs = r.regs
        /\ r'.calls = r.calls /\ r'.invoked = r.invoked /\ r'.open = r.open /\ r'.stray = r.stray
    BY <1>3, <2>1, <2>3 DEF reply
  <2> HIDE DEF a
  <2> QED
    BY <1>1, <1>2, <2>2, <2>3, <2>4, AgreedSays
<1>7. CASE Invoke
  <2>1. PICK g \in r.regs, i \in Invocations :
           /\ i \notin r.invoked
           /\ r' = reply([r EXCEPT !.invoked = @ \cup {i}, !.open = @ \cup {i}],
                         Message("INVOCATION", g, i))
    BY <1>7 DEF Invoke
  <2> DEFINE a == Message("INVOCATION", g, i)
  <2>2. /\ a \in Answers /\ a.type = "INVOCATION" /\ a.about = i
        /\ \A f \in Ids : a \in Uses(f) => f \in r.regs
    BY <1>3, AnswerTyped, MessageFields, UsesTyped
  <2>3. a \notin Replying /\ a \in Invoking /\ r.phase = "joined"
    BY <1>7, <2>2 DEF Replying, ReplyKind, Invoking, Invoke
  <2>4. /\ r'.toClient = Append(r.toClient, a) /\ r'.toRouter = r.toRouter
        /\ r'.phase = "joined" /\ r'.subs = r.subs /\ r'.regs = r.regs
        /\ r'.calls = r.calls /\ r'.stray = r.stray
        /\ r'.invoked = r.invoked \cup {i} /\ r'.open = r.open \cup {i}
    BY <1>3, <2>1, <2>3 DEF reply
  <2> HIDE DEF a
  <2> QED
    BY <1>1, <1>2, <2>1, <2>2, <2>3, <2>4, AgreedSays
<1>8. CASE Interrupt
  <2>1. PICK i \in r.open : r' = reply(r, Message("INTERRUPT", 0, i))
    BY <1>8 DEF Interrupt
  <2> DEFINE a == Message("INTERRUPT", 0, i)
  <2>2. /\ a \in Answers /\ a.type = "INTERRUPT"
        /\ \A g \in Ids : a \notin Uses(g)
    BY <1>3, AnswerTyped, MessageFields, UsesTyped
  <2>3. a \notin Replying /\ a \notin Invoking /\ r.phase = "joined"
    BY <1>8, <2>2 DEF Replying, ReplyKind, Invoking, Interrupt
  <2>4. /\ r'.toClient = Append(r.toClient, a) /\ r'.toRouter = r.toRouter
        /\ r'.phase = "joined" /\ r'.subs = r.subs /\ r'.regs = r.regs
        /\ r'.calls = r.calls /\ r'.invoked = r.invoked /\ r'.open = r.open /\ r'.stray = r.stray
    BY <1>3, <2>1, <2>3 DEF reply
  <2> HIDE DEF a
  <2> QED
    BY <1>1, <1>2, <2>2, <2>3, <2>4, AgreedSays
<1>9. CASE TakeBack
  <2>1. PICK g \in r.regs : r' = reply([r EXCEPT !.regs = @ \ {g}], Message("UNREGISTERED", 0, g))
    BY <1>9 DEF TakeBack
  <2> DEFINE a == Message("UNREGISTERED", 0, g)
  <2>2. /\ a \in Answers /\ a.type = "UNREGISTERED" /\ a.request = 0
        /\ \A f \in Ids : a \in Uses(f) => f \in r.regs
    BY <1>3, AnswerTyped, MessageFields, UsesTyped
  <2>3. a \notin Replying /\ a \notin Invoking /\ r.phase = "joined" /\ Forced
    BY <1>4, <1>9, <2>2 DEF Replying, ReplyKind, Invoking, TakeBack
  <2>4. /\ r'.toClient = Append(r.toClient, a) /\ r'.toRouter = r.toRouter
        /\ r'.phase = "joined" /\ r'.subs = r.subs /\ r'.regs \subseteq r.regs
        /\ r'.calls = r.calls /\ r'.invoked = r.invoked /\ r'.open = r.open /\ r'.stray = r.stray
    BY <1>3, <2>1, <2>3 DEF reply
  <2> HIDE DEF a
  <2> QED
    BY <1>1, <1>2, <2>2, <2>3, <2>4, AgreedSays
<1>10. CASE CloseRealm
  <2>1. /\ r'.toClient = Append(r.toClient, Message("GOODBYE", 0, 0)) /\ r'.toRouter = r.toRouter
        /\ r'.phase = "closing" /\ r'.subs = r.subs /\ r'.regs = r.regs
        /\ r'.calls = r.calls /\ r'.invoked = r.invoked /\ r'.open = r.open /\ r'.stray = r.stray
        /\ r.phase = "joined"
    BY <1>3, <1>10 DEF reply, CloseRealm
  <2> QED
    BY <1>1, <1>2, <2>1, AgreedGoodbye
<1> QED
  BY <1>5, <1>6, <1>7, <1>8, <1>9, <1>10 DEF Router

-----------------------------------------------------------------------------
(* What the session does to the invariant.                                 *)

\* The first message to the session has been read, and nothing else happened.
Reads(q, n) ==
    /\ Routed(q) /\ Routed(n) /\ q.toClient # <<>>
    /\ n.toClient = Tail(q.toClient) /\ n.toRouter = q.toRouter /\ n.phase = q.phase
    /\ n.subs = q.subs /\ n.regs = q.regs /\ n.calls = q.calls
    /\ n.invoked = q.invoked /\ n.open = q.open /\ n.stray = q.stray

\* m has been sent, and nothing else happened.
Tells(q, n, m) ==
    /\ Routed(q) /\ Routed(n) /\ m \in Questions
    /\ n.toRouter = Append(q.toRouter, m) /\ n.toClient = q.toClient /\ n.phase = q.phase
    /\ n.subs = q.subs /\ n.regs = q.regs /\ n.calls = q.calls
    /\ n.invoked = q.invoked /\ n.open = q.open /\ n.stray = q.stray

LEMMA ReadRest ==
    ASSUME NEW q, NEW n, Reads(q, n)
    PROVE  /\ \A k \in DOMAIN n.toClient : k + 1 \in DOMAIN q.toClient /\ n.toClient[k] = q.toClient[k + 1]
           /\ \A k \in DOMAIN q.toClient : k = 1 \/ (k - 1 \in DOMAIN n.toClient /\ n.toClient[k - 1] = q.toClient[k])
           /\ 1 \in DOMAIN q.toClient /\ q.toClient[1] = Head(q.toClient) /\ Head(q.toClient) \in Answers
           /\ \A k, l \in DOMAIN n.toClient : k + 1 # 1 /\ (k # l => k + 1 # l + 1)
<1> DEFINE c == q.toClient
<1>1. c \in Seq(Answers) /\ c # <<>> /\ n.toClient = Tail(c)
  BY DEF Reads, Routed
<1>2. /\ Len(c) \in Nat \ {0} /\ DOMAIN c = 1 .. Len(c) /\ DOMAIN Tail(c) = 1 .. Len(c) - 1
      /\ \A k \in 1 .. Len(c) - 1 : Tail(c)[k] = c[k + 1]
      /\ c[1] = Head(c) /\ 1 \in DOMAIN c
  BY <1>1, Rested
<1>3. Head(c) \in Answers
  BY <1>1
<1> HIDE DEF c
<1>4. /\ \A k \in DOMAIN Tail(c) : k + 1 \in DOMAIN c /\ Tail(c)[k] = c[k + 1]
      /\ \A k, l \in DOMAIN Tail(c) : k + 1 # 1 /\ (k # l => k + 1 # l + 1)
  BY <1>2
<1>5. \A k \in DOMAIN c : k = 1 \/ (k - 1 \in DOMAIN Tail(c) /\ Tail(c)[k - 1] = c[k])
  <2> SUFFICES ASSUME NEW k \in DOMAIN c, k # 1
               PROVE  k - 1 \in DOMAIN Tail(c) /\ Tail(c)[k - 1] = c[k]
    OBVIOUS
  <2>1. k - 1 \in 1 .. Len(c) - 1 /\ (k - 1) + 1 = k
    BY <1>2
  <2> QED
    BY <1>2, <2>1
<1> QED
  BY <1>1, <1>2, <1>3, <1>4, <1>5 DEF c

LEMMA Replied ==
    ASSUME NEW m \in Answers
    PROVE  /\ m.type \in {"SUBSCRIBED", "REGISTERED", "PUBLISHED", "RESULT", "UNSUBSCRIBED", "ERROR"} => m \in Replying
           /\ m.type = "UNREGISTERED" => m \in Replying \/ (m.request = 0 /\ m.about \in Ids)
           /\ m.type = "SUBSCRIBED" => m.about \in Topics
           /\ m.type = "REGISTERED" => m.about = m.request
           /\ m.type = "ERROR" => m.kind \in Kinds
           /\ m.type = "EVENT" => m.about \in Topics /\ m.request = 0
           /\ m.type = "INVOCATION" => m.about \in Invocations /\ m.request \in Ids
           /\ m.type = "INTERRUPT" => m.about \in Invocations
<1>1. DOMAIN ReplyKind = {"PUBLISHED", "SUBSCRIBED", "UNSUBSCRIBED", "RESULT", "REGISTERED", "UNREGISTERED"}
  BY DEF ReplyKind
<1>2. CASE m \in Greetings
  BY <1>2, MessageFields DEF Greetings
<1>3. CASE m \in Replies
  <2>1. \/ \E i \in Ids, type \in {"PUBLISHED", "RESULT", "UNSUBSCRIBED", "UNREGISTERED"} : m = Message(type, i, 0)
        \/ \E i \in Ids, t \in Topics : m = Message("SUBSCRIBED", i, t)
        \/ \E i \in Ids, g \in Ids : m = Message("REGISTERED", i, g)
        \/ \E kind \in Kinds, i \in Ids : m = Error(kind, i)
    BY <1>3 DEF Replies
  <2>2. m.type = "REGISTERED" => m.about = m.request
    BY DEF Answers
  <2> QED
    BY <1>1, <2>1, <2>2, MessageFields DEF Replying
<1>4. CASE m \in Requests
  <2>1. \/ \E t \in Topics : m = Message("EVENT", 0, t)
        \/ \E g \in Ids : m = Message("UNREGISTERED", 0, g)
        \/ \E g \in Ids, i \in Invocations : m = Message("INVOCATION", g, i)
        \/ \E i \in Invocations : m = Message("INTERRUPT", 0, i)
    BY <1>4 DEF Requests
  <2> QED
    BY <2>1, MessageFields
<1> QED
  BY <1>2, <1>3, <1>4 DEF Answers

\* Only the entry that the message answers may go.
SettledBy(p, p2, m) ==
    \A i \in Ids :
        \/ p2.outstanding[i] = "none" /\ m \in Replying /\ m.request = i
        \/ p2.outstanding[i] = p.outstanding[i]
             /\ (p.outstanding[i] \in Kinds \ {"call", "publish"} => p2.reply[i] = p.reply[i])

LEMMA MatchedRead ==
    ASSUME NEW p, NEW p2, NEW q, NEW n, Reads(q, n), Matched(p, q),
           NEW m, m = Head(q.toClient), SettledBy(p, p2, m), p2.about = p.about
    PROVE  Matched(p2, n)
<1>1. /\ \A k \in DOMAIN n.toClient : k + 1 \in DOMAIN q.toClient /\ n.toClient[k] = q.toClient[k + 1]
      /\ 1 \in DOMAIN q.toClient /\ q.toClient[1] = m
      /\ \A k, l \in DOMAIN n.toClient : k + 1 # 1 /\ (k # l => k + 1 # l + 1)
  BY ReadRest
<1>2. n.toRouter = q.toRouter /\ n.calls = q.calls /\ q.calls \subseteq Ids
  BY DEF Reads, Routed, Routers
<1>3. \A x \in Asks \cup Replying : x.request \in Ids
  BY DEF Asks, Questions, Replying
<1>4. \A k \in DOMAIN n.toRouter : n.toRouter[k] \in Asks =>
         p2.outstanding[n.toRouter[k].request] = p.outstanding[n.toRouter[k].request]
  BY <1>1, <1>2, <1>3 DEF Matched, SettledBy
<1>5. \A k \in DOMAIN n.toClient : n.toClient[k] \in Replying =>
         p2.outstanding[n.toClient[k].request] = p.outstanding[n.toClient[k].request]
  BY <1>1, <1>3 DEF Matched, SettledBy
<1>6. \A i \in q.calls : p2.outstanding[i] = p.outstanding[i]
  BY <1>1, <1>2 DEF Matched, SettledBy
<1>7. /\ \A k \in DOMAIN n.toRouter : n.toRouter[k] \in Asks =>
           LET x == n.toRouter[k]
           IN  p2.outstanding[x.request] # "none" /\ Verb[p2.outstanding[x.request]] = x.type
               /\ p2.about[x.request] = x.about
      /\ \A k \in DOMAIN n.toClient : n.toClient[k] \in Replying =>
           LET x == n.toClient[k]
           IN  p2.outstanding[x.request] = Answering(x)
  BY <1>1, <1>2, <1>4, <1>5 DEF Matched
<1>8. \A k, l \in DOMAIN n.toClient :
         n.toClient[k] \in Replying /\ n.toClient[l] \in Replying /\ k # l
           => n.toClient[k].request # n.toClient[l].request
  BY <1>1 DEF Matched
<1>9. /\ \A k \in DOMAIN n.toRouter, l \in DOMAIN n.toClient :
           n.toRouter[k] \in Asks /\ n.toClient[l] \in Replying
             => n.toRouter[k].request # n.toClient[l].request
      /\ \A k \in DOMAIN n.toClient : n.toClient[k] \in Replying => n.toClient[k].request \notin n.calls
  BY <1>1, <1>2 DEF Matched
<1>10. \A i \in Ids : p2.outstanding[i] \in Kinds \ {"call", "publish"} => p2.reply[i] = "pending"
  <2>1. "none" \notin Kinds
    BY DEF Kinds
  <2> QED
    BY <2>1 DEF Matched, SettledBy
<1> QED
  BY <1>2, <1>6, <1>7, <1>8, <1>9, <1>10 DEF Matched

LEMMA SubscribedRead ==
    ASSUME NEW p, NEW p2, NEW q, NEW n, Reads(q, n), Subscribed(p, q),
           NEW m, m = Head(q.toClient), p2.about = p.about,
           p2.transport = "open" => p.transport = "open",
           \A t \in Topics :
              /\ t \in p2.tracked <=> m \in Subscribing(t) \/ (t \in p.tracked /\ m \notin Unsubscribing(p, t))
              /\ t \in Handled(p2) <=> m \in Subscribing(t) \/ (t \in Handled(p) /\ m \notin Unsubscribing(p, t))
    PROVE  Subscribed(p2, n)
<1>1. /\ q.toClient \in Seq(Answers) /\ q.toClient # <<>> /\ n.toClient = Tail(q.toClient)
      /\ n.subs = q.subs /\ n.phase = q.phase /\ Asked(n) = Asked(q)
  BY DEF Reads, Routed, Asked
<1>2. \A t \in Topics : Unsubscribing(p2, t) = Unsubscribing(p, t)
  BY DEF Unsubscribing
<1> SUFFICES ASSUME NEW t \in Topics
             PROVE  /\ Synced(n.toClient, t, n.subs, p2.tracked, Events(t), Subscribing(t), Unsubscribing(p2, t))
                    /\ Cleared(n.toClient, t, n.subs, Handled(p2), Subscribing(t), Unsubscribing(p2, t))
                    /\ p2.transport = "open" /\ n.phase = "joined" =>
                         Synced(n.toClient, t, n.subs \ Asked(n), Handled(p2), {}, Subscribing(t), Unsubscribing(p2, t))
  BY DEF Subscribed
<1>3. /\ Synced(q.toClient, t, q.subs, p.tracked, Events(t), Subscribing(t), Unsubscribing(p, t))
      /\ Cleared(q.toClient, t, q.subs, Handled(p), Subscribing(t), Unsubscribing(p, t))
      /\ p.transport = "open" /\ q.phase = "joined" =>
           Synced(q.toClient, t, q.subs \ Asked(q), Handled(p), {}, Subscribing(t), Unsubscribing(p, t))
  BY DEF Subscribed
<1>4. Synced(Tail(q.toClient), t, q.subs, p2.tracked, Events(t), Subscribing(t), Unsubscribing(p, t))
  BY <1>1, <1>3, SyncedTail
<1>5. Cleared(Tail(q.toClient), t, q.subs, Handled(p2), Subscribing(t), Unsubscribing(p, t))
  BY <1>1, <1>3, ClearedTail
<1>6. ASSUME p2.transport = "open", n.phase = "joined"
      PROVE  Synced(Tail(q.toClient), t, q.subs \ Asked(q), Handled(p2), {}, Subscribing(t), Unsubscribing(p, t))
  <2>1. Synced(q.toClient, t, q.subs \ Asked(q), Handled(p), {}, Subscribing(t), Unsubscribing(p, t))
    BY <1>1, <1>3, <1>6
  <2> QED
    BY <1>1, <2>1, SyncedTail
<1> QED
  BY <1>1, <1>2, <1>4, <1>5, <1>6

LEMMA RegisteredRead ==
    ASSUME NEW p, NEW p2, NEW q, NEW n, Reads(q, n), Registered(p, q),
           NEW m, m = Head(q.toClient), p2.about = p.about,
           \A g \in Ids :
              g \in p2.registrations <=>
                m \in Registering(g) \/ (g \in p.registrations /\ m \notin Unregistering(p, g))
    PROVE  Registered(p2, n)
<1>1. /\ q.toClient \in Seq(Answers) /\ q.toClient # <<>> /\ n.toClient = Tail(q.toClient)
      /\ n.regs = q.regs
  BY DEF Reads, Routed
<1>2. \A g \in Ids : Unregistering(p2, g) = Unregistering(p, g)
  BY DEF Unregistering
<1> SUFFICES ASSUME NEW g \in Ids
             PROVE  /\ Synced(n.toClient, g, n.regs, p2.registrations, Uses(g), Registering(g), Unregistering(p2, g))
                    /\ ~Forced => Cleared(n.toClient, g, n.regs, p2.registrations, Registering(g), Unregistering(p2, g))
  BY DEF Registered
<1>3. /\ Synced(q.toClient, g, q.regs, p.registrations, Uses(g), Registering(g), Unregistering(p, g))
      /\ ~Forced => Cleared(q.toClient, g, q.regs, p.registrations, Registering(g), Unregistering(p, g))
  BY DEF Registered
<1>4. Synced(Tail(q.toClient), g, q.regs, p2.registrations, Uses(g), Registering(g), Unregistering(p, g))
  BY <1>1, <1>3, SyncedTail
<1>5. ~Forced => Cleared(Tail(q.toClient), g, q.regs, p2.registrations, Registering(g), Unregistering(p, g))
  BY <1>1, <1>3, ClearedTail
<1> QED
  BY <1>1, <1>2, <1>4, <1>5

LEMMA InvokedRead ==
    ASSUME NEW p, NEW p2, NEW q, NEW n, Reads(q, n), Invoked(p, q),
           NEW m, m = Head(q.toClient), p2.transport = "open" => p.transport = "open",
           \/ m \notin Invoking /\ p2.invocations = p.invocations
           \/ p2.transport # "open" /\ p2.invocations = p.invocations
           \/ m \in Invoking /\ p2.invocations = p.invocations \cup {m.about}
    PROVE  Invoked(p2, n)
<1>1. /\ \A k \in DOMAIN n.toClient : k + 1 \in DOMAIN q.toClient /\ n.toClient[k] = q.toClient[k + 1]
      /\ 1 \in DOMAIN q.toClient /\ q.toClient[1] = m
      /\ \A k, l \in DOMAIN n.toClient : k + 1 # 1 /\ (k # l => k + 1 # l + 1)
      /\ \A k \in DOMAIN q.toClient : k = 1 \/ (k - 1 \in DOMAIN n.toClient /\ n.toClient[k - 1] = q.toClient[k])
  BY ReadRest
<1>2. /\ n.toRouter = q.toRouter /\ n.open = q.open /\ n.invoked = q.invoked /\ n.stray = q.stray
      /\ n.phase = q.phase
  BY DEF Reads
<1>3. /\ p.invocations \subseteq p2.invocations
      /\ \A i \in p2.invocations : i \in p.invocations \/ (m \in Invoking /\ i = m.about)
  OBVIOUS
<1>4. /\ n.open \subseteq n.invoked /\ p2.invocations \subseteq n.open /\ ~n.stray
  BY <1>1, <1>2, <1>3 DEF Invoked
<1>5. \A k \in DOMAIN n.toClient : n.toClient[k] \in Invoking =>
         n.toClient[k].about \in n.open \ p2.invocations
  BY <1>1, <1>2, <1>3 DEF Invoked
<1>6. \A k \in DOMAIN n.toRouter : n.toRouter[k] \in Yielding =>
         n.toRouter[k].about \in n.open \ p2.invocations
  BY <1>1, <1>2, <1>3 DEF Invoked
<1>7. \A k, l \in DOMAIN n.toClient :
         n.toClient[k] \in Invoking /\ n.toClient[l] \in Invoking /\ k # l
           => n.toClient[k].about # n.toClient[l].about
  BY <1>1 DEF Invoked
<1>8. /\ \A k \in DOMAIN n.toRouter, l \in DOMAIN n.toClient :
           n.toRouter[k] \in Yielding /\ n.toClient[l] \in Invoking
             => n.toRouter[k].about # n.toClient[l].about
      /\ \A k, l \in DOMAIN n.toRouter :
           n.toRouter[k] \in Yielding /\ n.toRouter[l] \in Yielding /\ k # l
             => n.toRouter[k].about # n.toRouter[l].about
  BY <1>1, <1>2 DEF Invoked
<1>9. ASSUME p2.transport = "open", n.phase = "joined", NEW i \in n.open
      PROVE  \/ i \in p2.invocations
             \/ \E k \in DOMAIN n.toClient : n.toClient[k] \in Invoking /\ n.toClient[k].about = i
             \/ \E k \in DOMAIN n.toRouter : n.toRouter[k] \in Yielding /\ n.toRouter[k].about = i
  <2>1. \/ i \in p.invocations
        \/ \E k \in DOMAIN q.toClient : q.toClient[k] \in Invoking /\ q.toClient[k].about = i
        \/ \E k \in DOMAIN q.toRouter : q.toRouter[k] \in Yielding /\ q.toRouter[k].about = i
    BY <1>2, <1>9 DEF Invoked
  <2>2. ASSUME NEW k \in DOMAIN q.toClient, q.toClient[k] \in Invoking, q.toClient[k].about = i
        PROVE  \/ i \in p2.invocations
               \/ \E l \in DOMAIN n.toClient : n.toClient[l] \in Invoking /\ n.toClient[l].about = i
    <3>1. CASE k = 1
      BY <1>1, <1>9, <2>2, <3>1
    <3>2. CASE k - 1 \in DOMAIN n.toClient /\ n.toClient[k - 1] = q.toClient[k]
      BY <2>2, <3>2
    <3> QED
      BY <1>1, <3>1, <3>2
  <2> QED
    BY <1>2, <1>3, <2>1, <2>2
<1> QED
  BY <1>4, <1>5, <1>6, <1>7, <1>8, <1>9 DEF Invoked

\* p2 is p as far as requests, subscriptions, registrations and invocations go, or
\* answers for none of them any more.
Kept(p, p2) ==
    /\ p2.tracked = p.tracked /\ p2.handlers = p.handlers /\ p2.active = p.active
    /\ p2.registrations = p.registrations /\ p2.enabled = p.enabled
    /\ p2.invocations = p.invocations
    /\ \A i \in Ids : i <= p.lastId => i <= p2.lastId
    /\ \A i \in Ids : p2.outstanding[i] \in {p.outstanding[i], "none"}
    /\ Live(p2) =>
         /\ Live(p) /\ p2.about = p.about
         /\ \A i \in Ids :
              /\ p2.outstanding[i] = p.outstanding[i]
              /\ p.outstanding[i] \in Kinds \ {"call", "publish"} => p2.reply[i] = p.reply[i]

LEMMA KeptListed ==
    ASSUME NEW p \in Sessions, NEW p2, Kept(p, p2), Listed(p)
    PROVE  Listed(p2)
<1>1. \A t \in Topics : \A k \in DOMAIN p.handlers[t] : p.handlers[t][k] \in Ids
  BY DEF Sessions
<1>2. \A t \in Topics : \A k \in DOMAIN p2.handlers[t] :
         /\ p2.handlers[t][k] <= p2.lastId
         /\ p2.outstanding[p2.handlers[t][k]] # "subscribe"
  BY <1>1 DEF Kept, Listed
<1>3. /\ \A t, u \in Topics : \A k \in DOMAIN p2.handlers[t], l \in DOMAIN p2.handlers[u] :
           p2.handlers[t][k] = p2.handlers[u][l] => t = u /\ k = l
      /\ \A t \in Topics \ p2.tracked : p2.handlers[t] = <<>>
      /\ p2.enabled = p2.registrations
  BY DEF Kept, Listed
<1>4. \A i \in Ids :
         i \in p2.active <=> \E t \in Topics : \E k \in DOMAIN p2.handlers[t] : p2.handlers[t][k] = i
  BY DEF Kept, Listed
<1> QED
  BY <1>2, <1>3, <1>4 DEF Listed

\* The session alone.
LEMMA AgreedFrame ==
    ASSUME NEW p \in Sessions, NEW p2, NEW q, Routed(q), Agreed(p, q), Kept(p, p2),
           Progress(p2), Greeted(p2, q), p2.bailedOut = "protocol" => p2.denied,
           p2.transport = "open" /\ q.phase = "joined" => p.transport = "open"
    PROVE  Agreed(p2, q)
<1>1. Listed(p2)
  BY KeptListed DEF Agreed
<1>2. Invoked(p2, q)
  BY DEF Agreed, Invoked, Kept
<1>3. ASSUME Live(p2)
      PROVE  Matched(p2, q) /\ Subscribed(p2, q) /\ Registered(p2, q)
  <2>1. Matched(p, q) /\ Subscribed(p, q) /\ Registered(p, q)
    BY <1>3 DEF Agreed, Kept
  <2>2. /\ p2.about = p.about /\ p2.tracked = p.tracked /\ p2.handlers = p.handlers
        /\ p2.registrations = p.registrations
    BY <1>3 DEF Kept
  <2>3. Matched(p2, q)
    <3>1. \A i \in Ids :
             /\ p2.outstanding[i] = p.outstanding[i]
             /\ p.outstanding[i] \in Kinds \ {"call", "publish"} => p2.reply[i] = p.reply[i]
      BY <1>3 DEF Kept
    <3>2. /\ \A k \in DOMAIN q.toRouter : q.toRouter[k] \in Asks => q.toRouter[k].request \in Ids
          /\ \A k \in DOMAIN q.toClient : q.toClient[k] \in Replying => q.toClient[k].request \in Ids
          /\ q.calls \subseteq Ids
      BY DEF Asks, Questions, Replying, Routed, Routers
    <3>3. /\ \A k \in DOMAIN q.toRouter : q.toRouter[k] \in Asks =>
               LET m == q.toRouter[k]
               IN  p2.outstanding[m.request] # "none" /\ Verb[p2.outstanding[m.request]] = m.type
                   /\ p2.about[m.request] = m.about
          /\ \A k \in DOMAIN q.toClient : q.toClient[k] \in Replying =>
               LET m == q.toClient[k]
               IN  p2.outstanding[m.request] = Answering(m)
          /\ \A i \in q.calls : p2.outstanding[i] = "call"
          /\ \A i \in Ids : p2.outstanding[i] \in Kinds \ {"call", "publish"} => p2.reply[i] = "pending"
      BY <2>1, <2>2, <3>1, <3>2 DEF Matched
    <3> QED
      BY <2>1, <3>3 DEF Matched
  <2>4. Subscribed(p2, q)
    <3>1. Handled(p2) = Handled(p) /\ \A t \in Topics : Unsubscribing(p2, t) = Unsubscribing(p, t)
      BY <2>2 DEF Handled, Unsubscribing
    <3> QED
      BY <2>1, <2>2, <3>1 DEF Subscribed
  <2>5. Registered(p2, q)
    <3>1. \A g \in Ids : Unregistering(p2, g) = Unregistering(p, g)
      BY <2>2 DEF Unregistering
    <3> QED
      BY <2>1, <2>2, <3>1 DEF Registered
  <2> QED
    BY <2>3, <2>4, <2>5
<1> QED
  BY <1>1, <1>2, <1>3 DEF Agreed

\* The session has read a message that answers nothing and invokes nothing, or
\* does not care any more.
LEMMA AgreedRead ==
    ASSUME NEW p \in Sessions, NEW p2, NEW q, NEW n, Reads(q, n), Agreed(p, q), Kept(p, p2),
           NEW m, m = Head(q.toClient), m \notin Replying \/ ~Live(p2),
           m \notin Invoking \/ p2.transport # "open", p2.transport = "open" => p.transport = "open",
           Progress(p2), Greeted(p2, n), p2.bailedOut = "protocol" => p2.denied
    PROVE  Agreed(p2, n)
<1>1. Listed(p2)
  BY KeptListed DEF Agreed
<1>2. Invoked(p2, n)
  <2>1. Invoked(p, q) /\ p2.invocations = p.invocations
    BY DEF Agreed, Kept
  <2> QED
    BY <2>1, InvokedRead
<1>3. ASSUME Live(p2)
      PROVE  Matched(p2, n) /\ Subscribed(p2, n) /\ Registered(p2, n)
  <2>1. Matched(p, q) /\ Subscribed(p, q) /\ Registered(p, q)
    BY <1>3 DEF Agreed, Kept
  <2>2. /\ p2.about = p.about /\ p2.tracked = p.tracked /\ p2.handlers = p.handlers
        /\ p2.registrations = p.registrations /\ SettledBy(p, p2, m)
    BY <1>3 DEF Kept, SettledBy
  <2>3. m \in Answers /\ m \notin Replying
    BY <1>3, ReadRest
  <2>4. /\ \A t \in Topics : m \notin Subscribing(t) /\ m \notin Unsubscribing(p, t)
        /\ \A g \in Ids : m \notin Registering(g) /\ m \notin Unregistering(p, g)
    <3>1. 0 \notin Ids
      BY DEF Ids
    <3> QED
      BY <2>3, <3>1, Replied DEF Subscribing, Unsubscribing, Registering, Unregistering
  <2>5. Handled(p2) = Handled(p)
    BY <2>2 DEF Handled
  <2>6. Matched(p2, n)
    BY <2>1, <2>2, MatchedRead
  <2>7. Subscribed(p2, n)
    BY <2>1, <2>2, <2>4, <2>5, SubscribedRead
  <2>8. Registered(p2, n)
    BY <2>1, <2>2, <2>4, RegisteredRead
  <2> QED
    BY <2>6, <2>7, <2>8
<1> QED
  BY <1>1, <1>2, <1>3 DEF Agreed

LEMMA TellMore ==
    ASSUME NEW q, NEW n, NEW m, Tells(q, n, m)
    PROVE  /\ Len(q.toRouter) \in Nat /\ DOMAIN n.toRouter = 1 .. Len(q.toRouter) + 1
           /\ DOMAIN q.toRouter = 1 .. Len(q.toRouter)
           /\ \A k \in DOMAIN q.toRouter : k \in DOMAIN n.toRouter /\ n.toRouter[k] = q.toRouter[k]
           /\ \A k \in DOMAIN n.toRouter :
                 \/ k \in DOMAIN q.toRouter /\ n.toRouter[k] = q.toRouter[k]
                 \/ k = Len(q.toRouter) + 1 /\ n.toRouter[k] = m
           /\ Len(q.toRouter) + 1 \in DOMAIN n.toRouter /\ n.toRouter[Len(q.toRouter) + 1] = m
<1> DEFINE c == q.toRouter
<1>1. c \in Seq(Questions) /\ n.toRouter = Append(c, m) /\ m \in Questions
  BY DEF Tells, Routed
<1> HIDE DEF c
<1>2. /\ Len(c) \in Nat /\ DOMAIN Append(c, m) = 1 .. Len(c) + 1 /\ DOMAIN c = 1 .. Len(c)
      /\ \A k \in 1 .. Len(c) : Append(c, m)[k] = c[k]
      /\ Append(c, m)[Len(c) + 1] = m
  BY <1>1, Appended
<1>3. \A k \in 1 .. Len(c) + 1 : k \in 1 .. Len(c) \/ k = Len(c) + 1
  BY <1>2
<1> QED
  BY <1>1, <1>2, <1>3 DEF c

LEMMA GreetedTells ==
    ASSUME NEW p, NEW q, NEW n, NEW m, Tells(q, n, m), Greeted(p, q), p.transport # "none",
           m.type = "AUTHENTICATE" =>
              /\ q.phase # "waiting"
              /\ q.phase = "challenged" => q.toClient = <<>> /\ p.challenges = 0 /\ ~p.denied
    PROVE  Greeted(p, n)
<1>1. Signed(n) => Signed(q) \/ m.type = "AUTHENTICATE"
  BY TellMore DEF Signed
<1>2. /\ n.toClient = q.toClient /\ n.phase = q.phase /\ n.subs = q.subs /\ n.regs = q.regs
      /\ n.calls = q.calls /\ n.open = q.open
  BY DEF Tells
<1> QED
  BY <1>1, <1>2 DEF Greeted

LEMMA SubscribedTells ==
    ASSUME NEW p, NEW q, NEW n, NEW m, Tells(q, n, m), Subscribed(p, q)
    PROVE  Subscribed(p, n)
<1>1. /\ n.toClient = q.toClient /\ n.phase = q.phase /\ n.subs = q.subs
      /\ q.toClient \in Seq(Answers)
  BY DEF Tells, Routed
<1>2. \A t \in Topics : t \in Asked(q) => t \in Asked(n)
  BY TellMore DEF Asked
<1> SUFFICES ASSUME NEW t \in Topics, p.transport = "open", q.phase = "joined"
             PROVE  Synced(q.toClient, t, q.subs \ Asked(n), Handled(p), {}, Subscribing(t), Unsubscribing(p, t))
  BY <1>1 DEF Subscribed
<1>3. Synced(q.toClient, t, q.subs \ Asked(q), Handled(p), {}, Subscribing(t), Unsubscribing(p, t))
  BY DEF Subscribed
<1>4. t \in q.subs \ Asked(n) => t \in q.subs \ Asked(q)
  BY <1>2
<1> QED
  BY <1>1, <1>3, <1>4, SyncedOn

\* The session says something that is neither a request nor an answer.
LEMMA AgreedTell ==
    ASSUME NEW p \in Sessions, NEW q, NEW n, NEW m, Tells(q, n, m), Agreed(p, q), p.transport # "none",
           m.type \notin Verbs \cup {"YIELD", "ERROR"},
           m.type = "AUTHENTICATE" =>
              /\ q.phase # "waiting"
              /\ q.phase = "challenged" => q.toClient = <<>> /\ p.challenges = 0 /\ ~p.denied
    PROVE  Agreed(p, n)
<1>1. /\ n.toClient = q.toClient /\ n.phase = q.phase /\ n.subs = q.subs /\ n.regs = q.regs
      /\ n.calls = q.calls /\ n.invoked = q.invoked /\ n.open = q.open /\ n.stray = q.stray
  BY DEF Tells
<1>2. m \notin Asks /\ m \notin Yielding
  BY DEF Asks, Yielding
<1>3. /\ \A k \in DOMAIN q.toRouter : k \in DOMAIN n.toRouter /\ n.toRouter[k] = q.toRouter[k]
      /\ \A k \in DOMAIN n.toRouter : n.toRouter[k] \in Asks \cup Yielding =>
            k \in DOMAIN q.toRouter /\ n.toRouter[k] = q.toRouter[k]
  BY <1>2, TellMore
<1>4. Greeted(p, n)
  BY GreetedTells DEF Agreed
<1>5. Invoked(p, n)
  BY <1>1, <1>3 DEF Agreed, Invoked
<1>6. ASSUME Live(p)
      PROVE  Matched(p, n) /\ Subscribed(p, n) /\ Registered(p, n)
  <2>1. Matched(p, q) /\ Subscribed(p, q) /\ Registered(p, q)
    BY <1>6 DEF Agreed
  <2>2. Matched(p, n)
    BY <1>1, <1>3, <2>1 DEF Matched
  <2> QED
    BY <1>1, <2>1, <2>2, SubscribedTells, RegisteredStill
<1> QED
  BY <1>4, <1>5, <1>6 DEF Agreed

\* What is sent is under way.
Writes(q, n, sent) == n = [q EXCEPT !.toRouter = q.toRouter \o sent]

LEMMA Wrote ==
    ASSUME NEW q, Routed(q), NEW sent \in Seq(Questions), NEW n, Writes(q, n, sent)
    PROVE  /\ Routed(n)
           /\ sent = <<>> => n = q
           /\ \A m \in Questions : sent = <<m>> => Tells(q, n, m)
<1> DEFINE c == q.toRouter
<1>1. q \in Routers /\ c \in Seq(Questions)
  BY DEF Routed
<1> HIDE DEF c
<1>2. c \o sent \in Seq(Questions) /\ c \o <<>> = c /\ \A m \in Questions : c \o <<m>> = Append(c, m)
  BY <1>1
<1>3. Routed(n)
  BY <1>2, NotedRouted DEF c, Writes
<1>4. sent = <<>> => n = q
  BY <1>1, <1>2 DEF Routers, c, Writes
<1>5. /\ n.toRouter = c \o sent /\ n.toClient = q.toClient /\ n.phase = q.phase
      /\ n.subs = q.subs /\ n.regs = q.regs /\ n.calls = q.calls
      /\ n.invoked = q.invoked /\ n.open = q.open /\ n.stray = q.stray
  BY <1>1 DEF Routers, c, Writes
<1>6. \A m \in Questions : sent = <<m>> => Tells(q, n, m)
  BY <1>2, <1>3, <1>5 DEF Tells, c
<1> QED
  BY <1>3, <1>4, <1>6

\* p2 has made the request id, and sent nothing yet.
Made(p, p2, id) ==
    /\ id \in Ids /\ id > p.lastId /\ p2.lastId = id
    /\ p2.tracked = p.tracked /\ p2.handlers = p.handlers /\ p2.active = p.active
    /\ p2.registrations = p.registrations /\ p2.enabled = p.enabled
    /\ p2.invocations = p.invocations /\ p2.transport = p.transport /\ p2.joined = p.joined
    /\ p2.welcomes = p.welcomes /\ p2.challenges = p.challenges
    /\ p2.joins = p.joins /\ p2.denied = p.denied /\ p2.bailedOut = p.bailedOut
    /\ \A i \in Ids \ {id} : p2.outstanding[i] = p.outstanding[i] /\ p2.about[i] = p.about[i]
                             /\ p2.reply[i] = p.reply[i]
    /\ p2.outstanding[id] \in Kinds => p2.reply[id] = "pending"

LEMMA RequestFields ==
    ASSUME NEW p, Good(p), p.lastId < MaxId, NEW kind \in Kinds, NEW target \in Targets,
           NEW x, x = request(p, kind, target)
    PROVE  /\ Made(p, x, p.lastId + 1)
           /\ canSend(p) =>
                /\ x.sent = Append(p.sent, Message(Verb[kind], p.lastId + 1, target))
                /\ x.outstanding[p.lastId + 1] = kind /\ x.about[p.lastId + 1] = target
           /\ ~canSend(p) => x.sent = p.sent
<1> DEFINE id == p.lastId + 1
           m == Message(Verb[kind], id, target)
           o == [p.outstanding EXCEPT ![id] = kind]
           a == [p.about EXCEPT ![id] = target]
           y == [p.reply EXCEPT ![id] = "pending"]
           e == [p EXCEPT !.lastId = id, !.outstanding = o, !.about = a, !.reply = y]
           f == [p EXCEPT !.lastId = id]
<1>1. p \in Sessions /\ p.lastId \in Nat /\ id \in Ids /\ id > p.lastId
  BY SessionAssumption DEF Good, Core, Sessions, Ids
<1>2. e = [p EXCEPT !.lastId = id, !.outstanding[id] = kind,
                    !.about[id] = target, !.reply[id] = "pending"]
  BY <1>1 DEF Sessions
<1>3. /\ canSend(p) => x = [e EXCEPT !.sent = Append(e.sent, m)]
      /\ ~canSend(p) => x = e \/ (x = f /\ kind \in {"publish", "call"})
  BY <1>2 DEF request, send
<1>4. /\ \A i \in Ids \ {id} : o[i] = p.outstanding[i] /\ a[i] = p.about[i] /\ y[i] = p.reply[i]
      /\ o[id] = kind /\ a[id] = target /\ y[id] = "pending"
  BY <1>1 DEF Sessions
<1>5. p.outstanding[id] = "none" /\ "none" \notin Kinds
  BY <1>1 DEF Good, Core, Fresh, Kinds
<1>6. DOMAIN p = {"transport", "joined", "goodbyeSent", "welcomes", "challenges", "greeted", "lastId",
                  "outstanding", "about", "reply", "tracked", "handlers", "active", "registrations",
                  "enabled", "invocations", "sent", "joins", "leaves", "denied", "released", "skipped",
                  "bailedOut"}
  BY <1>1 DEF Sessions
<1> HIDE DEF o, a, y, m
<1>7. Made(p, e, id) /\ e.sent = p.sent /\ e.outstanding = o /\ e.about = a
  <2> HIDE DEF id
  <2>1. /\ e.lastId = id /\ e.outstanding = o /\ e.about = a /\ e.reply = y /\ e.sent = p.sent
        /\ e.tracked = p.tracked /\ e.handlers = p.handlers /\ e.active = p.active
        /\ e.registrations = p.registrations /\ e.enabled = p.enabled
        /\ e.invocations = p.invocations /\ e.transport = p.transport /\ e.joined = p.joined
        /\ e.welcomes = p.welcomes /\ e.challenges = p.challenges
        /\ e.joins = p.joins /\ e.denied = p.denied /\ e.bailedOut = p.bailedOut
    BY <1>6
  <2> HIDE DEF e
  <2> QED
    BY <1>1, <1>4, <2>1 DEF Made
<1>8. Made(p, f, id) /\ f.sent = p.sent
  <2> HIDE DEF id
  <2>1. /\ f.lastId = id /\ f.outstanding = p.outstanding /\ f.about = p.about /\ f.reply = p.reply
        /\ f.sent = p.sent
        /\ f.tracked = p.tracked /\ f.handlers = p.handlers /\ f.active = p.active
        /\ f.registrations = p.registrations /\ f.enabled = p.enabled
        /\ f.invocations = p.invocations /\ f.transport = p.transport /\ f.joined = p.joined
        /\ f.welcomes = p.welcomes /\ f.challenges = p.challenges
        /\ f.joins = p.joins /\ f.denied = p.denied /\ f.bailedOut = p.bailedOut
    BY <1>6
  <2> HIDE DEF f
  <2> QED
    BY <1>1, <1>5, <2>1 DEF Made
<1>9. DOMAIN e = DOMAIN p
  OBVIOUS
<1> HIDE DEF e, f
<1>10. ASSUME canSend(p)
       PROVE  /\ Made(p, x, id) /\ x.sent = Append(p.sent, m)
              /\ x.outstanding[id] = kind /\ x.about[id] = target
  <2> HIDE DEF id
  <2>1. x = [e EXCEPT !.sent = Append(e.sent, m)]
    BY <1>3, <1>10
  <2>2. /\ x.lastId = e.lastId /\ x.outstanding = e.outstanding /\ x.about = e.about /\ x.reply = e.reply
        /\ x.tracked = e.tracked /\ x.handlers = e.handlers /\ x.active = e.active
        /\ x.registrations = e.registrations /\ x.enabled = e.enabled
        /\ x.invocations = e.invocations /\ x.transport = e.transport /\ x.joined = e.joined
        /\ x.welcomes = e.welcomes /\ x.challenges = e.challenges
        /\ x.joins = e.joins /\ x.denied = e.denied /\ x.bailedOut = e.bailedOut
        /\ x.sent = Append(e.sent, m)
    BY <1>6, <1>9, <2>1
  <2>3. Made(p, x, id)
    BY <1>7, <2>2 DEF Made
  <2> QED
    BY <1>4, <1>7, <2>2, <2>3
<1> QED
  BY <1>3, <1>7, <1>8, <1>10 DEF m

\* No message under way is about the request id.
Untouched(q, id) ==
    /\ \A k \in DOMAIN q.toRouter : q.toRouter[k] \in Asks => q.toRouter[k].request # id
    /\ \A k \in DOMAIN q.toClient : q.toClient[k] \in Replying => q.toClient[k].request # id
    /\ id \notin q.calls

LEMMA AnsweringTyped ==
    \A m \in Replying : Answering(m) \in Kinds
<1>1. \A m \in Replying : m.type = "ERROR" => m.kind \in Kinds
  BY Replied DEF Replying
<1>2. \A type \in DOMAIN ReplyKind : ReplyKind[type] \in Kinds
  BY DEF ReplyKind, Kinds
<1> QED
  BY <1>1, <1>2 DEF Replying, Answering

LEMMA AgreedMade ==
    ASSUME NEW p, Good(p), NEW p2, NEW q, Routed(q), Agreed(p, q), NEW id, Made(p, p2, id)
    PROVE  Agreed(p2, q) /\ (Live(p2) => Untouched(q, id))
<1>1. p \in Sessions /\ id \in Ids /\ p.outstanding[id] = "none" /\ "none" \notin Kinds
  BY DEF Good, Core, Fresh, Made, Kinds
<1>2. Progress(p2) /\ Greeted(p2, q)
  <2>1. Progress(p2)
    BY DEF Agreed, Progress, Made
  <2>2. Greeted(p2, q)
    <3>1. (Listening(p2) <=> Listening(p)) /\ (Unmet(p2) <=> Unmet(p))
      BY DEF Listening, Unmet, Made
    <3>2. /\ p2.transport = p.transport /\ p2.joined = p.joined /\ p2.joins = p.joins
          /\ p2.welcomes = p.welcomes /\ p2.challenges = p.challenges /\ p2.denied = p.denied
      BY DEF Made
    <3> QED
      BY <3>1, <3>2 DEF Agreed, Greeted
  <2> QED
    BY <2>1, <2>2
<1>3. Invoked(p2, q)
  BY DEF Agreed, Invoked, Made
<1>4. Listed(p2)
  <2>1. \A t \in Topics : \A k \in DOMAIN p.handlers[t] :
           /\ p.handlers[t][k] \in Ids /\ p.handlers[t][k] <= p.lastId
           /\ p.outstanding[p.handlers[t][k]] # "subscribe"
    BY <1>1 DEF Sessions, Agreed, Listed
  <2>2. \A i \in Ids : i <= p.lastId => i # id /\ i <= id
    BY <1>1 DEF Made, Ids, Good, Core, Sessions
  <2>3. \A t \in Topics : \A k \in DOMAIN p2.handlers[t] :
           /\ p2.handlers[t][k] <= p2.lastId
           /\ p2.outstanding[p2.handlers[t][k]] # "subscribe"
    BY <2>1, <2>2 DEF Made
  <2>4. /\ p2.tracked = p.tracked /\ p2.handlers = p.handlers /\ p2.active = p.active
        /\ p2.registrations = p.registrations /\ p2.enabled = p.enabled
    BY DEF Made
  <2> QED
    BY <2>3, <2>4 DEF Agreed, Listed
<1>5. ASSUME Live(p2)
      PROVE  Matched(p2, q) /\ Subscribed(p2, q) /\ Registered(p2, q) /\ Untouched(q, id)
  <2>1. Live(p)
    BY <1>5 DEF Live, Made
  <2>2. Matched(p, q) /\ Subscribed(p, q) /\ Registered(p, q)
    BY <2>1 DEF Agreed
  <2>3. Untouched(q, id)
    BY <1>1, <2>2, AnsweringTyped DEF Matched, Untouched
  <2>4. /\ \A k \in DOMAIN q.toRouter : q.toRouter[k] \in Asks => q.toRouter[k].request \in Ids \ {id}
        /\ \A k \in DOMAIN q.toClient : q.toClient[k] \in Replying => q.toClient[k].request \in Ids \ {id}
        /\ q.calls \subseteq Ids \ {id}
    BY <2>3 DEF Asks, Questions, Replying, Routed, Routers, Untouched
  <2>5. \A i \in Ids \ {id} : p2.outstanding[i] = p.outstanding[i] /\ p2.about[i] = p.about[i]
                              /\ p2.reply[i] = p.reply[i]
    BY DEF Made
  <2>6. Matched(p2, q)
    <3>1. \A k \in DOMAIN q.toRouter : q.toRouter[k] \in Asks =>
             LET m == q.toRouter[k]
             IN  p2.outstanding[m.request] # "none" /\ Verb[p2.outstanding[m.request]] = m.type
                 /\ p2.about[m.request] = m.about
      BY <2>2, <2>4, <2>5 DEF Matched
    <3>2. /\ \A k \in DOMAIN q.toClient : q.toClient[k] \in Replying =>
               LET m == q.toClient[k]
               IN  p2.outstanding[m.request] = Answering(m)
          /\ \A i \in q.calls : p2.outstanding[i] = "call"
      BY <2>2, <2>4, <2>5 DEF Matched
    <3>3. \A i \in Ids : p2.outstanding[i] \in Kinds \ {"call", "publish"} => p2.reply[i] = "pending"
      BY <2>2, <2>5 DEF Matched, Made
    <3> QED
      BY <2>2, <3>1, <3>2, <3>3 DEF Matched
  \* Answers under way are about other requests.
  <2>7. \A m \in Answers : m.type \in {"UNSUBSCRIBED", "UNREGISTERED"} /\ m.request \in Ids => m \in Replying
    BY DEF Replying, ReplyKind
  <2>8. \A k \in DOMAIN q.toClient :
           /\ \A t \in Topics : q.toClient[k] \in Unsubscribing(p2, t) <=> q.toClient[k] \in Unsubscribing(p, t)
           /\ \A g \in Ids : q.toClient[k] \in Unregistering(p2, g) <=> q.toClient[k] \in Unregistering(p, g)
    BY <2>4, <2>5, <2>7 DEF Unsubscribing, Unregistering
  <2>9. /\ p2.tracked = p.tracked /\ p2.registrations = p.registrations /\ p2.transport = p.transport
        /\ Handled(p2) = Handled(p) /\ q.toClient \in Seq(Answers)
    BY DEF Made, Handled, Routed
  <2>10. Subscribed(p2, q)
    <3> SUFFICES ASSUME NEW t \in Topics
                 PROVE  /\ Synced(q.toClient, t, q.subs, p.tracked, Events(t), Subscribing(t), Unsubscribing(p2, t))
                        /\ Cleared(q.toClient, t, q.subs, Handled(p), Subscribing(t), Unsubscribing(p2, t))
                        /\ p.transport = "open" /\ q.phase = "joined" =>
                             Synced(q.toClient, t, q.subs \ Asked(q), Handled(p), {}, Subscribing(t), Unsubscribing(p2, t))
      BY <2>9 DEF Subscribed
    <3>1. Synced(q.toClient, t, q.subs, p.tracked, Events(t), Subscribing(t), Unsubscribing(p2, t))
      BY <2>2, <2>8, <2>9, SyncedOn DEF Subscribed
    <3>2. Cleared(q.toClient, t, q.subs, Handled(p), Subscribing(t), Unsubscribing(p2, t))
      BY <2>2, <2>8, <2>9, ClearedOn DEF Subscribed
    <3>3. p.transport = "open" /\ q.phase = "joined" =>
             Synced(q.toClient, t, q.subs \ Asked(q), Handled(p), {}, Subscribing(t), Unsubscribing(p2, t))
      BY <2>2, <2>8, <2>9, SyncedOn DEF Subscribed
    <3> QED
      BY <3>1, <3>2, <3>3
  <2>11. Registered(p2, q)
    <3> SUFFICES ASSUME NEW g \in Ids
                 PROVE  /\ Synced(q.toClient, g, q.regs, p.registrations, Uses(g), Registering(g), Unregistering(p2, g))
                        /\ ~Forced => Cleared(q.toClient, g, q.regs, p.registrations, Registering(g), Unregistering(p2, g))
      BY <2>9 DEF Registered
    <3>1. Synced(q.toClient, g, q.regs, p.registrations, Uses(g), Registering(g), Unregistering(p2, g))
      BY <2>2, <2>8, <2>9, SyncedOn DEF Registered
    <3>2. ~Forced => Cleared(q.toClient, g, q.regs, p.registrations, Registering(g), Unregistering(p2, g))
      BY <2>2, <2>8, <2>9, ClearedOn DEF Registered
    <3> QED
      BY <3>1, <3>2
  <2> QED
    BY <2>3, <2>6, <2>10, <2>11
<1> QED
  BY <1>2, <1>3, <1>4, <1>5 DEF Agreed, Made

\* The request is sent.
LEMMA AgreedAsk ==
    ASSUME NEW p, NEW q, NEW n, NEW m \in Asks, Tells(q, n, m), Agreed(p, q), p.transport # "none",
           Live(p) => /\ Untouched(q, m.request) /\ p.outstanding[m.request] \in Kinds
                      /\ Verb[p.outstanding[m.request]] = m.type /\ p.about[m.request] = m.about
    PROVE  Agreed(p, n)
<1>1. /\ n.toClient = q.toClient /\ n.phase = q.phase /\ n.subs = q.subs /\ n.regs = q.regs
      /\ n.calls = q.calls /\ n.invoked = q.invoked /\ n.open = q.open /\ n.stray = q.stray
  BY DEF Tells
<1>2. m.type # "AUTHENTICATE" /\ m \notin Yielding /\ "none" \notin Kinds
  BY DEF Asks, Yielding, Verbs, Verb, Kinds
<1>3. /\ \A k \in DOMAIN q.toRouter : k \in DOMAIN n.toRouter /\ n.toRouter[k] = q.toRouter[k]
      /\ \A k \in DOMAIN n.toRouter :
            \/ k \in DOMAIN q.toRouter /\ n.toRouter[k] = q.toRouter[k]
            \/ k = Len(q.toRouter) + 1 /\ n.toRouter[k] = m
  BY TellMore
<1>4. Greeted(p, n)
  BY <1>2, GreetedTells DEF Agreed
<1>5. Invoked(p, n)
  <2>1. \A k \in DOMAIN n.toRouter : n.toRouter[k] \in Yielding =>
            k \in DOMAIN q.toRouter /\ n.toRouter[k] = q.toRouter[k]
    BY <1>2, <1>3
  <2> QED
    BY <1>1, <1>3, <2>1 DEF Agreed, Invoked
<1>6. ASSUME Live(p)
      PROVE  Matched(p, n) /\ Subscribed(p, n) /\ Registered(p, n)
  <2>1. Matched(p, q) /\ Subscribed(p, q) /\ Registered(p, q)
    BY <1>6 DEF Agreed
  <2>2. /\ \A k \in DOMAIN q.toRouter : q.toRouter[k] \in Asks => q.toRouter[k].request # m.request
        /\ \A k \in DOMAIN q.toClient : q.toClient[k] \in Replying => q.toClient[k].request # m.request
        /\ m.request \notin q.calls
        /\ p.outstanding[m.request] # "none" /\ Verb[p.outstanding[m.request]] = m.type
        /\ p.about[m.request] = m.about
    BY <1>2, <1>6 DEF Untouched
  <2>3. \A k \in DOMAIN n.toRouter : n.toRouter[k] \in Asks =>
           LET x == n.toRouter[k]
           IN  p.outstanding[x.request] # "none" /\ Verb[p.outstanding[x.request]] = x.type
               /\ p.about[x.request] = x.about
    BY <1>3, <2>1, <2>2 DEF Matched
  <2>4. \A k, l \in DOMAIN n.toRouter :
           n.toRouter[k] \in Asks /\ n.toRouter[l] \in Asks /\ k # l
             => n.toRouter[k].request # n.toRouter[l].request
    BY <1>3, <2>1, <2>2 DEF Matched
  <2>5. /\ \A k \in DOMAIN n.toRouter, l \in DOMAIN n.toClient :
             n.toRouter[k] \in Asks /\ n.toClient[l] \in Replying
               => n.toRouter[k].request # n.toClient[l].request
        /\ \A k \in DOMAIN n.toRouter : n.toRouter[k] \in Asks => n.toRouter[k].request \notin n.calls
    BY <1>1, <1>3, <2>1, <2>2 DEF Matched
  <2>6. Matched(p, n)
    BY <1>1, <2>1, <2>3, <2>4, <2>5 DEF Matched
  <2> QED
    BY <1>1, <2>1, <2>6, SubscribedTells, RegisteredStill
<1> QED
  BY <1>4, <1>5, <1>6 DEF Agreed

LEMMA AgreedRequest ==
    ASSUME NEW p, Good(p), NEW q, Routed(q), Agreed(p, q), p.lastId < MaxId, p.sent = <<>>,
           p.transport \in {"open", "closing", "deaf"},
           NEW kind \in Kinds, NEW target \in Targets, kind = "subscribe" => target \in Topics,
           NEW x, x = request(p, kind, target), NEW n, Writes(q, n, x.sent)
    PROVE  /\ Agreed(x, n) /\ x \in Sessions /\ Routed(n)
           /\ kind = "unsubscribe" /\ target \in Topics /\ x.transport = "open" => target \in Asked(n)
           /\ Made(p, x, p.lastId + 1)
<1> DEFINE id == p.lastId + 1
           m == Message(Verb[kind], id, target)
<1>1. /\ Made(p, x, id)
      /\ canSend(p) => /\ x.sent = Append(p.sent, m)
                       /\ x.outstanding[id] = kind /\ x.about[id] = target
      /\ ~canSend(p) => x.sent = p.sent
  BY RequestFields
<1>2. /\ id \in Ids /\ m \in Questions /\ m.type = Verb[kind] /\ m.request = id /\ m.about = target
      /\ Verb[kind] \in Verbs
  BY <1>1, QuestionTyped, MessageFields DEF Made, Verbs
<1>3. Good(x) /\ x \in Sessions /\ x.transport = p.transport
  BY <1>1, RequestGood DEF Good, Core, Made
<1> HIDE DEF id, m
<1>4. Agreed(x, q) /\ (Live(x) => Untouched(q, id))
  BY <1>1, AgreedMade
<1>5. CASE canSend(p)
  <2>1. x.sent = <<m>>
    BY <1>1, <1>5
  <2>2. Tells(q, n, m) /\ Routed(n)
    <3>1. x.sent \in Seq(Questions)
      BY <1>2, <2>1
    <3>2. /\ Routed(n)
          /\ x.sent = <<>> => n = q
          /\ \A y \in Questions : x.sent = <<y>> => Tells(q, n, y)
      BY <3>1, Wrote
    <3> QED
      BY <1>2, <2>1, <3>2
  <2>3. m \in Asks
    BY <1>2 DEF Asks
  <2>4. Agreed(x, n)
    BY <1>1, <1>2, <1>3, <1>4, <1>5, <2>2, <2>3, AgreedAsk
  <2>5. kind = "unsubscribe" /\ target \in Topics => target \in Asked(n)
    <3>1. Verb["unsubscribe"] = "UNSUBSCRIBE"
      BY DEF Verb, Kinds
    <3>2. Len(q.toRouter) + 1 \in DOMAIN n.toRouter /\ n.toRouter[Len(q.toRouter) + 1] = m
      BY <2>2, TellMore
    <3> QED
      BY <1>2, <3>1, <3>2 DEF Asked
  <2> QED
    BY <1>1, <1>3, <2>2, <2>4, <2>5 DEF id
<1>6. CASE ~canSend(p)
  <2>1. x.sent = <<>> /\ <<>> \in Seq(Questions)
    BY <1>1, <1>6
  <2>2. n = q
    BY <2>1, Wrote
  <2>3. x.transport # "open"
    BY <1>3, <1>6 DEF canSend
  <2> QED
    BY <1>1, <1>3, <1>4, <2>2, <2>3 DEF id
<1> QED
  BY <1>5, <1>6

\* The list h without its k-th entry.
Without(h, k) == SubSeq(h, 1, k - 1) \o SubSeq(h, k + 1, Len(h))

LEMMA WithoutEntries ==
    ASSUME NEW S, NEW h \in Seq(S), NEW k \in 1 .. Len(h)
    PROVE  /\ DOMAIN Without(h, k) = 1 .. Len(h) - 1 /\ Len(h) \in Nat /\ DOMAIN h = 1 .. Len(h)
           /\ \A j \in DOMAIN Without(h, k) : Without(h, k)[j] = IF j < k THEN h[j] ELSE h[j + 1]
<1> DEFINE a == SubSeq(h, 1, k - 1)
           b == SubSeq(h, k + 1, Len(h))
           c == Len(h)
           rest == Without(h, k)
<1>1. c \in Nat /\ DOMAIN h = 1 .. c /\ k \in Int /\ k >= 1 /\ k <= c
  OBVIOUS
<1>2. \A i \in 1 .. c : h[i] \in S
  OBVIOUS
<1> HIDE DEF c
<1>3. a \in Seq(S) /\ Len(a) = k - 1 /\ \A j \in 1 .. k - 1 : a[j] = h[j]
  <2>1. 1 \in Int /\ k - 1 \in Int /\ \A i \in 1 .. k - 1 : h[i] \in S /\ 1 + i - 1 = i
    BY <1>1, <1>2
  <2>2. /\ a \in Seq(S) /\ Len(a) = IF 1 <= k - 1 THEN (k - 1) - 1 + 1 ELSE 0
        /\ \A i \in 1 .. (k - 1) - 1 + 1 : a[i] = h[1 + i - 1]
    BY <2>1, SubSeqProperties
  <2> HIDE DEF a
  <2> QED
    BY <1>1, <2>1, <2>2
<1>4. b \in Seq(S) /\ Len(b) = c - k /\ \A j \in 1 .. c - k : b[j] = h[k + j]
  <2>1. k + 1 \in Int /\ c \in Int /\ \A i \in k + 1 .. c : h[i] \in S
    BY <1>1, <1>2
  <2>2. /\ b \in Seq(S) /\ Len(b) = IF k + 1 <= c THEN c - (k + 1) + 1 ELSE 0
        /\ \A i \in 1 .. c - (k + 1) + 1 : b[i] = h[(k + 1) + i - 1]
    BY <2>1, SubSeqProperties DEF c
  <2>3. \A i \in 1 .. c - k : (k + 1) + i - 1 = k + i
    BY <1>1
  <2> HIDE DEF b
  <2> QED
    BY <1>1, <2>2, <2>3
<1>5. rest = a \o b
  BY DEF Without
<1> HIDE DEF a, b, rest
<1>6. /\ rest \in Seq(S) /\ Len(rest) = (k - 1) + (c - k)
      /\ \A i \in 1 .. (k - 1) + (c - k) : rest[i] = IF i <= k - 1 THEN a[i] ELSE b[i - (k - 1)]
  <2>1. /\ a \o b \in Seq(S) /\ Len(a \o b) = Len(a) + Len(b)
        /\ \A i \in 1 .. Len(a) + Len(b) : (a \o b)[i] = IF i <= Len(a) THEN a[i] ELSE b[i - Len(a)]
    BY <1>3, <1>4, ConcatProperties
  <2> QED
    BY <1>3, <1>4, <1>5, <2>1
<1>7. DOMAIN rest = 1 .. c - 1
  <2>1. (k - 1) + (c - k) = c - 1
    BY <1>1
  <2>2. rest \in Seq(S) => DOMAIN rest = 1 .. Len(rest)
    OBVIOUS
  <2> QED
    BY <1>6, <2>1, <2>2
<1>8. ASSUME NEW j \in 1 .. c - 1
      PROVE  rest[j] = IF j < k THEN h[j] ELSE h[j + 1]
  <2>1. j \in 1 .. (k - 1) + (c - k)
    BY <1>1
  <2>2. CASE j < k
    <3>1. j \in 1 .. k - 1 /\ j <= k - 1
      BY <1>1, <2>2
    <3> QED
      BY <1>3, <1>6, <2>1, <2>2, <3>1
  <2>3. CASE ~(j < k)
    <3>1. j - (k - 1) \in 1 .. c - k /\ k + (j - (k - 1)) = j + 1 /\ ~(j <= k - 1)
      BY <1>1, <2>3
    <3> QED
      BY <1>4, <1>6, <2>1, <2>3, <3>1
  <2> QED
    BY <2>2, <2>3
<1> QED
  BY <1>1, <1>7, <1>8 DEF c, rest

\* p2 is p without the k-th handler of the topic.
Unlisted(p, p2, topic, k) ==
    /\ p2.tracked = p.tracked /\ p2.registrations = p.registrations /\ p2.enabled = p.enabled
    /\ p2.handlers =
         [p.handlers EXCEPT ![topic] = SubSeq(@, 1, k - 1) \o SubSeq(@, k + 1, Len(@))]
    /\ p2.active = p.active \ {p.handlers[topic][k]}
    /\ p2.invocations = p.invocations /\ p2.transport = p.transport /\ p2.joined = p.joined
    /\ p2.welcomes = p.welcomes /\ p2.challenges = p.challenges
    /\ p2.joins = p.joins /\ p2.denied = p.denied /\ p2.bailedOut = p.bailedOut
    /\ p2.lastId = p.lastId /\ p2.outstanding = p.outstanding /\ p2.about = p.about /\ p2.reply = p.reply

LEMMA UnlistedListed ==
    ASSUME NEW p \in Sessions, NEW p2, NEW topic \in Topics, NEW k \in 1 .. Len(p.handlers[topic]),
           Unlisted(p, p2, topic, k), Listed(p)
    PROVE  /\ Listed(p2)
           /\ \A t \in Handled(p2) : t \in Handled(p)
           /\ \A t \in Handled(p) : t # topic => t \in Handled(p2)
<1> DEFINE h == p.handlers[topic]
           rest == Without(h, k)
<1>1. h \in Seq(Ids) /\ k \in DOMAIN h /\ DOMAIN p.handlers = Topics
  BY DEF Sessions
<1>2. /\ DOMAIN rest = 1 .. Len(h) - 1 /\ Len(h) \in Nat /\ DOMAIN h = 1 .. Len(h)
      /\ \A j \in DOMAIN rest : rest[j] = IF j < k THEN h[j] ELSE h[j + 1]
  BY <1>1, WithoutEntries
<1>3. p2.handlers[topic] = rest /\ \A t \in Topics \ {topic} : p2.handlers[t] = p.handlers[t]
  BY <1>1 DEF Unlisted, Without
<1>4. rest = <<>> \/ h # <<>>
  BY <1>1, <1>2
<1> HIDE DEF rest
\* Where the entries of the shorter list were, and are.
<1>5. PICK was : \A j \in DOMAIN rest : /\ was[j] \in DOMAIN h /\ was[j] # k /\ rest[j] = h[was[j]]
                                        /\ \A l \in DOMAIN rest : was[j] = was[l] => j = l
  <2> DEFINE f == [j \in DOMAIN rest |-> IF j < k THEN j ELSE j + 1]
  <2>1. \A j \in DOMAIN rest : /\ f[j] \in DOMAIN h /\ f[j] # k /\ rest[j] = h[f[j]]
                               /\ \A l \in DOMAIN rest : f[j] = f[l] => j = l
    BY <1>2
  <2> QED
    BY <2>1
<1>6. ASSUME NEW i \in DOMAIN h, i # k
      PROVE  \E j \in DOMAIN rest : rest[j] = h[i]
  <2>1. CASE i < k
    BY <1>2, <2>1
  <2>2. CASE i > k
    <3>1. i - 1 \in DOMAIN rest /\ ~(i - 1 < k) /\ (i - 1) + 1 = i
      BY <1>2, <2>2
    <3> QED
      BY <1>2, <3>1
  <2> QED
    BY <1>2, <1>6, <2>1, <2>2
<1>7. \A t \in Topics : \A j \in DOMAIN p2.handlers[t] :
         \E i \in DOMAIN p.handlers[t] : p2.handlers[t][j] = p.handlers[t][i] /\ (t = topic => i # k)
  BY <1>3, <1>5 DEF h
<1>8. \A t, u \in Topics : \A j \in DOMAIN p2.handlers[t], l \in DOMAIN p2.handlers[u] :
         p2.handlers[t][j] = p2.handlers[u][l] => t = u /\ j = l
  <2> SUFFICES ASSUME NEW t \in Topics, NEW u \in Topics,
                      NEW j \in DOMAIN p2.handlers[t], NEW l \in DOMAIN p2.handlers[u],
                      p2.handlers[t][j] = p2.handlers[u][l]
               PROVE  t = u /\ j = l
    OBVIOUS
  <2>1. t = u
    BY <1>7 DEF Listed
  <2>2. CASE t = topic
    BY <1>3, <1>5, <2>1, <2>2 DEF Listed, h
  <2>3. CASE t # topic
    BY <1>3, <2>1, <2>3 DEF Listed
  <2> QED
    BY <2>1, <2>2, <2>3
<1>9. \A i \in Ids : i \in p2.active <=> \E t \in Topics : \E j \in DOMAIN p2.handlers[t] : p2.handlers[t][j] = i
  <2> SUFFICES ASSUME NEW i \in Ids
               PROVE  i \in p2.active <=> \E t \in Topics : \E j \in DOMAIN p2.handlers[t] : p2.handlers[t][j] = i
    OBVIOUS
  <2>1. p2.active = p.active \ {h[k]}
    BY DEF Unlisted
  <2>2. ASSUME i \in p2.active
        PROVE  \E t \in Topics : \E j \in DOMAIN p2.handlers[t] : p2.handlers[t][j] = i
    <3>1. i \in p.active /\ i # h[k]
      BY <2>1, <2>2
    <3>2. PICK t \in Topics : \E j \in DOMAIN p.handlers[t] : p.handlers[t][j] = i
      BY <3>1 DEF Listed
    <3>3. CASE t = topic
      BY <1>3, <1>6, <3>1, <3>2, <3>3 DEF h
    <3>4. CASE t # topic
      BY <1>3, <3>2, <3>4
    <3> QED
      BY <3>3, <3>4
  <2>3. ASSUME NEW t \in Topics, NEW j \in DOMAIN p2.handlers[t], p2.handlers[t][j] = i
        PROVE  i \in p2.active
    <3>1. PICK l \in DOMAIN p.handlers[t] : i = p.handlers[t][l] /\ (t = topic => l # k)
      BY <1>7, <2>3
    <3>2. i \in p.active
      BY <3>1 DEF Listed
    <3>3. i # h[k]
      BY <1>1, <3>1 DEF Listed, h
    <3> QED
      BY <2>1, <3>2, <3>3
  <2> QED
    BY <2>2, <2>3
<1>10. \A t \in Topics : \A j \in DOMAIN p2.handlers[t] :
          /\ p2.handlers[t][j] <= p2.lastId
          /\ p2.outstanding[p2.handlers[t][j]] # "subscribe"
  <2>1. p2.lastId = p.lastId /\ p2.outstanding = p.outstanding
    BY DEF Unlisted
  <2>2. \A t \in Topics : \A i \in DOMAIN p.handlers[t] :
           p.handlers[t][i] <= p.lastId /\ p.outstanding[p.handlers[t][i]] # "subscribe"
    BY DEF Listed
  <2> QED
    BY <1>7, <2>1, <2>2
<1>11. \A t \in Topics \ p2.tracked : p2.handlers[t] = <<>>
  <2>1. h = <<>> => rest = <<>>
    BY <1>4
  <2>2. \A t \in Topics \ p2.tracked : p.handlers[t] = <<>>
    BY DEF Listed, Unlisted
  <2> QED
    BY <1>3, <2>1, <2>2 DEF h
<1>12. p2.enabled = p2.registrations
  BY DEF Listed, Unlisted
<1>13. Listed(p2)
  BY <1>8, <1>9, <1>10, <1>11, <1>12 DEF Listed
<1> QED
  BY <1>3, <1>4, <1>13 DEF Handled, h

LEMMA AgreedUnlisted ==
    ASSUME NEW p \in Sessions, NEW p2, NEW q, Routed(q), Agreed(p, q),
           NEW topic \in Topics, NEW k \in 1 .. Len(p.handlers[topic]), Unlisted(p, p2, topic, k),
           p2.handlers[topic] = <<>> /\ p.transport = "open" => topic \in Asked(q)
    PROVE  Agreed(p2, q)
<1>1. /\ Listed(p2)
      /\ \A t \in Handled(p2) : t \in Handled(p)
      /\ \A t \in Handled(p) : t # topic => t \in Handled(p2)
  BY UnlistedListed DEF Agreed
<1>2. /\ p2.transport = p.transport /\ p2.joined = p.joined /\ p2.joins = p.joins
      /\ p2.welcomes = p.welcomes /\ p2.challenges = p.challenges /\ p2.denied = p.denied
      /\ p2.bailedOut = p.bailedOut /\ p2.invocations = p.invocations
      /\ p2.tracked = p.tracked /\ p2.registrations = p.registrations
      /\ p2.outstanding = p.outstanding /\ p2.about = p.about /\ p2.reply = p.reply
  BY DEF Unlisted
<1>3. Progress(p2) /\ Greeted(p2, q)
  <2>1. (Listening(p2) <=> Listening(p)) /\ (Unmet(p2) <=> Unmet(p))
    BY <1>2 DEF Listening, Unmet
  <2> QED
    BY <1>2, <2>1 DEF Agreed, Greeted, Progress
<1>4. Invoked(p2, q)
  BY <1>2 DEF Agreed, Invoked
<1>5. ASSUME Live(p2)
      PROVE  Matched(p2, q) /\ Subscribed(p2, q) /\ Registered(p2, q)
  <2>1. Matched(p, q) /\ Subscribed(p, q) /\ Registered(p, q)
    BY <1>2, <1>5 DEF Agreed, Live
  <2>2. Matched(p2, q)
    BY <1>2, <2>1 DEF Matched
  <2>3. Registered(p2, q)
    <3>1. \A g \in Ids : Unregistering(p2, g) = Unregistering(p, g)
      BY <1>2 DEF Unregistering
    <3> QED
      BY <1>2, <2>1, <3>1 DEF Registered
  <2>4. Subscribed(p2, q)
    <3>1. \A t \in Topics : Unsubscribing(p2, t) = Unsubscribing(p, t)
      BY <1>2 DEF Unsubscribing
    <3>2. q.toClient \in Seq(Answers)
      BY DEF Routed
    <3> SUFFICES ASSUME NEW t \in Topics
                 PROVE  /\ Cleared(q.toClient, t, q.subs, Handled(p2), Subscribing(t), Unsubscribing(p, t))
                        /\ p.transport = "open" /\ q.phase = "joined" =>
                             Synced(q.toClient, t, q.subs \ Asked(q), Handled(p2), {}, Subscribing(t), Unsubscribing(p, t))
      BY <1>2, <2>1, <3>1 DEF Subscribed
    <3>3. Cleared(q.toClient, t, q.subs, Handled(p2), Subscribing(t), Unsubscribing(p, t))
      BY <1>1, <2>1, <3>2, ClearedOn DEF Subscribed
    <3>4. ASSUME p.transport = "open", q.phase = "joined"
          PROVE  Synced(q.toClient, t, q.subs \ Asked(q), Handled(p2), {}, Subscribing(t), Unsubscribing(p, t))
      <4>1. Synced(q.toClient, t, q.subs \ Asked(q), Handled(p), {}, Subscribing(t), Unsubscribing(p, t))
        BY <2>1, <3>4 DEF Subscribed
      <4>2. CASE t \in Asked(q)
        BY <4>2 DEF Synced
      <4>3. CASE t \notin Asked(q)
        <5>1. t \in Handled(p) => t \in Handled(p2)
          BY <1>1, <3>4, <4>3 DEF Handled
        <5> QED
          BY <3>2, <4>1, <5>1, SyncedOn
      <4> QED
        BY <4>2, <4>3
    <3> QED
      BY <3>3, <3>4
  <2> QED
    BY <2>2, <2>3, <2>4
<1> QED
  BY <1>1, <1>2, <1>3, <1>4, <1>5 DEF Agreed

LEMMA EnteredFields ==
    ASSUME NEW p \in Sessions, NEW kind \in Kinds, kind # "publish", kind # "call", NEW target
    PROVE  LET x == request(p, kind, target)
           IN  /\ x.lastId = p.lastId + 1
               /\ x.outstanding = [p.outstanding EXCEPT ![p.lastId + 1] = kind]
               /\ x.about = [p.about EXCEPT ![p.lastId + 1] = target]
               /\ x.reply = [p.reply EXCEPT ![p.lastId + 1] = "pending"]
               /\ canSend(p) => x.sent = Append(p.sent, Message(Verb[kind], p.lastId + 1, target))
               /\ ~canSend(p) => x.sent = p.sent
               /\ x.handlers = p.handlers /\ x.active = p.active
<1> DEFINE x == request(p, kind, target)
           id == p.lastId + 1
           m == Message(Verb[kind], id, target)
           o == [p.outstanding EXCEPT ![id] = kind]
           a == [p.about EXCEPT ![id] = target]
           y == [p.reply EXCEPT ![id] = "pending"]
           e == [p EXCEPT !.lastId = id, !.outstanding = o, !.about = a, !.reply = y]
<1>1. e = [p EXCEPT !.lastId = id, !.outstanding[id] = kind,
                    !.about[id] = target, !.reply[id] = "pending"]
  BY DEF Sessions
<1>2. x = IF canSend(p) THEN [e EXCEPT !.sent = Append(e.sent, m)] ELSE e
  BY <1>1 DEF request, send
<1> HIDE DEF o, a, y, m, id
<1>3. /\ e.lastId = id /\ e.outstanding = o /\ e.about = a /\ e.reply = y /\ e.sent = p.sent
      /\ e.handlers = p.handlers /\ e.active = p.active /\ DOMAIN e = DOMAIN p
  BY DEF Sessions
<1> HIDE DEF e
<1>4. /\ x.lastId = id /\ x.outstanding = o /\ x.about = a /\ x.reply = y
      /\ canSend(p) => x.sent = Append(p.sent, m)
      /\ ~canSend(p) => x.sent = p.sent
      /\ x.handlers = p.handlers /\ x.active = p.active
  <2> HIDE DEF x
  <2> QED
    BY <1>2, <1>3 DEF Sessions
<1> QED
  BY <1>4 DEF o, a, y, m, id, x

LEMMA AgreedUnsubscribe ==
    ASSUME NEW p, Good(p), NEW q, Routed(q), Agreed(p, q), p.lastId < MaxId, p.sent = <<>>,
           p.transport \in {"open", "closing", "deaf"},
           NEW topic \in Topics, NEW k \in 1 .. Len(p.handlers[topic]),
           NEW x, x = unsubscribe(p, topic, k), NEW n, Writes(q, n, x.sent)
    PROVE  Agreed(x, n)
<1> DEFINE h == p.handlers[topic]
           handlers == [p.handlers EXCEPT ![topic] = Without(h, k)]
           active == p.active \ {h[k]}
           released == p.released \cup {h[k]}
           b == [p EXCEPT !.handlers = handlers, !.active = active, !.released = released]
<1>1. p \in Sessions /\ h \in Seq(Ids) /\ "unsubscribe" \in Kinds /\ topic \in Targets
  BY DEF Good, Core, Sessions, Kinds, Targets
<1>2. x = IF Len(b.handlers[topic]) = 0 THEN request(b, "unsubscribe", topic) ELSE b
  BY <1>1 DEF unsubscribe, Without, Sessions
<1>3. handlers = [p.handlers EXCEPT ![topic] = SubSeq(@, 1, k - 1) \o SubSeq(@, k + 1, Len(@))]
  BY DEF Without
<1>4. handlers[topic] = <<>> => Len(handlers[topic]) = 0
  OBVIOUS
<1>5. handlers \in [Topics -> Seq(Ids)] /\ active \subseteq Ids /\ released \subseteq Ids
  <2>1. Without(h, k) \in Seq(Ids) /\ h[k] \in Ids
    BY <1>1, WithoutTyped DEF Without
  <2> HIDE DEF h
  <2> QED
    BY <1>1, <2>1 DEF Sessions
<1> HIDE DEF handlers, active, released
<1>6. b \in Sessions /\ Same(p, b)
  BY <1>1, <1>5 DEF Sessions, Same, Alike
<1>7. /\ b.handlers = handlers /\ b.active = active /\ b.tracked = p.tracked /\ b.sent = p.sent
      /\ b.registrations = p.registrations /\ b.enabled = p.enabled
      /\ b.invocations = p.invocations /\ b.transport = p.transport /\ b.joined = p.joined
      /\ b.welcomes = p.welcomes /\ b.challenges = p.challenges
      /\ b.joins = p.joins /\ b.denied = p.denied /\ b.bailedOut = p.bailedOut
      /\ b.lastId = p.lastId /\ b.outstanding = p.outstanding /\ b.about = p.about /\ b.reply = p.reply
  BY <1>1 DEF Sessions
<1> HIDE DEF b
<1>8. CASE Len(handlers[topic]) # 0
  <2>1. x = b /\ x.sent = <<>> /\ <<>> \in Seq(Questions)
    BY <1>2, <1>7, <1>8
  <2>2. n = q
    BY <2>1, Wrote
  <2>3. Unlisted(p, x, topic, k)
    BY <1>3, <1>7, <2>1 DEF Unlisted, active, h
  <2>4. x.handlers[topic] # <<>>
    BY <1>4, <1>7, <1>8, <2>1
  <2> QED
    BY <1>1, <2>2, <2>3, <2>4, AgreedUnlisted
<1>9. CASE Len(handlers[topic]) = 0
  <2> DEFINE y == request(p, "unsubscribe", topic)
  <2>1. x = request(b, "unsubscribe", topic)
    BY <1>2, <1>7, <1>9
  <2>2. canSend(b) <=> canSend(p)
    BY <1>7 DEF canSend
  <2>3. Good(b)
    BY <1>6, SameGood
  <2>4. Made(b, x, b.lastId + 1)
    BY <1>1, <1>7, <2>1, <2>3, RequestFields
  <2>5. Made(p, y, p.lastId + 1)
    BY <1>1, RequestFields
  <2>6. /\ x.lastId = p.lastId + 1 /\ x.outstanding = [p.outstanding EXCEPT ![p.lastId + 1] = "unsubscribe"]
        /\ x.about = [p.about EXCEPT ![p.lastId + 1] = topic]
        /\ x.reply = [p.reply EXCEPT ![p.lastId + 1] = "pending"]
        /\ canSend(p) => x.sent = Append(p.sent, Message(Verb["unsubscribe"], p.lastId + 1, topic))
        /\ ~canSend(p) => x.sent = p.sent
        /\ x.handlers = handlers /\ x.active = active
    <3> DEFINE z == request(b, "unsubscribe", topic)
    <3>1. /\ z.lastId = b.lastId + 1
          /\ z.outstanding = [b.outstanding EXCEPT ![b.lastId + 1] = "unsubscribe"]
          /\ z.about = [b.about EXCEPT ![b.lastId + 1] = topic]
          /\ z.reply = [b.reply EXCEPT ![b.lastId + 1] = "pending"]
          /\ canSend(b) => z.sent = Append(b.sent, Message(Verb["unsubscribe"], b.lastId + 1, topic))
          /\ ~canSend(b) => z.sent = b.sent
          /\ z.handlers = b.handlers /\ z.active = b.active
      BY <1>1, <1>6, EnteredFields, ZenonT(60)
    <3>2. x = z
      BY <2>1
    <3> HIDE DEF z
    <3> QED
      BY <1>7, <2>2, <3>1, <3>2
  <2>7. /\ y.lastId = p.lastId + 1 /\ y.outstanding = [p.outstanding EXCEPT ![p.lastId + 1] = "unsubscribe"]
        /\ y.about = [p.about EXCEPT ![p.lastId + 1] = topic]
        /\ y.reply = [p.reply EXCEPT ![p.lastId + 1] = "pending"]
        /\ canSend(p) => y.sent = Append(p.sent, Message(Verb["unsubscribe"], p.lastId + 1, topic))
        /\ ~canSend(p) => y.sent = p.sent
        /\ y.handlers = p.handlers /\ y.active = p.active
    BY <1>1, EnteredFields
  <2> HIDE DEF y
  <2>8. Unlisted(y, x, topic, k)
    BY <1>3, <1>7, <2>4, <2>5, <2>6, <2>7 DEF Unlisted, Made, active, h
  <2>9. Writes(q, n, y.sent)
    BY <2>6, <2>7
  <2>10. Agreed(y, n) /\ y \in Sessions /\ Routed(n) /\ (y.transport = "open" => topic \in Asked(n))
    BY <1>1, <2>9, AgreedRequest DEF y
  <2>11. k \in 1 .. Len(y.handlers[topic])
    BY <2>7
  <2> QED
    BY <2>8, <2>10, <2>11, AgreedUnlisted
<1> QED
  BY <1>8, <1>9

LEMMA SameListed ==
    ASSUME NEW p, NEW x, Listed(p),
           x.handlers = p.handlers, x.active = p.active, x.tracked = p.tracked,
           x.enabled = p.enabled, x.registrations = p.registrations,
           x.lastId = p.lastId, x.outstanding = p.outstanding
    PROVE  Listed(x)
<1>1. \A i \in Ids :
         i \in x.active <=> \E t \in Topics : \E k \in DOMAIN x.handlers[t] : x.handlers[t][k] = i
  BY DEF Listed
<1>2. /\ \A t, u \in Topics : \A k \in DOMAIN x.handlers[t], l \in DOMAIN x.handlers[u] :
           x.handlers[t][k] = x.handlers[u][l] => t = u /\ k = l
      /\ \A t \in Topics : \A k \in DOMAIN x.handlers[t] :
           /\ x.handlers[t][k] <= x.lastId
           /\ x.outstanding[x.handlers[t][k]] # "subscribe"
      /\ \A t \in Topics \ x.tracked : x.handlers[t] = <<>>
      /\ x.enabled = x.registrations
  BY DEF Listed
<1> QED
  BY <1>1, <1>2 DEF Listed

\* An invocation is answered, or the answer cannot be sent any more.
LEMMA AgreedDone ==
    ASSUME NEW p \in Sessions, NEW q, Routed(q), Agreed(p, q), p.sent = <<>>,
           NEW i \in p.invocations, NEW type \in {"YIELD", "ERROR"},
           NEW x, x = trySend([p EXCEPT !.invocations = @ \ {i}], Message(type, 0, i)),
           NEW n, Writes(q, n, x.sent)
    PROVE  Agreed(x, n)
<1> DEFINE m == Message(type, 0, i)
           f == [p EXCEPT !.invocations = p.invocations \ {i}]
<1>1. i \in Invocations /\ i \in q.open
  BY DEF Sessions, Agreed, Invoked
<1>2. p.transport # "none"
  BY <1>1 DEF Agreed, Greeted
<1>3. /\ m \in Questions /\ m.type = type /\ m.about = i /\ m \in Yielding /\ m \notin Asks
      /\ m.type # "AUTHENTICATE"
  <2>1. type \in Types \ Verbs /\ i \in Targets /\ 0 \in Ids \cup {0}
    BY <1>1 DEF Types, Verbs, Verb, Kinds, Targets
  <2>2. m \in Questions
    BY <2>1, QuestionTyped
  <2>3. m.type = type /\ m.about = i
    BY MessageFields
  <2>4. type \notin Verbs /\ type # "AUTHENTICATE"
    BY <2>1
  <2> HIDE DEF m
  <2> QED
    BY <2>2, <2>3, <2>4 DEF Yielding, Asks
<1>4. x = IF canSend(p) THEN [f EXCEPT !.sent = Append(f.sent, m)] ELSE f
  BY DEF trySend, send, canSend, Sessions
<1>5. /\ f.invocations = p.invocations \ {i} /\ f.transport = p.transport /\ f.joined = p.joined
      /\ f.welcomes = p.welcomes /\ f.challenges = p.challenges /\ f.tracked = p.tracked
      /\ f.joins = p.joins /\ f.denied = p.denied /\ f.bailedOut = p.bailedOut
      /\ f.lastId = p.lastId /\ f.outstanding = p.outstanding /\ f.about = p.about /\ f.reply = p.reply
      /\ f.handlers = p.handlers /\ f.active = p.active
      /\ f.registrations = p.registrations /\ f.enabled = p.enabled
      /\ f.sent = <<>> /\ DOMAIN f = DOMAIN p
  BY DEF Sessions
<1> HIDE DEF f, m
<1>6. /\ x.invocations = p.invocations \ {i} /\ x.transport = p.transport /\ x.joined = p.joined
      /\ x.welcomes = p.welcomes /\ x.challenges = p.challenges /\ x.tracked = p.tracked
      /\ x.joins = p.joins /\ x.denied = p.denied /\ x.bailedOut = p.bailedOut
      /\ x.lastId = p.lastId /\ x.outstanding = p.outstanding /\ x.about = p.about /\ x.reply = p.reply
      /\ x.handlers = p.handlers /\ x.active = p.active
      /\ x.registrations = p.registrations /\ x.enabled = p.enabled
      /\ canSend(p) => x.sent = <<m>>
      /\ ~canSend(p) => x.sent = <<>>
  <2>1. DOMAIN p = {"transport", "joined", "goodbyeSent", "welcomes", "challenges", "greeted", "lastId",
                    "outstanding", "about", "reply", "tracked", "handlers", "active", "registrations",
                    "enabled", "invocations", "sent", "joins", "leaves", "denied", "released", "skipped",
                    "bailedOut"}
    BY DEF Sessions
  <2>2. CASE canSend(p)
    <3>1. x = [f EXCEPT !.sent = Append(f.sent, m)]
      BY <1>4, <2>2
    <3>2. x.sent = <<m>>
      <4>1. x.sent = Append(f.sent, m)
        BY <1>5, <2>1, <3>1
      <4>2. <<>> \in Seq(Messages) /\ \A y : Append(<<>>, y) = <<y>>
        OBVIOUS
      <4> QED
        BY <1>5, <4>1, <4>2, Zenon
    <3>3. /\ x.invocations = f.invocations /\ x.transport = f.transport /\ x.joined = f.joined
          /\ x.welcomes = f.welcomes /\ x.challenges = f.challenges /\ x.tracked = f.tracked
          /\ x.joins = f.joins /\ x.denied = f.denied /\ x.bailedOut = f.bailedOut
          /\ x.lastId = f.lastId /\ x.outstanding = f.outstanding /\ x.about = f.about /\ x.reply = f.reply
          /\ x.handlers = f.handlers /\ x.active = f.active
          /\ x.registrations = f.registrations /\ x.enabled = f.enabled
      BY <1>5, <2>1, <3>1, ZenonT(60)
    <3> QED
      BY <1>5, <2>2, <3>2, <3>3
  <2>3. CASE ~canSend(p)
    <3>1. x = f
      BY <1>4, <2>3
    <3> QED
      BY <1>5, <2>3, <3>1
  <2> QED
    BY <2>2, <2>3
<1>7. Progress(x) /\ Listed(x) /\ (Live(x) <=> Live(p)) /\ (x.bailedOut = "protocol" => x.denied)
  <2>1. Progress(x) /\ (Live(x) <=> Live(p)) /\ (x.bailedOut = "protocol" => x.denied)
    BY <1>6 DEF Agreed, Progress, Live
  <2>2. Listed(x)
    <3>1. /\ x.handlers = p.handlers /\ x.active = p.active /\ x.tracked = p.tracked
          /\ x.enabled = p.enabled /\ x.registrations = p.registrations
          /\ x.lastId = p.lastId /\ x.outstanding = p.outstanding
      BY <1>6
    <3>2. Listed(p)
      BY DEF Agreed
    <3> QED
      BY <3>1, <3>2, SameListed
  <2> QED
    BY <2>1, <2>2
<1>8. /\ \A y : Greeted(p, y) => Greeted(x, y)
      /\ \A y : Matched(p, y) => Matched(x, y)
      /\ \A y : Subscribed(p, y) => Subscribed(x, y)
      /\ \A y : Registered(p, y) => Registered(x, y)
  <2>1. (Listening(x) <=> Listening(p)) /\ (Unmet(x) <=> Unmet(p)) /\ Handled(x) = Handled(p)
    BY <1>6 DEF Listening, Unmet, Handled
  <2>2. /\ \A t \in Topics : Unsubscribing(x, t) = Unsubscribing(p, t)
        /\ \A g \in Ids : Unregistering(x, g) = Unregistering(p, g)
    BY <1>6 DEF Unsubscribing, Unregistering
  <2>3. ASSUME NEW y, Greeted(p, y) PROVE Greeted(x, y)
    BY <1>6, <2>1, <2>3 DEF Greeted
  <2>4. ASSUME NEW y, Matched(p, y) PROVE Matched(x, y)
    <3>1. x.outstanding = p.outstanding /\ x.about = p.about /\ x.reply = p.reply
      BY <1>6
    <3> QED
      BY <2>4, <3>1, ZenonT(60) DEF Matched
  <2>5. ASSUME NEW y, Subscribed(p, y) PROVE Subscribed(x, y)
    BY <1>6, <2>1, <2>2, <2>5 DEF Subscribed
  <2>6. ASSUME NEW y, Registered(p, y) PROVE Registered(x, y)
    BY <1>6, <2>2, <2>6 DEF Registered
  <2> QED
    BY <2>3, <2>4, <2>5, <2>6
<1>9. CASE canSend(p)
  <2>1. Tells(q, n, m)
    <3>1. x.sent = <<m>>
      BY <1>6, <1>9
    <3>2. x.sent \in Seq(Questions)
      <4>1. <<m>> \in Seq(Questions)
        BY <1>3
      <4> QED
        BY <3>1, <4>1
    <3> QED
      BY <1>3, <3>1, <3>2, Wrote
  <2>2. /\ n.toClient = q.toClient /\ n.phase = q.phase /\ n.subs = q.subs /\ n.regs = q.regs
        /\ n.calls = q.calls /\ n.invoked = q.invoked /\ n.open = q.open /\ n.stray = q.stray
    BY <2>1 DEF Tells
  <2>3. /\ \A k \in DOMAIN q.toRouter : k \in DOMAIN n.toRouter /\ n.toRouter[k] = q.toRouter[k]
        /\ \A k \in DOMAIN n.toRouter :
              \/ k \in DOMAIN q.toRouter /\ n.toRouter[k] = q.toRouter[k]
              \/ k = Len(q.toRouter) + 1 /\ n.toRouter[k] = m
        /\ Len(q.toRouter) + 1 \in DOMAIN n.toRouter /\ n.toRouter[Len(q.toRouter) + 1] = m
    BY <2>1, TellMore
  <2>4. Greeted(x, n)
    BY <1>2, <1>3, <1>8, <2>1, GreetedTells DEF Agreed
  <2>5. Invoked(x, n)
    <3>1. /\ n.open \subseteq n.invoked /\ x.invocations \subseteq n.open /\ ~n.stray
      BY <1>6, <2>2 DEF Agreed, Invoked
    <3>2. \A k \in DOMAIN n.toClient : n.toClient[k] \in Invoking =>
             n.toClient[k].about \in n.open \ x.invocations
      BY <1>6, <2>2 DEF Agreed, Invoked
    <3>3. \A k \in DOMAIN n.toRouter : n.toRouter[k] \in Yielding =>
             n.toRouter[k].about \in n.open \ x.invocations
      <4>1. m.about \in n.open \ x.invocations
        BY <1>1, <1>3, <1>6, <2>2
      <4>2. \A k \in DOMAIN q.toRouter : q.toRouter[k] \in Yielding =>
               q.toRouter[k].about \in n.open \ x.invocations
        BY <1>6, <2>2 DEF Agreed, Invoked
      <4> QED
        BY <2>3, <4>1, <4>2
    <3>4. \A k \in DOMAIN q.toRouter : q.toRouter[k] \in Yielding => q.toRouter[k].about # m.about
      BY <1>3 DEF Agreed, Invoked
    <3>5. \A k, l \in DOMAIN n.toRouter :
             n.toRouter[k] \in Yielding /\ n.toRouter[l] \in Yielding /\ k # l
               => n.toRouter[k].about # n.toRouter[l].about
      BY <2>3, <3>4 DEF Agreed, Invoked
    <3>6. \A k \in DOMAIN n.toRouter, l \in DOMAIN n.toClient :
             n.toRouter[k] \in Yielding /\ n.toClient[l] \in Invoking
               => n.toRouter[k].about # n.toClient[l].about
      <4>1. \A l \in DOMAIN q.toClient : q.toClient[l] \in Invoking => q.toClient[l].about # m.about
        BY <1>3 DEF Agreed, Invoked
      <4> QED
        BY <2>2, <2>3, <4>1 DEF Agreed, Invoked
    <3>7. x.transport = "open" /\ n.phase = "joined" =>
             \A j \in n.open :
                \/ j \in x.invocations
                \/ \E k \in DOMAIN n.toClient : n.toClient[k] \in Invoking /\ n.toClient[k].about = j
                \/ \E k \in DOMAIN n.toRouter : n.toRouter[k] \in Yielding /\ n.toRouter[k].about = j
      <4> SUFFICES ASSUME x.transport = "open", n.phase = "joined", NEW j \in n.open
                   PROVE  \/ j \in x.invocations
                          \/ \E k \in DOMAIN n.toClient : n.toClient[k] \in Invoking /\ n.toClient[k].about = j
                          \/ \E k \in DOMAIN n.toRouter : n.toRouter[k] \in Yielding /\ n.toRouter[k].about = j
        OBVIOUS
      <4>1. \/ j \in p.invocations
            \/ \E k \in DOMAIN q.toClient : q.toClient[k] \in Invoking /\ q.toClient[k].about = j
            \/ \E k \in DOMAIN q.toRouter : q.toRouter[k] \in Yielding /\ q.toRouter[k].about = j
        BY <1>6, <2>2 DEF Agreed, Invoked
      <4>2. CASE j = i
        BY <1>3, <2>3, <4>2
      <4>3. CASE j # i
        BY <1>6, <2>2, <2>3, <4>1, <4>3, ZenonT(60)
      <4> QED
        BY <4>2, <4>3
    <3>8. \A k, l \in DOMAIN n.toClient :
             n.toClient[k] \in Invoking /\ n.toClient[l] \in Invoking /\ k # l
               => n.toClient[k].about # n.toClient[l].about
      BY <2>2 DEF Agreed, Invoked
    <3> QED
      BY <3>1, <3>2, <3>3, <3>5, <3>6, <3>7, <3>8 DEF Invoked
  <2>6. ASSUME Live(x)
        PROVE  Matched(x, n) /\ Subscribed(x, n) /\ Registered(x, n)
    <3>1. Matched(p, q) /\ Subscribed(p, q) /\ Registered(p, q)
      BY <1>7, <2>6 DEF Agreed
    <3>2. Matched(p, n)
      <4>1. \A k \in DOMAIN n.toRouter : n.toRouter[k] \in Asks =>
               k \in DOMAIN q.toRouter /\ n.toRouter[k] = q.toRouter[k]
        BY <1>3, <2>3
      <4> QED
        BY <2>2, <3>1, <4>1 DEF Matched
    <3>3. Subscribed(p, n) /\ Registered(p, n)
      BY <2>1, <2>2, <3>1, SubscribedTells, RegisteredStill
    <3> QED
      BY <1>8, <3>2, <3>3
  <2> QED
    BY <1>7, <2>4, <2>5, <2>6 DEF Agreed
<1>10. CASE ~canSend(p)
  <2>1. n = q
    <3>1. x.sent = <<>>
      BY <1>6, <1>10
    <3>2. <<>> \in Seq(Questions)
      OBVIOUS
    <3> QED
      BY <3>1, <3>2, Wrote
  <2>2. x.transport # "open"
    BY <1>6, <1>10 DEF canSend
  <2>3. Invoked(x, q)
    BY <1>6, <2>2 DEF Agreed, Invoked
  <2> QED
    BY <1>7, <1>8, <2>1, <2>3 DEF Agreed
<1> QED
  BY <1>9, <1>10

-----------------------------------------------------------------------------
(* The session's own steps.                                                *)

\* The handshake does not see the rest of the session.
LEMMA SameGreeted ==
    ASSUME NEW p, NEW p2, NEW q, Greeted(p, q),
           p2.transport = p.transport, p2.denied = p.denied, p2.joined = p.joined,
           p2.joins = p.joins, p2.welcomes = p.welcomes, p2.challenges = p.challenges
    PROVE  Greeted(p2, q)
<1>1. (Listening(p2) <=> Listening(p)) /\ (Unmet(p2) <=> Unmet(p))
  BY DEF Listening, Unmet
<1> QED
  BY <1>1 DEF Greeted

\* A session that is not listening has no duties.
LEMMA DeafGreeted ==
    ASSUME NEW p, NEW p2, NEW q, Greeted(p, q), ~Listening(p2), p2.transport # "none",
           p.transport # "none", q.phase # "waiting",
           p2.joined = p.joined, p2.joins = p.joins, p2.welcomes = p.welcomes,
           p2.challenges = p.challenges, p2.denied => p.denied \/ q.phase # "challenged",
           p2.denied => p.denied \/ \A k \in DOMAIN q.toClient : q.toClient[k].type \notin Greeting,
           p.denied => p2.denied
    PROVE  Greeted(p2, q)
<1>1. Unmet(p) => Unmet(p2) \/ \A k \in DOMAIN q.toClient : q.toClient[k].type \notin Greeting
  BY DEF Unmet
<1>2. \A k \in DOMAIN q.toClient : q.toClient[k].type \in Greeting => k = 1 /\ Unmet(p2)
  BY <1>1 DEF Greeted
<1> QED
  BY <1>2 DEF Greeted

\* What may be said without being a request or an answer.
Spoken(p, q) ==
    \/ p.sent = <<>>
    \/ /\ p.transport # "none"
       /\ \E type \in {"HELLO", "ABORT", "GOODBYE", "CANCEL"}, i \in Ids \cup {0} :
             p.sent = <<Message(type, i, 0)>>
    \/ /\ p.transport # "none" /\ p.sent = <<Message("AUTHENTICATE", 0, 0)>>
       /\ q.phase # "waiting"
       /\ q.phase = "challenged" => q.toClient = <<>> /\ p.challenges = 0 /\ ~p.denied

LEMMA SpokenAgreed ==
    ASSUME NEW p \in Sessions, NEW q, Routed(q), Agreed(p, q), Spoken(p, q), NEW n, Writes(q, n, p.sent)
    PROVE  Agreed(p, n)
<1>1. CASE p.sent = <<>>
  <2>1. <<>> \in Seq(Questions)
    OBVIOUS
  <2>2. n = q
    BY <1>1, <2>1, Wrote
  <2> QED
    BY <2>2
<1>2. ASSUME NEW m \in Questions, p.sent = <<m>>
      PROVE  Tells(q, n, m)
  <2>1. <<m>> \in Seq(Questions)
    OBVIOUS
  <2> QED
    BY <1>2, <2>1, Wrote
<1>3. \A type \in {"HELLO", "ABORT", "GOODBYE", "CANCEL", "AUTHENTICATE"}, i \in Ids \cup {0} :
         /\ Message(type, i, 0) \in Questions /\ Message(type, i, 0).type = type
         /\ type \notin Verbs \cup {"YIELD", "ERROR"}
  <2>1. \A type \in {"HELLO", "ABORT", "GOODBYE", "CANCEL", "AUTHENTICATE"} :
           type \in Types \ Verbs /\ type \notin Verbs \cup {"YIELD", "ERROR"}
    BY DEF Types, Verbs, Verb, Kinds
  <2>2. 0 \in Targets
    BY DEF Targets
  <2> QED
    BY <2>1, <2>2, QuestionTyped, MessageFields
<1>4. ASSUME p.transport # "none",
             NEW type \in {"HELLO", "ABORT", "GOODBYE", "CANCEL"}, NEW i \in Ids \cup {0},
             p.sent = <<Message(type, i, 0)>>
      PROVE  Agreed(p, n)
  <2> DEFINE m == Message(type, i, 0)
  <2>1. m \in Questions /\ m.type = type /\ m.type \notin Verbs \cup {"YIELD", "ERROR"} /\ m.type # "AUTHENTICATE"
    BY <1>3
  <2>2. Tells(q, n, m)
    BY <1>2, <1>4, <2>1
  <2> HIDE DEF m
  <2> QED
    BY <1>4, <2>1, <2>2, AgreedTell
<1>5. ASSUME p.transport # "none", p.sent = <<Message("AUTHENTICATE", 0, 0)>>, q.phase # "waiting",
             q.phase = "challenged" => q.toClient = <<>> /\ p.challenges = 0 /\ ~p.denied
      PROVE  Agreed(p, n)
  <2> DEFINE m == Message("AUTHENTICATE", 0, 0)
  <2>1. m \in Questions /\ m.type \notin Verbs \cup {"YIELD", "ERROR"}
    BY <1>3
  <2>2. Tells(q, n, m)
    BY <1>2, <1>5, <2>1
  <2> HIDE DEF m
  <2> QED
    BY <1>5, <2>1, <2>2, AgreedTell
<1> QED
  BY <1>1, <1>4, <1>5 DEF Spoken

\* p2 is p as far as requests, subscriptions, registrations and invocations go.
Rests(p, p2) ==
    /\ p2.tracked = p.tracked /\ p2.handlers = p.handlers /\ p2.active = p.active
    /\ p2.registrations = p.registrations /\ p2.enabled = p.enabled
    /\ p2.invocations = p.invocations /\ p2.lastId = p.lastId
    /\ p2.outstanding = p.outstanding /\ p2.about = p.about /\ p2.reply = p.reply
    /\ p2.bailedOut = p.bailedOut

LEMMA RestsKept ==
    ASSUME NEW p, NEW p2, Rests(p, p2), Live(p2) => Live(p)
    PROVE  Kept(p, p2)
BY DEF Rests, Kept

LEMMA BeginAgreed ==
    ASSUME Whole, Agreed(s, r)
    PROVE  /\ Good(begin) /\ Sure(begin) /\ begin \in Sessions /\ Routed(r) /\ Agreed(begin, r)
           /\ begin.sent = <<>> /\ begin.transport = s.transport /\ begin.joined = s.joined
           /\ begin.welcomes = s.welcomes /\ begin.challenges = s.challenges
           /\ begin.lastId = s.lastId /\ begin.handlers = s.handlers /\ begin.tracked = s.tracked
           /\ begin.invocations = s.invocations /\ begin.outstanding = s.outstanding
           /\ begin.reply = s.reply /\ begin.registrations = s.registrations
           /\ begin.goodbyeSent = s.goodbyeSent
<1>1. s \in Sessions /\ Good(s) /\ Sure(s) /\ Routed(r)
  BY DEF Whole, Good, Core
<1>2. Good(begin) /\ Sure(begin) /\ begin \in Sessions
  BY <1>1, BeginSure
<1>3. /\ Rests(s, begin) /\ begin.sent = <<>> /\ begin.transport = s.transport
      /\ begin.joined = s.joined /\ begin.joins = s.joins /\ begin.denied = s.denied
      /\ begin.welcomes = s.welcomes /\ begin.challenges = s.challenges
      /\ begin.goodbyeSent = s.goodbyeSent
  BY <1>1 DEF begin, Sessions, Rests
<1>4. Kept(s, begin)
  BY <1>3, RestsKept DEF Live
<1>5. Progress(begin) /\ Greeted(begin, r)
  BY <1>3, SameGreeted DEF Progress, Agreed
<1>6. begin.bailedOut = "protocol" => begin.denied
  BY <1>3 DEF Rests, Agreed
<1>7. Agreed(begin, r)
  BY <1>1, <1>3, <1>4, <1>5, <1>6, AgreedFrame
<1> QED
  BY <1>1, <1>2, <1>3, <1>7 DEF Rests

LEMMA TransmitWrites ==
    ASSUME Transmit
    PROVE  Writes(r, r', s'.sent)
BY DEF Transmit, Writes

LEMMA RequestingAgreed ==
    ASSUME Whole, Agreed(s, r), Requesting
    PROVE  Agreed(s', r')
<1>1. /\ Good(begin) /\ Routed(r) /\ Agreed(begin, r) /\ begin.sent = <<>>
      /\ begin.transport = s.transport /\ begin.lastId = s.lastId /\ begin.handlers = s.handlers
      /\ s \in Sessions
  BY BeginAgreed DEF Whole, Good, Core
<1>2. Writes(r, r', s'.sent) /\ (HasIds => begin.lastId < MaxId)
      /\ (HasTransport => begin.transport \in {"open", "closing", "deaf"})
  BY <1>1, TransmitWrites DEF Requesting, HasIds, HasTransport
<1>3. ASSUME NEW kind \in Kinds, NEW target \in Targets, kind = "subscribe" => target \in Topics,
             HasTransport, HasIds, s' = request(begin, kind, target)
      PROVE  Agreed(s', r')
  BY <1>1, <1>2, <1>3, AgreedRequest
<1>4. Topics \subseteq Targets /\ Ids \subseteq Targets /\ 0 \in Targets
      /\ {"subscribe", "register", "unregister", "call", "publish"} \subseteq Kinds
  BY DEF Targets, Kinds
<1>5. CASE Subscribe
  BY <1>3, <1>4, <1>5 DEF Subscribe
<1>6. CASE Register
  BY <1>3, <1>4, <1>6 DEF Register
<1>7. CASE Unregister
  <2>1. s.registrations \subseteq Ids
    BY <1>1 DEF Sessions
  <2> QED
    BY <1>3, <1>4, <1>7, <2>1 DEF Unregister
<1>8. CASE Call
  BY <1>3, <1>4, <1>8 DEF Call
<1>9. CASE Publish
  BY <1>3, <1>4, <1>9 DEF Publish
<1>10. CASE Unsubscribe
  <2>1. PICK t \in s.tracked : \E k \in 1 .. Len(s.handlers[t]) : s' = unsubscribe(begin, t, k)
    BY <1>10 DEF Unsubscribe
  <2>2. PICK k \in 1 .. Len(s.handlers[t]) : s' = unsubscribe(begin, t, k)
    BY <2>1
  <2>3. t \in Topics /\ k \in 1 .. Len(begin.handlers[t]) /\ HasTransport /\ HasIds
    BY <1>1, <1>10 DEF Sessions, Unsubscribe
  <2> QED
    BY <1>1, <1>2, <2>2, <2>3, AgreedUnsubscribe
<1> QED
  BY <1>5, <1>6, <1>7, <1>8, <1>9, <1>10 DEF Requesting

\* A session that has ended: p2 is p, but for its outstanding requests.
Gone(p, p2) ==
    /\ p2.tracked = p.tracked /\ p2.handlers = p.handlers /\ p2.active = p.active
    /\ p2.registrations = p.registrations /\ p2.enabled = p.enabled
    /\ p2.invocations = p.invocations /\ p2.lastId = p.lastId /\ p2.bailedOut = p.bailedOut
    /\ p2.welcomes = p.welcomes /\ p2.challenges = p.challenges /\ p2.sent = p.sent
    /\ p2.joins = p.joins
    /\ \A i \in Ids : p2.outstanding[i] \in {p.outstanding[i], "none"}

LEMMA GoneKept ==
    ASSUME NEW p, NEW p2, Gone(p, p2), ~Live(p2)
    PROVE  Kept(p, p2)
BY DEF Gone, Kept

LEMMA ErrbackGone ==
    ASSUME NEW p \in Sessions
    PROVE  LET x == errbackOutstandingRequests(p)
           IN  Gone(p, x) /\ x \in Sessions /\ x.transport = p.transport /\ x.joined = p.joined
               /\ x.denied = p.denied
<1> DEFINE x == errbackOutstandingRequests(p)
           given == [i \in Ids |-> IF p.outstanding[i] # "none" /\ p.reply[i] = "pending"
                                   THEN "rejected" ELSE p.reply[i]]
<1>1. x = [p EXCEPT !.outstanding = nothingOutstanding, !.reply = given]
  BY DEF errbackOutstandingRequests, Sessions
<1>2. /\ given \in [Ids -> {"none", "pending", "resolved", "rejected", "cancelled"}]
      /\ nothingOutstanding \in [Ids -> Kinds \cup {"none"}]
      /\ \A i \in Ids : nothingOutstanding[i] = "none"
  BY DEF nothingOutstanding, Sessions
<1> HIDE DEF x, given
<1>3. x \in Sessions
  BY <1>1, <1>2 DEF Sessions
<1>4. x.outstanding = nothingOutstanding
  BY <1>1 DEF Sessions
<1>5. /\ x.tracked = p.tracked /\ x.handlers = p.handlers /\ x.active = p.active
      /\ x.registrations = p.registrations /\ x.enabled = p.enabled
      /\ x.invocations = p.invocations /\ x.lastId = p.lastId /\ x.bailedOut = p.bailedOut
      /\ x.welcomes = p.welcomes /\ x.challenges = p.challenges /\ x.sent = p.sent
      /\ x.joins = p.joins /\ x.transport = p.transport /\ x.joined = p.joined /\ x.denied = p.denied
  BY <1>1 DEF Sessions
<1> QED
  BY <1>2, <1>3, <1>4, <1>5 DEF Gone, x

LEMMA DisconnectGone ==
    ASSUME NEW p \in Sessions
    PROVE  LET x == disconnect(p)
           IN  Gone(p, x) /\ Rests(p, x) /\ x \in Sessions /\ x.joined = p.joined /\ x.denied = p.denied
               /\ x.transport = (IF p.transport = "open" THEN "closing" ELSE p.transport)
<1>1. CASE p.transport # "open"
  BY <1>1 DEF disconnect, Gone, Rests
<1>2. CASE p.transport = "open"
  <2> DEFINE x == disconnect(p)
  <2>1. x = [p EXCEPT !.transport = "closing"]
    BY <1>2 DEF disconnect
  <2> HIDE DEF x
  <2>2. x \in Sessions
    BY <2>1 DEF Sessions
  <2>3. /\ x.tracked = p.tracked /\ x.handlers = p.handlers /\ x.active = p.active
        /\ x.registrations = p.registrations /\ x.enabled = p.enabled
        /\ x.invocations = p.invocations /\ x.lastId = p.lastId /\ x.bailedOut = p.bailedOut
        /\ x.welcomes = p.welcomes /\ x.challenges = p.challenges /\ x.sent = p.sent
        /\ x.joins = p.joins /\ x.joined = p.joined /\ x.denied = p.denied
        /\ x.outstanding = p.outstanding /\ x.about = p.about /\ x.reply = p.reply
        /\ x.transport = "closing"
    BY <2>1 DEF Sessions
  <2> QED
    BY <1>2, <2>2, <2>3 DEF Gone, Rests, x
<1> QED
  BY <1>1, <1>2

LEMMA OnLeaveGone ==
    ASSUME NEW p \in Sessions
    PROVE  LET x == onLeave(p)
           IN  Gone(p, x) /\ x \in Sessions /\ x.joined = p.joined /\ x.denied = p.denied
               /\ x.transport = (IF p.transport = "open" THEN "closing" ELSE p.transport)
<1>1. CASE Shim
  BY <1>1, DisconnectGone DEF onLeave
<1>2. CASE ~Shim
  <2> DEFINE y == errbackOutstandingRequests(p)
             x == disconnect(y)
  <2>1. onLeave(p) = x
    BY <1>2 DEF onLeave
  <2>2. Gone(p, y) /\ y \in Sessions /\ y.transport = p.transport /\ y.joined = p.joined
        /\ y.denied = p.denied
    BY ErrbackGone
  <2> HIDE DEF y
  <2>3. Gone(y, x) /\ x \in Sessions /\ x.joined = y.joined /\ x.denied = y.denied
        /\ x.transport = (IF y.transport = "open" THEN "closing" ELSE y.transport)
    BY <2>2, DisconnectGone
  <2> HIDE DEF x
  <2>4. Gone(p, x)
    BY <2>2, <2>3 DEF Gone
  <2> QED
    BY <2>1, <2>2, <2>3, <2>4
<1> QED
  BY <1>1, <1>2

LEMMA LeaveSessionGone ==
    ASSUME NEW p \in Sessions
    PROVE  LET x == leaveSession(p)
           IN  Gone(p, x) /\ x \in Sessions /\ x.joined = FALSE /\ x.denied = p.denied
               /\ x.transport = (IF p.transport = "open" THEN "closing" ELSE p.transport)
<1> DEFINE y == [p EXCEPT !.joined = FALSE, !.leaves = @ + 1]
           x == onLeave(y)
<1>1. leaveSession(p) = x
  BY DEF leaveSession
<1>2. y \in Sessions
  <2>1. p.leaves + 1 \in Nat
    BY DEF Sessions
  <2> QED
    BY <2>1 DEF Sessions
<1>3. Gone(p, y) /\ y.joined = FALSE /\ y.denied = p.denied /\ y.transport = p.transport
  BY DEF Sessions, Gone
<1> HIDE DEF y
<1>4. Gone(y, x) /\ x \in Sessions /\ x.joined = y.joined /\ x.denied = y.denied
      /\ x.transport = (IF y.transport = "open" THEN "closing" ELSE y.transport)
  BY <1>2, OnLeaveGone
<1> HIDE DEF x
<1>5. Gone(p, x)
  BY <1>3, <1>4 DEF Gone
<1> QED
  BY <1>1, <1>3, <1>4, <1>5

LEMMA DenySessionGone ==
    ASSUME NEW p \in Sessions
    PROVE  LET x == denySession(p)
           IN  Gone(p, x) /\ x \in Sessions /\ x.joined = p.joined /\ x.denied
               /\ x.transport = (IF p.transport = "open" THEN "closing" ELSE p.transport)
<1> DEFINE y == [p EXCEPT !.denied = TRUE]
           x == onLeave(y)
<1>1. denySession(p) = x
  BY DEF denySession
<1>2. y \in Sessions
  BY DEF Sessions
<1>3. Gone(p, y) /\ y.joined = p.joined /\ y.denied = TRUE /\ y.transport = p.transport
  BY DEF Sessions, Gone
<1> HIDE DEF y
<1>4. Gone(y, x) /\ x \in Sessions /\ x.joined = y.joined /\ x.denied = y.denied
      /\ x.transport = (IF y.transport = "open" THEN "closing" ELSE y.transport)
  BY <1>2, OnLeaveGone
<1> HIDE DEF x
<1>5. Gone(p, x)
  BY <1>3, <1>4 DEF Gone
<1> QED
  BY <1>1, <1>3, <1>4, <1>5

LEMMA OnCloseGone ==
    ASSUME NEW p \in Sessions
    PROVE  LET x == onClose(p)
           IN  Gone(p, x) /\ x.joined = FALSE /\ x.denied = p.denied /\ x.transport = "lost"
<1> DEFINE y == [p EXCEPT !.transport = "lost"]
           z == IF p.joined THEN leaveSession(y) ELSE y
           x == onDisconnect(z)
<1>1. onClose(p) = x
  BY DEF onClose, Sessions
<1>2. y \in Sessions /\ Gone(p, y) /\ y.joined = p.joined /\ y.denied = p.denied /\ y.transport = "lost"
  BY DEF Sessions, Gone
<1> HIDE DEF y
<1>3. Gone(p, z) /\ z \in Sessions /\ z.joined = FALSE /\ z.denied = p.denied /\ z.transport = "lost"
  <2>1. CASE p.joined
    <3> DEFINE w == leaveSession(y)
    <3>1. Gone(y, w) /\ w \in Sessions /\ w.joined = FALSE /\ w.denied = y.denied
          /\ w.transport = (IF y.transport = "open" THEN "closing" ELSE y.transport)
      BY <1>2, LeaveSessionGone
    <3>2. z = w
      BY <2>1
    <3> HIDE DEF w, z
    <3>3. Gone(p, w)
      BY <1>2, <3>1 DEF Gone
    <3> QED
      BY <1>2, <3>1, <3>2, <3>3
  <2>2. CASE ~p.joined
    <3>1. p.joined \in BOOLEAN
      BY DEF Sessions
    <3>2. z = y /\ p.joined = FALSE
      BY <2>2, <3>1
    <3> HIDE DEF z
    <3> QED
      BY <1>2, <3>2
  <2> QED
    BY <2>1, <2>2
<1> HIDE DEF z
<1>4. Gone(p, x) /\ x.joined = FALSE /\ x.denied = p.denied /\ x.transport = "lost"
  <2>1. CASE Shim
    BY <1>3, <2>1 DEF onDisconnect
  <2>2. CASE ~Shim
    <3>1. x = errbackOutstandingRequests(z)
      BY <2>2 DEF onDisconnect
    <3> HIDE DEF x
    <3>2. Gone(z, x) /\ x \in Sessions /\ x.transport = z.transport /\ x.joined = z.joined
          /\ x.denied = z.denied
      BY <1>3, <3>1, ErrbackGone
    <3>3. Gone(p, x)
      BY <1>3, <3>2 DEF Gone
    <3> QED
      BY <1>3, <3>2, <3>3
  <2> QED
    BY <2>1, <2>2
<1> QED
  BY <1>1, <1>4

\* The session changes alone and may say something.
LEMMA StepAgreed ==
    ASSUME NEW p \in Sessions, NEW p2 \in Sessions, NEW q, Routed(q), Agreed(p, q), Kept(p, p2),
           Progress(p2), Greeted(p2, q), p2.bailedOut = "protocol" => p2.denied,
           p2.transport = "open" /\ q.phase = "joined" => p.transport = "open",
           Spoken(p2, q), NEW n, Writes(q, n, p2.sent)
    PROVE  Agreed(p2, n)
<1>1. Agreed(p2, q)
  BY AgreedFrame
<1> QED
  BY <1>1, SpokenAgreed

LEMMA CancellingAgreed ==
    ASSUME Prompt, Whole, Agreed(s, r), Cancelling
    PROVE  Agreed(s', r')
<1>1. /\ begin \in Sessions /\ Routed(r) /\ Agreed(begin, r) /\ begin.sent = <<>>
      /\ begin.transport = s.transport /\ begin.outstanding = s.outstanding /\ begin.reply = s.reply
  BY BeginAgreed
<1>2. s' \in Sessions
  <2>1. Application
    BY DEF Cancelling, Application
  <2> QED
    BY <2>1, OwnStep DEF Good, Core
<1>3. PICK i \in Ids :
         LET p == [begin EXCEPT !.reply[i] = "cancelled"]
         IN  /\ s.reply[i] = "pending"
             /\ IF s.outstanding[i] = "call"
                THEN canSend(s) /\ s' = send(p, Message("CANCEL", i, 0))
                ELSE s' = p
  BY DEF Cancelling, CancelReply
<1> DEFINE m == Message("CANCEL", i, 0)
           reply2 == [begin.reply EXCEPT ![i] = "cancelled"]
           p == [begin EXCEPT !.reply = reply2]
<1>4. /\ s' = (IF s.outstanding[i] = "call" THEN [p EXCEPT !.sent = Append(p.sent, m)] ELSE p)
      /\ s.outstanding[i] = "call" => canSend(s)
  BY <1>1, <1>3 DEF send, Sessions
<1>5. /\ reply2[i] = "cancelled" /\ \A j \in Ids \ {i} : reply2[j] = begin.reply[j]
  BY <1>1 DEF Sessions
<1> HIDE DEF reply2, m
<1>6. /\ p.tracked = begin.tracked /\ p.handlers = begin.handlers /\ p.active = begin.active
      /\ p.registrations = begin.registrations /\ p.enabled = begin.enabled
      /\ p.invocations = begin.invocations /\ p.lastId = begin.lastId
      /\ p.outstanding = begin.outstanding /\ p.about = begin.about /\ p.reply = reply2
      /\ p.bailedOut = begin.bailedOut /\ p.transport = begin.transport /\ p.joined = begin.joined
      /\ p.joins = begin.joins /\ p.welcomes = begin.welcomes /\ p.challenges = begin.challenges
      /\ p.denied = begin.denied /\ p.sent = <<>> /\ DOMAIN p = DOMAIN begin
  BY <1>1 DEF Sessions
<1> HIDE DEF p
<1>7. /\ s'.tracked = p.tracked /\ s'.handlers = p.handlers /\ s'.active = p.active
      /\ s'.registrations = p.registrations /\ s'.enabled = p.enabled
      /\ s'.invocations = p.invocations /\ s'.lastId = p.lastId
      /\ s'.outstanding = p.outstanding /\ s'.about = p.about /\ s'.reply = p.reply
      /\ s'.bailedOut = p.bailedOut /\ s'.transport = p.transport /\ s'.joined = p.joined
      /\ s'.joins = p.joins /\ s'.welcomes = p.welcomes /\ s'.challenges = p.challenges
      /\ s'.denied = p.denied
      /\ s.outstanding[i] # "call" => s'.sent = <<>>
      /\ s.outstanding[i] = "call" => s'.sent = Append(<<>>, m)
  <2>1. CASE s.outstanding[i] # "call"
    BY <1>4, <1>6, <2>1
  <2>2. CASE s.outstanding[i] = "call"
    <3>1. s' = [p EXCEPT !.sent = Append(p.sent, m)]
      BY <1>4, <2>2
    <3>2. DOMAIN p = {"transport", "joined", "goodbyeSent", "welcomes", "challenges", "greeted", "lastId",
                      "outstanding", "about", "reply", "tracked", "handlers", "active", "registrations",
                      "enabled", "invocations", "sent", "joins", "leaves", "denied", "released", "skipped",
                      "bailedOut"}
      BY <1>1, <1>6 DEF Sessions
    <3> QED
      BY <1>6, <2>2, <3>1, <3>2
  <2> QED
    BY <2>1, <2>2
<1>8. s.outstanding[i] \in {"call", "publish"}
  <2>1. s'.reply[i] # s.reply[i]
    BY <1>3, <1>5, <1>6, <1>7
  <2> QED
    BY <2>1 DEF Cancelling, Prompt
<1>9. Kept(begin, s')
  <2>1. \A j \in Ids : begin.outstanding[j] \in Kinds \ {"call", "publish"} => s'.reply[j] = begin.reply[j]
    BY <1>1, <1>5, <1>6, <1>7, <1>8
  <2>2. Live(s') => Live(begin)
    BY <1>6, <1>7 DEF Live
  <2> QED
    BY <1>6, <1>7, <2>1, <2>2 DEF Kept
<1>10. Progress(s') /\ Greeted(s', r) /\ (s'.bailedOut = "protocol" => s'.denied)
  <2>1. /\ s'.transport = begin.transport /\ s'.joined = begin.joined
        /\ s'.joins = begin.joins /\ s'.welcomes = begin.welcomes /\ s'.challenges = begin.challenges
        /\ s'.denied = begin.denied /\ s'.bailedOut = begin.bailedOut
    BY <1>6, <1>7
  <2>2. Progress(begin) /\ Greeted(begin, r) /\ (begin.bailedOut = "protocol" => begin.denied)
    BY <1>1 DEF Agreed
  <2>3. Greeted(s', r)
    BY <2>1, <2>2, SameGreeted
  <2> QED
    BY <2>1, <2>2, <2>3 DEF Progress
<1>11. Spoken(s', r)
  <2>1. CASE s.outstanding[i] # "call"
    BY <1>7, <2>1 DEF Spoken
  <2>2. CASE s.outstanding[i] = "call"
    <3>1. s'.sent = <<m>> /\ s'.transport # "none"
      <4>1. Append(<<>>, m) = <<m>>
        OBVIOUS
      <4> QED
        BY <1>1, <1>4, <1>6, <1>7, <2>2, <4>1 DEF canSend
    <3> QED
      BY <3>1 DEF Spoken, m
  <2> QED
    BY <2>1, <2>2
<1>12. Writes(r, r', s'.sent) /\ s'.transport = begin.transport
  BY <1>6, <1>7, TransmitWrites DEF Cancelling
<1> QED
  BY <1>1, <1>2, <1>9, <1>10, <1>11, <1>12, StepAgreed

LEMMA LeavingAgreed ==
    ASSUME Whole, Agreed(s, r), Leaving
    PROVE  Agreed(s', r')
<1>1. /\ begin \in Sessions /\ Routed(r) /\ Agreed(begin, r) /\ begin.sent = <<>>
      /\ begin.transport = s.transport
  BY BeginAgreed
<1>2. s' \in Sessions
  <2>1. Application
    BY DEF Leaving, Application
  <2> QED
    BY <2>1, OwnStep DEF Good, Core
<1>3. Progress(begin) /\ Greeted(begin, r) /\ (begin.bailedOut = "protocol" => begin.denied)
  BY <1>1 DEF Agreed
<1>4. Writes(r, r', s'.sent)
  BY TransmitWrites DEF Leaving
<1>5. CASE Leave
  <2> DEFINE m == Message("GOODBYE", 0, 0)
  <2>1. s' = [begin EXCEPT !.sent = Append(begin.sent, m), !.goodbyeSent = TRUE] /\ canSend(s)
    BY <1>1, <1>5 DEF Leave, send, Sessions
  <2> HIDE DEF m
  <2>2. /\ Rests(begin, s') /\ s'.transport = begin.transport /\ s'.joined = begin.joined
        /\ s'.joins = begin.joins /\ s'.welcomes = begin.welcomes
        /\ s'.challenges = begin.challenges /\ s'.denied = begin.denied
        /\ s'.bailedOut = begin.bailedOut /\ s'.sent = Append(<<>>, m)
    BY <1>1, <2>1 DEF Rests, Sessions
  <2>3. Kept(begin, s')
    BY <2>2, RestsKept DEF Live
  <2>4. Progress(s') /\ Greeted(s', r)
    BY <1>3, <2>2, SameGreeted DEF Progress
  <2>5. s'.sent = <<m>> /\ s'.transport = "open"
    <3>1. Append(<<>>, m) = <<m>>
      OBVIOUS
    <3> QED
      BY <1>1, <2>1, <2>2, <3>1 DEF canSend
  <2>6. Spoken(s', r)
    BY <2>5 DEF Spoken, m
  <2>7. /\ s'.bailedOut = "protocol" => s'.denied
        /\ s'.transport = "open" /\ r.phase = "joined" => begin.transport = "open"
    BY <1>3, <2>2
  <2> QED
    BY <1>1, <1>2, <1>4, <2>3, <2>4, <2>6, <2>7, StepAgreed
<1>6. CASE Disconnect
  <2>1. s' = [begin EXCEPT !.transport = "closing"] /\ begin.transport = "open"
    BY <1>1, <1>6 DEF Disconnect, disconnect
  <2>2. /\ Rests(begin, s') /\ s'.transport = "closing" /\ s'.joined = begin.joined
        /\ s'.joins = begin.joins /\ s'.welcomes = begin.welcomes
        /\ s'.challenges = begin.challenges /\ s'.denied = begin.denied
        /\ s'.bailedOut = begin.bailedOut /\ s'.sent = <<>>
    BY <1>1, <2>1 DEF Rests, Sessions
  <2>3. Kept(begin, s')
    BY <2>1, <2>2, RestsKept DEF Live
  <2>4. Progress(s') /\ (s'.bailedOut = "protocol" => s'.denied)
    BY <1>3, <2>2 DEF Progress
  <2>5. Greeted(s', r)
    <3>1. (Listening(s') <=> Listening(begin)) /\ (Unmet(s') <=> Unmet(begin))
      BY <2>1, <2>2 DEF Listening, Unmet
    <3>2. s'.transport # "none"
      BY <2>2
    <3> QED
      BY <1>3, <2>2, <3>1, <3>2 DEF Greeted
  <2>6. Spoken(s', r) /\ s'.transport # "open"
    BY <2>2 DEF Spoken
  <2> QED
    BY <1>1, <1>2, <1>4, <2>3, <2>4, <2>5, <2>6, StepAgreed
<1> QED
  BY <1>5, <1>6 DEF Leaving

LEMMA PeerClosedAgreed ==
    ASSUME Whole, Agreed(s, r), PeerClosed
    PROVE  Agreed(s', r')
<1>1. /\ begin \in Sessions /\ Routed(r) /\ Agreed(begin, r) /\ begin.transport = s.transport
  BY BeginAgreed
<1>2. s' = [begin EXCEPT !.transport = "deaf"] /\ begin.transport = "open" /\ r' = r
  BY <1>1 DEF PeerClosed, PeerClosing
<1>3. Progress(begin) /\ Greeted(begin, r) /\ (begin.bailedOut = "protocol" => begin.denied)
  BY <1>1 DEF Agreed
<1>4. /\ Rests(begin, s') /\ s'.transport = "deaf" /\ s'.joined = begin.joined
      /\ s'.joins = begin.joins /\ s'.welcomes = begin.welcomes
      /\ s'.challenges = begin.challenges /\ s'.denied = begin.denied
      /\ s'.bailedOut = begin.bailedOut
  BY <1>1, <1>2 DEF Rests, Sessions
<1>5. Kept(begin, s')
  BY <1>4, RestsKept DEF Live
<1>6. Progress(s') /\ (s'.bailedOut = "protocol" => s'.denied) /\ s'.transport # "open"
  BY <1>3, <1>4 DEF Progress
<1>7. Greeted(s', r)
  <2>1. ~Listening(s') /\ (Unmet(s') <=> Unmet(begin))
    BY <1>4 DEF Listening, Unmet
  <2>2. s'.transport # "none"
    BY <1>4
  <2> QED
    BY <1>3, <1>4, <2>1, <2>2 DEF Greeted
<1>8. Agreed(s', r)
  BY <1>1, <1>5, <1>6, <1>7, AgreedFrame
<1> QED
  BY <1>2, <1>8

LEMMA OpeningAgreed ==
    ASSUME Whole, Agreed(s, r), Opening
    PROVE  Agreed(s', r')
<1>1. /\ begin \in Sessions /\ Routed(r) /\ Agreed(begin, r) /\ begin.sent = <<>>
      /\ begin.transport = s.transport
  BY BeginAgreed
<1>2. s' \in Sessions
  BY OwnStep DEF Opening, Good, Core
<1> DEFINE m == Message("HELLO", 0, 0)
<1>3. s' = [begin EXCEPT !.transport = "open", !.sent = Append(begin.sent, m)]
      /\ begin.transport = "none"
  BY <1>1 DEF Opening, OnOpen, send, Sessions
<1>4. Progress(begin) /\ Greeted(begin, r) /\ (begin.bailedOut = "protocol" => begin.denied)
  BY <1>1 DEF Agreed
<1> HIDE DEF m
<1>5. /\ Rests(begin, s') /\ s'.transport = "open" /\ s'.joined = begin.joined
      /\ s'.joins = begin.joins /\ s'.welcomes = begin.welcomes
      /\ s'.challenges = begin.challenges /\ s'.denied = begin.denied
      /\ s'.bailedOut = begin.bailedOut /\ s'.sent = Append(<<>>, m)
  BY <1>1, <1>3 DEF Rests, Sessions
<1>6. Kept(begin, s')
  BY <1>3, <1>5, RestsKept DEF Live
<1>7. r.phase = "waiting"
  BY <1>3, <1>4 DEF Greeted
<1>8. Progress(s') /\ (s'.bailedOut = "protocol" => s'.denied)
  BY <1>4, <1>5 DEF Progress
<1>9. Greeted(s', r)
  <2>1. Unmet(s') <=> Unmet(begin)
    BY <1>5 DEF Unmet
  <2>2. s'.transport # "none"
    BY <1>5
  <2>3. r.toClient = <<>>
    BY <1>4, <1>7 DEF Greeted
  <2>4. /\ \A k \in DOMAIN r.toClient : FALSE
        /\ ~(begin.challenges > 0)
    BY <1>4, <1>7, <2>3 DEF Greeted
  <2>5. ~(s'.joins > 0)
    BY <1>4, <1>5, <1>7 DEF Greeted, Unmet
  <2> QED
    BY <1>4, <1>5, <1>7, <2>1, <2>2, <2>4, <2>5 DEF Greeted
<1>10. Spoken(s', r)
  <2>1. Append(<<>>, m) = <<m>>
    OBVIOUS
  <2> QED
    BY <1>5, <2>1 DEF Spoken, m
<1>11. Writes(r, r', s'.sent)
  BY TransmitWrites DEF Opening
<1> QED
  BY <1>1, <1>2, <1>6, <1>7, <1>8, <1>9, <1>10, <1>11, StepAgreed

LEMMA WelcomeDoneAgreed ==
    ASSUME Prompt, Whole, Agreed(s, r), WelcomeDone, Transmit
    PROVE  Agreed(s', r')
<1>1. /\ begin \in Sessions /\ Routed(r) /\ Agreed(begin, r) /\ begin.sent = <<>> /\ Good(begin)
      /\ begin.transport = s.transport /\ begin.welcomes = s.welcomes
  BY BeginAgreed
<1>2. s' \in Sessions
  BY OwnStep DEF Application, Good, Core
<1>3. Progress(begin) /\ Greeted(begin, r) /\ (begin.bailedOut = "protocol" => begin.denied)
  BY <1>1 DEF Agreed
<1>4. begin.welcomes > 0
  BY <1>1 DEF WelcomeDone
<1>5. /\ ~begin.joined /\ begin.joins = 0 /\ begin.challenges = 0 /\ begin.welcomes = 1
      /\ ~begin.denied /\ begin.transport \in {"open", "closing"}
  BY <1>1, <1>3, <1>4 DEF Prompt, Progress, Good, Core, Paired
<1>6. /\ r.phase \notin {"waiting", "challenged"}
      /\ \A k \in DOMAIN r.toClient : r.toClient[k].type \notin Greeting
  BY <1>3, <1>5 DEF Greeted, Unmet
<1>7. Writes(r, r', s'.sent)
  BY TransmitWrites
<1> DEFINE m == Message("ABORT", 0, 0)
           p == [begin EXCEPT !.welcomes = 0]
<1>8. \/ s' = [p EXCEPT !.joined = TRUE, !.joins = 1]
      \/ s' = [trySend(p, m) EXCEPT !.denied = TRUE]
  <2>1. [begin EXCEPT !.welcomes = @ - 1] = p
    BY <1>1, <1>5 DEF Sessions
  <2>2. \/ s' = [[p EXCEPT !.joined = TRUE] EXCEPT !.joins = @ + 1]
        \/ s' = [trySend(p, m) EXCEPT !.denied = TRUE]
    BY <1>1, <1>5, <2>1 DEF WelcomeDone
  <2>3. [[p EXCEPT !.joined = TRUE] EXCEPT !.joins = @ + 1] = [p EXCEPT !.joined = TRUE, !.joins = 1]
    <3> DEFINE j == [p EXCEPT !.joined = TRUE]
    <3>1. j.joins = 0 /\ 0 + 1 = 1
      BY <1>1, <1>5 DEF Sessions
    <3>2. [j EXCEPT !.joins = j.joins + 1] = [j EXCEPT !.joins = 1]
      BY <3>1
    <3>3. [j EXCEPT !.joins = 1] = [p EXCEPT !.joined = TRUE, !.joins = 1]
      OBVIOUS
    <3> QED
      BY <3>2, <3>3
  <2> QED
    BY <2>2, <2>3
<1>9. /\ Rests(begin, p) /\ p.transport = begin.transport /\ p.joined = begin.joined
      /\ p.joins = 0 /\ p.welcomes = 0 /\ p.challenges = 0 /\ p.denied = begin.denied /\ p.sent = <<>>
      /\ DOMAIN p = {"transport", "joined", "goodbyeSent", "welcomes", "challenges", "greeted", "lastId",
                     "outstanding", "about", "reply", "tracked", "handlers", "active", "registrations",
                     "enabled", "invocations", "sent", "joins", "leaves", "denied", "released", "skipped",
                     "bailedOut"}
  BY <1>1, <1>5 DEF Rests, Sessions
<1> HIDE DEF p, m
<1>10. CASE s' = [p EXCEPT !.joined = TRUE, !.joins = 1]
  <2>1. /\ Rests(p, s') /\ s'.transport = p.transport /\ s'.joined /\ s'.joins = 1
        /\ s'.welcomes = 0 /\ s'.challenges = 0 /\ s'.denied = p.denied /\ s'.sent = <<>>
    BY <1>9, <1>10 DEF Rests
  <2>2. Rests(begin, s') /\ s'.bailedOut = begin.bailedOut
    BY <1>9, <2>1 DEF Rests
  <2>3. Kept(begin, s')
    BY <1>5, <2>2, RestsKept DEF Live
  <2>4. Progress(s')
    BY <1>5, <1>9, <2>1 DEF Progress
  <2>5. Greeted(s', r)
    <3>1. s'.transport # "none"
      BY <1>5, <1>9, <2>1
    <3> QED
      BY <1>3, <1>6, <2>1, <3>1 DEF Greeted
  <2>6. s'.bailedOut = "protocol" => s'.denied
    BY <1>3, <1>9, <2>1, <2>2
  <2>7. s'.transport = "open" /\ r.phase = "joined" => begin.transport = "open"
    BY <1>9, <2>1
  <2>8. Spoken(s', r)
    BY <2>1 DEF Spoken
  <2> QED
    BY <1>1, <1>2, <1>7, <2>3, <2>4, <2>5, <2>6, <2>7, <2>8, StepAgreed
<1>11. CASE s' = [trySend(p, m) EXCEPT !.denied = TRUE]
  <2>1. /\ Rests(p, s') /\ s'.transport = p.transport /\ s'.joined = p.joined /\ s'.joins = 0
        /\ s'.welcomes = 0 /\ s'.challenges = 0 /\ s'.denied
        /\ s'.sent = <<>> \/ s'.sent = Append(<<>>, m)
    <3>1. CASE canSend(p)
      <4>1. s' = [[p EXCEPT !.sent = Append(p.sent, m)] EXCEPT !.denied = TRUE]
        BY <1>11, <3>1 DEF trySend, send
      <4> QED
        BY <1>9, <4>1 DEF Rests
    <3>2. CASE ~canSend(p)
      <4>1. s' = [p EXCEPT !.denied = TRUE]
        BY <1>11, <3>2 DEF trySend
      <4> QED
        BY <1>9, <4>1 DEF Rests
    <3> QED
      BY <3>1, <3>2
  <2>2. Rests(begin, s') /\ ~Live(s')
    BY <1>9, <2>1 DEF Rests, Live
  <2>3. Kept(begin, s')
    BY <2>2, RestsKept
  <2>4. Progress(s')
    BY <1>5, <1>9, <2>1 DEF Progress
  <2>5. Greeted(s', r)
    <3>1. s'.transport # "none" /\ ~Listening(s')
      BY <1>5, <1>9, <2>1 DEF Listening
    <3> QED
      BY <1>3, <1>6, <2>1, <3>1 DEF Greeted
  <2>6. s'.transport = "open" /\ r.phase = "joined" => begin.transport = "open"
    BY <1>9, <2>1
  <2>7. Spoken(s', r)
    <3>1. Append(<<>>, m) = <<m>>
      OBVIOUS
    <3>2. s'.transport # "none"
      BY <1>5, <1>9, <2>1
    <3> QED
      BY <2>1, <3>1, <3>2 DEF Spoken, m
  <2> QED
    BY <1>1, <1>2, <1>7, <2>1, <2>3, <2>4, <2>5, <2>6, <2>7, StepAgreed
<1> QED
  BY <1>8, <1>10, <1>11

LEMMA ChallengeDoneAgreed ==
    ASSUME Whole, Agreed(s, r), ChallengeDone, Transmit
    PROVE  Agreed(s', r')
<1>1. /\ begin \in Sessions /\ Routed(r) /\ Agreed(begin, r) /\ begin.sent = <<>>
      /\ begin.transport = s.transport /\ begin.challenges = s.challenges
  BY BeginAgreed
<1>2. s' \in Sessions
  BY OwnStep DEF Application, Good, Core
<1>3. Progress(begin) /\ Greeted(begin, r) /\ (begin.bailedOut = "protocol" => begin.denied)
  BY <1>1 DEF Agreed
<1>4. begin.challenges > 0
  BY <1>1 DEF ChallengeDone
<1>5. /\ ~begin.joined /\ begin.joins = 0 /\ begin.challenges = 1 /\ begin.welcomes = 0
      /\ ~begin.denied /\ begin.transport # "none"
  BY <1>1, <1>3, <1>4 DEF Progress, Sessions
<1>6. /\ r.phase \in {"challenged", "closing", "out"} /\ r.toClient = <<>>
      /\ r.phase = "challenged" => ~Signed(r)
  BY <1>3, <1>4 DEF Greeted
<1>7. Writes(r, r', s'.sent)
  BY TransmitWrites
<1> DEFINE a == Message("AUTHENTICATE", 0, 0)
           m == Message("ABORT", 0, 0)
           p == [begin EXCEPT !.challenges = 0]
           x == [p EXCEPT !.sent = Append(p.sent, m)]
<1>8. \/ s' = [p EXCEPT !.sent = Append(p.sent, a)]
      \/ s' = p
      \/ s' = denySession(x)
  BY <1>1, <1>5 DEF ChallengeDone, Sessions, trySend, send
<1>9. /\ Rests(begin, p) /\ p.transport = begin.transport /\ p.joined = begin.joined
      /\ p.joins = 0 /\ p.welcomes = 0 /\ p.challenges = 0 /\ p.denied = begin.denied /\ p.sent = <<>>
      /\ DOMAIN p = {"transport", "joined", "goodbyeSent", "welcomes", "challenges", "greeted", "lastId",
                     "outstanding", "about", "reply", "tracked", "handlers", "active", "registrations",
                     "enabled", "invocations", "sent", "joins", "leaves", "denied", "released", "skipped",
                     "bailedOut"}
      /\ p \in Sessions
  BY <1>1, <1>5 DEF Rests, Sessions
<1> HIDE DEF p, m, a, x
<1>10. ASSUME /\ Rests(begin, s') /\ s'.transport = begin.transport /\ s'.joined = begin.joined
              /\ s'.joins = 0 /\ s'.welcomes = 0 /\ s'.challenges = 0 /\ s'.denied = begin.denied,
              s'.sent \in {<<>>, <<a>>}
       PROVE  Agreed(s', r')
  <2>1. Kept(begin, s')
    BY <1>10, RestsKept, <1>5 DEF Live
  <2>2. Progress(s')
    BY <1>5, <1>10 DEF Progress
  <2>3. Greeted(s', r)
    <3>1. s'.transport # "none" /\ ~(s'.challenges > 0)
      BY <1>5, <1>10
    <3>2. \A k \in DOMAIN r.toClient : FALSE
      BY <1>6
    <3>3. r.phase = "challenged" => ~s'.joined /\ Len(r.toClient) <= 1
      BY <1>3, <1>5, <1>10 DEF Greeted
    <3>4. ~(s'.joins > 0) /\ r.phase # "joined" /\ r.phase # "waiting"
      BY <1>6, <1>10
    <3>5. r.phase = "challenged" => r.subs = {} /\ r.regs = {} /\ r.calls = {} /\ r.open = {}
      BY <1>3 DEF Greeted
    <3> QED
      BY <1>6, <1>10, <3>1, <3>2, <3>3, <3>4, <3>5 DEF Greeted
  <2>4. s'.bailedOut = "protocol" => s'.denied
    BY <1>3, <1>10 DEF Rests
  <2>5. Spoken(s', r)
    BY <1>5, <1>6, <1>10 DEF Spoken, a
  <2> QED
    BY <1>1, <1>2, <1>7, <1>10, <2>1, <2>2, <2>3, <2>4, <2>5, StepAgreed
<1>11. CASE s' = [p EXCEPT !.sent = Append(p.sent, a)]
  <2>1. Append(<<>>, a) = <<a>>
    OBVIOUS
  <2>2. /\ Rests(p, s') /\ s'.transport = p.transport /\ s'.joined = p.joined
        /\ s'.joins = 0 /\ s'.welcomes = 0 /\ s'.challenges = 0 /\ s'.denied = p.denied
        /\ s'.sent = Append(<<>>, a)
    BY <1>9, <1>11 DEF Rests
  <2>3. Rests(begin, s')
    BY <1>9, <2>2 DEF Rests
  <2> QED
    BY <1>9, <1>10, <2>1, <2>2, <2>3
<1>12. CASE s' = p
  BY <1>9, <1>10, <1>12
<1>13. CASE s' = denySession(x)
  <2>1. Append(<<>>, m) = <<m>>
    OBVIOUS
  <2>2. /\ Rests(p, x) /\ x.transport = p.transport /\ x.joined = p.joined
        /\ x.joins = 0 /\ x.welcomes = 0 /\ x.challenges = 0 /\ x.denied = p.denied
        /\ x.sent = Append(<<>>, m)
    BY <1>9 DEF Rests, x
  <2>3. x \in Sessions
    <3>1. m \in Messages
      BY MessageTyped DEF Types, Targets, m
    <3>2. x = send(p, m)
      BY DEF x, send
    <3>3. p.sent \in Seq(Messages) /\ Append(p.sent, m) \in Seq(Messages)
      BY <1>9, <3>1 DEF Sessions
    <3> DEFINE sent == Append(p.sent, m)
    <3>4. x = [p EXCEPT !.sent = sent] /\ sent \in Seq(Messages)
      BY <3>3 DEF x
    <3> HIDE DEF sent
    <3> QED
      BY <1>9, <3>4, Zenon DEF Sessions
  <2>4. /\ Gone(x, s') /\ s'.joined = x.joined /\ s'.denied
        /\ s'.transport = (IF x.transport = "open" THEN "closing" ELSE x.transport)
    BY <1>13, <2>3, DenySessionGone
  <2>5. ~Live(s') /\ ~Listening(s')
    BY <2>4 DEF Live, Listening
  <2>6. Kept(begin, s')
    <3>1. /\ s'.tracked = begin.tracked /\ s'.handlers = begin.handlers /\ s'.active = begin.active
          /\ s'.registrations = begin.registrations /\ s'.enabled = begin.enabled
          /\ s'.invocations = begin.invocations /\ s'.lastId = begin.lastId
          /\ \A i \in Ids : s'.outstanding[i] \in {begin.outstanding[i], "none"}
      BY <1>9, <2>2, <2>4 DEF Rests, Gone
    <3> QED
      BY <2>5, <3>1 DEF Kept
  <2>7. /\ s'.joined = begin.joined /\ s'.joins = 0 /\ s'.welcomes = 0 /\ s'.challenges = 0
        /\ s'.transport \notin {"none", "open"} /\ s'.sent = <<m>>
    BY <1>5, <1>9, <2>1, <2>2, <2>4 DEF Gone
  <2>8. Progress(s')
    BY <1>5, <2>7 DEF Progress
  <2>9. Greeted(s', r)
    <3>1. \A k \in DOMAIN r.toClient : FALSE
      BY <1>6
    <3>2. r.phase = "challenged" =>
            /\ ~s'.joined /\ Len(r.toClient) <= 1
            /\ r.subs = {} /\ r.regs = {} /\ r.calls = {} /\ r.open = {}
      BY <1>3, <1>5, <2>7 DEF Greeted
    <3> QED
      BY <1>6, <2>5, <2>7, <3>1, <3>2 DEF Greeted
  <2>10. Spoken(s', r)
    BY <2>7 DEF Spoken, m
  <2> QED
    BY <1>1, <1>2, <1>7, <2>4, <2>6, <2>7, <2>8, <2>9, <2>10, StepAgreed
<1> QED
  BY <1>8, <1>11, <1>12, <1>13

LEMMA FinishingAgreed ==
    ASSUME Prompt, Whole, Agreed(s, r), Finishing
    PROVE  Agreed(s', r')
<1>1. CASE WelcomeDone
  BY <1>1, WelcomeDoneAgreed DEF Finishing
<1>2. CASE ChallengeDone
  BY <1>2, ChallengeDoneAgreed DEF Finishing
<1>3. CASE EndpointDone
  <2>1. /\ begin \in Sessions /\ Routed(r) /\ Agreed(begin, r) /\ begin.sent = <<>>
        /\ begin.invocations = s.invocations
    BY BeginAgreed
  <2>2. PICK i \in s.invocations : \E type \in {"YIELD", "ERROR"} :
           s' = trySend([begin EXCEPT !.invocations = @ \ {i}], Message(type, 0, i))
    BY <1>3 DEF EndpointDone
  <2>3. PICK type \in {"YIELD", "ERROR"} :
           s' = trySend([begin EXCEPT !.invocations = @ \ {i}], Message(type, 0, i))
    BY <2>2
  <2>4. Writes(r, r', s'.sent) /\ i \in begin.invocations
    BY <2>1, TransmitWrites DEF Finishing
  <2> QED
    BY <2>1, <2>3, <2>4, AgreedDone
<1> QED
  BY <1>1, <1>2, <1>3 DEF Finishing

LEMMA LostAgreed ==
    ASSUME Prompt, Whole, Agreed(s, r), Lost
    PROVE  Agreed(s', r')
<1>1. /\ begin \in Sessions /\ Routed(r) /\ Agreed(begin, r)
      /\ begin.welcomes = s.welcomes /\ begin.challenges = s.challenges
  BY BeginAgreed
<1>2. /\ Gone(begin, s') /\ s'.joined = FALSE /\ s'.denied = begin.denied /\ s'.transport = "lost"
  BY <1>1, OnCloseGone DEF Lost, TransportLost
<1>3. begin.welcomes = 0 /\ begin.challenges = 0
  BY <1>1 DEF Lost, TransportLost, HasTransport, HooksDone, Prompt
<1>4. ~Live(s') /\ ~Listening(s')
  BY <1>2 DEF Live, Listening
<1>5. Kept(begin, s')
  BY <1>2, <1>4, GoneKept
<1>6. Listed(s')
  BY <1>1, <1>5, KeptListed DEF Agreed
<1>7. /\ r'.toRouter = <<>> /\ r'.toClient = <<>> /\ r'.phase = "out"
      /\ r'.open = r.open /\ r'.invoked = r.invoked /\ r'.stray = r.stray
  BY <1>1 DEF Lost, Routed, Routers
<1>8. (\A k \in DOMAIN r'.toClient : FALSE) /\ (\A k \in DOMAIN r'.toRouter : FALSE)
  BY <1>7
<1>9. /\ s'.welcomes = 0 /\ s'.challenges = 0 /\ s'.invocations = begin.invocations
      /\ s'.bailedOut = begin.bailedOut
  BY <1>2, <1>3 DEF Gone
<1>10. Invoked(s', r')
  BY <1>1, <1>7, <1>8, <1>9 DEF Agreed, Invoked
<1>11. Progress(s')
  BY <1>2, <1>9 DEF Progress
<1>12. Greeted(s', r')
  BY <1>2, <1>4, <1>7, <1>8, <1>9 DEF Greeted
<1> QED
  BY <1>1, <1>2, <1>4, <1>6, <1>9, <1>10, <1>11, <1>12 DEF Agreed

-----------------------------------------------------------------------------
(* The session reads a message while it is joined.                         *)

LEMMA GreetedRead ==
    ASSUME NEW p, NEW p2, NEW q, NEW n, Reads(q, n), Greeted(p, q), Progress(p2),
           p2.transport # "none", q.phase \notin {"waiting", "challenged"}, ~(p2.challenges > 0),
           \/ p2.joined \/ p2.welcomes = 1 \/ ~Listening(p2)
           \/ n.toClient = <<>> /\ q.phase \in {"closing", "out"}
    PROVE  Greeted(p2, n)
<1>1. /\ \A k \in DOMAIN n.toClient : k + 1 \in DOMAIN q.toClient /\ n.toClient[k] = q.toClient[k + 1]
      /\ \A k \in DOMAIN n.toClient : k + 1 # 1
  BY ReadRest
<1>2. n.phase = q.phase
  BY DEF Reads
<1>3. \A k \in DOMAIN n.toClient : n.toClient[k].type \notin Greeting
  BY <1>1 DEF Greeted
<1>4. \A k \in DOMAIN n.toClient :
         n.toClient[k].type = "GOODBYE" => k = Len(n.toClient) /\ n.phase \in {"closing", "out"}
  <2>1. /\ Len(q.toClient) \in Nat \ {0} /\ DOMAIN n.toClient = 1 .. Len(q.toClient) - 1
        /\ Len(n.toClient) = Len(q.toClient) - 1
    <3> DEFINE c == q.toClient
    <3>1. c \in Seq(Answers) /\ c # <<>> /\ n.toClient = Tail(c)
      BY DEF Reads, Routed
    <3> HIDE DEF c
    <3>2. Len(c) \in Nat \ {0} /\ DOMAIN Tail(c) = 1 .. Len(c) - 1 /\ Len(Tail(c)) = Len(c) - 1
      BY <3>1, Rested
    <3> QED
      BY <3>1, <3>2 DEF c
  <2> SUFFICES ASSUME NEW k \in DOMAIN n.toClient, n.toClient[k].type = "GOODBYE"
               PROVE  k = Len(n.toClient) /\ n.phase \in {"closing", "out"}
    OBVIOUS
  <2>2. k + 1 = Len(q.toClient) /\ q.phase \in {"closing", "out"}
    BY <1>1 DEF Greeted
  <2> QED
    BY <1>2, <2>1, <2>2
<1>5. n.toClient = <<>> => \A k \in DOMAIN n.toClient : FALSE
  OBVIOUS
<1>6. p2.welcomes = 1 => ~(p2.joins > 0)
  BY DEF Progress
<1>7. Listening(p2) /\ (n.phase = "joined" \/ \E k \in DOMAIN n.toClient : n.toClient[k].type \notin Greeting)
         => p2.joined \/ p2.welcomes = 1
  BY <1>2, <1>5
<1>8. Listening(p2) /\ ~p2.joined /\ p2.joins > 0 => n.toClient = <<>> /\ n.phase \in {"closing", "out"}
  BY <1>2, <1>6
<1> QED
  BY <1>2, <1>3, <1>4, <1>7, <1>8 DEF Greeted

\* p2 stands where p stands.
Attends(p, p2) ==
    /\ p2.transport = p.transport /\ p2.joined = p.joined /\ p2.joins = p.joins
    /\ p2.welcomes = p.welcomes /\ p2.challenges = p.challenges /\ p2.denied = p.denied
    /\ p2.bailedOut = p.bailedOut /\ p2.about = p.about /\ p2.lastId = p.lastId
    /\ p2.sent = p.sent

Subscribes(p, p2, m) ==
    \A t \in Topics :
        /\ t \in p2.tracked <=> m \in Subscribing(t) \/ (t \in p.tracked /\ m \notin Unsubscribing(p, t))
        /\ t \in Handled(p2) <=> m \in Subscribing(t) \/ (t \in Handled(p) /\ m \notin Unsubscribing(p, t))

Registers(p, p2, m) ==
    \A g \in Ids :
        g \in p2.registrations <=>
          m \in Registering(g) \/ (g \in p.registrations /\ m \notin Unregistering(p, g))

LEMMA AgreedHeard ==
    ASSUME NEW p \in Sessions, NEW p2, NEW q, NEW n, Reads(q, n), Agreed(p, q), Live(p), p.joined,
           NEW m, m = Head(q.toClient), Attends(p, p2), SettledBy(p, p2, m), Listed(p2),
           Subscribes(p, p2, m), Registers(p, p2, m),
           \/ m \notin Invoking /\ p2.invocations = p.invocations
           \/ m \in Invoking /\ p2.invocations = p.invocations \cup {m.about}
    PROVE  Agreed(p2, n)
<1>1. /\ p2.transport = p.transport /\ p2.joined = p.joined /\ p2.joins = p.joins
      /\ p2.welcomes = p.welcomes /\ p2.challenges = p.challenges /\ p2.denied = p.denied
      /\ p2.bailedOut = p.bailedOut /\ p2.about = p.about
  BY DEF Attends
<1>2. Progress(p) /\ Greeted(p, q) /\ Invoked(p, q) /\ (p.bailedOut = "protocol" => p.denied)
  BY DEF Agreed
<1>3. Matched(p, q) /\ Subscribed(p, q) /\ Registered(p, q)
  BY DEF Agreed
<1>4. Progress(p2)
  BY <1>1, <1>2 DEF Progress
<1>5. Greeted(p2, n)
  <2>1. q.phase \notin {"waiting", "challenged"}
    BY <1>2 DEF Greeted, Unmet
  <2>2. ~(p2.challenges > 0) /\ p2.transport # "none"
    BY <1>1, <1>2 DEF Progress
  <2> QED
    BY <1>1, <1>2, <1>4, <2>1, <2>2, GreetedRead
<1>6. Invoked(p2, n)
  BY <1>1, <1>2, InvokedRead
<1>7. Matched(p2, n)
  BY <1>1, <1>3, MatchedRead
<1>8. Subscribed(p2, n)
  BY <1>1, <1>3, SubscribedRead DEF Subscribes
<1>9. Registered(p2, n)
  BY <1>1, <1>3, RegisteredRead DEF Registers
<1> QED
  BY <1>1, <1>2, <1>4, <1>5, <1>6, <1>7, <1>8, <1>9 DEF Agreed

\* p2 holds what p holds.
Holds(p, p2) ==
    /\ p2.tracked = p.tracked /\ p2.handlers = p.handlers /\ p2.active = p.active
    /\ p2.registrations = p.registrations /\ p2.enabled = p.enabled
    /\ p2.invocations = p.invocations

LEMMA HoldsListed ==
    ASSUME NEW p \in Sessions, NEW p2, Listed(p), Holds(p, p2), p2.lastId = p.lastId,
           \A i \in Ids : p2.outstanding[i] \in {p.outstanding[i], "none"}
    PROVE  Listed(p2)
<1>1. \A t \in Topics : \A k \in DOMAIN p.handlers[t] : p.handlers[t][k] \in Ids
  BY DEF Sessions
<1>2. \A t \in Topics : \A k \in DOMAIN p2.handlers[t] :
         /\ p2.handlers[t][k] <= p2.lastId
         /\ p2.outstanding[p2.handlers[t][k]] # "subscribe"
  BY <1>1 DEF Holds, Listed
<1>3. /\ \A t, u \in Topics : \A k \in DOMAIN p2.handlers[t], l \in DOMAIN p2.handlers[u] :
           p2.handlers[t][k] = p2.handlers[u][l] => t = u /\ k = l
      /\ \A t \in Topics \ p2.tracked : p2.handlers[t] = <<>>
      /\ p2.enabled = p2.registrations
  BY DEF Holds, Listed
<1>4. \A i \in Ids :
         i \in p2.active <=> \E t \in Topics : \E k \in DOMAIN p2.handlers[t] : p2.handlers[t][k] = i
  BY DEF Holds, Listed
<1> QED
  BY <1>2, <1>3, <1>4 DEF Listed

LEMMA AnsweredHolds ==
    ASSUME NEW p \in Sessions, NEW i \in Ids
    PROVE  LET a == answered(p, i)
           IN  /\ Attends(p, a) /\ Holds(p, a) /\ a \in Sessions /\ a.reply = p.reply
               /\ a.outstanding = [p.outstanding EXCEPT ![i] = "none"]
<1> DEFINE a == answered(p, i)
           o == [p.outstanding EXCEPT ![i] = "none"]
<1>1. a = [p EXCEPT !.outstanding = o] /\ o \in [Ids -> Kinds \cup {"none"}]
  BY DEF answered, Sessions
<1> HIDE DEF a, o
<1>2. a \in Sessions
  BY <1>1 DEF Sessions
<1>3. Attends(p, a) /\ Holds(p, a) /\ a.reply = p.reply /\ a.outstanding = o
  BY <1>1 DEF Sessions, Attends, Holds
<1> QED
  BY <1>2, <1>3 DEF a, o

LEMMA SettledHolds ==
    ASSUME NEW x \in Sessions, NEW i \in Ids, NEW answer
    PROVE  LET y == Settled(x, i, answer)
           IN  /\ Attends(x, y) /\ Holds(x, y) /\ y.outstanding = x.outstanding
               /\ \A j \in Ids \ {i} : y.reply[j] = x.reply[j]
<1> DEFINE y == Settled(x, i, answer)
           o == [x.reply EXCEPT ![i] = answer]
<1>1. y = [x EXCEPT !.reply = o] /\ \A j \in Ids \ {i} : o[j] = x.reply[j]
  BY DEF Settled, Sessions
<1> HIDE DEF y, o
<1>2. Attends(x, y) /\ Holds(x, y) /\ y.outstanding = x.outstanding /\ y.reply = o
  BY <1>1 DEF Sessions, Attends, Holds
<1> QED
  BY <1>1, <1>2 DEF y

\* The entry of the request i is taken, and only its reply is touched.
LEMMA TakenSettled ==
    ASSUME NEW p \in Sessions, NEW p2, NEW m \in Replying,
           p2.outstanding = [p.outstanding EXCEPT ![m.request] = "none"],
           \A j \in Ids \ {m.request} : p2.reply[j] = p.reply[j]
    PROVE  SettledBy(p, p2, m) /\ \A i \in Ids : p2.outstanding[i] \in {p.outstanding[i], "none"}
<1>1. \A i \in Ids : i = m.request \/ i \in Ids \ {m.request}
  OBVIOUS
<1>2. p.outstanding \in [Ids -> Kinds \cup {"none"}] /\ m.request \in Ids
  BY DEF Sessions, Replying
<1> QED
  BY <1>1, <1>2 DEF SettledBy

\* An answer that only settles its request.
LEMMA PlainHeard ==
    ASSUME NEW p \in Sessions, NEW p2, NEW q, NEW n, Reads(q, n), Agreed(p, q), Live(p), p.joined,
           NEW m, m = Head(q.toClient), m \in Replying, m.type \in {"PUBLISHED", "RESULT", "ERROR"},
           Attends(p, p2), Holds(p, p2),
           p2.outstanding = [p.outstanding EXCEPT ![m.request] = "none"],
           \A j \in Ids \ {m.request} : p2.reply[j] = p.reply[j]
    PROVE  Agreed(p2, n)
<1>1. SettledBy(p, p2, m) /\ \A i \in Ids : p2.outstanding[i] \in {p.outstanding[i], "none"}
  BY TakenSettled
<1>2. Listed(p2)
  BY <1>1, HoldsListed DEF Attends, Agreed
<1>3. /\ \A t \in Topics : m \notin Subscribing(t) /\ m \notin Unsubscribing(p, t)
      /\ \A g \in Ids : m \notin Registering(g) /\ m \notin Unregistering(p, g)
      /\ m \notin Invoking
  BY DEF Subscribing, Unsubscribing, Registering, Unregistering, Invoking
<1>4. Subscribes(p, p2, m) /\ Registers(p, p2, m) /\ p2.invocations = p.invocations
  BY <1>3 DEF Subscribes, Registers, Holds, Handled
<1> QED
  BY <1>1, <1>2, <1>3, <1>4, AgreedHeard

\* x is p with the subscription i to the topic.
Adds(p, x, topic, i) ==
    /\ x.tracked = p.tracked \cup {topic} /\ x.active = p.active \cup {i}
    /\ x.handlers = [p.handlers EXCEPT ![topic] = Append(p.handlers[topic], i)]
    /\ x.lastId = p.lastId /\ x.outstanding = [p.outstanding EXCEPT ![i] = "none"]
    /\ x.registrations = p.registrations /\ x.enabled = p.enabled

\* x is p without subscriptions to the topic.
Drops(p, x, topic, i) ==
    /\ x.tracked = p.tracked \ {topic} /\ x.handlers = [p.handlers EXCEPT ![topic] = <<>>]
    /\ x.active = p.active \ {p.handlers[topic][k] : k \in 1 .. Len(p.handlers[topic])}
    /\ x.lastId = p.lastId /\ x.outstanding = [p.outstanding EXCEPT ![i] = "none"]
    /\ x.registrations = p.registrations /\ x.enabled = p.enabled

LEMMA ListedMore ==
    ASSUME NEW p \in Sessions, Listed(p), NEW topic \in Topics, NEW i \in Ids, i <= p.lastId,
           p.outstanding[i] = "subscribe", NEW x, Adds(p, x, topic, i)
    PROVE  Listed(x) /\ Handled(x) = Handled(p) \cup {topic}
<1>0. /\ x.tracked = p.tracked \cup {topic} /\ x.active = p.active \cup {i}
      /\ x.handlers = [p.handlers EXCEPT ![topic] = Append(p.handlers[topic], i)]
      /\ x.lastId = p.lastId /\ x.outstanding = [p.outstanding EXCEPT ![i] = "none"]
      /\ x.registrations = p.registrations /\ x.enabled = p.enabled
  BY DEF Adds
<1> DEFINE h == p.handlers[topic]
           g == Append(h, i)
<1>1. h \in Seq(Ids) /\ DOMAIN p.handlers = Topics /\ DOMAIN p.outstanding = Ids
  BY DEF Sessions
<1>2. x.handlers[topic] = g /\ \A t \in Topics \ {topic} : x.handlers[t] = p.handlers[t]
  BY <1>0, <1>1
<1>3. /\ Len(h) \in Nat /\ DOMAIN g = 1 .. Len(h) + 1 /\ DOMAIN h = 1 .. Len(h)
      /\ \A k \in 1 .. Len(h) : g[k] = h[k]
      /\ g[Len(h) + 1] = i /\ g # <<>>
  <2> HIDE DEF h
  <2> QED
    BY <1>1, Appended
<1>4. \A t \in Topics : \A k \in DOMAIN p.handlers[t] :
         p.handlers[t][k] \in Ids /\ p.handlers[t][k] # i
  BY DEF Listed, Sessions
<1> HIDE DEF g
\* Every entry is an old one or the new one.
<1>5. \A t \in Topics : \A k \in DOMAIN x.handlers[t] :
         \/ k \in DOMAIN p.handlers[t] /\ x.handlers[t][k] = p.handlers[t][k]
         \/ t = topic /\ k = Len(h) + 1 /\ x.handlers[t][k] = i
  <2> SUFFICES ASSUME NEW t \in Topics, NEW k \in DOMAIN x.handlers[t]
               PROVE  \/ k \in DOMAIN p.handlers[t] /\ x.handlers[t][k] = p.handlers[t][k]
                      \/ t = topic /\ k = Len(h) + 1 /\ x.handlers[t][k] = i
    OBVIOUS
  <2>1. CASE t = topic
    <3>1. k \in 1 .. Len(h) \/ k = Len(h) + 1
      BY <1>2, <1>3, <2>1
    <3> QED
      BY <1>2, <1>3, <2>1, <3>1
  <2>2. CASE t # topic
    BY <1>2, <2>2
  <2> QED
    BY <2>1, <2>2
<1>6. \A t \in Topics : \A k \in DOMAIN p.handlers[t] :
         k \in DOMAIN x.handlers[t] /\ x.handlers[t][k] = p.handlers[t][k]
  <2> SUFFICES ASSUME NEW t \in Topics, NEW k \in DOMAIN p.handlers[t]
               PROVE  k \in DOMAIN x.handlers[t] /\ x.handlers[t][k] = p.handlers[t][k]
    OBVIOUS
  <2>1. CASE t = topic
    BY <1>2, <1>3, <2>1
  <2>2. CASE t # topic
    BY <1>2, <2>2
  <2> QED
    BY <2>1, <2>2
<1>7. \E k \in DOMAIN x.handlers[topic] : x.handlers[topic][k] = i
  <2>1. Len(h) + 1 \in 1 .. Len(h) + 1
    BY <1>3
  <2> QED
    BY <1>2, <1>3, <2>1
<1>8. \A t, u \in Topics : \A k \in DOMAIN x.handlers[t], l \in DOMAIN x.handlers[u] :
         x.handlers[t][k] = x.handlers[u][l] => t = u /\ k = l
  BY <1>4, <1>5 DEF Listed
<1>9. \A j \in Ids :
         j \in x.active <=> \E t \in Topics : \E k \in DOMAIN x.handlers[t] : x.handlers[t][k] = j
  <2>1. ASSUME NEW j \in Ids, j \in x.active
        PROVE  \E t \in Topics : \E k \in DOMAIN x.handlers[t] : x.handlers[t][k] = j
    <3>1. CASE j = i
      BY <1>7, <3>1
    <3>2. CASE j \in p.active
      <4>1. PICK t \in Topics : \E k \in DOMAIN p.handlers[t] : p.handlers[t][k] = j
        BY <3>2 DEF Listed
      <4> QED
        BY <1>6, <4>1
    <3> QED
      BY <1>0, <2>1, <3>1, <3>2
  <2>2. ASSUME NEW j \in Ids, NEW t \in Topics, NEW k \in DOMAIN x.handlers[t], x.handlers[t][k] = j
        PROVE  j \in x.active
    <3>1. CASE j = i
      BY <1>0, <3>1
    <3>2. CASE j # i
      <4>1. k \in DOMAIN p.handlers[t] /\ p.handlers[t][k] = j
        BY <1>5, <2>2, <3>2
      <4> QED
        BY <1>0, <4>1 DEF Listed
    <3> QED
      BY <3>1, <3>2
  <2> QED
    BY <2>1, <2>2
<1>10. x.outstanding[i] = "none" /\ \A j \in Ids \ {i} : x.outstanding[j] = p.outstanding[j]
  BY <1>0, <1>1
<1>11. \A t \in Topics : \A k \in DOMAIN x.handlers[t] :
          x.handlers[t][k] <= x.lastId /\ x.outstanding[x.handlers[t][k]] # "subscribe"
  <2>1. \A t \in Topics : \A k \in DOMAIN p.handlers[t] :
           p.handlers[t][k] <= p.lastId /\ p.outstanding[p.handlers[t][k]] # "subscribe"
    BY DEF Listed
  <2>2. \A t \in Topics : \A k \in DOMAIN p.handlers[t] : p.handlers[t][k] \in Ids \ {i}
    BY <1>4
  <2> QED
    BY <1>0, <1>5, <1>10, <2>1, <2>2
<1>12. \A t \in Topics \ x.tracked : x.handlers[t] = <<>>
  BY <1>0, <1>2 DEF Listed
<1>13. x.enabled = x.registrations
  BY <1>0 DEF Listed
<1>14. Listed(x)
  BY <1>8, <1>9, <1>11, <1>12, <1>13 DEF Listed
<1>15. Handled(x) = Handled(p) \cup {topic}
  BY <1>2, <1>3 DEF Handled
<1> QED
  BY <1>14, <1>15

LEMMA ListedLess ==
    ASSUME NEW p \in Sessions, Listed(p), NEW topic \in Topics, NEW i \in Ids, NEW x,
           Drops(p, x, topic, i)
    PROVE  Listed(x) /\ Handled(x) = Handled(p) \ {topic}
<1>0. /\ x.tracked = p.tracked \ {topic} /\ x.handlers = [p.handlers EXCEPT ![topic] = <<>>]
      /\ x.active = p.active \ {p.handlers[topic][k] : k \in 1 .. Len(p.handlers[topic])}
      /\ x.lastId = p.lastId /\ x.outstanding = [p.outstanding EXCEPT ![i] = "none"]
      /\ x.registrations = p.registrations /\ x.enabled = p.enabled
  BY DEF Drops
<1>1. /\ DOMAIN p.handlers = Topics /\ DOMAIN p.outstanding = Ids
      /\ DOMAIN p.handlers[topic] = 1 .. Len(p.handlers[topic])
  BY DEF Sessions
<1>2. x.handlers[topic] = <<>> /\ \A t \in Topics \ {topic} : x.handlers[t] = p.handlers[t]
  BY <1>0, <1>1
<1>3. \A k \in DOMAIN x.handlers[topic] : FALSE
  BY <1>2
<1>4. \A t \in Topics : \A k \in DOMAIN x.handlers[t] :
         t # topic /\ k \in DOMAIN p.handlers[t] /\ x.handlers[t][k] = p.handlers[t][k]
  BY <1>2, <1>3
<1>5. \A t, u \in Topics : \A k \in DOMAIN x.handlers[t], l \in DOMAIN x.handlers[u] :
         x.handlers[t][k] = x.handlers[u][l] => t = u /\ k = l
  BY <1>4 DEF Listed
<1>6. \A j \in Ids :
         j \in x.active <=> \E t \in Topics : \E k \in DOMAIN x.handlers[t] : x.handlers[t][k] = j
  <2>1. ASSUME NEW j \in Ids, j \in x.active
        PROVE  \E t \in Topics : \E k \in DOMAIN x.handlers[t] : x.handlers[t][k] = j
    <3>1. PICK t \in Topics : \E k \in DOMAIN p.handlers[t] : p.handlers[t][k] = j
      BY <1>0, <2>1 DEF Listed
    <3>2. t # topic
      BY <1>0, <1>1, <2>1, <3>1
    <3> QED
      BY <1>2, <3>1, <3>2
  <2>2. ASSUME NEW j \in Ids, NEW t \in Topics, NEW k \in DOMAIN x.handlers[t], x.handlers[t][k] = j
        PROVE  j \in x.active
    <3>1. t # topic /\ k \in DOMAIN p.handlers[t] /\ p.handlers[t][k] = j
      BY <1>4, <2>2
    <3>2. j \in p.active
      BY <3>1 DEF Listed
    <3>3. \A l \in DOMAIN p.handlers[topic] : p.handlers[topic][l] # j
      BY <3>1 DEF Listed
    <3> QED
      BY <1>0, <1>1, <3>2, <3>3
  <2> QED
    BY <2>1, <2>2
<1>7. \A j \in Ids : x.outstanding[j] \in {p.outstanding[j], "none"}
  BY <1>0, <1>1
<1>8. \A t \in Topics : \A k \in DOMAIN x.handlers[t] :
          x.handlers[t][k] <= x.lastId /\ x.outstanding[x.handlers[t][k]] # "subscribe"
  <2>1. \A t \in Topics : \A k \in DOMAIN p.handlers[t] :
           /\ p.handlers[t][k] <= p.lastId /\ p.outstanding[p.handlers[t][k]] # "subscribe"
           /\ p.handlers[t][k] \in Ids
    BY DEF Listed, Sessions
  <2> QED
    BY <1>0, <1>4, <1>7, <2>1
<1>9. \A t \in Topics \ x.tracked : x.handlers[t] = <<>>
  BY <1>0, <1>2 DEF Listed
<1>10. x.enabled = x.registrations
  BY <1>0 DEF Listed
<1>11. Listed(x)
  BY <1>5, <1>6, <1>8, <1>9, <1>10 DEF Listed
<1>12. Handled(x) = Handled(p) \ {topic}
  BY <1>2 DEF Handled
<1> QED
  BY <1>11, <1>12

LEMMA SubscribedHeard ==
    ASSUME NEW p, Good(p), NEW q, NEW n, Reads(q, n), Agreed(p, q), Live(p), p.joined,
           NEW m, m = Head(q.toClient), m.type = "SUBSCRIBED"
    PROVE  LET x == onSubscribed(answered(p, m.request), m.request, m.about)
           IN  Agreed(x, n) /\ x.sent = p.sent
<1> DEFINE i == m.request
           topic == m.about
           a == answered(p, i)
           old == IF topic \in a.tracked THEN a.handlers[topic] ELSE <<>>
           new == Append(old, i)
           tracked == a.tracked \cup {topic}
           handlers == [a.handlers EXCEPT ![topic] = new]
           active == a.active \cup {i}
           y == [a EXCEPT !.tracked = tracked, !.handlers = handlers, !.active = active]
           x == Settled(y, i, "resolved")
<1>1. p \in Sessions /\ m \in Answers /\ m \in Replying /\ i \in Ids /\ topic \in Topics
  BY ReadRest, Replied DEF Good, Core, Replying
<1>2. /\ Attends(p, a) /\ Holds(p, a) /\ a \in Sessions /\ a.reply = p.reply
      /\ a.outstanding = [p.outstanding EXCEPT ![i] = "none"]
  BY <1>1, AnsweredHolds
<1>3. p.outstanding[i] = "subscribe" /\ i <= p.lastId
  <2>1. p.outstanding[i] = Answering(m)
    BY <1>1, ReadRest DEF Agreed, Matched
  <2>2. Answering(m) = "subscribe"
    BY DEF Answering, ReplyKind
  <2>3. p.lastId \in Nat /\ i \in Nat
    BY <1>1 DEF Sessions, Ids
  <2> QED
    BY <1>1, <2>1, <2>2, <2>3 DEF Good, Core, Fresh
<1>4. onSubscribed(a, i, topic) = x
  BY <1>2 DEF onSubscribed, resolve, Settled, Sessions
<1>5. new = Append(p.handlers[topic], i)
  BY <1>1, <1>2 DEF Holds, Agreed, Listed
<1> HIDE DEF a
<1>6. new \in Seq(Ids)
  <2>1. a.handlers[topic] \in Seq(Ids) /\ <<>> \in Seq(Ids)
    BY <1>1, <1>2 DEF Sessions
  <2>2. old \in Seq(Ids)
    BY <2>1
  <2> HIDE DEF old, i
  <2> QED
    BY <1>1, <2>2
<1> HIDE DEF new
<1>7. handlers \in [Topics -> Seq(Ids)] /\ tracked \subseteq Topics /\ active \subseteq Ids
  <2>1. a.handlers \in [Topics -> Seq(Ids)] /\ a.tracked \subseteq Topics /\ a.active \subseteq Ids
    BY <1>2 DEF Sessions
  <2> HIDE DEF i, topic
  <2> QED
    BY <1>1, <1>6, <2>1
<1>8. /\ tracked = p.tracked \cup {topic} /\ active = p.active \cup {i}
      /\ handlers = [p.handlers EXCEPT ![topic] = Append(p.handlers[topic], i)]
  BY <1>2, <1>5 DEF Holds
<1> HIDE DEF handlers, tracked, active
<1>9. y \in Sessions
  BY <1>2, <1>7 DEF Sessions
<1>10. /\ Attends(a, y) /\ y.tracked = tracked /\ y.handlers = handlers /\ y.active = active
       /\ y.registrations = a.registrations /\ y.enabled = a.enabled /\ y.invocations = a.invocations
       /\ y.outstanding = a.outstanding /\ y.reply = a.reply
  BY <1>2 DEF Sessions, Attends
<1> HIDE DEF y
<1>11. /\ Attends(y, x) /\ Holds(y, x) /\ x.outstanding = y.outstanding
       /\ \A j \in Ids \ {i} : x.reply[j] = y.reply[j]
  BY <1>1, <1>9, SettledHolds
<1> HIDE DEF x, i, topic
<1>12. /\ Attends(p, x) /\ x.tracked = tracked /\ x.handlers = handlers /\ x.active = active
       /\ x.registrations = p.registrations /\ x.enabled = p.enabled /\ x.invocations = p.invocations
       /\ x.outstanding = [p.outstanding EXCEPT ![i] = "none"]
       /\ \A j \in Ids \ {i} : x.reply[j] = p.reply[j]
  BY <1>2, <1>10, <1>11 DEF Attends, Holds
<1>13. SettledBy(p, x, m)
  BY <1>1, <1>12, TakenSettled DEF i
<1>14. Listed(x) /\ Handled(x) = Handled(p) \cup {topic}
  <2>1. Listed(p) /\ x.lastId = p.lastId
    BY <1>12 DEF Agreed, Attends
  <2>2. Adds(p, x, topic, i)
    BY <1>8, <1>12, <2>1 DEF Adds
  <2> QED
    BY <1>1, <1>3, <2>1, <2>2, ListedMore
<1>15. /\ \A t \in Topics : (m \in Subscribing(t) <=> t = topic) /\ m \notin Unsubscribing(p, t)
       /\ \A g \in Ids : m \notin Registering(g) /\ m \notin Unregistering(p, g)
       /\ m \notin Invoking
  BY <1>1 DEF Subscribing, Unsubscribing, Registering, Unregistering, Invoking, topic
<1>16. Subscribes(p, x, m) /\ Registers(p, x, m)
  BY <1>8, <1>12, <1>14, <1>15 DEF Subscribes, Registers
<1>17. Agreed(x, n)
  BY <1>1, <1>12, <1>13, <1>14, <1>15, <1>16, AgreedHeard
<1> QED
  BY <1>4, <1>12, <1>17 DEF Attends, a, i, topic

LEMMA UnsubscribedHeard ==
    ASSUME NEW p, Good(p), NEW q, NEW n, Reads(q, n), Agreed(p, q), Live(p), p.joined,
           NEW m, m = Head(q.toClient), m.type = "UNSUBSCRIBED"
    PROVE  LET x == onUnsubscribed(answered(p, m.request), m.request)
           IN  Agreed(x, n) /\ x.sent = p.sent
<1> DEFINE i == m.request
           a == answered(p, i)
           topic == a.about[i]
           gone == {a.handlers[topic][k] : k \in 1 .. Len(a.handlers[topic])}
           tracked == a.tracked \ {topic}
           handlers == [a.handlers EXCEPT ![topic] = <<>>]
           active == a.active \ gone
           z == [a EXCEPT !.tracked = tracked, !.handlers = handlers, !.active = active]
           y == IF topic \notin a.tracked THEN a ELSE z
           x == Settled(y, i, "resolved")
<1>1. p \in Sessions /\ m \in Answers /\ m \in Replying /\ i \in Ids
  BY ReadRest, Replied DEF Good, Core, Replying
<1>2. /\ Attends(p, a) /\ Holds(p, a) /\ a \in Sessions /\ a.reply = p.reply
      /\ a.outstanding = [p.outstanding EXCEPT ![i] = "none"]
  BY <1>1, AnsweredHolds
<1>3. onUnsubscribed(a, i) = x
  BY <1>2 DEF onUnsubscribed, resolve, Settled, Sessions
<1> HIDE DEF a
<1>4. topic = p.about[i]
  BY <1>2 DEF Attends
<1>5. /\ \A t \in Topics : m \notin Subscribing(t) /\ (m \in Unsubscribing(p, t) <=> t = topic)
      /\ \A g \in Ids : m \notin Registering(g) /\ m \notin Unregistering(p, g)
      /\ m \notin Invoking
  BY <1>1, <1>4 DEF Subscribing, Unsubscribing, Registering, Unregistering, Invoking
<1> HIDE DEF topic
<1>6. CASE topic \notin a.tracked
  <2>1. y = a
    BY <1>6
  <2> HIDE DEF y
  <2>2. /\ Attends(y, x) /\ Holds(y, x) /\ x.outstanding = y.outstanding
        /\ \A j \in Ids \ {i} : x.reply[j] = y.reply[j]
    BY <1>1, <1>2, <2>1, SettledHolds
  <2> HIDE DEF x, i
  <2>3. /\ Attends(p, x) /\ Holds(p, x)
        /\ x.outstanding = [p.outstanding EXCEPT ![i] = "none"]
        /\ \A j \in Ids \ {i} : x.reply[j] = p.reply[j]
    BY <1>2, <2>1, <2>2 DEF Attends, Holds
  <2>4. SettledBy(p, x, m) /\ \A j \in Ids : x.outstanding[j] \in {p.outstanding[j], "none"}
    BY <1>1, <2>3, TakenSettled DEF i
  <2>5. Listed(x)
    BY <1>1, <2>3, <2>4, HoldsListed DEF Agreed, Attends
  <2>6. topic \notin p.tracked /\ topic \notin Handled(p)
    BY <1>2, <1>6 DEF Holds, Agreed, Listed, Handled
  <2>7. Subscribes(p, x, m) /\ Registers(p, x, m) /\ x.invocations = p.invocations
    BY <1>5, <2>3, <2>6 DEF Subscribes, Registers, Holds, Handled
  <2>8. Agreed(x, n)
    BY <1>1, <1>5, <2>3, <2>4, <2>5, <2>7, AgreedHeard
  <2> QED
    BY <1>3, <2>3, <2>8 DEF Attends, a, i
<1>7. CASE topic \in a.tracked
  <2>1. y = z
    BY <1>7
  <2>2. topic \in Topics
    BY <1>2, <1>7 DEF Sessions
  <2>3. handlers \in [Topics -> Seq(Ids)] /\ tracked \subseteq Topics /\ active \subseteq Ids
    <3>1. <<>> \in Seq(Ids)
      OBVIOUS
    <3>2. a.handlers \in [Topics -> Seq(Ids)] /\ a.tracked \subseteq Topics /\ a.active \subseteq Ids
      BY <1>2 DEF Sessions
    <3> HIDE DEF gone
    <3> QED
      BY <3>1, <3>2
  <2>4. /\ tracked = p.tracked \ {topic} /\ handlers = [p.handlers EXCEPT ![topic] = <<>>]
        /\ active = p.active \ {p.handlers[topic][k] : k \in 1 .. Len(p.handlers[topic])}
    BY <1>2 DEF Holds
  <2> HIDE DEF handlers, tracked, active, gone
  <2>5. z \in Sessions
    BY <1>2, <2>3 DEF Sessions
  <2>6. /\ Attends(a, z) /\ z.tracked = tracked /\ z.handlers = handlers /\ z.active = active
        /\ z.registrations = a.registrations /\ z.enabled = a.enabled /\ z.invocations = a.invocations
        /\ z.outstanding = a.outstanding /\ z.reply = a.reply
    BY <1>2 DEF Sessions, Attends
  <2> HIDE DEF z, y
  <2>7. /\ Attends(y, x) /\ Holds(y, x) /\ x.outstanding = y.outstanding
        /\ \A j \in Ids \ {i} : x.reply[j] = y.reply[j]
    BY <1>1, <2>1, <2>5, SettledHolds
  <2> HIDE DEF x, i
  <2>8. /\ Attends(p, x) /\ x.tracked = tracked /\ x.handlers = handlers /\ x.active = active
        /\ x.registrations = p.registrations /\ x.enabled = p.enabled /\ x.invocations = p.invocations
        /\ x.outstanding = [p.outstanding EXCEPT ![i] = "none"]
        /\ \A j \in Ids \ {i} : x.reply[j] = p.reply[j]
    <3>1. Attends(a, x)
      BY <2>1, <2>6, <2>7 DEF Attends
    <3>2. Attends(p, x)
      BY <1>2, <3>1 DEF Attends
    <3>3. /\ x.tracked = tracked /\ x.handlers = handlers /\ x.active = active
          /\ x.registrations = a.registrations /\ x.enabled = a.enabled /\ x.invocations = a.invocations
      BY <2>1, <2>6, <2>7 DEF Holds
    <3>4. x.outstanding = a.outstanding /\ \A j \in Ids \ {i} : x.reply[j] = a.reply[j]
      BY <2>1, <2>6, <2>7
    <3> QED
      BY <1>2, <3>2, <3>3, <3>4 DEF Holds
  <2>9. SettledBy(p, x, m)
    BY <1>1, <2>8, TakenSettled DEF i
  <2>10. Listed(x) /\ Handled(x) = Handled(p) \ {topic}
    <3>1. Listed(p) /\ x.lastId = p.lastId
      BY <2>8 DEF Agreed, Attends
    <3>2. Drops(p, x, topic, i)
      BY <2>4, <2>8, <3>1 DEF Drops
    <3>3. i \in Ids
      BY <1>1
    <3> QED
      BY <1>1, <2>2, <3>1, <3>2, <3>3, ListedLess
  <2>11. Subscribes(p, x, m) /\ Registers(p, x, m)
    BY <1>5, <2>4, <2>8, <2>10 DEF Subscribes, Registers
  <2>12. Agreed(x, n)
    BY <1>1, <1>5, <2>8, <2>9, <2>10, <2>11, AgreedHeard
  <2> QED
    BY <1>3, <2>8, <2>12 DEF Attends, a, i
<1> QED
  BY <1>6, <1>7

\* x is p but for the registrations.
Serves(p, x) ==
    /\ x.tracked = p.tracked /\ x.handlers = p.handlers /\ x.active = p.active
    /\ x.enabled = x.registrations /\ x.lastId = p.lastId
    /\ \A i \in Ids : x.outstanding[i] \in {p.outstanding[i], "none"}

LEMMA ListedRegs ==
    ASSUME NEW p \in Sessions, NEW x, Listed(p), Serves(p, x)
    PROVE  Listed(x) /\ Handled(x) = Handled(p)
<1> USE DEF Serves
<1>1. \A t \in Topics : \A k \in DOMAIN p.handlers[t] : p.handlers[t][k] \in Ids
  BY DEF Sessions
<1>2. \A t \in Topics : \A k \in DOMAIN x.handlers[t] :
         /\ x.handlers[t][k] <= x.lastId
         /\ x.outstanding[x.handlers[t][k]] # "subscribe"
  BY <1>1 DEF Listed
<1>3. /\ \A t, u \in Topics : \A k \in DOMAIN x.handlers[t], l \in DOMAIN x.handlers[u] :
           x.handlers[t][k] = x.handlers[u][l] => t = u /\ k = l
      /\ \A t \in Topics \ x.tracked : x.handlers[t] = <<>>
  BY DEF Listed
<1>4. \A i \in Ids :
         i \in x.active <=> \E t \in Topics : \E k \in DOMAIN x.handlers[t] : x.handlers[t][k] = i
  BY DEF Listed
<1> QED
  BY <1>2, <1>3, <1>4 DEF Listed, Handled

Holding(p, regs) == [p EXCEPT !.registrations = regs, !.enabled = regs]

\* What m leaves of the registrations.
Leaves(p, m, regs) ==
    \A g \in Ids :
        g \in regs <=> m \in Registering(g) \/ (g \in p.registrations /\ m \notin Unregistering(p, g))

\* An answer that settles its request and changes the registrations to regs.
LEMMA RegsHeard ==
    ASSUME NEW p \in Sessions, NEW q, NEW n, Reads(q, n), Agreed(p, q), Live(p), p.joined,
           NEW m, m = Head(q.toClient), m \in Replying, m.type \in {"REGISTERED", "UNREGISTERED"},
           NEW regs \in SUBSET Ids, Leaves(p, m, regs)
    PROVE  LET a == answered(p, m.request)
               x == Settled(Holding(a, regs), m.request, "resolved")
           IN  Agreed(x, n) /\ x.sent = p.sent
<1> DEFINE i == m.request
           a == answered(p, i)
           y == Holding(a, regs)
           x == Settled(y, i, "resolved")
<1>1. i \in Ids
  BY DEF Replying
<1>2. /\ Attends(p, a) /\ Holds(p, a) /\ a \in Sessions /\ a.reply = p.reply
      /\ a.outstanding = [p.outstanding EXCEPT ![i] = "none"]
  BY <1>1, AnsweredHolds
<1> HIDE DEF a
<1>3. y \in Sessions
  BY <1>2 DEF Sessions, Holding
<1>4. /\ Attends(a, y) /\ y.tracked = a.tracked /\ y.handlers = a.handlers /\ y.active = a.active
      /\ y.registrations = regs /\ y.enabled = regs /\ y.invocations = a.invocations
      /\ y.outstanding = a.outstanding /\ y.reply = a.reply
  BY <1>2 DEF Sessions, Attends, Holding
<1> HIDE DEF y
<1>5. /\ Attends(y, x) /\ Holds(y, x) /\ x.outstanding = y.outstanding
      /\ \A j \in Ids \ {i} : x.reply[j] = y.reply[j]
  BY <1>1, <1>3, SettledHolds
<1> HIDE DEF x, i
<1>6. /\ Attends(p, x) /\ x.tracked = p.tracked /\ x.handlers = p.handlers /\ x.active = p.active
      /\ x.registrations = regs /\ x.enabled = regs /\ x.invocations = p.invocations
      /\ x.outstanding = [p.outstanding EXCEPT ![i] = "none"]
      /\ \A j \in Ids \ {i} : x.reply[j] = p.reply[j]
  BY <1>2, <1>4, <1>5 DEF Attends, Holds
<1>7. SettledBy(p, x, m) /\ \A j \in Ids : x.outstanding[j] \in {p.outstanding[j], "none"}
  BY <1>6, TakenSettled DEF i
<1>8. Listed(x) /\ Handled(x) = Handled(p)
  <2>1. Serves(p, x)
    BY <1>6, <1>7 DEF Serves, Attends
  <2> QED
    BY <2>1, ListedRegs DEF Agreed
<1>9. /\ \A t \in Topics : m \notin Subscribing(t) /\ m \notin Unsubscribing(p, t)
      /\ m \notin Invoking
  BY DEF Subscribing, Unsubscribing, Invoking
<1>10. Subscribes(p, x, m)
  BY <1>6, <1>8, <1>9 DEF Subscribes
<1>11. Registers(p, x, m)
  <2>1. x.registrations = regs
    BY <1>6
  <2> QED
    BY <2>1 DEF Registers, Leaves
<1>12. Agreed(x, n)
  BY <1>6, <1>7, <1>8, <1>9, <1>10, <1>11, AgreedHeard
<1> QED
  BY <1>6, <1>12 DEF Attends, a, i, x, y

LEMMA RegisteredHeard ==
    ASSUME NEW p, Good(p), Sure(p), NEW q, NEW n, Reads(q, n), Agreed(p, q), Live(p), p.joined,
           NEW m, m = Head(q.toClient), m.type = "REGISTERED"
    PROVE  LET x == onRegistered(answered(p, m.request), m.request, m.about)
           IN  Agreed(x, n) /\ x.sent = p.sent
<1> DEFINE i == m.request
           a == answered(p, i)
           regs == p.registrations \cup {i}
<1>1. p \in Sessions /\ m \in Answers /\ m \in Replying /\ i \in Ids /\ m.about = i
  BY ReadRest, Replied DEF Good, Core, Replying
<1>2. Holds(p, a) /\ a \in Sessions
  BY <1>1, AnsweredHolds
<1>3. p.outstanding[i] = "register"
  <2>1. p.outstanding[i] = Answering(m)
    BY <1>1, ReadRest DEF Agreed, Matched
  <2> QED
    BY <2>1 DEF Answering, ReplyKind
<1>4. i \notin p.registrations
  BY <1>1, <1>3 DEF Sure
<1>5. regs \in SUBSET Ids
  BY <1>1 DEF Sessions
<1>6. a.registrations \cup {i} = regs /\ a.enabled \cup {i} = regs /\ i \notin a.registrations
  BY <1>2, <1>4 DEF Holds, Agreed, Listed
<1> HIDE DEF a
<1>7. onRegistered(a, i, i) = Settled(Holding(a, regs), i, "resolved")
  <2> DEFINE y == Holding(a, regs)
  <2>1. onRegistered(a, i, i) = resolve(y, i)
    BY <1>6 DEF onRegistered, Holding
  <2> QED
    BY <2>1 DEF resolve, Settled
<1>8. Leaves(p, m, regs)
  BY <1>1 DEF Leaves, Registering, Unregistering
<1> HIDE DEF regs
<1> DEFINE x == Settled(Holding(answered(p, i), regs), i, "resolved")
<1>9. Agreed(x, n) /\ x.sent = p.sent
  BY <1>1, <1>5, <1>8, RegsHeard
<1>10. onRegistered(answered(p, i), i, i) = x
  BY <1>7 DEF a
<1> HIDE DEF x, i
<1> QED
  BY <1>1, <1>9, <1>10 DEF i

LEMMA UnregisteredHeard ==
    ASSUME NEW p, Good(p), NEW q, NEW n, Reads(q, n), Agreed(p, q), Live(p), p.joined,
           NEW m, m = Head(q.toClient), m.type = "UNREGISTERED", m \in Replying
    PROVE  LET x == onUnregistered(answered(p, m.request), m.request)
           IN  Agreed(x, n) /\ x.sent = p.sent
<1> DEFINE i == m.request
           a == answered(p, i)
           regs == p.registrations \ {p.about[i]}
<1>1. p \in Sessions /\ m \in Answers /\ i \in Ids
  BY ReadRest DEF Good, Core, Replying
<1>2. Holds(p, a) /\ a \in Sessions /\ a.about = p.about
  BY <1>1, AnsweredHolds DEF Attends
<1>3. regs \in SUBSET Ids
  BY <1>1 DEF Sessions
<1>4. a.registrations \ {a.about[i]} = regs /\ a.enabled \ {a.about[i]} = regs
  BY <1>2 DEF Holds, Agreed, Listed
<1> HIDE DEF a
<1>5. onUnregistered(a, i) = Settled(Holding(a, regs), i, "resolved")
  <2> DEFINE y == Holding(a, regs)
  <2>1. onUnregistered(a, i) = resolve(y, i)
    BY <1>4 DEF onUnregistered, Holding
  <2> QED
    BY <2>1 DEF resolve, Settled
<1>6. Leaves(p, m, regs)
  BY <1>1 DEF Leaves, Registering, Unregistering
<1> HIDE DEF regs
<1> DEFINE x == Settled(Holding(answered(p, i), regs), i, "resolved")
<1>9. Agreed(x, n) /\ x.sent = p.sent
  BY <1>1, <1>3, <1>6, RegsHeard
<1>10. onUnregistered(answered(p, i), i) = x
  BY <1>5 DEF a
<1> HIDE DEF x, i
<1> QED
  BY <1>1, <1>9, <1>10 DEF i

LEMMA ReplyHeard ==
    ASSUME NEW p, Good(p), Sure(p), NEW q, NEW n, Reads(q, n), Agreed(p, q), Live(p), p.joined,
           NEW m, m = Head(q.toClient), m \in Replying, m.type # "ERROR"
    PROVE  LET x == onReply(p, ReplyKind[m.type], m)
           IN  Agreed(x, n) /\ x.sent = p.sent
<1> DEFINE i == m.request
           kind == ReplyKind[m.type]
           a == answered(p, i)
           x == onReply(p, kind, m)
<1>1. p \in Sessions /\ m \in Answers /\ i \in Ids /\ i # 0
  BY ReadRest DEF Good, Core, Replying, Ids
<1>2. p.outstanding[i] = kind
  <2>1. p.outstanding[i] = Answering(m)
    BY ReadRest DEF Agreed, Matched
  <2> QED
    BY <2>1 DEF Answering
<1>3. /\ Attends(p, a) /\ Holds(p, a) /\ a \in Sessions /\ a.reply = p.reply
      /\ a.outstanding = [p.outstanding EXCEPT ![i] = "none"]
  BY <1>1, AnsweredHolds
<1> HIDE DEF a
<1>4. CASE m.type \in {"PUBLISHED", "RESULT"}
  <2>1. kind \in {"publish", "call"}
    BY <1>4 DEF ReplyKind
  <2> HIDE DEF kind
  <2>2. x = a \/ x = Settled(a, i, "resolved")
    BY <1>1, <1>2, <2>1 DEF onReply, a, resolve, Settled
  <2>3. CASE x = a
    <3> HIDE DEF x
    <3>1. Agreed(a, n)
      BY <1>1, <1>3, <1>4, PlainHeard
    <3> QED
      BY <1>3, <2>3, <3>1 DEF Attends, x, kind
  <2>4. CASE x = Settled(a, i, "resolved")
    <3> DEFINE y == Settled(a, i, "resolved")
    <3>1. /\ Attends(a, y) /\ Holds(a, y) /\ y.outstanding = a.outstanding
          /\ \A j \in Ids \ {i} : y.reply[j] = a.reply[j]
      BY <1>1, <1>3, SettledHolds
    <3> HIDE DEF y
    <3>2. Attends(p, y) /\ Holds(p, y)
      BY <1>3, <3>1 DEF Attends, Holds
    <3>3. /\ y.outstanding = [p.outstanding EXCEPT ![i] = "none"]
          /\ \A j \in Ids \ {i} : y.reply[j] = p.reply[j]
      BY <1>3, <3>1
    <3>4. Agreed(y, n)
      BY <1>1, <1>4, <3>2, <3>3, PlainHeard
    <3> HIDE DEF x
    <3> QED
      BY <2>4, <3>2, <3>4 DEF Attends, x, y, kind
  <2> QED
    BY <2>2, <2>3, <2>4
<1>5. CASE m.type \notin {"PUBLISHED", "RESULT"}
  <2>1. m.type \in {"SUBSCRIBED", "UNSUBSCRIBED", "REGISTERED", "UNREGISTERED"}
    BY <1>5 DEF Replying, ReplyKind
  <2>2. kind \in Kinds \ {"call", "publish"}
    BY <2>1 DEF ReplyKind, Kinds
  <2>3. p.reply[i] = "pending"
    BY <1>1, <1>2, <2>2 DEF Agreed, Matched
  <2>4. CASE m.type = "SUBSCRIBED"
    <3>1. x = onSubscribed(answered(p, i), i, m.about)
      BY <1>1, <1>2, <2>3, <2>4 DEF onReply, ReplyKind
    <3> HIDE DEF x
    <3>2. Agreed(x, n) /\ x.sent = p.sent
      BY <2>4, <3>1, SubscribedHeard
    <3> QED
      BY <3>2 DEF x
  <2>5. CASE m.type = "UNSUBSCRIBED"
    <3>1. x = onUnsubscribed(answered(p, i), i)
      BY <1>1, <1>2, <2>3, <2>5 DEF onReply, ReplyKind
    <3> HIDE DEF x
    <3>2. Agreed(x, n) /\ x.sent = p.sent
      BY <2>5, <3>1, UnsubscribedHeard
    <3> QED
      BY <3>2 DEF x
  <2>6. CASE m.type = "REGISTERED"
    <3>1. x = onRegistered(answered(p, i), i, m.about)
      BY <1>1, <1>2, <2>3, <2>6 DEF onReply, ReplyKind
    <3> HIDE DEF x
    <3>2. Agreed(x, n) /\ x.sent = p.sent
      BY <2>6, <3>1, RegisteredHeard
    <3> QED
      BY <3>2 DEF x
  <2>7. CASE m.type = "UNREGISTERED"
    <3>1. x = onUnregistered(answered(p, i), i)
      BY <1>1, <1>2, <2>3, <2>7 DEF onReply, ReplyKind
    <3> HIDE DEF x
    <3>2. Agreed(x, n) /\ x.sent = p.sent
      BY <2>7, <3>1, UnregisteredHeard
    <3> QED
      BY <3>2 DEF x
  <2> QED
    BY <2>1, <2>4, <2>5, <2>6, <2>7
<1> QED
  BY <1>4, <1>5

LEMMA ErrorHeard ==
    ASSUME NEW p, Good(p), NEW q, NEW n, Reads(q, n), Agreed(p, q), Live(p), p.joined,
           NEW m, m = Head(q.toClient), m.type = "ERROR"
    PROVE  LET x == onError(p, m)
           IN  Agreed(x, n) /\ x.sent = p.sent
<1> DEFINE i == m.request
           a == answered(p, i)
           x == onError(p, m)
<1>1. p \in Sessions /\ m \in Answers /\ m \in Replying /\ i \in Ids /\ i # 0 /\ m.kind \in Kinds
  BY ReadRest, Replied DEF Good, Core, Replying, Ids
<1>2. p.outstanding[i] = m.kind /\ m.kind # "none"
  <2>1. p.outstanding[i] = Answering(m)
    BY <1>1, ReadRest DEF Agreed, Matched
  <2> QED
    BY <1>1, <2>1 DEF Answering, Kinds
<1>3. /\ Attends(p, a) /\ Holds(p, a) /\ a \in Sessions /\ a.reply = p.reply
      /\ a.outstanding = [p.outstanding EXCEPT ![i] = "none"]
  BY <1>1, AnsweredHolds
<1>4. x = a \/ x = Settled(a, i, "rejected")
  BY <1>1, <1>2 DEF onError, Settled
<1> HIDE DEF a
<1>5. CASE x = a
  <2> HIDE DEF x
  <2>1. Agreed(a, n)
    BY <1>1, <1>3, PlainHeard
  <2> QED
    BY <1>3, <1>5, <2>1 DEF Attends, x
<1>6. CASE x = Settled(a, i, "rejected")
  <2> DEFINE y == Settled(a, i, "rejected")
  <2>1. /\ Attends(a, y) /\ Holds(a, y) /\ y.outstanding = a.outstanding
        /\ \A j \in Ids \ {i} : y.reply[j] = a.reply[j]
    BY <1>1, <1>3, SettledHolds
  <2> HIDE DEF y
  <2>2. Attends(p, y) /\ Holds(p, y)
    BY <1>3, <2>1 DEF Attends, Holds
  <2>3. /\ y.outstanding = [p.outstanding EXCEPT ![i] = "none"]
        /\ \A j \in Ids \ {i} : y.reply[j] = p.reply[j]
    BY <1>3, <2>1
  <2>4. Agreed(y, n)
    BY <1>1, <2>2, <2>3, PlainHeard
  <2> HIDE DEF x
  <2> QED
    BY <1>6, <2>2, <2>4 DEF Attends, x, y
<1> QED
  BY <1>4, <1>5, <1>6

LEMMA StaysNone ==
    ASSUME NEW queue, NEW x, NEW have, NEW ons, NEW offs, Stays(queue, 1 - 1, x, have, ons, offs)
    PROVE  x \in have
BY DEF Stays

\* A message that changes nothing.
LEMMA PassedBy ==
    ASSUME NEW p \in Sessions, NEW q, NEW n, Reads(q, n), Agreed(p, q), Live(p), p.joined,
           NEW m, m = Head(q.toClient), m \notin Replying, m \notin Invoking
    PROVE  Agreed(p, n)
<1>1. Progress(p) /\ Greeted(p, q) /\ (p.bailedOut = "protocol" => p.denied)
  BY DEF Agreed
<1>2. Greeted(p, n)
  <2>1. q.phase \notin {"waiting", "challenged"}
    BY <1>1 DEF Greeted, Unmet
  <2>2. ~(p.challenges > 0) /\ p.transport # "none"
    BY <1>1 DEF Progress
  <2> QED
    BY <1>1, <2>1, <2>2, GreetedRead
<1>3. Kept(p, p)
  BY DEF Kept
<1> QED
  BY <1>1, <1>2, <1>3, AgreedRead

\* The first message finds what it needs.
LEMMA Found ==
    ASSUME NEW p, NEW q, NEW n, Reads(q, n), Agreed(p, q), Live(p), NEW m, m = Head(q.toClient)
    PROVE  /\ \A t \in Topics : m \in Events(t) => t \in p.tracked
           /\ \A g \in Ids : m \in Uses(g) => g \in p.registrations
<1>1. 1 \in DOMAIN q.toClient /\ q.toClient[1] = m
  BY ReadRest
<1>2. Subscribed(p, q) /\ Registered(p, q)
  BY DEF Agreed
<1>3. ASSUME NEW t \in Topics, m \in Events(t)
      PROVE  t \in p.tracked
  <2>1. Synced(q.toClient, t, q.subs, p.tracked, Events(t), Subscribing(t), Unsubscribing(p, t))
    BY <1>2 DEF Subscribed
  <2>2. Stays(q.toClient, 1 - 1, t, p.tracked, Subscribing(t), Unsubscribing(p, t))
    BY <1>1, <1>3, <2>1 DEF Synced
  <2> QED
    BY <2>2, StaysNone
<1>4. ASSUME NEW g \in Ids, m \in Uses(g)
      PROVE  g \in p.registrations
  <2>1. Synced(q.toClient, g, q.regs, p.registrations, Uses(g), Registering(g), Unregistering(p, g))
    BY <1>2 DEF Registered
  <2>2. Stays(q.toClient, 1 - 1, g, p.registrations, Registering(g), Unregistering(p, g))
    BY <1>1, <1>4, <2>1 DEF Synced
  <2> QED
    BY <2>2, StaysNone
<1> QED
  BY <1>3, <1>4

LEMMA EventHeard ==
    ASSUME NEW p, Good(p), NEW q, NEW n, Reads(q, n), Agreed(p, q), Live(p), p.joined,
           NEW m, m = Head(q.toClient), m.type = "EVENT", p.sent = <<>>,
           p.transport \in {"open", "closing"}, NEW k \in Nat,
           k > 0 => p.lastId < MaxId /\ k <= Len(p.handlers[m.about]),
           NEW x, x = onEvent(p, m.about, k), NEW w, Routed(w), Writes(n, w, x.sent)
    PROVE  Agreed(x, w)
<1> DEFINE topic == m.about
<1>1. p \in Sessions /\ m \in Answers /\ topic \in Topics /\ m.request = 0
  BY ReadRest, Replied DEF Good, Core
<1>2. m \notin Replying /\ m \notin Invoking
  BY <1>1 DEF Replying, Invoking, Ids
<1>3. Agreed(p, n) /\ Routed(n)
  BY <1>1, <1>2, PassedBy DEF Reads
<1>4. topic \in p.tracked
  BY <1>1, Found DEF Events
<1> HIDE DEF topic
<1>5. CASE k = 0
  <2>1. x = p
    BY <1>4, <1>5 DEF onEvent, topic
  <2>2. Spoken(p, n)
    BY DEF Spoken
  <2> QED
    BY <1>1, <1>3, <2>1, <2>2, SpokenAgreed
<1>6. CASE k > 0
  <2> DEFINE z == unsubscribe(p, topic, k)
             skipped == z.skipped \/ k < Len(p.handlers[topic])
  <2>1. x = [z EXCEPT !.skipped = skipped]
    BY <1>4, <1>6 DEF onEvent, topic
  <2>2. k \in 1 .. Len(p.handlers[topic]) /\ p.lastId < MaxId
    <3>1. k <= Len(p.handlers[topic]) /\ p.lastId < MaxId
      BY <1>6 DEF topic
    <3>2. Len(p.handlers[topic]) \in Nat
      BY <1>1 DEF Sessions
    <3> QED
      BY <1>6, <3>1, <3>2
  <2>3. z \in Sessions
    BY <1>1, <2>2, UnsubscribeGood DEF Good, Core
  <2> HIDE DEF z, skipped
  <2>4. Rests(z, x) /\ x.sent = z.sent /\ x.transport = z.transport /\ x.joined = z.joined
        /\ x.joins = z.joins /\ x.denied = z.denied /\ x.welcomes = z.welcomes
        /\ x.challenges = z.challenges
    BY <2>1, <2>3 DEF Rests, Sessions
  <2>5. Agreed(z, w)
    BY <1>1, <1>3, <2>2, <2>4, AgreedUnsubscribe DEF z
  <2>6. Kept(z, x)
    BY <2>4, RestsKept DEF Live
  <2>7. Progress(x) /\ Greeted(x, w) /\ (x.bailedOut = "protocol" => x.denied)
    BY <2>4, <2>5, SameGreeted DEF Progress, Agreed, Rests
  <2> QED
    BY <2>3, <2>4, <2>5, <2>6, <2>7, AgreedFrame
<1> QED
  BY <1>5, <1>6

LEMMA TakenBackHeard ==
    ASSUME NEW p \in Sessions, NEW q, NEW n, Reads(q, n), Agreed(p, q), Live(p), p.joined,
           NEW m, m = Head(q.toClient), m.type = "UNREGISTERED", m.request = 0
    PROVE  onForcedUnregister(p, m.about) = p /\ Agreed(p, n)
<1>1. m \in Answers /\ m \notin Replying /\ m \notin Invoking
  BY ReadRest DEF Replying, Invoking, Ids
<1>2. m.about \in Ids
  BY <1>1, Replied
<1>3. m.about \in p.registrations
  BY <1>1, <1>2, Found DEF Uses
<1> QED
  BY <1>1, <1>3, PassedBy DEF onForcedUnregister

LEMMA InvocationHeard ==
    ASSUME NEW p \in Sessions, NEW q, NEW n, Reads(q, n), Agreed(p, q), Live(p), p.joined,
           NEW m, m = Head(q.toClient), m.type = "INVOCATION"
    PROVE  LET x == onInvocation(p, m.about, m.request)
           IN  Agreed(x, n) /\ x.sent = p.sent
<1> DEFINE i == m.about
           invocations == p.invocations \cup {i}
           x == [p EXCEPT !.invocations = invocations]
<1>1. m \in Answers /\ i \in Invocations /\ m.request \in Ids /\ m \in Invoking
  BY ReadRest, Replied DEF Invoking
<1>2. m.request \in p.registrations
  BY <1>1, Found DEF Uses
<1>3. i \notin p.invocations
  BY <1>1, ReadRest DEF Agreed, Invoked
<1>4. onInvocation(p, i, m.request) = x
  BY <1>2, <1>3 DEF onInvocation
<1> HIDE DEF invocations
<1>5. /\ Attends(p, x) /\ Serves(p, x) /\ x.registrations = p.registrations
      /\ x.outstanding = p.outstanding /\ x.reply = p.reply /\ x.invocations = invocations
      /\ x.tracked = p.tracked
  BY DEF Sessions, Attends, Serves, Agreed, Listed
<1> HIDE DEF x, i
<1>6. SettledBy(p, x, m)
  BY <1>5 DEF SettledBy
<1>7. Listed(x) /\ Handled(x) = Handled(p)
  BY <1>5, ListedRegs DEF Agreed
<1>8. /\ \A t \in Topics : m \notin Subscribing(t) /\ m \notin Unsubscribing(p, t)
      /\ \A g \in Ids : m \notin Registering(g) /\ m \notin Unregistering(p, g)
  BY DEF Subscribing, Unsubscribing, Registering, Unregistering
<1>9. Subscribes(p, x, m) /\ Registers(p, x, m)
  BY <1>5, <1>7, <1>8 DEF Subscribes, Registers
<1>10. x.invocations = p.invocations \cup {m.about}
  BY <1>5 DEF invocations, i
<1>11. Agreed(x, n)
  BY <1>1, <1>5, <1>6, <1>7, <1>9, <1>10, AgreedHeard
<1> QED
  BY <1>4, <1>5, <1>11 DEF Attends, x, i

LEMMA InterruptHeard ==
    ASSUME NEW p \in Sessions, NEW q, NEW n, Reads(q, n), Agreed(p, q), Live(p), p.joined,
           NEW m, m = Head(q.toClient), m.type = "INTERRUPT", p.sent = <<>>,
           NEW x, x = onInterrupt(p, m.about), NEW w, Writes(n, w, x.sent)
    PROVE  Agreed(x, w)
<1>1. m \in Answers /\ m \notin Replying /\ m \notin Invoking
  <2>1. "INTERRUPT" \notin DOMAIN ReplyKind \cup {"ERROR"}
    BY DEF ReplyKind
  <2> QED
    BY <2>1, ReadRest DEF Replying, Invoking
<1>2. Agreed(p, n) /\ Routed(n)
  BY <1>1, PassedBy DEF Reads
<1>3. CASE m.about \notin p.invocations
  <2>1. x = p
    BY <1>3 DEF onInterrupt
  <2>2. Spoken(p, n)
    BY DEF Spoken
  <2> QED
    BY <1>2, <2>1, <2>2, SpokenAgreed
<1>4. CASE m.about \in p.invocations
  <2> DEFINE i == m.about
  <2>1. x = trySend([p EXCEPT !.invocations = @ \ {i}], Message("ERROR", 0, i)) /\ i \in p.invocations
    BY <1>4 DEF onInterrupt
  <2> HIDE DEF i
  <2> QED
    BY <1>2, <2>1, AgreedDone
<1> QED
  BY <1>3, <1>4

\* After the router's GOODBYE nothing is under way to the session.
LEMMA LastRead ==
    ASSUME NEW p, NEW q, NEW n, Reads(q, n), Greeted(p, q), Head(q.toClient).type = "GOODBYE"
    PROVE  n.toClient = <<>> /\ n.phase \in {"closing", "out"}
<1> DEFINE c == q.toClient
<1>1. c \in Seq(Answers) /\ c # <<>> /\ n.toClient = Tail(c) /\ n.phase = q.phase
  BY DEF Reads, Routed
<1>2. 1 \in DOMAIN c /\ c[1] = Head(c)
  BY ReadRest
<1>3. 1 = Len(c) /\ q.phase \in {"closing", "out"}
  BY <1>2 DEF Greeted
<1> HIDE DEF c
<1>4. Tail(c) = <<>>
  BY <1>1, <1>3
<1> QED
  BY <1>1, <1>3, <1>4

LEMMA NothingGreeted ==
    ASSUME NEW x, NEW n, n.toClient = <<>>, n.phase \in {"closing", "out"}, x.transport # "none"
    PROVE  Greeted(x, n)
<1>1. \A k \in DOMAIN n.toClient : FALSE
  OBVIOUS
<1> QED
  BY <1>1 DEF Greeted

LEMMA GoodbyeHeard ==
    ASSUME NEW p \in Sessions, NEW q, NEW n, Reads(q, n), Agreed(p, q), Live(p), p.joined,
           NEW m, m = Head(q.toClient), m.type = "GOODBYE", p.sent = <<>>,
           p.transport \in {"open", "closing"},
           NEW x \in Sessions, x = onGoodbye(p), NEW w, Writes(n, w, x.sent)
    PROVE  Agreed(x, w)
<1>1. m \in Answers /\ m \notin Replying /\ m \notin Invoking
  <2>1. "GOODBYE" \notin DOMAIN ReplyKind \cup {"ERROR"}
    BY DEF ReplyKind
  <2> QED
    BY <2>1, ReadRest DEF Replying, Invoking
<1>2. Agreed(p, n) /\ Routed(n)
  BY <1>1, PassedBy DEF Reads
<1>3. n.toClient = <<>> /\ n.phase \in {"closing", "out"}
  BY LastRead DEF Agreed
<1>4. /\ Progress(p) /\ (p.bailedOut = "protocol" => p.denied)
      /\ p.joins > 0 /\ ~(p.welcomes > 0) /\ ~(p.challenges > 0) /\ ~p.denied
  BY <1>2 DEF Agreed, Progress, Live
<1>5. ASSUME NEW y, Gone(p, y), y.joined = FALSE, y.denied = p.denied, y.transport # "none"
      PROVE  Kept(p, y) /\ Progress(y) /\ (y.bailedOut = "protocol" => y.denied)
  <2>1. ~Live(y)
    BY <1>4, <1>5 DEF Live, Gone
  <2> QED
    BY <1>4, <1>5, <2>1, GoneKept DEF Progress, Gone
<1>6. CASE p.goodbyeSent
  <2>1. x = leaveSession(p)
    BY <1>6 DEF onGoodbye
  <2>2. /\ Gone(p, x) /\ x.joined = FALSE /\ x.denied = p.denied
        /\ x.transport = (IF p.transport = "open" THEN "closing" ELSE p.transport)
    BY <2>1, LeaveSessionGone
  <2>3. x.transport = "closing" /\ x.sent = <<>>
    BY <2>2 DEF Gone
  <2>4. Kept(p, x) /\ Progress(x) /\ (x.bailedOut = "protocol" => x.denied)
    BY <1>5, <2>2, <2>3
  <2>5. Greeted(x, n) /\ Spoken(x, n)
    BY <1>3, <2>3, NothingGreeted DEF Spoken
  <2>6. x.transport = "open" /\ n.phase = "joined" => p.transport = "open"
    BY <2>3
  <2> QED
    BY <1>2, <2>4, <2>5, <2>6, StepAgreed
<1>7. CASE ~p.goodbyeSent /\ canSend(p)
  <2> DEFINE g == Message("GOODBYE", 0, 0)
             y == [p EXCEPT !.sent = <<g>>]
  <2>1. g \in Messages
    BY MessageTyped DEF Types, Targets
  <2>2. x = leaveSession(y)
    <3>1. Append(<<>>, g) = <<g>>
      OBVIOUS
    <3> HIDE DEF g
    <3>2. Append(p.sent, g) = <<g>>
      BY <3>1
    <3> QED
      BY <1>7, <3>2 DEF onGoodbye, send, g
  <2> HIDE DEF g
  <2>3. y \in Sessions
    <3>1. <<g>> \in Seq(Messages)
      BY <2>1
    <3> QED
      BY <3>1 DEF Sessions
  <2>4. /\ y.sent = <<g>> /\ y.transport = p.transport /\ y.joined = p.joined /\ y.joins = p.joins
        /\ y.denied = p.denied /\ y.welcomes = p.welcomes /\ y.challenges = p.challenges
        /\ y.bailedOut = p.bailedOut /\ Rests(p, y)
    BY DEF Sessions, Rests
  <2> HIDE DEF y
  <2>5. /\ Gone(y, x) /\ x.joined = FALSE /\ x.denied = y.denied
        /\ x.transport = (IF y.transport = "open" THEN "closing" ELSE y.transport)
    BY <2>2, <2>3, LeaveSessionGone
  <2>6. x.transport = "closing" /\ x.sent = <<g>>
    BY <2>4, <2>5 DEF Gone
  <2>7. Kept(p, x) /\ Progress(x) /\ (x.bailedOut = "protocol" => x.denied)
    <3>1. ~Live(x)
      BY <1>4, <2>4, <2>5 DEF Live, Gone
    <3>2. Progress(x) /\ (x.bailedOut = "protocol" => x.denied)
      BY <1>4, <2>4, <2>5, <2>6 DEF Progress, Gone
    <3>3. Kept(p, x)
      BY <2>4, <2>5, <3>1 DEF Kept, Gone, Rests
    <3> QED
      BY <3>2, <3>3
  <2>8. Greeted(x, n) /\ Spoken(x, n)
    BY <1>3, <2>6, NothingGreeted DEF Spoken, g
  <2>9. x.transport = "open" /\ n.phase = "joined" => p.transport = "open"
    BY <2>6
  <2> QED
    BY <1>2, <2>7, <2>8, <2>9, StepAgreed
<1>8. CASE ~p.goodbyeSent /\ ~canSend(p)
  <2>1. x = [p EXCEPT !.transport = "deaf", !.bailedOut = "internal"]
    BY <1>8 DEF onGoodbye, bailout
  <2>2. /\ x.transport = "deaf" /\ x.bailedOut = "internal" /\ x.sent = <<>>
        /\ x.joined = p.joined /\ x.joins = p.joins /\ x.welcomes = p.welcomes
        /\ x.challenges = p.challenges /\ x.denied = p.denied /\ x.tracked = p.tracked
        /\ x.handlers = p.handlers /\ x.active = p.active /\ x.lastId = p.lastId
        /\ x.registrations = p.registrations /\ x.enabled = p.enabled
        /\ x.invocations = p.invocations /\ x.outstanding = p.outstanding
    BY <2>1, ZenonT(60) DEF Sessions
  <2> HIDE <2>1
  <2>3. Kept(p, x) /\ Progress(x)
    BY <1>4, <2>2 DEF Kept, Progress, Live
  <2>4. Greeted(x, n) /\ Spoken(x, n) /\ x.bailedOut # "protocol"
    BY <1>3, <2>2, NothingGreeted DEF Spoken
  <2>5. x.transport = "open" /\ n.phase = "joined" => p.transport = "open"
    BY <2>2
  <2> QED
    BY <1>2, <2>3, <2>4, <2>5, StepAgreed
<1> QED
  BY <1>6, <1>7, <1>8

LEMMA AnswerKinds ==
    ASSUME NEW m \in Answers
    PROVE  m.type \in Greeting \cup DOMAIN ReplyKind
                        \cup {"GOODBYE", "ERROR", "EVENT", "INVOCATION", "INTERRUPT"}
<1>1. DOMAIN ReplyKind = {"PUBLISHED", "SUBSCRIBED", "UNSUBSCRIBED", "RESULT", "REGISTERED", "UNREGISTERED"}
  BY DEF ReplyKind
<1>2. CASE m \in Greetings
  BY <1>2, MessageFields DEF Greetings, Greeting
<1>3. CASE m \in Replies
  <2>1. \/ \E i \in Ids, type \in {"PUBLISHED", "RESULT", "UNSUBSCRIBED", "UNREGISTERED"} : m = Message(type, i, 0)
        \/ \E i \in Ids, t \in Topics : m = Message("SUBSCRIBED", i, t)
        \/ \E i \in Ids, g \in Ids : m = Message("REGISTERED", i, g)
        \/ \E kind \in Kinds, i \in Ids : m = Error(kind, i)
    BY <1>3 DEF Replies
  <2> QED
    BY <1>1, <2>1, MessageFields
<1>4. CASE m \in Requests
  <2>1. \/ \E t \in Topics : m = Message("EVENT", 0, t)
        \/ \E g \in Ids : m = Message("UNREGISTERED", 0, g)
        \/ \E g \in Ids, i \in Invocations : m = Message("INVOCATION", g, i)
        \/ \E i \in Invocations : m = Message("INTERRUPT", 0, i)
    BY <1>4 DEF Requests
  <2> QED
    BY <1>1, <2>1, MessageFields
<1> QED
  BY <1>2, <1>3, <1>4 DEF Answers

LEMMA JoinedHeard ==
    ASSUME NEW p, Good(p), Sure(p), NEW q, NEW n, Reads(q, n), Agreed(p, q), p.joined,
           p.transport \in {"open", "closing"}, p.sent = <<>>,
           NEW m, m = Head(q.toClient), NEW k \in Nat,
           k > 0 => p.lastId < MaxId /\ k <= Len(p.handlers[m.about]),
           NEW x \in Sessions, x = onMessage(p, m, k), NEW w, Routed(w), Writes(n, w, x.sent)
    PROVE  Agreed(x, w)
<1>1. p \in Sessions /\ m \in Answers /\ Routed(n)
  BY ReadRest DEF Good, Core, Reads
<1>2. Live(p)
  BY DEF Agreed, Progress, Live
<1>3. m.type \notin Greeting
  BY ReadRest DEF Agreed, Greeted, Unmet
<1>4. ASSUME Agreed(x, n), x.sent = p.sent
      PROVE  Agreed(x, w)
  <2>1. Spoken(x, n)
    BY <1>4 DEF Spoken
  <2> QED
    BY <1>1, <1>4, <2>1, SpokenAgreed
<1>5. DOMAIN ReplyKind = {"PUBLISHED", "SUBSCRIBED", "UNSUBSCRIBED", "RESULT", "REGISTERED", "UNREGISTERED"}
  BY DEF ReplyKind
<1>6. CASE m.type = "GOODBYE"
  <2>1. x = onGoodbye(p)
    BY <1>5, <1>6 DEF onMessage
  <2> QED
    BY <1>1, <1>2, <1>6, <2>1, GoodbyeHeard
<1>7. CASE m.type = "EVENT"
  <2>1. x = onEvent(p, m.about, k)
    BY <1>5, <1>7 DEF onMessage
  <2> QED
    BY <1>2, <1>7, <2>1, EventHeard
<1>8. CASE m.type = "UNREGISTERED" /\ m.request = 0
  <2>1. x = onForcedUnregister(p, m.about)
    BY <1>8 DEF onMessage
  <2>2. x = p /\ Agreed(p, n)
    BY <1>1, <1>2, <1>8, <2>1, TakenBackHeard
  <2> QED
    BY <1>4, <2>2
<1>9. CASE m.type \in DOMAIN ReplyKind /\ ~(m.type = "UNREGISTERED" /\ m.request = 0)
  <2>1. m \in Replying /\ m.type # "ERROR"
    BY <1>1, <1>5, <1>9, Replied
  <2>2. x = onReply(p, ReplyKind[m.type], m)
    BY <1>5, <1>9 DEF onMessage
  <2>3. Agreed(x, n) /\ x.sent = p.sent
    BY <1>2, <2>1, <2>2, ReplyHeard
  <2> QED
    BY <1>4, <2>3
<1>10. CASE m.type = "ERROR"
  <2>1. x = onError(p, m)
    BY <1>5, <1>10 DEF onMessage
  <2>2. Agreed(x, n) /\ x.sent = p.sent
    BY <1>2, <1>10, <2>1, ErrorHeard
  <2> QED
    BY <1>4, <2>2
<1>11. CASE m.type = "INVOCATION"
  <2>1. x = onInvocation(p, m.about, m.request)
    BY <1>5, <1>11 DEF onMessage
  <2>2. Agreed(x, n) /\ x.sent = p.sent
    BY <1>1, <1>2, <1>11, <2>1, InvocationHeard
  <2> QED
    BY <1>4, <2>2
<1>12. CASE m.type = "INTERRUPT"
  <2>1. x = onInterrupt(p, m.about)
    BY <1>5, <1>12 DEF onMessage
  <2> QED
    BY <1>1, <1>2, <1>12, <2>1, InterruptHeard
<1> QED
  BY <1>1, <1>3, <1>6, <1>7, <1>8, <1>9, <1>10, <1>11, <1>12, AnswerKinds

-----------------------------------------------------------------------------
(* The session reads a message of the handshake.                           *)

\* Where the first message finds a session that has not joined.
LEMMA Strange ==
    ASSUME NEW p, NEW q, NEW n, Reads(q, n), Greeted(p, q), ~p.joined, p.welcomes = 0,
           p.challenges = 0, p.transport \in {"open", "closing"}, NEW m, m = Head(q.toClient)
    PROVE  /\ m.type \in Greeting => Unmet(p)
           /\ m.type # "CHALLENGE" => q.phase \notin {"waiting", "challenged"}
           /\ m.type \notin Greeting => p.denied
           /\ m.type = "CHALLENGE" => /\ n.toClient = <<>>
                                      /\ q.phase \in {"challenged", "closing", "out"}
<1>1. 1 \in DOMAIN q.toClient /\ q.toClient[1] = m
  BY ReadRest
<1>2. q.toClient # <<>> /\ q.phase # "waiting"
  BY DEF Reads, Greeted
<1>3. q.phase = "challenged" => m.type = "CHALLENGE"
  BY <1>1, <1>2 DEF Greeted
<1>4. m.type \in Greeting => Unmet(p)
  BY <1>1 DEF Greeted
<1>5. ASSUME ~p.denied, m.type # "WELCOME"
      PROVE  q.phase # "joined" /\ \A k \in DOMAIN q.toClient : q.toClient[k].type \in Greeting
  BY <1>1, <1>5 DEF Greeted, Listening
<1>6. m.type \notin Greeting => p.denied
  BY <1>1, <1>5 DEF Greeting
<1>7. ASSUME m.type = "CHALLENGE"
      PROVE  n.toClient = <<>> /\ q.phase \in {"challenged", "closing", "out"}
  <2>1. ~p.denied
    BY <1>4, <1>7 DEF Greeting, Unmet
  <2>2. q.phase # "joined" /\ \A k \in DOMAIN q.toClient : q.toClient[k].type \in Greeting
    BY <1>5, <1>7, <2>1
  <2>3. q.phase \in {"waiting", "challenged", "joined", "closing", "out"}
    BY DEF Reads, Routed, Routers
  <2>4. \A k \in DOMAIN q.toClient : k = 1
    BY <2>2 DEF Greeted
  <2>5. n.toClient = <<>>
    <3> DEFINE c == q.toClient
    <3>1. c \in Seq(Answers) /\ c # <<>> /\ n.toClient = Tail(c)
      BY DEF Reads, Routed
    <3>2. \A k \in DOMAIN c : k = 1
      BY <2>4
    <3> HIDE DEF c
    <3>3. Len(c) \in DOMAIN c
      BY <3>1
    <3>4. Len(c) = 1
      BY <3>2, <3>3
    <3> QED
      BY <3>1, <3>4
  <2> QED
    BY <1>2, <2>2, <2>3, <2>5
<1> QED
  BY <1>2, <1>3, <1>4, <1>6, <1>7

LEMMA NotRelying ==
    ASSUME NEW m \in Answers, m.type \in Greeting
    PROVE  m \notin Replying /\ m \notin Invoking
BY DEF Greeting, Replying, Invoking, ReplyKind

LEMMA WelcomeHeard ==
    ASSUME NEW p \in Sessions, NEW q, NEW n, Reads(q, n), Agreed(p, q), ~p.joined, p.welcomes = 0,
           p.challenges = 0, p.transport \in {"open", "closing"},
           NEW m, m = Head(q.toClient), m.type = "WELCOME"
    PROVE  LET x == onHandshake(p, m)
           IN  Agreed(x, n) /\ x.sent = p.sent
<1> DEFINE x == [p EXCEPT !.welcomes = 1, !.greeted = p.greeted + 1]
<1>1. onHandshake(p, m) = x
  BY DEF onHandshake
<1>2. /\ Rests(p, x) /\ x.welcomes = 1 /\ x.sent = p.sent /\ x.transport = p.transport
      /\ x.joined = p.joined /\ x.joins = p.joins /\ x.denied = p.denied
      /\ x.challenges = p.challenges
  BY DEF Sessions, Rests
<1> HIDE DEF x
<1>3. m \in Answers /\ m \notin Replying /\ m \notin Invoking /\ m.type \in Greeting
  BY ReadRest, NotRelying DEF Greeting
<1>4. Unmet(p) /\ q.phase \notin {"waiting", "challenged"}
  BY <1>3, Strange DEF Agreed
<1>5. Progress(x) /\ Kept(p, x)
  BY <1>2, <1>4, RestsKept DEF Progress, Unmet, Live
<1>6. Greeted(x, n)
  <2>1. x.transport # "none" /\ ~(x.challenges > 0)
    BY <1>2
  <2> QED
    BY <1>2, <1>4, <1>5, <2>1, GreetedRead DEF Agreed
<1>7. Agreed(x, n)
  <2>1. x.bailedOut = "protocol" => x.denied
    BY <1>2 DEF Agreed, Rests
  <2> QED
    BY <1>2, <1>3, <1>5, <1>6, <2>1, AgreedRead
<1> QED
  BY <1>1, <1>2, <1>7

LEMMA ChallengeHeard ==
    ASSUME NEW p \in Sessions, NEW q, NEW n, Reads(q, n), Agreed(p, q), ~p.joined, p.welcomes = 0,
           p.challenges = 0, p.transport \in {"open", "closing"},
           NEW m, m = Head(q.toClient), m.type = "CHALLENGE"
    PROVE  LET x == onHandshake(p, m)
           IN  Agreed(x, n) /\ x.sent = p.sent
<1> DEFINE x == [p EXCEPT !.challenges = 1, !.greeted = p.greeted + 1]
<1>1. onHandshake(p, m) = x
  BY DEF onHandshake
<1>2. /\ Rests(p, x) /\ x.challenges = 1 /\ x.sent = p.sent /\ x.transport = p.transport
      /\ x.joined = p.joined /\ x.joins = p.joins /\ x.denied = p.denied
      /\ x.welcomes = p.welcomes
  BY DEF Sessions, Rests
<1> HIDE DEF x
<1>3. m \in Answers /\ m \notin Replying /\ m \notin Invoking /\ m.type \in Greeting
  BY ReadRest, NotRelying DEF Greeting
<1>4. Unmet(p) /\ n.toClient = <<>> /\ q.phase \in {"challenged", "closing", "out"}
  BY <1>3, Strange DEF Agreed
<1>5. Progress(x) /\ Kept(p, x)
  BY <1>2, <1>4, RestsKept DEF Progress, Unmet, Live
<1>6. Greeted(x, n)
  <2>1. /\ n.phase = q.phase /\ n.toRouter = q.toRouter /\ q.toClient # <<>>
        /\ n.subs = q.subs /\ n.regs = q.regs /\ n.calls = q.calls /\ n.open = q.open
    BY DEF Reads
  <2>2. \A k \in DOMAIN n.toClient : FALSE
    BY <1>4
  <2>3. n.phase = "challenged" => ~Signed(n) /\ Len(n.toClient) <= 1
    <3>1. n.phase = "challenged" => ~Signed(q)
      BY <2>1 DEF Agreed, Greeted
    <3> QED
      BY <1>4, <2>1, <3>1 DEF Signed
  <2>4. n.phase = "challenged" => n.subs = {} /\ n.regs = {} /\ n.calls = {} /\ n.open = {}
    BY <2>1 DEF Agreed, Greeted
  <2> QED
    BY <1>2, <1>4, <2>1, <2>2, <2>3, <2>4 DEF Greeted, Unmet, Listening
<1>7. Agreed(x, n)
  <2>1. x.bailedOut = "protocol" => x.denied
    BY <1>2 DEF Agreed, Rests
  <2> QED
    BY <1>2, <1>3, <1>5, <1>6, <2>1, AgreedRead
<1> QED
  BY <1>1, <1>2, <1>7

LEMMA AbortHeard ==
    ASSUME NEW p \in Sessions, NEW q, NEW n, Reads(q, n), Agreed(p, q), ~p.joined, p.welcomes = 0,
           p.challenges = 0, p.transport \in {"open", "closing"},
           NEW m, m = Head(q.toClient), m.type = "ABORT"
    PROVE  LET x == onHandshake(p, m)
           IN  Agreed(x, n) /\ x.sent = p.sent
<1> DEFINE x == denySession(p)
<1>1. onHandshake(p, m) = x
  BY DEF onHandshake
<1>2. /\ Gone(p, x) /\ x \in Sessions /\ x.joined = p.joined /\ x.denied
      /\ x.transport = (IF p.transport = "open" THEN "closing" ELSE p.transport)
  BY DenySessionGone
<1> HIDE DEF x
<1>3. m \in Answers /\ m \notin Replying /\ m \notin Invoking /\ m.type \in Greeting
  BY ReadRest, NotRelying DEF Greeting
<1>4. q.phase \notin {"waiting", "challenged"}
  BY Strange DEF Agreed
<1>5. x.transport = "closing" /\ x.welcomes = 0 /\ x.challenges = 0 /\ x.sent = p.sent
  BY <1>2 DEF Gone
<1>6. ~Live(x) /\ ~Listening(x) /\ Progress(x)
  BY <1>2, <1>5 DEF Live, Listening, Progress
<1>7. Kept(p, x)
  BY <1>2, <1>6, GoneKept
<1>8. Greeted(x, n)
  BY <1>4, <1>5, <1>6, GreetedRead DEF Agreed
<1>9. Agreed(x, n)
  BY <1>2, <1>3, <1>5, <1>6, <1>7, <1>8, AgreedRead
<1> QED
  BY <1>1, <1>5, <1>9

LEMMA OtherHeard ==
    ASSUME NEW p \in Sessions, NEW q, NEW n, Reads(q, n), Agreed(p, q), ~p.joined, p.welcomes = 0,
           p.challenges = 0, p.transport \in {"open", "closing"},
           NEW m, m = Head(q.toClient), m.type \notin Greeting
    PROVE  LET x == onHandshake(p, m)
           IN  Agreed(x, n) /\ x.sent = p.sent
<1> DEFINE x == [p EXCEPT !.transport = "deaf", !.bailedOut = "protocol"]
<1>1. onHandshake(p, m) = x
  BY DEF onHandshake, Greeting, bailout
<1>2. /\ x.transport = "deaf" /\ x.sent = p.sent
      /\ x.joined = p.joined /\ x.joins = p.joins /\ x.welcomes = p.welcomes
      /\ x.challenges = p.challenges /\ x.denied = p.denied /\ x.tracked = p.tracked
      /\ x.handlers = p.handlers /\ x.active = p.active /\ x.lastId = p.lastId
      /\ x.registrations = p.registrations /\ x.enabled = p.enabled
      /\ x.invocations = p.invocations /\ x.outstanding = p.outstanding
  BY DEF Sessions
<1> HIDE DEF x
<1>3. p.denied /\ q.phase \notin {"waiting", "challenged"}
  <2>1. m.type # "CHALLENGE"
    BY DEF Greeting
  <2> QED
    BY <2>1, Strange DEF Agreed
<1>4. ~Live(x) /\ ~Listening(x) /\ Progress(x)
  BY <1>2, <1>3 DEF Live, Listening, Progress
<1>5. Kept(p, x)
  BY <1>2, <1>4 DEF Kept
<1>6. Greeted(x, n)
  <2>1. x.transport # "none" /\ ~(x.challenges > 0)
    BY <1>2
  <2> QED
    BY <1>3, <1>4, <2>1, GreetedRead DEF Agreed
<1>7. Agreed(x, n)
  BY <1>2, <1>3, <1>4, <1>5, <1>6, AgreedRead
<1> QED
  BY <1>1, <1>2, <1>7

LEMMA DeliverAgreed ==
    ASSUME Prompt, Whole, Agreed(s, r), Deliver
    PROVE  Agreed(s', r')
<1> DEFINE m == Head(r.toClient)
           z == [r EXCEPT !.toClient = Tail(r.toClient)]
<1>1. /\ Good(begin) /\ Sure(begin) /\ begin \in Sessions /\ Routed(r) /\ Agreed(begin, r)
      /\ begin.sent = <<>> /\ begin.transport = s.transport /\ begin.joined = s.joined
      /\ begin.welcomes = s.welcomes /\ begin.challenges = s.challenges
      /\ begin.lastId = s.lastId /\ begin.handlers = s.handlers
  BY BeginAgreed
<1>2. s' \in Sessions /\ Routed(r')
  BY DeliverStep DEF Whole, Good, Core
<1>3. Reads(r, z)
  <2> DEFINE c == Tail(r.toClient)
  <2>1. c \in Seq(Answers) /\ r.toClient # <<>>
    BY <1>1 DEF Routed, Deliver
  <2>2. Routed(z)
    <3> HIDE DEF c
    <3>1. Routed([r EXCEPT !.toClient = c])
      BY <1>1, <2>1, NotedRouted
    <3> QED
      BY <3>1 DEF c
  <2> QED
    BY <1>1, <2>1, <2>2 DEF Reads, Routed, Routers
<1>4. Writes(z, r', s'.sent)
  BY <1>1 DEF Writes, Deliver, Routed, Routers
<1>5. Receive(m)
  BY DEF Deliver
<1> HIDE DEF z, m
<1>6. PICK k \in 0 .. MaxId :
         /\ k > 0 => s.lastId < MaxId /\ k <= Len(s.handlers[m.about])
         /\ s' = onMessage(begin, m, k)
  BY <1>5 DEF Receive, HasIds
<1>7. begin.transport \in {"open", "closing"} /\ begin.welcomes = 0 /\ begin.challenges = 0
  BY <1>1, <1>5 DEF Receive, HasMessages, HooksDone, Prompt
<1>8. m = Head(r.toClient) /\ k \in Nat /\ Routed(z)
  BY <1>3, <1>6 DEF m, Reads
<1> HIDE DEF begin
<1>9. CASE begin.joined
  <2>1. k > 0 => begin.lastId < MaxId /\ k <= Len(begin.handlers[m.about])
    BY <1>1, <1>6
  <2> QED
    BY <1>1, <1>2, <1>3, <1>4, <1>6, <1>7, <1>8, <1>9, <2>1, JoinedHeard
<1>10. CASE ~begin.joined
  <2> DEFINE x == onHandshake(begin, m)
  <2>1. s' = x
    BY <1>6, <1>10 DEF onMessage
  <2>2. Agreed(x, z) /\ x.sent = begin.sent
    <3>1. m.type \in {"WELCOME", "CHALLENGE", "ABORT"} \/ m.type \notin Greeting
      BY DEF Greeting
    <3>2. CASE m.type = "WELCOME"
      BY <1>1, <1>3, <1>7, <1>8, <1>10, <3>2, WelcomeHeard
    <3>3. CASE m.type = "CHALLENGE"
      BY <1>1, <1>3, <1>7, <1>8, <1>10, <3>3, ChallengeHeard
    <3>4. CASE m.type = "ABORT"
      BY <1>1, <1>3, <1>7, <1>8, <1>10, <3>4, AbortHeard
    <3>5. CASE m.type \notin Greeting
      BY <1>1, <1>3, <1>7, <1>8, <1>10, <3>5, OtherHeard
    <3> QED
      BY <3>1, <3>2, <3>3, <3>4, <3>5
  <2> HIDE DEF x
  <2>3. Spoken(s', z)
    BY <1>1, <2>1, <2>2 DEF Spoken
  <2> QED
    BY <1>2, <1>4, <1>8, <2>1, <2>2, <2>3, SpokenAgreed
<1> QED
  BY <1>9, <1>10

-----------------------------------------------------------------------------
(* The invariant is kept, and says what the properties say.                *)

Agreement == Whole /\ Agreed(s, r)

LEMMA InitAgreed == RealmInit => Agreement
<1> SUFFICES ASSUME RealmInit PROVE Agreed(s, r)
  BY RealmInitWhole DEF Agreement
<1>1. Init /\ Whole
  BY RealmInitWhole
<1>2. /\ s.transport = "none" /\ s.joined = FALSE /\ s.joins = 0 /\ s.welcomes = 0
      /\ s.challenges = 0 /\ s.denied = FALSE /\ s.bailedOut = "no" /\ s.tracked = {}
      /\ s.handlers = [t \in Topics |-> <<>>] /\ s.active = {} /\ s.registrations = {}
      /\ s.enabled = {} /\ s.invocations = {} /\ s.outstanding = [i \in Ids |-> "none"]
  BY <1>1 DEF Init, nothingOutstanding
<1>3. /\ r.phase = "waiting" /\ r.subs = {} /\ r.regs = {} /\ r.calls = {} /\ r.open = {}
      /\ r.invoked = {} /\ r.stray = FALSE /\ r.toRouter = <<>> /\ r.toClient = <<>>
  BY DEF RealmInit
<1>4. (\A k \in DOMAIN r.toClient : FALSE) /\ (\A k \in DOMAIN r.toRouter : FALSE)
  BY <1>3
<1>5. Progress(s) /\ Unmet(s)
  BY <1>2 DEF Progress, Unmet
<1>6. Greeted(s, r)
  BY <1>2, <1>3, <1>4, <1>5 DEF Greeted, Signed
<1>7. Invoked(s, r)
  BY <1>2, <1>3, <1>4 DEF Invoked
<1>8. \A t \in Topics : s.handlers[t] = <<>> /\ \A k \in DOMAIN s.handlers[t] : FALSE
  BY <1>2
<1>9. Listed(s)
  BY <1>2, <1>8 DEF Listed
<1>10. Matched(s, r)
  BY <1>2, <1>3, <1>4 DEF Matched, Kinds
<1>11. Len(r.toClient) = 0 /\ 1 .. 0 = {}
  BY <1>3
<1>12. \A x, ons, offs : ~Stays(r.toClient, Len(r.toClient), x, {}, ons, offs)
  BY <1>11 DEF Stays
<1>13. \A x, uses, ons, offs :
          /\ Synced(r.toClient, x, {}, {}, uses, ons, offs)
          /\ Cleared(r.toClient, x, {}, {}, ons, offs)
  BY <1>4, <1>12 DEF Synced, Cleared
<1>14. Handled(s) = {}
  BY <1>8 DEF Handled
<1>15. Subscribed(s, r)
  BY <1>2, <1>3, <1>13, <1>14 DEF Subscribed
<1>16. Registered(s, r)
  BY <1>2, <1>3, <1>13 DEF Registered
<1> QED
  BY <1>2, <1>5, <1>6, <1>7, <1>9, <1>10, <1>15, <1>16 DEF Agreed

LEMMA NextAgreed ==
    ASSUME Prompt, Agreement, [RealmNext]_<<s, r>>
    PROVE  Agreement'
<1>1. CASE RealmNext
  <2>1. Whole /\ Whole' /\ Agreed(s, r)
    BY <1>1, RealmStep DEF Agreement
  <2>2. s \in Sessions /\ Routed(r)
    BY <2>1 DEF Whole, Good, Core
  <2>3. CASE Handle
    BY <2>2, <2>1, <2>3, HandleAgreed DEF Agreement
  <2>4. CASE Router
    BY <2>2, <2>1, <2>4, RouterAgreed DEF Agreement
  <2>5. CASE Deliver
    BY <2>1, <2>5, DeliverAgreed DEF Agreement
  <2>6. CASE Requesting
    BY <2>1, <2>6, RequestingAgreed DEF Agreement
  <2>7. CASE Cancelling
    BY <2>1, <2>7, CancellingAgreed DEF Agreement
  <2>8. CASE Leaving
    BY <2>1, <2>8, LeavingAgreed DEF Agreement
  <2>9. CASE Finishing
    BY <2>1, <2>9, FinishingAgreed DEF Agreement
  <2>10. CASE Opening
    BY <2>1, <2>10, OpeningAgreed DEF Agreement
  <2>11. CASE Lost
    BY <2>1, <2>11, LostAgreed DEF Agreement
  <2>12. CASE PeerClosed
    BY <2>1, <2>12, PeerClosedAgreed DEF Agreement
  <2> QED
    BY <1>1, <2>3, <2>4, <2>5, <2>6, <2>7, <2>8, <2>9, <2>10, <2>11, <2>12 DEF RealmNext
<1>2. CASE UNCHANGED <<s, r>>
  <2>1. s' = s /\ r' = r
    BY <1>2
  <2> QED
    BY <2>1 DEF Agreement, Whole
<1> QED
  BY <1>1, <1>2

LEMMA ListedIsListed ==
    ASSUME s \in Sessions, Listed(s)
    PROVE  ActiveIsListed
<1> SUFFICES ASSUME NEW i \in Ids
             PROVE  i \in s.active <=>
                      \E t \in Topics : Cardinality({k \in DOMAIN s.handlers[t] : s.handlers[t][k] = i}) = 1
  BY DEF ActiveIsListed
<1> DEFINE at(t) == {k \in DOMAIN s.handlers[t] : s.handlers[t][k] = i}
<1>1. ASSUME i \in s.active
      PROVE  \E t \in Topics : Cardinality(at(t)) = 1
  <2>1. PICK t \in Topics : \E k \in DOMAIN s.handlers[t] : s.handlers[t][k] = i
    BY <1>1 DEF Listed
  <2>2. PICK k \in DOMAIN s.handlers[t] : s.handlers[t][k] = i
    BY <2>1
  <2>3. \A l \in DOMAIN s.handlers[t] : s.handlers[t][l] = i => l = k
    BY <2>2 DEF Listed
  <2>4. at(t) = {k}
    BY <2>2, <2>3
  <2>5. Cardinality({k}) = 1
    BY FS_Singleton
  <2> HIDE DEF at
  <2> QED
    BY <2>4, <2>5
<1>2. ASSUME NEW t \in Topics, Cardinality(at(t)) = 1
      PROVE  i \in s.active
  <2>1. at(t) # {}
    BY <1>2, FS_EmptySet
  <2>2. \E k \in DOMAIN s.handlers[t] : s.handlers[t][k] = i
    BY <2>1
  <2> QED
    BY <2>2 DEF Listed
<1> HIDE DEF at
<1>3. i \in s.active <=> \E t \in Topics : Cardinality(at(t)) = 1
  BY <1>1, <1>2
<1> QED
  BY <1>3 DEF at

\* With nothing under way the two sides know the same.
LEMMA QuietAgrees ==
    ASSUME Agreement, Quiet
    PROVE  /\ Handled(s) = r.subs /\ r.open = s.invocations
           /\ r.regs \subseteq s.registrations
           /\ ~Forced => s.registrations \subseteq r.regs
<1>1. /\ s \in Sessions /\ r \in Routers /\ Agreed(s, r)
  BY DEF Agreement, Whole, Good, Core, Routed
<1>2. /\ s.joined /\ r.phase = "joined" /\ s.transport = "open"
      /\ r.toRouter = <<>> /\ r.toClient = <<>>
  BY DEF Quiet
<1>3. Live(s)
  BY <1>1, <1>2 DEF Live, Agreed, Progress
<1>4. Subscribed(s, r) /\ Registered(s, r) /\ Invoked(s, r)
  BY <1>1, <1>3 DEF Agreed
<1>5. (\A k \in DOMAIN r.toClient : FALSE) /\ (\A k \in DOMAIN r.toRouter : FALSE)
  BY <1>2
<1>6. Len(r.toClient) = 0 /\ 1 .. 0 = {}
  BY <1>2
<1>7. \A x, have, ons, offs : Stays(r.toClient, Len(r.toClient), x, have, ons, offs) <=> x \in have
  BY <1>6 DEF Stays
<1>8. \A x, known, have, uses, ons, offs :
         /\ Synced(r.toClient, x, known, have, uses, ons, offs) => (x \in known => x \in have)
         /\ Cleared(r.toClient, x, known, have, ons, offs) => (x \in have => x \in known)
  BY <1>7 DEF Synced, Cleared
<1>9. Asked(r) = {}
  BY <1>5 DEF Asked
<1>10. \A t \in Topics : t \in r.subs <=> t \in Handled(s)
  <2> SUFFICES ASSUME NEW t \in Topics PROVE t \in r.subs <=> t \in Handled(s)
    OBVIOUS
  <2>1. /\ Synced(r.toClient, t, r.subs \ Asked(r), Handled(s), {}, Subscribing(t), Unsubscribing(s, t))
        /\ Cleared(r.toClient, t, r.subs, Handled(s), Subscribing(t), Unsubscribing(s, t))
    BY <1>2, <1>4 DEF Subscribed
  <2>2. t \in r.subs \ Asked(r) => t \in Handled(s)
    BY <1>8, <2>1
  <2>3. t \in Handled(s) => t \in r.subs
    BY <1>8, <2>1
  <2> QED
    BY <1>9, <2>2, <2>3
<1>11. \A g \in Ids : /\ g \in r.regs => g \in s.registrations
                      /\ ~Forced => (g \in s.registrations => g \in r.regs)
  <2> SUFFICES ASSUME NEW g \in Ids
               PROVE  /\ g \in r.regs => g \in s.registrations
                      /\ ~Forced => (g \in s.registrations => g \in r.regs)
    OBVIOUS
  <2>1. /\ Synced(r.toClient, g, r.regs, s.registrations, Uses(g), Registering(g), Unregistering(s, g))
        /\ ~Forced =>
             Cleared(r.toClient, g, r.regs, s.registrations, Registering(g), Unregistering(s, g))
    BY <1>4 DEF Registered
  <2> QED
    BY <1>8, <2>1
<1>12. Handled(s) = r.subs
  BY <1>1, <1>10 DEF Handled, Routers
<1>13. r.open = s.invocations
  BY <1>2, <1>4, <1>5 DEF Invoked
<1>14. r.regs \subseteq s.registrations /\ (~Forced => s.registrations \subseteq r.regs)
  BY <1>1, <1>11 DEF Routers, Sessions
<1> QED
  BY <1>12, <1>13, <1>14

-----------------------------------------------------------------------------
(* Theorems.                                                               *)

\* The invariant.
LEMMA AlwaysAgreed ==
    ASSUME Prompt
    PROVE  RealmSpec => []Agreement
<1>1. RealmInit => Agreement
  BY InitAgreed
<1>2. Agreement /\ [RealmNext]_<<s, r>> => Agreement'
  BY NextAgreed
<1> QED
  BY <1>1, <1>2, PTL DEF RealmSpec

\* A router that keeps to the protocol is never accused of breaking it (onMessage
\* raises no ProtocolError), for any number of topics, requests and invocations and
\* however the messages of the two cross, when hooks are done at once and only calls
\* and publications are cancelled; also when the router takes registrations back.
THEOREM RealmNoProtocolError ==
    ASSUME Prompt
    PROVE  RealmSpec => []NoProtocolError
<1>1. Agreement => NoProtocolError
  BY DEF Agreement, Agreed, NoProtocolError
<1> QED
  BY <1>1, AlwaysAgreed, PTL

\* With nothing under way the session's handlers, registrations and invocations are
\* the broker's and dealer's, no invocation is answered twice, and an active
\* subscription object is in one dispatch list, once.  A router that takes a
\* registration back is left out: the session only logs that.
THEOREM RealmAgrees ==
    ASSUME Prompt, ~Forced
    PROVE  RealmSpec => []SessionAndRouterAgree
<1>1. ASSUME Agreement
      PROVE  SessionAndRouterAgree
  <2>1. s \in Sessions /\ Listed(s) /\ Invoked(s, r)
    BY <1>1 DEF Agreement, Agreed, Whole, Good, Core
  <2>2. ActiveIsListed /\ OneAnswerPerInvocation
    BY <2>1, ListedIsListed DEF Invoked, OneAnswerPerInvocation
  <2>3. SubscriptionsAgree
    BY <1>1, QuietAgrees DEF SubscriptionsAgree, Handled
  <2>4. RegistrationsAgree
    <3> SUFFICES ASSUME Quiet PROVE s.enabled = r.regs
      BY DEF RegistrationsAgree
    <3>1. s.enabled = s.registrations
      BY <2>1 DEF Listed
    <3>2. r.regs \subseteq s.registrations /\ s.registrations \subseteq r.regs
      BY <1>1, QuietAgrees
    <3> QED
      BY <3>1, <3>2
  <2>5. InvocationsAgree
    BY <1>1, QuietAgrees DEF InvocationsAgree
  <2> QED
    BY <2>2, <2>3, <2>4, <2>5 DEF SessionAndRouterAgree
<1>2. Agreement => SessionAndRouterAgree
  BY <1>1
<1> QED
  BY <1>2, AlwaysAgreed, PTL
=============================================================================
