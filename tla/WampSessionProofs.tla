------------------------- MODULE WampSessionProofs -------------------------
(***************************************************************************)
(* Proofs about WampSession: against every router, for both Session        *)
(* classes, synchronous and asynchronous hooks and any number of requests. *)
(*                                                                         *)
(* Core is the inductive invariant, Emptied what a lost transport adds to  *)
(* it, Keeps what a step owes to answered requests.  One lemma per method, *)
(* then one step per action.                                               *)
(***************************************************************************)
EXTENDS WampSession, TLAPS

Done == {"resolved", "rejected", "cancelled"}

\* Ids not used yet have no request.
Fresh(p) == \A i \in Ids : i > p.lastId => p.reply[i] = "none" /\ p.outstanding[i] = "none"

\* PendingIsOutstanding, of a session.
Waiting(p) ==
    \A i \in Ids : p.reply[i] = "pending" => p.outstanding[i] # "none" \/ p.bailedOut = "protocol"

\* JoinsAndLeavesPaired, and that a synchronous onWelcome is done at once.
Paired(p) ==
    ~AsyncHooks =>
        /\ p.joins = p.leaves + (IF p.joined THEN 1 ELSE 0)
        /\ p.welcomes > 0 =>
             p.welcomes = 1 /\ ~p.joined /\ p.transport \in {"open", "closing"}

Core(p) ==
    /\ p \in Sessions /\ Fresh(p) /\ Waiting(p) /\ Paired(p)
    /\ p.bailedOut # "no" => p.transport \in {"deaf", "lost"}

Emptied(p) ==
    ~Shim /\ p.transport = "lost" => \A i \in Ids : p.outstanding[i] = "none"

Good(p) == Core(p) /\ Emptied(p)

\* An answer given is not touched again.
Keeps(p, q) == \A i \in Ids : p.reply[i] \in Done => q.reply[i] = p.reply[i]

\* q agrees with p on what Paired speaks of.
Alike(p, q) ==
    /\ q.joins = p.joins /\ q.leaves = p.leaves /\ q.joined = p.joined
    /\ q.welcomes = p.welcomes

\* q agrees with p on all that Good speaks of.
Same(p, q) ==
    /\ Alike(p, q) /\ q.transport = p.transport /\ q.lastId = p.lastId
    /\ q.outstanding = p.outstanding /\ q.reply = p.reply /\ q.bailedOut = p.bailedOut

LEMMA SameCore ==
    ASSUME NEW p, Core(p), NEW q \in Sessions, Same(p, q)
    PROVE  Core(q) /\ Keeps(p, q) /\ (Emptied(p) => Emptied(q))
BY DEF Core, Fresh, Waiting, Paired, Emptied, Keeps, Same, Alike

LEMMA SameGood ==
    ASSUME NEW p, Good(p), NEW q \in Sessions, Same(p, q)
    PROVE  Good(q) /\ Keeps(p, q)
BY SameCore DEF Good

-----------------------------------------------------------------------------
(* Messages and the transport.                                             *)

LEMMA MessageTyped ==
    /\ \A type \in Types, i \in Ids \cup {0}, about \in Targets :
            Message(type, i, about) \in Messages
    /\ \A kind \in Kinds, i \in Ids : Error(kind, i) \in Messages
BY DEF Message, Error, Messages, Types, Targets

LEMMA SendGood ==
    ASSUME NEW p, Good(p), NEW m \in Messages
    PROVE  /\ Good(send(p, m)) /\ Same(p, send(p, m))
           /\ Good(trySend(p, m)) /\ Same(p, trySend(p, m))
<1> DEFINE x == Append(p.sent, m)
<1>0. p \in Sessions /\ x \in Seq(Messages)
  <2>1. p \in Sessions /\ p.sent \in Seq(Messages)
    BY DEF Good, Core, Sessions
  <2> DEFINE sent == p.sent
  <2> HIDE DEF sent
  <2>2. sent \in Seq(Messages)
    BY <2>1 DEF sent
  <2>3. Append(sent, m) \in Seq(Messages)
    BY <2>2
  <2> QED
    BY <2>1, <2>3 DEF sent
<1>1. send(p, m) \in Sessions
  <2>1. send(p, m) = [p EXCEPT !.sent = x]
    BY <1>0 DEF send
  <2> HIDE DEF x
  <2>2. [p EXCEPT !.sent = x] \in Sessions
    BY <1>0, Zenon DEF Sessions
  <2> QED
    BY <2>1, <2>2
<1>2. Same(p, send(p, m)) /\ Same(p, p)
  BY DEF send, Good, Core, Sessions, Same, Alike
<1> QED
  BY <1>1, <1>2, SameGood DEF trySend

LEMMA DisconnectCore ==
    ASSUME NEW p, Core(p)
    PROVE  /\ Core(disconnect(p)) /\ Keeps(p, disconnect(p)) /\ Alike(p, disconnect(p))
           /\ Emptied(p) => Emptied(disconnect(p))
           /\ p.transport = "lost" => disconnect(p).transport = "lost"
<1>1. CASE p.transport # "open"
  BY <1>1 DEF disconnect, Keeps, Alike
<1>2. CASE p.transport = "open"
  <2> DEFINE q == disconnect(p)
  <2>1. q \in Sessions
    BY <1>2 DEF disconnect, Core, Sessions
  <2>2. /\ q.transport = "closing" /\ Alike(p, q) /\ q.lastId = p.lastId
        /\ q.outstanding = p.outstanding /\ q.reply = p.reply /\ q.bailedOut = p.bailedOut
    BY <1>2 DEF disconnect, Core, Sessions, Alike
  <2> HIDE DEF q
  <2> QED
    BY <1>2, <2>1, <2>2 DEF Core, Fresh, Waiting, Paired, Emptied, Keeps, Alike, q
<1> QED
  BY <1>1, <1>2

\* A session that fails its transport had not failed it before.
LEMMA BailoutGood ==
    ASSUME NEW p, Good(p), p.transport \in {"open", "closing"},
           ~AsyncHooks => p.welcomes = 0, NEW why \in {"protocol", "internal"}
    PROVE  Good(bailout(p, why)) /\ Keeps(p, bailout(p, why))
<1> DEFINE q == bailout(p, why)
<1>1. q \in Sessions
  BY DEF bailout, Good, Core, Sessions
<1>2. /\ q.transport = "deaf" /\ Alike(p, q) /\ q.lastId = p.lastId
      /\ q.outstanding = p.outstanding /\ q.reply = p.reply /\ q.bailedOut = why
  BY DEF bailout, Good, Core, Sessions, Alike
<1>3. p.bailedOut = "no"
  BY DEF Good, Core, Sessions
<1> HIDE DEF q
<1> QED
  BY <1>1, <1>2, <1>3 DEF Good, Core, Fresh, Waiting, Paired, Emptied, Keeps, Alike, q

-----------------------------------------------------------------------------
(* The end of the session.                                                 *)

LEMMA ErrbackCore ==
    ASSUME NEW p, Core(p)
    PROVE  LET q == errbackOutstandingRequests(p)
           IN  /\ Core(q) /\ Emptied(q) /\ Keeps(p, q) /\ Alike(p, q)
               /\ q.transport = p.transport
<1> DEFINE q == errbackOutstandingRequests(p)
           given == [i \in Ids |-> IF p.outstanding[i] # "none" /\ p.reply[i] = "pending"
                                   THEN "rejected" ELSE p.reply[i]]
<1>1. p.reply \in [Ids -> {"none", "pending", "resolved", "rejected", "cancelled"}]
  BY DEF Core, Sessions
<1>2. /\ q.outstanding = nothingOutstanding /\ q.reply = given /\ Alike(p, q)
      /\ q.transport = p.transport /\ q.lastId = p.lastId /\ q.bailedOut = p.bailedOut
  BY DEF errbackOutstandingRequests, Core, Sessions, Alike
<1>3. /\ given \in [Ids -> {"none", "pending", "resolved", "rejected", "cancelled"}]
      /\ nothingOutstanding \in [Ids -> Kinds \cup {"none"}]
  BY <1>1 DEF nothingOutstanding
<1>4. q = [p EXCEPT !.outstanding = nothingOutstanding, !.reply = given]
  BY DEF errbackOutstandingRequests, Core, Sessions
<1>5. q \in Sessions
  <2> HIDE DEF given, q
  <2> QED
    BY <1>3, <1>4 DEF Core, Sessions
<1>6. \A i \in Ids : q.outstanding[i] = "none" /\ q.reply[i] = given[i]
  BY <1>2 DEF nothingOutstanding
<1> HIDE DEF q
<1>7. Fresh(q) /\ Waiting(q) /\ Keeps(p, q)
  BY <1>1, <1>2, <1>6 DEF Core, Fresh, Waiting, Keeps, Done
<1> QED
  BY <1>2, <1>5, <1>6, <1>7 DEF Core, Paired, Emptied, Alike, q

LEMMA OnLeaveCore ==
    ASSUME NEW p, Core(p)
    PROVE  LET q == onLeave(p)
           IN  /\ Core(q) /\ Keeps(p, q) /\ Alike(p, q)
               /\ Emptied(p) => Emptied(q)
               /\ p.transport = "lost" => q.transport = "lost"
<1>1. CASE Shim
  BY <1>1, DisconnectCore DEF onLeave
<1>2. CASE ~Shim
  BY <1>2, ErrbackCore, DisconnectCore DEF onLeave, Keeps, Done, Alike
<1> QED
  BY <1>1, <1>2

LEMMA LeaveSessionCore ==
    ASSUME NEW p, Core(p), p.joined
    PROVE  LET q == leaveSession(p)
           IN  /\ Core(q) /\ Keeps(p, q)
               /\ Emptied(p) => Emptied(q)
               /\ p.transport = "lost" => q.transport = "lost"
<1> DEFINE n == p.leaves + 1
           l == [p EXCEPT !.joined = FALSE, !.leaves = @ + 1]
<1>0. p \in Sessions /\ n \in Nat /\ l = [p EXCEPT !.joined = FALSE, !.leaves = n]
  BY DEF Core, Sessions
<1>1. l \in Sessions
  <2> HIDE DEF n, l
  <2>1. [p EXCEPT !.joined = FALSE, !.leaves = n] \in Sessions
    BY <1>0 DEF Sessions
  <2> QED
    BY <1>0, <2>1
<1>2. /\ l.joined = FALSE /\ l.leaves = p.leaves + 1 /\ l.joins = p.joins
      /\ l.welcomes = p.welcomes /\ l.transport = p.transport /\ l.lastId = p.lastId
      /\ l.outstanding = p.outstanding /\ l.reply = p.reply /\ l.bailedOut = p.bailedOut
  BY DEF Core, Sessions
<1>3. p.leaves \in Nat
  BY DEF Core, Sessions
<1>4. leaveSession(p) = onLeave(l)
  BY DEF leaveSession
<1> HIDE DEF l
<1>5. Core(l) /\ (Emptied(p) => Emptied(l)) /\ Keeps(p, l)
  BY <1>1, <1>2, <1>3 DEF Core, Fresh, Waiting, Paired, Emptied, Keeps
<1> QED
  BY <1>2, <1>4, <1>5, OnLeaveCore DEF Keeps, Done

LEMMA DenySessionGood ==
    ASSUME NEW p, Good(p)
    PROVE  Good(denySession(p)) /\ Keeps(p, denySession(p))
<1> DEFINE d == [p EXCEPT !.denied = TRUE]
<1>1. d \in Sessions /\ Same(p, d)
  BY DEF Good, Core, Sessions, Same, Alike
<1>2. denySession(p) = onLeave(d)
  BY DEF denySession
<1> HIDE DEF d
<1>3. Good(d) /\ Keeps(p, d)
  BY <1>1, SameGood
<1> QED
  BY <1>2, <1>3, OnLeaveCore DEF Good, Keeps, Done

LEMMA OnCloseGood ==
    ASSUME NEW p, Good(p), ~AsyncHooks => p.welcomes = 0
    PROVE  Good(onClose(p)) /\ Keeps(p, onClose(p))
<1> DEFINE lost == [p EXCEPT !.transport = "lost"]
           left == IF p.joined THEN leaveSession(lost) ELSE lost
<1>1. lost \in Sessions
  BY DEF Good, Core, Sessions
<1>2. /\ lost.transport = "lost" /\ Alike(p, lost) /\ lost.lastId = p.lastId
      /\ lost.outstanding = p.outstanding /\ lost.reply = p.reply
      /\ lost.bailedOut = p.bailedOut
  BY DEF Good, Core, Sessions, Alike
<1>3. onClose(p) = onDisconnect(left)
  BY <1>2 DEF onClose, Alike
<1> HIDE DEF lost
<1>4. Core(lost) /\ Keeps(p, lost) /\ lost.joined = p.joined
  BY <1>1, <1>2 DEF Good, Core, Fresh, Waiting, Paired, Keeps, Alike
<1>5. Core(left) /\ Keeps(p, left) /\ left.transport = "lost"
  BY <1>2, <1>4, LeaveSessionCore DEF Keeps, Done
<1> HIDE DEF left
<1>6. CASE Shim
  BY <1>3, <1>5, <1>6 DEF onDisconnect, Good, Emptied
<1>7. CASE ~Shim
  BY <1>3, <1>5, <1>7, ErrbackCore DEF onDisconnect, Good, Keeps, Done
<1> QED
  BY <1>6, <1>7

-----------------------------------------------------------------------------
(* Requests.                                                               *)

LEMMA KeepsOnward ==
    ASSUME NEW p, NEW q, NEW r, Keeps(p, q), Keeps(q, r)
    PROVE  Keeps(p, r)
BY DEF Keeps, Done

\* A new request has the next id, which no reply and no entry has yet.
LEMMA RequestGood ==
    ASSUME NEW p, Good(p), p.lastId < MaxId, p.transport \in {"open", "closing", "deaf"},
           NEW kind \in Kinds, NEW target \in Targets
    PROVE  Good(request(p, kind, target)) /\ Keeps(p, request(p, kind, target))
<1> DEFINE id == p.lastId + 1
           outstanding == [p.outstanding EXCEPT ![id] = kind]
           about == [p.about EXCEPT ![id] = target]
           reply == [p.reply EXCEPT ![id] = "pending"]
           counted == [p EXCEPT !.lastId = id]
           entered == [p EXCEPT !.lastId = id, !.outstanding[id] = kind,
                                !.about[id] = target, !.reply[id] = "pending"]
           m == Message(Verb[kind], id, target)
<1>1. p \in Sessions /\ p.lastId \in Nat /\ id \in Nat
  BY DEF Good, Core, Sessions
<1>2. id \in Ids
  BY <1>1, SessionAssumption DEF Ids
<1>3. /\ outstanding \in [Ids -> Kinds \cup {"none"}] /\ about \in [Ids -> Targets]
      /\ reply \in [Ids -> {"none", "pending", "resolved", "rejected", "cancelled"}]
  BY <1>1, <1>2 DEF Sessions
<1>4. m \in Messages
  BY <1>2, MessageTyped DEF Verb, Kinds, Types
<1>5. entered = [p EXCEPT !.lastId = id, !.outstanding = outstanding,
                          !.about = about, !.reply = reply]
  BY <1>1 DEF Sessions
<1>6. entered \in Sessions /\ counted \in Sessions
  <2> HIDE DEF id, outstanding, about, reply, entered
  <2>1. [p EXCEPT !.lastId = id, !.outstanding = outstanding,
                  !.about = about, !.reply = reply] \in Sessions
    BY <1>1, <1>3 DEF Sessions
  <2>2. counted \in Sessions
    BY <1>1 DEF Sessions
  <2> QED
    BY <1>5, <2>1, <2>2
<1>7. /\ Alike(p, entered) /\ entered.transport = p.transport /\ entered.lastId = id
      /\ entered.outstanding = outstanding /\ entered.reply = reply
      /\ entered.bailedOut = p.bailedOut
      /\ Alike(p, counted) /\ counted.transport = p.transport /\ counted.lastId = id
      /\ counted.outstanding = p.outstanding /\ counted.reply = p.reply
      /\ counted.bailedOut = p.bailedOut
  <2> HIDE DEF id, outstanding, about, reply, entered
  <2> QED
    BY <1>1, <1>5 DEF Sessions, Alike
<1>8. /\ \A i \in Ids : /\ outstanding[i] = IF i = id THEN kind ELSE p.outstanding[i]
                        /\ reply[i] = IF i = id THEN "pending" ELSE p.reply[i]
      /\ p.reply[id] = "none"
  BY <1>1, <1>2 DEF Good, Core, Fresh, Sessions
<1>9. kind # "none" /\ (\A i \in Ids : i > id => i > p.lastId /\ i # id)
  BY <1>1 DEF Kinds, Ids
<1>10. /\ canSend(p) => request(p, kind, target) = send(entered, m)
       /\ ~canSend(p) => request(p, kind, target) \in {entered, counted}
  BY DEF request
<1> HIDE DEF id, outstanding, reply, entered, counted, m
<1>11. Good(entered) /\ Keeps(p, entered)
  BY <1>6, <1>7, <1>8, <1>9
     DEF Good, Core, Fresh, Waiting, Paired, Emptied, Keeps, Alike, Done
<1>12. Good(counted) /\ Keeps(p, counted)
  BY <1>6, <1>7, <1>9 DEF Good, Core, Fresh, Waiting, Paired, Emptied, Keeps, Alike
<1>13. Good(send(entered, m)) /\ Keeps(p, send(entered, m))
  BY <1>4, <1>11, SendGood DEF Keeps, Same
<1> QED
  BY <1>10, <1>11, <1>12, <1>13

\* One entry of a list of handlers is taken out.
LEMMA WithoutTyped ==
    ASSUME NEW h \in Seq(Ids), NEW k \in 1 .. Len(h)
    PROVE  SubSeq(h, 1, k - 1) \o SubSeq(h, k + 1, Len(h)) \in Seq(Ids) /\ h[k] \in Ids
<1>1. SubSeq(h, 1, k - 1) \in Seq(Ids)
  OBVIOUS
<1>2. SubSeq(h, k + 1, Len(h)) \in Seq(Ids)
  OBVIOUS
<1> QED
  BY <1>1, <1>2

LEMMA UnsubscribeGood ==
    ASSUME NEW p, Good(p), p.lastId < MaxId, p.transport \in {"open", "closing", "deaf"},
           NEW topic \in Topics, NEW k \in 1 .. Len(p.handlers[topic])
    PROVE  Good(unsubscribe(p, topic, k)) /\ Keeps(p, unsubscribe(p, topic, k))
<1> DEFINE h == p.handlers[topic]
           id == h[k]
           rest == SubSeq(h, 1, k - 1) \o SubSeq(h, k + 1, Len(h))
           handlers == [p.handlers EXCEPT ![topic] = rest]
           active == p.active \ {id}
           released == p.released \cup {id}
           q == [p EXCEPT !.handlers = handlers, !.active = active, !.released = released]
<1>1. p \in Sessions /\ h \in Seq(Ids)
  BY DEF Good, Core, Sessions
<1>2. rest \in Seq(Ids) /\ id \in Ids
  BY <1>1, WithoutTyped
<1>3. handlers \in [Topics -> Seq(Ids)] /\ active \subseteq Ids /\ released \subseteq Ids
  <2> HIDE DEF rest, id
  <2> QED
    BY <1>1, <1>2 DEF Sessions
<1>4. unsubscribe(p, topic, k)
        = IF Len(q.handlers[topic]) = 0 THEN request(q, "unsubscribe", topic) ELSE q
  BY <1>1 DEF unsubscribe, Sessions
<1> HIDE DEF handlers, active, released
<1>5. q \in Sessions /\ Same(p, q)
  BY <1>1, <1>3 DEF Sessions, Same, Alike
<1> HIDE DEF q
<1>6. Good(q) /\ Keeps(p, q) /\ q.lastId < MaxId /\ q.transport \in {"open", "closing", "deaf"}
  BY <1>5, SameGood DEF Same
<1>7. "unsubscribe" \in Kinds /\ topic \in Targets
  BY DEF Kinds, Targets
<1>8. Good(request(q, "unsubscribe", topic)) /\ Keeps(p, request(q, "unsubscribe", topic))
  BY <1>6, <1>7, RequestGood, KeepsOnward
<1> QED
  BY <1>4, <1>6, <1>8

\* A reply that is pending is settled, another is left alone; the entry of the
\* request may go in either case.
LEMMA SettleGood ==
    ASSUME NEW p, Good(p), NEW i \in Ids, NEW q \in Sessions,
           Alike(p, q), q.transport = p.transport, q.lastId = p.lastId,
           q.bailedOut = p.bailedOut,
           q.outstanding \in {p.outstanding, [p.outstanding EXCEPT ![i] = "none"]},
           \/ p.reply[i] # "pending" /\ q.reply = p.reply
           \/ /\ p.reply[i] = "pending"
              /\ \E answer \in Done : q.reply = [p.reply EXCEPT ![i] = answer]
    PROVE  Good(q) /\ Keeps(p, q)
<1>1. /\ p.outstanding \in [Ids -> Kinds \cup {"none"}]
      /\ p.reply \in [Ids -> {"none", "pending", "resolved", "rejected", "cancelled"}]
  BY DEF Good, Core, Sessions
<1>2. \A j \in Ids : /\ j # i => q.outstanding[j] = p.outstanding[j] /\ q.reply[j] = p.reply[j]
                     /\ q.outstanding[j] \in {p.outstanding[j], "none"}
  BY <1>1
<1>3. \/ p.reply[i] # "pending" /\ q.reply[i] = p.reply[i]
      \/ p.reply[i] = "pending" /\ q.reply[i] \in Done
  BY <1>1
<1>4. Fresh(q)
  BY <1>2, <1>3 DEF Good, Core, Fresh, Done
<1>5. Waiting(q) /\ Keeps(p, q)
  BY <1>2, <1>3 DEF Good, Core, Waiting, Keeps, Done
<1> QED
  BY <1>2, <1>4, <1>5 DEF Good, Core, Paired, Emptied, Alike

-----------------------------------------------------------------------------
(* Replies of the router.                                                  *)

LEMMA AnsweredGood ==
    ASSUME NEW p, Good(p), NEW i \in Ids
    PROVE  LET q == answered(p, i)
           IN  /\ q \in Sessions /\ Alike(p, q) /\ q.transport = p.transport
               /\ q.lastId = p.lastId /\ q.bailedOut = p.bailedOut /\ q.reply = p.reply
               /\ q.outstanding = [p.outstanding EXCEPT ![i] = "none"]
               /\ q.tracked = p.tracked /\ q.handlers = p.handlers
               /\ q.registrations = p.registrations /\ q.about = p.about
               /\ p.reply[i] # "pending" => Good(q) /\ Keeps(p, q)
<1> DEFINE q == answered(p, i)
           outstanding == [p.outstanding EXCEPT ![i] = "none"]
<1>1. p \in Sessions /\ outstanding \in [Ids -> Kinds \cup {"none"}]
  BY DEF Good, Core, Sessions
<1>2. q = [p EXCEPT !.outstanding = outstanding]
  BY <1>1 DEF answered, Sessions
<1>3. /\ q \in Sessions /\ Alike(p, q) /\ q.transport = p.transport
      /\ q.lastId = p.lastId /\ q.bailedOut = p.bailedOut /\ q.reply = p.reply
      /\ q.outstanding = outstanding
      /\ q.tracked = p.tracked /\ q.handlers = p.handlers
      /\ q.registrations = p.registrations /\ q.about = p.about
  <2> HIDE DEF outstanding, q
  <2> QED
    BY <1>1, <1>2 DEF Sessions, Alike
<1> HIDE DEF q
<1>4. p.reply[i] # "pending" => Good(q) /\ Keeps(p, q)
  BY <1>3, SettleGood
<1> QED
  BY <1>3, <1>4 DEF q

Settled(x, i, answer) == [x EXCEPT !.reply[i] = answer]

\* What a reply changes besides the entry and the future is none of Good's concern.
LEMMA SettledGood ==
    ASSUME NEW p, Good(p), NEW i \in Ids, p.reply[i] = "pending",
           NEW x \in Sessions, Same(answered(p, i), x), NEW answer \in Done
    PROVE  Good(Settled(x, i, answer)) /\ Keeps(p, Settled(x, i, answer))
<1> DEFINE a == answered(p, i)
           q == Settled(x, i, answer)
           reply == [x.reply EXCEPT ![i] = answer]
<1>1. reply \in [Ids -> {"none", "pending", "resolved", "rejected", "cancelled"}]
  BY DEF Sessions, Done
<1>2. q = [x EXCEPT !.reply = reply]
  BY DEF Settled, Sessions
<1>3. /\ q \in Sessions /\ Alike(x, q) /\ q.transport = x.transport
      /\ q.lastId = x.lastId /\ q.bailedOut = x.bailedOut
      /\ q.outstanding = x.outstanding /\ q.reply = reply
  <2> HIDE DEF reply, q
  <2> QED
    BY <1>1, <1>2 DEF Sessions, Alike
<1>4. /\ Alike(p, a) /\ a.transport = p.transport
      /\ a.lastId = p.lastId /\ a.bailedOut = p.bailedOut /\ a.reply = p.reply
      /\ a.outstanding = [p.outstanding EXCEPT ![i] = "none"]
  BY AnsweredGood
<1>5. Same(a, x)
  OBVIOUS
<1> HIDE DEF q, a
<1>6. /\ Alike(p, q) /\ q.transport = p.transport /\ q.lastId = p.lastId
      /\ q.bailedOut = p.bailedOut /\ q.reply = [p.reply EXCEPT ![i] = answer]
      /\ q.outstanding = [p.outstanding EXCEPT ![i] = "none"]
  BY <1>3, <1>4, <1>5 DEF Same, Alike
<1>7. Good(q) /\ Keeps(p, q)
  BY <1>3, <1>6, SettleGood
<1> QED
  BY <1>7 DEF q

LEMMA OnSubscribedGood ==
    ASSUME NEW p, Good(p), NEW i \in Ids, p.reply[i] = "pending", NEW topic \in Topics
    PROVE  LET q == onSubscribed(answered(p, i), i, topic) IN Good(q) /\ Keeps(p, q)
<1> DEFINE a == answered(p, i)
           old == IF topic \in a.tracked THEN a.handlers[topic] ELSE <<>>
           new == Append(old, i)
           tracked == a.tracked \cup {topic}
           handlers == [a.handlers EXCEPT ![topic] = new]
           active == a.active \cup {i}
           x == [a EXCEPT !.tracked = tracked, !.handlers = handlers, !.active = active]
<1>1. a \in Sessions
  BY AnsweredGood
<1>2. onSubscribed(a, i, topic) = Settled(x, i, "resolved")
  BY <1>1 DEF onSubscribed, resolve, Settled, Sessions
<1> HIDE DEF a
<1>3. new \in Seq(Ids)
  BY <1>1 DEF Sessions
<1> HIDE DEF new
<1>4. handlers \in [Topics -> Seq(Ids)] /\ tracked \subseteq Topics /\ active \subseteq Ids
  BY <1>1, <1>3 DEF Sessions
<1> HIDE DEF handlers, tracked, active
<1>5. x \in Sessions /\ Same(a, x)
  BY <1>1, <1>4 DEF Sessions, Same, Alike
<1> HIDE DEF x
<1> QED
  BY <1>2, <1>5, SettledGood DEF a, Done

LEMMA OnUnsubscribedGood ==
    ASSUME NEW p, Good(p), NEW i \in Ids, p.reply[i] = "pending"
    PROVE  LET q == onUnsubscribed(answered(p, i), i) IN Good(q) /\ Keeps(p, q)
<1> DEFINE a == answered(p, i)
           topic == a.about[i]
           gone == {a.handlers[topic][k] : k \in 1 .. Len(a.handlers[topic])}
           tracked == a.tracked \ {topic}
           handlers == [a.handlers EXCEPT ![topic] = <<>>]
           active == a.active \ gone
           y == [a EXCEPT !.tracked = tracked, !.handlers = handlers, !.active = active]
           x == IF topic \notin a.tracked THEN a ELSE y
<1>1. a \in Sessions
  BY AnsweredGood
<1>2. onUnsubscribed(a, i) = Settled(x, i, "resolved")
  BY <1>1 DEF onUnsubscribed, resolve, Settled, Sessions
<1> HIDE DEF a, gone, topic
<1>3. handlers \in [Topics -> Seq(Ids)] /\ tracked \subseteq Topics /\ active \subseteq Ids
  <2>1. <<>> \in Seq(Ids)
    OBVIOUS
  <2>2. a.handlers \in [Topics -> Seq(Ids)] /\ a.tracked \subseteq Topics /\ a.active \subseteq Ids
    BY <1>1 DEF Sessions
  <2> QED
    BY <2>1, <2>2
<1> HIDE DEF handlers, tracked, active
<1>4. y \in Sessions /\ Same(a, y) /\ Same(a, a)
  BY <1>1, <1>3 DEF Sessions, Same, Alike
<1> HIDE DEF y
<1>5. x \in Sessions /\ Same(a, x)
  BY <1>1, <1>4
<1> HIDE DEF x
<1> QED
  BY <1>2, <1>5, SettledGood DEF a, Done

\* A registration id the session has already: the request has lost its entry and
\* keeps its future, and the transport is failed.
LEMMA OnRegisteredGood ==
    ASSUME NEW p, Good(p), NEW i \in Ids, p.reply[i] = "pending", NEW registration \in Ids,
           p.transport \in {"open", "closing"}, ~AsyncHooks => p.welcomes = 0
    PROVE  LET q == onRegistered(answered(p, i), i, registration) IN Good(q) /\ Keeps(p, q)
<1> DEFINE a == answered(p, i)
           registrations == a.registrations \cup {registration}
           enabled == a.enabled \cup {registration}
           x == [a EXCEPT !.registrations = registrations, !.enabled = enabled]
           b == bailout(a, "protocol")
<1>1. /\ a \in Sessions /\ Alike(p, a) /\ a.transport = p.transport
      /\ a.lastId = p.lastId /\ a.reply = p.reply
      /\ a.outstanding = [p.outstanding EXCEPT ![i] = "none"]
  BY AnsweredGood
<1>2. onRegistered(a, i, registration)
        = IF registration \in a.registrations THEN b ELSE Settled(x, i, "resolved")
  BY <1>1 DEF onRegistered, resolve, Settled, Sessions
<1> HIDE DEF a
<1>3. registrations \subseteq Ids /\ enabled \subseteq Ids
  BY <1>1 DEF Sessions
<1> HIDE DEF registrations, enabled
<1>4. x \in Sessions /\ Same(a, x)
  BY <1>1, <1>3 DEF Sessions, Same, Alike
<1>5. /\ b \in Sessions /\ Alike(p, b) /\ b.transport = "deaf" /\ b.lastId = p.lastId
      /\ b.reply = p.reply /\ b.outstanding = a.outstanding /\ b.bailedOut = "protocol"
  BY <1>1 DEF bailout, Sessions, Alike
<1> HIDE DEF x, b
<1>6. Fresh(b)
  BY <1>1, <1>5 DEF Good, Core, Fresh, Sessions
<1>7. Good(b) /\ Keeps(p, b)
  BY <1>5, <1>6 DEF Good, Core, Waiting, Paired, Emptied, Keeps, Alike
<1> QED
  BY <1>2, <1>4, <1>7, SettledGood DEF a, Done

LEMMA OnUnregisteredGood ==
    ASSUME NEW p, Good(p), NEW i \in Ids, p.reply[i] = "pending"
    PROVE  LET q == onUnregistered(answered(p, i), i) IN Good(q) /\ Keeps(p, q)
<1> DEFINE a == answered(p, i)
           registrations == a.registrations \ {a.about[i]}
           enabled == a.enabled \ {a.about[i]}
           x == [a EXCEPT !.registrations = registrations, !.enabled = enabled]
<1>1. a \in Sessions
  BY AnsweredGood
<1>2. onUnregistered(a, i) = Settled(x, i, "resolved")
  BY <1>1 DEF onUnregistered, resolve, Settled, Sessions
<1> HIDE DEF a
<1>3. registrations \subseteq Ids /\ enabled \subseteq Ids
  BY <1>1 DEF Sessions
<1> HIDE DEF registrations, enabled
<1>4. x \in Sessions /\ Same(a, x)
  BY <1>1, <1>3 DEF Sessions, Same, Alike
<1> HIDE DEF x
<1> QED
  BY <1>2, <1>4, SettledGood DEF a, Done

LEMMA OnReplyGood ==
    ASSUME NEW p, Good(p), p.transport \in {"open", "closing"},
           ~AsyncHooks => p.welcomes = 0, NEW kind \in Kinds, NEW m \in Messages,
           kind = "subscribe" => m.about \in Topics,
           kind = "register" => m.about \in Ids
    PROVE  Good(onReply(p, kind, m)) /\ Keeps(p, onReply(p, kind, m))
<1> DEFINE i == m.request
           a == answered(p, i)
<1>1. CASE i = 0 \/ p.outstanding[i] # kind
  BY <1>1, BailoutGood DEF onReply
<1>2. CASE ~(i = 0 \/ p.outstanding[i] # kind)
  <2>1. i \in Ids
    BY <1>2 DEF Messages
  <2>2. CASE p.reply[i] # "pending"
    BY <1>2, <2>1, <2>2, AnsweredGood DEF onReply
  <2>3. CASE p.reply[i] = "pending"
    <3>1. a \in Sessions /\ Same(a, a)
      BY <2>1, AnsweredGood DEF Same, Alike
    <3>2. CASE kind = "subscribe"
      BY <1>2, <2>1, <2>3, <3>2, OnSubscribedGood DEF onReply
    <3>3. CASE kind = "unsubscribe"
      BY <1>2, <2>1, <2>3, <3>3, OnUnsubscribedGood DEF onReply
    <3>4. CASE kind = "register"
      BY <1>2, <2>1, <2>3, <3>4, OnRegisteredGood DEF onReply
    <3>5. CASE kind = "unregister"
      BY <1>2, <2>1, <2>3, <3>5, OnUnregisteredGood DEF onReply
    <3>6. CASE kind \in {"publish", "call"}
      <4>1. onReply(p, kind, m) = Settled(a, i, "resolved")
        BY <1>2, <2>1, <2>3, <3>6 DEF onReply, resolve, Settled
      <4> QED
        BY <2>1, <2>3, <3>1, <4>1, SettledGood DEF Done
    <3> QED
      BY <3>2, <3>3, <3>4, <3>5, <3>6 DEF Kinds
  <2> QED
    BY <2>2, <2>3
<1> QED
  BY <1>1, <1>2

LEMMA OnErrorGood ==
    ASSUME NEW p, Good(p), p.transport \in {"open", "closing"},
           ~AsyncHooks => p.welcomes = 0, NEW m \in Messages
    PROVE  Good(onError(p, m)) /\ Keeps(p, onError(p, m))
<1> DEFINE i == m.request
<1>1. CASE i = 0 \/ m.kind = "none" \/ p.outstanding[i] # m.kind
  BY <1>1, BailoutGood DEF onError
<1>2. CASE ~(i = 0 \/ m.kind = "none" \/ p.outstanding[i] # m.kind)
  <2>1. i \in Ids
    BY <1>2 DEF Messages
  <2>2. answered(p, i) \in Sessions /\ Same(answered(p, i), answered(p, i))
    BY <2>1, AnsweredGood DEF Same, Alike
  <2> QED
    BY <1>2, <2>1, <2>2, AnsweredGood, SettledGood DEF onError, Settled, Done
<1> QED
  BY <1>1, <1>2

-----------------------------------------------------------------------------
(* The other messages of the router.                                       *)

LEMMA OnHandshakeGood ==
    ASSUME NEW p, Good(p), p.transport \in {"open", "closing"},
           ~AsyncHooks => p.welcomes = 0, ~p.joined, NEW m
    PROVE  Good(onHandshake(p, m)) /\ Keeps(p, onHandshake(p, m))
<1> DEFINE greeted == p.greeted + 1
           welcomes == p.welcomes + 1
           challenges == p.challenges + 1
           w == [p EXCEPT !.welcomes = welcomes, !.greeted = greeted]
           c == [p EXCEPT !.challenges = challenges, !.greeted = greeted]
<1>1. p \in Sessions /\ greeted \in Nat /\ welcomes \in Nat /\ challenges \in Nat
  BY DEF Good, Core, Sessions
<1>2. p.welcomes = 0 => welcomes = 1
  OBVIOUS
<1>3. onHandshake(p, m) \in {w, c, denySession(p), bailout(p, "protocol")}
  BY DEF onHandshake
<1> HIDE DEF greeted, welcomes, challenges
<1>4. w \in Sessions /\ c \in Sessions
  BY <1>1 DEF Sessions
<1>5. /\ Same(p, c)
      /\ w.joins = p.joins /\ w.leaves = p.leaves /\ w.joined = p.joined
      /\ w.welcomes = welcomes /\ w.transport = p.transport /\ w.lastId = p.lastId
      /\ w.outstanding = p.outstanding /\ w.reply = p.reply /\ w.bailedOut = p.bailedOut
  BY <1>1 DEF Sessions, Same, Alike
<1> HIDE DEF w, c
<1>6. Good(w) /\ Keeps(p, w)
  BY <1>2, <1>4, <1>5 DEF Good, Core, Fresh, Waiting, Paired, Emptied, Keeps
<1>7. Good(c) /\ Keeps(p, c)
  BY <1>4, <1>5, SameGood
<1> QED
  BY <1>3, <1>6, <1>7, DenySessionGood, BailoutGood

LEMMA OnGoodbyeGood ==
    ASSUME NEW p, Good(p), p.transport \in {"open", "closing"}, p.joined,
           ~AsyncHooks => p.welcomes = 0
    PROVE  Good(onGoodbye(p)) /\ Keeps(p, onGoodbye(p))
<1> DEFINE m == Message("GOODBYE", 0, 0)
           q == send(p, m)
<1>1. m \in Messages
  BY MessageTyped DEF Types, Targets
<1>2. \/ onGoodbye(p) = leaveSession(p) \/ onGoodbye(p) = leaveSession(q)
      \/ onGoodbye(p) = bailout(p, "internal")
  BY DEF onGoodbye
<1>3. Good(q) /\ Same(p, q)
  BY <1>1, SendGood
<1> HIDE DEF q, m
<1>4. Good(leaveSession(q)) /\ Keeps(p, leaveSession(q))
  BY <1>3, LeaveSessionCore DEF Good, Keeps, Same, Alike
<1>5. Good(leaveSession(p)) /\ Keeps(p, leaveSession(p))
  BY LeaveSessionCore DEF Good
<1>6. Good(bailout(p, "internal")) /\ Keeps(p, bailout(p, "internal"))
  BY BailoutGood
<1> QED
  BY <1>2, <1>4, <1>5, <1>6

LEMMA OnEventGood ==
    ASSUME NEW p, Good(p), p.transport \in {"open", "closing"},
           ~AsyncHooks => p.welcomes = 0, NEW topic \in Topics, NEW k \in Nat,
           k > 0 => p.lastId < MaxId /\ k <= Len(p.handlers[topic])
    PROVE  Good(onEvent(p, topic, k)) /\ Keeps(p, onEvent(p, topic, k))
<1> DEFINE q == unsubscribe(p, topic, k)
           skipped == q.skipped \/ k < Len(p.handlers[topic])
           r == [q EXCEPT !.skipped = @ \/ k < Len(p.handlers[topic])]
<1>1. onEvent(p, topic, k) \in {bailout(p, "protocol"), p} \/ (k > 0 /\ onEvent(p, topic, k) = r)
  BY DEF onEvent
<1>2. Keeps(p, p)
  BY DEF Keeps
<1>3. CASE k > 0
  <2>1. k \in 1 .. Len(p.handlers[topic])
    BY <1>3 DEF Good, Core, Sessions
  <2>2. Good(q) /\ Keeps(p, q)
    BY <1>3, <2>1, UnsubscribeGood
  <2>3. skipped \in BOOLEAN
    OBVIOUS
  <2>4. q \in Sessions /\ r = [q EXCEPT !.skipped = skipped]
    BY <2>2 DEF Good, Core, Sessions
  <2> HIDE DEF q, skipped
  <2>5. [q EXCEPT !.skipped = skipped] \in Sessions /\ Same(q, [q EXCEPT !.skipped = skipped])
    BY <2>3, <2>4 DEF Sessions, Same, Alike
  <2>6. Good(r) /\ Keeps(q, r)
    BY <2>2, <2>4, <2>5, SameGood
  <2> QED
    BY <1>1, <1>2, <2>2, <2>6, BailoutGood, KeepsOnward
<1>4. CASE ~(k > 0)
  BY <1>1, <1>2, <1>4, BailoutGood
<1> QED
  BY <1>3, <1>4

\* Invocations are nothing Good speaks of.
LEMMA InvocationsGood ==
    ASSUME NEW p, Good(p), NEW x \in SUBSET Invocations
    PROVE  Good([p EXCEPT !.invocations = x]) /\ Same(p, [p EXCEPT !.invocations = x])
<1>1. [p EXCEPT !.invocations = x] \in Sessions /\ Same(p, [p EXCEPT !.invocations = x])
  BY DEF Good, Core, Sessions, Same, Alike
<1> QED
  BY <1>1, SameGood

\* The end of an invocation: its entry goes and a message is tried.
LEMMA DoneGood ==
    ASSUME NEW p, Good(p), NEW i \in p.invocations, NEW type \in {"YIELD", "ERROR"}
    PROVE  LET q == trySend([p EXCEPT !.invocations = @ \ {i}], Message(type, 0, i))
           IN  Good(q) /\ Keeps(p, q)
<1> DEFINE x == p.invocations \ {i}
           r == [p EXCEPT !.invocations = x]
           m == Message(type, 0, i)
<1>1. p \in Sessions /\ x \in SUBSET Invocations /\ i \in Invocations
  BY DEF Good, Core, Sessions
<1>2. m \in Messages
  BY <1>1, MessageTyped DEF Types, Targets
<1>3. r = [p EXCEPT !.invocations = @ \ {i}]
  BY <1>1 DEF Sessions
<1>4. Good(r) /\ Same(p, r)
  BY <1>1, InvocationsGood
<1> HIDE DEF r, m
<1>5. Good(trySend(r, m)) /\ Keeps(p, trySend(r, m))
  BY <1>2, <1>4, SendGood DEF Keeps, Same
<1> QED
  BY <1>3, <1>5 DEF m

LEMMA OnInvocationGood ==
    ASSUME NEW p, Good(p), p.transport \in {"open", "closing"},
           ~AsyncHooks => p.welcomes = 0, NEW i \in Invocations, NEW registration
    PROVE  Good(onInvocation(p, i, registration)) /\ Keeps(p, onInvocation(p, i, registration))
<1> DEFINE x == p.invocations \cup {i}
           r == [p EXCEPT !.invocations = x]
<1>1. p \in Sessions /\ x \in SUBSET Invocations
  BY DEF Good, Core, Sessions
<1>2. onInvocation(p, i, registration) \in {bailout(p, "protocol"), r}
  BY <1>1 DEF onInvocation, Sessions
<1>3. Good(r) /\ Keeps(p, r)
  BY <1>1, InvocationsGood DEF Keeps, Same
<1> HIDE DEF r
<1> QED
  BY <1>2, <1>3, BailoutGood

\* What Receive knows of the router's messages.
LEMMA RouterSays ==
    ASSUME NEW m \in Greetings \cup Replies \cup Requests
    PROVE  /\ m \in Messages
           /\ m.type \in {"SUBSCRIBED", "EVENT"} => m.about \in Topics
           /\ m.type = "REGISTERED" => m.about \in Ids
           /\ m.type = "INVOCATION" => m.about \in Invocations
<1> DEFINE verbs == {"WELCOME", "CHALLENGE", "ABORT", "GOODBYE", "PUBLISHED", "RESULT",
                     "UNSUBSCRIBED", "UNREGISTERED", "SUBSCRIBED", "REGISTERED", "EVENT",
                     "INVOCATION", "INTERRUPT"}
<1>1. \A type \in verbs, i \in Ids \cup {0}, about \in Topics \cup Ids \cup Invocations \cup {0} :
          /\ Message(type, i, about) \in Messages
          /\ Message(type, i, about).type = type /\ Message(type, i, about).about = about
  <2>1. verbs \subseteq Types
    BY DEF Types
  <2>2. Topics \cup Ids \cup Invocations \cup {0} \subseteq Targets
    BY DEF Targets
  <2>3. \A type, i, about : /\ Message(type, i, about).type = type
                            /\ Message(type, i, about).about = about
    BY DEF Message
  <2> HIDE DEF verbs
  <2> QED
    BY <2>1, <2>2, <2>3, MessageTyped
<1>2. CASE m \in Greetings
  <2>1. PICK type \in {"WELCOME", "CHALLENGE", "ABORT", "GOODBYE"} : m = Message(type, 0, 0)
    BY <1>2 DEF Greetings
  <2>2. m \in Messages /\ m.type = type
    BY <1>1, <2>1
  <2> QED
    BY <2>2
<1>3. CASE m \in Replies
  <2>1. CASE \E i \in Ids, type \in {"PUBLISHED", "RESULT", "UNSUBSCRIBED", "UNREGISTERED"} :
                m = Message(type, i, 0)
    <3>1. PICK i \in Ids, type \in {"PUBLISHED", "RESULT", "UNSUBSCRIBED", "UNREGISTERED"} :
              m = Message(type, i, 0)
      BY <2>1
    <3>2. m \in Messages /\ m.type = type
      BY <1>1, <3>1
    <3> QED
      BY <3>2
  <2>2. CASE \E i \in Ids, t \in Topics : m = Message("SUBSCRIBED", i, t)
    BY <1>1, <2>2
  <2>3. CASE \E i \in Ids, r \in Ids : m = Message("REGISTERED", i, r)
    BY <1>1, <2>3
  <2>4. CASE \E kind \in Kinds, i \in Ids : m = Error(kind, i)
    <3>1. m \in Messages
      BY <2>4, MessageTyped
    <3>2. m.type = "ERROR"
      BY <2>4 DEF Error, Message
    <3> QED
      BY <3>1, <3>2
  <2> QED
    BY <1>3, <2>1, <2>2, <2>3, <2>4 DEF Replies
<1>4. CASE m \in Requests
  <2>1. CASE \E x \in Topics : m = Message("EVENT", 0, x)
    BY <1>1, <2>1
  <2>2. CASE \E r \in Ids : m = Message("UNREGISTERED", 0, r)
    BY <1>1, <2>2
  <2>3. CASE \E r \in Ids, i \in Invocations : m = Message("INVOCATION", r, i)
    BY <1>1, <2>3
  <2>4. CASE \E i \in Invocations : m = Message("INTERRUPT", 0, i)
    BY <1>1, <2>4
  <2> QED
    BY <1>4, <2>1, <2>2, <2>3, <2>4 DEF Requests
<1> QED
  BY <1>2, <1>3, <1>4

LEMMA OnMessageGood ==
    ASSUME NEW p, Good(p), p.transport \in {"open", "closing"},
           ~AsyncHooks => p.welcomes = 0,
           NEW m \in Greetings \cup Replies \cup Requests, NEW k \in Nat,
           k > 0 => /\ m.type = "EVENT" /\ p.lastId < MaxId
                    /\ k <= Len(p.handlers[m.about])
    PROVE  Good(onMessage(p, m, k)) /\ Keeps(p, onMessage(p, m, k))
<1> DEFINE forced == m.type = "UNREGISTERED" /\ m.request = 0
           Ok(q) == Good(q) /\ Keeps(p, q)
<1>0. Ok(p) /\ Ok(bailout(p, "protocol")) /\ p \in Sessions
  BY BailoutGood DEF Keeps, Good, Core
<1>1. CASE ~p.joined
  BY <1>1, OnHandshakeGood DEF onMessage
<1>2. CASE p.joined /\ m.type = "GOODBYE"
  BY <1>2, OnGoodbyeGood DEF onMessage, ReplyKind
<1>3. CASE p.joined /\ m.type = "EVENT"
  BY <1>3, OnEventGood, RouterSays DEF onMessage, ReplyKind
<1>4. CASE p.joined /\ forced
  BY <1>0, <1>4 DEF onMessage, onForcedUnregister
<1>5. CASE p.joined /\ m.type \in DOMAIN ReplyKind /\ ~forced
  <2> DEFINE kind == ReplyKind[m.type]
  <2>1. /\ m \in Messages /\ kind \in Kinds
        /\ kind = "subscribe" => m.about \in Topics
        /\ kind = "register" => m.about \in Ids
    BY <1>5, RouterSays DEF ReplyKind, Kinds
  <2>2. onMessage(p, m, k) = onReply(p, kind, m)
    BY <1>5 DEF onMessage, ReplyKind
  <2> HIDE DEF kind
  <2> QED
    BY <2>1, <2>2, OnReplyGood
<1>6. CASE p.joined /\ m.type = "ERROR"
  BY <1>6, OnErrorGood, RouterSays DEF onMessage, ReplyKind
<1>7. CASE p.joined /\ m.type = "INVOCATION"
  BY <1>7, OnInvocationGood, RouterSays DEF onMessage, ReplyKind
<1>8. CASE p.joined /\ m.type = "INTERRUPT"
  <2>1. onMessage(p, m, k) = onInterrupt(p, m.about)
    BY <1>8 DEF onMessage, ReplyKind
  <2> QED
    BY <1>0, <2>1, DoneGood DEF onInterrupt
<1>9. CASE /\ p.joined /\ m.type \notin DOMAIN ReplyKind
           /\ m.type \notin {"GOODBYE", "EVENT", "ERROR", "INVOCATION", "INTERRUPT"}
  BY <1>0, <1>9 DEF onMessage, ReplyKind
<1> QED
  BY <1>1, <1>2, <1>3, <1>4, <1>5, <1>6, <1>7, <1>8, <1>9

-----------------------------------------------------------------------------
(* Steps.                                                                  *)

LEMMA BeginGood ==
    ASSUME Good(s)
    PROVE  /\ Good(begin) /\ Keeps(s, begin)
           /\ \A q : Keeps(begin, q) => Keeps(s, q)
           /\ begin.transport = s.transport /\ begin.joined = s.joined
           /\ begin.welcomes = s.welcomes /\ begin.challenges = s.challenges
           /\ begin.lastId = s.lastId /\ begin.handlers = s.handlers
           /\ begin.tracked = s.tracked /\ begin.invocations = s.invocations
           /\ begin.reply = s.reply /\ begin.outstanding = s.outstanding
<1>1. begin \in Sessions /\ Same(s, begin)
  <2>1. <<>> \in Seq(Messages)
    OBVIOUS
  <2> QED
    BY <2>1 DEF begin, Good, Core, Sessions, Same, Alike
<1>2. /\ begin.transport = s.transport /\ begin.joined = s.joined
      /\ begin.welcomes = s.welcomes /\ begin.challenges = s.challenges
      /\ begin.lastId = s.lastId /\ begin.handlers = s.handlers
      /\ begin.tracked = s.tracked /\ begin.invocations = s.invocations
      /\ begin.reply = s.reply /\ begin.outstanding = s.outstanding
  BY DEF begin, Good, Core, Sessions
<1> QED
  BY <1>1, <1>2, SameGood DEF Keeps

LEMMA RequestStep ==
    ASSUME Good(s), HasTransport, HasIds,
           NEW kind \in Kinds, NEW target \in Targets, s' = request(begin, kind, target)
    PROVE  Good(s') /\ Keeps(s, s')
BY BeginGood, RequestGood DEF HasTransport, HasIds

LEMMA UnsubscribeStep ==
    ASSUME Good(s), Unsubscribe
    PROVE  Good(s') /\ Keeps(s, s')
<1>1. PICK t \in s.tracked : \E k \in 1 .. Len(s.handlers[t]) : s' = unsubscribe(begin, t, k)
  BY DEF Unsubscribe
<1>2. t \in Topics
  BY DEF Good, Core, Sessions
<1> QED
  BY <1>1, <1>2, BeginGood, UnsubscribeGood DEF Unsubscribe, HasTransport, HasIds

LEMMA CancelReplyStep ==
    ASSUME Good(s), CancelReply
    PROVE  Good(s') /\ Keeps(s, s')
<1>1. PICK i \in Ids :
         LET p == [begin EXCEPT !.reply[i] = "cancelled"]
         IN  /\ s.reply[i] = "pending"
             /\ s' \in {p, send(p, Message("CANCEL", i, 0))}
  BY DEF CancelReply
<1> DEFINE p == Settled(begin, i, "cancelled")
           reply == [begin.reply EXCEPT ![i] = "cancelled"]
           m == Message("CANCEL", i, 0)
<1>2. /\ begin \in Sessions /\ begin.reply[i] = "pending" /\ Good(begin)
      /\ \A q : Keeps(begin, q) => Keeps(s, q)
  BY <1>1, BeginGood DEF Good, Core
<1>3. s' \in {p, send(p, m)}
  BY <1>1 DEF Settled
<1>4. reply \in [Ids -> {"none", "pending", "resolved", "rejected", "cancelled"}]
  BY <1>2 DEF Sessions
<1>5. p = [begin EXCEPT !.reply = reply]
  BY <1>2 DEF Settled, Sessions
<1>6. m \in Messages
  BY MessageTyped DEF Types, Targets
<1>7. /\ p \in Sessions /\ Alike(begin, p) /\ p.transport = begin.transport
      /\ p.lastId = begin.lastId /\ p.bailedOut = begin.bailedOut
      /\ p.outstanding = begin.outstanding /\ p.reply = reply
  <2> HIDE DEF reply, p
  <2> QED
    BY <1>2, <1>4, <1>5 DEF Sessions, Alike
<1> HIDE DEF p, m
<1>8. Good(p) /\ Keeps(begin, p)
  BY <1>2, <1>7, SettleGood DEF Done
<1>9. Good(send(p, m)) /\ Keeps(begin, send(p, m))
  BY <1>6, <1>8, SendGood DEF Keeps, Same
<1> QED
  BY <1>2, <1>3, <1>8, <1>9

LEMMA LeaveStep ==
    ASSUME Good(s), Leave
    PROVE  Good(s') /\ Keeps(s, s')
<1> DEFINE m == Message("GOODBYE", 0, 0)
           p == send(begin, m)
           q == [p EXCEPT !.goodbyeSent = TRUE]
<1>1. m \in Messages
  BY MessageTyped DEF Types, Targets
<1>2. s' = q
  BY DEF Leave
<1>3. Good(p) /\ Keeps(s, p)
  BY <1>1, BeginGood, SendGood DEF Keeps, Same
<1> HIDE DEF p
<1>4. q \in Sessions /\ Same(p, q)
  BY <1>3 DEF Good, Core, Sessions, Same, Alike
<1> QED
  BY <1>2, <1>3, <1>4, SameGood, KeepsOnward

\* The synchronous onWelcome joins in the session it was called in.
LEMMA WelcomeDoneStep ==
    ASSUME Good(s), WelcomeDone
    PROVE  Good(s') /\ Keeps(s, s')
<1> DEFINE w == begin.welcomes - 1
           n == begin.joins + 1
           m == Message("ABORT", 0, 0)
           p == [begin EXCEPT !.welcomes = @ - 1]
           joined == [p EXCEPT !.joined = TRUE]
           fired == [joined EXCEPT !.joins = @ + 1]
           t == trySend(p, m)
           denied == [t EXCEPT !.denied = TRUE]
<1>1. /\ begin \in Sessions /\ Good(begin) /\ begin.welcomes > 0
      /\ begin.transport = s.transport
      /\ \A q : Keeps(begin, q) => Keeps(s, q)
  BY BeginGood DEF WelcomeDone, Good, Core
<1>2. w \in Nat /\ n \in Nat /\ m \in Messages
  <2>1. w \in Nat /\ n \in Nat
    BY <1>1 DEF Sessions
  <2>2. m \in Messages
    BY MessageTyped DEF Types, Targets
  <2> QED
    BY <2>1, <2>2
<1>3. \/ s.transport = "lost" /\ s' = joined
      \/ s.transport # "lost" /\ s' = fired
      \/ s' = denied
  BY DEF WelcomeDone
<1>4. /\ p = [begin EXCEPT !.welcomes = w] /\ joined = [begin EXCEPT !.welcomes = w, !.joined = TRUE]
      /\ fired = [begin EXCEPT !.welcomes = w, !.joined = TRUE, !.joins = n]
  BY <1>1 DEF Sessions
<1> HIDE DEF p, joined, fired
<1>5. p \in Sessions /\ joined \in Sessions /\ fired \in Sessions
  <2> HIDE DEF w, n
  <2>1. p \in Sessions
    BY <1>1, <1>2, <1>4 DEF Sessions
  <2>2. joined = [p EXCEPT !.joined = TRUE]
    BY <1>1, <1>4 DEF Sessions
  <2>3. joined \in Sessions
    BY <2>1, <2>2 DEF Sessions
  <2>4. fired = [joined EXCEPT !.joins = n]
    BY <1>1, <1>4 DEF Sessions
  <2>5. fired \in Sessions
    BY <1>2, <2>3, <2>4 DEF Sessions
  <2> QED
    BY <2>1, <2>3, <2>5
<1>6. \A q \in {p, joined, fired} :
         /\ q.leaves = begin.leaves /\ q.welcomes = w /\ q.transport = begin.transport
         /\ q.lastId = begin.lastId /\ q.outstanding = begin.outstanding
         /\ q.reply = begin.reply /\ q.bailedOut = begin.bailedOut
  <2> DEFINE Unchanged(q) ==
         /\ q.leaves = begin.leaves /\ q.welcomes = w /\ q.transport = begin.transport
         /\ q.lastId = begin.lastId /\ q.outstanding = begin.outstanding
         /\ q.reply = begin.reply /\ q.bailedOut = begin.bailedOut
  <2> HIDE DEF w, n
  <2>1. Unchanged(p)
    BY <1>1, <1>4 DEF Sessions
  <2>2. Unchanged(joined)
    BY <1>1, <1>4 DEF Sessions
  <2>3. Unchanged(fired)
    BY <1>1, <1>4 DEF Sessions
  <2> QED
    BY <2>1, <2>2, <2>3
<1>7. /\ p.joined = begin.joined /\ p.joins = begin.joins
      /\ joined.joined = TRUE /\ joined.joins = begin.joins
      /\ fired.joined = TRUE /\ fired.joins = begin.joins + 1
  <2> HIDE DEF w
  <2> QED
    BY <1>1, <1>4 DEF Sessions
<1>8. /\ begin.joins \in Nat /\ begin.leaves \in Nat /\ begin.welcomes \in Nat
      /\ begin.welcomes = 1 => w = 0
  BY <1>1 DEF Sessions
<1> HIDE DEF w, n
<1>9. Good(p) /\ Keeps(begin, p)
  BY <1>1, <1>5, <1>6, <1>7, <1>8
     DEF Good, Core, Fresh, Waiting, Paired, Emptied, Keeps
<1>10. s.transport = "lost" => Good(joined) /\ Keeps(begin, joined)
  BY <1>1, <1>5, <1>6, <1>7, <1>8
     DEF Good, Core, Fresh, Waiting, Paired, Emptied, Keeps
<1>11. Good(fired) /\ Keeps(begin, fired)
  BY <1>1, <1>5, <1>6, <1>7, <1>8
     DEF Good, Core, Fresh, Waiting, Paired, Emptied, Keeps
<1>12. Good(t) /\ Keeps(begin, t)
  BY <1>2, <1>9, SendGood DEF Keeps, Same
<1> HIDE DEF t
<1>13. denied \in Sessions /\ Same(t, denied)
  BY <1>12 DEF Good, Core, Sessions, Same, Alike
<1>14. Good(denied) /\ Keeps(begin, denied)
  BY <1>12, <1>13, SameGood, KeepsOnward
<1> QED
  BY <1>1, <1>3, <1>10, <1>11, <1>14

LEMMA ChallengeDoneStep ==
    ASSUME Good(s), ChallengeDone
    PROVE  Good(s') /\ Keeps(s, s')
<1> DEFINE c == begin.challenges - 1
           p == [begin EXCEPT !.challenges = @ - 1]
           m == Message("AUTHENTICATE", 0, 0)
           a == Message("ABORT", 0, 0)
<1>1. /\ begin \in Sessions /\ Good(begin) /\ begin.challenges > 0
      /\ \A q : Keeps(begin, q) => Keeps(s, q)
  BY BeginGood DEF ChallengeDone, Good, Core
<1>2. c \in Nat /\ m \in Messages /\ a \in Messages
  <2>1. c \in Nat
    BY <1>1 DEF Sessions
  <2>2. m \in Messages /\ a \in Messages
    BY MessageTyped DEF Types, Targets
  <2> QED
    BY <2>1, <2>2
<1>3. s' \in {p, trySend(p, m), denySession(send(p, a))}
  BY DEF ChallengeDone
<1>4. p = [begin EXCEPT !.challenges = c]
  BY <1>1 DEF Sessions
<1> HIDE DEF p, c
<1>5. p \in Sessions /\ Same(begin, p)
  BY <1>1, <1>2, <1>4 DEF Sessions, Same, Alike
<1>6. Good(p) /\ Keeps(begin, p)
  BY <1>1, <1>5, SameGood
<1>7. Good(trySend(p, m)) /\ Keeps(begin, trySend(p, m))
  BY <1>2, <1>6, SendGood DEF Keeps, Same
<1>8. Good(send(p, a)) /\ Keeps(begin, send(p, a))
  BY <1>2, <1>6, SendGood DEF Keeps, Same
<1>9. Good(denySession(send(p, a))) /\ Keeps(begin, denySession(send(p, a)))
  BY <1>8, DenySessionGood, KeepsOnward
<1> QED
  BY <1>1, <1>3, <1>6, <1>7, <1>9

LEMMA OnOpenStep ==
    ASSUME Good(s), OnOpen
    PROVE  Good(s') /\ Keeps(s, s')
<1> DEFINE p == [begin EXCEPT !.transport = "open"]
           m == Message("HELLO", 0, 0)
<1>1. /\ begin \in Sessions /\ Good(begin) /\ begin.transport = "none"
      /\ \A q : Keeps(begin, q) => Keeps(s, q)
  BY BeginGood DEF OnOpen, Good, Core
<1>2. s' = send(p, m) /\ m \in Messages
  BY MessageTyped DEF OnOpen, Types, Targets
<1>3. /\ p \in Sessions /\ p.transport = "open" /\ Alike(begin, p)
      /\ p.lastId = begin.lastId /\ p.outstanding = begin.outstanding
      /\ p.reply = begin.reply /\ p.bailedOut = begin.bailedOut
  BY <1>1 DEF Sessions, Alike
<1> HIDE DEF p, m
<1>4. Good(p) /\ Keeps(begin, p)
  BY <1>1, <1>3 DEF Good, Core, Fresh, Waiting, Paired, Emptied, Keeps, Alike
<1> QED
  BY <1>1, <1>2, <1>4, SendGood DEF Keeps, Same

LEMMA PeerClosingStep ==
    ASSUME Good(s), PeerClosing
    PROVE  Good(s') /\ Keeps(s, s')
<1> DEFINE p == [begin EXCEPT !.transport = "deaf"]
<1>1. /\ begin \in Sessions /\ Good(begin) /\ begin.transport = "open"
      /\ (~AsyncHooks => begin.welcomes = 0)
      /\ \A q : Keeps(begin, q) => Keeps(s, q)
  BY BeginGood DEF PeerClosing, HooksDone, Good, Core
<1>2. s' = p
  BY DEF PeerClosing
<1>3. /\ p \in Sessions /\ p.transport = "deaf" /\ Alike(begin, p)
      /\ p.lastId = begin.lastId /\ p.outstanding = begin.outstanding
      /\ p.reply = begin.reply /\ p.bailedOut = begin.bailedOut
  BY <1>1 DEF Sessions, Alike
<1> HIDE DEF p
<1>4. Good(p) /\ Keeps(begin, p)
  BY <1>1, <1>3 DEF Good, Core, Fresh, Waiting, Paired, Emptied, Keeps, Alike
<1> QED
  BY <1>1, <1>2, <1>4

LEMMA ReceiveStep ==
    ASSUME Good(s), NEW m \in Greetings \cup Replies \cup Requests, Receive(m)
    PROVE  Good(s') /\ Keeps(s, s')
<1>1. PICK k \in 0 .. MaxId :
         /\ k > 0 => /\ m.type = "EVENT" /\ s.lastId < MaxId
                     /\ k <= Len(s.handlers[m.about])
         /\ s' = onMessage(begin, m, k)
  BY DEF Receive, HasIds
<1>2. k \in Nat
  BY SessionAssumption
<1>3. s.transport \in {"open", "closing"} /\ (~AsyncHooks => s.welcomes = 0)
  BY DEF Receive, HasMessages, HooksDone
<1> QED
  BY <1>1, <1>2, <1>3, BeginGood, OnMessageGood

LEMMA InitGood == Init => Good(s)
<1> SUFFICES ASSUME Init PROVE Good(s)
  OBVIOUS
<1>1. s \in Sessions
  <2>1. <<>> \in Seq(Ids) /\ <<>> \in Seq(Messages)
    OBVIOUS
  <2>2. nothingOutstanding \in [Ids -> Kinds \cup {"none"}] /\ 0 \in Targets /\ 0 \in Nat
    BY DEF nothingOutstanding, Targets
  <2> QED
    BY <2>1, <2>2 DEF Init, Sessions
<1>2. /\ s.transport = "none" /\ s.joined = FALSE /\ s.welcomes = 0 /\ s.joins = 0
      /\ s.leaves = 0 /\ s.bailedOut = "no" /\ s.outstanding = nothingOutstanding
      /\ s.reply = [i \in Ids |-> "none"]
  BY DEF Init
<1> QED
  BY <1>1, <1>2 DEF Good, Core, Fresh, Waiting, Paired, Emptied, nothingOutstanding

LEMMA NextGood == Good(s) /\ [Next]_s => Good(s') /\ Keeps(s, s')
<1> SUFFICES ASSUME Good(s), [Next]_s PROVE Good(s') /\ Keeps(s, s')
  OBVIOUS
<1> USE DEF Application
<1>1. CASE Subscribe
  BY <1>1, RequestStep DEF Subscribe, Kinds, Targets
<1>2. CASE Unsubscribe
  BY <1>2, UnsubscribeStep
<1>3. CASE Register
  BY <1>3, RequestStep DEF Register, Kinds, Targets
<1>4. CASE Unregister
  <2>1. s.registrations \subseteq Ids
    BY DEF Good, Core, Sessions
  <2> QED
    BY <1>4, <2>1, RequestStep DEF Unregister, Kinds, Targets
<1>5. CASE Call
  BY <1>5, RequestStep DEF Call, Kinds, Targets
<1>6. CASE Publish
  BY <1>6, RequestStep DEF Publish, Kinds, Targets
<1>7. CASE CancelReply
  BY <1>7, CancelReplyStep
<1>8. CASE Leave
  BY <1>8, LeaveStep
<1>9. CASE Disconnect
  BY <1>9, BeginGood, DisconnectCore DEF Disconnect, Good
<1>10. CASE EndpointDone
  BY <1>10, BeginGood, DoneGood DEF EndpointDone
<1>11. CASE WelcomeDone
  BY <1>11, WelcomeDoneStep
<1>12. CASE ChallengeDone
  BY <1>12, ChallengeDoneStep
<1>13. CASE OnOpen
  BY <1>13, OnOpenStep
<1>14. CASE PeerClosing
  BY <1>14, PeerClosingStep
<1>15. CASE TransportLost
  BY <1>15, BeginGood, OnCloseGood DEF TransportLost, HasTransport, HooksDone
<1>16. CASE \E m \in Greetings \cup Replies \cup Requests : Receive(m)
  BY <1>16, ReceiveStep
<1>17. CASE UNCHANGED s
  BY <1>17 DEF Keeps
<1> QED
  BY <1>1, <1>2, <1>3, <1>4, <1>5, <1>6, <1>7, <1>8, <1>9, <1>10, <1>11, <1>12,
     <1>13, <1>14, <1>15, <1>16, <1>17 DEF Next

LEMMA AlwaysGood == Spec => []Good(s)
<1>1. Init => Good(s)
  BY InitGood
<1>2. Good(s) /\ [Next]_s => Good(s)'
  BY NextGood
<1> QED
  BY <1>1, <1>2, PTL DEF Spec

-----------------------------------------------------------------------------
(* Theorems.                                                               *)

\* Whatever the router sends, the session's state is of its type.
THEOREM TypeCorrect == Spec => []TypeOK
<1>1. Good(s) => TypeOK
  BY DEF Good, Core, TypeOK
<1> QED
  BY <1>1, AlwaysGood, PTL

\* Whatever the router sends, a reply that is waited for has its entry, unless
\* the session failed the transport for the violation of the protocol.
THEOREM WaitsWithEntry == Spec => []PendingIsOutstanding
<1>1. Good(s) => PendingIsOutstanding
  BY DEF Good, Core, Waiting, PendingIsOutstanding
<1> QED
  BY <1>1, AlwaysGood, PTL

\* Whatever the router sends and whenever the session ends, no future is
\* resolved, rejected or cancelled a second time.
THEOREM NeverAnsweredTwice == Spec => AnsweredOnce
<1>1. Good(s) /\ [Next]_s
        => [\A i \in Ids : s.reply[i] \in {"resolved", "rejected", "cancelled"}
                => s'.reply[i] = s.reply[i]]_s
  BY NextGood DEF Keeps, Done
<1> QED
  BY <1>1, AlwaysGood, PTL DEF Spec, AnsweredOnce

\* With hooks that are done at once, every way a joined session ends fires
\* onLeave exactly once, and onJoin and onLeave alternate.
THEOREM LeavesArePaired ==
    ASSUME ~AsyncHooks
    PROVE  Spec => []JoinsAndLeavesPaired
<1>1. Good(s) => JoinsAndLeavesPaired
  BY DEF Good, Core, Paired, JoinsAndLeavesPaired
<1> QED
  BY <1>1, AlwaysGood, PTL

\* The older API (ApplicationSession): when the transport is lost nothing is
\* waited for any more, unless the router repeated a registration id.
THEOREM LossIsAnswered ==
    ASSUME ~Shim
    PROVE  Spec => [](s.bailedOut # "protocol" => LostIsAnswered)
<1>1. Good(s) => (s.bailedOut # "protocol" => LostIsAnswered)
  BY DEF Good, Core, Waiting, Emptied, LostIsAnswered
<1> QED
  BY <1>1, AlwaysGood, PTL
=============================================================================
