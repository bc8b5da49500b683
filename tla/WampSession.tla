---------------------------- MODULE WampSession ----------------------------
(***************************************************************************)
(* A WAMP client session: ApplicationSession of autobahn/wamp/protocol.py  *)
(* over its WebSocket transport (autobahn/wamp/websocket.py), against a    *)
(* router that may send anything at any time.                              *)
(*                                                                         *)
(* The attributes of the session are the fields of the record s.  What the *)
(* application holds is the reply (a future) of each of its requests and   *)
(* its subscriptions and registrations; payloads, options and the features *)
(* they switch are left out.  A subscription object is named by the id of  *)
(* the SUBSCRIBE that made it.                                             *)
(***************************************************************************)
EXTENDS Naturals, Sequences, FiniteSets

CONSTANTS
    Topics,        \* also the broker's subscription ids: one per topic
    Invocations,   \* request ids of the router's invocations
    Shim,          \* the Session class of the newer API (_SessionShim)
    AsyncHooks,    \* onWelcome and onChallenge may finish later (on asyncio always)
    MaxId,         \* bound: requests, far below IdGenerator's wrap at 2^53
    MaxWelcomes    \* bound: WELCOMEs and CHALLENGEs of a router that repeats them

ASSUME SessionAssumption ==
    /\ Shim \in BOOLEAN /\ AsyncHooks \in BOOLEAN
    /\ MaxId \in Nat \ {0} /\ MaxWelcomes \in Nat \ {0}
    /\ Topics # {} /\ Invocations # {}

VARIABLE s

Ids == 1 .. MaxId

\* The six dictionaries of outstanding requests.
Kinds == {"publish", "subscribe", "unsubscribe", "call", "register", "unregister"}

\* A message: its type, a request id, what it is about (a topic, a subscription,
\* a registration, an invocation) and, for ERROR, the kind of request.
Types == {"HELLO", "WELCOME", "ABORT", "CHALLENGE", "AUTHENTICATE", "GOODBYE",
          "PUBLISH", "SUBSCRIBE", "UNSUBSCRIBE", "CALL", "REGISTER", "UNREGISTER",
          "PUBLISHED", "SUBSCRIBED", "UNSUBSCRIBED", "RESULT", "REGISTERED",
          "UNREGISTERED", "ERROR", "EVENT", "INVOCATION", "INTERRUPT", "CANCEL", "YIELD"}

Targets == Topics \cup Invocations \cup Ids \cup {0}

Messages == [type : Types, request : Ids \cup {0}, about : Targets, kind : Kinds \cup {"none"}]

Message(type, request, about) ==
    [type |-> type, request |-> request, about |-> about, kind |-> "none"]

Error(kind, request) == [Message("ERROR", request, 0) EXCEPT !.kind = kind]

\* The request a kind of outstanding request was made with.
Verb == [kind \in Kinds |->
    CASE kind = "publish" -> "PUBLISH" [] kind = "subscribe" -> "SUBSCRIBE"
      [] kind = "unsubscribe" -> "UNSUBSCRIBE" [] kind = "call" -> "CALL"
      [] kind = "register" -> "REGISTER" [] kind = "unregister" -> "UNREGISTER"]

Sessions ==
    [transport : {"none",      \* not open yet
                  "open",
                  "closing",   \* we sent Close: sending raises, receiving goes on
                  "deaf",      \* failed or closed by the peer: neither
                  "lost"},     \* onClose was called, _transport is None
     joined : BOOLEAN,                          \* _session_id is set
     goodbyeSent : BOOLEAN,
     welcomes : Nat, challenges : Nat,          \* hooks' futures outstanding
     greeted : Nat,                             \* counts both, for the bound
     lastId : Nat,                              \* IdGenerator
     outstanding : [Ids -> Kinds \cup {"none"}],
     about : [Ids -> Targets],                  \* what the request was made for
     reply : [Ids -> {"none", "pending", "resolved", "rejected", "cancelled"}],
     tracked : SUBSET Topics,                   \* keys of _subscriptions
     handlers : [Topics -> Seq(Ids)],           \* its lists
     active : SUBSET Ids,                       \* Subscription.active
     registrations : SUBSET Ids,                \* keys of _registrations
     enabled : SUBSET Ids,                      \* Registration.active
     invocations : SUBSET Invocations,
     sent : Seq(Messages),                      \* written in the last step
     \* what the application saw and did
     joins : Nat, leaves : Nat,                 \* sessions onJoin, onLeave was fired for
     denied : BOOLEAN,                          \* either side ended the handshake with ABORT
     released : SUBSET Ids,                     \* subscriptions it unsubscribed
     skipped : BOOLEAN,                         \* an event passed a handler by
     bailedOut : {"no", "protocol", "internal"}]

TypeOK == s \in Sessions

-----------------------------------------------------------------------------
(* The transport.                                                          *)

begin == [s EXCEPT !.sent = <<>>]

canSend(p) == p.transport = "open"

send(p, m) == [p EXCEPT !.sent = Append(@, m)]

\* From a future's callback, where an exception of send ends in the log.
trySend(p, m) == IF canSend(p) THEN send(p, m) ELSE p

disconnect(p) == IF p.transport = "open" THEN [p EXCEPT !.transport = "closing"] ELSE p

\* onMessage raised: ProtocolError, or anything else.
bailout(p, why) == [p EXCEPT !.transport = "deaf", !.bailedOut = why]

-----------------------------------------------------------------------------
(* The end of the session.                                                 *)

nothingOutstanding == [i \in Ids |-> "none"]

\* Mutant: a request that was cancelled is given an error all the same.
errbackCancelled(p) ==
    [p EXCEPT !.outstanding = nothingOutstanding,
              !.reply = [i \in Ids |-> IF p.outstanding[i] # "none" THEN "rejected" ELSE @[i]]]

errbackOutstandingRequests(p) ==
    [p EXCEPT !.outstanding = nothingOutstanding,
              !.reply = [i \in Ids |->
                  IF p.outstanding[i] # "none" /\ @[i] = "pending" THEN "rejected" ELSE @[i]]]

\* The default onLeave, and the one of the newer API.
onLeave(p) == disconnect(IF Shim THEN p ELSE errbackOutstandingRequests(p))

\* Mutant: only the end of the session gives errors.
onDisconnectSilent(p) == p

onDisconnect(p) == IF Shim THEN p ELSE errbackOutstandingRequests(p)

leaveSession(p) == onLeave([p EXCEPT !.joined = FALSE, !.leaves = @ + 1])

denySession(p) == onLeave([p EXCEPT !.denied = TRUE])

\* Mutant: a lost transport is not a left session.
onCloseSilent(p) == onDisconnect([p EXCEPT !.transport = "lost", !.joined = FALSE])

onClose(p) ==
    LET lost == [p EXCEPT !.transport = "lost"]
        left == IF p.joined THEN leaveSession(lost) ELSE lost
    IN  onDisconnect(left)

-----------------------------------------------------------------------------
(* Requests of the application.                                            *)

\* Every request takes the next id and is entered before it is sent.  When send
\* raises, call and publish remove their entry again, the others leave it.
request(p, kind, target) ==
    LET id == p.lastId + 1
        entered == [p EXCEPT !.lastId = id, !.outstanding[id] = kind,
                             !.about[id] = target, !.reply[id] = "pending"]
    IN  IF canSend(p) THEN send(entered, Message(Verb[kind], id, target))
        ELSE IF kind \in {"publish", "call"} THEN [p EXCEPT !.lastId = id]
        ELSE entered

\* Hooks that return no future are done before anything else happens.
HooksDone == AsyncHooks \/ (s.welcomes = 0 /\ s.challenges = 0)

HasTransport == HooksDone /\ s.transport \in {"open", "closing", "deaf"}

HasIds == s.lastId < MaxId

\* Mutant: the key is removed before the broker has answered.
unsubscribeEarly(p, topic, k) ==
    LET id == p.handlers[topic][k]
        q == [p EXCEPT !.handlers[topic] = SubSeq(@, 1, k - 1) \o SubSeq(@, k + 1, Len(@)),
                       !.active = @ \ {id}, !.released = @ \cup {id}]
    IN  IF Len(q.handlers[topic]) > 0 THEN q
        ELSE request([q EXCEPT !.tracked = @ \ {topic}], "unsubscribe", topic)

\* The k-th handler's subscription is removed and turns inactive, and the broker
\* is told when it was the last one.
unsubscribe(p, topic, k) ==
    LET id == p.handlers[topic][k]
        q == [p EXCEPT !.handlers[topic] = SubSeq(@, 1, k - 1) \o SubSeq(@, k + 1, Len(@)),
                       !.active = @ \ {id}, !.released = @ \cup {id}]
    IN  IF Len(q.handlers[topic]) = 0 THEN request(q, "unsubscribe", topic) ELSE q

Subscribe == HasTransport /\ HasIds /\ \E t \in Topics : s' = request(begin, "subscribe", t)

Unsubscribe ==
    /\ HasTransport /\ HasIds
    /\ \E t \in s.tracked : \E k \in 1 .. Len(s.handlers[t]) :
        /\ s.handlers[t][k] \in s.active
        /\ s' = unsubscribe(begin, t, k)

Register == HasTransport /\ HasIds /\ s' = request(begin, "register", 0)

Unregister ==
    /\ HasTransport /\ HasIds
    /\ \E r \in s.registrations \cap s.enabled : s' = request(begin, "unregister", r)

Call == HasTransport /\ HasIds /\ s' = request(begin, "call", 0)

\* An acknowledged publication; others leave nothing behind.
Publish == HasTransport /\ HasIds /\ s' = request(begin, "publish", 0)

\* The application cancels a reply.  Cancelling a call sends CANCEL, and is
\* refused when that raises.
CancelReply ==
    \E i \in Ids :
        /\ HooksDone /\ s.reply[i] = "pending"
        /\ LET p == [begin EXCEPT !.reply[i] = "cancelled"]
           IN  IF s.outstanding[i] = "call"
               THEN canSend(s) /\ s' = send(p, Message("CANCEL", i, 0))
               ELSE s' = p

Leave ==
    /\ HooksDone /\ s.joined /\ ~s.goodbyeSent /\ canSend(s)
    /\ s' = [send(begin, Message("GOODBYE", 0, 0)) EXCEPT !.goodbyeSent = TRUE]

Disconnect == HooksDone /\ s.transport = "open" /\ s' = disconnect(begin)

\* An endpoint's future is done: its result or its error is sent.
EndpointDone ==
    \E i \in s.invocations : \E type \in {"YIELD", "ERROR"} :
        HooksDone /\ s' = trySend([begin EXCEPT !.invocations = @ \ {i}], Message(type, 0, i))

-----------------------------------------------------------------------------
(* Messages received before the session is established.                    *)

\* onWelcome's future finished.  Without a transport the session id is set
\* before the code stumbles over the missing transport.
WelcomeDone ==
    LET p == [begin EXCEPT !.welcomes = @ - 1]
        joined == [p EXCEPT !.joined = TRUE]
    IN  /\ s.welcomes > 0
        /\ \/ s' = IF s.transport = "lost" THEN joined ELSE [joined EXCEPT !.joins = @ + 1]
           \/ s' = [trySend(p, Message("ABORT", 0, 0)) EXCEPT !.denied = TRUE]   \* or it raised

\* onChallenge's future finished: with a signature, with none (an exception
\* nobody handles) or with an error.
ChallengeDone ==
    LET p == [begin EXCEPT !.challenges = @ - 1]
    IN  /\ s.challenges > 0
        /\ \/ s' = trySend(p, Message("AUTHENTICATE", 0, 0))
           \/ s' = p
           \/ s' = IF canSend(p) THEN denySession(send(p, Message("ABORT", 0, 0))) ELSE p

onHandshake(p, m) ==
    CASE m.type = "WELCOME" -> [p EXCEPT !.welcomes = @ + 1, !.greeted = @ + 1]
      [] m.type = "CHALLENGE" -> [p EXCEPT !.challenges = @ + 1, !.greeted = @ + 1]
      [] m.type = "ABORT" -> denySession(p)
      [] OTHER -> bailout(p, "protocol")

-----------------------------------------------------------------------------
(* Messages received while the session is established.                     *)

onGoodbye(p) ==
    CASE p.goodbyeSent -> leaveSession(p)
      [] ~p.goodbyeSent /\ canSend(p) -> leaveSession(send(p, Message("GOODBYE", 0, 0)))
      [] OTHER -> bailout(p, "internal")

\* The handlers are called down the list; when k > 0 the k-th one unsubscribes
\* itself while it is called (bound: one per event), which takes it out of the
\* list that is being iterated: the next one is passed by.
onEvent(p, topic, k) ==
    IF topic \notin p.tracked THEN bailout(p, "protocol")
    ELSE IF k = 0 THEN p
    ELSE [unsubscribe(p, topic, k) EXCEPT !.skipped = @ \/ k < Len(p.handlers[topic])]

\* The entry of the request is taken out; what follows is skipped when the
\* application cancelled the reply.
answered(p, i) == [p EXCEPT !.outstanding[i] = "none"]

resolve(p, i) == [p EXCEPT !.reply[i] = "resolved"]

onSubscribed(p, i, topic) ==
    LET old == IF topic \in p.tracked THEN p.handlers[topic] ELSE <<>>
    IN  resolve([p EXCEPT !.tracked = @ \cup {topic}, !.handlers[topic] = Append(old, i),
                          !.active = @ \cup {i}], i)

\* Mutant: handlers added meanwhile are kept.
unsubscribedIfEmpty(p, i) ==
    resolve(IF p.handlers[p.about[i]] # <<>> THEN p ELSE [p EXCEPT !.tracked = @ \ {p.about[i]}], i)

onUnsubscribed(p, i) ==
    LET topic == p.about[i]
        gone == {p.handlers[topic][k] : k \in 1 .. Len(p.handlers[topic])}
    IN  resolve(IF topic \notin p.tracked THEN p
                ELSE [p EXCEPT !.tracked = @ \ {topic}, !.handlers[topic] = <<>>,
                               !.active = @ \ gone], i)

onRegistered(p, i, registration) ==
    IF registration \in p.registrations THEN bailout(p, "protocol")
    ELSE resolve([p EXCEPT !.registrations = @ \cup {registration},
                           !.enabled = @ \cup {registration}], i)

\* Mutant: the reply is not resolved.
unregisteredSilent(p, i) ==
    [p EXCEPT !.registrations = @ \ {p.about[i]}, !.enabled = @ \ {p.about[i]}]

onUnregistered(p, i) ==
    resolve([p EXCEPT !.registrations = @ \ {p.about[i]}, !.enabled = @ \ {p.about[i]}], i)

\* Replies to requests, by kind.
onReply(p, kind, m) ==
    LET i == m.request
        q == answered(p, i)
    IN  IF i = 0 \/ p.outstanding[i] # kind THEN bailout(p, "protocol")
        ELSE IF p.reply[i] # "pending" THEN q
        ELSE CASE kind = "subscribe" -> onSubscribed(q, i, m.about)
               [] kind = "unsubscribe" -> onUnsubscribed(q, i)
               [] kind = "register" -> onRegistered(q, i, m.about)
               [] kind = "unregister" -> onUnregistered(q, i)
               [] kind \in {"publish", "call"} -> resolve(q, i)

\* Mutant: the entry of a request that failed is kept.
errorIgnored(p, m) ==
    IF m.request = 0 \/ m.kind = "none" \/ p.outstanding[m.request] # m.kind
    THEN bailout(p, "protocol") ELSE p

onError(p, m) ==
    IF m.request = 0 \/ m.kind = "none" \/ p.outstanding[m.request] # m.kind
    THEN bailout(p, "protocol")
    ELSE LET q == answered(p, m.request)
         IN  IF p.reply[m.request] # "pending" THEN q
             ELSE [q EXCEPT !.reply[m.request] = "rejected"]

\* The router took a registration back; the session only logs it.
onForcedUnregister(p, registration) ==
    IF registration \in p.registrations THEN p ELSE bailout(p, "protocol")

onInvocation(p, i, registration) ==
    IF i \in p.invocations \/ registration \notin p.registrations THEN bailout(p, "protocol")
    ELSE [p EXCEPT !.invocations = @ \cup {i}]

\* The endpoint's future is cancelled, and its error is sent.
onInterrupt(p, i) ==
    IF i \notin p.invocations THEN p
    ELSE trySend([p EXCEPT !.invocations = @ \ {i}], Message("ERROR", 0, i))

ReplyKind == [type \in {"PUBLISHED", "SUBSCRIBED", "UNSUBSCRIBED", "RESULT", "REGISTERED",
                        "UNREGISTERED"} |->
    CASE type = "PUBLISHED" -> "publish" [] type = "SUBSCRIBED" -> "subscribe"
      [] type = "UNSUBSCRIBED" -> "unsubscribe" [] type = "RESULT" -> "call"
      [] type = "REGISTERED" -> "register" [] type = "UNREGISTERED" -> "unregister"]

\* m is handed in with the router's ids; k is the handler that leaves its list.
onMessage(p, m, k) ==
    CASE ~p.joined -> onHandshake(p, m)
      [] p.joined /\ m.type = "GOODBYE" -> onGoodbye(p)
      [] p.joined /\ m.type = "EVENT" -> onEvent(p, m.about, k)
      [] p.joined /\ m.type = "UNREGISTERED" /\ m.request = 0 -> onForcedUnregister(p, m.about)
      [] p.joined /\ m.type \in DOMAIN ReplyKind /\ ~(m.type = "UNREGISTERED" /\ m.request = 0) ->
            onReply(p, ReplyKind[m.type], m)
      [] p.joined /\ m.type = "ERROR" -> onError(p, m)
      [] p.joined /\ m.type = "INVOCATION" -> onInvocation(p, m.about, m.request)
      [] p.joined /\ m.type = "INTERRUPT" -> onInterrupt(p, m.about)
      [] OTHER -> bailout(p, "protocol")

HasMessages == HooksDone /\ s.transport \in {"open", "closing"}

Receive(m) ==
    /\ HasMessages
    /\ m.type \in {"WELCOME", "CHALLENGE"} /\ ~s.joined => s.greeted < MaxWelcomes
    /\ \E k \in 0 .. MaxId :
        /\ k > 0 => /\ m.type = "EVENT" /\ s.joined /\ HasIds
                    /\ m.about \in s.tracked /\ k <= Len(s.handlers[m.about])
        /\ s' = onMessage(begin, m, k)

-----------------------------------------------------------------------------
(* The transport opens, is closed by the peer, is lost.                    *)

OnOpen ==
    /\ s.transport = "none"
    /\ s' = send([begin EXCEPT !.transport = "open"], Message("HELLO", 0, 0))

PeerClosing ==
    /\ HooksDone /\ s.transport = "open"
    /\ s' = [begin EXCEPT !.transport = "deaf"]

TransportLost == HasTransport /\ s' = onClose(begin)

-----------------------------------------------------------------------------
Init ==
    s = [transport |-> "none", joined |-> FALSE, goodbyeSent |-> FALSE, welcomes |-> 0,
         challenges |-> 0, greeted |-> 0, lastId |-> 0, outstanding |-> nothingOutstanding,
         about |-> [i \in Ids |-> 0], reply |-> [i \in Ids |-> "none"], tracked |-> {},
         handlers |-> [t \in Topics |-> <<>>], active |-> {}, registrations |-> {},
         enabled |-> {}, invocations |-> {}, sent |-> <<>>, joins |-> 0, leaves |-> 0,
         denied |-> FALSE, released |-> {}, skipped |-> FALSE, bailedOut |-> "no"]

Application ==
    \/ Subscribe \/ Unsubscribe \/ Register \/ Unregister \/ Call \/ Publish
    \/ CancelReply \/ Leave \/ Disconnect \/ EndpointDone \/ WelcomeDone \/ ChallengeDone

\* What a router may say, in any order.
Greetings == {Message(type, 0, 0) : type \in {"WELCOME", "CHALLENGE", "ABORT", "GOODBYE"}}
Replies == {Message(type, i, 0) : i \in Ids,
                                  type \in {"PUBLISHED", "RESULT", "UNSUBSCRIBED", "UNREGISTERED"}}
           \cup {Message("SUBSCRIBED", i, t) : i \in Ids, t \in Topics}
           \cup {Message("REGISTERED", i, r) : i \in Ids, r \in Ids}
           \cup {Error(kind, i) : kind \in Kinds, i \in Ids}
Requests == {Message("EVENT", 0, t) : t \in Topics}
            \cup {Message("UNREGISTERED", 0, r) : r \in Ids}
            \cup {Message("INVOCATION", r, i) : r \in Ids, i \in Invocations}
            \cup {Message("INTERRUPT", 0, i) : i \in Invocations}

Next ==
    \/ Application \/ OnOpen \/ PeerClosing \/ TransportLost
    \/ \E m \in Greetings \cup Replies \cup Requests : Receive(m)

Spec == Init /\ [][Next]_s

-----------------------------------------------------------------------------
(* Properties.                                                             *)

\* A reply is given once: neither a second answer of the router, nor the end of
\* the session, nor the answer to a cancelled request touches it again (a future
\* that is resolved twice raises, in onMessage and in onClose).
AnsweredOnce ==
    [][\A i \in Ids : s.reply[i] \in {"resolved", "rejected", "cancelled"}
                        => s'.reply[i] = s.reply[i]]_s

\* A request the application still waits for has an entry the router's answer or
\* the end of the session will find; a router that repeats a registration id,
\* for which the session fails the transport, is the exception.
PendingIsOutstanding ==
    \A i \in Ids : s.reply[i] = "pending" => s.outstanding[i] # "none" \/ s.bailedOut = "protocol"

\* A subscription object is active exactly while it is in the list of handlers
\* that events are dispatched to, and there once.
ActiveIsListed ==
    \A i \in Ids : (i \in s.active) <=>
        \E t \in Topics : Cardinality({k \in DOMAIN s.handlers[t] : s.handlers[t][k] = i}) = 1

\* onJoin and onLeave alternate: whatever ends a joined session (GOODBYE from
\* either side, a failure, the loss of the transport) fires onLeave, once.
JoinsAndLeavesPaired == s.joins = s.leaves + (IF s.joined THEN 1 ELSE 0)

\* When the transport is lost, all requests still outstanding were given an error.
LostIsAnswered == s.transport = "lost" => \A i \in Ids : s.reply[i] # "pending"

\* A session without a transport is not attached to a realm.
LostIsDetached == s.transport = "lost" => ~s.joined
=============================================================================
