----------------------------- MODULE WampRealm -----------------------------
(***************************************************************************)
(* The session of WampSession joined to a router that keeps to the WAMP    *)
(* protocol, over a transport that delivers in order and may be lost.      *)
(*                                                                         *)
(* The router is no part of this repository: it is modelled by what the    *)
(* session relies on, one broker and one dealer that answer requests in    *)
(* the order they arrive, calls when the callee does, and events and       *)
(* invocations only for what is subscribed and registered.                 *)
(***************************************************************************)
EXTENDS WampSession

CONSTANTS
    Cancelled,   \* kinds of request whose reply the application cancels
    Forced,      \* the router may take registrations back
    MaxQueue     \* bound: events are sent while fewer messages are under way

ASSUME RealmAssumption ==
    Cancelled \subseteq Kinds /\ Forced \in BOOLEAN /\ MaxQueue \in Nat \ {0}

VARIABLE r

Routers ==
    [phase : {"waiting", "challenged", "joined", "closing", "out"},
     subs : SUBSET Topics, regs : SUBSET Ids,
     calls : SUBSET Ids,                     \* not answered yet
     invoked : SUBSET Invocations,           \* ids used
     open : SUBSET Invocations,              \* not answered yet
     stray : BOOLEAN,                        \* an answer to nothing arrived
     toRouter : Seq(Messages), toClient : Seq(Messages)]

reply(q, m) == [q EXCEPT !.toClient = Append(@, m)]

-----------------------------------------------------------------------------
(* The router handles a message.                                           *)

\* A request may be refused; what is not there cannot be taken back.
onRequest(q, m) ==
    LET ok(type, about) == {reply(q, Message(type, m.request, about))}
        refused(kind) == {reply(q, Error(kind, m.request))}
    IN  CASE m.type = "SUBSCRIBE" ->
               refused("subscribe")
               \cup {[x EXCEPT !.subs = @ \cup {m.about}] : x \in ok("SUBSCRIBED", m.about)}
          [] m.type = "REGISTER" ->
               refused("register")
               \cup {[x EXCEPT !.regs = @ \cup {m.request}] : x \in ok("REGISTERED", m.request)}
          [] m.type = "UNSUBSCRIBE" ->
               IF m.about \notin q.subs THEN refused("unsubscribe")
               ELSE {[x EXCEPT !.subs = @ \ {m.about}] : x \in ok("UNSUBSCRIBED", 0)}
          [] m.type = "UNREGISTER" ->
               IF m.about \notin q.regs THEN refused("unregister")
               ELSE {[x EXCEPT !.regs = @ \ {m.about}] : x \in ok("UNREGISTERED", 0)}
          [] m.type = "PUBLISH" -> refused("publish") \cup ok("PUBLISHED", 0)
          [] m.type = "CALL" -> {[q EXCEPT !.calls = @ \cup {m.request}]}
          [] m.type = "CANCEL" ->
               IF m.request \notin q.calls THEN {q}
               ELSE {[x EXCEPT !.calls = @ \ {m.request}] : x \in refused("call")}
          [] m.type \in {"YIELD", "ERROR"} ->
               {[q EXCEPT !.open = @ \ {m.about}, !.stray = @ \/ m.about \notin q.open]}
          [] m.type = "GOODBYE" -> {[reply(q, Message("GOODBYE", 0, 0)) EXCEPT !.phase = "out"]}
          [] OTHER -> {[q EXCEPT !.phase = "out"]}

greet(q, types) ==
    {[reply(q, Message(type, 0, 0)) EXCEPT
        !.phase = CASE type = "WELCOME" -> "joined" [] type = "CHALLENGE" -> "challenged"
                    [] type = "ABORT" -> "out"] : type \in types}

onRouterMessage(q, m) ==
    CASE q.phase = "waiting" -> greet(q, {"WELCOME", "CHALLENGE", "ABORT"})
      [] q.phase = "challenged" /\ m.type = "AUTHENTICATE" -> greet(q, {"WELCOME", "ABORT"})
      [] q.phase = "challenged" /\ m.type # "AUTHENTICATE" -> {[q EXCEPT !.phase = "out"]}
      [] q.phase = "joined" -> onRequest(q, m)
      [] q.phase = "closing" -> {[q EXCEPT !.phase = IF m.type = "GOODBYE" THEN "out" ELSE @]}
      [] q.phase = "out" -> {q}

Handle ==
    /\ r.toRouter # <<>>
    /\ r' \in onRouterMessage([r EXCEPT !.toRouter = Tail(@)], Head(r.toRouter))
    /\ UNCHANGED s

-----------------------------------------------------------------------------
(* What the router sends on its own.                                       *)

Answer ==
    \E i \in r.calls :
        /\ r.phase = "joined"
        /\ r' \in {reply([r EXCEPT !.calls = @ \ {i}], m) :
                       m \in {Message("RESULT", i, 0), Error("call", i)}}
        /\ UNCHANGED s

Event ==
    /\ r.phase = "joined" /\ Len(r.toClient) < MaxQueue
    /\ \E t \in r.subs : r' = reply(r, Message("EVENT", 0, t))
    /\ UNCHANGED s

Invoke ==
    \E g \in r.regs, i \in Invocations \ r.invoked :
        /\ r.phase = "joined"
        /\ r' = reply([r EXCEPT !.invoked = @ \cup {i}, !.open = @ \cup {i}],
                      Message("INVOCATION", g, i))
        /\ UNCHANGED s

\* May cross the answer it wants to prevent.
Interrupt ==
    /\ r.phase = "joined" /\ Len(r.toClient) < MaxQueue
    /\ \E i \in r.open : r' = reply(r, Message("INTERRUPT", 0, i))
    /\ UNCHANGED s

TakeBack ==
    \E g \in r.regs :
        /\ Forced /\ r.phase = "joined"
        /\ r' = reply([r EXCEPT !.regs = @ \ {g}], Message("UNREGISTERED", 0, g))
        /\ UNCHANGED s

CloseRealm ==
    /\ r.phase = "joined"
    /\ r' = reply([r EXCEPT !.phase = "closing"], Message("GOODBYE", 0, 0))
    /\ UNCHANGED s

Router == Answer \/ Event \/ Invoke \/ Interrupt \/ TakeBack \/ CloseRealm

-----------------------------------------------------------------------------
(* The session's steps; what it sends is under way.                        *)

Transmit == r' = [r EXCEPT !.toRouter = @ \o s'.sent]

Deliver ==
    /\ r.toClient # <<>>
    /\ Receive(Head(r.toClient))
    /\ r' = [r EXCEPT !.toClient = Tail(@), !.toRouter = @ \o s'.sent]

\* The application makes requests once it has joined.
Requesting ==
    /\ s.joins > 0
    /\ Subscribe \/ Unsubscribe \/ Register \/ Unregister \/ Call \/ Publish
    /\ Transmit

Cancelling ==
    /\ CancelReply
    /\ \A i \in Ids : s'.reply[i] # s.reply[i] => s.outstanding[i] \in Cancelled
    /\ Transmit

Leaving == (Leave \/ Disconnect) /\ Transmit

Finishing == (EndpointDone \/ WelcomeDone \/ ChallengeDone) /\ Transmit

Hooks == (WelcomeDone \/ ChallengeDone) /\ Transmit

Opening == OnOpen /\ Transmit

Lost ==
    /\ TransportLost
    /\ r' = [r EXCEPT !.phase = "out", !.toRouter = <<>>, !.toClient = <<>>]

PeerClosed == PeerClosing /\ UNCHANGED r

\* Somebody wants the transport closed: the closing handshake's timeouts, or
\* the router, see to it.
Ending == (s.transport \in {"closing", "deaf"} \/ r.phase = "out") /\ Lost

RealmInit ==
    /\ Init
    /\ r = [phase |-> "waiting", subs |-> {}, regs |-> {}, calls |-> {}, invoked |-> {},
            open |-> {}, stray |-> FALSE, toRouter |-> <<>>, toClient |-> <<>>]

RealmNext ==
    \/ Handle \/ Router \/ Deliver \/ Requesting \/ Cancelling \/ Leaving
    \/ Finishing \/ Opening \/ Lost \/ PeerClosed

RealmSpec == RealmInit /\ [][RealmNext]_<<s, r>>

\* The router answers what it is asked and the callee of a call returns; the
\* reactor delivers what arrived; hooks finish; a closing transport is closed.
FairSpec ==
    /\ RealmSpec
    /\ WF_<<s, r>>(Handle) /\ WF_<<s, r>>(Answer) /\ WF_<<s, r>>(Deliver)
    /\ WF_<<s, r>>(Hooks) /\ WF_<<s, r>>(Ending)

-----------------------------------------------------------------------------
(* Properties.                                                             *)

\* A router that keeps to the protocol is never accused of breaking it, however
\* its messages cross the session's (unless the session has denied the WELCOME).
NoProtocolError == s.bailedOut = "protocol" => s.denied

\* The router gets one answer to an invocation, also when INTERRUPT crosses it.
OneAnswerPerInvocation == ~r.stray

Quiet == /\ s.joined /\ r.phase = "joined" /\ s.transport = "open"
         /\ r.toRouter = <<>> /\ r.toClient = <<>>

\* With nothing under way, the topics with a handler are those the broker sends
\* events for, however SUBSCRIBE and UNSUBSCRIBE crossed their answers.
SubscriptionsAgree ==
    Quiet => {t \in Topics : s.handlers[t] # <<>>} = r.subs

\* With nothing under way, the active registrations are the dealer's.
RegistrationsAgree == Quiet => s.enabled = r.regs

\* With nothing under way, the invocations being processed are the dealer's.
InvocationsAgree == Quiet => s.invocations = r.open

\* What the two know of subscriptions, registrations and invocations agrees when
\* nothing is under way, no invocation is answered twice, and the session's own
\* subscription objects and dispatch lists agree at any time.
SessionAndRouterAgree ==
    /\ OneAnswerPerInvocation /\ ActiveIsListed
    /\ SubscriptionsAgree /\ RegistrationsAgree /\ InvocationsAgree

\* A session that the application leaves is left in the end: GOODBYE is answered
\* or the transport is lost.
LeaveCompletes == s.goodbyeSent /\ s.joined ~> ~s.joined

\* An event reaches every handler of its topic.
EveryHandlerCalled == ~s.skipped

\* Every request the application waits for is answered in the end.
RequestsAnswered == \A i \in Ids : s.reply[i] = "pending" ~> s.reply[i] # "pending"

\* Requests and goodbyes come to an end.
EverythingEnds == RequestsAnswered /\ LeaveCompletes
=============================================================================
