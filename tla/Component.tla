----------------------------- MODULE Component -----------------------------
(***************************************************************************)
(* A WAMP component (autobahn/wamp/component.py with its subclasses for    *)
(* Twisted and asyncio): it tries its transports in turn, with delays,     *)
(* runs a session over each connection, authenticates, runs main, and is   *)
(* done, or tries again.  One action is one entry from the event loop; on  *)
(* asyncio the callbacks that an entry schedules run before the next one.  *)
(***************************************************************************)
EXTENDS Authentication, ComponentTransport

CONSTANTS
    Options,     \* the components considered: records, see OptionType
    MaxStarts,   \* bound: calls of start()
    MaxLive      \* bound: connections not closed yet when another is begun

OptionType ==
    [twisted : BOOLEAN,
     transports : Seq(TransportType),      \* max_retries of -1: no limit
     main : BOOLEAN,                        \* there is a main function
     fatal : BOOLEAN,                       \* is_fatal may say so
     stops : BOOLEAN,                       \* the application calls stop()
     loses : BOOLEAN,                       \* transports get lost in a session
     configs : Seq([name : Methods, authid : {None, "joe"}, authrole : {None, "user"},
                    secret : {None, "secret"}, binding : {None, "tls-unique"}]),
     tls : BOOLEAN,
     router : {"secret", "other"},          \* what the router has for the principal
     lies : BOOLEAN]                        \* it lets in whom it could not verify

ASSUME ComponentAssumption ==
    /\ None \notin {"sleeping", "channel"}
    /\ MaxStarts \in Nat /\ MaxLive \in Nat \ {0}
    /\ \A o \in Options : o \in OptionType /\ o.transports # <<>>
    \* the configurations come from a dictionary with the methods for its keys
    /\ \A o \in Options : \A j, k \in DOMAIN o.configs :
          o.configs[j].name = o.configs[k].name => j = k
    \* the value of the key "serializer" is the first of the serializers
    /\ \A o \in Options : \A t \in DOMAIN o.transports :
          "serializer" \in o.transports[t].given => o.transports[t].serializers # <<>>

VARIABLES
    opt,      \* the options of this component
    c         \* the component, its reconnect loop and its connections

vars == <<opt, c>>

Transports == DOMAIN opt.transports
max_retries(t) == opt.transports[t].max_retries
Attempts == DOMAIN c.attempts
channel_id == IF opt.tls THEN "channel" ELSE None

-----------------------------------------------------------------------------
(* The component's future, and the reconnect loop.                         *)

\* _done_f is forgotten as soon as it is resolved; a second resolution raises
\* and has no effect.
resolveDone(p, outcome) ==
    IF p.done_f = "none" THEN p ELSE [p EXCEPT !.done_f = "none", !.outcome = outcome]

can_reconnect(p, t) ==
    /\ ~p.permanent[t]
    /\ max_retries(t) = -1 \/ p.connect_attempts[t] < max_retries(t) + 1

\* The transports in the order in which the cycle comes to them.
cycle(p) ==
    LET n == Len(opt.transports)
    IN  [k \in Transports |-> IF p.next + k - 1 <= n THEN p.next + k - 1 ELSE p.next + k - 1 - n]

transport_check(p) ==
    IF \A t \in Transports : ~can_reconnect(p, t)
    THEN resolveDone([p EXCEPT !.check = FALSE], "failed")
    ELSE LET order == cycle(p)
             k == CHOOSE i \in Transports :
                      /\ can_reconnect(p, order[i])
                      /\ \A j \in 1 .. i - 1 : ~can_reconnect(p, order[j])
         IN  [p EXCEPT !.check = FALSE, !.candidate = order[k],
                       !.next = IF order[k] = Len(opt.transports) THEN 1 ELSE order[k] + 1,
                       !.delay_f = "sleeping"]

\* The start event failed, or the delay was cancelled.
error(p) ==
    resolveDone([p EXCEPT !.delay_f = None], IF p.stopping THEN "success" ELSE "failed")

\* Connections, and the nonces of their sessions, are told apart by a number.
number(p) == CHOOSE n \in 1 .. MaxLive : n \notin DOMAIN p.attempts

attempt(t) ==
    [transport |-> t, dialled |-> connect_transport(opt.transports[t], opt.twisted),
     phase |-> "connecting", done |-> "pending", attached |-> FALSE,
     goodbye_sent |-> FALSE, aborted |-> FALSE, session |-> FALSE, main |-> "none",
     auths |-> <<>>, hello |-> None, extra |-> None, method |-> None,
     signature |-> None, joinedBy |-> None]

\* session_done.  An attempt's future is resolved once.
succeeded(p, i) ==
    IF p.attempts[i].done # "pending" THEN p
    ELSE resolveDone([p EXCEPT !.attempts[i].done = "success"], "success")

\* connect_error: connectfailure is fired, then transport_check is scheduled.
rejected(p, i, fatal) ==
    IF p.attempts[i].done # "pending" THEN p
    ELSE [p EXCEPT !.attempts[i].done = "failed", !.check = TRUE,
                   !.permanent[p.candidate] = @ \/ fatal]

\* _connect_once: what _connect_transport raises fails the attempt at once.
connecting(p, fatal) ==
    LET t == p.candidate
        i == number(p)
        q == [p EXCEPT !.attempts =
                 [j \in DOMAIN @ \cup {i} |-> IF j = i THEN attempt(t) ELSE @[j]]]
    IN  IF ~q.attempts[i].dialled.raised THEN q
        ELSE rejected([q EXCEPT !.attempts[i].phase = "closed", !.raised[t] = TRUE], i, fatal)

\* Mutant: the attempt is not counted.
attemptConnectUncounted(p, fatal) ==
    connecting([p EXCEPT !.delay_f = None], fatal)

\* Attempts on a transport without a limit are counted as none or some.
attempt_connect(p, fatal) ==
    connecting([p EXCEPT !.delay_f = None,
                         !.connect_attempts[p.candidate] =
                             IF max_retries(p.candidate) = -1 THEN 1 ELSE @ + 1], fatal)

-----------------------------------------------------------------------------
(* The session of one attempt.                                             *)

\* disconnect() closes the transport, whose loss is reported later.
disconnect(p, i) ==
    IF p.attempts[i].phase = "session" THEN [p EXCEPT !.attempts[i].phase = "closing"] ELSE p

\* The listener of the leave event.
on_leave(p, i, reason, fatal) ==
    IF reason \in {"wamp.close.normal", "wamp.close.goodbye_and_out"}
    THEN succeeded([p EXCEPT !.left = TRUE], i) ELSE rejected(p, i, fatal)

\* onLeave disconnects, then leave is fired.
leaveSession(p, i, reason, fatal) ==
    on_leave([disconnect(p, i) EXCEPT !.attempts[i].attached = FALSE], i, reason, fatal)

leave(p, i) ==
    IF p.attempts[i].attached THEN [p EXCEPT !.attempts[i].goodbye_sent = TRUE] ELSE p

\* create_session raises when an authenticator cannot be made or added.
openSession(p, i, fatal) ==
    IF ~addable(opt.configs)
    THEN [rejected(p, i, fatal) EXCEPT !.attempts[i].phase = "closing", !.session = i]
    ELSE LET auths == authenticators(opt.configs, [client |-> i])
         IN  [p EXCEPT !.attempts[i].phase = "session", !.attempts[i].session = TRUE,
                       !.attempts[i].auths = auths, !.attempts[i].hello = hello(auths),
                       !.session = i]

\* onChallenge: AUTHENTICATE, or ABORT and the end of the session.
challenged(p, i, method, extra, fatal) ==
    LET a == p.attempts[i]
        asked == [p EXCEPT !.attempts[i].method = method, !.attempts[i].extra = extra]
        deny == leaveSession([asked EXCEPT !.attempts[i].aborted = TRUE], i,
                             "wamp.error.cannot_authenticate", fatal)
    IN  IF chosen(a.auths, method) = {} THEN deny
        ELSE LET k == CHOOSE j \in chosen(a.auths, method) : TRUE
                 r == on_challenge(a.auths[k], extra, channel_id)
             IN  IF r.raised THEN deny
                 ELSE [asked EXCEPT !.attempts[i].auths[k] = r.a,
                                    !.attempts[i].signature = r.signature]

\* onWelcome may deny the session: ABORT is sent, and that is all.  The on_join
\* listener is there when main is.
welcomed(p, i, method, proof) ==
    LET a == p.attempts[i]
        verdict == IF method = None \/ a.auths = <<>> THEN "accepted"
                   ELSE IF chosen(a.auths, method) = {} THEN "raised"
                   ELSE on_welcome(a.auths[CHOOSE j \in chosen(a.auths, method) : TRUE], proof)
        joined == [p EXCEPT !.attempts[i].attached = TRUE, !.attempts[i].joinedBy = method]
    IN  IF verdict # "accepted" THEN [p EXCEPT !.attempts[i].aborted = TRUE]
        ELSE IF ~opt.main THEN joined
        ELSE [joined EXCEPT !.connect_attempts[a.transport] = 0, !.attempts[i].main = "running"]

\* main_error rejects the attempt's future, which raises when it has a result.
main_error(p, i, fatal) ==
    IF p.attempts[i].done # "pending" THEN p ELSE disconnect(rejected(p, i, fatal), i)

\* Mutant: nobody listens for the end of the connection.
lostUnheard(p, i, clean, fatal) ==
    IF p.attempts[i].attached
    THEN leaveSession([p EXCEPT !.attempts[i].phase = "closed"], i,
                      "wamp.close.transport_lost", fatal)
    ELSE [p EXCEPT !.attempts[i].phase = "closed"]

\* connection_lost, as on_connect_success wrapped it: the session's leave and
\* disconnect events, then the attempt's failure.  On Twisted the events come
\* first, on asyncio their listeners run after the wrapper.
lost(p, i, clean, fatal) ==
    LET a == p.attempts[i]
        closed == [p EXCEPT !.attempts[i].phase = "closed"]
        left == IF a.attached
                THEN leaveSession(closed, i, "wamp.close.transport_lost", fatal) ELSE closed
        disconnected == IF a.session /\ clean THEN succeeded(left, i) ELSE left
    IN  IF opt.twisted THEN rejected(disconnected, i, fatal)
        ELSE [rejected(closed, i, fatal) EXCEPT !.attempts[i].attached = FALSE]

over(a) == a.phase = "closed" /\ a.done # "pending"

\* Connections that are closed are forgotten: what main does after that has no
\* effect on the component.
swept(p) ==
    [p EXCEPT !.attempts = [i \in {j \in DOMAIN @ : ~over(@[j])} |-> @[i]]]

-----------------------------------------------------------------------------
(* The component is started and stopped.                                   *)

Init ==
    /\ opt \in Options
    \* completed, left: whether main ever returned, a session ever left normally
    /\ c = [done_f |-> "none", outcome |-> None, stopping |-> FALSE, starts |-> 0,
            check |-> FALSE, delay_f |-> None, next |-> 1, candidate |-> 1, stops |-> 0,
            completed |-> FALSE, left |-> FALSE,
            connect_attempts |-> [t \in Transports |-> 0],
            permanent |-> [t \in Transports |-> FALSE],
            \* accepted: whether Component() took the transports; raised: connecting raised
            accepted |-> \A t \in Transports : accepts(opt.transports[t], opt.twisted),
            raised |-> [t \in Transports |-> FALSE],
            \* session: whose session was made last; attempts: by their numbers
            session |-> 0, attempts |-> [i \in {} |-> 0]]

To(next) == c' = swept(next)

\* The application starts a component again when nothing of it is under way.
Idle == c.done_f = "none" /\ ~c.check /\ c.delay_f = None /\ Attempts = {}

Start ==
    /\ c.accepted
    /\ Idle /\ c.starts < MaxStarts
    /\ LET started == [c EXCEPT !.starts = @ + 1, !.done_f = "pending", !.outcome = None,
                                !.next = 1]
       IN  To(transport_check(started)) \/ To(error(started))
    /\ UNCHANGED opt

\* The session stop() looks at is the last one made.
stop(p) ==
    LET q == [p EXCEPT !.stopping = TRUE]
    IN  IF p.session \in DOMAIN p.attempts /\ p.attempts[p.session].attached THEN leave(q, p.session)
        ELSE IF p.delay_f # None THEN error(q)
        ELSE resolveDone(q, "success")

Stop ==
    /\ opt.stops /\ c.done_f = "pending"
    /\ c.stops = 0
    /\ To([stop(c) EXCEPT !.stops = 1])
    /\ UNCHANGED opt

TransportCheck == c.check /\ To(transport_check(c)) /\ UNCHANGED opt

DelayOver ==
    /\ c.delay_f # None
    /\ Attempts # 1 .. MaxLive
    /\ \E fatal \in {FALSE, opt.fatal} : To(attempt_connect(c, fatal))
    /\ UNCHANGED opt

-----------------------------------------------------------------------------
(* The connection and the router.                                          *)

Fatal == {FALSE, opt.fatal}

\* The endpoint does not connect, or not in time.
ConnectFails(i) ==
    /\ c.attempts[i].phase = "connecting"
    /\ \E fatal \in Fatal :
        To(rejected([c EXCEPT !.attempts[i].phase = "closed"], i, fatal))
    /\ UNCHANGED opt

Connects(i) ==
    /\ c.attempts[i].phase = "connecting"
    /\ To([c EXCEPT !.attempts[i].phase = "handshake"])
    /\ UNCHANGED opt

\* The transport's handshake is done.
OnOpen(i) ==
    /\ c.attempts[i].phase = "handshake"
    /\ \E fatal \in Fatal : To(openSession(c, i, fatal))
    /\ UNCHANGED opt

\* The router answers HELLO, with a nonce of its own.
awaits(i) ==
    LET a == c.attempts[i]
    IN  a.phase = "session" /\ ~a.attached /\ ~a.aborted /\ a.joinedBy = None

RouterChallenges(i) ==
    /\ awaits(i) /\ c.attempts[i].method = None
    /\ \E method \in c.attempts[i].hello.authmethods \ {"anonymous"} :
        \E extra \in challengeExtra([router |-> i]), fatal \in Fatal :
            /\ conforming(method, extra)
            /\ To(challenged(c, i, method, extra, fatal))
    /\ UNCHANGED opt

verified(i) ==
    LET a == c.attempts[i]
    IN  verifies(opt.router, a.method, a.hello, a.extra, channel_id, a.signature)

RouterWelcomes(i) ==
    /\ awaits(i)
    /\ LET a == c.attempts[i] IN
        \/ /\ a.hello.authmethods \subseteq {"anonymous"}
           /\ To(welcomed(c, i, None, None))
        \/ /\ a.signature # None /\ (verified(i) \/ opt.lies)
           /\ To(welcomed(c, i, a.method,
                          IF a.method = "scram" THEN serverProof(opt.router, a.hello, a.extra)
                          ELSE None))
    /\ UNCHANGED opt

\* There is no such realm, or the signature is not the principal's.
RouterAborts(i) ==
    /\ awaits(i)
    /\ c.attempts[i].signature # None => ~verified(i)
    /\ \E fatal \in Fatal : To(leaveSession(c, i, "wamp.error.abort", fatal))
    /\ UNCHANGED opt

\* GOODBYE, of the router or in reply to ours.
RouterSaysGoodbye(i) ==
    /\ c.attempts[i].phase = "session" /\ c.attempts[i].attached
    /\ \E reason \in IF c.attempts[i].goodbye_sent THEN {"wamp.close.goodbye_and_out"}
                     ELSE {"wamp.close.normal", "wamp.close.system_shutdown"},
          fatal \in Fatal :
        To(leaveSession(c, i, reason, fatal))
    /\ UNCHANGED opt

\* main returns, and leave() is called in a later turn of the event loop; or
\* main raises.
MainReturns(i) ==
    /\ c.attempts[i].main = "running"
    /\ To([c EXCEPT !.attempts[i].main = "returned", !.completed = TRUE])
    /\ UNCHANGED opt

LeaveAfterMain(i) ==
    /\ c.attempts[i].main = "returned"
    /\ To([leave(c, i) EXCEPT !.attempts[i].main = "over"])
    /\ UNCHANGED opt

MainRaises(i) ==
    /\ c.attempts[i].main = "running"
    /\ \E fatal \in Fatal : To(main_error([c EXCEPT !.attempts[i].main = "over"], i, fatal))
    /\ UNCHANGED opt

\* The transport closes: for a reason of its own, or because an end closed it.
\* The router closes it, cleanly, when the session was aborted by the client.
ConnectionLost(i) ==
    /\ \/ c.attempts[i].phase \in {"handshake", "closing"}
       \/ c.attempts[i].phase = "session" /\ (opt.loses \/ c.attempts[i].aborted)
    /\ \E fatal \in Fatal, clean \in BOOLEAN : To(lost(c, i, clean, fatal))
    /\ UNCHANGED opt

Connection(i) ==
    \/ ConnectFails(i) \/ Connects(i) \/ OnOpen(i)
    \/ RouterChallenges(i) \/ RouterWelcomes(i) \/ RouterAborts(i) \/ RouterSaysGoodbye(i)
    \/ MainReturns(i) \/ LeaveAfterMain(i) \/ MainRaises(i) \/ ConnectionLost(i)

Next ==
    \/ Start \/ Stop \/ TransportCheck \/ DelayOver
    \/ \E i \in Attempts : Connection(i)

Spec == Init /\ [][Next]_vars

\* What the reactor, the network and the router do sooner or later: timers run,
\* connecting ends one way or the other, the router answers a HELLO or the
\* connection is lost, and a connection an end closes is closed.
Progress(i) ==
    /\ i \in Attempts
    /\ \/ ConnectFails(i) \/ Connects(i) \/ OnOpen(i)
       \/ RouterChallenges(i) \/ RouterWelcomes(i) \/ RouterAborts(i)
       \/ ~c.attempts[i].attached /\ ConnectionLost(i)
       \/ c.attempts[i].phase = "closing" /\ ConnectionLost(i)

FairSpec ==
    /\ Spec
    /\ WF_vars(TransportCheck) /\ WF_vars(DelayOver)
    /\ \A i \in 1 .. MaxLive : WF_vars(Progress(i))

-----------------------------------------------------------------------------
(* Properties.                                                             *)

\* While start()'s future is outstanding exactly one thing is under way that can
\* bring the component on: a scheduled transport_check, a delay, or an attempt
\* with an open connection.  Neither does the reconnect loop die (no session
\* event or failure goes unheard), nor does it run twice.
OneThingUnderWay ==
    c.done_f = "pending" =>
        (IF c.check THEN 1 ELSE 0) + (IF c.delay_f # None THEN 1 ELSE 0)
            + Cardinality({i \in Attempts : /\ c.attempts[i].done = "pending"
                                            /\ c.attempts[i].phase # "closed"}) = 1

\* A session that joined by WAMP-SCRAM has had the router prove that it knows the
\* principal's credentials.
JoinedIsMutual ==
    \A i \in Attempts :
        c.attempts[i].attached /\ c.attempts[i].joinedBy = "scram" =>
            \E k \in DOMAIN opt.configs :
                opt.configs[k].name = "scram" /\ opt.configs[k].secret = opt.router

\* Client and router with the same secret accept each other, whatever the method,
\* its parameters and the session's other authenticators.
CredentialsAccepted ==
    (opt.router = "secret" /\ (\A k \in DOMAIN opt.configs :
                                   opt.configs[k].binding # None => opt.tls)) =>
        \A i \in Attempts :
            ~c.attempts[i].aborted /\ (c.attempts[i].signature # None => verified(i))

\* A component with limited retries does not fail to connect for ever: again and
\* again a session is joined, until the component is done.
JoinsOrEnds ==
    (\A t \in Transports : max_retries(t) # -1) =>
        []<>(c.done_f = "none" \/ \E i \in Attempts : c.attempts[i].attached)

\* A connection goes where the configuration says, with TLS or without; and only
\* for a wrong value does connecting raise: what a configuration has to have was
\* asked for by Component() (component.py:106-260).
DialsItsRouter ==
    /\ \A i \in Attempts : c.attempts[i].dialled = router(opt.transports[c.attempts[i].transport])
    /\ \A t \in Transports : c.raised[t] => ~valuesAreRight(opt.transports[t], opt.twisted)

\* stop() ends the reconnect loop: no further delay begins.
StopIsFinal == [][c.stopping /\ c.delay_f = None => c'.delay_f = None]_vars

\* Once main has returned the component does not connect again.
MainIsFinal == [][c.completed /\ c.delay_f = None => c'.delay_f = None]_vars

\* The component ends well only when a session left normally or it was stopped.
SuccessIsEarned == c.outcome = "success" => c.left \/ c.stopping
=============================================================================
