------------------------- MODULE WebSocketProtocol -------------------------
(***************************************************************************)
(* One endpoint of a WebSocket connection: the protocol instance of        *)
(* autobahn/websocket/protocol.py with its Twisted or asyncio adapter.     *)
(* The module follows the connection from the established byte stream      *)
(* through the opening handshake, auto-ping and closing handshake to the   *)
(* lost byte stream.                                                       *)
(*                                                                         *)
(* The attributes of the instance are the fields of the record ws.  Every  *)
(* method is an operator from an instance to an instance (methods call     *)
(* each other in sequence, and the later call sees what the earlier one    *)
(* assigned); every entry from the event loop -- bytes received, stream    *)
(* lost, a timer, a handler's future, a call of the application -- is an   *)
(* action that applies one of them.                                        *)
(***************************************************************************)
EXTENDS Naturals

CONSTANTS
    IsServer,                     \* factory.isServer
    HasProxy,                     \* factory.proxy is not None (clients)
    Asyncio,                      \* the asyncio adapter; else Twisted's
    AsyncHandlers,                \* onConnecting/onConnect may return a future
    HandlersMayRaise,             \* onMessage may raise
    FailByDrop,                   \* option failByDrop
    OpenHandshakeTimeout,         \* options, each reduced to "is it > 0"
    CloseHandshakeTimeout,
    ServerConnectionDropTimeout,
    AutoPingInterval,
    AutoPingTimeout,
    AutoPingRestartOnAnyTraffic,
    ServeFlashSocketPolicy,
    MaxLive,      \* bound: drop timers a peer's repeated Close frames may start
    MaxRequests   \* bound: complete HTTP requests a client sends

ASSUME OptionsAssumption ==
    /\ {IsServer, HasProxy, Asyncio, AsyncHandlers, HandlersMayRaise, FailByDrop,
        OpenHandshakeTimeout, CloseHandshakeTimeout, ServerConnectionDropTimeout,
        AutoPingInterval, AutoPingTimeout, AutoPingRestartOnAnyTraffic,
        ServeFlashSocketPolicy} \subseteq BOOLEAN
    /\ HasProxy => ~IsServer
    /\ ServeFlashSocketPolicy => IsServer
    \* asyncio runs the callbacks of a finished future in a later iteration
    /\ Asyncio => AsyncHandlers
    /\ MaxLive \in Nat \ {0}
    /\ MaxRequests \in Nat \ {0}

VARIABLE ws

vars == <<ws>>

States == {"PROXY_CONNECTING", "CONNECTING", "OPEN", "CLOSING", "CLOSED"}

\* The delayed calls an instance keeps a handle of.
Timers == {"openHandshake", "closeHandshake", "serverDrop", "autoPing", "autoPingTimeout"}

\* Why the connection was not clean (wasNotCleanReason and the was... flags).
Reasons == {"none", "openHandshakeTimeout", "closeHandshakeTimeout",
            "serverDropTimeout", "pingTimeout", "failed", "handshake", "peerDropped"}

Instances ==
    [state : States,
     tcp : {"up", "closing", "aborting", "lost"},  \* the adapter's transport
     receiving : BOOLEAN,                   \* the adapter still hands in bytes
     closedByMe : BOOLEAN, failedByMe : BOOLEAN, droppedByMe : BOOLEAN,
     wasClean : BOOLEAN, wasNotCleanReason : Reasons,
     servingFlash : BOOLEAN,                \* wasServingFlashSocketPolicyFile
     isOpen : BOOLEAN, isClosed : BOOLEAN,  \* futures is_open, is_closed resolved
     handle : [Timers -> BOOLEAN],          \* xxxCall is not None
     live : [Timers -> Nat],                \* delayed calls not run nor cancelled
     autoPingPending : {"none", "sent", "unsent"},  \* was the ping written?
     requests : Nat,                        \* HTTP requests taken off the stream
     connecting : BOOLEAN,                  \* onConnecting's future outstanding
     requestSent : BOOLEAN,                 \* the client sent its HTTP request
     connects : Nat,                        \* onConnect futures outstanding
     tornDown : BOOLEAN,                    \* _connectionLost ran to its end
     \* what the peer and the application saw
     closeSent : BOOLEAN, closeReceived : BOOLEAN,
     opens : Nat, closes : Nat,             \* calls of onOpen, onClose
     reported : {"none", "clean", "unclean"},  \* wasClean given to onClose
     early : BOOLEAN,                       \* onMessage was called before onOpen
     raised : BOOLEAN]                      \* a future was resolved a second time

\* The instance is well typed; above all no delayed call is cancelled twice or run
\* after it was cancelled, which would make live[t] negative.
TypeOK == ws \in Instances

-----------------------------------------------------------------------------
(* Delayed calls: a handle is overwritten by a second call_later without   *)
(* the first call being cancelled.                                         *)

arm(p, t) == [p EXCEPT !.handle[t] = TRUE, !.live[t] = @ + 1]

\* Mutant: the handle is not looked at, so that a call is cancelled twice.
cancelUnguarded(p, t) == [p EXCEPT !.handle[t] = FALSE, !.live[t] = @ - 1]

cancel(p, t) ==
    IF p.handle[t] THEN [p EXCEPT !.handle[t] = FALSE, !.live[t] = @ - 1] ELSE p

expire(p, t) == [p EXCEPT !.handle[t] = FALSE, !.live[t] = @ - 1]

armIf(option, p, t) == IF option THEN arm(p, t) ELSE p

-----------------------------------------------------------------------------
(* Dropping, failing and closing the connection.                           *)

closeConnection(p, abort) ==
    [p EXCEPT !.tcp = IF @ # "up" THEN @ ELSE IF abort THEN "aborting" ELSE "closing"]

\* Mutant: the stream is left open.
dropConnectionUnclosed(p, abort) ==
    IF p.state = "CLOSED" THEN p
    ELSE [p EXCEPT !.droppedByMe = TRUE, !.state = "CLOSED", !.isClosed = TRUE]

\* Resolving is_closed a second time raises: the stream is then not closed.
dropConnection(p, abort) ==
    IF p.state = "CLOSED" THEN p
    ELSE LET dropped == [p EXCEPT !.droppedByMe = TRUE, !.state = "CLOSED", !.isClosed = TRUE]
         IN  IF p.isClosed THEN [dropped EXCEPT !.raised = TRUE]
             ELSE closeConnection(dropped, abort)

dropUnclean(p, reason) ==
    dropConnection([p EXCEPT !.wasClean = FALSE, !.wasNotCleanReason = reason], TRUE)

\* Mutant: the timeout is started for the reply and not for our own Close.
sendCloseFrameTimedReply(p, isReply) ==
    IF p.state # "OPEN" THEN p
    ELSE armIf(isReply /\ CloseHandshakeTimeout,
               [p EXCEPT !.state = "CLOSING", !.closedByMe = ~isReply, !.closeSent = TRUE],
               "closeHandshake")

\* In CONNECTING the code raises before it changes anything.
sendCloseFrame(p, isReply) ==
    IF p.state # "OPEN" THEN p
    ELSE armIf(~isReply /\ CloseHandshakeTimeout,
               [p EXCEPT !.state = "CLOSING", !.closedByMe = ~isReply, !.closeSent = TRUE],
               "closeHandshake")

failConnection(p) ==
    IF p.state = "CLOSED" THEN p
    ELSE LET failed == [p EXCEPT !.failedByMe = TRUE]
         IN  IF FailByDrop THEN dropUnclean(failed, "failed")
             ELSE IF p.state # "CLOSING" THEN sendCloseFrame(failed, FALSE)
             ELSE dropConnection(failed, FALSE)

\* Mutant: is_closed is resolved without looking at the state.
connectionLostUnguarded(p) ==
    LET q == [p EXCEPT !.tcp = "lost", !.state = "CLOSED", !.isClosed = TRUE]
    IN  IF p.isClosed THEN [q EXCEPT !.raised = TRUE]
        ELSE [q EXCEPT !.tornDown = TRUE, !.closes = 1]

connectionLost(p) ==
    LET q == cancel(cancel(cancel(cancel([p EXCEPT !.tcp = "lost"],
                 "serverDrop"), "autoPing"), "autoPingTimeout"), "openHandshake")
        r == [q EXCEPT !.state = "CLOSED", !.isClosed = TRUE]
    IN  IF q.state # "CLOSED" /\ q.isClosed THEN [r EXCEPT !.raised = TRUE]
        ELSE IF r.servingFlash THEN [r EXCEPT !.tornDown = TRUE]
        ELSE [r EXCEPT !.tornDown = TRUE,
                       !.closes = @ + 1,
                       !.reported = IF r.wasClean THEN "clean" ELSE "unclean",
                       !.wasNotCleanReason =
                           IF ~r.wasClean /\ ~r.droppedByMe /\ @ = "none"
                           THEN "peerDropped" ELSE @]

\* An exception out of dataReceived: Twisted loses the connection on the spot,
\* under asyncio the receive loop ends with the transport left open.
raiseFromDataReceived(p) ==
    IF Asyncio THEN [p EXCEPT !.receiving = FALSE] ELSE connectionLost(p)

-----------------------------------------------------------------------------
(* The opening handshake.                                                  *)

\* asyncio's adapter forgets its transport at the end of connection_lost, so
\* that a later write raises.
transportForgotten(p) == Asyncio /\ p.tcp = "lost" /\ p.tornDown

\* Server and client alike: the instance turns OPEN ...
enterOpen(p) ==
    armIf(AutoPingInterval, cancel([p EXCEPT !.state = "OPEN"], "openHandshake"), "autoPing")

\* ... and the application is told, is_open being resolved after it.
fireOnOpen(p) ==
    LET q == [p EXCEPT !.opens = @ + 1]
    IN  IF q.isOpen THEN [q EXCEPT !.raised = TRUE] ELSE [q EXCEPT !.isOpen = TRUE]

\* Server: the response is sent and the state set whatever the state is now.
succeedHandshake(p) ==
    IF transportForgotten(p) THEN p ELSE fireOnOpen(enterOpen(p))

failHandshake(p) ==
    dropConnection([p EXCEPT !.wasNotCleanReason = "handshake"], ~IsServer)

\* How onConnect ended; "invalid" is a subprotocol the client did not offer,
\* which raises inside succeedHandshake (servers only).
Outcomes == IF IsServer THEN {"accept", "deny", "invalid"} ELSE {"accept", "deny"}

finishOnConnect(p, outcome) ==
    CASE outcome = "accept" -> IF IsServer THEN succeedHandshake(p) ELSE fireOnOpen(p)
      [] outcome = "deny" -> IF IsServer THEN failHandshake(p) ELSE failConnection(p)
      [] outcome = "invalid" -> p

callOnConnect(p, outcome) ==
    IF AsyncHandlers THEN [p EXCEPT !.connects = @ + 1] ELSE finishOnConnect(p, outcome)

\* Client: onConnecting gave the request options, or failed.
finishOnConnecting(p, ok) ==
    IF ok THEN [p EXCEPT !.requestSent = TRUE] ELSE dropConnection(p, FALSE)

startHandshake(p, ok) ==
    IF AsyncHandlers THEN [p EXCEPT !.connecting = TRUE] ELSE finishOnConnecting(p, ok)

\* _connectionMade: the attributes' initial values ...
noHandles == [t \in Timers |-> FALSE]
noCalls == [t \in Timers |-> 0]

blankInstance ==
    [state |-> IF HasProxy THEN "PROXY_CONNECTING" ELSE "CONNECTING",
     tcp |-> "up", receiving |-> TRUE,
     closedByMe |-> FALSE, failedByMe |-> FALSE, droppedByMe |-> FALSE,
     wasClean |-> FALSE, wasNotCleanReason |-> "none", servingFlash |-> FALSE,
     isOpen |-> FALSE, isClosed |-> FALSE,
     handle |-> noHandles, live |-> noCalls,
     autoPingPending |-> "none", requests |-> 0,
     connecting |-> FALSE, requestSent |-> FALSE, connects |-> 0,
     tornDown |-> FALSE, closeSent |-> FALSE, closeReceived |-> FALSE,
     opens |-> 0, closes |-> 0, reported |-> "none", early |-> FALSE, raised |-> FALSE]

\* Mutant: the timeout is started with the handshake and not with the stream.
freshInstanceUntimed == blankInstance

\* ... and the opening handshake's timeout.
freshInstance == armIf(OpenHandshakeTimeout, blankInstance, "openHandshake")

connectionMade(ok) ==
    IF IsServer \/ HasProxy THEN freshInstance ELSE startHandshake(freshInstance, ok)

Init == \E ok \in BOOLEAN : ws = connectionMade(ok)

-----------------------------------------------------------------------------
(* Frames received in OPEN and CLOSING.                                    *)

\* Every failing check of a frame's header or payload calls _fail_connection;
\* without failByDrop the next checks follow.  After the second failure the
\* connection is closed, further ones change nothing.
failTimes(p, n) ==
    CASE n = 0 -> p
      [] n = 1 -> failConnection(p)
      [] n = 2 -> failConnection(failConnection(p))

\* Mutants: a server drops the stream without a reply; a client's wait for the
\* stream to be dropped is not timed.
onCloseFrameUnanswered(p, faults) ==
    LET clean == [p EXCEPT !.closeReceived = TRUE, !.wasClean = TRUE]
    IN  IF faults > 0 THEN failTimes(p, faults) ELSE dropConnection(clean, FALSE)

onCloseFrameUntimed(p, faults) ==
    LET clean == [p EXCEPT !.closeReceived = TRUE, !.wasClean = TRUE]
    IN  IF faults > 0 THEN failTimes(p, faults)
        ELSE IF p.state = "CLOSING" THEN cancel(clean, "closeHandshake")
        ELSE sendCloseFrame(clean, TRUE)

\* The default onCloseFrame; "faults" counts an invalid code and an invalid
\* reason of the Close frame.
onCloseFrame(p, faults) ==
    LET q == failTimes([p EXCEPT !.closeReceived = TRUE], faults)
        clean == [q EXCEPT !.wasClean = TRUE]
        ended == cancel(clean, "closeHandshake")
        replied == sendCloseFrame(clean, TRUE)
    IN  IF faults > 0 /\ FailByDrop THEN q
        ELSE CASE q.state = "CLOSING" ->
                    IF IsServer THEN dropConnection(ended, TRUE)
                    ELSE armIf(ServerConnectionDropTimeout, ended, "serverDrop")
               [] q.state = "OPEN" ->
                    IF IsServer THEN dropConnection(replied, FALSE) ELSE replied
               [] OTHER -> [q EXCEPT !.wasClean = FALSE]

\* Mutant: the next ping is not scheduled.
onPendingPongLast(p) == [cancel(p, "autoPingTimeout") EXCEPT !.autoPingPending = "none"]

\* A Pong that carries the pending auto-ping's payload.
onPendingPong(p) ==
    armIf(AutoPingInterval,
          [cancel(p, "autoPingTimeout") EXCEPT !.autoPingPending = "none"], "autoPing")

\* Any data frame stands in for the awaited Pong.
cancelAutoPingTimeoutCall(p) ==
    armIf(AutoPingInterval,
          cancel([cancel(p, "autoPingTimeout") EXCEPT !.autoPingPending = "none"], "autoPing"),
          "autoPing")

\* The end of a data frame, and of a message when fin: then onMessage is
\* called unless the connection was failed.
onDataFrameEnd(p, fin, raises) ==
    LET q == IF p.handle["autoPingTimeout"] /\ AutoPingRestartOnAnyTraffic
             THEN cancelAutoPingTimeoutCall(p) ELSE p
        told == [q EXCEPT !.early = @ \/ p.opens = 0]
    IN  IF ~fin \/ p.failedByMe THEN q
        ELSE IF raises THEN raiseFromDataReceived(told) ELSE told

Receiving == ws.tcp = "up" /\ ws.receiving

\* A frame with the given number of failing checks before its payload is
\* complete, and what processing it to its end does, unless stopped.
ReceiveFrame(violations, end(_)) ==
    LET q == failTimes(ws, violations)
    IN  /\ Receiving
        /\ ws.state \in {"OPEN", "CLOSING"}
        /\ ws' = IF violations > 0 /\ FailByDrop THEN q ELSE end(q)

Faults == 0 .. 2

\* The header of a frame whose extended length is still missing is checked
\* now and again when more bytes arrive.
ReceivePartialHeader ==
    \E violations \in Faults : ReceiveFrame(violations, LAMBDA p : p)

ReceiveData ==
    \E violations \in Faults, fin \in BOOLEAN, raises \in BOOLEAN :
        /\ raises => HandlersMayRaise /\ fin
        /\ ReceiveFrame(violations, LAMBDA p : onDataFrameEnd(p, fin, raises))

\* A Ping (answered without a change of state) or a Pong nobody waits for
\* leaves the instance as it is; a Pong answers the ping that was written.
ReceivePong ==
    \E violations \in Faults :
        /\ ws.autoPingPending = "sent"
        /\ ReceiveFrame(violations, onPendingPong)

ReceiveClose ==
    \E violations \in Faults, faults \in Faults :
        /\ ws.live["serverDrop"] < MaxLive
        /\ ReceiveFrame(violations, LAMBDA p : onCloseFrame(p, faults))

-----------------------------------------------------------------------------
(* Bytes received during the opening handshake.                            *)

\* A client's response or request whose header block does not parse.
ReceiveUnparsable ==
    /\ ~IsServer
    /\ Receiving
    /\ ws.state \in {"PROXY_CONNECTING", "CONNECTING"}
    /\ ws' = raiseFromDataReceived(ws)

ReceiveProxyResponse ==
    /\ Receiving
    /\ ws.state = "PROXY_CONNECTING"
    /\ \/ ws' = dropConnection(ws, TRUE)
       \/ \E ok \in BOOLEAN : ws' = startHandshake([ws EXCEPT !.state = "CONNECTING"], ok)

HandshakeResponse ==
    /\ ws.requestSent
    /\ \/ ws' = failHandshake(ws)
       \/ \E outcome \in Outcomes : ws' = callOnConnect(enterOpen(ws), outcome)

\* A further request is taken off the stream like the first one while
\* onConnect is still outstanding.
HandshakeRequest ==
    /\ ws.requests < MaxRequests
    /\ LET p == [ws EXCEPT !.requests = @ + 1]
       IN  \/ ws' = failHandshake(p)
           \/ ws' = dropConnection(p, FALSE)   \* plain HTTP: status page or redirect
           \/ \E outcome \in Outcomes : ws' = callOnConnect(p, outcome)

PolicyFileRequest ==
    /\ ServeFlashSocketPolicy
    /\ ws' = dropConnection([ws EXCEPT !.servingFlash = TRUE], FALSE)

\* consumeData calls the class's own processHandshake.
ReceiveHandshake ==
    /\ Receiving
    /\ ws.state = "CONNECTING"
    /\ IF IsServer THEN HandshakeRequest \/ PolicyFileRequest ELSE HandshakeResponse

\* The application's futures.
OnConnectingDone ==
    /\ ws.connecting
    /\ \E ok \in BOOLEAN : ws' = finishOnConnecting([ws EXCEPT !.connecting = FALSE], ok)

OnConnectDone ==
    /\ ws.connects > 0
    /\ \E outcome \in Outcomes : ws' = finishOnConnect([ws EXCEPT !.connects = @ - 1], outcome)

-----------------------------------------------------------------------------
(* Delayed calls that run.                                                 *)

OnOpenHandshakeTimeout ==
    LET p == expire(ws, "openHandshake")
    IN  /\ ws.live["openHandshake"] > 0
        /\ ws' = IF p.state \in {"PROXY_CONNECTING", "CONNECTING"}
                 THEN dropUnclean(p, "openHandshakeTimeout") ELSE p

OnCloseHandshakeTimeout ==
    LET p == expire(ws, "closeHandshake")
    IN  /\ ws.live["closeHandshake"] > 0
        /\ ws' = IF p.state # "CLOSED" THEN dropUnclean(p, "closeHandshakeTimeout") ELSE p

OnServerConnectionDropTimeout ==
    LET p == expire(ws, "serverDrop")
    IN  /\ ws.live["serverDrop"] > 0
        /\ ws' = IF p.state # "CLOSED" THEN dropUnclean(p, "serverDropTimeout") ELSE p

\* Mutant: the Pong is awaited for ever.
SendAutoPingUntimed ==
    /\ ws.live["autoPing"] > 0
    /\ ws' = [expire(ws, "autoPing") EXCEPT
                  !.autoPingPending = IF ws.state = "OPEN" THEN "sent" ELSE "unsent"]

\* sendPing writes nothing unless OPEN, yet the Pong is awaited.
SendAutoPing ==
    /\ ws.live["autoPing"] > 0
    /\ ws' = armIf(AutoPingTimeout,
                   [expire(ws, "autoPing") EXCEPT
                       !.autoPingPending = IF ws.state = "OPEN" THEN "sent" ELSE "unsent"],
                   "autoPingTimeout")

OnAutoPingTimeout ==
    /\ ws.live["autoPingTimeout"] > 0
    /\ ws' = dropUnclean(expire(ws, "autoPingTimeout"), "pingTimeout")

-----------------------------------------------------------------------------
(* The application and the network.                                        *)

SendClose ==
    /\ ws.state = "OPEN"
    /\ ws' = sendCloseFrame(ws, FALSE)

\* The WAMP layer bails out between onOpen and onClose.
Bailout ==
    /\ ws.opens > 0 /\ ws.closes = 0
    /\ ws.state # "CLOSED"
    /\ ws' = failConnection(ws)

\* The stream ends: the peer closed or reset it, or our own close took effect.
ConnectionLost ==
    /\ ws.tcp # "lost"
    /\ ws' = connectionLost(ws)

Timeout ==
    \/ OnOpenHandshakeTimeout
    \/ OnCloseHandshakeTimeout
    \/ OnServerConnectionDropTimeout
    \/ SendAutoPing
    \/ OnAutoPingTimeout

Receive ==
    \/ ReceiveProxyResponse
    \/ ReceiveHandshake
    \/ ReceiveUnparsable
    \/ ReceivePartialHeader
    \/ ReceiveData
    \/ ReceivePong
    \/ ReceiveClose

Next ==
    \/ Receive
    \/ Timeout
    \/ OnConnectingDone
    \/ OnConnectDone
    \/ SendClose
    \/ Bailout
    \/ ConnectionLost

Spec == Init /\ [][Next]_vars

\* The event loop runs every delayed call that is not cancelled, and reports
\* a stream we closed or aborted as lost.  Peer and application owe nothing.
Fairness ==
    /\ WF_vars(OnOpenHandshakeTimeout)
    /\ WF_vars(OnCloseHandshakeTimeout)
    /\ WF_vars(OnServerConnectionDropTimeout)
    /\ WF_vars(SendAutoPing)
    /\ WF_vars(OnAutoPingTimeout)
    /\ WF_vars(ws.tcp \in {"closing", "aborting"} /\ ConnectionLost)

FairSpec == Spec /\ Fairness

-----------------------------------------------------------------------------
(* Properties.                                                             *)

\* The connection is reported clean, or held for clean, only when a Close
\* frame was sent and one was received (onCloseFrame, _connectionLost).
CleanMeansHandshake ==
    ws.wasClean \/ ws.reported = "clean" => ws.closeSent /\ ws.closeReceived

\* The auto-ping loop neither dies nor doubles while the connection is OPEN:
\* either the next ping is scheduled or a Pong is awaited, and awaiting it is
\* timed when autoPingTimeout is set (_sendAutoPing, processControlFrame,
\* _cancelAutoPingTimeoutCall).
KeepaliveRuns ==
    LET awaited == IF ws.autoPingPending = "none" THEN 0 ELSE 1
    IN  AutoPingInterval /\ ws.state = "OPEN" =>
            /\ ws.live["autoPing"] + awaited = 1
            /\ ws.live["autoPingTimeout"] = IF AutoPingTimeout THEN awaited ELSE 0

\* An opening handshake is always under its timeout.
OpeningIsTimed ==
    OpenHandshakeTimeout /\ ws.state \in {"PROXY_CONNECTING", "CONNECTING"} =>
        ws.live["openHandshake"] = 1

\* A closing handshake we began is under a timeout until the stream is dropped:
\* first for the reply, then, on a client, for the server to drop the stream,
\* however many Close frames the peer sends.
ClosingIsTimed ==
    /\ CloseHandshakeTimeout
    /\ IsServer \/ ServerConnectionDropTimeout
    /\ ws.state = "CLOSING" /\ ws.closedByMe
    => ws.live["closeHandshake"] + ws.live["serverDrop"] > 0

\* The loss of the stream is always torn down to its end: onClose is called
\* (unless only a policy file was served) and a server's connection count
\* goes down.
LostIsTornDown ==
    ws.tcp = "lost" => ws.tornDown /\ ws.closes = (IF ws.servingFlash THEN 0 ELSE 1)

\* The refinement mapping to what the application is promised.  A connection that
\* only served a policy file never is a channel of the application.
channelPhase ==
    IF ws.servingFlash THEN "connecting"
    ELSE CASE ws.state \in {"PROXY_CONNECTING", "CONNECTING"} -> "connecting"
           [] ws.state = "OPEN" -> "open"
           [] ws.state = "CLOSING" -> "closing"
           [] ws.state = "CLOSED" -> "closed"

Channel == INSTANCE WebSocketChannel WITH
    phase <- channelPhase, opened <- ws.opens > 0, outcome <- ws.reported

\* The endpoint implements the abstract channel.
ImplementsChannel == Channel!FairChannelSpec

\* A closing handshake that we began ends with onClose, whatever the peer does.
ClosingEnds == ws.state = "CLOSING" /\ ws.closedByMe ~> ws.closes = 1

\* Under asyncio an exception of onMessage ends the receive loop with the
\* stream left open; the auto-ping then notices that nothing is received.
DeafConnectionDropped == ~ws.receiving ~> ws.state = "CLOSED"

-----------------------------------------------------------------------------
(* What comments and documentation say and the code does not do.           *)

\* onCloseFrame: "when the server fails to do so, a timeout in sendCloseFrame()
\* will set wasClean = False back again".
ReplyIsTimed == ws.state = "CLOSING" /\ ~ws.closedByMe ~> ws.state = "CLOSED"

\* _connectionMade: wasClean is "True, iff full WebSocket closing handshake was
\* performed (close frame sent and received) _and_ the server dropped the TCP":
\* on a server that has dropped after the handshake it stays True.
CleanStaysClean == [][IsServer /\ ws.wasClean /\ ws.droppedByMe => ws'.wasClean]_vars

\* The same sentence for a client: clean only when the server dropped the TCP.
CleanMeansServerDropped == ~IsServer /\ ws.wasClean => ~ws.droppedByMe

\* onAutoPingTimeout: "the peer did not reply in time to our ping".
AwaitedPingWasSent == ws.live["autoPingTimeout"] > 0 => ws.autoPingPending = "sent"

\* onOpen: "You now can send and receive WebSocket messages."
OnOpenMeansOpen == [][ws'.opens > ws.opens => ws'.state = "OPEN"]_vars

\* "Once a WebSocket connection is open, messages can be sent and received":
\* onMessage comes after onOpen.
OnOpenBeforeOnMessage == ~ws.early

=============================================================================
