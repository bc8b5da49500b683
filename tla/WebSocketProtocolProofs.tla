---------------------- MODULE WebSocketProtocolProofs ----------------------
(***************************************************************************)
(* Proofs about WebSocketProtocol.                                         *)
(*                                                                         *)
(* First what holds for every choice of options: types, clean ends and     *)
(* timeouts.  The invariants are predicates of an instance, and every      *)
(* method keeps them: one lemma per method, in the order the methods call  *)
(* each other, then one step per action.                                   *)
(*                                                                         *)
(* Then the auto-ping loop, the loss of the stream, and that the endpoint  *)
(* implements WebSocketChannel.  That holds for every choice of options    *)
(* but one: a server whose onConnect returns a future opens the connection *)
(* whatever has become of it meanwhile.  Most methods only Keep: they let  *)
(* the connection stay as it is or end, and leave the auto-ping alone      *)
(* while it goes on.  Keeping is transitive, so there is again one lemma   *)
(* per method.  The methods that do more -- open the connection, handle a  *)
(* Pong, lose the stream -- have lemmas of their own.                      *)
(***************************************************************************)
EXTENDS WebSocketProtocol, TLAPS

\* Handles refer to delayed calls that are still to run, and "clean" has its
\* two Close frames behind it.
Sound(p) ==
    /\ p \in Instances
    /\ \A t \in Timers : p.handle[t] => p.live[t] > 0
    /\ p.wasClean \/ p.reported = "clean" => p.closeSent /\ p.closeReceived
    /\ p.state = "CLOSING" => p.closeSent

\* OpeningIsTimed and ClosingIsTimed, of an instance.
Timed(p) ==
    /\ OpenHandshakeTimeout /\ p.state \in {"PROXY_CONNECTING", "CONNECTING"} =>
            p.live["openHandshake"] = 1
    /\ CloseHandshakeTimeout /\ (IsServer \/ ServerConnectionDropTimeout)
       /\ p.state = "CLOSING" /\ p.closedByMe =>
            p.live["closeHandshake"] + p.live["serverDrop"] > 0

Safe(p) == Sound(p) /\ Timed(p)

\* q differs from p at most in delayed calls and in what Timed does not see.
Alike(p, q) == q.state = p.state /\ q.closedByMe = p.closedByMe

\* q agrees with p on all that the invariants speak of.
Same(p, q) ==
    /\ Alike(p, q) /\ q.handle = p.handle /\ q.live = p.live
    /\ q.wasClean = p.wasClean /\ q.reported = p.reported
    /\ q.closeSent = p.closeSent /\ q.closeReceived = p.closeReceived

LEMMA SameSafe ==
    ASSUME NEW p, Safe(p), NEW q \in Instances, Same(p, q)
    PROVE  Safe(q)
BY DEF Safe, Sound, Timed, Same, Alike

-----------------------------------------------------------------------------
(* Delayed calls.                                                          *)

WithCalls(p, h, l) == [p EXCEPT !.handle = h, !.live = l]

LEMMA CallsKeep ==
    ASSUME NEW p, Sound(p), NEW h \in [Timers -> BOOLEAN], NEW l \in [Timers -> Nat],
           \A t \in Timers : h[t] => l[t] > 0
    PROVE  LET q == WithCalls(p, h, l)
           IN  Sound(q) /\ Alike(p, q) /\ q.handle = h /\ q.live = l
<1> DEFINE q == WithCalls(p, h, l)
<1>1. q \in Instances
  BY DEF Sound, Instances, WithCalls
<1>2. q.handle = h /\ q.live = l /\ Alike(p, q)
  BY DEF Sound, Instances, Alike, WithCalls
<1>3. /\ q.wasClean = p.wasClean /\ q.reported = p.reported
      /\ q.closeSent = p.closeSent /\ q.closeReceived = p.closeReceived
  BY DEF Sound, Instances, WithCalls
<1> QED
  BY <1>1, <1>2, <1>3 DEF Sound, Alike

LEMMA ArmKeeps ==
    ASSUME NEW p, Sound(p), NEW t \in Timers
    PROVE  /\ Sound(arm(p, t))
           /\ Alike(p, arm(p, t))
           /\ arm(p, t).live = [p.live EXCEPT ![t] = @ + 1]
<1> DEFINE h == [p.handle EXCEPT ![t] = TRUE]
           l == [p.live EXCEPT ![t] = @ + 1]
<1>1. p.handle \in [Timers -> BOOLEAN] /\ p.live \in [Timers -> Nat]
  BY DEF Sound, Instances
<1>2. h \in [Timers -> BOOLEAN] /\ l \in [Timers -> Nat] /\ \A s \in Timers : h[s] => l[s] > 0
  BY <1>1 DEF Sound
<1>3. arm(p, t) = WithCalls(p, h, l)
  BY DEF arm, WithCalls
<1>4. Sound(arm(p, t)) /\ Alike(p, arm(p, t)) /\ arm(p, t).live = l
  <2> HIDE DEF h, l
  <2> QED
    BY <1>2, <1>3, CallsKeep
<1> QED
  BY <1>4

LEMMA ExpireKeeps ==
    ASSUME NEW p, Sound(p), NEW t \in Timers, p.live[t] > 0
    PROVE  /\ Sound(expire(p, t))
           /\ Alike(p, expire(p, t))
           /\ expire(p, t).live = [p.live EXCEPT ![t] = @ - 1]
<1> DEFINE h == [p.handle EXCEPT ![t] = FALSE]
           l == [p.live EXCEPT ![t] = @ - 1]
<1>1. p.handle \in [Timers -> BOOLEAN] /\ p.live \in [Timers -> Nat]
  BY DEF Sound, Instances
<1>2. h \in [Timers -> BOOLEAN] /\ l \in [Timers -> Nat] /\ \A s \in Timers : h[s] => l[s] > 0
  BY <1>1 DEF Sound
<1>3. expire(p, t) = WithCalls(p, h, l)
  BY DEF expire, WithCalls
<1>4. Sound(expire(p, t)) /\ Alike(p, expire(p, t)) /\ expire(p, t).live = l
  <2> HIDE DEF h, l
  <2> QED
    BY <1>2, <1>3, CallsKeep
<1> QED
  BY <1>4

LEMMA CancelKeeps ==
    ASSUME NEW p, Sound(p), NEW t \in Timers
    PROVE  /\ Sound(cancel(p, t))
           /\ Alike(p, cancel(p, t))
           /\ \A s \in Timers \ {t} : cancel(p, t).live[s] = p.live[s]
<1>1. CASE ~p.handle[t]
  BY <1>1 DEF cancel, Alike
<1>2. CASE p.handle[t]
  <2>1. p.live[t] > 0 /\ p.live \in [Timers -> Nat]
    BY <1>2 DEF Sound, Instances
  <2>2. cancel(p, t) = expire(p, t)
    BY <1>2 DEF cancel, expire
  <2>3. /\ Sound(expire(p, t)) /\ Alike(p, expire(p, t))
        /\ expire(p, t).live = [p.live EXCEPT ![t] = @ - 1]
    BY <2>1, ExpireKeeps
  <2> QED
    BY <2>1, <2>2, <2>3
<1> QED
  BY <1>1, <1>2

-----------------------------------------------------------------------------
(* Dropping, failing and closing the connection.                           *)

LEMMA ClosedIsTimed ==
    ASSUME NEW p, Sound(p), p.state = "CLOSED"
    PROVE  Safe(p)
BY DEF Safe, Timed

LEMMA ArmSafe ==
    ASSUME NEW p, Safe(p), NEW t \in Timers \ {"openHandshake"}
    PROVE  Safe(arm(p, t)) /\ Alike(p, arm(p, t))
<1>1. Sound(arm(p, t)) /\ Alike(p, arm(p, t)) /\ arm(p, t).live = [p.live EXCEPT ![t] = @ + 1]
  BY ArmKeeps DEF Safe
<1>2. p.live \in [Timers -> Nat]
  BY DEF Safe, Sound, Instances
<1> QED
  BY <1>1, <1>2 DEF Safe, Timed, Alike, Timers

\* The close of the stream and a drop keep the invariants.
LEMMA DropSafe ==
    ASSUME NEW p, Sound(p), NEW abort \in BOOLEAN
    PROVE  Safe(dropConnection(p, abort)) /\ dropConnection(p, abort).state = "CLOSED"
<1> DEFINE q == dropConnection(p, abort)
<1>1. CASE p.state = "CLOSED"
  BY <1>1, ClosedIsTimed DEF dropConnection
<1>2. CASE p.state # "CLOSED"
  <2>1. q \in Instances
    <3> DEFINE e == [p EXCEPT !.droppedByMe = TRUE]
               d == [e EXCEPT !.state = "CLOSED", !.isClosed = TRUE]
    <3>1. e \in Instances
      BY DEF Sound, Instances
    <3>2. d \in Instances
      <4> HIDE DEF e
      <4> QED
        BY <3>1 DEF Instances, States
    <3>3. CASE p.isClosed
      <4>1. q = [d EXCEPT !.raised = TRUE]
        BY <1>2, <3>3 DEF dropConnection
      <4> HIDE DEF d
      <4>2. [d EXCEPT !.raised = TRUE] \in Instances
        BY <3>2 DEF Instances
      <4> QED
        BY <4>1, <4>2
    <3>4. CASE ~p.isClosed
      <4>1. q = closeConnection(d, abort)
        BY <1>2, <3>4 DEF dropConnection
      <4> HIDE DEF d
      <4> QED
        BY <3>2, <4>1 DEF closeConnection, Instances
    <3> QED
      BY <3>3, <3>4
  <2>2. /\ q.state = "CLOSED" /\ q.handle = p.handle /\ q.live = p.live
        /\ q.wasClean = p.wasClean /\ q.reported = p.reported
        /\ q.closeSent = p.closeSent /\ q.closeReceived = p.closeReceived
    BY <1>2 DEF dropConnection, closeConnection, Sound, Instances
  <2>3. Sound(q)
    BY <2>1, <2>2 DEF Sound
  <2> QED
    BY <2>2, <2>3, ClosedIsTimed
<1> QED
  BY <1>1, <1>2

LEMMA DropUncleanSafe ==
    ASSUME NEW p, Sound(p), NEW reason \in Reasons
    PROVE  Safe(dropUnclean(p, reason)) /\ dropUnclean(p, reason).state = "CLOSED"
<1> DEFINE q == [p EXCEPT !.wasClean = FALSE, !.wasNotCleanReason = reason]
<1>1. q \in Instances
  BY DEF Sound, Instances
<1>2. /\ q.state = p.state /\ q.handle = p.handle /\ q.live = p.live
      /\ q.wasClean = FALSE /\ q.reported = p.reported
      /\ q.closeSent = p.closeSent /\ q.closeReceived = p.closeReceived
  BY DEF Sound, Instances
<1>3. Sound(q)
  BY <1>1, <1>2 DEF Sound
<1>4. dropUnclean(p, reason) = dropConnection(q, TRUE)
  BY DEF dropUnclean
<1> HIDE DEF q
<1> QED
  BY <1>3, <1>4, DropSafe

\* A Close frame that is sent leaves the connection CLOSING, timed when it is
\* not a reply.
LEMMA SendCloseFrameSafe ==
    ASSUME NEW p, Safe(p), NEW isReply \in BOOLEAN
    PROVE  Safe(sendCloseFrame(p, isReply))
<1>1. CASE p.state # "OPEN"
  BY <1>1 DEF sendCloseFrame
<1>2. CASE p.state = "OPEN"
  <2> DEFINE e == [p EXCEPT !.state = "CLOSING"]
             q == [e EXCEPT !.closedByMe = ~isReply, !.closeSent = TRUE]
  <2>1. q \in Instances
    <3>1. e \in Instances
      BY DEF Safe, Sound, Instances, States
    <3> HIDE DEF e
    <3> QED
      BY <3>1 DEF Instances
  <2>2. /\ q.state = "CLOSING" /\ q.closedByMe = ~isReply
        /\ q.handle = p.handle /\ q.live = p.live
        /\ q.wasClean = p.wasClean /\ q.reported = p.reported
        /\ q.closeSent = TRUE /\ q.closeReceived = p.closeReceived
    BY DEF Safe, Sound, Instances
  <2>3. Sound(q)
    BY <2>1, <2>2 DEF Safe, Sound
  <2>4. sendCloseFrame(p, isReply) = armIf(~isReply /\ CloseHandshakeTimeout, q, "closeHandshake")
    BY <1>2 DEF sendCloseFrame
  <2> HIDE DEF q
  <2>5. CASE ~isReply /\ CloseHandshakeTimeout
    <3>1. /\ Sound(arm(q, "closeHandshake")) /\ Alike(q, arm(q, "closeHandshake"))
          /\ arm(q, "closeHandshake").live = [q.live EXCEPT !["closeHandshake"] = @ + 1]
      BY <2>3, ArmKeeps DEF Timers
    <3>2. q.live \in [Timers -> Nat]
      BY <2>1 DEF Instances
    <3> QED
      BY <2>2, <2>4, <2>5, <3>1, <3>2 DEF armIf, Safe, Timed, Alike, Timers
  <2>6. CASE ~(~isReply /\ CloseHandshakeTimeout)
    BY <2>2, <2>3, <2>4, <2>6 DEF armIf, Safe, Timed
  <2> QED
    BY <2>5, <2>6
<1> QED
  BY <1>1, <1>2

LEMMA FailConnectionSafe ==
    ASSUME NEW p, Safe(p)
    PROVE  Safe(failConnection(p))
<1> DEFINE q == [p EXCEPT !.failedByMe = TRUE]
<1>1. q \in Instances
  BY DEF Safe, Sound, Instances
<1>2. Same(p, q)
  BY DEF Safe, Sound, Instances, Same, Alike
<1>3. Safe(q)
  BY <1>1, <1>2, SameSafe
<1>4. failConnection(p) \in {p, dropUnclean(q, "failed"), sendCloseFrame(q, FALSE),
                             dropConnection(q, FALSE)}
  BY DEF failConnection
<1> HIDE DEF q
<1>5. Safe(dropUnclean(q, "failed")) /\ Safe(dropConnection(q, FALSE))
  BY <1>3, DropUncleanSafe, DropSafe DEF Safe, Reasons
<1> QED
  BY <1>3, <1>4, <1>5, SendCloseFrameSafe

LEMMA ConnectionLostSafe ==
    ASSUME NEW p, Safe(p)
    PROVE  Safe(connectionLost(p))
<1> DEFINE q0 == [p EXCEPT !.tcp = "lost"]
           q1 == cancel(q0, "serverDrop")
           q2 == cancel(q1, "autoPing")
           q3 == cancel(q2, "autoPingTimeout")
           q4 == cancel(q3, "openHandshake")
           r == [q4 EXCEPT !.state = "CLOSED", !.isClosed = TRUE]
           c == connectionLost(p)
<1>1. Sound(q4)
  <2>1. q0 \in Instances /\ Same(p, q0)
    BY DEF Safe, Sound, Instances, Same, Alike
  <2>2. Sound(q0)
    BY <2>1, SameSafe DEF Safe
  <2> HIDE DEF q0
  <2>3. Sound(q1)
    BY <2>2, CancelKeeps DEF Timers
  <2> HIDE DEF q1
  <2>4. Sound(q2)
    BY <2>3, CancelKeeps DEF Timers
  <2> HIDE DEF q2
  <2>5. Sound(q3)
    BY <2>4, CancelKeeps DEF Timers
  <2> HIDE DEF q3
  <2> QED
    BY <2>5, CancelKeeps DEF Timers
<1>2. c = IF q4.state # "CLOSED" /\ q4.isClosed THEN [r EXCEPT !.raised = TRUE]
          ELSE IF r.servingFlash THEN [r EXCEPT !.tornDown = TRUE]
          ELSE [r EXCEPT !.tornDown = TRUE, !.closes = @ + 1,
                         !.reported = IF r.wasClean THEN "clean" ELSE "unclean",
                         !.wasNotCleanReason = IF ~r.wasClean /\ ~r.droppedByMe /\ @ = "none"
                                               THEN "peerDropped" ELSE @]
  BY DEF connectionLost
<1> HIDE DEF q4, c
<1>3. /\ r \in Instances
      /\ r.state = "CLOSED" /\ r.handle = q4.handle /\ r.live = q4.live
      /\ r.wasClean = q4.wasClean /\ r.reported = q4.reported
      /\ r.closeSent = q4.closeSent /\ r.closeReceived = q4.closeReceived
  BY <1>1 DEF Sound, Instances, States
<1>4. Sound(r)
  BY <1>1, <1>3 DEF Sound
<1> HIDE DEF r
<1>5. c \in Instances
  <2> DEFINE reported == IF r.wasClean THEN "clean" ELSE "unclean"
             reason == IF ~r.wasClean /\ ~r.droppedByMe /\ r.wasNotCleanReason = "none"
                       THEN "peerDropped" ELSE r.wasNotCleanReason
             told == [r EXCEPT !.tornDown = TRUE, !.closes = @ + 1,
                               !.reported = reported, !.wasNotCleanReason = reason]
  <2>1. told \in Instances
    <3>1. reported \in {"none", "clean", "unclean"} /\ reason \in Reasons
      BY <1>3 DEF Instances, Reasons
    <3> HIDE DEF reported, reason
    <3> DEFINE d == [r EXCEPT !.tornDown = TRUE]
               s == [d EXCEPT !.closes = @ + 1]
    <3>2. d \in Instances
      BY <1>3 DEF Instances
    <3>3. s \in Instances
      <4> HIDE DEF d
      <4> QED
        BY <3>2 DEF Instances
    <3>4. told = [s EXCEPT !.reported = reported, !.wasNotCleanReason = reason]
      OBVIOUS
    <3> HIDE DEF s, told
    <3> QED
      BY <3>1, <3>3, <3>4 DEF Instances
  <2>2. c \in {[r EXCEPT !.raised = TRUE], [r EXCEPT !.tornDown = TRUE], told}
    BY <1>2, <1>3 DEF Instances
  <2>3. [r EXCEPT !.raised = TRUE] \in Instances /\ [r EXCEPT !.tornDown = TRUE] \in Instances
    BY <1>3 DEF Instances
  <2> QED
    BY <2>1, <2>2, <2>3
<1>6. /\ c.state = "CLOSED" /\ c.handle = r.handle /\ c.live = r.live
      /\ c.wasClean = r.wasClean
      /\ c.reported \in {r.reported, IF r.wasClean THEN "clean" ELSE "unclean"}
      /\ c.closeSent = r.closeSent /\ c.closeReceived = r.closeReceived
  BY <1>2, <1>3 DEF Instances
<1>7. Sound(c)
  BY <1>4, <1>5, <1>6 DEF Sound
<1> QED
  BY <1>6, <1>7, ClosedIsTimed DEF c

LEMMA RaiseSafe ==
    ASSUME NEW p, Safe(p)
    PROVE  Safe(raiseFromDataReceived(p))
<1> DEFINE q == [p EXCEPT !.receiving = FALSE]
<1>1. q \in Instances /\ Same(p, q)
  BY DEF Safe, Sound, Instances, Same, Alike
<1>2. Safe(q)
  BY <1>1, SameSafe
<1> QED
  BY <1>2, ConnectionLostSafe DEF raiseFromDataReceived

-----------------------------------------------------------------------------
(* The opening handshake.                                                  *)

LEMMA EnterOpenSafe ==
    ASSUME NEW p, Safe(p)
    PROVE  Safe(enterOpen(p))
<1> DEFINE q == [p EXCEPT !.state = "OPEN"]
<1>1. /\ q \in Instances
      /\ q.state = "OPEN" /\ q.handle = p.handle /\ q.live = p.live
      /\ q.wasClean = p.wasClean /\ q.reported = p.reported
      /\ q.closeSent = p.closeSent /\ q.closeReceived = p.closeReceived
  BY DEF Safe, Sound, Instances, States
<1>2. Sound(q)
  BY <1>1 DEF Safe, Sound
<1>3. enterOpen(p) = armIf(AutoPingInterval, cancel(q, "openHandshake"), "autoPing")
  BY DEF enterOpen
<1> HIDE DEF q
<1>4. Sound(cancel(q, "openHandshake")) /\ cancel(q, "openHandshake").state = "OPEN"
  BY <1>1, <1>2, CancelKeeps DEF Timers, Alike
<1>5. Safe(cancel(q, "openHandshake"))
  BY <1>4 DEF Safe, Timed
<1> QED
  BY <1>3, <1>5, ArmSafe DEF armIf, Timers

LEMMA FireOnOpenSafe ==
    ASSUME NEW p, Safe(p)
    PROVE  Safe(fireOnOpen(p))
<1>1. fireOnOpen(p) \in Instances
  <2> DEFINE q == [p EXCEPT !.opens = @ + 1]
  <2>1. q \in Instances
    BY DEF Safe, Sound, Instances
  <2>2. fireOnOpen(p) = IF q.isOpen THEN [q EXCEPT !.raised = TRUE] ELSE [q EXCEPT !.isOpen = TRUE]
    BY DEF fireOnOpen
  <2> HIDE DEF q
  <2>3. [q EXCEPT !.raised = TRUE] \in Instances /\ [q EXCEPT !.isOpen = TRUE] \in Instances
    BY <2>1 DEF Instances
  <2> QED
    BY <2>2, <2>3
<1>2. Same(p, fireOnOpen(p))
  BY DEF fireOnOpen, Safe, Sound, Instances, Same, Alike
<1> QED
  BY <1>1, <1>2, SameSafe

LEMMA FailHandshakeSafe ==
    ASSUME NEW p, Safe(p)
    PROVE  Safe(failHandshake(p))
<1> DEFINE q == [p EXCEPT !.wasNotCleanReason = "handshake"]
<1>1. q \in Instances /\ Same(p, q)
  BY DEF Safe, Sound, Instances, Reasons, Same, Alike
<1>2. Safe(q)
  BY <1>1, SameSafe
<1>3. failHandshake(p) = dropConnection(q, ~IsServer)
  BY DEF failHandshake
<1> HIDE DEF q
<1> QED
  BY <1>2, <1>3, DropSafe DEF Safe

LEMMA FinishOnConnectSafe ==
    ASSUME NEW p, Safe(p), NEW outcome \in Outcomes
    PROVE  Safe(finishOnConnect(p, outcome))
<1>1. Safe(succeedHandshake(p))
  BY EnterOpenSafe, FireOnOpenSafe DEF succeedHandshake
<1> QED
  BY <1>1, FireOnOpenSafe, FailHandshakeSafe, FailConnectionSafe
     DEF finishOnConnect, Outcomes

LEMMA CallOnConnectSafe ==
    ASSUME NEW p, Safe(p), NEW outcome \in Outcomes
    PROVE  Safe(callOnConnect(p, outcome))
<1> DEFINE q == [p EXCEPT !.connects = @ + 1]
<1>1. q \in Instances /\ Same(p, q)
  BY DEF Safe, Sound, Instances, Same, Alike
<1>2. Safe(q)
  BY <1>1, SameSafe
<1> QED
  BY <1>2, FinishOnConnectSafe DEF callOnConnect

LEMMA FinishOnConnectingSafe ==
    ASSUME NEW p, Safe(p), NEW ok \in BOOLEAN
    PROVE  Safe(finishOnConnecting(p, ok))
<1> DEFINE q == [p EXCEPT !.requestSent = TRUE]
<1>1. q \in Instances /\ Same(p, q)
  BY DEF Safe, Sound, Instances, Same, Alike
<1>2. Safe(q)
  BY <1>1, SameSafe
<1> QED
  BY <1>2, DropSafe DEF finishOnConnecting, Safe

LEMMA StartHandshakeSafe ==
    ASSUME NEW p, Safe(p), NEW ok \in BOOLEAN
    PROVE  Safe(startHandshake(p, ok))
<1> DEFINE q == [p EXCEPT !.connecting = TRUE]
<1>1. q \in Instances /\ Same(p, q)
  BY DEF Safe, Sound, Instances, Same, Alike
<1>2. Safe(q)
  BY <1>1, SameSafe
<1> QED
  BY <1>2, FinishOnConnectingSafe DEF startHandshake

LEMMA InitSafe ==
    ASSUME Init
    PROVE  Safe(ws)
<1> DEFINE b == blankInstance
<1>1. noHandles \in [Timers -> BOOLEAN] /\ noCalls \in [Timers -> Nat]
  BY DEF noHandles, noCalls
<1>2. b \in Instances
  BY <1>1 DEF blankInstance, Instances, States, Reasons
<1>3. /\ b.handle = noHandles /\ b.live = noCalls /\ b.wasClean = FALSE
      /\ b.reported = "none" /\ b.state \in {"PROXY_CONNECTING", "CONNECTING"}
  BY DEF blankInstance
<1>4. Sound(b)
  BY <1>2, <1>3 DEF Sound, noHandles
<1>5. Safe(freshInstance)
  <2>1. /\ Sound(arm(b, "openHandshake")) /\ Alike(b, arm(b, "openHandshake"))
        /\ arm(b, "openHandshake").live = [b.live EXCEPT !["openHandshake"] = @ + 1]
    BY <1>4, ArmKeeps DEF Timers
  <2>2. CASE OpenHandshakeTimeout
    BY <1>3, <2>1, <2>2 DEF freshInstance, armIf, Safe, Timed, Alike, noCalls, Timers
  <2>3. CASE ~OpenHandshakeTimeout
    BY <1>3, <1>4, <2>3 DEF freshInstance, armIf, Safe, Timed
  <2> QED
    BY <2>2, <2>3
<1> QED
  BY <1>5, StartHandshakeSafe DEF Init, connectionMade

-----------------------------------------------------------------------------
(* Frames received.                                                        *)

LEMMA FailTimesSafe ==
    ASSUME NEW p, Safe(p), NEW n \in Faults
    PROVE  Safe(failTimes(p, n))
<1>1. Safe(failConnection(p)) /\ Safe(failConnection(failConnection(p)))
  BY FailConnectionSafe
<1>2. n = 0 \/ n = 1 \/ n = 2
  BY DEF Faults
<1> QED
  BY <1>1, <1>2 DEF failTimes

\* Failing the connection does not forget that a Close frame was received.
LEMMA FailKeepsReceived ==
    ASSUME NEW p \in Instances
    PROVE  failConnection(p).closeReceived = p.closeReceived
<1> DEFINE q == [p EXCEPT !.failedByMe = TRUE]
           u == [q EXCEPT !.wasClean = FALSE, !.wasNotCleanReason = "failed"]
<1>1. q \in Instances /\ q.closeReceived = p.closeReceived
  BY DEF Instances
<1>2. u \in Instances /\ u.closeReceived = p.closeReceived
  BY DEF Instances, Reasons
<1>3. ASSUME NEW r \in Instances, NEW abort \in BOOLEAN
      PROVE  dropConnection(r, abort).closeReceived = r.closeReceived
  BY DEF dropConnection, closeConnection, Instances
<1>4. sendCloseFrame(q, FALSE).closeReceived = q.closeReceived
  <2> HIDE DEF q
  <2> QED
    BY <1>1 DEF sendCloseFrame, armIf, arm, Instances
<1>5. \/ failConnection(p) = p
      \/ failConnection(p) = dropConnection(u, TRUE)
      \/ failConnection(p) = sendCloseFrame(q, FALSE)
      \/ failConnection(p) = dropConnection(q, FALSE)
  BY DEF failConnection, dropUnclean
<1> HIDE DEF q, u
<1>6. /\ dropConnection(u, TRUE).closeReceived = p.closeReceived
      /\ dropConnection(q, FALSE).closeReceived = p.closeReceived
      /\ sendCloseFrame(q, FALSE).closeReceived = p.closeReceived
  BY <1>1, <1>2, <1>3, <1>4
<1> QED
  BY <1>5, <1>6

LEMMA FailTimesKeepReceived ==
    ASSUME NEW p, Safe(p), p.closeReceived = TRUE, NEW n \in Faults
    PROVE  failTimes(p, n).closeReceived = TRUE
<1>1. Safe(failConnection(p)) /\ failConnection(p).closeReceived = TRUE
  BY FailConnectionSafe, FailKeepsReceived DEF Safe, Sound
<1>2. failConnection(failConnection(p)).closeReceived = TRUE
  BY <1>1, FailKeepsReceived DEF Safe, Sound
<1>3. n = 0 \/ n = 1 \/ n = 2
  BY DEF Faults
<1> QED
  BY <1>1, <1>2, <1>3 DEF failTimes

LEMMA CloseFrameSafe ==
    ASSUME NEW p, Safe(p), NEW faults \in Faults
    PROVE  Safe(onCloseFrame(p, faults))
<1> DEFINE p0 == [p EXCEPT !.closeReceived = TRUE]
           q == failTimes(p0, faults)
           clean == [q EXCEPT !.wasClean = TRUE]
           ended == cancel(clean, "closeHandshake")
           replied == sendCloseFrame(clean, TRUE)
<1>1. /\ p0 \in Instances /\ Alike(p, p0) /\ p0.handle = p.handle /\ p0.live = p.live
      /\ p0.wasClean = p.wasClean /\ p0.reported = p.reported
      /\ p0.closeSent = p.closeSent /\ p0.closeReceived = TRUE
  BY DEF Safe, Sound, Instances, Alike
<1>2. Safe(p0)
  BY <1>1 DEF Safe, Sound, Timed, Alike
<1> HIDE DEF p0
<1>3. Safe(q)
  BY <1>2, FailTimesSafe
<1>4. q.closeReceived = TRUE
  BY <1>1, <1>2, FailTimesKeepReceived
<1>5. onCloseFrame(p, faults) =
        IF faults > 0 /\ FailByDrop THEN q
        ELSE CASE q.state = "CLOSING" ->
                    IF IsServer THEN dropConnection(ended, TRUE)
                    ELSE armIf(ServerConnectionDropTimeout, ended, "serverDrop")
               [] q.state = "OPEN" ->
                    IF IsServer THEN dropConnection(replied, FALSE) ELSE replied
               [] OTHER -> [q EXCEPT !.wasClean = FALSE]
  BY DEF onCloseFrame, p0
<1> HIDE DEF q
<1>6. /\ clean \in Instances /\ Alike(q, clean) /\ clean.handle = q.handle /\ clean.live = q.live
      /\ clean.wasClean = TRUE /\ clean.reported = q.reported
      /\ clean.closeSent = q.closeSent /\ clean.closeReceived = TRUE
  BY <1>3, <1>4 DEF Safe, Sound, Instances, Alike
<1>7. CASE q.state = "CLOSING"
  <2>1. Sound(clean)
    BY <1>3, <1>6, <1>7 DEF Safe, Sound, Alike
  <2> HIDE DEF clean
  <2>2. Sound(ended) /\ ended.state = "CLOSING"
    BY <1>6, <1>7, <2>1, CancelKeeps DEF Timers, Alike
  <2> HIDE DEF ended
  <2>3. Safe(dropConnection(ended, TRUE))
    BY <2>2, DropSafe
  <2>4. ASSUME ~IsServer PROVE Safe(armIf(ServerConnectionDropTimeout, ended, "serverDrop"))
    <3>1. /\ Sound(arm(ended, "serverDrop")) /\ Alike(ended, arm(ended, "serverDrop"))
          /\ arm(ended, "serverDrop").live = [ended.live EXCEPT !["serverDrop"] = @ + 1]
      BY <2>2, ArmKeeps DEF Timers
    <3>2. ended.live \in [Timers -> Nat]
      BY <2>2 DEF Sound, Instances
    <3> QED
      BY <2>2, <2>4, <3>1, <3>2 DEF armIf, Safe, Timed, Alike, Timers
  <2> QED
    BY <1>3, <1>5, <1>7, <2>3, <2>4
<1>8. CASE q.state = "OPEN"
  <2>1. clean.state = "OPEN"
    BY <1>6, <1>8 DEF Alike
  <2> HIDE DEF clean
  <2>2. replied \in Instances
    <3> DEFINE e == [clean EXCEPT !.state = "CLOSING"]
    <3>1. e \in Instances
      BY <1>6 DEF Instances, States
    <3>2. replied = [e EXCEPT !.closedByMe = FALSE, !.closeSent = TRUE]
      BY <2>1 DEF sendCloseFrame, armIf
    <3> HIDE DEF e, replied
    <3> QED
      BY <3>1, <3>2 DEF Instances
  <2>3. /\ replied.state = "CLOSING" /\ replied.closedByMe = FALSE
        /\ replied.handle = clean.handle /\ replied.live = clean.live
        /\ replied.closeSent = TRUE /\ replied.closeReceived = TRUE
    BY <1>6, <2>1 DEF sendCloseFrame, armIf, Instances
  <2>4. Safe(replied)
    BY <1>3, <1>6, <2>2, <2>3 DEF Safe, Sound, Timed
  <2> HIDE DEF replied
  <2>5. Safe(dropConnection(replied, FALSE))
    BY <2>4, DropSafe DEF Safe
  <2> QED
    BY <1>3, <1>5, <1>8, <2>4, <2>5
<1>9. CASE q.state \notin {"CLOSING", "OPEN"}
  <2> DEFINE r == [q EXCEPT !.wasClean = FALSE]
  <2>1. /\ r \in Instances /\ Alike(q, r) /\ r.handle = q.handle /\ r.live = q.live
        /\ r.wasClean = FALSE /\ r.reported = q.reported
        /\ r.closeSent = q.closeSent /\ r.closeReceived = q.closeReceived
    BY <1>3 DEF Safe, Sound, Instances, Alike
  <2>2. Safe(r)
    BY <1>3, <2>1 DEF Safe, Sound, Timed, Alike
  <2> QED
    BY <1>3, <1>5, <1>9, <2>2
<1> QED
  BY <1>7, <1>8, <1>9

\* A timeout other than those of the handshakes may be cancelled at any time.
LEMMA CancelSafe ==
    ASSUME NEW p, Safe(p), NEW t \in {"autoPing", "autoPingTimeout"}
    PROVE  Safe(cancel(p, t))
<1>1. /\ Sound(cancel(p, t)) /\ Alike(p, cancel(p, t))
      /\ \A s \in Timers \ {t} : cancel(p, t).live[s] = p.live[s]
  BY CancelKeeps DEF Safe, Timers
<1> QED
  BY <1>1 DEF Safe, Timed, Alike, Timers

LEMMA NoPingPendingSafe ==
    ASSUME NEW p, Safe(p)
    PROVE  Safe([p EXCEPT !.autoPingPending = "none"])
<1> DEFINE q == [p EXCEPT !.autoPingPending = "none"]
<1>1. q \in Instances /\ Same(p, q)
  BY DEF Safe, Sound, Instances, Same, Alike
<1> QED
  BY <1>1, SameSafe

LEMMA PongSafe ==
    ASSUME NEW p, Safe(p)
    PROVE  Safe(onPendingPong(p)) /\ Safe(cancelAutoPingTimeoutCall(p))
<1> DEFINE q == [cancel(p, "autoPingTimeout") EXCEPT !.autoPingPending = "none"]
<1>1. Safe(q)
  BY CancelSafe, NoPingPendingSafe
<1>2. /\ onPendingPong(p) = armIf(AutoPingInterval, q, "autoPing")
      /\ cancelAutoPingTimeoutCall(p) = armIf(AutoPingInterval, cancel(q, "autoPing"), "autoPing")
  BY DEF onPendingPong, cancelAutoPingTimeoutCall
<1> HIDE DEF q
<1>3. Safe(cancel(q, "autoPing"))
  BY <1>1, CancelSafe
<1> QED
  BY <1>1, <1>2, <1>3, ArmSafe DEF armIf, Timers

LEMMA DataFrameSafe ==
    ASSUME NEW p, Safe(p), NEW fin \in BOOLEAN, NEW raises \in BOOLEAN
    PROVE  Safe(onDataFrameEnd(p, fin, raises))
<1> DEFINE q == IF p.handle["autoPingTimeout"] /\ AutoPingRestartOnAnyTraffic
                THEN cancelAutoPingTimeoutCall(p) ELSE p
           told == [q EXCEPT !.early = @ \/ p.opens = 0]
<1>1. Safe(q)
  BY PongSafe
<1>2. onDataFrameEnd(p, fin, raises) =
        IF ~fin \/ p.failedByMe THEN q ELSE IF raises THEN raiseFromDataReceived(told) ELSE told
  BY DEF onDataFrameEnd
<1> HIDE DEF q
<1>3. told \in Instances
  <2> DEFINE e == q.early \/ p.opens = 0
  <2>1. q \in Instances /\ told = [q EXCEPT !.early = e]
    BY <1>1 DEF Safe, Sound
  <2>2. e \in BOOLEAN
    BY <2>1
  <2> HIDE DEF e
  <2>3. [q EXCEPT !.early = e] \in Instances
    BY <2>1, <2>2 DEF Instances
  <2> QED
    BY <2>1, <2>3
<1>4. Same(q, told)
  BY <1>1 DEF Safe, Sound, Instances, Same, Alike
<1>5. Safe(told)
  BY <1>1, <1>3, <1>4, SameSafe
<1> HIDE DEF told
<1> QED
  BY <1>1, <1>2, <1>5, RaiseSafe

-----------------------------------------------------------------------------
(* Delayed calls that run.                                                 *)

\* A handshake's timeout that runs drops the connection while it still waits.
LEMMA TimeoutSafe ==
    ASSUME NEW p, Safe(p), NEW t \in Timers, p.live[t] > 0, NEW reason \in Reasons
    PROVE  /\ Safe(dropUnclean(expire(p, t), reason))
           /\ p.state \notin {"PROXY_CONNECTING", "CONNECTING"} /\ t = "openHandshake" =>
                Safe(expire(p, t))
           /\ p.state = "CLOSED" \/ t = "autoPing" => Safe(expire(p, t))
<1>1. /\ Sound(expire(p, t)) /\ Alike(p, expire(p, t))
      /\ expire(p, t).live = [p.live EXCEPT ![t] = @ - 1]
  BY ExpireKeeps DEF Safe
<1>2. p.live \in [Timers -> Nat]
  BY DEF Safe, Sound, Instances
<1>3. Safe(dropUnclean(expire(p, t), reason))
  BY <1>1, DropUncleanSafe
<1> QED
  BY <1>1, <1>2, <1>3 DEF Safe, Timed, Alike, Timers

LEMMA SendAutoPingSafe ==
    ASSUME Safe(ws), SendAutoPing
    PROVE  Safe(ws')
<1> DEFINE e == expire(ws, "autoPing")
           q == [e EXCEPT !.autoPingPending = IF ws.state = "OPEN" THEN "sent" ELSE "unsent"]
<1>1. Safe(e)
  BY TimeoutSafe DEF SendAutoPing, Timers, Reasons
<1>2. ws' = armIf(AutoPingTimeout, q, "autoPingTimeout")
  BY DEF SendAutoPing
<1> HIDE DEF e
<1>3. q \in Instances /\ Same(e, q)
  BY <1>1 DEF Safe, Sound, Instances, Same, Alike
<1>4. Safe(q)
  BY <1>1, <1>3, SameSafe
<1> HIDE DEF q
<1> QED
  BY <1>2, <1>4, ArmSafe DEF armIf, Timers

LEMMA TimeoutsSafe ==
    ASSUME Safe(ws), Timeout
    PROVE  Safe(ws')
<1>1. CASE OnOpenHandshakeTimeout
  BY <1>1, TimeoutSafe, ExpireKeeps DEF OnOpenHandshakeTimeout, Timers, Reasons, Safe, Alike
<1>2. CASE OnCloseHandshakeTimeout
  BY <1>2, TimeoutSafe, ExpireKeeps DEF OnCloseHandshakeTimeout, Timers, Reasons, Safe, Alike
<1>3. CASE OnServerConnectionDropTimeout
  BY <1>3, TimeoutSafe, ExpireKeeps DEF OnServerConnectionDropTimeout, Timers, Reasons, Safe, Alike
<1>4. CASE SendAutoPing
  BY <1>4, SendAutoPingSafe
<1>5. CASE OnAutoPingTimeout
  BY <1>5, TimeoutSafe DEF OnAutoPingTimeout, Timers, Reasons
<1> QED
  BY <1>1, <1>2, <1>3, <1>4, <1>5 DEF Timeout

-----------------------------------------------------------------------------
(* The actions, and the theorems.                                          *)

LEMMA ReceiveSafe ==
    ASSUME Safe(ws), Receive
    PROVE  Safe(ws')
<1>1. CASE ReceivePartialHeader
  BY <1>1, FailTimesSafe DEF ReceivePartialHeader, ReceiveFrame
<1>2. CASE ReceiveData
  BY <1>2, FailTimesSafe, DataFrameSafe DEF ReceiveData, ReceiveFrame
<1>3. CASE ReceivePong
  BY <1>3, FailTimesSafe, PongSafe DEF ReceivePong, ReceiveFrame
<1>4. CASE ReceiveClose
  BY <1>4, FailTimesSafe, CloseFrameSafe DEF ReceiveClose, ReceiveFrame
<1>5. CASE ReceiveUnparsable
  BY <1>5, RaiseSafe DEF ReceiveUnparsable
<1>6. CASE ReceiveProxyResponse
  <2>1. CASE ws' = dropConnection(ws, TRUE)
    BY <2>1, DropSafe DEF Safe
  <2>2. ASSUME NEW ok \in BOOLEAN, ws.state = "PROXY_CONNECTING",
               ws' = startHandshake([ws EXCEPT !.state = "CONNECTING"], ok)
        PROVE  Safe(ws')
    <3> DEFINE q == [ws EXCEPT !.state = "CONNECTING"]
    <3>1. /\ q \in Instances /\ q.state = "CONNECTING"
          /\ q.handle = ws.handle /\ q.live = ws.live
          /\ q.wasClean = ws.wasClean /\ q.reported = ws.reported
          /\ q.closeSent = ws.closeSent /\ q.closeReceived = ws.closeReceived
      BY DEF Safe, Sound, Instances, States
    <3>2. Safe(q)
      BY <2>2, <3>1 DEF Safe, Sound, Timed
    <3> HIDE DEF q
    <3> QED
      BY <2>2, <3>2, StartHandshakeSafe DEF q
  <2> QED
    BY <1>6, <2>1, <2>2 DEF ReceiveProxyResponse
<1>7. CASE ReceiveHandshake
  <2>1. CASE HandshakeResponse
    BY <2>1, FailHandshakeSafe, EnterOpenSafe, CallOnConnectSafe, <1>7
       DEF HandshakeResponse, ReceiveHandshake
  <2>2. CASE HandshakeRequest
    <3> DEFINE q == [ws EXCEPT !.requests = @ + 1]
    <3>1. q \in Instances /\ Same(ws, q)
      BY DEF Safe, Sound, Instances, Same, Alike
    <3>2. Safe(q)
      BY <3>1, SameSafe
    <3>3. \/ ws' = failHandshake(q) \/ ws' = dropConnection(q, FALSE)
          \/ \E outcome \in Outcomes : ws' = callOnConnect(q, outcome)
      BY <2>2 DEF HandshakeRequest
    <3> HIDE DEF q
    <3> QED
      BY <3>2, <3>3, FailHandshakeSafe, DropSafe, CallOnConnectSafe DEF Safe
  <2>3. CASE PolicyFileRequest
    <3> DEFINE q == [ws EXCEPT !.servingFlash = TRUE]
    <3>1. q \in Instances /\ Same(ws, q)
      BY DEF Safe, Sound, Instances, Same, Alike
    <3>2. Safe(q) /\ ws' = dropConnection(q, FALSE)
      BY <2>3, <3>1, SameSafe DEF PolicyFileRequest
    <3> HIDE DEF q
    <3> QED
      BY <3>2, DropSafe DEF Safe
  <2> QED
    BY <1>7, <2>1, <2>2, <2>3 DEF ReceiveHandshake
<1> QED
  BY <1>1, <1>2, <1>3, <1>4, <1>5, <1>6, <1>7 DEF Receive

LEMMA NextSafe ==
    ASSUME Safe(ws), [Next]_vars
    PROVE  Safe(ws')
<1>1. CASE Receive
  BY <1>1, ReceiveSafe
<1>2. CASE Timeout
  BY <1>2, TimeoutsSafe
<1>3. CASE OnConnectingDone
  <2> DEFINE q == [ws EXCEPT !.connecting = FALSE]
  <2>1. q \in Instances /\ Same(ws, q)
    BY DEF Safe, Sound, Instances, Same, Alike
  <2>2. Safe(q) /\ \E ok \in BOOLEAN : ws' = finishOnConnecting(q, ok)
    BY <1>3, <2>1, SameSafe DEF OnConnectingDone
  <2> HIDE DEF q
  <2> QED
    BY <2>2, FinishOnConnectingSafe
<1>4. CASE OnConnectDone
  <2> DEFINE q == [ws EXCEPT !.connects = @ - 1]
  <2>1. q \in Instances /\ Same(ws, q)
    BY <1>4 DEF OnConnectDone, Safe, Sound, Instances, Same, Alike
  <2>2. Safe(q) /\ \E outcome \in Outcomes : ws' = finishOnConnect(q, outcome)
    BY <1>4, <2>1, SameSafe DEF OnConnectDone
  <2> HIDE DEF q
  <2> QED
    BY <2>2, FinishOnConnectSafe
<1>5. CASE SendClose
  BY <1>5, SendCloseFrameSafe DEF SendClose
<1>6. CASE Bailout
  BY <1>6, FailConnectionSafe DEF Bailout
<1>7. CASE ConnectionLost
  BY <1>7, ConnectionLostSafe DEF ConnectionLost
<1>8. CASE UNCHANGED vars
  BY <1>8 DEF vars
<1> QED
  BY <1>1, <1>2, <1>3, <1>4, <1>5, <1>6, <1>7, <1>8 DEF Next

LEMMA AlwaysSafe == Spec => []Safe(ws)
<1>1. Init => Safe(ws)
  BY InitSafe
<1>2. Safe(ws) /\ [Next]_vars => Safe(ws)'
  BY NextSafe
<1> QED
  BY <1>1, <1>2, PTL DEF Spec

\* Every reachable instance is well-typed, under all options.
THEOREM TypeCorrect == Spec => []TypeOK
<1>1. Safe(ws) => TypeOK
  BY DEF Safe, Sound, TypeOK
<1> QED
  BY <1>1, AlwaysSafe, PTL

\* "Clean" has a Close frame sent and one received behind it, whatever the
\* handlers, the timers and the peer do and in whatever order.
THEOREM CleanIsEarned == Spec => []CleanMeansHandshake
<1>1. Safe(ws) => CleanMeansHandshake
  BY DEF Safe, Sound, CleanMeansHandshake
<1> QED
  BY <1>1, AlwaysSafe, PTL

\* No opening handshake waits without a timeout, once one is configured.
THEOREM OpeningAlwaysTimed == Spec => []OpeningIsTimed
<1>1. Safe(ws) => OpeningIsTimed
  BY DEF Safe, Timed, OpeningIsTimed
<1> QED
  BY <1>1, AlwaysSafe, PTL

\* No closing handshake that we began waits without a timeout.
THEOREM ClosingAlwaysTimed == Spec => []ClosingIsTimed
<1>1. Safe(ws) => ClosingIsTimed
  BY DEF Safe, Timed, ClosingIsTimed
<1> QED
  BY <1>1, AlwaysSafe, PTL

-----------------------------------------------------------------------------
(* The auto-ping loop, the loss of the stream, the abstract channel.       *)

\* onConnect's outcome is known at once wherever it opens the connection.
HandlersInTime == ~(IsServer /\ AsyncHandlers)

Connecting == {"PROXY_CONNECTING", "CONNECTING"}
Over(p) == p.state = "CLOSING" \/ p.state = "CLOSED"
PingTimers == {"autoPing", "autoPingTimeout"}

\* What holds of the stream, the futures and the callbacks.
Sane(p) ==
    /\ p.isClosed <=> p.state = "CLOSED"
    /\ p.tcp = "lost" <=> p.tornDown
    /\ p.tornDown => p.state = "CLOSED"
    /\ p.closes = IF p.tornDown /\ ~p.servingFlash THEN 1 ELSE 0
    /\ ~p.tornDown => p.reported = "none"
    /\ p.state \in Connecting => p.opens = 0 /\ p.connects = 0
    /\ AsyncHandlers \/ p.connects = 0
    /\ p.wasClean => Over(p)
    /\ p.servingFlash => p.state = "CLOSED"

\* KeepaliveRuns, and that the handles tell what runs.
Pinging(p) ==
    /\ p.state \in Connecting =>
          p.live["autoPing"] = 0 /\ p.live["autoPingTimeout"] = 0 /\ p.autoPingPending = "none"
    /\ p.state = "OPEN" =>
          /\ \A t \in PingTimers : p.live[t] = IF p.handle[t] THEN 1 ELSE 0
          /\ LET awaited == IF p.autoPingPending = "none" THEN 0 ELSE 1
             IN  IF AutoPingInterval
                 THEN /\ p.live["autoPing"] + awaited = 1
                      /\ p.live["autoPingTimeout"] = IF AutoPingTimeout THEN awaited ELSE 0
                 ELSE /\ p.live["autoPing"] = 0 /\ p.live["autoPingTimeout"] = 0
                      /\ p.autoPingPending = "none"

Whole(p) == Sound(p) /\ Sane(p) /\ Pinging(p)

\* q agrees with p on what Sane speaks of, save the state.
Told(p, q) ==
    /\ q.isClosed = p.isClosed /\ q.tcp = p.tcp /\ q.tornDown = p.tornDown
    /\ q.closes = p.closes /\ q.reported = p.reported /\ q.opens = p.opens
    /\ q.connects = p.connects /\ q.wasClean = p.wasClean /\ q.servingFlash = p.servingFlash

\* q agrees with p on the auto-ping.
Rings(p, q) ==
    /\ q.autoPingPending = p.autoPingPending
    /\ \A t \in PingTimers : q.handle[t] = p.handle[t] /\ q.live[t] = p.live[t]

\* The connection stays in its phase or ends, without a word to the application.
Moves(p, q) ==
    /\ q.opens = p.opens /\ q.reported = p.reported /\ q.closes = p.closes
    /\ q.tornDown = p.tornDown /\ q.servingFlash = p.servingFlash /\ q.connects = p.connects
    /\ q.tcp = "lost" <=> p.tcp = "lost"
    /\ p.state = "CLOSED" => q.state = "CLOSED"
    /\ (p.isClosed <=> p.state = "CLOSED") => (q.isClosed <=> q.state = "CLOSED")
    /\ q.wasClean => p.wasClean \/ Over(q)
    /\ Over(q) \/ q.state = p.state \/ (q.state \in Connecting /\ p.state \in Connecting)

Quiet(p, q) ==
    \/ Over(q)
    \/ Rings(p, q) /\ (q.state = p.state \/ (q.state \in Connecting /\ p.state \in Connecting))

Keeps(p, q) == Moves(p, q) /\ Quiet(p, q) /\ (q.wasClean => p.wasClean)

LEMMA KeepsTransitive ==
    ASSUME NEW p, NEW q, NEW r
    PROVE  /\ Moves(p, q) /\ Moves(q, r) => Moves(p, r)
           /\ Keeps(p, q) /\ Keeps(q, r) => Keeps(p, r)
BY DEF Keeps, Moves, Quiet, Rings, Over, Connecting

LEMMA ToldKeeps ==
    ASSUME NEW p, NEW q, Told(p, q), q.state = p.state
    PROVE  Moves(p, q) /\ (Rings(p, q) => Keeps(p, q))
BY DEF Keeps, Moves, Quiet, Told

LEMMA MovesSane ==
    ASSUME NEW p, NEW q, Sane(p), Moves(p, q)
    PROVE  Sane(q)
BY DEF Sane, Moves, Over, Connecting

LEMMA QuietPinging ==
    ASSUME NEW p, NEW q, Pinging(p), Quiet(p, q)
    PROVE  Pinging(q)
BY DEF Pinging, Quiet, Rings, Over, Connecting, PingTimers

LEMMA KeepsWhole ==
    ASSUME NEW p, NEW q, Whole(p), Sound(q), Keeps(p, q)
    PROVE  Whole(q)
BY MovesSane, QuietPinging DEF Whole, Keeps

-----------------------------------------------------------------------------
(* Delayed calls.                                                          *)

\* q differs from p at most in the delayed calls of timer t.
Changes(p, q, t) ==
    /\ Told(p, q) /\ q.state = p.state /\ q.autoPingPending = p.autoPingPending
    /\ \A s \in Timers : s # t => q.handle[s] = p.handle[s] /\ q.live[s] = p.live[s]

LEMMA CallChanges ==
    ASSUME NEW p \in Instances, NEW t \in Timers, NEW h, NEW l,
           \A s \in Timers : s # t => h[s] = p.handle[s] /\ l[s] = p.live[s]
    PROVE  LET q == WithCalls(p, h, l)
           IN  Changes(p, q, t) /\ q.handle = h /\ q.live = l
<1> DEFINE q == WithCalls(p, h, l)
<1>1. /\ Told(p, q) /\ q.state = p.state /\ q.autoPingPending = p.autoPingPending
      /\ q.handle = h /\ q.live = l
  BY DEF Instances, WithCalls, Told
<1> HIDE DEF q
<1>2. Changes(p, q, t) /\ q.handle = h /\ q.live = l
  BY <1>1 DEF Changes
<1> QED
  BY <1>2 DEF q

LEMMA ArmChanges ==
    ASSUME NEW p \in Instances, NEW t \in Timers
    PROVE  /\ Changes(p, arm(p, t), t)
           /\ arm(p, t).handle[t] = TRUE /\ arm(p, t).live[t] = p.live[t] + 1
<1> DEFINE h == [p.handle EXCEPT ![t] = TRUE]
           l == [p.live EXCEPT ![t] = @ + 1]
<1>1. p.handle \in [Timers -> BOOLEAN] /\ p.live \in [Timers -> Nat]
  BY DEF Instances
<1>2. h[t] = TRUE /\ l[t] = p.live[t] + 1
  BY <1>1
<1>3. \A s \in Timers : s # t => h[s] = p.handle[s] /\ l[s] = p.live[s]
  BY <1>1
<1>4. arm(p, t) = WithCalls(p, h, l)
  BY DEF arm, WithCalls
<1> HIDE DEF h, l
<1> QED
  BY <1>2, <1>3, <1>4, CallChanges

LEMMA ExpireChanges ==
    ASSUME NEW p \in Instances, NEW t \in Timers
    PROVE  /\ Changes(p, expire(p, t), t)
           /\ expire(p, t).handle[t] = FALSE /\ expire(p, t).live[t] = p.live[t] - 1
<1> DEFINE h == [p.handle EXCEPT ![t] = FALSE]
           l == [p.live EXCEPT ![t] = @ - 1]
<1>1. p.handle \in [Timers -> BOOLEAN] /\ p.live \in [Timers -> Nat]
  BY DEF Instances
<1>2. h[t] = FALSE /\ l[t] = p.live[t] - 1
  BY <1>1
<1>3. \A s \in Timers : s # t => h[s] = p.handle[s] /\ l[s] = p.live[s]
  BY <1>1
<1>4. expire(p, t) = WithCalls(p, h, l)
  BY DEF expire, WithCalls
<1> HIDE DEF h, l
<1> QED
  BY <1>2, <1>3, <1>4, CallChanges

LEMMA CancelChanges ==
    ASSUME NEW p \in Instances, NEW t \in Timers
    PROVE  /\ Changes(p, cancel(p, t), t)
           /\ cancel(p, t).handle[t] = FALSE
           /\ cancel(p, t).live[t] = IF p.handle[t] THEN p.live[t] - 1 ELSE p.live[t]
<1>1. CASE p.handle[t]
  <2>1. cancel(p, t) = expire(p, t)
    BY <1>1 DEF cancel, expire
  <2> QED
    BY <1>1, <2>1, ExpireChanges
<1>2. CASE ~p.handle[t]
  <2>1. p.handle[t] \in BOOLEAN
    BY DEF Instances
  <2>2. cancel(p, t) = p
    BY <1>2 DEF cancel
  <2> QED
    BY <1>2, <2>1, <2>2 DEF Changes, Told
<1> QED
  BY <1>1, <1>2

LEMMA ChangesKeeps ==
    ASSUME NEW p, NEW q, NEW t, Changes(p, q, t)
    PROVE  Moves(p, q) /\ (t \notin PingTimers => Keeps(p, q))
<1>1. t \notin PingTimers => Rings(p, q)
  BY DEF Changes, Rings, PingTimers, Timers
<1> QED
  BY <1>1, ToldKeeps DEF Changes

\* A delayed call other than the auto-ping's does not disturb it.
LEMMA OtherCallsKeep ==
    ASSUME NEW p \in Instances, NEW t \in Timers
    PROVE  /\ Moves(p, arm(p, t)) /\ Moves(p, cancel(p, t)) /\ Moves(p, expire(p, t))
           /\ t \notin PingTimers =>
                Keeps(p, arm(p, t)) /\ Keeps(p, cancel(p, t)) /\ Keeps(p, expire(p, t))
BY ArmChanges, CancelChanges, ExpireChanges, ChangesKeeps

-----------------------------------------------------------------------------
(* Dropping, failing and closing the connection.                           *)

LEMMA DropKeeps ==
    ASSUME NEW p \in Instances, NEW abort \in BOOLEAN
    PROVE  Keeps(p, dropConnection(p, abort))
<1> DEFINE q == dropConnection(p, abort)
<1>1. CASE p.state = "CLOSED"
  BY <1>1, ToldKeeps DEF dropConnection, Told, Rings
<1>2. CASE p.state # "CLOSED"
  <2>1. /\ q.opens = p.opens /\ q.reported = p.reported /\ q.closes = p.closes
        /\ q.tornDown = p.tornDown /\ q.servingFlash = p.servingFlash
        /\ q.connects = p.connects /\ q.wasClean = p.wasClean
        /\ q.state = "CLOSED" /\ q.isClosed = TRUE
        /\ q.tcp = "lost" <=> p.tcp = "lost"
    BY <1>2 DEF dropConnection, closeConnection, Instances
  <2> QED
    BY <1>2, <2>1 DEF Keeps, Moves, Quiet, Over
<1> QED
  BY <1>1, <1>2

LEMMA DropUncleanKeeps ==
    ASSUME NEW p \in Instances, NEW reason \in Reasons
    PROVE  Keeps(p, dropUnclean(p, reason))
<1> DEFINE q == [p EXCEPT !.wasClean = FALSE, !.wasNotCleanReason = reason]
<1>1. q \in Instances
  BY DEF Instances
<1>2. Keeps(p, q)
  BY DEF Instances, Keeps, Moves, Quiet, Rings
<1>3. dropUnclean(p, reason) = dropConnection(q, TRUE)
  BY DEF dropUnclean
<1> HIDE DEF q
<1>4. Keeps(q, dropConnection(q, TRUE))
  BY <1>1, DropKeeps
<1> QED
  BY <1>2, <1>3, <1>4, KeepsTransitive

LEMMA SendCloseFrameKeeps ==
    ASSUME NEW p, Sound(p), NEW isReply \in BOOLEAN
    PROVE  /\ Keeps(p, sendCloseFrame(p, isReply))
           /\ p.state = "OPEN" => Over(sendCloseFrame(p, isReply))
<1> DEFINE q == [p EXCEPT !.state = "CLOSING", !.closedByMe = ~isReply, !.closeSent = TRUE]
<1>1. CASE p.state # "OPEN"
  BY <1>1, ToldKeeps DEF sendCloseFrame, Told, Rings
<1>2. CASE p.state = "OPEN"
  <2>1. q \in Instances
    <3> DEFINE e == [p EXCEPT !.state = "CLOSING"]
    <3>1. e \in Instances
      BY DEF Sound, Instances, States
    <3>2. q = [e EXCEPT !.closedByMe = ~isReply, !.closeSent = TRUE]
      OBVIOUS
    <3> HIDE DEF e, q
    <3>3. [e EXCEPT !.closedByMe = ~isReply, !.closeSent = TRUE] \in Instances
      BY <3>1 DEF Instances
    <3> QED
      BY <3>2, <3>3
  <2>2. Told(p, q) /\ q.state = "CLOSING"
    BY DEF Sound, Instances, Told
  <2>3. sendCloseFrame(p, isReply) = armIf(~isReply /\ CloseHandshakeTimeout, q, "closeHandshake")
    BY <1>2 DEF sendCloseFrame
  <2> HIDE DEF q
  <2>4. Keeps(p, q)
    BY <1>2, <2>2 DEF Keeps, Moves, Quiet, Told, Over
  <2>5. Keeps(q, arm(q, "closeHandshake"))
    BY <2>1, OtherCallsKeep DEF Timers, PingTimers
  <2>6. arm(q, "closeHandshake").state = "CLOSING"
    BY <2>1, <2>2, ArmChanges DEF Timers, Changes
  <2> QED
    BY <2>2, <2>3, <2>4, <2>5, <2>6, KeepsTransitive DEF armIf, Over
<1> QED
  BY <1>1, <1>2

LEMMA FailConnectionKeeps ==
    ASSUME NEW p, Sound(p)
    PROVE  /\ Keeps(p, failConnection(p))
           /\ p.state = "OPEN" => Over(failConnection(p))
<1> DEFINE q == [p EXCEPT !.failedByMe = TRUE]
<1>1. q \in Instances
  BY DEF Sound, Instances
<1>2. Told(p, q) /\ Rings(p, q) /\ q.state = p.state
      /\ q.handle = p.handle /\ q.live = p.live /\ q.closeSent = p.closeSent
      /\ q.closeReceived = p.closeReceived
  BY DEF Sound, Instances, Told, Rings
<1>3. failConnection(p) =
        IF p.state = "CLOSED" THEN p
        ELSE IF FailByDrop THEN dropUnclean(q, "failed")
             ELSE IF p.state # "CLOSING" THEN sendCloseFrame(q, FALSE)
             ELSE dropConnection(q, FALSE)
  BY DEF failConnection
<1> HIDE DEF q
<1>4. Keeps(p, q) /\ Keeps(p, p)
  BY <1>2, ToldKeeps DEF Told, Rings
<1>5. Sound(q)
  BY <1>1, <1>2 DEF Sound, Told
<1>6. Keeps(q, dropUnclean(q, "failed")) /\ Keeps(q, dropConnection(q, FALSE))
      /\ Keeps(q, sendCloseFrame(q, FALSE))
  BY <1>1, <1>5, DropUncleanKeeps, DropKeeps, SendCloseFrameKeeps DEF Reasons
<1>7. dropUnclean(q, "failed").state = "CLOSED"
  BY <1>5, DropUncleanSafe DEF Reasons
<1>8. Keeps(p, failConnection(p))
  BY <1>3, <1>4, <1>6, KeepsTransitive
<1>9. p.state = "OPEN" => Over(failConnection(p))
  BY <1>2, <1>3, <1>5, <1>7, SendCloseFrameKeeps DEF Over
<1> QED
  BY <1>8, <1>9

LEMMA FailTimesKeeps ==
    ASSUME NEW p, Safe(p), NEW n \in Faults
    PROVE  Keeps(p, failTimes(p, n))
<1>1. Safe(failConnection(p))
  BY FailConnectionSafe
<1>2. Keeps(p, failConnection(p))
      /\ Keeps(failConnection(p), failConnection(failConnection(p)))
  BY <1>1, FailConnectionKeeps DEF Safe
<1>3. Keeps(p, p)
  BY ToldKeeps DEF Told, Rings
<1>4. n = 0 \/ n = 1 \/ n = 2
  BY DEF Faults
<1> QED
  BY <1>2, <1>3, <1>4, KeepsTransitive DEF failTimes

-----------------------------------------------------------------------------
(* The abstract channel, as steps from an instance to an instance.         *)

phaseOf(p) ==
    IF p.servingFlash THEN "connecting"
    ELSE CASE p.state \in Connecting -> "connecting"
           [] p.state = "OPEN" -> "open"
           [] p.state = "CLOSING" -> "closing"
           [] p.state = "CLOSED" -> "closed"

\* A step of ChannelNext, or none.
Advances(p, q) ==
    \/ /\ phaseOf(q) = phaseOf(p)
       /\ q.opens > 0 <=> p.opens > 0
       /\ q.reported = p.reported
    \/ /\ phaseOf(p) = "connecting" /\ phaseOf(q) = "open"
       /\ q.opens > 0 /\ q.reported = p.reported
    \/ /\ \/ phaseOf(p) = "connecting" /\ phaseOf(q) \in {"closing", "closed"}
          \/ phaseOf(p) = "open" /\ phaseOf(q) = "closing"
          \/ phaseOf(p) \in {"open", "closing"} /\ phaseOf(q) = "closed"
       /\ q.opens > 0 <=> p.opens > 0
       /\ q.reported = p.reported
    \/ /\ p.reported = "none" /\ phaseOf(q) = "closed"
       /\ q.reported = "clean" \/ q.reported = "unclean"
       /\ q.reported = "clean" => phaseOf(p) \in {"closing", "closed"}
       /\ q.opens > 0 <=> p.opens > 0

\* What is proved of every step.
Goes(p, q) == Sane(q) /\ Pinging(q) /\ (~AsyncHandlers => Advances(p, q))

LEMMA MovesAdvances ==
    ASSUME NEW p \in Instances, NEW q \in Instances, Sane(p), Moves(p, q)
    PROVE  Advances(p, q)
<1>1. p.state \in States /\ q.state \in States
  BY DEF Instances
<1>2. CASE p.servingFlash
  BY <1>2 DEF Moves, Advances, phaseOf
<1>3. CASE ~p.servingFlash
  BY <1>1, <1>3 DEF Moves, Advances, phaseOf, Over, Connecting, States
<1> QED
  BY <1>2, <1>3

LEMMA MovesGoes ==
    ASSUME NEW p, NEW q, Whole(p), Sound(q), Moves(p, q), Pinging(q)
    PROVE  Goes(p, q)
BY MovesSane, MovesAdvances DEF Goes, Whole, Sound

LEMMA KeepsGoes ==
    ASSUME NEW p, NEW q, Whole(p), Sound(q), Keeps(p, q)
    PROVE  Goes(p, q)
BY QuietPinging, MovesGoes DEF Keeps, Whole

-----------------------------------------------------------------------------
(* The loss of the stream.                                                 *)

\* It comes once; the application is told of it unless only a policy file was
\* served.
LEMMA ConnectionLostGoes ==
    ASSUME NEW s, Whole(s), NEW p, Whole(p), Moves(s, p), p.wasClean => s.wasClean,
           s.tcp # "lost"
    PROVE  Goes(s, connectionLost(p))
<1> DEFINE q0 == [p EXCEPT !.tcp = "lost"]
           q1 == cancel(q0, "serverDrop")
           q2 == cancel(q1, "autoPing")
           q3 == cancel(q2, "autoPingTimeout")
           q4 == cancel(q3, "openHandshake")
           r == [q4 EXCEPT !.state = "CLOSED", !.isClosed = TRUE]
           c == connectionLost(p)
<1>1. /\ q4 \in Instances
      /\ Told(q0, q4) /\ q4.state = q0.state
  <2>1. q0 \in Instances /\ Same(p, q0)
    BY DEF Whole, Sound, Instances, Same, Alike
  <2>2. Sound(q0)
    BY <2>1 DEF Whole, Sound, Same, Alike
  <2> HIDE DEF q0
  <2>3. Sound(q1) /\ Told(q0, q1) /\ q1.state = q0.state
    BY <2>2, CancelKeeps, CancelChanges DEF Timers, Sound, Changes
  <2> HIDE DEF q1
  <2>4. Sound(q2) /\ Told(q1, q2) /\ q2.state = q1.state
    BY <2>3, CancelKeeps, CancelChanges DEF Timers, Sound, Changes
  <2> HIDE DEF q2
  <2>5. Sound(q3) /\ Told(q2, q3) /\ q3.state = q2.state
    BY <2>4, CancelKeeps, CancelChanges DEF Timers, Sound, Changes
  <2> HIDE DEF q3
  <2>6. Sound(q4) /\ Told(q3, q4) /\ q4.state = q3.state
    BY <2>5, CancelKeeps, CancelChanges DEF Timers, Sound, Changes
  <2> HIDE DEF q4
  <2> QED
    BY <2>3, <2>4, <2>5, <2>6 DEF Told, Sound
<1>2. /\ q4.isClosed = p.isClosed /\ q4.tcp = "lost" /\ q4.tornDown = p.tornDown
      /\ q4.closes = p.closes /\ q4.reported = p.reported /\ q4.opens = p.opens
      /\ q4.connects = p.connects /\ q4.wasClean = p.wasClean
      /\ q4.servingFlash = p.servingFlash /\ q4.state = p.state
  <2>1. /\ Told(p, [q0 EXCEPT !.tcp = p.tcp]) /\ q0.state = p.state /\ q0.tcp = "lost"
    BY DEF Whole, Sound, Instances, Told
  <2>2. Told([q0 EXCEPT !.tcp = p.tcp], [q4 EXCEPT !.tcp = p.tcp])
    BY <1>1 DEF Told, Instances
  <2> HIDE DEF q4
  <2> QED
    BY <1>1, <2>1 DEF Told, Whole, Sound, Instances
<1>3. c = IF q4.state # "CLOSED" /\ q4.isClosed THEN [r EXCEPT !.raised = TRUE]
          ELSE IF r.servingFlash THEN [r EXCEPT !.tornDown = TRUE]
          ELSE [r EXCEPT !.tornDown = TRUE, !.closes = @ + 1,
                         !.reported = IF r.wasClean THEN "clean" ELSE "unclean",
                         !.wasNotCleanReason = IF ~r.wasClean /\ ~r.droppedByMe /\ @ = "none"
                                               THEN "peerDropped" ELSE @]
  BY DEF connectionLost
<1> HIDE DEF q4, c
<1>4. /\ r.isClosed = TRUE /\ r.tcp = "lost" /\ r.tornDown = p.tornDown
      /\ r.closes = p.closes /\ r.reported = p.reported /\ r.opens = p.opens
      /\ r.connects = p.connects /\ r.wasClean = p.wasClean
      /\ r.servingFlash = p.servingFlash /\ r.state = "CLOSED"
      /\ r \in Instances
  BY <1>1, <1>2 DEF Instances, States
<1>5. ~(q4.state # "CLOSED" /\ q4.isClosed)
  BY <1>2 DEF Whole, Sane
<1> HIDE DEF r
<1>6. /\ c.isClosed = TRUE /\ c.tcp = "lost" /\ c.tornDown = TRUE
      /\ c.closes = (IF p.servingFlash THEN p.closes ELSE p.closes + 1)
      /\ c.reported = (IF p.servingFlash THEN p.reported
                       ELSE IF p.wasClean THEN "clean" ELSE "unclean")
      /\ c.opens = p.opens /\ c.connects = p.connects /\ c.wasClean = p.wasClean
      /\ c.servingFlash = p.servingFlash /\ c.state = "CLOSED"
  BY <1>3, <1>4, <1>5 DEF Instances
<1>7. p.tornDown = FALSE /\ p.closes = 0 /\ p.reported = "none"
  BY DEF Whole, Sane, Sound, Instances, Moves
<1>8. Sane(c)
  BY <1>6, <1>7 DEF Sane, Whole, Over, Connecting
<1>9. Pinging(c)
  BY <1>6 DEF Pinging, Connecting
<1>10. Advances(s, c)
  <2>1. /\ s.state \in States /\ s.servingFlash = p.servingFlash
        /\ s.opens = p.opens /\ s.reported = p.reported
        /\ p.wasClean => s.wasClean
    BY DEF Whole, Sound, Instances, Moves
  <2>2. CASE p.servingFlash
    BY <1>6, <1>7, <2>1, <2>2 DEF Advances, phaseOf
  <2>3. CASE ~p.servingFlash
    BY <1>6, <1>7, <2>1, <2>3 DEF Advances, phaseOf, Whole, Sane, Over, Connecting
  <2> QED
    BY <2>2, <2>3
<1> QED
  BY <1>8, <1>9, <1>10 DEF Goes, c

LEMMA RaiseGoes ==
    ASSUME NEW s, Whole(s), NEW p, Whole(p), Moves(s, p), p.wasClean => s.wasClean,
           s.tcp # "lost"
    PROVE  Goes(s, raiseFromDataReceived(p))
<1> DEFINE q == [p EXCEPT !.receiving = FALSE]
<1>1. q \in Instances /\ Same(p, q) /\ Told(p, q) /\ Rings(p, q) /\ q.state = p.state
  BY DEF Whole, Sound, Instances, Same, Alike, Told, Rings
<1>2. Sound(q)
  BY <1>1 DEF Whole, Sound, Same, Alike
<1>3. Moves(s, q) /\ q.wasClean = p.wasClean
  BY <1>1, ToldKeeps, KeepsTransitive DEF Told
<1>4. Whole(q)
  BY <1>1, <1>2, ToldKeeps, KeepsWhole
<1>5. Goes(s, q)
  BY <1>3, <1>4, MovesGoes DEF Whole
<1> QED
  BY <1>5, ConnectionLostGoes DEF raiseFromDataReceived

-----------------------------------------------------------------------------
(* The opening handshake.                                                  *)

LEMMA EnterOpenWhole ==
    ASSUME NEW p, Whole(p), Safe(p), p.state \in Connecting
    PROVE  LET q == enterOpen(p)
           IN  /\ Whole(q) /\ q.state = "OPEN"
               /\ q.opens = p.opens /\ q.reported = p.reported /\ q.servingFlash = p.servingFlash
<1> DEFINE o == [p EXCEPT !.state = "OPEN"]
           c == cancel(o, "openHandshake")
           q == enterOpen(p)
<1>1. o \in Instances /\ Told(p, o) /\ o.state = "OPEN" /\ Rings(p, o)
      /\ o.handle = p.handle /\ o.live = p.live
      /\ o.closeSent = p.closeSent /\ o.closeReceived = p.closeReceived
  BY DEF Whole, Sound, Instances, States, Told, Rings
<1>2. q = armIf(AutoPingInterval, c, "autoPing")
  BY DEF enterOpen
<1>3. Safe(q)
  BY EnterOpenSafe
<1> HIDE DEF o, q
<1>4. Sound(o)
  <2>1. Sound(p)
    BY DEF Whole
  <2> QED
    BY <1>1, <2>1 DEF Sound, Told
<1>5. Sound(c) /\ Told(o, c) /\ c.state = "OPEN" /\ Rings(o, c)
  <2>1. Sound(c) /\ Changes(o, c, "openHandshake")
    BY <1>1, <1>4, CancelKeeps, CancelChanges DEF Timers
  <2> HIDE DEF c
  <2> QED
    BY <1>1, <2>1 DEF Timers, PingTimers, Changes, Rings
<1> HIDE DEF c
<1>6. /\ c.live["autoPing"] = 0 /\ c.live["autoPingTimeout"] = 0 /\ c.autoPingPending = "none"
      /\ c.handle["autoPing"] = FALSE /\ c.handle["autoPingTimeout"] = FALSE
  <2>1. /\ p.live["autoPing"] = 0 /\ p.live["autoPingTimeout"] = 0 /\ p.autoPingPending = "none"
    BY DEF Whole, Pinging
  <2>2. /\ c.live["autoPing"] = 0 /\ c.live["autoPingTimeout"] = 0 /\ c.autoPingPending = "none"
    BY <1>1, <1>5, <2>1 DEF Rings, PingTimers
  <2>3. c.handle \in [Timers -> BOOLEAN]
    BY <1>5 DEF Sound, Instances
  <2> QED
    BY <1>5, <2>2, <2>3 DEF Sound, Timers
<1>7. Told(c, q) /\ q.state = "OPEN" /\ Pinging(q)
  <2>1. CASE AutoPingInterval
    <3>1. Changes(c, arm(c, "autoPing"), "autoPing")
          /\ arm(c, "autoPing").handle["autoPing"] = TRUE
          /\ arm(c, "autoPing").live["autoPing"] = c.live["autoPing"] + 1
      BY <1>5, ArmChanges DEF Sound, Timers
    <3>2. q = arm(c, "autoPing")
      BY <1>2, <2>1 DEF armIf
    <3>3. /\ Told(c, q) /\ q.state = "OPEN" /\ q.autoPingPending = "none"
          /\ q.live["autoPing"] = 1 /\ q.handle["autoPing"] = TRUE
          /\ q.live["autoPingTimeout"] = 0 /\ q.handle["autoPingTimeout"] = FALSE
      BY <1>5, <1>6, <3>1, <3>2 DEF Changes, Timers
    <3> QED
      BY <2>1, <3>3 DEF Pinging, PingTimers, Connecting
  <2>2. CASE ~AutoPingInterval
    <3>1. q = c
      BY <1>2, <2>2 DEF armIf
    <3>2. Told(c, q)
      BY <3>1 DEF Told
    <3> QED
      BY <1>5, <1>6, <2>2, <3>1, <3>2 DEF Pinging, PingTimers, Connecting
  <2> QED
    BY <2>1, <2>2
<1>8. /\ Told(p, q)
  BY <1>1, <1>5, <1>7 DEF Told
<1>9. Sane(q)
  BY <1>7, <1>8 DEF Whole, Sane, Told, Connecting, Over
<1> QED
  BY <1>3, <1>7, <1>8, <1>9 DEF Whole, Safe, Told, q

\* onOpen is called while the connection is OPEN or already ends.
LEMMA FireOnOpenWhole ==
    ASSUME NEW p, Whole(p), p.state \notin Connecting
    PROVE  LET q == fireOnOpen(p)
           IN  /\ Sane(q) /\ Pinging(q)
               /\ q.state = p.state /\ q.opens = p.opens + 1
               /\ q.reported = p.reported /\ q.servingFlash = p.servingFlash
<1> DEFINE q == fireOnOpen(p)
<1>1. /\ q.isClosed = p.isClosed /\ q.tcp = p.tcp /\ q.tornDown = p.tornDown
      /\ q.closes = p.closes /\ q.reported = p.reported /\ q.opens = p.opens + 1
      /\ q.connects = p.connects /\ q.wasClean = p.wasClean
      /\ q.servingFlash = p.servingFlash /\ q.state = p.state
      /\ q.handle = p.handle /\ q.live = p.live /\ q.autoPingPending = p.autoPingPending
  BY DEF fireOnOpen, Whole, Sound, Instances
<1> HIDE DEF q
<1>2. Sane(q)
  BY <1>1 DEF Whole, Sane, Over
<1>3. Pinging(q)
  BY <1>1 DEF Whole, Pinging
<1> QED
  BY <1>1, <1>2, <1>3 DEF q

\* The connection opens, or the client turns the server down.
LEMMA EstablishGoes ==
    ASSUME NEW p, Whole(p), Safe(p), p.state \in Connecting
    PROVE  /\ Goes(p, fireOnOpen(enterOpen(p)))
           /\ Goes(p, failConnection(enterOpen(p)))
<1> DEFINE e == enterOpen(p)
           f == fireOnOpen(e)
           d == failConnection(e)
<1>1. /\ Whole(e) /\ e.state = "OPEN"
      /\ e.opens = p.opens /\ e.reported = p.reported /\ e.servingFlash = p.servingFlash
  BY EnterOpenWhole
<1>2. p.opens = 0 /\ p.servingFlash = FALSE
  BY DEF Whole, Sound, Instances, Sane, Connecting
<1>3. Safe(e)
  BY EnterOpenSafe
<1> HIDE DEF e
<1>4. Goes(p, f)
  <2>1. /\ Sane(f) /\ Pinging(f) /\ f.state = "OPEN" /\ f.opens = 1
        /\ f.reported = p.reported /\ f.servingFlash = FALSE
    BY <1>1, <1>2, FireOnOpenWhole DEF Connecting
  <2> HIDE DEF f
  <2>2. Advances(p, f)
    BY <1>2, <2>1 DEF Advances, phaseOf, Connecting
  <2> QED
    BY <2>1, <2>2 DEF Goes
<1>5. Goes(p, d)
  <2>1. Keeps(e, d) /\ Over(d) /\ Safe(d)
    BY <1>1, <1>3, FailConnectionKeeps, FailConnectionSafe DEF Safe
  <2> HIDE DEF d
  <2>2. Sane(d) /\ Pinging(d)
    BY <1>1, <2>1, KeepsWhole DEF Whole, Safe
  <2>3. /\ d.opens = 0 /\ d.reported = p.reported /\ d.servingFlash = FALSE
    BY <1>1, <1>2, <2>1 DEF Keeps, Moves
  <2>4. Advances(p, d)
    BY <1>2, <2>1, <2>3 DEF Advances, phaseOf, Connecting, Over
  <2> QED
    BY <2>2, <2>4 DEF Goes
<1> QED
  BY <1>4, <1>5 DEF e

LEMMA FailHandshakeKeeps ==
    ASSUME NEW p \in Instances
    PROVE  Keeps(p, failHandshake(p))
<1> DEFINE q == [p EXCEPT !.wasNotCleanReason = "handshake"]
<1>1. q \in Instances /\ Told(p, q) /\ Rings(p, q) /\ q.state = p.state
  BY DEF Instances, Reasons, Told, Rings
<1>2. failHandshake(p) = dropConnection(q, ~IsServer)
  BY DEF failHandshake
<1> HIDE DEF q
<1>3. Keeps(q, dropConnection(q, ~IsServer))
  BY <1>1, DropKeeps
<1> QED
  BY <1>1, <1>2, <1>3, ToldKeeps, KeepsTransitive

LEMMA FinishOnConnectingKeeps ==
    ASSUME NEW p \in Instances, NEW ok \in BOOLEAN
    PROVE  Keeps(p, finishOnConnecting(p, ok))
<1> DEFINE q == [p EXCEPT !.requestSent = TRUE]
<1>1. Told(p, q) /\ Rings(p, q) /\ q.state = p.state
  BY DEF Instances, Told, Rings
<1> QED
  BY <1>1, ToldKeeps, DropKeeps DEF finishOnConnecting

LEMMA StartHandshakeKeeps ==
    ASSUME NEW p \in Instances, NEW ok \in BOOLEAN
    PROVE  Keeps(p, startHandshake(p, ok))
<1> DEFINE q == [p EXCEPT !.connecting = TRUE]
<1>1. Told(p, q) /\ Rings(p, q) /\ q.state = p.state
  BY DEF Instances, Told, Rings
<1> QED
  BY <1>1, ToldKeeps, FinishOnConnectingKeeps DEF startHandshake

\* A server knows the outcome at once.
LEMMA ServerConnectGoes ==
    ASSUME NEW p, Whole(p), Safe(p), p.state \in Connecting, IsServer, HandlersInTime,
           NEW outcome \in Outcomes
    PROVE  Goes(p, callOnConnect(p, outcome))
<1>1. callOnConnect(p, outcome) = finishOnConnect(p, outcome)
  BY DEF callOnConnect, HandlersInTime
<1>2. Goes(p, p)
  BY ToldKeeps, KeepsGoes DEF Told, Rings, Whole
<1>3. Goes(p, failHandshake(p))
  BY FailHandshakeKeeps, FailHandshakeSafe, KeepsGoes DEF Safe, Sound
<1>4. Goes(p, succeedHandshake(p))
  BY <1>2, EstablishGoes DEF succeedHandshake
<1>5. outcome = "accept" \/ outcome = "deny" \/ outcome = "invalid"
  BY DEF Outcomes
<1> QED
  BY <1>1, <1>2, <1>3, <1>4, <1>5 DEF finishOnConnect

\* A client is OPEN before it asks.
LEMMA ClientConnectGoes ==
    ASSUME NEW p, Whole(p), Safe(p), p.state \in Connecting, ~IsServer,
           NEW outcome \in Outcomes
    PROVE  Goes(p, callOnConnect(enterOpen(p), outcome))
<1> DEFINE e == enterOpen(p)
           w == [e EXCEPT !.connects = @ + 1]
<1>1. CASE AsyncHandlers
  <2>1. callOnConnect(e, outcome) = w
    BY <1>1 DEF callOnConnect
  <2>2. Whole(e) /\ e.state = "OPEN"
    BY EnterOpenWhole
  <2> HIDE DEF e
  <2>3. /\ w.isClosed = e.isClosed /\ w.tcp = e.tcp /\ w.tornDown = e.tornDown
        /\ w.closes = e.closes /\ w.reported = e.reported /\ w.opens = e.opens
        /\ w.wasClean = e.wasClean /\ w.servingFlash = e.servingFlash /\ w.state = e.state
        /\ w.handle = e.handle /\ w.live = e.live /\ w.autoPingPending = e.autoPingPending
    BY <2>2 DEF Whole, Sound, Instances
  <2> HIDE DEF w
  <2>4. Sane(w)
    BY <1>1, <2>2, <2>3 DEF Whole, Sane, Over, Connecting
  <2>5. Pinging(w)
    BY <2>2, <2>3 DEF Whole, Pinging
  <2> QED
    BY <1>1, <2>1, <2>4, <2>5 DEF Goes, e
<1>2. CASE ~AsyncHandlers
  <2>1. outcome = "accept" \/ outcome = "deny"
    BY DEF Outcomes
  <2> QED
    BY <1>2, <2>1, EstablishGoes DEF callOnConnect, finishOnConnect
<1> QED
  BY <1>1, <1>2

\* onConnect's future of a client, resolved however late.
LEMMA LateConnectGoes ==
    ASSUME NEW p, Whole(p), Safe(p), p.connects > 0, HandlersInTime, NEW outcome \in Outcomes
    PROVE  Goes(p, finishOnConnect([p EXCEPT !.connects = @ - 1], outcome))
<1> DEFINE q == [p EXCEPT !.connects = @ - 1]
<1>1. AsyncHandlers /\ ~IsServer /\ p.state \notin Connecting
  <2>1. p.connects \in Nat
    BY DEF Whole, Sound, Instances
  <2> QED
    BY <2>1 DEF Whole, Sane, HandlersInTime
<1>2. q \in Instances /\ Same(p, q)
  BY DEF Whole, Sound, Instances, Same, Alike
<1>3. /\ q.isClosed = p.isClosed /\ q.tcp = p.tcp /\ q.tornDown = p.tornDown
      /\ q.closes = p.closes /\ q.reported = p.reported /\ q.opens = p.opens
      /\ q.wasClean = p.wasClean /\ q.servingFlash = p.servingFlash /\ q.state = p.state
      /\ q.autoPingPending = p.autoPingPending
  BY DEF Whole, Sound, Instances
<1> HIDE DEF q
<1>4. Safe(q)
  BY <1>2, SameSafe
<1>5. Sane(q)
  BY <1>1, <1>3 DEF Whole, Sane, Over
<1>6. Pinging(q)
  BY <1>2, <1>3 DEF Whole, Pinging, Same, Alike
<1>7. Whole(q)
  BY <1>4, <1>5, <1>6 DEF Whole, Safe
<1>8. Sane(fireOnOpen(q)) /\ Pinging(fireOnOpen(q))
  BY <1>1, <1>3, <1>7, FireOnOpenWhole
<1>9. Sane(failConnection(q)) /\ Pinging(failConnection(q))
  BY <1>4, <1>7, FailConnectionKeeps, FailConnectionSafe, KeepsWhole DEF Whole, Safe
<1>10. outcome = "accept" \/ outcome = "deny"
  BY <1>1 DEF Outcomes
<1> QED
  BY <1>1, <1>8, <1>9, <1>10 DEF finishOnConnect, Goes, q

-----------------------------------------------------------------------------
(* Frames received.                                                        *)

\* A Pong is awaited no longer, and its timeout is gone.
LEMMA PongCancelled ==
    ASSUME NEW p, Sound(p)
    PROVE  LET q == [cancel(p, "autoPingTimeout") EXCEPT !.autoPingPending = "none"]
           IN  /\ Sound(q) /\ Told(p, q) /\ q.state = p.state /\ q.autoPingPending = "none"
               /\ q.handle["autoPing"] = p.handle["autoPing"]
               /\ q.live["autoPing"] = p.live["autoPing"]
               /\ q.handle["autoPingTimeout"] = FALSE
               /\ q.live["autoPingTimeout"] =
                     IF p.handle["autoPingTimeout"] THEN p.live["autoPingTimeout"] - 1
                     ELSE p.live["autoPingTimeout"]
<1> DEFINE c == cancel(p, "autoPingTimeout")
           q == [c EXCEPT !.autoPingPending = "none"]
<1>1. Sound(c) /\ Changes(p, c, "autoPingTimeout") /\ c.handle["autoPingTimeout"] = FALSE
      /\ c.live["autoPingTimeout"] =
            IF p.handle["autoPingTimeout"] THEN p.live["autoPingTimeout"] - 1
            ELSE p.live["autoPingTimeout"]
  BY CancelKeeps, CancelChanges DEF Sound, Timers
<1> HIDE DEF c
<1>2. q \in Instances /\ Told(c, q) /\ q.state = c.state /\ q.autoPingPending = "none"
      /\ q.handle = c.handle /\ q.live = c.live /\ q.closeSent = c.closeSent
      /\ q.closeReceived = c.closeReceived
  BY <1>1 DEF Sound, Instances, Told
<1> HIDE DEF q
<1>3. Sound(q)
  BY <1>1, <1>2 DEF Sound, Told
<1>4. Told(p, q) /\ q.state = p.state
  BY <1>1, <1>2 DEF Changes, Told
<1>5. q.handle["autoPing"] = p.handle["autoPing"] /\ q.live["autoPing"] = p.live["autoPing"]
  BY <1>1, <1>2 DEF Changes, Timers
<1> QED
  BY <1>1, <1>2, <1>3, <1>4, <1>5 DEF c, q

\* The awaited Pong, or a data frame in its stead: the next ping is scheduled,
\* and no other.
LEMMA PongGoes ==
    ASSUME NEW p, Whole(p), Safe(p), p.state \notin Connecting
    PROVE  /\ p.autoPingPending # "none" \/ p.state # "OPEN" =>
                Pinging(onPendingPong(p))
           /\ Pinging(cancelAutoPingTimeoutCall(p))
           /\ Told(p, onPendingPong(p)) /\ onPendingPong(p).state = p.state
           /\ Told(p, cancelAutoPingTimeoutCall(p))
           /\ cancelAutoPingTimeoutCall(p).state = p.state
<1> DEFINE q == [cancel(p, "autoPingTimeout") EXCEPT !.autoPingPending = "none"]
           k == cancel(q, "autoPing")
           o == onPendingPong(p)
           a == cancelAutoPingTimeoutCall(p)
<1>1. /\ o = armIf(AutoPingInterval, q, "autoPing")
      /\ a = armIf(AutoPingInterval, k, "autoPing")
  BY DEF onPendingPong, cancelAutoPingTimeoutCall
<1>2. /\ Sound(q) /\ Told(p, q) /\ q.state = p.state /\ q.autoPingPending = "none"
      /\ q.handle["autoPing"] = p.handle["autoPing"]
      /\ q.live["autoPing"] = p.live["autoPing"]
      /\ q.handle["autoPingTimeout"] = FALSE
      /\ q.live["autoPingTimeout"] =
            IF p.handle["autoPingTimeout"] THEN p.live["autoPingTimeout"] - 1
            ELSE p.live["autoPingTimeout"]
  BY PongCancelled DEF Whole
<1> HIDE DEF q, o, a
<1>3. /\ Sound(k) /\ Changes(q, k, "autoPing") /\ k.handle["autoPing"] = FALSE
      /\ k.live["autoPing"] = IF q.handle["autoPing"] THEN q.live["autoPing"] - 1
                              ELSE q.live["autoPing"]
  BY <1>2, CancelKeeps, CancelChanges DEF Sound, Timers
<1> HIDE DEF k
<1>4. /\ Changes(q, arm(q, "autoPing"), "autoPing")
      /\ arm(q, "autoPing").handle["autoPing"] = TRUE
      /\ arm(q, "autoPing").live["autoPing"] = q.live["autoPing"] + 1
  BY <1>2, ArmChanges DEF Sound, Timers
<1>5. /\ Changes(k, arm(k, "autoPing"), "autoPing")
      /\ arm(k, "autoPing").handle["autoPing"] = TRUE
      /\ arm(k, "autoPing").live["autoPing"] = k.live["autoPing"] + 1
  BY <1>3, ArmChanges DEF Sound, Timers
<1>6. Told(p, o) /\ Told(p, a) /\ o.state = p.state /\ a.state = p.state
  BY <1>1, <1>2, <1>3, <1>4, <1>5 DEF armIf, Changes, Told
<1>7. CASE p.state # "OPEN"
  BY <1>6, <1>7 DEF Pinging, Connecting, o, a
<1>8. CASE p.state = "OPEN"
  <2>1. /\ p.live \in [Timers -> Nat] /\ p.handle \in [Timers -> BOOLEAN]
    BY DEF Whole, Sound, Instances
  <2>2. /\ p.live["autoPing"] = (IF p.handle["autoPing"] THEN 1 ELSE 0)
        /\ p.live["autoPingTimeout"] = (IF p.handle["autoPingTimeout"] THEN 1 ELSE 0)
        /\ IF AutoPingInterval
           THEN p.autoPingPending # "none" => p.live["autoPing"] = 0
           ELSE p.live["autoPing"] = 0
    BY <1>8, <2>1 DEF Whole, Pinging, PingTimers, Timers
  <2>3. /\ q.live["autoPingTimeout"] = 0
        /\ k.live["autoPing"] = 0 /\ k.live["autoPingTimeout"] = 0
        /\ k.handle["autoPingTimeout"] = FALSE /\ k.autoPingPending = "none"
    BY <1>2, <1>3, <2>1, <2>2 DEF Changes, Timers
  <2>4. Pinging(a)
    <3>1. /\ AutoPingInterval => a.live["autoPing"] = 1 /\ a.handle["autoPing"]
          /\ ~AutoPingInterval => a.live["autoPing"] = 0 /\ ~a.handle["autoPing"]
          /\ a.live["autoPingTimeout"] = 0 /\ a.handle["autoPingTimeout"] = FALSE
          /\ a.autoPingPending = "none"
      BY <1>1, <1>3, <1>5, <2>3 DEF armIf, Changes, Timers
    <3> QED
      BY <1>6, <1>8, <3>1 DEF Pinging, PingTimers, Connecting
  <2>5. ASSUME p.autoPingPending # "none"
        PROVE  Pinging(o)
    <3>1. /\ q.live["autoPing"] = 0 /\ q.handle["autoPing"] = FALSE
      BY <1>2, <2>1, <2>2, <2>5 DEF Timers
    <3>2. /\ AutoPingInterval => o.live["autoPing"] = 1 /\ o.handle["autoPing"]
          /\ ~AutoPingInterval => o.live["autoPing"] = 0 /\ ~o.handle["autoPing"]
          /\ o.live["autoPingTimeout"] = 0 /\ o.handle["autoPingTimeout"] = FALSE
          /\ o.autoPingPending = "none"
      BY <1>1, <1>2, <1>4, <2>3, <3>1 DEF armIf, Changes, Timers
    <3> QED
      BY <1>6, <1>8, <3>2 DEF Pinging, PingTimers, Connecting
  <2> QED
    BY <1>6, <1>8, <2>4, <2>5 DEF o, a
<1> QED
  BY <1>7, <1>8

LEMMA DataFrameGoes ==
    ASSUME NEW s, Whole(s), NEW p, Whole(p), Safe(p), Keeps(s, p),
           s.tcp # "lost", s.state \notin Connecting,
           NEW fin \in BOOLEAN, NEW raises \in BOOLEAN
    PROVE  Goes(s, onDataFrameEnd(p, fin, raises))
<1> DEFINE q == IF p.handle["autoPingTimeout"] /\ AutoPingRestartOnAnyTraffic
                THEN cancelAutoPingTimeoutCall(p) ELSE p
           told == [q EXCEPT !.early = @ \/ p.opens = 0]
           r == onDataFrameEnd(p, fin, raises)
<1>1. p.state \notin Connecting
  BY DEF Keeps, Moves, Over, Connecting
<1>2. Safe(q) /\ Told(p, q) /\ q.state = p.state /\ Pinging(q)
  BY <1>1, PongSafe, PongGoes DEF Whole, Told
<1>3. r = IF ~fin \/ p.failedByMe THEN q ELSE IF raises THEN raiseFromDataReceived(told) ELSE told
  BY DEF onDataFrameEnd
<1> HIDE DEF q, r
<1>4. Told(q, told) /\ Rings(q, told) /\ told.state = q.state /\ Same(q, told)
  BY <1>2 DEF Safe, Sound, Instances, Told, Rings, Same, Alike
<1>5. told \in Instances
  <2> DEFINE e == q.early \/ p.opens = 0
  <2>1. q \in Instances /\ told = [q EXCEPT !.early = e]
    BY <1>2 DEF Safe, Sound
  <2>2. e \in BOOLEAN
    BY <2>1
  <2> HIDE DEF e
  <2>3. [q EXCEPT !.early = e] \in Instances
    BY <2>1, <2>2 DEF Instances
  <2> QED
    BY <2>1, <2>3
<1> HIDE DEF told
<1>6. Safe(told)
  BY <1>2, <1>4, <1>5, SameSafe
<1>7. Moves(p, q) /\ Keeps(q, told)
  BY <1>2, <1>4, ToldKeeps
<1>8. Whole(q) /\ Whole(told)
  BY <1>2, <1>6, <1>7, MovesSane, KeepsWhole DEF Whole, Safe
<1>9. Moves(s, q) /\ Moves(s, told)
  BY <1>7, KeepsTransitive DEF Keeps
<1>10. Goes(s, q) /\ Goes(s, told)
  BY <1>8, <1>9, MovesGoes DEF Whole
<1>11. Goes(s, raiseFromDataReceived(told))
  BY <1>2, <1>4, <1>8, <1>9, RaiseGoes DEF Keeps, Told
<1> QED
  BY <1>3, <1>10, <1>11 DEF r

\* The connection is answered and ends, whatever was wrong with the frame.
LEMMA CloseFrameGoes ==
    ASSUME NEW s, Whole(s), NEW p, Whole(p), Safe(p), Keeps(s, p),
           p.state \notin Connecting, NEW faults \in Faults
    PROVE  Goes(s, onCloseFrame(p, faults))
<1> DEFINE p0 == [p EXCEPT !.closeReceived = TRUE]
           q == failTimes(p0, faults)
           clean == [q EXCEPT !.wasClean = TRUE]
           ended == cancel(clean, "closeHandshake")
           replied == sendCloseFrame(clean, TRUE)
           r == onCloseFrame(p, faults)
<1>1. /\ p0 \in Instances /\ Alike(p, p0) /\ p0.handle = p.handle /\ p0.live = p.live
      /\ p0.closeSent = p.closeSent /\ p0.closeReceived = TRUE
      /\ Told(p, p0) /\ Rings(p, p0)
  BY DEF Safe, Sound, Instances, Alike, Told, Rings
<1>2. Safe(p0) /\ Keeps(p, p0)
  BY <1>1, ToldKeeps DEF Safe, Sound, Timed, Alike, Told
<1> HIDE DEF p0
<1>3. Safe(q) /\ Keeps(p0, q) /\ q.closeReceived = TRUE
  BY <1>1, <1>2, FailTimesSafe, FailTimesKeeps, FailTimesKeepReceived
<1>4. Keeps(s, q) /\ q.state \notin Connecting
  <2>1. Keeps(p, q)
    BY <1>2, <1>3, KeepsTransitive
  <2>2. Keeps(s, q)
    BY <2>1, KeepsTransitive
  <2> QED
    BY <2>1, <2>2 DEF Keeps, Moves, Over, Connecting
<1>5. r = IF faults > 0 /\ FailByDrop THEN q
          ELSE CASE q.state = "CLOSING" ->
                      IF IsServer THEN dropConnection(ended, TRUE)
                      ELSE armIf(ServerConnectionDropTimeout, ended, "serverDrop")
                 [] q.state = "OPEN" ->
                      IF IsServer THEN dropConnection(replied, FALSE) ELSE replied
                 [] OTHER -> [q EXCEPT !.wasClean = FALSE]
  BY DEF onCloseFrame, p0
<1>6. Safe(r)
  BY CloseFrameSafe
<1> HIDE DEF q, r
<1>7. q \in Instances
  BY <1>3 DEF Safe, Sound
<1>8. /\ clean \in Instances /\ clean.state = q.state /\ clean.handle = q.handle
      /\ clean.live = q.live /\ clean.reported = q.reported
      /\ clean.closeSent = q.closeSent /\ clean.closeReceived = TRUE
  BY <1>3, <1>7 DEF Instances
<1>9. CASE faults > 0 /\ FailByDrop
  BY <1>4, <1>5, <1>6, <1>9, KeepsGoes DEF Safe, r
<1>10. CASE ~(faults > 0 /\ FailByDrop) /\ q.state = "CLOSING"
  <2>1. Moves(q, clean)
    BY <1>7, <1>10 DEF Moves, Over, Instances
  <2>2. Sound(clean)
    BY <1>3, <1>8, <1>10 DEF Safe, Sound
  <2> HIDE DEF clean
  <2>3. Sound(ended) /\ ended.state = "CLOSING" /\ Moves(clean, ended)
    BY <1>8, <1>10, <2>2, CancelKeeps, OtherCallsKeep DEF Timers, Alike
  <2> HIDE DEF ended
  <2>4. Keeps(ended, dropConnection(ended, TRUE)) /\ Keeps(ended, arm(ended, "serverDrop"))
    BY <2>3, DropKeeps, OtherCallsKeep DEF Sound, Timers, PingTimers
  <2>5. \/ r = ended \/ r = dropConnection(ended, TRUE) \/ r = arm(ended, "serverDrop")
    BY <1>5, <1>10 DEF armIf
  <2>6. Moves(ended, r) /\ Over(r)
    <3>1. Moves(ended, ended)
      BY ToldKeeps DEF Told
    <3>2. Moves(ended, r)
      BY <2>4, <2>5, <3>1 DEF Keeps
    <3> QED
      BY <2>3, <3>2 DEF Moves, Over, Connecting
  <2>7. Moves(s, r)
    BY <1>4, <2>1, <2>3, <2>6, KeepsTransitive DEF Keeps
  <2>8. Pinging(r)
    BY <2>6 DEF Pinging, Over, Connecting
  <2> QED
    BY <1>6, <2>7, <2>8, MovesGoes DEF Safe, r
<1>11. CASE ~(faults > 0 /\ FailByDrop) /\ q.state = "OPEN"
  <2>1. /\ replied = [clean EXCEPT !.state = "CLOSING", !.closedByMe = FALSE, !.closeSent = TRUE]
    BY <1>8, <1>11 DEF sendCloseFrame, armIf
  <2>2. Moves(q, replied) /\ replied.state = "CLOSING"
    <3>1. /\ replied.opens = q.opens /\ replied.reported = q.reported
          /\ replied.closes = q.closes /\ replied.tornDown = q.tornDown
          /\ replied.servingFlash = q.servingFlash /\ replied.connects = q.connects
          /\ replied.tcp = q.tcp /\ replied.isClosed = q.isClosed
          /\ replied.state = "CLOSING"
      BY <1>7, <2>1 DEF Instances
    <3> QED
      BY <1>11, <3>1 DEF Moves, Over
  <2>3. replied \in Instances
    <3> DEFINE e == [clean EXCEPT !.state = "CLOSING"]
    <3>1. e \in Instances
      BY <1>8 DEF Instances, States
    <3>2. replied = [e EXCEPT !.closedByMe = FALSE, !.closeSent = TRUE]
      BY <2>1
    <3> HIDE DEF e, replied
    <3>3. [e EXCEPT !.closedByMe = FALSE, !.closeSent = TRUE] \in Instances
      BY <3>1 DEF Instances
    <3> QED
      BY <3>2, <3>3
  <2> HIDE DEF replied
  <2>4. Keeps(replied, dropConnection(replied, FALSE))
    BY <2>3, DropKeeps
  <2>5. r = replied \/ r = dropConnection(replied, FALSE)
    BY <1>5, <1>11
  <2>6. Moves(replied, r) /\ Over(r)
    <3>1. Moves(replied, replied)
      BY ToldKeeps DEF Told
    <3>2. Moves(replied, r)
      BY <2>4, <2>5, <3>1 DEF Keeps
    <3> QED
      BY <2>2, <3>2 DEF Moves, Over, Connecting
  <2>7. Moves(s, r)
    BY <1>4, <2>2, <2>6, KeepsTransitive DEF Keeps
  <2>8. Pinging(r)
    BY <2>6 DEF Pinging, Over, Connecting
  <2> QED
    BY <1>6, <2>7, <2>8, MovesGoes DEF Safe, r
<1>12. CASE ~(faults > 0 /\ FailByDrop) /\ q.state \notin {"CLOSING", "OPEN"}
  <2>1. r = [q EXCEPT !.wasClean = FALSE]
    BY <1>5, <1>12
  <2>2. Keeps(q, r)
    BY <1>7, <2>1 DEF Instances, Keeps, Moves, Quiet, Rings
  <2>3. Keeps(s, r)
    BY <1>4, <2>2, KeepsTransitive
  <2> QED
    BY <1>6, <2>3, KeepsGoes DEF Safe, r
<1> QED
  BY <1>9, <1>10, <1>11, <1>12

-----------------------------------------------------------------------------
(* Delayed calls that run.                                                 *)

LEMMA SendAutoPingGoes ==
    ASSUME Whole(ws), Safe(ws), SendAutoPing
    PROVE  Goes(ws, ws')
<1> DEFINE e == expire(ws, "autoPing")
           q == [e EXCEPT !.autoPingPending = IF ws.state = "OPEN" THEN "sent" ELSE "unsent"]
<1>1. Sound(e) /\ Changes(ws, e, "autoPing") /\ e.handle["autoPing"] = FALSE
      /\ e.live["autoPing"] = ws.live["autoPing"] - 1
  BY ExpireKeeps, ExpireChanges DEF SendAutoPing, Whole, Sound, Timers
<1>2. ws' = armIf(AutoPingTimeout, q, "autoPingTimeout")
  BY DEF SendAutoPing
<1> HIDE DEF e
<1>3. /\ q \in Instances /\ Told(e, q) /\ q.state = e.state
      /\ q.handle = e.handle /\ q.live = e.live
      /\ q.autoPingPending = (IF ws.state = "OPEN" THEN "sent" ELSE "unsent")
  BY <1>1 DEF Sound, Instances, Told
<1> HIDE DEF q
<1>4. /\ Changes(q, arm(q, "autoPingTimeout"), "autoPingTimeout")
      /\ arm(q, "autoPingTimeout").handle["autoPingTimeout"] = TRUE
      /\ arm(q, "autoPingTimeout").live["autoPingTimeout"] = q.live["autoPingTimeout"] + 1
  BY <1>3, ArmChanges DEF Timers
<1>5. Told(ws, ws') /\ ws'.state = ws.state
  BY <1>1, <1>2, <1>3, <1>4 DEF armIf, Changes, Told
<1>6. Moves(ws, ws')
  BY <1>5, ToldKeeps
<1>7. Pinging(ws')
  <2>1. ws.state \notin Connecting
    BY DEF Whole, Pinging, SendAutoPing
  <2>2. CASE ws.state = "OPEN"
    <3>1. ws.live \in [Timers -> Nat] /\ ws.handle \in [Timers -> BOOLEAN]
      BY DEF Whole, Sound, Instances
    <3>2. /\ AutoPingInterval /\ ws.live["autoPing"] = 1
          /\ ws.live["autoPingTimeout"] = 0 /\ ws.handle["autoPingTimeout"] = FALSE
      BY <2>2, <3>1 DEF Whole, Pinging, PingTimers, Timers, SendAutoPing
    <3>3. /\ q.live["autoPing"] = 0 /\ ~q.handle["autoPing"]
          /\ q.live["autoPingTimeout"] = 0 /\ ~q.handle["autoPingTimeout"]
      BY <1>1, <1>3, <3>2 DEF Changes, Timers
    <3>4. /\ ws'.live["autoPing"] = 0 /\ ~ws'.handle["autoPing"]
          /\ AutoPingTimeout => ws'.live["autoPingTimeout"] = 1 /\ ws'.handle["autoPingTimeout"]
          /\ ~AutoPingTimeout => ws'.live["autoPingTimeout"] = 0 /\ ~ws'.handle["autoPingTimeout"]
          /\ ws'.autoPingPending = "sent"
      BY <1>2, <1>3, <1>4, <2>2, <3>3 DEF armIf, Changes, Timers
    <3> QED
      BY <1>5, <2>2, <3>2, <3>4 DEF Pinging, PingTimers, Connecting
  <2>3. CASE ws.state # "OPEN"
    BY <1>5, <2>1, <2>3 DEF Pinging
  <2> QED
    BY <2>2, <2>3
<1>8. Sound(ws')
  BY SendAutoPingSafe DEF Safe
<1> QED
  BY <1>6, <1>7, <1>8, MovesGoes

\* A handshake's timeout only ever drops the connection.
LEMMA TimeoutGoes ==
    ASSUME Whole(ws), Safe(ws'), NEW t \in Timers \ PingTimers, ws.live[t] > 0,
           NEW reason \in Reasons,
           ws' = expire(ws, t) \/ ws' = dropUnclean(expire(ws, t), reason)
    PROVE  Goes(ws, ws')
<1> DEFINE e == expire(ws, t)
<1>1. Sound(e) /\ Keeps(ws, e)
  BY ExpireKeeps, OtherCallsKeep DEF Whole, Sound
<1>2. Keeps(e, dropUnclean(e, reason))
  BY <1>1, DropUncleanKeeps DEF Sound
<1>3. Keeps(ws, ws')
  BY <1>1, <1>2, KeepsTransitive
<1> QED
  BY <1>3, KeepsGoes DEF Safe

LEMMA TimeoutsGo ==
    ASSUME Whole(ws), Safe(ws), Timeout
    PROVE  Goes(ws, ws')
<1>1. Safe(ws')
  BY TimeoutsSafe
<1>2. CASE OnOpenHandshakeTimeout
  BY <1>1, <1>2, TimeoutGoes DEF OnOpenHandshakeTimeout, Timers, PingTimers, Reasons
<1>3. CASE OnCloseHandshakeTimeout
  BY <1>1, <1>3, TimeoutGoes DEF OnCloseHandshakeTimeout, Timers, PingTimers, Reasons
<1>4. CASE OnServerConnectionDropTimeout
  BY <1>1, <1>4, TimeoutGoes DEF OnServerConnectionDropTimeout, Timers, PingTimers, Reasons
<1>5. CASE SendAutoPing
  BY <1>5, SendAutoPingGoes
<1>6. CASE OnAutoPingTimeout
  <2> DEFINE e == expire(ws, "autoPingTimeout")
             d == dropUnclean(e, "pingTimeout")
  <2>1. Sound(e) /\ Moves(ws, e)
    BY <1>6, ExpireKeeps, OtherCallsKeep DEF OnAutoPingTimeout, Whole, Sound, Timers
  <2>2. Keeps(e, d) /\ d.state = "CLOSED"
    BY <2>1, DropUncleanKeeps, DropUncleanSafe DEF Sound, Reasons
  <2>3. ws' = d
    BY <1>6 DEF OnAutoPingTimeout
  <2> HIDE DEF e, d
  <2>4. Moves(ws, ws') /\ Pinging(ws')
    BY <2>1, <2>2, <2>3, KeepsTransitive DEF Keeps, Pinging, Connecting
  <2> QED
    BY <1>1, <2>4, MovesGoes DEF Safe
<1> QED
  BY <1>2, <1>3, <1>4, <1>5, <1>6 DEF Timeout

-----------------------------------------------------------------------------
(* The actions.                                                            *)

\* What a frame's failing checks leave, its end is applied to.
LEMMA FrameChecked ==
    ASSUME Whole(ws), Safe(ws), Receiving, ws.state \in {"OPEN", "CLOSING"},
           NEW violations \in Faults
    PROVE  LET q == failTimes(ws, violations)
           IN  Whole(q) /\ Safe(q) /\ Keeps(ws, q) /\ q.state \notin Connecting
<1>1. Safe(failTimes(ws, violations)) /\ Keeps(ws, failTimes(ws, violations))
  BY FailTimesSafe, FailTimesKeeps
<1> QED
  BY <1>1, KeepsWhole DEF Safe, Keeps, Moves, Over, Connecting

LEMMA ReceiveFramesGo ==
    ASSUME Whole(ws), Safe(ws),
           ReceivePartialHeader \/ ReceiveData \/ ReceivePong \/ ReceiveClose
    PROVE  Goes(ws, ws')
<1>1. Receiving /\ ws.state \in {"OPEN", "CLOSING"} /\ ws.tcp # "lost"
  BY DEF ReceivePartialHeader, ReceiveData, ReceivePong, ReceiveClose, ReceiveFrame, Receiving
<1>2. Safe(ws')
  BY ReceiveSafe DEF Receive
<1>3. ASSUME NEW violations \in Faults, ws' = failTimes(ws, violations)
      PROVE  Goes(ws, ws')
  BY <1>1, <1>3, FrameChecked, KeepsGoes DEF Safe
<1>4. CASE ReceivePartialHeader
  BY <1>3, <1>4 DEF ReceivePartialHeader, ReceiveFrame
<1>5. CASE ReceiveData
  <2>1. PICK violations \in Faults, fin \in BOOLEAN, raises \in BOOLEAN :
          ReceiveFrame(violations, LAMBDA p : onDataFrameEnd(p, fin, raises))
    BY <1>5 DEF ReceiveData
  <2> DEFINE q == failTimes(ws, violations)
  <2>2. ws' = q \/ ws' = onDataFrameEnd(q, fin, raises)
    BY <2>1 DEF ReceiveFrame
  <2>3. Whole(q) /\ Safe(q) /\ Keeps(ws, q)
    BY <1>1, FrameChecked
  <2>4. ws.state \notin Connecting
    BY <1>1 DEF Connecting
  <2> HIDE DEF q
  <2> QED
    BY <1>1, <1>3, <2>2, <2>3, <2>4, DataFrameGoes DEF q
<1>6. CASE ReceivePong
  <2>1. PICK violations \in Faults : ReceiveFrame(violations, onPendingPong)
    BY <1>6 DEF ReceivePong
  <2> DEFINE q == failTimes(ws, violations)
  <2>2. ws' = q \/ ws' = onPendingPong(q)
    BY <2>1 DEF ReceiveFrame
  <2>3. Whole(q) /\ Safe(q) /\ Keeps(ws, q) /\ q.state \notin Connecting
    BY <1>1, FrameChecked
  <2> HIDE DEF q
  <2>4. q.state = "OPEN" => q.autoPingPending = "sent"
    BY <1>6, <2>3 DEF ReceivePong, Keeps, Quiet, Rings, Over
  <2>5. Told(q, onPendingPong(q)) /\ onPendingPong(q).state = q.state /\ Pinging(onPendingPong(q))
    BY <2>3, <2>4, PongGoes
  <2>6. Moves(ws, onPendingPong(q)) /\ Safe(onPendingPong(q))
    BY <2>3, <2>5, ToldKeeps, KeepsTransitive, PongSafe DEF Keeps
  <2>7. Goes(ws, onPendingPong(q))
    BY <2>5, <2>6, MovesGoes DEF Safe
  <2> QED
    BY <1>3, <2>2, <2>7 DEF q
<1>7. CASE ReceiveClose
  <2>1. PICK violations \in Faults, faults \in Faults :
          ReceiveFrame(violations, LAMBDA p : onCloseFrame(p, faults))
    BY <1>7 DEF ReceiveClose
  <2> DEFINE q == failTimes(ws, violations)
  <2>2. ws' = q \/ ws' = onCloseFrame(q, faults)
    BY <2>1 DEF ReceiveFrame
  <2>3. Whole(q) /\ Safe(q) /\ Keeps(ws, q) /\ q.state \notin Connecting
    BY <1>1, FrameChecked
  <2> HIDE DEF q
  <2> QED
    BY <1>3, <2>2, <2>3, CloseFrameGoes DEF q
<1> QED
  BY <1>4, <1>5, <1>6, <1>7

LEMMA ReceiveHandshakeGoes ==
    ASSUME Whole(ws), Safe(ws), HandlersInTime, ReceiveHandshake
    PROVE  Goes(ws, ws')
<1>1. ws.state \in Connecting /\ ws.state = "CONNECTING"
  BY DEF ReceiveHandshake, Connecting
<1>2. Safe(ws')
  BY ReceiveSafe DEF Receive
<1>3. CASE ~IsServer
  <2>1. CASE ws' = failHandshake(ws)
    BY <1>2, <2>1, FailHandshakeKeeps, KeepsGoes DEF Safe, Sound
  <2>2. ASSUME NEW outcome \in Outcomes, ws' = callOnConnect(enterOpen(ws), outcome)
        PROVE  Goes(ws, ws')
    BY <1>1, <1>3, <2>2, ClientConnectGoes
  <2> QED
    BY <1>3, <2>1, <2>2 DEF ReceiveHandshake, HandshakeResponse
<1>4. CASE IsServer /\ HandshakeRequest
  <2> DEFINE q == [ws EXCEPT !.requests = @ + 1]
  <2>1. q \in Instances /\ Same(ws, q) /\ Told(ws, q) /\ Rings(ws, q) /\ q.state = ws.state
    BY DEF Safe, Sound, Instances, Same, Alike, Told, Rings
  <2>2. \/ ws' = failHandshake(q) \/ ws' = dropConnection(q, FALSE)
        \/ \E outcome \in Outcomes : ws' = callOnConnect(q, outcome)
    BY <1>4 DEF HandshakeRequest
  <2> HIDE DEF q
  <2>3. Safe(q) /\ Keeps(ws, q)
    BY <2>1, SameSafe, ToldKeeps
  <2>4. Whole(q)
    BY <2>3, KeepsWhole DEF Safe
  <2>5. CASE ws' = failHandshake(q) \/ ws' = dropConnection(q, FALSE)
    <3>1. Keeps(q, ws')
      BY <2>1, <2>5, FailHandshakeKeeps, DropKeeps
    <3>2. Keeps(ws, ws')
      BY <2>3, <3>1, KeepsTransitive
    <3> QED
      BY <1>2, <3>2, KeepsGoes DEF Safe
  <2>6. ASSUME NEW outcome \in Outcomes, ws' = callOnConnect(q, outcome)
        PROVE  Goes(ws, ws')
    <3>1. Goes(q, ws')
      BY <1>1, <1>4, <2>1, <2>3, <2>4, <2>6, ServerConnectGoes
    <3>2. phaseOf(q) = phaseOf(ws) /\ q.opens = ws.opens /\ q.reported = ws.reported
      BY <2>1 DEF phaseOf, Told
    <3>3. Advances(q, ws') => Advances(ws, ws')
      BY <3>2 DEF Advances
    <3> QED
      BY <3>1, <3>3 DEF Goes
  <2> QED
    BY <2>2, <2>5, <2>6
<1>5. CASE PolicyFileRequest
  <2> DEFINE q == [ws EXCEPT !.servingFlash = TRUE]
             d == dropConnection(q, FALSE)
  <2>1. /\ ws' = d /\ q.state = "CONNECTING" /\ q.servingFlash = TRUE
        /\ q.isClosed = ws.isClosed /\ q.tcp = ws.tcp /\ q.tornDown = ws.tornDown
        /\ q.closes = ws.closes /\ q.reported = ws.reported /\ q.opens = ws.opens
        /\ q.connects = ws.connects /\ q.wasClean = ws.wasClean
        /\ q \in Instances
    BY <1>1, <1>5 DEF PolicyFileRequest, Safe, Sound, Instances
  <2>2. Keeps(q, d)
    BY <2>1, DropKeeps
  <2>3. d.state = "CLOSED" /\ d.isClosed = TRUE
    <3>1. q.isClosed = FALSE /\ q.state # "CLOSED"
      BY <1>1, <2>1 DEF Whole, Sane, Instances
    <3> HIDE DEF q
    <3> QED
      BY <2>1, <3>1 DEF dropConnection, closeConnection, Instances
  <2> HIDE DEF q, d
  <2>4. /\ d.opens = 0 /\ d.reported = "none" /\ d.closes = 0 /\ d.connects = 0
        /\ ~d.tornDown /\ d.servingFlash /\ d.tcp # "lost" /\ ws.reported = "none" /\ ws.opens = 0
    BY <1>1, <2>1, <2>2 DEF Keeps, Moves, Whole, Sane
  <2>5. Sane(d) /\ Pinging(d)
    BY <2>3, <2>4 DEF Sane, Pinging, Over, Connecting
  <2>6. phaseOf(ws) = "connecting" /\ phaseOf(d) = "connecting"
    BY <1>1, <2>4 DEF phaseOf
  <2> QED
    BY <2>1, <2>4, <2>5, <2>6 DEF Goes, Advances
<1> QED
  BY <1>3, <1>4, <1>5 DEF ReceiveHandshake

LEMMA ReceiveProxyGoes ==
    ASSUME Whole(ws), Safe(ws), ReceiveProxyResponse
    PROVE  Goes(ws, ws')
<1>1. Safe(ws')
  BY ReceiveSafe DEF Receive
<1>2. CASE ws' = dropConnection(ws, TRUE)
  BY <1>1, <1>2, DropKeeps, KeepsGoes DEF Safe, Sound
<1>3. ASSUME NEW ok \in BOOLEAN, ws.state = "PROXY_CONNECTING",
             ws' = startHandshake([ws EXCEPT !.state = "CONNECTING"], ok)
      PROVE  Goes(ws, ws')
  <2> DEFINE q == [ws EXCEPT !.state = "CONNECTING"]
  <2>1. q \in Instances /\ Told(ws, q) /\ Rings(ws, q) /\ q.state = "CONNECTING"
    BY DEF Safe, Sound, Instances, States, Told, Rings
  <2> HIDE DEF q
  <2>2. Keeps(ws, q)
    BY <1>3, <2>1 DEF Keeps, Moves, Quiet, Told, Connecting
  <2>3. Keeps(q, ws')
    BY <1>3, <2>1, StartHandshakeKeeps DEF q
  <2>4. Keeps(ws, ws')
    BY <2>2, <2>3, KeepsTransitive
  <2> QED
    BY <1>1, <2>4, KeepsGoes DEF Safe
<1> QED
  BY <1>2, <1>3 DEF ReceiveProxyResponse

LEMMA NextGoes ==
    ASSUME Whole(ws), Safe(ws), HandlersInTime, [Next]_vars
    PROVE  Goes(ws, ws')
<1>1. Safe(ws')
  BY NextSafe
<1>2. Keeps(ws, ws) /\ Moves(ws, ws)
  BY ToldKeeps DEF Told, Rings
<1>3. CASE Receive
  <2>1. CASE ReceiveUnparsable
    BY <1>2, <2>1, RaiseGoes DEF ReceiveUnparsable, Receiving
  <2> QED
    BY <1>3, <2>1, ReceiveFramesGo, ReceiveHandshakeGoes, ReceiveProxyGoes DEF Receive
<1>4. CASE Timeout
  BY <1>4, TimeoutsGo
<1>5. CASE OnConnectingDone
  <2> DEFINE q == [ws EXCEPT !.connecting = FALSE]
  <2>1. q \in Instances /\ Told(ws, q) /\ Rings(ws, q) /\ q.state = ws.state
    BY DEF Safe, Sound, Instances, Told, Rings
  <2>2. \E ok \in BOOLEAN : ws' = finishOnConnecting(q, ok)
    BY <1>5 DEF OnConnectingDone
  <2> HIDE DEF q
  <2>3. Keeps(ws, ws')
    BY <2>1, <2>2, ToldKeeps, FinishOnConnectingKeeps, KeepsTransitive
  <2> QED
    BY <1>1, <2>3, KeepsGoes DEF Safe
<1>6. CASE OnConnectDone
  BY <1>6, LateConnectGoes DEF OnConnectDone
<1>7. CASE SendClose
  BY <1>1, <1>7, SendCloseFrameKeeps, KeepsGoes DEF SendClose, Safe
<1>8. CASE Bailout
  BY <1>1, <1>8, FailConnectionKeeps, KeepsGoes DEF Bailout, Safe
<1>9. CASE ConnectionLost
  BY <1>2, <1>9, ConnectionLostGoes DEF ConnectionLost
<1>10. CASE UNCHANGED vars
  BY <1>1, <1>2, <1>10, KeepsGoes DEF vars, Safe
<1> QED
  BY <1>3, <1>4, <1>5, <1>6, <1>7, <1>8, <1>9, <1>10 DEF Next

\* The stream is up and the handshake begun; a client whose onConnecting raises
\* has dropped the stream again.
LEMMA InitWhole ==
    ASSUME Init
    PROVE  /\ Whole(ws) /\ ws.opens = 0 /\ ws.reported = "none" /\ ws.servingFlash = FALSE
           /\ ws.state \in Connecting \/ ws.state = "CLOSED"
<1> DEFINE b == blankInstance
           f == freshInstance
<1>1. noHandles \in [Timers -> BOOLEAN] /\ noCalls \in [Timers -> Nat]
  BY DEF noHandles, noCalls
<1>2. b \in Instances
  BY <1>1 DEF blankInstance, Instances, States, Reasons
<1>3. /\ b.state \in Connecting /\ b.tcp = "up" /\ b.isClosed = FALSE /\ b.wasClean = FALSE
      /\ b.servingFlash = FALSE /\ b.handle = noHandles /\ b.live = noCalls
      /\ b.autoPingPending = "none" /\ b.connects = 0 /\ b.tornDown = FALSE
      /\ b.opens = 0 /\ b.closes = 0 /\ b.reported = "none"
  BY DEF blankInstance, Connecting
<1>4. Sane(b) /\ Pinging(b)
  <2>1. Sane(b)
    BY <1>3 DEF Sane, Over, Connecting
  <2>2. b.state # "OPEN" /\ b.live["autoPing"] = 0 /\ b.live["autoPingTimeout"] = 0
    BY <1>3 DEF Connecting, noCalls, Timers
  <2> QED
    BY <1>3, <2>1, <2>2 DEF Pinging
<1>5. Sound(b) /\ Sound(f) /\ Keeps(b, f) /\ f.state \in Connecting
  <2>1. Sound(b)
    BY <1>2, <1>3 DEF Sound, noHandles, Connecting
  <2> HIDE DEF b
  <2>2. Sound(arm(b, "openHandshake")) /\ Keeps(b, arm(b, "openHandshake"))
        /\ arm(b, "openHandshake").state = b.state
    BY <2>1, ArmKeeps, OtherCallsKeep DEF Sound, Alike, Timers, PingTimers
  <2>3. f = b \/ f = arm(b, "openHandshake")
    BY DEF freshInstance, armIf, b
  <2>4. Keeps(b, b)
    BY ToldKeeps DEF Told, Rings
  <2> QED
    BY <1>3, <2>1, <2>2, <2>3, <2>4
<1> HIDE DEF b, f
<1>6. Sound(ws)
  BY InitSafe DEF Safe
<1>7. PICK ok \in BOOLEAN : ws = f \/ ws = startHandshake(f, ok)
  BY DEF Init, connectionMade, f
<1>8. Keeps(f, startHandshake(f, ok)) /\ Keeps(f, f)
  BY <1>5, StartHandshakeKeeps, ToldKeeps DEF Sound, Told, Rings
<1>9. Keeps(b, ws)
  BY <1>5, <1>7, <1>8, KeepsTransitive
<1>10. Whole(ws)
  BY <1>4, <1>5, <1>6, <1>9, KeepsWhole DEF Whole
<1>11. ws.opens = 0 /\ ws.reported = "none" /\ ws.servingFlash = FALSE
  BY <1>3, <1>9 DEF Keeps, Moves
<1>12. ws.state \in Connecting \/ ws.state = "CLOSED"
  <2>1. [f EXCEPT !.connecting = TRUE].state = f.state
        /\ [f EXCEPT !.requestSent = TRUE].state = f.state
    BY <1>5 DEF Sound, Instances
  <2>2. dropConnection(f, FALSE).state = "CLOSED"
    BY <1>5, DropSafe
  <2>3. \/ ws = f \/ ws = [f EXCEPT !.connecting = TRUE] \/ ws = [f EXCEPT !.requestSent = TRUE]
        \/ ws = dropConnection(f, FALSE)
    BY <1>7 DEF startHandshake, finishOnConnecting
  <2> QED
    BY <1>5, <2>1, <2>2, <2>3
<1> QED
  BY <1>10, <1>11, <1>12

-----------------------------------------------------------------------------
(* The theorems.                                                           *)

LEMMA AlwaysWhole ==
    ASSUME HandlersInTime
    PROVE  Spec => []Whole(ws)
<1>1. Init => Safe(ws) /\ Whole(ws)
  BY InitSafe, InitWhole
<1>2. Safe(ws) /\ Whole(ws) /\ [Next]_vars => (Safe(ws) /\ Whole(ws))'
  <2>1. ASSUME Safe(ws), Whole(ws), [Next]_vars
        PROVE  Safe(ws') /\ Whole(ws')
    BY <2>1, HandlersInTime, NextSafe, NextGoes DEF Safe, Whole, Goes
  <2> QED
    BY <2>1
<1> QED
  BY <1>1, <1>2, PTL DEF Spec

\* The auto-ping loop neither dies nor doubles, whatever frames, timers and calls
\* come in whatever order (_sendAutoPing, processControlFrame,
\* _cancelAutoPingTimeoutCall).
THEOREM KeepaliveNeverStops ==
    ASSUME HandlersInTime
    PROVE  Spec => []KeepaliveRuns
<1>1. Whole(ws) => KeepaliveRuns
  BY DEF Whole, Pinging, KeepaliveRuns
<1> QED
  BY <1>1, HandlersInTime, AlwaysWhole, PTL

\* A lost stream is torn down to its end, once (_connectionLost).
THEOREM LossIsTornDown ==
    ASSUME HandlersInTime
    PROVE  Spec => []LostIsTornDown
<1>1. Whole(ws) => LostIsTornDown
  BY DEF Whole, Sane, LostIsTornDown
<1> QED
  BY <1>1, HandlersInTime, AlwaysWhole, PTL

\* The endpoint implements the safety part of the channel an application is
\* promised, when handlers return no futures: phases never go back, onOpen is
\* called at most once and onClose at most once, as the last (IWebSocketChannel).
THEOREM ChannelImplemented ==
    ASSUME ~AsyncHandlers
    PROVE  Spec => Channel!ChannelSpec
<1> HandlersInTime
  BY DEF HandlersInTime
<1>1. Init => Channel!ChannelInit
  <2> SUFFICES ASSUME Init
               PROVE  Channel!ChannelInit
    OBVIOUS
  <2> QED
    BY InitWhole DEF Channel!ChannelInit, channelPhase, Connecting
<1>2. Safe(ws) /\ Whole(ws) /\ [Next]_vars => [Channel!ChannelNext]_(Channel!channelVars)
  <2> SUFFICES ASSUME Safe(ws), Whole(ws), [Next]_vars
               PROVE  [Channel!ChannelNext]_(Channel!channelVars)
    OBVIOUS
  <2>1. Advances(ws, ws')
    BY NextGoes DEF Goes
  <2>2. channelPhase = phaseOf(ws) /\ channelPhase' = phaseOf(ws')
    BY DEF channelPhase, phaseOf, Connecting
  <2>3. (ws.opens > 0) \in BOOLEAN /\ (ws'.opens > 0) \in BOOLEAN
    OBVIOUS
  <2> QED
    BY <2>1, <2>2, <2>3
       DEF Advances, Channel!ChannelNext, Channel!Establish, Channel!Abandon,
           Channel!StartClosing, Channel!Finish, Channel!Report, Channel!channelVars
<1> QED
  BY <1>1, <1>2, AlwaysSafe, AlwaysWhole, PTL DEF Spec, Channel!ChannelSpec
=============================================================================
