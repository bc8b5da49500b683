---------------------------- MODULE MCWebSocket ----------------------------
(***************************************************************************)
(* WebSocketProtocol under all its options at once, for both roles: a      *)
(* behaviour first chooses an instance's options and keeps them.  The      *)
(* adapter is Twisted's and handlers return no futures (what goes wrong    *)
(* when they do has runs of its own).                                      *)
(***************************************************************************)
EXTENDS Naturals

CONSTANTS
    MaxLive, MaxRequests   \* the bounds of WebSocketProtocol

VARIABLES
    option,   \* the options of the instance
    ws        \* the instance

Options ==
    {o \in [IsServer : BOOLEAN, HasProxy : BOOLEAN, HandlersMayRaise : BOOLEAN,
            FailByDrop : BOOLEAN, OpenHandshakeTimeout : BOOLEAN,
            CloseHandshakeTimeout : BOOLEAN, ServerConnectionDropTimeout : BOOLEAN,
            AutoPingInterval : BOOLEAN, AutoPingTimeout : BOOLEAN,
            AutoPingRestartOnAnyTraffic : BOOLEAN, ServeFlashSocketPolicy : BOOLEAN] :
        (o.HasProxy => ~o.IsServer) /\ (o.ServeFlashSocketPolicy => o.IsServer)}

With(o) == INSTANCE WebSocketProtocol WITH
    IsServer <- o.IsServer, HasProxy <- o.HasProxy,
    Asyncio <- FALSE, AsyncHandlers <- FALSE,
    HandlersMayRaise <- o.HandlersMayRaise, FailByDrop <- o.FailByDrop,
    OpenHandshakeTimeout <- o.OpenHandshakeTimeout,
    CloseHandshakeTimeout <- o.CloseHandshakeTimeout,
    ServerConnectionDropTimeout <- o.ServerConnectionDropTimeout,
    AutoPingInterval <- o.AutoPingInterval, AutoPingTimeout <- o.AutoPingTimeout,
    AutoPingRestartOnAnyTraffic <- o.AutoPingRestartOnAnyTraffic,
    ServeFlashSocketPolicy <- o.ServeFlashSocketPolicy

Init == \E o \in Options : option = o /\ With(o)!Init

Next == \E o \in {option} : With(o)!Next /\ UNCHANGED option

vars == <<option, ws>>

Spec == Init /\ [][Next]_vars

\* The fairness of WebSocketProtocol.
Fairness ==
    /\ WF_vars(\E o \in {option} : With(o)!OnOpenHandshakeTimeout /\ UNCHANGED option)
    /\ WF_vars(\E o \in {option} : With(o)!OnCloseHandshakeTimeout /\ UNCHANGED option)
    /\ WF_vars(\E o \in {option} : With(o)!OnServerConnectionDropTimeout /\ UNCHANGED option)
    /\ WF_vars(\E o \in {option} : With(o)!SendAutoPing /\ UNCHANGED option)
    /\ WF_vars(\E o \in {option} : With(o)!OnAutoPingTimeout /\ UNCHANGED option)
    /\ WF_vars(\E o \in {option} : ws.tcp \in {"closing", "aborting"} /\ With(o)!ConnectionLost
                                      /\ UNCHANGED option)

FairSpec == Spec /\ Fairness

-----------------------------------------------------------------------------
(* The properties of an instance are checked in WebSocketProtocol and proved *)
(* for all options at once.                                                 *)

\* The instance implements the abstract channel, under every choice of options.
Channel == INSTANCE WebSocketChannel WITH
    phase <- With(option)!channelPhase, opened <- ws.opens > 0, outcome <- ws.reported

ImplementsChannel == Channel!FairChannelSpec
=============================================================================
