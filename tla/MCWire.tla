------------------------------- MODULE MCWire -------------------------------
(***************************************************************************)
(* What travels between two WAMP peers, for TLC: opening handshakes of     *)
(* WebSocket, sessions over a transport, messages, and the arguments and   *)
(* errors in them.  The parts have nothing to do with each other: a        *)
(* behaviour is one of the one that part names, and the others have not    *)
(* begun, or are Off.                                                      *)
(***************************************************************************)
EXTENDS MCWampMessages, MCHandshake

CONSTANTS Transports, LengthBits, Rated, MaxMessages     \* of WampTransport

VARIABLES opened, side, stream, delivered

Transport == INSTANCE MCWampTransport
                 WITH Options <- Transports, opt <- opened, wire <- stream, sent <- delivered

ASSUME TransportAssumption == Transport!TransportAssumption

\* What the theorems of WebSocketHandshakeProofs and of WampPayloadProofs take for granted.
ASSUME HandshakeAssumption == Untouched /\ Released /\ Addressed /\ Limited
ASSUME ExchangeAssumption ==
    Exceptional /\ Answerable /\ Passable /\ OwnClasses /\ OwnErrors

\* The value of Transports, which must not depend on itself.
AnyTransport == INSTANCE MCWampTransport
                    WITH Options <- {}, opt <- opened, wire <- stream, sent <- delivered

MCTransports == AnyTransport!TransportOptions

handshakeVars == vars
transportVars == <<opened, side, stream, delivered>>

anyOptions == CHOOSE o \in Options : TRUE
HandshakeOff == opt = anyOptions /\ Init
TransportOff == opened = Off /\ side = Off /\ stream = Off /\ delivered = Off

-----------------------------------------------------------------------------
WireInit ==
    \/ part = "handshake" /\ Init /\ TransportOff /\ MessagesOff /\ ExchangeOff
    \/ part = "transport" /\ Transport!Init /\ HandshakeOff /\ MessagesOff /\ ExchangeOff
    \/ MCInit /\ HandshakeOff /\ TransportOff

WireNext ==
    \/ part = "handshake" /\ Next /\ UNCHANGED <<part, transportVars, messageVars, exchangeVars>>
    \/ part = "transport" /\ Transport!Next /\ UNCHANGED <<part, handshakeVars, messageVars, exchangeVars>>
    \/ MCNext /\ UNCHANGED <<handshakeVars, transportVars>>

WireSpec == WireInit /\ [][WireNext]_<<part, handshakeVars, transportVars, messageVars, exchangeVars>>

-----------------------------------------------------------------------------
(* The properties of the transport, when it is the part that runs; the     *)
(* other three have their own.                                             *)

\* Sessions get the messages sent to them, in order, over every transport, and
\* each is in one report of the statistics.
TransportDelivers == part = "transport" => Transport!Delivered /\ Transport!Counted

\* A transport refuses no message within the limits.
TransportRefusesNothing == part = "transport" => Transport!NothingRefused
=============================================================================
