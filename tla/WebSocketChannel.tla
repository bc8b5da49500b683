-------------------------- MODULE WebSocketChannel --------------------------
(***************************************************************************)
(* What IWebSocketChannel promises an application: a channel is             *)
(* established at most once, its phases never go back, and onClose is       *)
(* called at most once, as the last thing the application hears.            *)
(***************************************************************************)

VARIABLES
    phase,    \* how far the channel is
    opened,   \* onOpen was called
    outcome   \* what onClose reported, once it was called

channelVars == <<phase, opened, outcome>>

Phases == {"connecting", "open", "closing", "closed"}

ChannelInit ==
    /\ phase \in {"connecting", "closed"}
    /\ opened = FALSE
    /\ outcome = "none"

\* The opening handshake completed and onOpen is called.
Establish ==
    /\ phase = "connecting"
    /\ phase' = "open"
    /\ opened' = TRUE
    /\ UNCHANGED outcome

\* The opening handshake failed; a client that turns the server down itself
\* may end the connection with a closing handshake.
Abandon ==
    /\ phase = "connecting"
    /\ phase' \in {"closing", "closed"}
    /\ UNCHANGED <<opened, outcome>>

StartClosing ==
    /\ phase = "open"
    /\ phase' = "closing"
    /\ UNCHANGED <<opened, outcome>>

Finish ==
    /\ phase \in {"open", "closing"}
    /\ phase' = "closed"
    /\ UNCHANGED <<opened, outcome>>

\* onClose is called; clean only after the closing handshake began.
Report ==
    /\ outcome = "none"
    /\ phase' = "closed"
    /\ outcome' \in {"clean", "unclean"}
    /\ outcome' = "clean" => phase \in {"closing", "closed"}
    /\ UNCHANGED opened

ChannelNext == Establish \/ Abandon \/ StartClosing \/ Finish \/ Report

ChannelSpec == ChannelInit /\ [][ChannelNext]_channelVars

\* A closed channel is reported.
FairChannelSpec == ChannelSpec /\ WF_channelVars(phase = "closed" /\ Report)

=============================================================================
