SPECIFICATION FairSpec

CONSTANTS
    IsServer = FALSE
    HasProxy = TRUE
    Asyncio = TRUE
    AsyncHandlers = TRUE
    HandlersMayRaise = TRUE
    FailByDrop = TRUE
    OpenHandshakeTimeout = TRUE
    CloseHandshakeTimeout = TRUE
    ServerConnectionDropTimeout = TRUE
    AutoPingInterval = TRUE
    AutoPingTimeout = TRUE
    AutoPingRestartOnAnyTraffic = TRUE
    ServeFlashSocketPolicy = FALSE
    MaxLive = 2
    MaxRequests = 1

INVARIANTS
    TypeOK
    CleanMeansHandshake
    OpeningIsTimed
    ClosingIsTimed
    LostIsTornDown
    KeepaliveRuns

PROPERTIES
    ClosingEnds
    DeafConnectionDropped

CHECK_DEADLOCK FALSE
