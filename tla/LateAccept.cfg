SPECIFICATION Spec

CONSTANTS
    IsServer = TRUE
    HasProxy = FALSE
    Asyncio = FALSE
    AsyncHandlers = TRUE
    HandlersMayRaise = FALSE
    FailByDrop = TRUE
    OpenHandshakeTimeout = TRUE
    CloseHandshakeTimeout = TRUE
    ServerConnectionDropTimeout = TRUE
    AutoPingInterval = TRUE
    AutoPingTimeout = TRUE
    AutoPingRestartOnAnyTraffic = TRUE
    ServeFlashSocketPolicy = FALSE
    MaxLive = 2
    MaxRequests = 1

INVARIANTS
    LostIsTornDown

CHECK_DEADLOCK FALSE
