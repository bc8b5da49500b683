SPECIFICATION RealmSpec

CONSTANTS
    t1 = t1
    v1 = v1
    Topics = {t1}
    Invocations = {v1}
    Shim = FALSE
    AsyncHooks = FALSE
    MaxId = 3
    MaxWelcomes = 2
    Cancelled = {"call"}
    Forced = FALSE
    MaxQueue = 2

INVARIANTS
    NoProtocolError
    SessionAndRouterAgree
    LostIsAnswered

CHECK_DEADLOCK FALSE
