SPECIFICATION FairSpec

CONSTANTS
    t1 = t1
    v1 = v1
    Topics = {t1}
    Invocations = {v1}
    Shim = FALSE
    AsyncHooks = FALSE
    MaxId = 2
    MaxWelcomes = 2
    Cancelled = {"call", "subscribe"}
    Forced = TRUE
    MaxQueue = 1

PROPERTIES
    EverythingEnds

CHECK_DEADLOCK FALSE
