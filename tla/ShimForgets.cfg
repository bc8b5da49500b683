SPECIFICATION RealmSpec

CONSTANTS
    t1 = t1
    v1 = v1
    Topics = {t1}
    Invocations = {v1}
    Shim = TRUE
    AsyncHooks = FALSE
    MaxId = 2
    MaxWelcomes = 2
    Cancelled = {"call"}
    Forced = FALSE
    MaxQueue = 1

INVARIANTS
    LostIsAnswered

CHECK_DEADLOCK FALSE
