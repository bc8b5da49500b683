SPECIFICATION Spec

CONSTANTS
    t1 = t1
    v1 = v1
    Topics = {t1}
    Invocations = {v1}
    Shim = FALSE
    AsyncHooks = FALSE
    MaxId = 3
    MaxWelcomes = 2

INVARIANTS
    PendingIsOutstanding
    JoinsAndLeavesPaired

PROPERTIES
    AnsweredOnce

CHECK_DEADLOCK FALSE
