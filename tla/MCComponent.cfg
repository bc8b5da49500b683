SPECIFICATION FairSpec

CONSTANTS
    None = None
    MaxStarts = 2
    MaxLive = 2
    Options <- ComponentOptions

INVARIANTS
    DialsItsRouter
    OneThingUnderWay
    JoinedIsMutual
    CredentialsAccepted

PROPERTIES
    JoinsOrEnds

CHECK_DEADLOCK FALSE
