SPECIFICATION FairSpec

CONSTANTS
    MaxLive = 2
    MaxRequests = 2

PROPERTIES
    ImplementsChannel

CHECK_DEADLOCK FALSE
