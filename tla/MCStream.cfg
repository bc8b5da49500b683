SPECIFICATION FairSpec

CONSTANTS
    Sizes = {1, 2}
    None = None
    MaxItems = 4
    Options <- StreamOptions

INVARIANTS
    ReceivedAsSent
    NothingRefused

PROPERTIES
    SentIsReceived

CHECK_DEADLOCK FALSE
