SPECIFICATION WireSpec

CONSTANTS
    LengthBits = 2
    Rated = 2
    MaxMessages = 4
    Transports <- MCTransports
    Connections = {1, 2, 3}
    Options <- HandshakeOptions
    None = None
    ClassesUsed <- MCClasses
    Timeouts = {"one"}
    SetAtMost = 2
    GarbleAtMost = 1
    Garbled <- MCGarbled
    Pairs <- MCPairs
    MaxChanges = 3
    MaxProgress = 2
    Off = Off

INVARIANTS
    HandshakeAgrees
    ServerKnows
    TransportDelivers
    TransportRefusesNothing
    Delivered
    
    NothingIsMixedUp
    AgreeingKeysWork
    ErrorsArrive
    CallsAreAnswered

CHECK_DEADLOCK FALSE
