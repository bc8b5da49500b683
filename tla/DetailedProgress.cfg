SPECIFICATION MCSpec

CONSTANTS
    ClassesUsed = {"Hello"}
    Timeouts = {"one"}
    SetAtMost = 1
    GarbleAtMost = 0
    Garbled = {}
    Pairs <- detailedPairs
    MaxChanges = 3
    MaxProgress = 2
    Off = Off

INVARIANTS
    ProgressArrives

CHECK_DEADLOCK FALSE
