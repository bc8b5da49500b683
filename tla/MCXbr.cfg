SPECIFICATION XbrSpec

CONSTANTS
    None = None
    Unwraps = {u1, u2}
    Options <- MCMarkets
    Nil = Nil
    MaxStarts = 4
    MaxEdits = 3
    Users <- MCUsers
    Null = Null
    Owners <- MCOwners
    MaxKeys = 3
    MaxLog = 2

INVARIANTS
    ChannelsAgree
    PaidIsUsable
    SellerKeepsItsWord
    SignaturesHold
    FilesSurvive
    ValidatesExactly

CHECK_DEADLOCK FALSE
