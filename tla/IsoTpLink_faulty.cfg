SPECIFICATION FairSpec
CONSTANTS
    Dlc = 3
    SnMod = 2
    MaxPayload = 7
    Pad = pad
    Other = other
    Byte <- MCByte
    Lengths = {2, 7}
    BufferLimits = {5, 7}
    BlockSizes = {0, 1, 2}
    Impatient = TRUE
    MaxMsgs = 2
    MaxLost = 2
    Foreign <- MCForeign
    MaxForeign = 1
INVARIANTS LinkTypeOK RxWithinBuffer TxWithinGrant StoredInPlace DeliveredIntact
PROPERTIES NextGoodOneArrives
CHECK_DEADLOCK FALSE
