SPECIFICATION FairSpec
CONSTANTS
    Dlc = 3
    SnMod = 3
    MaxPayload = 9
    Pad = pad
    Other = other
    Byte <- MCByte
    Lengths <- MCLengths
    BufferLimits = {9, 12}
    BlockSizes = {0, 1, 2, 3}
    Impatient = FALSE
    MaxMsgs = 3
    MaxLost = 0
    Foreign = {}
    MaxForeign = 0
INVARIANTS NoMutualWait CfsWithinBlock NoErrorReported
PROPERTIES ReliableService SenderIsAnswered
CHECK_DEADLOCK FALSE
