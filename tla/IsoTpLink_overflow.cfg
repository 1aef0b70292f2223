SPECIFICATION FairSpec
CONSTANTS
    Dlc = 3
    SnMod = 3
    MaxPayload = 7
    Pad = pad
    Other = other
    Byte <- MCByte
    Lengths = {2, 7}
    BufferLimits = {5}
    BlockSizes = {0, 1}
    Impatient = FALSE
    MaxMsgs = 2
    MaxLost = 0
    Foreign = {}
    MaxForeign = 0
PROPERTIES SenderIsAnswered
CHECK_DEADLOCK FALSE
