SPECIFICATION MCSpec
CONSTANTS
    Base = 8
    STX = 2
    ETX = 3
    MaxPayload = 3
    CrcInit = 63
    CrcUpdate <- MCCrcUpdate
    Payload <- MCPayload
    FaultKinds = {"damage", "lose", "add", "sender", "receiver"}
    MaxFaults = 2
    Word = 65536
    BrpMin = 1
    BrpMax = 5
    Tseg1Min = 1
    Tseg1Max = 6
    Tseg2Min = 1
    Tseg2Max = 4
    SjwMax = 3
    TqMin = 4
    TqMax = 9
    Clocks = {0, 24, 36, 40, 48, 42, 14000}
    Bitrates = {0, 1, 2, 3, 4, 14000}
    Targets = {500, 750, 875}
    TickWord = 8
    Delays = {0, 1, 2, 3, 4, 5, 6}
    Pclks = {20, 21, 84, 600}
    Maxima = {0, 1, 10, 11, 30}
    MaxBytes = 3
    Ids = 4
    Items = {a, b}
    Days7 = 1
    Days30 = 2
    LastDay = 2
    MaxRows = 4
INVARIANTS
    SolverFindsBest
    DueIsAccepted
    ReadyTakesThirtyDays
    DelayBounded
    ReplyIsOwn
    SckFastestAllowed
    LinkTypeOK
    PayloadWithinBuffer
    DeliveredWasSent
PROPERTIES
    ReleaseAfterLastBit
    AlwaysNearerToIdle
    SyncedFrameDelivered
    LinkHeals
    BadFrameCostsItself
CHECK_DEADLOCK FALSE
