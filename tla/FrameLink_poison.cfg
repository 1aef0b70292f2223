SPECIFICATION Spec
CONSTANTS
    Base = 8
    STX = 2
    ETX = 3
    MaxPayload = 3
    CrcInit = 63
    CrcUpdate <- MCCrcUpdate
    Payload <- MCPayload
    FaultKinds = {"damage"}
    MaxFaults = 1
PROPERTIES
    NextGoodFrameDelivered
