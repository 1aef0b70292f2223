SPECIFICATION Spec
CONSTANTS
    MaxHold = 9
    Loops = 2
    MaxLen = 2
INVARIANTS
    I2cTypeOK
    OkReleasesBus
    StrayStopIsDoubled
    PromptlyRefused
    RecoveryRestoresStart
PROPERTIES
    OkMeansTransferred
    CallReturns
