SPECIFICATION Spec
CONSTANTS
    MaxHold = 9
    Loops = 2
    MaxLen = 2
INVARIANT
    LastByteRefused
