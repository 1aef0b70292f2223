SPECIFICATION DemoSpec
CONSTANTS
    Capacity = 2
    Wrap = 4
    Byte = {0, 1, 2}
    Garbage = garbage
    Period = 3
    Target = 5
    StallTicks = 3
    MaxBurst = 2
    MaxTyped = 1
INVARIANTS EveryByteAccounted SequenceIntact OverrunForced
PROPERTIES MainFinishes
CHECK_DEADLOCK FALSE
