SPECIFICATION FairSpec
CONSTANTS
    Capacity = 4
    Wrap = 8
    Byte = {b1, b2}
    Garbage = garbage
INVARIANTS RingTypeOK ChecksStayTrue NoSharedSlot
PROPERTIES ImplementsFifo
