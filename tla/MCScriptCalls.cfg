SPECIFICATION CallSpec
CONSTANTS
    Item = {a, b}
    Nested = TRUE
    ListLimit = 3
    MaxLen = 4
    Slots <- MCSlots
    MaxSends = 3
    Id = {1, 2, 3}
    Root = 1
    Heaps <- MCHeaps
    MaxDepth = 2
    Ints = {0, 1}
    LeastInt = 0
    Floats = {0, 1, 2}
INVARIANTS
    CallTypeOK
    FillerNeeded
    RefusedForCause
    ReadsBack
CHECK_DEADLOCK FALSE
