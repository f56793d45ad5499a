SPECIFICATION Spec
CONSTANTS
    Fps = 10
    Second = 1000
    Word = 4096
    Begins <- MCBegins
    Freqs <- MCFreqs
    Jumps <- MCJumps
    MaxClock = 150
    MaxTimers = 3
INVARIANTS
    TypeOK
    ListsInOrder
PROPERTIES
    FiresExactlyDue
    DeadStayDead
    PeriodKept
