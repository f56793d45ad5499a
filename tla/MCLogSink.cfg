SPECIFICATION Spec
CONSTANTS
    Task = {t1, t2}
    Days <- MCDays
    Texts <- MCTexts
    MaxSize = 2
    MaxLog = 3
    MaxStarts = 3
INVARIANTS
    TypeOK
    OneDayPerFile
    
PROPERTIES
    KeepsBook
    LosesOnlyAfterFull
CHECK_DEADLOCK FALSE
