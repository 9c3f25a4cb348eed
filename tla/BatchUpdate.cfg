SPECIFICATION BatchFairSpec
CONSTANTS
    w1 = w1
    w2 = w2
    i1 = i1
    i2 = i2
    Updater = Updater
    Free = Free
    Writers = {w1, w2}
    TypeCount = 2
    Ids = {i1, i2}
    Values <- mc_Values
    MaxRecords = 2
    MaxCrashes = 1
    DbFaults = TRUE
CHECK_DEADLOCK FALSE
INVARIANTS
    BatchTypeOK
    NothingDroppedOrDoubled
PROPERTY
    EveryRecordIsTaken
