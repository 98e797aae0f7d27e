CONSTANTS
    t1 = t1
    Tabs <- OneTab
    Purgers <- OneTab
    MaxOps = 3
    MaxPresses = 2
    MaxPurges = 1
SPECIFICATION FairSpec
INVARIANTS
    TypeOK
    ShownUntilAnswered
PROPERTY
    EveryPendingIsPrompted
CHECK_DEADLOCK FALSE
