SPECIFICATION FairSpec
CONSTANTS
    w1 = w1
    w2 = w2
    Groups <- ThreeGroups
    SlotCount = 4
    Layouts <- FourSlotTables
    Workers <- TwoWorkers
    KeyMapped <- OneKey
    MaxRequests = 2
    Typed <- TypedPairs
    MaxMappings = 1
CHECK_DEADLOCK FALSE
INVARIANTS HomeUnlessEjected WatchedWhileEjected EverySlotOwned
PROPERTIES DeadGroupLeaves RestoredForGood
