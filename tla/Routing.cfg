SPECIFICATION Spec
CONSTANTS
    Workers = {w1, w2}
    Groups <- TwoGroups
    Masters <- TheMasters
    Slaves <- TheSlaves
    Policy <- ThePolicy
    Keys <- ThreeKeys
    HashOf <- TheHash
    KeyMapping <- NoKeyMapping
    Tables <- SomeTables
    DownAtFirst <- SomeDown
    Modulus = 4
    MaxFlips = 1
CHECK_DEADLOCK FALSE
INVARIANTS RefusedByAll
PROPERTIES SearchExact
