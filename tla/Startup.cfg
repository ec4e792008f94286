SPECIFICATION Spec
CONSTANTS
    Instances = {i1, i2}
    Hours = {"onecache2016042110.xml", "onecache2016042111.xml"}
    Documents <- AllDocuments
    Keys = {"k1", "k2"}
    MaxCommands = 2
    Ketama <- ThePoints
    HashMax = 3
    MaxServantCount = 3
SYMMETRY Symmetry
CHECK_DEADLOCK FALSE
INVARIANTS AsConfigured SavedRestores StoppedForGood
