SPECIFICATION Spec
CONSTANTS
    Nodes <- MCNodes
    Files <- MCFiles
    Mappings <- MCMappings
    MaxSaves = 2
INVARIANTS
    TreeSound
    
\* A document that cannot be read, or the last save, ends the program's use of it.
CHECK_DEADLOCK FALSE
