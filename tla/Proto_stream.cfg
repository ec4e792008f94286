SPECIFICATION StreamSpec
CONSTANTS
    Characters <- AllCharacters
    Messages <- AllKinds
    MaxMessages = 3
    ChunkSize = 8
    Reserve = 2
    Stale <- AnyStale
CHECK_DEADLOCK FALSE
INVARIANTS Framing NothingLost AllParsed
