\* The slots stop when they have had their requests.
CHECK_DEADLOCK FALSE
SPECIFICATION FairSpec
CONSTANTS
    Slots = {s1, s2}
    Bodies <- MCBodies
    MAX_BODY_RESERVE = 4
    BODY_CHUNK_BYTES = 2
    PoolSlots = 1
    MaxRetained = 4
    ChunkSizes = {2, 7}
    U32 = 7
    MaxRequests = 2
    MaxCalls = 2
INVARIANTS
    FreshBodyIsWhole
    OwnBytesInOrder
    VectorsInBounds
    HalfTheRoom
PROPERTY ReadingEnds
