\* The server is gone in the end: the system stops.
CHECK_DEADLOCK FALSE
SPECIFICATION LifeSpec
CONSTANTS
    Slots = {s1, s2}
    MaxRequests = 3
    MayPanic = TRUE
    MaxKept = 2
    MaxRoutes = 2
INVARIANTS
    HandlesOutliveSlots
    OneMoreAtMost
    SlotsInsideHandles
    TeardownOrder
    NothingLeaked
    JoinMeansClosed
PROPERTY ShutdownCompletes
