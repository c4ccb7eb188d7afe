\* The port is dropped once and the threads are gone: the system stops.
CHECK_DEADLOCK FALSE
SPECIFICATION FairSpec
CONSTANTS
    NThreads = 2
    Batch = 2
    Packets = {p1}
    PostMayFail = FALSE
    Sentinel = Sentinel
PROPERTY DropReturns
