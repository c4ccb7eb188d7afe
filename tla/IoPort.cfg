\* The port is dropped once and the threads are gone: the system stops.
CHECK_DEADLOCK FALSE
SPECIFICATION Spec
CONSTANTS
    NThreads = 3
    Batch = 2
    Packets = {p1, p2, p3}
    PostMayFail = TRUE
    Sentinel = Sentinel
INVARIANTS
    PortOutlivesThreads
    BatchFinished
    EarlyDelivered
