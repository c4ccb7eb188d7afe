\* The server may be joined, or joined without having been stopped.
CHECK_DEADLOCK FALSE
SPECIFICATION FairSpec
CONSTANTS
    Slots = {s1}
    MaxRequests = 2
    MayPanic = FALSE
PROPERTY AskingStops
