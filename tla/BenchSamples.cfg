\* The program ends: the system stops.
CHECK_DEADLOCK FALSE
SPECIFICATION BenchSpec
CONSTANTS
    Engines = 2
    Points = 1
    MaxPolls = 1
    MaxProbes = 1
    N = 1
    Latencies = {1}
    MaxRequests = 2
    Warmup = FALSE
    Numbers = {0, 1}
INVARIANT SamplesKept
