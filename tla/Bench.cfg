\* The program ends: the system stops.
CHECK_DEADLOCK FALSE
SPECIFICATION BenchSpec
CONSTANTS
    Engines = 2
    Points = 2
    MaxPolls = 2
    MaxProbes = 2
    N = 2
    Latencies = {1, 2}
    MaxRequests = 2
    Warmup = TRUE
    Numbers = {0, 1, 2}
INVARIANTS
    ResultComplete
    PercentileSplits
    MeasuresItsServer
    NoOrphans
    ReportComplete
    VerdictsAgree
PROPERTIES
    SweepEnds
