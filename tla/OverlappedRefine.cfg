SPECIFICATION FairSpec
CONSTANTS
    Tasks = {t1}
    Threads = {c1, c2}
    Wraps = {w1, w2}
    PoolSlots = 1
    Batch = 2
    SkipOnSuccess = FALSE
    Errs = {995}
    Lens = {0, 1}
    NoTask = NoTask
    NoWrap = NoWrap
    NoResult = NoResult
PROPERTIES
    CompletedOnce
    ImplementsAsyncIo
    CompletionsArrive
    CancellationReturns
