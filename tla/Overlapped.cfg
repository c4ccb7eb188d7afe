SPECIFICATION Spec
CONSTANTS
    Tasks = {t1, t2}
    Threads = {c1}
    Wraps = {w1,w2,w3}
    PoolSlots = 1
    Batch = 2
    SkipOnSuccess = TRUE
    Errs = {995}
    Lens = {0, 1}
    NoTask = NoTask
    NoWrap = NoWrap
    NoResult = NoResult
SYMMETRY Symmetry
INVARIANTS
    TypeOK
    RefsExact
    NoReuseUnderneath
    BufferStaysLent
    ResultIsOutcome
    NoLostWakeup
