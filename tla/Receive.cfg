SPECIFICATION FairSpec
CONSTANTS
    Slots = {s1, s2}
    Requests = {r1, r2}
    Shapes <- AllShapes
    InitBytes = 10
    MaxBytes = 44
    HEADER_SLACK = 16
    MinWords = 3
    U32 = 256
    MaxKept = 1
    NoReq = NoReq
\* Every slot may have panicked.
CHECK_DEADLOCK FALSE
INVARIANTS
    AnswersItsRequest
    NoRequestAbandoned
    NeededSuffices
    BuffersBounded
    SettlesAfterOneMistake
PROPERTY TakenIsAnswered
