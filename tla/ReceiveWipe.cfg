SPECIFICATION Spec
CONSTANTS
    Slots = {s1}
    Requests = {r1, r2}
    Shapes <- DeclaredShapes
    InitBytes = 10
    MaxBytes = 44
    HEADER_SLACK = 16
    MinWords = 3
    U32 = 256
    MaxKept = 0
    NoReq = NoReq
INVARIANT NotFoundUnreachable
