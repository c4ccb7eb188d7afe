SPECIFICATION Spec
CONSTANTS
    U16 = 3
    U32 = 4
    Reasons = {1}
    Texts = {0, 2, 3}
    Bodies = {0, 1, 4, 5}
    MaxHeaders = 3
INVARIANTS
    KernelReadsLiveMemory
    SentIsBuilt
