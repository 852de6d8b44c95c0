SPECIFICATION FairSpec
CONSTANTS
    MaxBody = 6
    Halves = {2, 3}
    Bounce = 2
    MaxCalls = 3
INVARIANTS
    TypeOK
    BufferExclusion
    InOrder
    OkMeansAllAccepted
    NoLostGive
    WriterFileOpen
    NoUseAfterFree
PROPERTIES
    Contract
    EveryCallReturns
    Shutdown
CHECK_DEADLOCK FALSE
