SPECIFICATION FairSpec
CONSTANTS
    Files = {"manifest.json", "a", "b"}
    Manifest = "manifest.json"
    Listed = {"a"}
    Ladder = {20000, 10000, 4000}
    MountRungs = {10000, 4000, 400}
    SD_SPI_FREQ_KHZ = 10000
    UnlinkMayFail = TRUE
    MaxCalls = 2
CHECK_DEADLOCK FALSE
INVARIANTS
    TypeOK
    SuccessMeansInstalled
    SwapOnlyVerified
    FinalAsVerified
    KeepOld
    BusReleased
    ClockNeverRises
PROPERTIES
    CallReturns
    Promise
