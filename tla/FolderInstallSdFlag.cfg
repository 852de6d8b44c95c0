SPECIFICATION Spec
CONSTANTS
    Files = {"manifest.json", "a", "b"}
    Manifest = "manifest.json"
    Listed = {"a"}
    Ladder = {20000, 10000, 4000}
    MountRungs = {10000, 4000, 400}
    SD_SPI_FREQ_KHZ = 10000
    UnlinkMayFail = FALSE
    MaxCalls = 1
CHECK_DEADLOCK FALSE
INVARIANT
    SdFailureReported
