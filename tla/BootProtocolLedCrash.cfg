SPECIFICATION FairSpec
CONSTANTS
    Folders = {"f1", "f2"}
    NoFolder = ""
    MaxBootFailures = 5
    MaxRetries = 3
    Wrap = 8
    CrashPoints = {"led", "bail_led"}
    NvsFaults = FALSE
    MaxRequests = 1
CHECK_DEADLOCK FALSE
PROPERTY
    DeviceComesBack
