SPECIFICATION FairSpec
CONSTANTS
    Folders = {"f1", "f2"}
    NoFolder = ""
    MaxBootFailures = 5
    MaxRetries = 3
    Wrap = 8
    CrashPoints = {"nvs", "count", "led", "load", "decide", "wifi", "download", "save", "reset", "bail_led", "handover"}
    NvsFaults = TRUE
    MaxRequests = 2
CHECK_DEADLOCK FALSE
INVARIANTS
    TypeOK
    SuccessTruth
    TriesBounded
    UnansweredOnlyByBailOut
    NoRepeat
PROPERTY
    AntiBrick
