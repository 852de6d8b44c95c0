SPECIFICATION FairSpec
CONSTANTS
    Expected = 2
    Chunk = 1
    MaxBytes = 6
    Shown = {"WIFI_CONNECTING"}
    Width = 256
INVARIANTS
    TypeOK
    SolidSurvives
    NoMixedColour
PROPERTIES
    DropsOnlyAtWrap
    OperationsReturn
CHECK_DEADLOCK FALSE
