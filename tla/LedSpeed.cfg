SPECIFICATION Spec
CONSTANTS
    Expected = 2
    Chunk = 1
    MaxBytes = 6
    Shown = {"WIFI_CONNECTING"}
    Width = 256
CHECK_DEADLOCK FALSE
PROPERTY
    SpeedNeverDrops
