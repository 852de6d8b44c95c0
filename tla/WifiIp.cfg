SPECIFICATION Spec
CONSTANTS
    MaxNetworks = 3
    MaxAttempts = 3
    MaxEvents = 3
CHECK_DEADLOCK FALSE
INVARIANT
    OkMeansAddress
