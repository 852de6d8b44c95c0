SPECIFICATION FairSpec
CONSTANTS
    MaxNetworks = 3
    MaxAttempts = 3
    MaxEvents = 3
CHECK_DEADLOCK FALSE
INVARIANTS
    TypeOK
    BitTracksLink
    AtMostOneLateRetry
    FailAccountsForAll
PROPERTY
    ConnectReturns
