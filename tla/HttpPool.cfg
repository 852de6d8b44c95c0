SPECIFICATION Spec
CONSTANTS
    Clients = {"c1", "c2", "c3"}
    Null = "null"
    Hosts = {"h1", "h2"}
    NoHost = ""
    MaxFiles = 4
CHECK_DEADLOCK FALSE
INVARIANTS
    TypeOK
    NoDangling
    NoLeak
    CleanReuse
    StaleNeverFails
