SPECIFICATION MainSpec
CONSTANTS
    Rows = 3
    MaxDeviceThreads = 1
    Threads = 2
    Device0 = FALSE
    Remote = TRUE
    PingOnly = TRUE
    ActiveProfiles = 1
INVARIANTS
    ConnectionsExclusive
PROPERTIES
    RunEnds
