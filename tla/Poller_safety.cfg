SPECIFICATION Spec
CONSTANTS
    Rows = 2
    MaxDeviceThreads = 2
    Threads = 2
    Device0 = TRUE
    Remote = FALSE
    PingOnly = FALSE
    ActiveProfiles = 2
INVARIANTS
    ScheduleCoversDevice
    CompleteMeansPersisted
    PoolNeverExhausted
    TeardownAfterWorkers
    ExitSuccessMeansPolled
