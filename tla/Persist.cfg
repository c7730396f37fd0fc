SPECIFICATION Spec
CONSTANTS
    MaxErrors = 2
    EintrTries = 1
    ConnectTries = 2
    MaxBuf = 7
    Slack = 2
    Prefix = 1
    BoostPrefix = 2
    Suffix = 1
    RowMax = 3
    MaxRows = 3
    Interval = 2
    Steps = {1, 2, 5, 6}
    HostRows <- HostLengths
    ItemRows <- ItemLengths
    HostLimit = 2
    ItemLimit = 3
    BufSize = 16
    Insert = 2
    OnDuplicate = 2
    MaxCycles = 3
INVARIANTS
    RetryKeepsMode
    BuffersFit
    LossIsReported
    DueOnSchedule
    CopiedInOrder
PROPERTIES
    CallReturns
