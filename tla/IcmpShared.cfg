SPECIFICATION FairSpec
CONSTANTS
    Waiters = {w1, w2}
    Stray = stray
    Retries = 1
    Batch = 1
    DrainMax = 2
    QueueMax = 1
INVARIANTS
    SocketNeverAbandoned
PROPERTIES
    ReplyDelivered
    PingEnds
