SPECIFICATION Spec
CONSTANTS
    Threads = {t1, t2}
    Devices = {a, b}
    Pid = ours
    OtherPid = theirs
    Seqs = {0, 1}
    Retries = 1
    SocketTries = 2
    LookupTries = 1
    Timeout = 2
    QueueMax = 1
    PortRetries = 2
    PortTimeout = 3
INVARIANTS
    VerdictsTruthful
    RepliesKept
    SocketsReturned
    TimeBounded
SYMMETRY Symmetric
