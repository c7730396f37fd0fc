SPECIFICATION FairPopenSpec
CONSTANTS
    Threads = {t1, t2, t3}
    Fds = {f1, f2}
    Pids = {p1, p2}
    Null = Null
    MaxScripts = 2
    MaxAbandoned = 1
    MaxTries = 2
    Items = 1
INVARIANTS
    KillsOwnChild
    EveryChildOwned
PROPERTIES
    ScriptEnds
