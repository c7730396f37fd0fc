SPECIFICATION FairSpec
CONSTANTS
    Threads = {t1, t2}
    MaxServers = 2
INVARIANTS
    AnswerMatches
    SlotExclusive
    HealthyNeverUndefined
PROPERTIES
    RequestEnds
