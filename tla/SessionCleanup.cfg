SPECIFICATION Spec
CONSTANTS
    Items <- MixedItems
    RawMaxOids = 3
    HostProfile = 1
    Names = 4
    IntMax = 3
    MaxAsked = 3
    CounterBits = 8
    FloatDigits = 5
    ResultsBuffer = 6
    MaxPort = 10
    AnswerCharacters = {"0", "9", "e", "-", "+", ".", ":", " ", "U"}
    AnswerLength = 2
    NameCharacters = {"udp", "tcp6", "h", "0", "1", ":", "[", "]"}
    NameLength = 2
INVARIANT SessionsCleanedUp
