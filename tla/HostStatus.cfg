SPECIFICATION StatusSpec
CONSTANTS
    FailureCount = 3
    RecoveryCount = 2
    Partitions = 2
    MaxCycles = 7
PROPERTIES
    ImplementsHysteresis
    DatesAreFirstEvents
