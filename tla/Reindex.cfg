SPECIFICATION ReindexSpec
CONSTANTS
    Rows <- MixedRows
    DeviceThreads = 2
    MaxValue = 1
    MaxChanges = 1
PROPERTIES
    BaselineMovesWithReindex
