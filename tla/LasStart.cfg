SPECIFICATION LasSpec
CONSTANTS
    PoolThreads = 2
    ChunkPoints = 2
    FilePoints = 5
    MaxReady = 1
    LasCases <- StartCases
PROPERTIES
    LasReturns
