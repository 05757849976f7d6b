SPECIFICATION EptSpec
CONSTANTS
    PoolThreads = 2
    TileTotal = 6
    PageTiles <- MCPageTiles
    SubPages <- MCSubPages
    EptCases <- LimitCases
PROPERTIES
    LimitEndsRead
