SPECIFICATION EptSpec
CONSTANTS
    PoolThreads = 2
    TileTotal = 3
    PageTiles <- MCPageTiles
    SubPages <- MCSubPages
    EptCases <- SkipCases
PROPERTIES
    SkipsUnreadable
