SPECIFICATION Spec
CONSTANTS
    PoolThreads = 2
    ChunkSize = 2
    MaxPoints = 7
    FailingChunks <- MCFailingChunks
    TileTotal = 4
    PageTiles <- MCPageTiles
    SubPages <- MCSubPages
    EptCases <- MCEptCases
    ChunkPoints = 2
    FilePoints = 5
    MaxReady = 2
    LasCases <- MCLasCases
    Walkers = {1, 2}
    NodePages = {1, 2, 3}
    CacheSize = 2
    Walks <- MCWalks
    Directions = {0, 1}
    CellSets <- MCCellSets
    CatalogLinks <- MCLinks
    CatalogItems <- MCItems
    CatalogCases <- MCCatalogCases
    TileCount = 3
    Requests = 2
    DecodeWorkers = 2
    KeepAlive = 2
    Ways = {"ordered", "parallel"}
    FailingSets <- MCFailingSets
INVARIANTS
    TypeOK
    InOrder
    TileOnce
    Bounded
    FetchedOnce
    HierarchyConnected
    CatalogComplete
PROPERTIES
    CallsReturn
