SPECIFICATION CatalogSpec
CONSTANTS
    PoolThreads = 2
    CatalogLinks <- MCLinks
    CatalogItems <- MCItems
    CatalogCases <- NestedCases
INVARIANTS
    RejectsOnlyEmpty
