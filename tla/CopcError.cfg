SPECIFICATION CopcSpec
CONSTANTS
    TileCount = 4
    Requests = 2
    DecodeWorkers = 2
    KeepAlive = 2
    Ways = {"ordered", "parallel"}
    FailingSets = {{0}}
PROPERTIES
    ErrorSurfaces
