SPECIFICATION Spec
CONSTANTS
    a = a
    b = b
    t = t
    Dims <- MCDims
    Regions <- MCRegions
    StageIds = {2, 3, 4}
    PointCount = 5
    TilePointCapacity = 2
    LaneCount = 2
    Programs = {"assign", "filter", "scratch"}
    KeepSets = {{0, 1, 4}}
INVARIANTS
    NothingUnpublished
    PlanAccepted
    NoColumnLeft
PROPERTIES
    KeepsPromise
    RegionEnds
    LanesDestroyed
