SPECIFICATION Spec
CONSTANTS
    a = a
    b = b
    t = t
    Dims <- MCDims
    Regions <- MCRegions
    StageIds = {2, 3, 4}
    PointCount = 5
    TilePointCapacity = 1
    LaneCount = 3
    Programs = {"filter"}
    KeepSets = {{0, 2, 3}, {}}
INVARIANTS
    TypeOK
    LaneWindow
    IdleLaneQuiet
    NoUseAfterFree
PROPERTIES
    PublishedInOrder
