SPECIFICATION PoolsSpec
CONSTANTS
    SlotCount = 2
    RowCount = 5
    MaxRuns = 2
    NumThreads = 2
    QueueBound = 1
    TaskCount = 4
    MaxJoins = 2
INVARIANTS
    PoolsTypeOK
    NoDanglingTask
    RowsOnce
    QueueBounded
PROPERTIES
    FirstFailureSurfaces
    KeepsPromise
    PoolsReturn
