SPECIFICATION PlanSpec
CONSTANTS
    a = a
    t = t
    MaxFilters = 2
    Dims <- MCDims
    Custom <- MCCustom
    Pipelines <- MCPipelines
    SizeMax = 7
    LaneChoices = {0, 1, 2, 3, 6, 7}
    StepUnit = 10
    Unlimited = 12
    Programs <- MCPrograms
INVARIANTS
    FreshReads
    RetiredOnce
    WithinBudget
    ItemsOnce
    OrdinalsMatch
PROPERTIES
    EstimateIsExact
