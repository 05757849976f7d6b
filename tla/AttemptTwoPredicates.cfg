SPECIFICATION Spec
CONSTANTS
    QueueDepth = 1
    Blocks = 1
    CommandCases = {}
    Dims = {}
    Custom = {}
    PointCount = 2
    MaxFilters = 1
    RunsTried = "twoPredicates"
    Runs <- MCRuns
    StepUnit = 10
    Unlimited = 12
    Translations <- MCTranslations
INVARIANTS
    AcceptedRuns
