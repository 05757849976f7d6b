SPECIFICATION Spec
CONSTANTS
    QueueDepth = 2
    Blocks = 3
    CommandCases <- MCCommands
    Dims = {}
    Custom = {}
    PointCount = 2
    MaxFilters = 4
    RunsTried = "all"
    Runs <- MCRuns
    StepUnit = 10
    Unlimited = 12
    Translations <- MCTranslations
INVARIANTS
    AttemptTypeOK
    RefusedAtBoundary
    RunsThePlan
    OneOutput
    NoLeftovers
    TranslationRight
PROPERTIES
    AttemptReturns
