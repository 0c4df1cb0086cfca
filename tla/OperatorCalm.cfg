SPECIFICATION OperatorFairSpec
CONSTANTS
    MaxLag = 3
    Budget <- CalmBudget
    Lagging = {}
    DelaysOutlastLag = TRUE
    DeleteVolumes = TRUE
    PromptCollector = TRUE
INVARIANTS
    IdeOnlyOnReadyVolume
    NoStrayPods
PROPERTIES
    IdeOnlyForUser
    IdeOnlyWhenRunning
    GetsUsable
    DeletionCompletes
    EverythingGoes
    ImplementsWorkspace
CHECK_DEADLOCK FALSE
