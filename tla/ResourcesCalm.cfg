SPECIFICATION FairSpec
CONSTANTS
    Words <- MCWords
    SubDomain <- Team
    ManagerNamespace <- Cloud
    DevEnvs <- TwoDevEnvs
    Steps <- CalmSteps
    Addresses = {1, 2}
    Lagging = {"ide"}
    DeleteVolumes = FALSE
    Budget <- CalmBudget
INVARIANTS
    RoutesAreCurrent
    EndpointsHaveAddress
PROPERTIES
    GetsComplete
CHECK_DEADLOCK FALSE
