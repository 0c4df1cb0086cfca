SPECIFICATION Spec
CONSTANTS
    Words <- MCWords
    SubDomain <- Team
    ManagerNamespace <- Cloud
    DevEnvs <- TwoDevEnvs
    Steps <- StormSteps
    Addresses = {1, 2}
    Lagging = {"endpoints"}
    DeleteVolumes = FALSE
    Budget <- StormBudget
INVARIANTS
    OwnObjects
    OwnSecret
    ProxyLogsIn
CHECK_DEADLOCK FALSE
