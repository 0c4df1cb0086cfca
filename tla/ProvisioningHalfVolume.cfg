SPECIFICATION ProvisioningSpec
CONSTANTS
    MaxLag = 2
    Budget <- PodLossBudget
    Lagging = {}
    DelaysOutlastLag = TRUE
    DeleteVolumes = TRUE
INVARIANTS
    RunningMeansReady
CHECK_DEADLOCK FALSE
