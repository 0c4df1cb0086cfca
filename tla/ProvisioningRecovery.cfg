SPECIFICATION ProvisioningFairSpec
CONSTANTS
    MaxLag = 2
    Budget <- RecoveryBudget
    Lagging = {}
    DelaysOutlastLag = TRUE
    DeleteVolumes = TRUE
PROPERTIES
    IdeRuns
CHECK_DEADLOCK FALSE
