SPECIFICATION ProvisioningSpec
CONSTANTS
    MaxLag = 2
    Budget <- EditBudget
    Lagging = {}
    DelaysOutlastLag = TRUE
    DeleteVolumes = TRUE
PROPERTIES
    IdeOnlyWhenRunning
CHECK_DEADLOCK FALSE
