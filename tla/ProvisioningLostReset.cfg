SPECIFICATION ProvisioningSpec
CONSTANTS
    MaxLag = 2
    Budget <- LostResetBudget
    Lagging = {}
    DelaysOutlastLag = TRUE
    DeleteVolumes = TRUE
INVARIANTS
    NewNamespaceResetsStatus
CHECK_DEADLOCK FALSE
