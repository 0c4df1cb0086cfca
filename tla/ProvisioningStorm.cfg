SPECIFICATION ProvisioningSpec
CONSTANTS
    MaxLag = 2
    Budget <- StormBudget
    Lagging = {"devenv", "namespace"}
    DelaysOutlastLag = FALSE
    DeleteVolumes = TRUE
INVARIANTS
    ProvisioningTypeOK
PROPERTIES
    PhaseOrder
    FinishedVolumeKept
CHECK_DEADLOCK FALSE
