SPECIFICATION FairSpec
CONSTANTS
    MaxLag = 3
    Budget <- FaultBudget
    Lagging = {"devenv"}
    DelaysOutlastLag = FALSE
    DeleteVolumes = TRUE
PROPERTIES
    IdentityCompletes
CHECK_DEADLOCK FALSE
