SPECIFICATION FairSpec
CONSTANTS
    MaxLag = 3
    Budget <- EditBudget
    Lagging = {"devenv"}
    DelaysOutlastLag = FALSE
    DeleteVolumes = TRUE
PROPERTIES
    DeletionCompletes
CHECK_DEADLOCK FALSE
