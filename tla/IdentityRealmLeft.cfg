SPECIFICATION Spec
CONSTANTS
    MaxLag = 3
    Budget <- DeleteBudget
    Lagging = {"devenv"}
    DelaysOutlastLag = FALSE
    DeleteVolumes = TRUE
INVARIANTS
    NoRealmLeft
CHECK_DEADLOCK FALSE
