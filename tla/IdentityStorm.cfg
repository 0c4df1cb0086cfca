SPECIFICATION Spec
CONSTANTS
    MaxLag = 3
    Budget <- StormBudget
    Lagging = {"devenv", "pods"}
    DelaysOutlastLag = FALSE
    DeleteVolumes = TRUE
INVARIANTS
    LiveRealmStays
    RecordedUserCanLogIn
PROPERTIES
    FinalizerGuardsRealm
    ImplementsLifecycle
CHECK_DEADLOCK FALSE
