--------------------------- MODULE MCProvisioning ---------------------------
EXTENDS Provisioning

None == [d \in Disturbances |-> 0]

StormBudget == [None EXCEPT !["create"] = 2, !["delete"] = 1, !["crash"] = 1]

RecoveryBudget == [None EXCEPT !["create"] = 1, !["fault"] = 1, !["crash"] = 1,
                               !["nsdelete"] = 1, !["builder"] = 1, !["podloss"] = 1]

LostResetBudget == [None EXCEPT !["create"] = 1, !["nsdelete"] = 1, !["crash"] = 1]

PodLossBudget == [None EXCEPT !["create"] = 1, !["podloss"] = 1]

EditBudget == [None EXCEPT !["create"] = 1, !["edit"] = 1]
=============================================================================
