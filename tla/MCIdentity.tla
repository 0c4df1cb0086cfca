---------------------------- MODULE MCIdentity ----------------------------
EXTENDS Identity

None == [d \in Disturbances |-> 0]

StormBudget == [None EXCEPT !["create"] = 2, !["delete"] = 1, !["edit"] = 1,
                            !["fault"] = 2, !["crash"] = 1, !["event"] = 1]

DeleteBudget == [None EXCEPT !["create"] = 1, !["delete"] = 1]
EditBudget   == [DeleteBudget EXCEPT !["edit"] = 1]
FaultBudget  == [None EXCEPT !["create"] = 1, !["fault"] = 1]
=============================================================================
