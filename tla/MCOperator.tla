----------------------------- MODULE MCOperator -----------------------------
EXTENDS Operator

None == [d \in Disturbances |-> 0]

CalmBudget == [None EXCEPT !["create"] = 2, !["delete"] = 1, !["nsdelete"] = 1]
=============================================================================
