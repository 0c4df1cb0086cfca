----------------------------- MODULE MCResources -----------------------------
EXTENDS Resources

MCWords == {"cnde", "oauth", "proxy", "ui", "build", "init", "vm", "home",
            "docker", "storage", "a", "team", "cloud"}

Team  == <<"team">>
Cloud == <<"cloud">>

\* Names as close to a clash as they may be.
TwoDevEnvs == {<<"a">>, <<"a", "oauth">>}

StormSteps == <<"homeClaim", "ide", "endpoints", "proxyPod", "proxySecret">>
CalmSteps  == <<"ide", "endpoints", "proxyPod", "proxySecret">>

None == [d \in Disturbances |-> 0]

StormBudget == [None EXCEPT !["create"] = 2, !["delete"] = 1, !["podloss"] = 1,
                        !["fault"] = 1, !["update"] = 1]

CalmBudget == [None EXCEPT !["create"] = 2, !["delete"] = 1, !["crash"] = 1, !["event"] = 1]
=============================================================================
