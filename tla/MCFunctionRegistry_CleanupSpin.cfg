\* On a fresh install: two invocations, one delete, a deploy and a redeploy
\* and one cleanup sweep of the same function, no crash.
CONSTANTS
    f1 = f1  q1 = q1  q2 = q2  q3 = q3  d1 = d1  d2 = d2  x1 = x1  x2 = x2  u1 = u1
    Fns <- MCFns
    InitFns <- NoFns
    Reqs <- TwoReqs
    Deployers <- TwoDeployers
    Deleters <- OneDeleter
    Updaters <- NoUpdaters
    MaxReplicas = 2
    Cap = 2
    MaxCrashes = 0
    StorageMayFail = FALSE
    MaxCleanups = 1
SPECIFICATION Spec
CHECK_DEADLOCK FALSE
PROPERTY CleanupEnds
