\* One deploy and one delete of the same function, no crash.
CONSTANTS
    f1 = f1  q1 = q1  q2 = q2  q3 = q3   d1 = d1  d2 = d2  x1 = x1  x2 = x2  u1 = u1
    Fns <- MCFns
    InitFns <- MCFns
    Reqs <- OneReq
    Deployers <- MCDeployers
    Deleters <- OneDeleter
    Updaters <- NoUpdaters
    MaxReplicas = 1
    Cap = 1
    MaxCrashes = 0
    StorageMayFail = FALSE
    MaxCleanups = 0
SPECIFICATION Spec
CHECK_DEADLOCK FALSE
INVARIANT RegistryMatchesStore
