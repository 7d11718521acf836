\* Deploy, two deletes, an update, three invocations, one cleanup sweep and
\* one crash on one function.
CONSTANTS
    f1 = f1  q1 = q1  q2 = q2  q3 = q3  d1 = d1  d2 = d2  x1 = x1  x2 = x2  u1 = u1
    Fns <- MCFns
    InitFns <- MCFns
    Reqs <- MCReqs
    Deployers <- MCDeployers
    Deleters <- MCDeleters
    Updaters <- MCUpdaters
    MaxReplicas = 3
    Cap = 3
    MaxCrashes = 1
    StorageMayFail = TRUE
    MaxCleanups = 1
SPECIFICATION Spec
SYMMETRY Symmetry
\* A goroutine that panics holding dfMu's read lock hangs every later
\* writer: the code really can stop (registry_hang shows it).
CHECK_DEADLOCK FALSE
INVARIANT TypeOK DaemonVictimUnreachable
