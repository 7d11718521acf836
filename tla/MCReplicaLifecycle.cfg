CONSTANTS
    fnN = fnN
    fnW = fnW
    q1 = q1
    q2 = q2
    Fns <- MCFns
    FnKind <- MCFnKind
    Reqs <- MCReqs
    MaxInvocations = 3
    MaxTime = 1
    ExpirationTime = 1
    MaxWasmContainers = 1
    NativeLimit = 3
    CreateMayFail = TRUE
    TeardownMayFail = TRUE
    UpstreamMayFail = TRUE

SPECIFICATION Spec
INVARIANT TypeOK
INVARIANT ReplicaSingleLocation
INVARIANT NoDestroyedReplicaReachable
INVARIANT CapacityRespected
PROPERTY ImplementsIdlePool
