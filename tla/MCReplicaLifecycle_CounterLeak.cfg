CONSTANTS
    fnN = fnN
    fnW = fnW
    q1 = q1
    q2 = q2
    Fns <- MCFns
    FnKind <- MCFnKind
    Reqs <- MCReqs
    MaxInvocations = 3
    MaxTime = 2
    ExpirationTime = 1
    MaxWasmContainers = 2
    NativeLimit = 2
    CreateMayFail = FALSE
    TeardownMayFail = FALSE
    UpstreamMayFail = FALSE

SPECIFICATION Spec
INVARIANT CountersMatchLive
