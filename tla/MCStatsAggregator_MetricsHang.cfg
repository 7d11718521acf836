CONSTANTS
    fA = fA
    fX = fX
    h = h
    hn = hn
    hw = hw
    q1 = q1
    q2 = q2
    Fns <- HyFns
    FnKind <- HyFnKind
    Sandboxes <- HySandboxes
    Registered <- HyFns
    Reqs <- MCReqs
    SvcTimes = {1, 2}
    MaxEntries = 4
    ChanCap = 1
    MaxStats = 3
    EvalEvery = 2
    SampleThreshold = 2
    MaxReports = 1

SPECIFICATION Spec
PROPERTY SendEventuallyCompletes
CHECK_DEADLOCK FALSE
