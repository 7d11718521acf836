CONSTANTS
    fA = fA
    fX = fX
    h = h
    hn = hn
    hw = hw
    q1 = q1
    q2 = q2
    Fns <- MCFns
    FnKind <- MCFnKind
    Sandboxes <- MCSandboxes
    Registered <- MCRegistered
    Reqs <- MCReqs
    SvcTimes = {1, 2}
    MaxEntries = 4
    ChanCap = 2
    MaxStats = 5
    EvalEvery = 2
    SampleThreshold = 2
    MaxReports = 1

SPECIFICATION Spec
INVARIANT TypeOK
INVARIANT StatsExactBeforeWrap
PROPERTY SendCompletesUnlessStatLockLeaked
CHECK_DEADLOCK FALSE
