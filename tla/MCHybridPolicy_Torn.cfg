CONSTANTS
    q1 = q1
    q2 = q2
    eCold = eCold
    eWarm = eWarm
    eUtil = eUtil
    u1 = u1
    Reqs <- OneReq
    Evals <- NoEvals
    EvalKind <- NoEvalKind
    Updates <- MCUpdates
    UpdateInputs <- MCUpdateInputs
    SvcValues = {0, 1}
    MaxStatUpdates = 0
    Cap = 1
    CreateMayFail = TRUE
    MAX_ADDL_CTRS = 5
    MAX_KEEPALIVE_TIME = 60

SPECIFICATION Spec
INVARIANT PolicyReadsAtomic
