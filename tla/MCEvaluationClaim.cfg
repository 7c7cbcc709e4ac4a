CONSTANTS
    Runs = {1}
    Cases = {1}
    Workers = {w1, w2}
    MaxAttempts = 3
    Verdicts = {"PASSED"}
    MaxCalls = 1
    MaxCrashes = 0
    None = None
    Handlers = {h1}
    MaxBadCase = 0
SPECIFICATION FairSpec
PROPERTY ClaimReturns
CHECK_DEADLOCK FALSE
