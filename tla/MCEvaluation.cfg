CONSTANTS
    Runs = {1, 2, 3}
    Cases = {1, 2}
    Workers = {w1, w2}
    MaxAttempts = 2
    Verdicts = {"PASSED", "ERROR"}
    MaxCalls = 1
    MaxCrashes = 1
    None = None
    Handlers = {h1, h2}
    MaxBadCase = 5
SPECIFICATION FairSpec
CONSTRAINTS Focus Staggered
INVARIANTS UsageIsAccounted CompletedIsWhole VerifiedOnPass
PROPERTIES OneBaseline EveryRunEnds
CHECK_DEADLOCK FALSE
