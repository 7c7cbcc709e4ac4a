CONSTANTS
    Handlers = {h1, h2}
    MaxVersion = 4
    MaxFaults = 1
    Scenarios <- MCScenarios
    None = None
SPECIFICATION FairSpec
INVARIANTS WritesInOrder CompletedMeansDone PlanFollowsRun
PROPERTIES ApprovedRunsMoveOn
CHECK_DEADLOCK FALSE
