CONSTANTS
    Handlers = {h1, h2}
    j1 = j1
    j2 = j2
    b1 = b1
    b2 = b2
    None = None
    p1 = p1
    p2 = p2
    Budget = 5
    MaxNow = 1
    Jobs <- MCJobs
    Bindings <- MCBindings
    Package <- MCPackage
    Scenarios <- MCScenarios
SYMMETRY HandlerSymmetry
SPECIFICATION Spec
INVARIANTS BudgetBalances NoSimilarPurchases PlanGoesOn ApprovableIsExecutable
PROPERTIES OncePerKey ActivatedIsComplete EmployeeOnlyAdvances WritesRecheck ConfirmedAtCommit
