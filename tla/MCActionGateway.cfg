CONSTANTS
    Callers = {c1, c2}
    Actions = {a}
    MaxVersion = 2
    Keys = {k1, k2}
    k1 = k1
    resource = access
    Targets = {access}
    TargetOf <- SameTarget
    None = None
SYMMETRY CallerSymmetry
CONSTRAINT VersionsOrKeys
SPECIFICATION Spec
INVARIANTS AtMostOneSend OnlyApprovedWrites SuccessIsReal ExecutionFollowsKey
PROPERTIES OutcomesAreFinal ImplementsOnceOnlyWrite
