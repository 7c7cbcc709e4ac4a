CONSTANTS
    Threads = {t1, t2}
    Action = grant
    Key = key
    Target = access
    MaxVersion = 6
    MaxCheckpoints = 4
    None = None
SYMMETRY ThreadSymmetry
SPECIFICATION Spec
INVARIANT ApprovedRunIsResumable
CHECK_DEADLOCK FALSE
