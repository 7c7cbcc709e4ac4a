CONSTANTS
    Documents = {d1, d2}
    Workers = {w1}
    Handlers = {h1, h2}
    Batches = 1
    MaxAttempts = 1
    MaxJobs = 1
    None = None
SYMMETRY Symmetry
SPECIFICATION Spec
INVARIANT RetiredIsTerminal
CHECK_DEADLOCK FALSE
