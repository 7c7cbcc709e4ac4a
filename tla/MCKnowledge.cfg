CONSTANTS
    Documents = {d1, d2}
    Workers = {w1, w2}
    Handlers = {h1, h2}
    Batches = 2
    MaxAttempts = 3
    MaxJobs = 2
    None = None
SPECIFICATION FairSpec
CONSTRAINT Focus
INVARIANTS IndexStatusFollowsJob SearchableIsComplete AtMostOnePublished
PROPERTIES OnlyOwnersConclude EveryJobEnds
