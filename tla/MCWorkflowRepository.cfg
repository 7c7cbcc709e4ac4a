CONSTANTS
    Writers = {w1, w2}
    Projectors = {p1, p2}
    MaxVersion = 4
    None = None
SYMMETRY HandlerSymmetry
SPECIFICATION TicketSpec
INVARIANTS AuditTrailIsHistory TicketFollowsTrail
PROPERTIES ImplementsLifecycle
