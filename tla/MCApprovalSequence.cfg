CONSTANTS
    Stages = 3
    Deciders = {d1, d2, d3}
    None = None
SYMMETRY DeciderSymmetry
SPECIFICATION Spec
INVARIANTS StatusInvariants RouteRunAndPlanAgree
PROPERTIES ImplementsSerialRoute
