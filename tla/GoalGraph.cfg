SPECIFICATION Spec
CONSTANTS
    g1 = g1  g2 = g2  g3 = g3
    Goal = {g1, g2, g3}
    Position <- InOrder
    EditBound = 2
INVARIANTS
    TypeOK
    DependenciesPrecede
    ProgressMeansReady
    BlocksSpreadExactly
    BlockedMeansStuck
CHECK_DEADLOCK FALSE
