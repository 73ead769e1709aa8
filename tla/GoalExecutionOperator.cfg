SPECIFICATION Spec
CONSTANTS
    g1 = g1  g2 = g2  t1 = t1  t2 = t2  t3 = t3  d1 = d1  d2 = d2
    None = None
    Driver = {d1, d2}
    Goal = {g1, g2}
    Task = {t1, t2}
    GoalOf <- OneTaskEach
    Position <- InOrder
    DependsOn <- Chain
    MaxAttempts = 2
    MaxContractRepairs = 1
    MaxPromotionRetries = 1
    Faults = {"agent", "git", "crash", "stall", "contention"}
    FaultBound = 2
    Commands = {"replan", "pause", "resume", "retry", "edit"}
    CommandBound = 2
    AttemptBound = 8
SYMMETRY DriverSymmetry
INVARIANTS
    PausedIsQuiescent
    PromotionStaysValid
    ReservedAttemptIsOpen
    DoneGoalIsMerged
PROPERTIES
    DeliversOnce
CHECK_DEADLOCK FALSE
