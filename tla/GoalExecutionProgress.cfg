SPECIFICATION FairSpec
CONSTANTS
    g1 = g1  g2 = g2  t1 = t1  t2 = t2  t3 = t3  d1 = d1  d2 = d2
    None = None
    Driver = {d1, d2}
    Goal = {g1}
    Task = {t1, t2}
    GoalOf <- BothInOne
    Position <- InOrder
    DependsOn <- OneGoal
    MaxAttempts = 2
    MaxContractRepairs = 1
    MaxPromotionRetries = 1
    Faults = {"agent", "git", "crash", "stall", "contention"}
    FaultBound = 2
    Commands = {"retry", "edit"}
    CommandBound = 1
    AttemptBound = 8
INVARIANTS
    FinishedCycleIsNotBlocked
PROPERTIES
    ReviewOrBlock
CHECK_DEADLOCK FALSE
