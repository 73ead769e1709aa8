SPECIFICATION Spec
CONSTANTS
    g1 = g1  g2 = g2  t1 = t1  t2 = t2  t3 = t3  d1 = d1  d2 = d2
    None = None
    Driver = {d1}
    Goal = {g1}
    Task = {t1}
    GoalOf <- OneTask
    Position <- First
    DependsOn <- OneGoal
    MaxAttempts = 2
    MaxContractRepairs = 1
    MaxPromotionRetries = 1
    Faults = {"crash", "restart"}
    FaultBound = 2
    Commands = {}
    CommandBound = 0
    AttemptBound = 8
INVARIANTS
    ReservedAttemptIsOpen
CHECK_DEADLOCK FALSE
