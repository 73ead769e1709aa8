SPECIFICATION Spec
CONSTANTS
    g1 = g1  g2 = g2  t1 = t1  t2 = t2  t3 = t3  d1 = d1  d2 = d2
    None = None
    Driver = {d1, d2}
    Goal = {g1, g2}
    Task = {t1, t2}
    GoalOf <- OneTaskEach
    Position <- InOrder
    DependsOn <- Independent
    MaxAttempts = 2
    MaxContractRepairs = 1
    MaxPromotionRetries = 1
    Faults = {"agent", "crash", "stall", "restart"}
    FaultBound = 2
    Commands = {"retry", "edit"}
    CommandBound = 1
    AttemptBound = 8
SYMMETRY DriverSymmetry
INVARIANTS
    TypeOK
    BlockedExactlyWhenStuck
    SingleOpenAttempt
    SettledTaskHasNoOpenAttempt
    OneLiveUnit
    DoneIsVerified
PROPERTIES
    LedgerIsHistory
CHECK_DEADLOCK FALSE
