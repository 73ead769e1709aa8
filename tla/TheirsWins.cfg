\* The plan and the bounds of Console.cfg.
SPECIFICATION Spec
CONSTANTS
    Goal = {g1, g2}
    NoGoal = NoGoal
    Roadmap = Roadmap
    Old = Old
SYMMETRY Interchangeable
CHECK_DEADLOCK FALSE
PROPERTIES
    TheirsWins
