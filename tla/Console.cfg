\* One plan, two interchangeable goals of one task each, any sequence of commands. The
\* state space is finite: nothing is bounded. A plan may be done with, and nobody asks
\* for more.
SPECIFICATION Spec
CONSTANTS
    Goal = {g1, g2}
    NoGoal = NoGoal
    Roadmap = Roadmap
    Old = Old
SYMMETRY Interchangeable
CHECK_DEADLOCK FALSE
INVARIANTS
    TypeOK
    GateHasSubject
    OfferedIsAccepted
    WayForward
