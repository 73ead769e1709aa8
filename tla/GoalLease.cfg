SPECIFICATION Spec
CONSTANTS
    w1 = w1  w2 = w2
    None = None
    Worker = {w1, w2}
    LeaseSeconds = 2
    MaxClock = 7
SYMMETRY WorkerSymmetry
INVARIANTS
    TypeOK
    OneHolder
    HolderHasRow
    PunctualIsSpared
PROPERTIES
    LeaseIsLock
