SPECIFICATION Spec
CONSTANTS
    Client = {c1, c2}
    Provider = {p1, p2}
    Model = {m1, m2}
    Agent = {a1}
    Capability = {k1}
    Project = {j1}
    None = None
    MaxRequests = 5
SYMMETRY Interchangeable
INVARIANTS
    TypeOK
    CredentialsInPlace
    BindingsResolve
    WizardInOrder
CHECK_DEADLOCK FALSE
