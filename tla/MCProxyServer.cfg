SPECIFICATION Spec
CONSTANTS
    Unset = Unset
    Garbage = Garbage
    Requests = {q1, q2}
    Kinds = {"get", "post", "healthz", "ready", "metrics"}
    Environments <- MCEnvironments
    Step = 5
SYMMETRY Symmetry
CHECK_DEADLOCK FALSE
INVARIANTS
    TypeOK
    RateBound
PROPERTIES
    LostOnlyAfterGrace
    LimitedOnlyAtLimit
    ClientsNeverForceExit
