SPECIFICATION Spec
CONSTANTS
    Pods = {a, b, c}
    Injected = {a, b}
    Copying = {a, b, c}
    Calls = {c1, c2}
    NoId = NoId
    OwnPaths = {}
    Paths = {"/api"}
SYMMETRY Symmetry
CHECK_DEADLOCK FALSE
INVARIANTS
    ReachesItsService
