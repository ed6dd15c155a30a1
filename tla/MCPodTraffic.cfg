SPECIFICATION Spec
CONSTANTS
    Pods = {a, b, c}
    Injected = {a, b}
    Copying = {a, b, c}
    Calls = {c1, c2, c3, c4}
    NoId = NoId
    OwnPaths = {"/ready"}
    Paths = {"/api"}
SYMMETRY Symmetry
CHECK_DEADLOCK FALSE
INVARIANTS
    TypeOK
    OneIdentifierPerTrace
