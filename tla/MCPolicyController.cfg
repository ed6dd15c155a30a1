SPECIFICATION Spec
CONSTANTS
    Policies = {p1}
    Pods = {x1, x2}
    Labels <- MCLabels
    Selectors <- MCSelectors
    Invalid = Invalid
    Absent = Absent
    Nothing = Nothing
    MaxChanges = 4
CHECK_DEADLOCK FALSE
SYMMETRY Symmetry
INVARIANTS
    TypeOK
    NoMissedChange
PROPERTIES
    NoStaleWrite
