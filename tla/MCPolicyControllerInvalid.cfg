SPECIFICATION FairSpec
CONSTANTS
    Policies = {p1}
    Pods = {x1}
    Labels <- MCLabels
    Selectors <- MCSelectors
    Invalid = Invalid
    Absent = Absent
    Nothing = Nothing
    MaxChanges = 1
CHECK_DEADLOCK FALSE
PROPERTIES
    InvalidSelectorReported
