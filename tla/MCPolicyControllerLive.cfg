SPECIFICATION FairSpec
CONSTANTS
    Policies = {p1}
    Pods = {x1}
    Labels <- MCLabels
    Selectors <- MCSelectors
    Invalid = Invalid
    Absent = Absent
    Nothing = Nothing
    MaxChanges = 3
CHECK_DEADLOCK FALSE
PROPERTIES
    EventuallyAccurate
