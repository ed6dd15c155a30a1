SPECIFICATION FairSpec
CONSTANTS
    Unset = Unset
    Garbage = Garbage
    Requests = {q1, q2}
    Kinds = {"get", "post", "ready"}
    Environments <- LiveEnvironments
    Step = 5
CHECK_DEADLOCK FALSE
PROPERTIES
    ShutdownTerminates
    OnlyTheApplicationHolds
