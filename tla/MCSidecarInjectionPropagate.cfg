SPECIFICATION Spec
CONSTANTS
    Names <- MCNames
    Headers <- MCHeaders
    CanonicalHeaderKey <- MCCanonicalHeaderKey
    Paths <- MCPaths
    Methods <- MCMethods
    ToUpper <- MCToUpper
    ClientValues = {sent}
    NoValue = NoValue
    Serials <- MCSerials
    BadNames = {"x request id"}
    BadMethods = {"FETCH"}
    NoRegex = NoRegex
    BadRegex = BadRegex
    Unset = Unset
    Blank = Blank
    Malformed = Malformed
    Garbage = Garbage
    Apps = {"app"}
    Manifests <- MCManifests
    NoPod = NoPod
    NoConfig = NoConfig
    MaxSubmissions = 1
CHECK_DEADLOCK FALSE
INVARIANTS
    PropagateFalseHonoured
