SPECIFICATION Spec
CONSTANTS
    Names <- MCNames
    Headers <- MCHeaders
    CanonicalHeaderKey <- MCCanonicalHeaderKey
    Paths <- MCPaths
    Methods <- MCMethods
    ToUpper <- MCToUpper
    ClientValues = {sent}
    NoValue = NoValue
    Serials <- MCSerials
    Requests = {q1, q2}
    Inbound <- FewInbound
    RuleConfigs <- OverlappingOnly
    NoMessage = NoMessage
    Nobody = Nobody
    Codes <- MCCodes
    Instants <- MCInstants
CHECK_DEADLOCK FALSE
INVARIANTS
    GeneratedAsRuleSays
