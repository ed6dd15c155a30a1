SPECIFICATION FairSpec
CONSTANTS
    Names <- MCNames
    Headers <- MCHeaders
    CanonicalHeaderKey <- MCCanonicalHeaderKey
    Paths <- MCPaths
    Methods <- MCMethods
    ToUpper <- MCToUpper
    ClientValues = {sent}
    NoValue = NoValue
    Serials <- MCSerials
    Requests = {q1, q2}
    Inbound <- MCInbound
    RuleConfigs <- MCRuleConfigs
    NoMessage = NoMessage
    Nobody = Nobody
    Codes <- MCCodes
    Instants <- MCInstants
CHECK_DEADLOCK FALSE
INVARIANTS
    TypeOK
    NoSharedIdentifier
    GaugeAgrees
    TotalsAgree
    PropagatedAgrees
PROPERTIES
    ImplementsContract
    HandlerNeverStalls
