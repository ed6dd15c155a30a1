----------------------------- MODULE PodWebhook -----------------------------
(***************************************************************************)
(* The admission webhooks of internal/webhook/v1: PodCustomDefaulter,      *)
(* which injects the sidecar into a pod, and PodCustomValidator, which     *)
(* checks its annotations.  A pod is its ctxforge.io annotations, its      *)
(* sidecar containers with their environment, and for each application     *)
(* container how many times HTTP_PROXY was appended to its environment.    *)
(***************************************************************************)
EXTENDS ProxyConfig

CONSTANT Apps   \* the application containers of a pod

ProxyPort == 9090
DefaultTargetPort == [n |-> 8080, signed |-> FALSE]

Environment == [rules : RulesText, headers : HeadersText,
                proxyPort : Nat \cup {Unset, Garbage}, target : PortText]
Pod == [enabled : BOOLEAN, headers : HeadersText, rules : RulesText,
        targetPort : PortText \cup {Unset, Garbage}, injected : BOOLEAN,
        sidecars : Seq(Environment), proxied : [Apps -> Nat]]

----------------------------------------------------------------------------
(* PodCustomDefaulter *)

ShouldInject(pod) == pod.enabled

\* extractHeaders, as the list that is joined into HEADERS_TO_PROPAGATE.
ExtractHeaders(pod) ==
    IF pod.headers = Unset THEN <<>> ELSE ParsedHeaders(pod.headers)

\* extractHeaderRules: the trimmed annotation, empty if it is blank.
ExtractHeaderRules(pod) == IF pod.rules = Blank THEN Unset ELSE pod.rules

\* As IsAlreadyInjected, but trusting the annotation alone.
IsMarkedInjected(pod) == pod.injected

IsAlreadyInjected(pod) == pod.injected \/ pod.sidecars # <<>>

\* As ValidTargetPort, but checking nothing, or letting the proxy's own port through.
AnyTargetPort(port) == TRUE
InRangeTargetPort(port) == port # Garbage /\ ValidPort(port.n)

\* validateTargetPort looks at the number that strconv.Atoi finds in the text.
ValidTargetPort(port) == port # Garbage /\ ValidPort(port.n) /\ port.n # ProxyPort

\* injectSidecar: an invalid target port is replaced by the default, a valid one
\* is written as it stands.
InjectSidecar(pod, headers, rules) ==
    [pod EXCEPT !.sidecars = Append(@,
        [rules |-> rules,
         headers |-> IF headers = <<>> THEN Unset ELSE headers,
         proxyPort |-> ProxyPort,
         target |-> IF pod.targetPort # Unset /\ ValidTargetPort(pod.targetPort)
                    THEN pod.targetPort ELSE DefaultTargetPort])]

\* modifyAppContainers
ModifyAppContainers(pod) == [pod EXCEPT !.proxied = [a \in Apps |-> pod.proxied[a] + 1]]

\* markAsInjected
MarkAsInjected(pod) == [pod EXCEPT !.injected = TRUE]

Default(pod) ==
    LET headers == ExtractHeaders(pod)
        rules == ExtractHeaderRules(pod)
    IN  IF /\ ShouldInject(pod)
           /\ headers # <<>> \/ rules # Unset
           /\ ~ IsAlreadyInjected(pod)
        THEN MarkAsInjected(ModifyAppContainers(InjectSidecar(pod, headers, rules)))
        ELSE pod

----------------------------------------------------------------------------
(* PodCustomValidator *)

\* The webhook's own validateHeaderName, and its use on the parts of a list.
ValidHeaderName(name) == name \in Names
ValidateHeaders(text) ==
    \A i \in DOMAIN text : IsHeader(text[i]) => ValidHeaderName(text[i])

\* validateHeaderRulesJSON, which does not look at the methods.
ValidateHeaderRulesJSON(text) ==
    /\ text # Malformed
    /\ text # <<>>
    /\ \A i \in DOMAIN text :
          /\ ValidHeaderName(text[i].name)
          /\ text[i].generate => KnownGenerator(text[i])
          /\ text[i].pathRegex # BadRegex

\* As HasHeaders, but counting white space.
HasHeadersUntrimmed(pod) == pod.headers # Unset

\* An annotation is set and is not white space only.
HasHeaders(pod) == pod.headers # Unset /\ pod.headers # <<Blank>>
HasHeaderRules(pod) == pod.rules # Unset /\ pod.rules # Blank

\* ValidateCreate returns a warning ...
Warns(pod) == pod.enabled /\ ~ HasHeaders(pod) /\ ~ HasHeaderRules(pod)

\* As Accepts, but with the early return of the simple mode.
AcceptsEither(pod) ==
    (pod.enabled /\ ~ Warns(pod)) =>
        IF HasHeaders(pod) THEN ValidateHeaders(pod.headers)
                           ELSE ValidateHeaderRulesJSON(pod.rules)

\* ... or an error, or nothing.
Accepts(pod) ==
    (pod.enabled /\ ~ Warns(pod)) =>
        /\ HasHeaders(pod) => ValidateHeaders(pod.headers)
        /\ HasHeaderRules(pod) => ValidateHeaderRulesJSON(pod.rules)

============================================================================
