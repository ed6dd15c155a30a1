------------------------ MODULE MCSidecarInjection ------------------------
(***************************************************************************)
(* Instances of SidecarInjection for TLC: every combination of a few       *)
(* values of the two header annotations, right and wrong ones, and every   *)
(* port and mark with some of them.                                        *)
(***************************************************************************)
EXTENDS SidecarInjection, TLC

MCNames == {"x-request-id", "x-tenant"}
MCHeaders == {"X-Request-Id", "X-Tenant"}
MCCanonicalHeaderKey ==
    [n \in MCNames |-> IF n = "x-tenant" THEN "X-Tenant" ELSE "X-Request-Id"]
MCPaths == {"/api", "/web"}
MCMethods == {"GET", "get"}
MCToUpper == [m \in MCMethods |-> "GET"]
MCSerials == {0}

\* Rule texts that differ from a plain one in one or two fields.
Raw == [name |-> "x-request-id", generate |-> FALSE, generatorType |-> "",
        propagate |-> "unset", pathRegex |-> NoRegex, methods |-> {}]
RawRules ==
    {Raw,
     [Raw EXCEPT !.propagate = "false", !.methods = {"get"}],
     [Raw EXCEPT !.generate = TRUE],
     [Raw EXCEPT !.generate = TRUE, !.generatorType = "ulid", !.pathRegex = {"/api"}],
     [Raw EXCEPT !.generatorType = "other"],
     [Raw EXCEPT !.generate = TRUE, !.generatorType = "other"],
     [Raw EXCEPT !.name = "x request id"],
     [Raw EXCEPT !.pathRegex = BadRegex],
     [Raw EXCEPT !.methods = {"GET", "FETCH"}]}
MCRules ==
    {Unset, Blank, Malformed, <<>>} \cup {<<r>> : r \in RawRules}
        \cup {<<[Raw EXCEPT !.name = "x-tenant"], r>> : r \in RawRules}
MCHeadersTexts ==
    {Unset, <<Blank>>, <<Blank, Blank>>, <<"x-tenant", Blank, "x-request-id">>,
     <<"x request id">>}
Port(n) == [n |-> n, signed |-> FALSE]
SignedPort(n) == [n |-> n, signed |-> TRUE]
Manifest(e, h, r, t, i) ==
    [enabled |-> e, headers |-> h, rules |-> r, targetPort |-> t, injected |-> i,
     sidecars |-> <<>>, proxied |-> [a \in Apps |-> 0]]
MCManifests ==
    {Manifest(e, h, r, Unset, FALSE) :
        e \in BOOLEAN, h \in MCHeadersTexts, r \in MCRules}
    \cup
    {Manifest(TRUE, h, r, t, i) :
        h \in MCHeadersTexts,
        r \in {Unset, <<Raw>>, <<[Raw EXCEPT !.methods = {"FETCH"}]>>},
        t \in {Unset, Garbage, Port(3000), SignedPort(3000), Port(9090), SignedPort(9090),
               Port(70000)},
        i \in BOOLEAN}
============================================================================
