--------------------------- MODULE MCProxyHandler ---------------------------
(***************************************************************************)
(* Instances of ProxyHandler for TLC: two headers, one of them spelled in  *)
(* two ways by the configuration, two paths and two methods (one in two    *)
(* spellings), and rule lists in which a rule is filtered, generates,      *)
(* repeats a header, or names another generator for it.                    *)
(***************************************************************************)
EXTENDS ProxyHandler

MCNames == {"x-request-id", "X-Request-Id", "x-tenant"}
MCHeaders == {"X-Request-Id", "X-Tenant"}
MCCanonicalHeaderKey ==
    [n \in MCNames |-> IF n = "x-tenant" THEN "X-Tenant" ELSE "X-Request-Id"]
MCPaths == {"/api", "/web"}
MCMethods == {"GET", "get", "POST"}
MCToUpper == [m \in MCMethods |-> IF m = "get" THEN "GET" ELSE m]
MCSerials == 0..3
MCInstants == {0}
MCCodes == {101, 200, 502}

Plain(n) == [name |-> n, generate |-> FALSE, generatorType |-> "",
             propagate |-> TRUE, paths |-> MCPaths, methods |-> {}]
Generating(n, t) == [Plain(n) EXCEPT !.generate = TRUE, !.generatorType = t]

\* Two headers, each with its generator; the ULID one only for some requests.
Independent ==
    <<[Generating("x-request-id", "ulid") EXCEPT !.methods = {"get"}],
      Generating("x-tenant", "uuid")>>

\* One header named by two rules: the first does not generate it.
Repeated ==
    <<Plain("X-Request-Id"),
      [Generating("x-request-id", "ulid") EXCEPT !.paths = {"/api"}],
      [Plain("x-tenant") EXCEPT !.methods = {"POST"}]>>

\* The same header generated differently on different paths.
Overlapping ==
    <<[Generating("x-request-id", "uuid") EXCEPT !.paths = {"/api"}],
      [Generating("X-Request-Id", "timestamp") EXCEPT !.paths = {"/web"}]>>

\* One ULID header and nothing else: both requests meet at its mutex.
Contended == <<Generating("x-request-id", "ulid"), Plain("x-tenant")>>

MCRuleConfigs == {Independent, Repeated, Overlapping, Contended}
OverlappingOnly == {Overlapping}

\* The client sends the request id or not, and may list it in Connection.
Msg(p, m, h, hop) == [path |-> p, method |-> m, header |-> h, hop |-> hop]
MCInbound ==
    {Msg(p, m, h, hop) :
        p \in MCPaths, m \in {"GET", "POST"},
        h \in {[k \in MCHeaders |-> IF k \in S THEN CHOOSE v \in ClientValues : TRUE ELSE NoValue] :
                  S \in {{}, MCHeaders}},
        hop \in {{}, {"X-Request-Id"}}}
FewInbound ==
    {Msg(p, "GET", NoHeaders, {}) : p \in MCPaths}

============================================================================
