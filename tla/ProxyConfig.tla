---------------------------- MODULE ProxyConfig ----------------------------
(***************************************************************************)
(* config.Load: the sidecar's environment, parsed and validated into the   *)
(* rules its handler applies.  The environment is that of an injected      *)
(* sidecar.                                                                *)
(***************************************************************************)
EXTENDS HeaderRules, ProxySettings

CONSTANTS
    BadNames,    \* header names that validateHeaderName rejects
    BadMethods,  \* methods that are none of HTTP's
    NoRegex,     \* no pathRegex
    BadRegex,    \* a pathRegex that does not compile
    Blank,       \* white space only
    Malformed    \* text that is no JSON array of rules

\* A rule as the JSON text has it: any field may be wrong or missing.
RawRule == [name : Names \cup BadNames, generate : BOOLEAN,
            generatorType : TypeTexts,
            propagate : {"unset", "true", "false"},
            pathRegex : (SUBSET Paths) \cup {NoRegex, BadRegex},
            methods : SUBSET (Methods \cup BadMethods)]

\* HEADER_RULES and HEADERS_TO_PROPAGATE.  A list of headers is the sequence
\* of its comma-separated parts, of which strings.Split finds at least one.
RulesText == Seq(RawRule) \cup {Unset, Blank, Malformed}
HeaderList == Seq(Names \cup BadNames \cup {Blank}) \ {<<>>}
HeadersText == HeaderList \cup {Unset}

\* A port as text that strconv.Atoi takes: its number, and whether it has a sign.
PortText == [n : Nat, signed : BOOLEAN]

ASSUME SentinelAssumption ==
    /\ Unset \notin Seq(RawRule)
    /\ Unset \notin HeaderList
    /\ {Unset, Garbage} \cap Nat = {}
    /\ {Unset, Garbage} \cap PortText = {}
    /\ Unset # Garbage
    /\ Blank \notin Names \cup BadNames
    /\ {Blank, Malformed} \cap Seq(RawRule) = {}
    /\ Unset \notin {Blank, Malformed}
    /\ Names \cap BadNames = {}
    /\ Methods \cap BadMethods = {}

\* generator.New on the type a rule ends up with.
KnownGenerator(raw) == raw.generatorType \in GeneratorTypes \cup {""}

\* validateHeaderName, of which the model keeps only the verdict.
ValidateHeaderName(name) == name \in Names

\* parseHeaderRules accepts a rule ...
AcceptsRule(raw) ==
    /\ ValidateHeaderName(raw.name)
    /\ raw.generate => KnownGenerator(raw)
    /\ raw.pathRegex # BadRegex
    /\ raw.methods \cap BadMethods = {}

\* ... and completes it: the generator type defaults to uuid, and Propagate is
\* set to true, also where the text says false.
ParsedRule(raw) ==
    [name |-> raw.name, generate |-> raw.generate,
     generatorType |-> IF raw.generate /\ raw.generatorType = "" THEN "uuid"
                       ELSE raw.generatorType,
     propagate |-> TRUE,
     paths |-> IF raw.pathRegex = NoRegex THEN Paths ELSE raw.pathRegex,
     methods |-> raw.methods]

ParseHeaderRulesOK(text) ==
    /\ text \notin {Blank, Malformed}
    /\ \A i \in DOMAIN text : AcceptsRule(text[i])
ParsedHeaderRules(text) == [i \in DOMAIN text |-> ParsedRule(text[i])]

\* parseHeaders: the parts that are not blank.  The k-th of them is the one
\* that is the k-th header up to its own place.
IsHeader(part) == part # Blank
HeadersUpTo(text, n) == Cardinality({i \in DOMAIN text : i <= n /\ IsHeader(text[i])})
ParsedHeaders(text) ==
    [k \in 1..HeadersUpTo(text, Len(text)) |->
        text[CHOOSE i \in DOMAIN text : IsHeader(text[i]) /\ HeadersUpTo(text, i) = k]]
ParseHeadersOK(text) ==
    \A i \in DOMAIN text : IsHeader(text[i]) => ValidateHeaderName(text[i])

PlainRule(name) ==
    [name |-> name, generate |-> FALSE, generatorType |-> "", propagate |-> TRUE,
     paths |-> Paths, methods |-> {}]
PlainRules(names) == [i \in DOMAIN names |-> PlainRule(names[i])]

\* As LoadedRules, but preferring the simple list.
HeadersFirst(env) ==
    IF env.headers # Unset
    THEN PlainRules(ParsedHeaders(env.headers))
    ELSE ParsedHeaderRules(env.rules)

\* cfg.HeaderRules: HEADER_RULES wins over HEADERS_TO_PROPAGATE.
LoadedRules(env) ==
    IF env.rules # Unset
    THEN ParsedHeaderRules(env.rules)
    ELSE PlainRules(ParsedHeaders(env.headers))

\* The target in TARGET_HOST.  A port with a sign makes it a text in which
\* url.Parse finds no host.
TargetHost(port) == IF port.signed THEN Garbage ELSE port.n

\* The settings of an injected sidecar: the webhook sets the target, the port
\* and the log level, and leaves the rest out.
LoadedSettings(env) ==
    LoadSettings([NothingSet EXCEPT !.targetHost = TargetHost(env.target),
                                    !.proxyPort = env.proxyPort,
                                    !.logLevel = "info"])

\* Load returns no error.
LoadOK(env) ==
    /\ env.rules = Unset => env.headers # Unset
    /\ IF env.rules # Unset THEN ParseHeaderRulesOK(env.rules)
                            ELSE ParseHeadersOK(env.headers)
    /\ LoadedRules(env) # <<>>
    /\ Validate(LoadedSettings(env))

============================================================================
