---------------------------- MODULE HeaderRules ----------------------------
(***************************************************************************)
(* The data every part of the sidecar's request path works on: header      *)
(* rules (config.HeaderRule), requests as the sidecar receives them, and   *)
(* the values a header can hold.  Regular expressions are abstracted to    *)
(* the set of paths they match, header names and methods to members of     *)
(* small sets whose spellings are related by the two canonicalisations     *)
(* the code applies: http.CanonicalHeaderKey and strings.ToUpper.          *)
(***************************************************************************)
EXTENDS Naturals, Sequences, FiniteSets

CONSTANTS
    Names,               \* spellings of header names in the configuration
    Headers,             \* canonical header names
    CanonicalHeaderKey,  \* net/http: spelling -> canonical name
    Paths,               \* request paths
    Methods,             \* spellings of HTTP methods
    ToUpper,             \* strings.ToUpper on Methods
    ClientValues,        \* values a client can send in a header
    NoValue,             \* the empty string: what Header.Get returns for an absent header
    Serials              \* what a generator can draw (bounds the runs; any set of naturals)

\* The generators of internal/generator.
GeneratorTypes == {"uuid", "ulid", "timestamp"}

\* What a rule can say of its generator: one of them, nothing, or any text
\* that names none of them, for which "other" stands.
TypeTexts == GeneratorTypes \cup {"", "other"}

\* A generated value: the generator's type, the header whose generator made
\* it, and what the generator drew (random bits, or the instant it read).
Identifier == [gen : GeneratorTypes, key : Headers, n : Serials]

ASSUME ConstantsAssumption ==
    /\ CanonicalHeaderKey \in [Names -> Headers]
    /\ ToUpper \in [Methods -> Methods]
    /\ Serials \subseteq Nat
    /\ IsFiniteSet(Headers)

\* The empty string is neither a value a client sends nor a generated one.
ASSUME ValuesAssumption ==
    /\ NoValue \notin ClientValues
    /\ NoValue \notin Identifier

Value == ClientValues \cup Identifier \cup {NoValue}

\* config.HeaderRule after Load.  paths is the set of paths CompiledPathRegex
\* matches, all of Paths when it is nil; methods is {} when no filter is given.
\* generatorType is checked by the code only in rules that generate.
Rule == [name : Names, generate : BOOLEAN,
         generatorType : TypeTexts, propagate : BOOLEAN,
         paths : SUBSET Paths, methods : SUBSET Methods]

\* A request as the sidecar's listener hands it over.  hop is the set of
\* headers that are hop-by-hop in this request: the fixed ones of RFC 9110
\* and those its Connection header lists.
Message == [path : Paths, method : Methods,
            header : [Headers -> ClientValues \cup {NoValue}],
            hop : SUBSET Headers]

NoHeaders == [h \in Headers |-> NoValue]

Key(rule) == CanonicalHeaderKey[rule.name]

\* HeaderRule.MatchesRequest
MatchesRequest(rule, path, method) ==
    /\ path \in rule.paths
    /\ rule.methods # {} => \E m \in rule.methods : ToUpper[m] = ToUpper[method]

\* Rule i of rs is about header h and applies to message msg.
Applies(rs, msg, h, i) ==
    /\ Key(rs[i]) = h
    /\ MatchesRequest(rs[i], msg.path, msg.method)

\* A rule before position k asks for h to be generated in msg.
GeneratedBefore(rs, msg, h, k) ==
    \E i \in DOMAIN rs : i < k /\ Applies(rs, msg, h, i) /\ rs[i].generate

\* A rule before position k puts h among the propagated headers of msg: it
\* asks for propagation, and the header has a value by then.
CarriedBefore(rs, msg, h, k) ==
    \E i \in DOMAIN rs :
        /\ i < k
        /\ Applies(rs, msg, h, i)
        /\ rs[i].propagate
        /\ msg.header[h] # NoValue \/ GeneratedBefore(rs, msg, h, i + 1)

\* What the rules as a whole ask for.
MustGenerate(rs, msg, h) ==
    msg.header[h] = NoValue /\ GeneratedBefore(rs, msg, h, Len(rs) + 1)
Carried(rs, msg, h) == CarriedBefore(rs, msg, h, Len(rs) + 1)

\* The generator types the rules name for h.
TypesFor(rs, h) ==
    {rs[i].generatorType : i \in {j \in DOMAIN rs : rs[j].generate /\ Key(rs[j]) = h}}

============================================================================
