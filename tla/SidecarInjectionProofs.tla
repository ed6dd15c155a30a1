----------------------- MODULE SidecarInjectionProofs -----------------------
(***************************************************************************)
(* Proofs about SidecarInjection, for any manifests, with rules and lists  *)
(* of headers of any length, and any number of submissions.                *)
(***************************************************************************)
EXTENDS SidecarInjection, FiniteSetTheorems, SequenceTheorems, WellFoundedInduction, TLAPS

\* What Default and the two validations know of a sidecar's environment ...
\* It has the ports that injectSidecar writes.
Ports(env) == env.proxyPort = ProxyPort /\ ValidTargetPort(env.target)

\* Load accepts it, if its methods are HTTP's.
Loads(env) == MethodsValid(env) => LoadOK(env)

\* It says what the annotations of pod p say, and they say something.
Says(env, p) ==
    /\ env.rules # Unset \/ env.headers # Unset
    /\ env.rules = ExtractHeaderRules(p)
    /\ env.headers = IF ExtractHeaders(p) = <<>> THEN Unset ELSE ExtractHeaders(p)

\* main gets to its server with it.
Starts(env) == LoadOK(env) /\ NewProxyHandlerOK(LoadedRules(env), LoadedSettings(env))

\* A manifest, before or after the webhook: the sidecar and the proxy variables
\* of the applications come together.
Whole(p) ==
    /\ Len(p.sidecars) <= 1
    /\ \A a \in Apps : p.proxied[a] = Len(p.sidecars)
    /\ p.sidecars # <<>> => Ports(p.sidecars[1])

\* The draft: what is in it was admitted before.
DraftInv ==
    /\ Whole(draft)
    /\ submissions = 0 => draft.sidecars = <<>>
    /\ step = "draft" /\ draft.sidecars # <<>> => Loads(draft.sidecars[1])

\* The pod: injected now or before, or without a reason to be.
PodInv ==
    pod # NoPod =>
        /\ Whole(pod)
        /\ submissions = 1 /\ pod.sidecars # <<>> => Says(pod.sidecars[1], pod)
        /\ pod.sidecars # <<>> =>
              step = "rejected" \/ Loads(pod.sidecars[1])
                  \/ (step = "mutated" /\ pod.enabled /\ Says(pod.sidecars[1], pod))
        /\ pod.sidecars = <<>> /\ pod.enabled =>
              \/ pod.injected
              \/ ExtractHeaders(pod) = <<>> /\ ExtractHeaderRules(pod) = Unset

\* What each step has found out.
StepInv ==
    /\ step = "draft" <=> pod = NoPod
    /\ step # "draft" => submissions # 0
    /\ step \in {"alone", "running", "crashed", "admitted"} => warned = Warns(pod)
    /\ step = "alone" => pod.sidecars = <<>>
    /\ step \in {"running", "crashed"} => pod.sidecars # <<>>
    /\ step = "crashed" => ~ Starts(pod.sidecars[1])
    /\ step = "running" =>
          /\ LoadOK(pod.sidecars[1])
          /\ config = [rules |-> LoadedRules(pod.sidecars[1]),
                       settings |-> LoadedSettings(pod.sidecars[1])]
    /\ step # "running" => config = NoConfig

InjectionInv == TypeOK /\ DraftInv /\ PodInv /\ StepInv

----------------------------------------------------------------------------
(* The list of headers *)

\* Every set of naturals that has a member has a least one.
LEMMA LeastNatural ==
    ASSUME NEW T \in SUBSET Nat, T # {}
    PROVE  \E x \in T : \A y \in T : x <= y
<1>1. \E x \in T : \A y \in T : ~ (<<y, x>> \in OpToRel(<, Nat))
    BY WFMin, NatLessThanWellFounded
<1>2. \A x, y \in T : (~ (<<y, x>> \in OpToRel(<, Nat))) => x <= y
    BY DEF OpToRel
<1> QED
    BY <1>1, <1>2

\* A sequence that is not empty has a first place.
LEMMA NotEmpty ==
    ASSUME NEW S, NEW t \in Seq(S), t # <<>>
    PROVE  DOMAIN t # {}
<1>1. Len(t) \in Nat /\ Len(t) # 0 /\ DOMAIN t = 1..Len(t)
    BY EmptySeq, LenProperties
<1> QED
    BY <1>1

\* Going on by one place counts the part at that place if it is a header.
LEMMA HeadersUpToStep ==
    ASSUME NEW S, NEW text \in Seq(S), NEW n \in 0..Len(text)
    PROVE  /\ HeadersUpTo(text, n) \in Nat
           /\ n = 0 => HeadersUpTo(text, n) = 0
           /\ n # 0 => HeadersUpTo(text, n) = IF IsHeader(text[n])
                                             THEN HeadersUpTo(text, n - 1) + 1
                                             ELSE HeadersUpTo(text, n - 1)
<1> DEFINE upTo(k) == {i \in DOMAIN text : i <= k /\ IsHeader(text[i])}
<1>1. DOMAIN text = 1..Len(text) /\ Len(text) \in Nat
    OBVIOUS
<1>2. ASSUME NEW k \in 0..Len(text)
      PROVE  IsFiniteSet(upTo(k)) /\ Cardinality(upTo(k)) \in Nat
    <2>1. upTo(k) \subseteq 1..Len(text)
        BY <1>1
    <2>2. IsFiniteSet(1..Len(text))
        BY <1>1, FS_Interval
    <2> HIDE DEF upTo
    <2>3. IsFiniteSet(upTo(k))
        BY <2>1, <2>2, FS_Subset
    <2> QED
        BY <2>3, FS_CardinalityType
<1>3. CASE n = 0
    <2>1. upTo(0) = {}
        BY <1>1
    <2>2. Cardinality(upTo(0)) = 0
        BY <2>1, FS_EmptySet
    <2> QED
        BY <1>3, <2>2 DEF HeadersUpTo
<1>4. CASE n # 0
    <2>1. n - 1 \in 0..Len(text) /\ n \in DOMAIN text
        BY <1>1, <1>4
    <2>2. CASE IsHeader(text[n])
        <3>1. upTo(n) = upTo(n - 1) \cup {n} /\ n \notin upTo(n - 1)
            BY <1>1, <2>1, <2>2
        <3>2. IsFiniteSet(upTo(n - 1))
            BY <1>2, <2>1
        <3> HIDE DEF upTo
        <3>3. Cardinality(upTo(n)) = Cardinality(upTo(n - 1)) + 1
            BY <3>1, <3>2, FS_AddElement
        <3> USE DEF upTo
        <3> QED
            BY <1>2, <1>4, <2>1, <2>2, <3>3 DEF HeadersUpTo
    <2>3. CASE ~ IsHeader(text[n])
        <3>1. upTo(n) = upTo(n - 1)
            BY <1>1, <2>1, <2>3
        <3> QED
            BY <1>2, <1>4, <2>1, <2>3, <3>1 DEF HeadersUpTo
    <2> QED
        BY <2>2, <2>3
<1> QED
    BY <1>3, <1>4

\* A header is preceded by fewer headers than any later part.
LEMMA HeadersUpToGrows ==
    ASSUME NEW S, NEW text \in Seq(S), NEW m \in 0..Len(text), NEW n \in 0..Len(text), m <= n
    PROVE  /\ HeadersUpTo(text, m) <= HeadersUpTo(text, n)
           /\ m < n /\ IsHeader(text[n]) => HeadersUpTo(text, m) < HeadersUpTo(text, n)
<1>1. ASSUME NEW k \in 0..Len(text), m <= k
      PROVE  HeadersUpTo(text, m) <= HeadersUpTo(text, k)
    <2> DEFINE upTo(j) == {i \in DOMAIN text : i <= j /\ IsHeader(text[i])}
    <2>1. upTo(m) \subseteq upTo(k) /\ upTo(k) \subseteq 1..Len(text)
        BY <1>1
    <2>2. IsFiniteSet(upTo(k))
        BY <2>1, FS_Interval, FS_Subset
    <2> QED
        BY <2>1, <2>2, FS_Subset DEF HeadersUpTo
<1>2. ASSUME m < n, IsHeader(text[n])
      PROVE  HeadersUpTo(text, m) < HeadersUpTo(text, n)
    <2>1. n - 1 \in 0..Len(text) /\ m <= n - 1 /\ n # 0
        BY <1>2
    <2>2. HeadersUpTo(text, n) = HeadersUpTo(text, n - 1) + 1
        BY <1>2, <2>1, HeadersUpToStep
    <2>3. HeadersUpTo(text, m) \in Nat /\ HeadersUpTo(text, n - 1) \in Nat
        BY <2>1, HeadersUpToStep
    <2> QED
        BY <1>1, <2>1, <2>2, <2>3
<1> QED
    BY <1>1, <1>2

\* The places of the headers in a text, and that place leads from the members of
\* a list to them, in order and leaving none out.
Places(text) == {i \in DOMAIN text : IsHeader(text[i])}
InOrder(place, list, text) ==
    /\ place \in [DOMAIN list -> Places(text)]
    /\ \A k, l \in DOMAIN list : k < l => place[k] < place[l]
    /\ \A i \in Places(text) : \E k \in DOMAIN list : place[k] = i
    /\ \A k \in DOMAIN list : list[k] = text[place[k]]

\* parseHeaders finds every header of the text, in order, and nothing else.
LEMMA ParsedHeadersAre ==
    ASSUME NEW S, NEW text \in Seq(S)
    PROVE  /\ ParsedHeaders(text) \in Seq(S)
           /\ \A k \in DOMAIN ParsedHeaders(text) :
                 \E i \in DOMAIN text : /\ IsHeader(text[i])
                                       /\ ParsedHeaders(text)[k] = text[i]
           /\ \A i \in DOMAIN text : IsHeader(text[i]) =>
                 \E k \in DOMAIN ParsedHeaders(text) : ParsedHeaders(text)[k] = text[i]
           /\ \E place : InOrder(place, ParsedHeaders(text), text)
<1> DEFINE all == HeadersUpTo(text, Len(text))
           kth(k, i) == IsHeader(text[i]) /\ HeadersUpTo(text, i) = k
<1>1. DOMAIN text = 1..Len(text) /\ Len(text) \in Nat /\ all \in Nat
    BY HeadersUpToStep
<1>2. DOMAIN ParsedHeaders(text) = 1..all
    BY DEF ParsedHeaders
\* For every k there is one: the first place up to which there are k.
<1>3. ASSUME NEW k \in 1..all
      PROVE  \E i \in DOMAIN text : kth(k, i)
    <2> DEFINE enough == {n \in 0..Len(text) : HeadersUpTo(text, n) >= k}
    <2>1. enough \in SUBSET Nat /\ Len(text) \in enough
        BY <1>1
    <2>2. PICK n \in enough : \A m \in enough : n <= m
        BY <2>1, LeastNatural
    <2>3. n # 0 /\ n \in 1..Len(text) /\ n - 1 \in 0..Len(text) /\ n \in 0..Len(text)
        BY <1>1, <2>2, HeadersUpToStep
    <2>4. HeadersUpTo(text, n - 1) \in Nat /\ ~ (HeadersUpTo(text, n - 1) >= k)
        <3>1. n - 1 \notin enough
            BY <2>2, <2>3
        <3> QED
            BY <2>3, <3>1, HeadersUpToStep
    <2>5. HeadersUpTo(text, n) \in Nat /\ HeadersUpTo(text, n) >= k
        BY <2>2, HeadersUpToStep
    <2>6. HeadersUpTo(text, n) = IF IsHeader(text[n]) THEN HeadersUpTo(text, n - 1) + 1
                                                      ELSE HeadersUpTo(text, n - 1)
        BY <2>3, HeadersUpToStep
    <2>7. IsHeader(text[n])
        BY <2>4, <2>5, <2>6
    <2>8. HeadersUpTo(text, n) = k
        BY <2>4, <2>5, <2>6, <2>7
    <2> QED
        BY <1>1, <2>3, <2>7, <2>8
<1>4. ASSUME NEW k \in 1..all
      PROVE  \E i \in DOMAIN text : kth(k, i) /\ ParsedHeaders(text)[k] = text[i]
    <2> DEFINE i == CHOOSE j \in DOMAIN text : kth(k, j)
    <2>1. i \in DOMAIN text /\ kth(k, i)
        BY <1>3
    <2>2. ParsedHeaders(text)[k] = text[i]
        BY DEF ParsedHeaders
    <2> QED
        BY <2>1, <2>2
<1>5. ParsedHeaders(text) \in [1..all -> S]
    <2>1. \A k \in 1..all : ParsedHeaders(text)[k] \in S
        BY <1>4
    <2> QED
        BY <2>1 DEF ParsedHeaders
<1>6. ParsedHeaders(text) \in Seq(S)
    BY <1>1, <1>5
\* A header is the k-th of the text, for the k it is given.
<1>7. ASSUME NEW i \in DOMAIN text, IsHeader(text[i])
      PROVE  \E k \in 1..all : \A j \in DOMAIN text : kth(k, j) => i = j
    <2> DEFINE k == HeadersUpTo(text, i)
    <2>1. i \in 0..Len(text) /\ 0 \in 0..Len(text) /\ Len(text) \in 0..Len(text) /\ 0 < i
             /\ i <= Len(text)
        BY <1>1
    <2>2. HeadersUpTo(text, 0) = 0 /\ HeadersUpTo(text, 0) < k
        BY <1>7, <2>1, HeadersUpToStep, HeadersUpToGrows
    <2>3. k <= all /\ k \in Nat
        BY <2>1, HeadersUpToStep, HeadersUpToGrows
    <2>4. k \in 1..all
        BY <1>1, <2>2, <2>3
    <2>5. ASSUME NEW j \in DOMAIN text, kth(k, j)
          PROVE  i = j
        <3>1. j \in 0..Len(text)
            BY <1>1
        <3>2. ~ (j < i) /\ ~ (i < j)
            BY <1>7, <2>1, <2>3, <2>5, <3>1, HeadersUpToGrows
        <3> QED
            BY <2>1, <3>1, <3>2
    <2> QED
        BY <2>4, <2>5
<1>8. \A i \in DOMAIN text : IsHeader(text[i]) =>
         \E k \in 1..all : ParsedHeaders(text)[k] = text[i]
    BY <1>4, <1>7
<1>9. \E place : InOrder(place, ParsedHeaders(text), text)
    <2> DEFINE place == [k \in 1..all |-> CHOOSE i \in DOMAIN text : kth(k, i)]
    <2>1. ASSUME NEW k \in 1..all
          PROVE  /\ place[k] \in DOMAIN text /\ kth(k, place[k])
                 /\ ParsedHeaders(text)[k] = text[place[k]]
        <3>1. place[k] \in DOMAIN text /\ kth(k, place[k])
            BY <1>3
        <3>2. ParsedHeaders(text)[k] = text[place[k]]
            BY DEF ParsedHeaders
        <3> QED
            BY <3>1, <3>2
    <2>2. DOMAIN place = 1..all
        OBVIOUS
    <2>3. place \in [1..all -> DOMAIN text]
        BY <1>3
    <2> HIDE DEF place
    <2>4. place \in [1..all -> Places(text)]
        BY <2>1, <2>3 DEF Places
    <2>5. ASSUME NEW k \in 1..all, NEW l \in 1..all, k < l
          PROVE  place[k] < place[l]
        <3>1. place[k] \in 0..Len(text) /\ place[l] \in 0..Len(text)
            BY <1>1, <2>1
        <3>2. HeadersUpTo(text, place[k]) = k /\ HeadersUpTo(text, place[l]) = l
            BY <2>1
        <3>3. ~ (place[l] <= place[k])
            BY <1>1, <2>5, <3>1, <3>2, HeadersUpToGrows
        <3> QED
            BY <1>1, <3>1, <3>3
    <2>6. ASSUME NEW i \in Places(text)
          PROVE  \E k \in 1..all : place[k] = i
        <3>1. PICK k \in 1..all : \A j \in DOMAIN text : kth(k, j) => i = j
            BY <1>7 DEF Places
        <3> QED
            BY <2>1, <3>1
    <2>7. \A k \in 1..all : ParsedHeaders(text)[k] = text[place[k]]
        BY <2>1
    <2> QED
        BY <1>2, <2>4, <2>5, <2>6, <2>7 DEF InOrder
<1> QED
    BY <1>2, <1>4, <1>6, <1>8, <1>9

----------------------------------------------------------------------------
(* Default *)

Parts == Names \cup BadNames \cup {Blank}

\* What is left of a list of headers is a list, or nothing.
LEMMA ParsedHeadersType ==
    ASSUME NEW h \in HeaderList
    PROVE  h \in Seq(Parts) /\ ParsedHeaders(h) \in HeaderList \cup {<<>>}
<1>1. h \in Seq(Parts)
    BY DEF HeaderList, Parts
<1>2. ParsedHeaders(h) \in Seq(Parts)
    BY <1>1, ParsedHeadersAre
<1> QED
    BY <1>1, <1>2 DEF HeaderList, Parts

\* A list has no headers exactly if all its parts are blank.
LEMMA NothingParsed ==
    ASSUME NEW h \in HeaderList
    PROVE  ParsedHeaders(h) = <<>> <=> \A i \in DOMAIN h : ~ IsHeader(h[i])
<1>1. h \in Seq(Parts)
    BY ParsedHeadersType
<1>2. ParsedHeaders(h) \in Seq(Parts)
    BY <1>1, ParsedHeadersAre
<1>3. ParsedHeaders(h) = <<>> <=> DOMAIN ParsedHeaders(h) = {}
    BY <1>2
<1>4. DOMAIN ParsedHeaders(h) = {} <=> \A i \in DOMAIN h : ~ IsHeader(h[i])
    BY <1>1, ParsedHeadersAre
<1> QED
    BY <1>3, <1>4

\* A list of blank parts that is not the blank text itself has separators.
LEMMA OnlyBlanks ==
    ASSUME NEW h \in HeaderList, \A i \in DOMAIN h : h[i] = Blank, h # <<Blank>>
    PROVE  Len(h) > 1
<1>1. h \in Seq(Parts) /\ h # <<>>
    BY ParsedHeadersType DEF HeaderList
<1>2. Len(h) \in Nat /\ Len(h) # 0
    BY <1>1, EmptySeq, LenProperties
<1>3. Len(h) # 1
    BY <1>1
<1> QED
    BY <1>2, <1>3

\* What validateTargetPort has found out of a port.
LEMMA ValidPortIs ==
    ASSUME NEW port, ValidTargetPort(port)
    PROVE  port # Garbage /\ port.n # ProxyPort
BY Zenon DEF ValidTargetPort

\* injectSidecar writes an environment with usable ports.
LEMMA InjectedEnvironment ==
    ASSUME NEW p \in Pod, NEW h \in HeaderList \cup {<<>>}, NEW r \in RulesText
    PROVE  LET env == [rules |-> r, headers |-> IF h = <<>> THEN Unset ELSE h,
                       proxyPort |-> ProxyPort,
                       target |-> IF p.targetPort # Unset /\ ValidTargetPort(p.targetPort)
                                  THEN p.targetPort ELSE DefaultTargetPort]
           IN  /\ env \in Environment
               /\ Ports(env)
               /\ env.rules = r
               /\ env.headers = IF h = <<>> THEN Unset ELSE h
<1> DEFINE t == IF p.targetPort # Unset /\ ValidTargetPort(p.targetPort)
                THEN p.targetPort ELSE DefaultTargetPort
           hs == IF h = <<>> THEN Unset ELSE h
<1>1. ValidTargetPort(t) /\ t \in PortText
    <2>1. DefaultTargetPort \in PortText /\ DefaultTargetPort.n = 8080
        BY DEF PortText, DefaultTargetPort
    <2>2. ValidTargetPort(DefaultTargetPort)
        <3>1. DefaultTargetPort # Garbage
            BY <2>1, SentinelAssumption
        <3>2. ValidPort(DefaultTargetPort.n) /\ DefaultTargetPort.n # ProxyPort
            BY <2>1 DEF ValidPort, ProxyPort
        <3> QED
            BY <3>1, <3>2, Zenon DEF ValidTargetPort
    <2>3. p.targetPort \in PortText \cup {Unset, Garbage}
        BY DEF Pod
    <2>4. ASSUME ValidTargetPort(p.targetPort), p.targetPort # Unset
          PROVE  p.targetPort \in PortText
        <3>1. p.targetPort # Garbage
            BY <2>4, ValidPortIs
        <3> QED
            BY <2>3, <2>4, <3>1, Zenon
    <2> QED
        BY <2>1, <2>2, <2>4
<1>2. hs \in HeadersText
    BY DEF HeadersText
<1>3. ProxyPort \in Nat
    BY DEF ProxyPort
<1> HIDE DEF t, hs
<1>4. [rules |-> r, headers |-> hs, proxyPort |-> ProxyPort, target |-> t] \in Environment
    BY <1>1, <1>2, <1>3 DEF Environment
<1> QED
    BY <1>1, <1>4 DEF Ports, t, hs

\* Default gives pod p its one sidecar, which makes it d.
Injects(p, d) ==
    /\ p.enabled /\ p.sidecars = <<>>
    /\ d.sidecars # <<>> /\ Len(d.sidecars) = 1
    /\ Ports(d.sidecars[1]) /\ Says(d.sidecars[1], d)
    /\ \A a \in Apps : d.proxied[a] = p.proxied[a] + 1
    /\ d.enabled

\* Default leaves a pod alone, or gives it one sidecar that says what its
\* annotations say, sends its applications to it and marks the pod.
LEMMA DefaultIs ==
    ASSUME NEW p \in Pod
    PROVE  /\ Default(p) \in Pod
           /\ \/ Injects(p, Default(p))
              \/ /\ Default(p) = p
                 /\ \/ ~ p.enabled \/ IsAlreadyInjected(p)
                    \/ ExtractHeaders(p) = <<>> /\ ExtractHeaderRules(p) = Unset
<1> DEFINE h == ExtractHeaders(p)
           r == ExtractHeaderRules(p)
           env == [rules |-> r, headers |-> IF h = <<>> THEN Unset ELSE h,
                   proxyPort |-> ProxyPort,
                   target |-> IF p.targetPort # Unset /\ ValidTargetPort(p.targetPort)
                              THEN p.targetPort ELSE DefaultTargetPort]
           one == InjectSidecar(p, h, r)
           two == ModifyAppContainers(one)
           d == MarkAsInjected(two)
<1>1. h \in HeaderList \cup {<<>>} /\ r \in RulesText
    <2>1. p.headers \in HeadersText /\ p.rules \in RulesText
        BY DEF Pod
    <2>2. r \in RulesText
        BY <2>1 DEF ExtractHeaderRules, RulesText
    <2>3. h \in HeaderList \cup {<<>>}
        BY <2>1, ParsedHeadersType DEF ExtractHeaders, HeadersText
    <2> QED
        BY <2>2, <2>3
<1> HIDE DEF h, r
<1>2. /\ env \in Environment /\ Ports(env)
      /\ env.rules = r /\ env.headers = IF h = <<>> THEN Unset ELSE h
    BY <1>1, InjectedEnvironment
<1>3. one = [p EXCEPT !.sidecars = Append(p.sidecars, env)]
    BY DEF InjectSidecar
<1> HIDE DEF env, one
<1>4. p.sidecars \in Seq(Environment) /\ p.proxied \in [Apps -> Nat]
    BY DEF Pod
<1>5. CASE p.enabled /\ (h # <<>> \/ r # Unset) /\ ~ IsAlreadyInjected(p)
    <2>1. Default(p) = d
        BY <1>5 DEF Default, ShouldInject, h, r, one
    <2>2. p.sidecars = <<>>
        BY <1>5 DEF IsAlreadyInjected
    <2>3. Append(p.sidecars, env) \in Seq(Environment) /\ Append(p.sidecars, env) = <<env>>
        BY <1>2, <2>2
    <2>4. one \in Pod /\ one.sidecars = <<env>> /\ one.proxied = p.proxied
             /\ one.enabled = p.enabled /\ one.headers = p.headers /\ one.rules = p.rules
        BY <1>3, <2>3 DEF Pod
    <2>5. [a \in Apps |-> one.proxied[a] + 1] \in [Apps -> Nat]
        BY <1>4, <2>4
    <2>6. two \in Pod /\ two.sidecars = <<env>>
             /\ two.proxied = [a \in Apps |-> one.proxied[a] + 1]
             /\ two.enabled = p.enabled /\ two.headers = p.headers /\ two.rules = p.rules
        BY <2>4, <2>5 DEF ModifyAppContainers, Pod
    <2> HIDE DEF two
    <2>7. d \in Pod /\ d.sidecars = <<env>> /\ d.proxied = two.proxied
             /\ d.enabled = p.enabled /\ d.headers = p.headers /\ d.rules = p.rules
        BY <2>6 DEF MarkAsInjected, Pod
    <2> HIDE DEF d
    <2>8. ExtractHeaders(d) = h /\ ExtractHeaderRules(d) = r
        BY <2>7 DEF ExtractHeaders, ExtractHeaderRules, h, r
    <2>9. Says(env, d)
        <3>1. Unset \notin HeaderList
            BY SentinelAssumption
        <3> QED
            BY <1>1, <1>2, <1>5, <2>8, <3>1 DEF Says
    <2>10. \A a \in Apps : d.proxied[a] = p.proxied[a] + 1
        BY <2>4, <2>6, <2>7
    <2> QED
        BY <1>2, <1>5, <2>1, <2>2, <2>7, <2>9, <2>10 DEF Injects
<1>6. CASE ~ (p.enabled /\ (h # <<>> \/ r # Unset) /\ ~ IsAlreadyInjected(p))
    <2>1. Default(p) = p
        BY <1>6 DEF Default, ShouldInject, h, r
    <2> QED
        BY <1>6, <2>1 DEF h, r
<1> QED
    BY <1>5, <1>6

----------------------------------------------------------------------------
(* Load *)

\* With the ports the webhook writes, the settings are valid, the target is not
\* the proxy's own port, and url.Parse takes it if it has no sign.
LEMMA SettingsAre ==
    ASSUME NEW env \in Environment, Ports(env)
    PROVE  /\ DOMAIN LoadedSettings(env) = SettingNames
           /\ Validate(LoadedSettings(env))
           /\ LoadedSettings(env).targetHost # LoadedSettings(env).proxyPort
           /\ ~ env.target.signed => LoadedSettings(env).targetHost # Garbage
<1> DEFINE host == TargetHost(env.target)
           e == [NothingSet EXCEPT !.targetHost = host, !.proxyPort = env.proxyPort,
                                   !.logLevel = "info"]
           s == LoadSettings(e)
<1>1. /\ host # 9090 /\ host # Unset /\ env.proxyPort = 9090
      /\ ~ env.target.signed => host # Garbage
    <2>1. env.target \in PortText
        BY DEF Environment
    <2>2. env.target.n \in Nat /\ env.target.n # 9090
        <3>1. env.target.n \in Nat
            BY <2>1 DEF PortText
        <3>2. env.target.n # ProxyPort
            BY ValidPortIs DEF Ports
        <3> QED
            BY <3>1, <3>2 DEF ProxyPort
    <2>3. 9090 # Garbage /\ Unset # Garbage /\ env.target.n # Unset /\ env.target.n # Garbage
        <3>1. Unset \notin Nat /\ Garbage \notin Nat
            BY SentinelAssumption, Zenon
        <3>2. Unset # Garbage
            BY SentinelAssumption, Zenon
        <3> QED
            BY <2>2, <3>1, <3>2
    <2>4. host = Garbage \/ host = env.target.n
        BY DEF TargetHost
    <2>5. ~ env.target.signed => host = env.target.n
        BY DEF TargetHost
    <2>6. env.proxyPort = 9090
        BY DEF Ports, ProxyPort
    <2> HIDE DEF host
    <2> QED
        BY <2>2, <2>3, <2>4, <2>5, <2>6
<1>2. host # Unset
    BY <1>1
<1> HIDE DEF host
<1>3. /\ e.targetHost = host /\ e.proxyPort = env.proxyPort /\ e.logLevel = "info"
      /\ e.metricsPort = Unset /\ e.readTimeout = Unset /\ e.writeTimeout = Unset
      /\ e.idleTimeout = Unset /\ e.readHeaderTimeout = Unset /\ e.targetDialTimeout = Unset
    BY DEF NothingSet, SettingNames, TimeoutNames
<1> HIDE DEF e
<1>4. DOMAIN s = SettingNames
    BY DEF LoadSettings, SettingNames, TimeoutNames
<1>5. s.targetHost = host /\ s.proxyPort = 9090 /\ s.logLevel = "info" /\ s.metricsPort = 9091
    BY <1>1, <1>2, <1>3 DEF LoadSettings, GetEnv, GetEnvInt, DefaultProxyPort
<1>6. /\ s.readTimeout = 15 /\ s.writeTimeout = 15 /\ s.idleTimeout = 60
      /\ s.readHeaderTimeout = 5 /\ s.targetDialTimeout = 5
    BY <1>3 DEF LoadSettings, GetEnvDuration, DefaultTimeout
<1> HIDE DEF s
<1>7. \A t \in TimeoutNames : s[t] > 0
    BY <1>6 DEF TimeoutNames
<1>8. Validate(s)
    BY <1>2, <1>5, <1>7 DEF Validate, ValidPort
<1>9. s = LoadedSettings(env)
    BY DEF s, e, host, LoadedSettings
<1> QED
    BY <1>1, <1>4, <1>5, <1>8, <1>9

\* What Load accepts are rules whose generators the handler can build.
LEMMA LoadedRulesAre ==
    ASSUME NEW env \in Environment, LoadOK(env)
    PROVE  /\ LoadedRules(env) \in Seq(Rule)
           /\ \A i \in DOMAIN LoadedRules(env) :
                 LoadedRules(env)[i].generate =>
                     LoadedRules(env)[i].generatorType \in GeneratorTypes
<1>1. env.rules \in RulesText /\ env.headers \in HeadersText
    BY DEF Environment
<1>2. CASE env.rules # Unset
    <2>1. env.rules \in Seq(RawRule) /\ LoadedRules(env) = ParsedHeaderRules(env.rules)
        BY <1>1, <1>2 DEF LoadOK, ParseHeaderRulesOK, RulesText, LoadedRules
    <2>2. ASSUME NEW i \in DOMAIN env.rules
          PROVE  LET r == ParsedRule(env.rules[i])
                 IN  r \in Rule /\ (r.generate => r.generatorType \in GeneratorTypes)
        <3> DEFINE raw == env.rules[i]
                   g == IF raw.generate /\ raw.generatorType = "" THEN "uuid"
                        ELSE raw.generatorType
                   ps == IF raw.pathRegex = NoRegex THEN Paths ELSE raw.pathRegex
        <3>1. raw \in RawRule /\ AcceptsRule(raw)
            BY <1>2, <2>1 DEF LoadOK, ParseHeaderRulesOK
        <3> HIDE DEF raw
        <3>2. raw.name \in Names /\ raw.generate \in BOOLEAN /\ raw.generatorType \in TypeTexts
            BY <3>1 DEF RawRule, AcceptsRule, ValidateHeaderName
        <3>3. raw.methods \in SUBSET Methods
            BY <3>1 DEF RawRule, AcceptsRule
        <3>4. ps \in SUBSET Paths
            BY <3>1 DEF RawRule, AcceptsRule
        <3>5. g \in TypeTexts /\ (raw.generate => g \in GeneratorTypes)
            <4>1. CASE raw.generate
                <5>1. raw.generatorType \in GeneratorTypes \cup {""}
                    BY <3>1, <4>1 DEF AcceptsRule, KnownGenerator
                <5>2. "uuid" \in GeneratorTypes /\ "uuid" \in TypeTexts
                    BY DEF GeneratorTypes, TypeTexts
                <5>3. g = IF raw.generatorType = "" THEN "uuid" ELSE raw.generatorType
                    BY <4>1
                <5> HIDE DEF g
                <5> QED
                    BY <3>2, <5>1, <5>2, <5>3
            <4>2. CASE ~ raw.generate
                BY <3>2, <4>2
            <4> QED
                BY <4>1, <4>2
        <3> HIDE DEF g, ps
        <3>6. ParsedRule(raw) = [name |-> raw.name, generate |-> raw.generate,
                                 generatorType |-> g, propagate |-> TRUE, paths |-> ps,
                                 methods |-> raw.methods]
            BY DEF ParsedRule, g, ps
        <3>7. ParsedRule(raw) \in Rule
            BY <3>2, <3>3, <3>4, <3>5, <3>6 DEF Rule
        <3> QED
            BY <3>5, <3>6, <3>7 DEF raw
    <2>3. LoadedRules(env) \in [1..Len(env.rules) -> Rule] /\ Len(env.rules) \in Nat
        BY <2>1, <2>2 DEF ParsedHeaderRules
    <2>4. LoadedRules(env) \in Seq(Rule)
        BY <2>3
    <2> QED
        BY <2>1, <2>2, <2>4 DEF ParsedHeaderRules
<1>3. CASE env.rules = Unset
    <2> DEFINE names == ParsedHeaders(env.headers)
    <2>1. env.headers \in HeaderList /\ LoadedRules(env) = PlainRules(names)
        BY <1>1, <1>3 DEF LoadOK, HeadersText, LoadedRules
    <2>2. env.headers \in Seq(Parts)
        BY <2>1, ParsedHeadersType
    <2>3. names \in Seq(Parts)
        BY <2>2, ParsedHeadersAre
    <2>4. ASSUME NEW k \in DOMAIN names
          PROVE  names[k] \in Names
        <3>1. PICK i \in DOMAIN env.headers :
                 IsHeader(env.headers[i]) /\ names[k] = env.headers[i]
            BY <2>2, ParsedHeadersAre
        <3> QED
            BY <1>3, <3>1 DEF LoadOK, ParseHeadersOK, ValidateHeaderName
    <2> HIDE DEF names
    <2>5. \A k \in DOMAIN names : PlainRule(names[k]) \in Rule /\ ~ PlainRule(names[k]).generate
        <3>1. ASSUME NEW n \in Names
              PROVE  PlainRule(n) \in Rule /\ ~ PlainRule(n).generate
            <4>1. Paths \in SUBSET Paths /\ {} \in SUBSET Methods /\ "" \in TypeTexts
                BY DEF TypeTexts
            <4>2. PlainRule(n) \in Rule
                BY <4>1 DEF PlainRule, Rule
            <4>3. PlainRule(n).generate = FALSE
                BY DEF PlainRule
            <4> QED
                BY <4>2, <4>3
        <3> QED
            BY <2>4, <3>1
    <2>6. LoadedRules(env) \in [1..Len(names) -> Rule] /\ Len(names) \in Nat
        BY <2>1, <2>3, <2>5 DEF PlainRules
    <2>7. LoadedRules(env) \in Seq(Rule)
        BY <2>6
    <2> QED
        BY <2>1, <2>5, <2>7 DEF PlainRules
<1> QED
    BY <1>2, <1>3

\* main exits only if Load fails or the target has a sign.
LEMMA StartsUnlessSigned ==
    ASSUME NEW env \in Environment, Ports(env), LoadOK(env), ~ env.target.signed
    PROVE  Starts(env)
BY LoadedRulesAre, SettingsAre DEF Starts, NewProxyHandlerOK

\* A list that was parsed before is parsed again to the same headers, all of
\* them and in order.
LEMMA ParsedTwice ==
    ASSUME NEW h \in HeaderList, ParsedHeaders(h) # <<>>
    PROVE  /\ ParsedHeaders(ParsedHeaders(h)) # <<>>
           /\ \E place : InOrder(place, ParsedHeaders(ParsedHeaders(h)), h)
<1> DEFINE once == ParsedHeaders(h)
           twice == ParsedHeaders(once)
<1>1. h \in Seq(Parts) /\ once \in HeaderList
    BY ParsedHeadersType
<1>2. once \in Seq(Parts)
    BY <1>1, ParsedHeadersType
<1>3. PICK first : InOrder(first, once, h)
    BY <1>1, ParsedHeadersAre
<1>4. PICK second : InOrder(second, twice, once)
    BY <1>2, ParsedHeadersAre
<1>5. Places(once) = DOMAIN once
    BY <1>3 DEF InOrder, Places
<1>6. twice # <<>>
    <2>1. DOMAIN once # {}
        BY <1>2, NotEmpty
    <2>2. \E i \in DOMAIN once : IsHeader(once[i])
        BY <1>5, <2>1 DEF Places
    <2> QED
        BY <1>1, <2>2, NothingParsed
<1> HIDE DEF once, twice
<1>7. InOrder([k \in DOMAIN twice |-> first[second[k]]], twice, h)
    <2> DEFINE place == [k \in DOMAIN twice |-> first[second[k]]]
    <2>1. /\ first \in [DOMAIN once -> Places(h)]
          /\ second \in [DOMAIN twice -> DOMAIN once]
        BY <1>3, <1>4, <1>5 DEF InOrder
    <2>2. place \in [DOMAIN twice -> Places(h)]
        BY <2>1
    <2>3. \A k, l \in DOMAIN twice : k < l => place[k] < place[l]
        BY <1>3, <1>4, <2>1 DEF InOrder
    <2>4. ASSUME NEW i \in Places(h)
          PROVE  \E k \in DOMAIN twice : place[k] = i
        <3>1. PICK j \in DOMAIN once : first[j] = i
            BY <1>3 DEF InOrder
        <3>2. PICK k \in DOMAIN twice : second[k] = j
            BY <1>4, <1>5 DEF InOrder
        <3> QED
            BY <3>1, <3>2
    <2>5. \A k \in DOMAIN twice : twice[k] = h[place[k]]
        BY <1>3, <1>4, <2>1 DEF InOrder
    <2> HIDE DEF place
    <2>6. InOrder(place, twice, h)
        BY <2>2, <2>3, <2>4, <2>5 DEF InOrder
    <2> QED
        BY <2>6 DEF place
<1> QED
    BY <1>6, <1>7 DEF once, twice

\* The list of headers that an environment without rules repeats.
LEMMA SaidHeaders ==
    ASSUME NEW p \in Pod, NEW env \in Environment, Says(env, p), env.rules = Unset
    PROVE  /\ p.rules \in {Unset, Blank}
           /\ p.headers \in HeaderList
           /\ ParsedHeaders(p.headers) # <<>>
           /\ env.headers = ParsedHeaders(p.headers)
           /\ env.headers \in HeaderList
<1>1. p.rules \in {Unset, Blank}
    BY DEF Says, ExtractHeaderRules
<1>2. ExtractHeaders(p) # <<>> /\ env.headers = ExtractHeaders(p)
    BY DEF Says
<1>3. p.headers # Unset /\ env.headers = ParsedHeaders(p.headers)
    BY <1>2 DEF ExtractHeaders
<1>4. p.headers \in HeaderList
    BY <1>3 DEF Pod, HeadersText
<1>5. ParsedHeaders(p.headers) \in HeaderList
    BY <1>2, <1>3, <1>4, ParsedHeadersType
<1> QED
    BY <1>1, <1>2, <1>3, <1>4, <1>5

\* The rules that an environment repeats.
LEMMA SaidRules ==
    ASSUME NEW p \in Pod, NEW env \in Environment, Says(env, p), env.rules # Unset
    PROVE  /\ p.rules \notin {Unset, Blank}
           /\ env.rules = p.rules
           /\ p.rules \in Seq(RawRule) \cup {Malformed}
<1>1. p.rules \in RulesText
    BY DEF Pod
<1> QED
    BY <1>1 DEF Says, ExtractHeaderRules, RulesText

\* ValidateCreate and Load agree: an accepted pod's sidecar loads, if the
\* methods of its rules are HTTP's.
LEMMA AcceptedLoads ==
    ASSUME NEW p \in Pod, p.enabled, Accepts(p),
           NEW env \in Environment, Ports(env), Says(env, p)
    PROVE  Loads(env)
<1> SUFFICES ASSUME MethodsValid(env) PROVE LoadOK(env)
    BY DEF Loads
<1>1. Validate(LoadedSettings(env))
    BY SettingsAre
<1>2. CASE env.rules # Unset
    <2>1. HasHeaderRules(p) /\ env.rules = p.rules /\ p.rules \in Seq(RawRule) \cup {Malformed}
        BY <1>2, SaidRules DEF HasHeaderRules
    <2>2. ValidateHeaderRulesJSON(p.rules)
        BY <2>1 DEF Accepts, Warns
    <2>3. p.rules \in Seq(RawRule) /\ p.rules # <<>>
        BY <2>1, <2>2 DEF ValidateHeaderRulesJSON
    <2>4. p.rules \notin {Unset, Blank, Malformed}
        BY <2>3, SentinelAssumption
    <2>5. ASSUME NEW i \in DOMAIN p.rules
          PROVE  AcceptsRule(p.rules[i])
        <3>1. p.rules[i].methods \cap BadMethods = {}
            BY <2>1, <2>4 DEF MethodsValid
        <3> QED
            BY <2>2, <3>1 DEF ValidateHeaderRulesJSON, AcceptsRule, ValidHeaderName,
                              ValidateHeaderName
    <2>6. ParseHeaderRulesOK(env.rules)
        BY <2>1, <2>4, <2>5 DEF ParseHeaderRulesOK
    <2>7. LoadedRules(env) # <<>>
        <3>1. DOMAIN p.rules # {}
            BY <2>3, NotEmpty
        <3>2. DOMAIN LoadedRules(env) = DOMAIN p.rules
            BY <1>2, <2>1 DEF LoadedRules, ParsedHeaderRules
        <3> QED
            BY <3>1, <3>2
    <2> QED
        BY <1>1, <1>2, <2>6, <2>7 DEF LoadOK
<1>3. CASE env.rules = Unset
    <2>1. /\ p.headers \in HeaderList /\ ParsedHeaders(p.headers) # <<>>
          /\ env.headers = ParsedHeaders(p.headers) /\ env.headers \in HeaderList
        BY <1>3, SaidHeaders
    <2>2. p.headers \in Seq(Parts) /\ env.headers # Unset
        BY <2>1, ParsedHeadersType, SentinelAssumption
    <2>3. HasHeaders(p)
        <3>1. PICK i \in DOMAIN p.headers : IsHeader(p.headers[i])
            BY <2>1, NothingParsed
        <3>2. p.headers # <<Blank>>
            BY <3>1 DEF IsHeader
        <3> QED
            BY <2>1, <3>2, SentinelAssumption DEF HasHeaders
    <2>4. ValidateHeaders(p.headers)
        BY <2>3 DEF Accepts, Warns
    <2>5. ParseHeadersOK(env.headers)
        <3>1. ASSUME NEW k \in DOMAIN env.headers
              PROVE  env.headers[k] \in Names
            <4>1. PICK i \in DOMAIN p.headers :
                     IsHeader(p.headers[i]) /\ env.headers[k] = p.headers[i]
                BY <2>1, <2>2, ParsedHeadersAre
            <4> QED
                BY <2>4, <4>1 DEF ValidateHeaders, ValidHeaderName
        <3> QED
            BY <3>1 DEF ParseHeadersOK, ValidateHeaderName
    <2>6. LoadedRules(env) # <<>>
        <3> DEFINE names == ParsedHeaders(env.headers)
        <3>1. names # <<>>
            BY <2>1, ParsedTwice
        <3>2. names \in Seq(Parts)
            BY <2>1, ParsedHeadersType, ParsedHeadersAre
        <3>3. DOMAIN names # {}
            BY <3>1, <3>2, NotEmpty
        <3>4. DOMAIN LoadedRules(env) = DOMAIN names
            BY <1>3 DEF LoadedRules, PlainRules
        <3> QED
            BY <3>3, <3>4
    <2> QED
        BY <1>1, <1>3, <2>2, <2>5, <2>6 DEF LoadOK
<1> QED
    BY <1>2, <1>3

\* parseHeaderRules makes of a rule what it asks for.
LEMMA ParsedAsAsked ==
    ASSUME NEW raw \in RawRule
    PROVE  AsAsked(ParsedRule(raw), raw)
<1> DEFINE g == IF raw.generate /\ raw.generatorType = "" THEN "uuid" ELSE raw.generatorType
           ps == IF raw.pathRegex = NoRegex THEN Paths ELSE raw.pathRegex
           rule == ParsedRule(raw)
<1>1. /\ rule.name = raw.name /\ rule.generate = raw.generate /\ rule.generatorType = g
      /\ rule.propagate = TRUE /\ rule.paths = ps /\ rule.methods = raw.methods
    BY DEF ParsedRule
<1> HIDE DEF rule
<1>2. rule.generate =>
         rule.generatorType = IF raw.generatorType = "" THEN "uuid" ELSE raw.generatorType
    BY <1>1
<1>3. ASSUME NEW path \in Paths, NEW method \in Methods
      PROVE  MatchesRequest(rule, path, method) <=>
                 /\ raw.pathRegex # NoRegex => path \in raw.pathRegex
                 /\ raw.methods # {} => \E m \in raw.methods : ToUpper[m] = ToUpper[method]
    <2>1. path \in ps <=> (raw.pathRegex # NoRegex => path \in raw.pathRegex)
        OBVIOUS
    <2> HIDE DEF ps
    <2> QED
        BY <1>1, <2>1, Zenon DEF MatchesRequest
<1>4. rule.propagate
    BY <1>1
<1>5. AsAsked(rule, raw)
    BY <1>1, <1>2, <1>3, <1>4 DEF AsAsked
<1> QED
    BY <1>5 DEF rule

\* A header of the simple list becomes a rule that propagates it in every request.
LEMMA PlainAsAsked ==
    ASSUME NEW name
    PROVE  AsAsked(PlainRule(name), Listed(name))
<1> DEFINE rule == PlainRule(name)
           raw == Listed(name)
<1>1. /\ rule.name = name /\ rule.generate = FALSE /\ rule.propagate = TRUE
      /\ rule.paths = Paths /\ rule.methods = {}
    BY DEF PlainRule
<1>2. /\ raw.name = name /\ raw.generate = FALSE
      /\ raw.pathRegex = NoRegex /\ raw.methods = {}
    BY DEF Listed
<1> HIDE DEF rule, raw
<1>3. \A path \in Paths, method \in Methods : MatchesRequest(rule, path, method)
    BY <1>1 DEF MatchesRequest
<1>4. rule.propagate /\ ~ rule.generate /\ rule.generate = raw.generate /\ rule.name = raw.name
    BY <1>1, <1>2
<1>5. AsAsked(rule, raw)
    BY <1>2, <1>3, <1>4 DEF AsAsked
<1> QED
    BY <1>5 DEF rule, raw

\* A sidecar that says what its pod says applies what the pod asks for: the
\* rules ...
LEMMA LoadedRulesAsAsked ==
    ASSUME NEW p \in Pod, NEW env \in Environment, Says(env, p), LoadOK(env),
           p.rules \notin {Unset, Blank}
    PROVE  /\ DOMAIN LoadedRules(env) = DOMAIN p.rules
           /\ \A i \in DOMAIN p.rules : AsAsked(LoadedRules(env)[i], p.rules[i])
<1>1. env.rules = p.rules /\ env.rules # Unset
    BY DEF Says, ExtractHeaderRules
<1>2. p.rules \in Seq(RawRule)
    BY <1>1 DEF Pod, RulesText, LoadOK, ParseHeaderRulesOK
<1>3. LoadedRules(env) = [i \in DOMAIN p.rules |-> ParsedRule(p.rules[i])]
    BY <1>1 DEF LoadedRules, ParsedHeaderRules
<1>4. \A i \in DOMAIN p.rules : p.rules[i] \in RawRule
    BY <1>2
<1> QED
    BY <1>3, <1>4, ParsedAsAsked

\* ... or the listed headers.
LEMMA LoadedListAsAsked ==
    ASSUME NEW p \in Pod, NEW env \in Environment, Says(env, p), p.rules \in {Unset, Blank}
    PROVE  \E place \in [DOMAIN LoadedRules(env) -> Places(p.headers)] :
              /\ \A k, l \in DOMAIN LoadedRules(env) : k < l => place[k] < place[l]
              /\ \A i \in Places(p.headers) : \E k \in DOMAIN LoadedRules(env) : place[k] = i
              /\ \A k \in DOMAIN LoadedRules(env) :
                    AsAsked(LoadedRules(env)[k], Listed(p.headers[place[k]]))
<1> DEFINE names == ParsedHeaders(env.headers)
<1>1. env.rules = Unset
    <2>1. Unset # Blank
        BY SentinelAssumption
    <2> QED
        BY <2>1 DEF Says, ExtractHeaderRules
<1>2. /\ p.headers \in HeaderList
      /\ ParsedHeaders(p.headers) # <<>> /\ env.headers = ParsedHeaders(p.headers)
    BY <1>1, SaidHeaders
<1>3. PICK place : InOrder(place, names, p.headers)
    BY <1>2, ParsedTwice
<1>4. LoadedRules(env) = [k \in DOMAIN names |-> PlainRule(names[k])]
    BY <1>1 DEF LoadedRules, PlainRules
<1> HIDE DEF names
<1>5. \A k \in DOMAIN names : AsAsked(LoadedRules(env)[k], Listed(p.headers[place[k]]))
    BY <1>3, <1>4, PlainAsAsked DEF InOrder
<1>6. DOMAIN LoadedRules(env) = DOMAIN names
    BY <1>4
<1> QED
    BY <1>3, <1>5, <1>6 DEF InOrder

----------------------------------------------------------------------------
(* The invariant *)

\* The manifests that users write satisfy the invariant.
LEMMA InitInjection == Init => InjectionInv
<1> SUFFICES ASSUME Init PROVE InjectionInv
    OBVIOUS
<1>1. draft \in Manifests /\ step = "draft" /\ pod = NoPod /\ config = NoConfig
         /\ warned = FALSE /\ submissions = 0
    BY DEF Init
<1>2. /\ draft \in Pod /\ draft.sidecars = <<>>
      /\ \A a \in Apps : draft.proxied[a] = 0
    BY <1>1, InjectionAssumption
<1>3. TypeOK
    <2>1. 0 \in 0..MaxSubmissions
        BY InjectionAssumption
    <2> QED
        BY <1>1, <1>2, <2>1 DEF TypeOK
<1>4. DraftInv
    BY <1>1, <1>2 DEF DraftInv, Whole
<1>5. PodInv /\ StepInv
    BY <1>1 DEF PodInv, StepInv
<1> QED
    BY <1>3, <1>4, <1>5 DEF InjectionInv

\* The mutating webhook: the pod it makes is whole, whether it injects or not.
LEMMA MutateKeeps == InjectionInv /\ Mutate => InjectionInv'
<1> SUFFICES ASSUME InjectionInv, Mutate PROVE InjectionInv'
    OBVIOUS
<1> DEFINE d == Default(draft)
<1>1. /\ step = "draft" /\ step' = "mutated" /\ pod' = d /\ submissions < MaxSubmissions
      /\ submissions' = submissions + 1 /\ draft' = draft /\ warned' = warned
      /\ config' = config /\ config = NoConfig
    BY DEF Mutate, InjectionInv, StepInv
<1>2. draft \in Pod /\ submissions \in 0..MaxSubmissions /\ warned \in BOOLEAN
    BY DEF InjectionInv, TypeOK
<1>3. /\ d \in Pod
      /\ \/ Injects(draft, d)
         \/ /\ d = draft
            /\ \/ ~ draft.enabled \/ IsAlreadyInjected(draft)
               \/ ExtractHeaders(draft) = <<>> /\ ExtractHeaderRules(draft) = Unset
    BY <1>2, DefaultIs
<1>4. /\ Whole(draft)
      /\ submissions = 0 => draft.sidecars = <<>>
      /\ draft.sidecars # <<>> => Loads(draft.sidecars[1])
    BY <1>1 DEF InjectionInv, DraftInv
<1> HIDE DEF d
<1>5. Whole(d)
    <2>1. CASE Injects(draft, d)
        <3>1. \A a \in Apps : draft.proxied[a] = 0
            BY <1>4, <2>1 DEF Whole, Injects
        <3>2. \A a \in Apps : d.proxied[a] = Len(d.sidecars)
            BY <2>1, <3>1 DEF Injects
        <3> QED
            BY <2>1, <3>2 DEF Whole, Injects
    <2>2. CASE d = draft
        BY <1>4, <2>2
    <2> QED
        BY <1>3, <2>1, <2>2
<1>6. submissions' \in 0..MaxSubmissions /\ submissions' # 0
    BY <1>1, <1>2, InjectionAssumption
<1>7. submissions' = 1 /\ d.sidecars # <<>> => Says(d.sidecars[1], d)
    BY <1>1, <1>2, <1>3, <1>4 DEF Injects
<1>8. d.sidecars # <<>> =>
         Loads(d.sidecars[1]) \/ (d.enabled /\ Says(d.sidecars[1], d))
    BY <1>3, <1>4 DEF Injects
<1>9. d.sidecars = <<>> /\ d.enabled =>
         d.injected \/ (ExtractHeaders(d) = <<>> /\ ExtractHeaderRules(d) = Unset)
    BY <1>3 DEF Injects, IsAlreadyInjected
<1>10. d # NoPod
    BY <1>3, InjectionAssumption
<1>11. TypeOK'
    BY <1>1, <1>2, <1>3, <1>6 DEF TypeOK
<1>12. DraftInv'
    BY <1>1, <1>4, <1>6 DEF DraftInv
<1>13. PodInv'
    BY <1>1, <1>5, <1>7, <1>8, <1>9 DEF PodInv
<1>14. StepInv'
    BY <1>1, <1>6, <1>10 DEF StepInv
<1> QED
    BY <1>11, <1>12, <1>13, <1>14 DEF InjectionInv

\* The validating webhook: what it admits loads, if its methods are HTTP's.
LEMMA ValidateKeeps == InjectionInv /\ ValidateCreate => InjectionInv'
<1> SUFFICES ASSUME InjectionInv, ValidateCreate PROVE InjectionInv'
    OBVIOUS
<1>1. /\ step = "mutated" /\ warned' = Warns(pod) /\ draft' = draft /\ pod' = pod
      /\ config' = config /\ submissions' = submissions /\ config = NoConfig
      /\ step' = IF Accepts(pod) THEN "admitted" ELSE "rejected"
    BY DEF ValidateCreate, InjectionInv, StepInv
<1>2. pod # NoPod /\ pod \in Pod /\ submissions # 0
    BY <1>1 DEF InjectionInv, StepInv, TypeOK
<1>3. /\ Whole(pod)
      /\ submissions = 1 /\ pod.sidecars # <<>> => Says(pod.sidecars[1], pod)
      /\ pod.sidecars # <<>> =>
            Loads(pod.sidecars[1]) \/ (pod.enabled /\ Says(pod.sidecars[1], pod))
      /\ pod.sidecars = <<>> /\ pod.enabled =>
            \/ pod.injected
            \/ ExtractHeaders(pod) = <<>> /\ ExtractHeaderRules(pod) = Unset
    BY <1>1, <1>2 DEF InjectionInv, PodInv
<1>4. pod.sidecars # <<>> /\ Accepts(pod) => Loads(pod.sidecars[1])
    <2>1. pod.sidecars \in Seq(Environment)
        BY <1>2 DEF Pod
    <2>2. pod.sidecars # <<>> => pod.sidecars[1] \in Environment
        BY <2>1, NotEmpty
    <2>3. pod.sidecars # <<>> => Ports(pod.sidecars[1])
        BY <1>3 DEF Whole
    <2> QED
        BY <1>2, <1>3, <2>2, <2>3, AcceptedLoads
<1>5. step' \in {"admitted", "rejected"} /\ (step' = "admitted" => Accepts(pod))
    BY <1>1
<1>6. Warns(pod) \in BOOLEAN
    <2>1. pod.enabled \in BOOLEAN
        BY <1>2 DEF Pod
    <2> QED
        BY <2>1, Zenon DEF Warns
<1>7. TypeOK'
    BY <1>1, <1>5, <1>6 DEF InjectionInv, TypeOK
<1>8. DraftInv'
    BY <1>1, <1>5 DEF InjectionInv, DraftInv
<1>9. PodInv'
    BY <1>1, <1>3, <1>4, <1>5 DEF PodInv
<1>10. StepInv'
    BY <1>1, <1>2, <1>5 DEF StepInv
<1> QED
    BY <1>7, <1>8, <1>9, <1>10 DEF InjectionInv

\* The sidecar starts: main exits, or runs with what Load made of its
\* environment.
LEMMA StartKeeps == InjectionInv /\ StartSidecar => InjectionInv'
<1> SUFFICES ASSUME InjectionInv, StartSidecar PROVE InjectionInv'
    OBVIOUS
<1> DEFINE env == pod.sidecars[1]
<1>1. /\ step = "admitted" /\ draft' = draft /\ pod' = pod /\ warned' = warned
      /\ submissions' = submissions /\ config = NoConfig
    BY DEF StartSidecar, InjectionInv, StepInv
<1>2. pod # NoPod /\ pod \in Pod /\ warned = Warns(pod) /\ submissions # 0
    BY <1>1 DEF InjectionInv, StepInv, TypeOK
<1>3. pod.sidecars \in Seq(Environment)
    BY <1>2 DEF Pod
<1>4. pod.sidecars # <<>> => env \in Environment /\ Loads(env) /\ Ports(env)
    <2>1. pod.sidecars # <<>> => env \in Environment
        BY <1>3, NotEmpty
    <2> QED
        BY <1>1, <1>2, <2>1 DEF InjectionInv, PodInv, Whole
<1>5. \/ pod.sidecars = <<>> /\ step' = "alone" /\ config' = config
      \/ pod.sidecars # <<>> /\ ~ Starts(env) /\ step' = "crashed" /\ config' = config
      \/ /\ pod.sidecars # <<>> /\ LoadOK(env) /\ step' = "running"
         /\ config' = [rules |-> LoadedRules(env), settings |-> LoadedSettings(env)]
    BY DEF StartSidecar, Starts
<1>6. step' \in {"alone", "crashed", "running"}
    BY <1>5
<1>7. config' # NoConfig => /\ config'.rules \in Seq(Rule)
                            /\ DOMAIN config'.settings = SettingNames
    <2>1. LoadOK(env) /\ env \in Environment /\ Ports(env) =>
             /\ LoadedRules(env) \in Seq(Rule)
             /\ DOMAIN LoadedSettings(env) = SettingNames
        BY LoadedRulesAre, SettingsAre
    <2> HIDE DEF env
    <2> QED
        BY <1>1, <1>4, <1>5, <2>1 DEF env
<1>8. TypeOK'
    BY <1>1, <1>6, <1>7 DEF InjectionInv, TypeOK
<1>9. DraftInv'
    BY <1>1, <1>6 DEF InjectionInv, DraftInv
<1>10. PodInv'
    BY <1>1, <1>4, <1>6 DEF InjectionInv, PodInv
<1>11. StepInv'
    BY <1>1, <1>2, <1>5 DEF StepInv
<1> QED
    BY <1>8, <1>9, <1>10, <1>11 DEF InjectionInv

\* A stored manifest is submitted again: only its annotations and its mark
\* may have changed.
LEMMA ResubmitKeeps == InjectionInv /\ Resubmit => InjectionInv'
<1> SUFFICES ASSUME InjectionInv, Resubmit PROVE InjectionInv'
    OBVIOUS
<1>1. /\ step \in {"alone", "running", "crashed"} /\ step' = "draft" /\ pod' = NoPod
      /\ warned' = FALSE /\ config' = NoConfig /\ submissions' = submissions
    BY DEF Resubmit
<1>2. pod # NoPod /\ pod \in Pod
    BY <1>1 DEF InjectionInv, StepInv, TypeOK
<1>3. Whole(pod) /\ (pod.sidecars # <<>> => Loads(pod.sidecars[1]))
    BY <1>1, <1>2 DEF InjectionInv, PodInv
<1>4. PICK m \in Manifests \cup {pod}, mark \in BOOLEAN :
         draft' = [pod EXCEPT !.enabled = m.enabled, !.headers = m.headers,
                              !.rules = m.rules, !.targetPort = m.targetPort,
                              !.injected = mark]
    BY DEF Resubmit
<1>5. m \in Pod
    BY <1>2, InjectionAssumption
<1>6. /\ m.enabled \in BOOLEAN /\ m.headers \in HeadersText /\ m.rules \in RulesText
      /\ m.targetPort \in PortText \cup {Unset, Garbage}
    BY <1>2, <1>5 DEF Pod
<1>7. draft' \in Pod
    BY <1>2, <1>4, <1>6 DEF Pod
<1>8. draft'.sidecars = pod.sidecars /\ draft'.proxied = pod.proxied
    BY <1>2, <1>4 DEF Pod
<1>9. Whole(draft')
    BY <1>3, <1>8 DEF Whole
<1>10. submissions # 0
    BY <1>1 DEF InjectionInv, StepInv
<1>11. TypeOK'
    BY <1>1, <1>7 DEF InjectionInv, TypeOK
<1>12. DraftInv'
    BY <1>1, <1>3, <1>8, <1>9, <1>10 DEF DraftInv
<1>13. PodInv' /\ StepInv'
    BY <1>1 DEF PodInv, StepInv
<1> QED
    BY <1>11, <1>12, <1>13 DEF InjectionInv

\* The pods, the environments and the steps of the webhooks and the sidecar
\* always fit together.
THEOREM InjectionInvariant == Spec => []InjectionInv
<1>1. InjectionInv /\ [Next]_vars => InjectionInv'
    <2> SUFFICES ASSUME InjectionInv, [Next]_vars PROVE InjectionInv'
        OBVIOUS
    <2>1. CASE UNCHANGED vars
        <3>1. UNCHANGED <<step, draft, pod, warned, config, submissions>>
            BY <2>1 DEF vars
        <3> QED
            BY <3>1 DEF InjectionInv, TypeOK, DraftInv, PodInv, StepInv
    <2>2. CASE Next
        BY <2>2, MutateKeeps, ValidateKeeps, StartKeeps, ResubmitKeeps DEF Next
    <2> QED
        BY <2>1, <2>2
<1> QED
    BY InitInjection, <1>1, PTL DEF Spec

----------------------------------------------------------------------------
(* The properties *)

\* Every variable keeps its type: what Load accepts are rules the handler can
\* work with.
THEOREM InjectionTypeCorrect == Spec => []TypeOK
<1>1. InjectionInv => TypeOK
    BY DEF InjectionInv
<1> QED
    BY InjectionInvariant, <1>1, PTL

\* A pod has at most one sidecar, and its applications are sent to it once,
\* however often and with whatever mark it is submitted.
THEOREM InjectsOnce == Spec => []InjectedOnce
<1>1. InjectionInv => InjectedOnce
    BY DEF InjectionInv, PodInv, Whole, InjectedOnce
<1> QED
    BY InjectionInvariant, <1>1, PTL

\* Only the methods of a rule and the sign of a port can make main reject what
\* the webhooks admit.
THEOREM AdmittedStarts == Spec => []StartsUnlessMethodOrSign
<1>1. InjectionInv => StartsUnlessMethodOrSign
    <2> SUFFICES ASSUME InjectionInv, step = "crashed", MethodsValid(pod.sidecars[1]),
                        ~ pod.sidecars[1].target.signed
                 PROVE  FALSE
        BY DEF StartsUnlessMethodOrSign
    <2>1. pod # NoPod /\ pod \in Pod /\ pod.sidecars # <<>> /\ ~ Starts(pod.sidecars[1])
        BY DEF InjectionInv, StepInv, TypeOK
    <2>2. Loads(pod.sidecars[1]) /\ Ports(pod.sidecars[1])
        BY <2>1 DEF InjectionInv, PodInv, Whole
    <2>3. pod.sidecars[1] \in Environment
        BY <2>1, NotEmpty DEF Pod
    <2> QED
        BY <2>1, <2>2, <2>3, StartsUnlessSigned DEF Loads
<1> QED
    BY InjectionInvariant, <1>1, PTL

\* A running sidecar does not forward to its own port.
THEOREM ForwardsElsewhere == Spec => []NoSelfForward
<1>1. InjectionInv => NoSelfForward
    <2> SUFFICES ASSUME InjectionInv, step = "running"
                 PROVE  config.settings.targetHost # config.settings.proxyPort
        BY DEF NoSelfForward
    <2>1. /\ pod # NoPod /\ pod \in Pod /\ pod.sidecars # <<>>
          /\ config = [rules |-> LoadedRules(pod.sidecars[1]),
                       settings |-> LoadedSettings(pod.sidecars[1])]
        BY DEF InjectionInv, StepInv, TypeOK
    <2>2. pod.sidecars \in Seq(Environment) /\ Ports(pod.sidecars[1])
        BY <2>1 DEF InjectionInv, PodInv, Whole, Pod
    <2>3. pod.sidecars[1] \in Environment
        BY <2>1, <2>2, NotEmpty
    <2>4. config.settings = LoadedSettings(pod.sidecars[1])
        BY <2>1
    <2> QED
        BY <2>2, <2>3, <2>4, SettingsAre
<1> QED
    BY InjectionInvariant, <1>1, PTL

\* A sidecar injected at the first submission applies what its pod asks for:
\* every rule with its generator, paths and methods, or every listed header, in
\* the order of the annotation.
THEOREM RunsAsAsked == Spec => []RunsWhatWasAsked
<1>1. InjectionInv => RunsWhatWasAsked
    <2> SUFFICES ASSUME InjectionInv, step = "running", submissions = 1
                 PROVE  RunsWhatWasAsked
        BY DEF RunsWhatWasAsked
    <2> DEFINE env == pod.sidecars[1]
    <2>1. /\ pod # NoPod /\ pod \in Pod /\ pod.sidecars # <<>> /\ LoadOK(env)
          /\ config = [rules |-> LoadedRules(env), settings |-> LoadedSettings(env)]
        BY DEF InjectionInv, StepInv, TypeOK
    <2>2. pod.sidecars \in Seq(Environment) /\ Says(env, pod)
        BY <2>1 DEF InjectionInv, PodInv, Pod
    <2>3. env \in Environment
        BY <2>1, <2>2, NotEmpty
    <2> HIDE DEF env
    <2>4. config.rules = LoadedRules(env)
        BY <2>1
    <2>5. CASE pod.rules \in {Unset, Blank}
        <3>1. Places(pod.headers) = {i \in DOMAIN pod.headers : pod.headers[i] # Blank}
            BY DEF Places, IsHeader
        <3>2. \E place \in [DOMAIN LoadedRules(env) -> Places(pod.headers)] :
                 /\ \A k, l \in DOMAIN LoadedRules(env) : k < l => place[k] < place[l]
                 /\ \A i \in Places(pod.headers) :
                       \E k \in DOMAIN LoadedRules(env) : place[k] = i
                 /\ \A k \in DOMAIN LoadedRules(env) :
                       AsAsked(LoadedRules(env)[k], Listed(pod.headers[place[k]]))
            BY <2>1, <2>2, <2>3, <2>5, LoadedListAsAsked
        <3> QED
            BY <2>4, <2>5, <3>1, <3>2, Zenon DEF RunsWhatWasAsked
    <2>6. CASE pod.rules \notin {Unset, Blank}
        <3>1. /\ DOMAIN LoadedRules(env) = DOMAIN pod.rules
              /\ \A i \in DOMAIN pod.rules : AsAsked(LoadedRules(env)[i], pod.rules[i])
            BY <2>1, <2>2, <2>3, <2>6, LoadedRulesAsAsked
        <3> QED
            BY <2>4, <2>6, <3>1, Zenon DEF RunsWhatWasAsked
    <2> QED
        BY <2>5, <2>6
<1> QED
    BY InjectionInvariant, <1>1, PTL

\* A pod that asks for the sidecar and gets neither it nor a warning carries the
\* mark or has a headers annotation made of separators.
THEOREM AloneForAReason == Spec => []AloneIsExplained
<1>1. InjectionInv => AloneIsExplained
    <2> SUFFICES ASSUME InjectionInv, step = "alone", pod.enabled, ~ warned, ~ pod.injected
                 PROVE  /\ pod.rules \in {Unset, Blank}
                        /\ pod.headers # Unset
                        /\ Len(pod.headers) > 1
                        /\ \A i \in DOMAIN pod.headers : pod.headers[i] = Blank
        BY DEF AloneIsExplained
    <2>1. pod # NoPod /\ pod \in Pod /\ pod.sidecars = <<>> /\ ~ Warns(pod)
        BY DEF InjectionInv, StepInv, TypeOK
    <2>2. ExtractHeaders(pod) = <<>> /\ ExtractHeaderRules(pod) = Unset
        BY <2>1 DEF InjectionInv, PodInv
    <2>3. pod.rules \in {Unset, Blank}
        BY <2>2 DEF ExtractHeaderRules
    <2>4. pod.headers # Unset /\ pod.headers # <<Blank>>
        BY <2>1, <2>3 DEF Warns, HasHeaders, HasHeaderRules
    <2>5. pod.headers \in HeaderList /\ ParsedHeaders(pod.headers) = <<>>
        BY <2>1, <2>2, <2>4 DEF Pod, HeadersText, ExtractHeaders
    <2>6. \A i \in DOMAIN pod.headers : pod.headers[i] = Blank
        BY <2>5, NothingParsed DEF IsHeader
    <2> QED
        BY <2>3, <2>4, <2>5, <2>6, OnlyBlanks
<1> QED
    BY InjectionInvariant, <1>1, PTL

============================================================================
