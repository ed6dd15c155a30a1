------------------------ MODULE ProxyContractProofs ------------------------
(***************************************************************************)
(* ProxyHandler implements PropagationContract: for every rule list, every *)
(* set of requests and every interleaving, the application receives the    *)
(* headers the contract promises.                                          *)
(***************************************************************************)
EXTENDS ProxyHandlerProofs

USE DEF Started, Ended

----------------------------------------------------------------------------
(* The inductive invariant of extractHeaders *)

\* NewProxyHandler has a generator for the rules it has looked at, of a type
\* that one of them names; requests are served once it has looked at all.
GeneratorsBuilt ==
    /\ handler = "serving" => built = Len(rules) + 1
    /\ \A q \in Requests : Started(q) => handler = "serving"
    /\ handler # "failed" =>
          \A h \in Headers :
              /\ (\E i \in 1..Len(rules) : i < built /\ rules[i].generate /\ Key(rules[i]) = h)
                    => generators[h] # "none"
              /\ generators[h] # "none" => generators[h] \in TypesFor(rules, h)

\* Inside ULIDGenerator.Generate a request holds the mutex, still needs the
\* value, and nobody else has touched the random source since it read it.
MutexOf(q) ==
    pc[q] \in {"locked", "drawn"} =>
        /\ MatchesRequest(Current(q), inbound[q].path, inbound[q].method)
        /\ Missing(q)
        /\ generators[Name(q)] = "ulid"
        /\ mu[Name(q)] = q
        /\ pc[q] = "drawn" => drawn[q] = rand[Name(q)]

\* A value that the generators of h may have made so far.
MadeFor(v, h) ==
    /\ v \in Identifier
    /\ v.gen \in TypesFor(rules, h)
    /\ v.gen # "timestamp" => v.n < rand[h]

\* What the rules before next[q] have done to header h of request q.
ExtractedHeader(q, h) ==
    LET m == inbound[q]
    IN  /\ m.header[h] # NoValue => hdr[q][h] = m.header[h]
        /\ (m.header[h] = NoValue /\ GeneratedBefore(rules, m, h, next[q]))
              => MadeFor(hdr[q][h], h)
        /\ (m.header[h] = NoValue /\ ~ GeneratedBefore(rules, m, h, next[q]))
              => hdr[q][h] = NoValue
        /\ headerMap[q][h] = IF CarriedBefore(rules, m, h, next[q])
                             THEN hdr[q][h] ELSE NoValue
ExtractedOf(q) ==
    /\ Started(q) => \A h \in Headers : ExtractedHeader(q, h)
    /\ ~ Started(q) => next[q] = 1 /\ headerMap[q] = NoHeaders

\* The outbound headers before and after RoundTrip.
OutboundOf(q) ==
    /\ pc[q] \in {"roundtrip", "upstream", "copy", "return", "done", "aborted"}
          => next[q] = Len(rules) + 1
    /\ pc[q] = "roundtrip" =>
          out[q] = [h \in Headers |-> IF h \in inbound[q].hop THEN NoValue ELSE hdr[q][h]]
    /\ pc[q] \in {"upstream", "copy", "return", "done", "aborted"} =>
          out[q] = [h \in Headers |->
                      IF h \in inbound[q].hop /\ ~ Carried(rules, inbound[q], h)
                      THEN NoValue ELSE hdr[q][h]]

\* Two requests' generated values differ, timestamps apart.
Unshared ==
    \A p, q \in Requests, h \in Headers :
        (/\ p # q /\ Started(p) /\ Started(q)
         /\ inbound[p].header[h] = NoValue /\ inbound[q].header[h] = NoValue
         /\ hdr[p][h] = hdr[q][h] /\ hdr[p][h] # NoValue)
            => hdr[p][h].gen = "timestamp"

HandlerInv ==
    /\ TypeInv
    /\ GeneratorsBuilt
    /\ \A q \in Requests : MutexOf(q) /\ ExtractedOf(q) /\ OutboundOf(q)
    /\ Unshared

----------------------------------------------------------------------------
(* One more rule *)

\* What the rules up to k ask for follows from the rules before k and rule k.
LEMMA OneMoreRule ==
    ASSUME TypeOK, NEW k \in 1..Len(rules), NEW m, NEW h
    PROVE  /\ GeneratedBefore(rules, m, h, k + 1) <=>
                 \/ GeneratedBefore(rules, m, h, k)
                 \/ Applies(rules, m, h, k) /\ rules[k].generate
           /\ CarriedBefore(rules, m, h, k + 1) <=>
                 \/ CarriedBefore(rules, m, h, k)
                 \/ /\ Applies(rules, m, h, k)
                    /\ rules[k].propagate
                    /\ m.header[h] # NoValue \/ GeneratedBefore(rules, m, h, k + 1)
<1>1. DOMAIN rules = 1..Len(rules) /\ Len(rules) \in Nat
    BY RuleAt
<1>2. \A i \in DOMAIN rules : i < k + 1 <=> i < k \/ i = k
    BY <1>1
<1>3. k \in DOMAIN rules
    BY <1>1
<1>4. GeneratedBefore(rules, m, h, k + 1) <=>
          \/ GeneratedBefore(rules, m, h, k)
          \/ Applies(rules, m, h, k) /\ rules[k].generate
    BY <1>2, <1>3 DEF GeneratedBefore
<1>5. CarriedBefore(rules, m, h, k + 1) <=>
          \/ CarriedBefore(rules, m, h, k)
          \/ /\ Applies(rules, m, h, k)
             /\ rules[k].propagate
             /\ m.header[h] # NoValue \/ GeneratedBefore(rules, m, h, k + 1)
    BY <1>2, <1>3 DEF CarriedBefore
<1> QED
    BY <1>4, <1>5

\* No rule precedes the first one.
LEMMA NoRuleYet ==
    ASSUME TypeOK, NEW m, NEW h
    PROVE  ~ GeneratedBefore(rules, m, h, 1) /\ ~ CarriedBefore(rules, m, h, 1)
<1>1. DOMAIN rules = 1..Len(rules) /\ Len(rules) \in Nat
    BY LenType
<1> QED
    BY <1>1 DEF GeneratedBefore, CarriedBefore

\* A header that is carried has a value.
LEMMA CarriedHasValue ==
    ASSUME TypeOK, NEW m, NEW h, NEW k \in 1..(Len(rules) + 1),
           CarriedBefore(rules, m, h, k), m.header[h] = NoValue
    PROVE  GeneratedBefore(rules, m, h, k)
<1>1. DOMAIN rules = 1..Len(rules) /\ Len(rules) \in Nat
    BY LenType
<1> QED
    BY <1>1 DEF GeneratedBefore, CarriedBefore

\* The generators only move on.
RandGrows == rand' \in [Headers -> Nat] /\ \A h \in Headers : rand[h] <= rand'[h]

\* A value made so far stays one: the random sources only move on.
LEMMA MadeStays ==
    ASSUME TypeOK, rules' = rules, RandGrows, NEW w, NEW h \in Headers, MadeFor(w, h)
    PROVE  MadeFor(w, h)'
<1>1. w.n \in Nat
    BY ConstantsAssumption DEF MadeFor, Identifier
<1> QED
    BY <1>1 DEF MadeFor, RandGrows, TypeOK

\* An iteration of extractHeaders for a rule that applies: the header keeps
\* its value, or a missing one gets a value its generator made.
LEMMA Iteration ==
    ASSUME HandlerInv, NEW q \in Requests, Started(q), next[q] <= Len(rules),
           MatchesRequest(Current(q), inbound[q].path, inbound[q].method),
           NEW n, n = Name(q), NEW v \in Value,
           hdr' = [hdr EXCEPT ![q][n] = v], Propagate(q, v),
           UNCHANGED <<rules, inbound>>, RandGrows,
           \/ ~ Missing(q) /\ v = hdr[q][n]
           \/ Missing(q) /\ MadeFor(v, n)'
    PROVE  \A h \in Headers : ExtractedHeader(q, h)'
<1> DEFINE k == next[q]
           m == inbound[q]
<1>1. TypeOK /\ rules \in Seq(Rule) /\ Len(rules) \in Nat
    BY LenType DEF HandlerInv, TypeInv, TypeOK
<1>2. k \in 1..Len(rules) /\ n \in Headers /\ DOMAIN rules = 1..Len(rules)
    BY <1>1, RuleAt DEF TypeOK, Name, Current
<1>3. next'[q] = k + 1 /\ inbound'[q] = m /\ rules' = rules
    BY <1>1 DEF Propagate, TypeOK
<1>4. \A h \in Headers : hdr'[q][h] = IF h = n THEN v ELSE hdr[q][h]
    BY <1>1, <1>2 DEF TypeOK
<1>5. \A h \in Headers : headerMap'[q][h] =
          IF h = n /\ v # NoValue /\ rules[k].propagate THEN v ELSE headerMap[q][h]
    BY <1>1, <1>2 DEF TypeOK, Propagate, Current
<1>6. \A h \in Headers : Applies(rules, m, h, k) <=> h = n
    BY DEF Applies, Name, Current
<1>7. rules[k].generate => generators[n] # "none"
    BY <1>1, <1>2 DEF HandlerInv, GeneratorsBuilt, Name, Current
<1>8. \A h \in Headers : ExtractedHeader(q, h)
    BY DEF HandlerInv, ExtractedOf
<1>9. Missing(q) <=> hdr[q][n] = NoValue /\ rules[k].generate
    BY <1>7 DEF Missing, Current
<1>10. ASSUME NEW h \in Headers, h # n PROVE ExtractedHeader(q, h)'
  <2>1. /\ GeneratedBefore(rules, m, h, k + 1) <=> GeneratedBefore(rules, m, h, k)
        /\ CarriedBefore(rules, m, h, k + 1) <=> CarriedBefore(rules, m, h, k)
    BY <1>1, <1>2, <1>6, <1>10, OneMoreRule
  <2>2. hdr'[q][h] = hdr[q][h] /\ headerMap'[q][h] = headerMap[q][h]
    BY <1>4, <1>5, <1>10
  <2>3. \A w : MadeFor(w, h) => MadeFor(w, h)'
    BY <1>1, MadeStays
  <2> QED
    BY <1>3, <1>8, <2>1, <2>2, <2>3 DEF ExtractedHeader
<1>11. ExtractedHeader(q, n)'
  <2>1. /\ GeneratedBefore(rules, m, n, k + 1) <=>
             GeneratedBefore(rules, m, n, k) \/ rules[k].generate
        /\ CarriedBefore(rules, m, n, k + 1) <=>
             \/ CarriedBefore(rules, m, n, k)
             \/ /\ rules[k].propagate
                /\ m.header[n] # NoValue \/ GeneratedBefore(rules, m, n, k + 1)
    BY <1>1, <1>2, <1>6, OneMoreRule
  <2>2. CarriedBefore(rules, m, n, k) /\ m.header[n] = NoValue
          => GeneratedBefore(rules, m, n, k)
    BY <1>1, <1>2, CarriedHasValue
  <2>3. \A w : MadeFor(w, n) => MadeFor(w, n)'
    BY <1>1, <1>2, MadeStays
  <2>4. \A w : MadeFor(w, n) \/ MadeFor(w, n)' => w # NoValue
    BY ValuesAssumption DEF MadeFor
  <2>5. ExtractedHeader(q, n)
    BY <1>2, <1>8
  <2>6. hdr'[q][n] = v
    BY <1>2, <1>4
  <2>7. headerMap'[q][n] = IF v # NoValue /\ rules[k].propagate THEN v ELSE headerMap[q][n]
    BY <1>2, <1>5
  <2>8. CASE Missing(q) /\ MadeFor(v, n)'
    <3>1. m.header[n] = NoValue /\ ~ GeneratedBefore(rules, m, n, k)
      BY <1>9, <2>4, <2>5, <2>8 DEF ExtractedHeader
    <3>2. v # NoValue /\ rules[k].generate
      BY <1>9, <2>4, <2>8
    <3> QED
      BY <1>3, <2>1, <2>2, <2>5, <2>6, <2>7, <2>8, <3>1, <3>2 DEF ExtractedHeader
  <2>9. CASE ~ Missing(q) /\ v = hdr[q][n]
    <3>1. hdr[q][n] # NoValue \/ ~ rules[k].generate
      BY <1>9, <2>9
    <3>2. hdr[q][n] # NoValue <=> m.header[n] # NoValue \/ GeneratedBefore(rules, m, n, k)
      BY <2>4, <2>5 DEF ExtractedHeader
    <3> QED
      BY <1>3, <2>1, <2>2, <2>3, <2>5, <2>6, <2>7, <2>9, <3>1, <3>2 DEF ExtractedHeader
  <2> QED
    BY <2>8, <2>9
<1> QED
    BY <1>10, <1>11

----------------------------------------------------------------------------
(* What a step that leaves a request alone preserves *)

\* What extractHeaders has done for a request that takes no step stays as it is.
LEMMA KeepExtracted ==
    ASSUME HandlerInv, NEW p \in Requests, rules' = rules, RandGrows,
           inbound'[p] = inbound[p], hdr'[p] = hdr[p], next'[p] = next[p],
           headerMap'[p] = headerMap[p], Started(p)' <=> Started(p)
    PROVE  ExtractedOf(p)'
<1>1. TypeOK /\ ExtractedOf(p)
    BY DEF HandlerInv, TypeInv
<1>2. \A w : \A h \in Headers : MadeFor(w, h) => MadeFor(w, h)'
    BY <1>1, MadeStays
<1> QED
    BY <1>1, <1>2 DEF ExtractedOf, ExtractedHeader

\* So do its outbound headers ...
LEMMA KeepOutbound ==
    ASSUME HandlerInv, NEW p \in Requests, rules' = rules, pc'[p] = pc[p],
           inbound'[p] = inbound[p], hdr'[p] = hdr[p], next'[p] = next[p], out'[p] = out[p]
    PROVE  OutboundOf(p)'
<1>1. OutboundOf(p)
    BY DEF HandlerInv
<1> QED
    BY <1>1 DEF OutboundOf

\* ... and its hold on a generator, if nobody touches that generator.
LEMMA KeepMutex ==
    ASSUME HandlerInv, NEW p \in Requests, UNCHANGED <<rules, generators>>,
           pc'[p] = pc[p], inbound'[p] = inbound[p], hdr'[p] = hdr[p],
           next'[p] = next[p], drawn'[p] = drawn[p],
           pc[p] \in {"locked", "drawn"} => mu'[Name(p)] = p /\ rand'[Name(p)] = rand[Name(p)]
    PROVE  MutexOf(p)'
<1>1. MutexOf(p)
    BY DEF HandlerInv
<1>2. Current(p)' = Current(p) /\ Name(p)' = Name(p)
    BY DEF Current, Name
<1>3. Missing(p)' <=> Missing(p)
    BY <1>2 DEF Missing
<1> QED
    BY <1>1, <1>2, <1>3 DEF MutexOf

\* After NewProxyHandler the generators stay as they were built.
LEMMA KeepGenerators ==
    ASSUME HandlerInv, UNCHANGED startup,
           \A p \in Requests : Started(p)' => Started(p) \/ handler = "serving"
    PROVE  GeneratorsBuilt'
<1>1. GeneratorsBuilt
    BY DEF HandlerInv
<1> QED
    BY <1>1 DEF GeneratorsBuilt, startup

\* Identifiers stay unshared as long as no header changes.
LEMMA KeepUnshared ==
    ASSUME HandlerInv, UNCHANGED <<inbound, hdr>>,
           \A p \in Requests : Started(p)' <=> Started(p)
    PROVE  Unshared'
BY DEF HandlerInv, Unshared

\* A value that the generator of a header makes now is new.
LEMMA MadeIsNew ==
    ASSUME HandlerInv, NEW p \in Requests, Started(p), NEW h \in Headers,
           inbound[p].header[h] = NoValue, hdr[p][h] # NoValue,
           hdr[p][h].gen # "timestamp"
    PROVE  hdr[p][h].n < rand[h] /\ hdr[p][h].n \in Nat
<1>1. ExtractedHeader(p, h)
    BY DEF HandlerInv, ExtractedOf
<1>2. MadeFor(hdr[p][h], h)
    BY <1>1 DEF ExtractedHeader
<1> QED
    BY <1>2, ConstantsAssumption DEF MadeFor, Identifier

\* The end of an iteration that generated a value preserves the invariant.
\* The value comes from the header's source, as it is now, or is a timestamp.
LEMMA Generated ==
    ASSUME HandlerInv, TypeInv', NEW q \in Requests, pc[q] \in {"extract", "drawn"},
           next[q] <= Len(rules),
           MatchesRequest(Current(q), inbound[q].path, inbound[q].method), Missing(q),
           NEW n, n = Name(q), NEW v \in Identifier, v.gen = generators[n],
           hdr' = [hdr EXCEPT ![q][n] = v], Propagate(q, v), pc' = [pc EXCEPT ![q] = "extract"],
           UNCHANGED <<startup, inbound, drawn, out>>,
           \/ v.gen = "timestamp" /\ UNCHANGED rand
           \/ v.gen # "timestamp" /\ v.n = rand[n] /\ rand' = [rand EXCEPT ![n] = v.n + 1],
           \/ UNCHANGED mu
           \/ mu[n] = q /\ mu' = [mu EXCEPT ![n] = Nobody],
           generators[n] = "ulid" => pc[q] = "drawn"
    PROVE  HandlerInv'
<1>1. TypeOK /\ TypeInv /\ rules \in Seq(Rule) /\ Len(rules) \in Nat /\ rules' = rules
    BY LenType DEF HandlerInv, TypeInv, startup
<1>2. n \in Headers /\ next[q] \in 1..Len(rules)
    BY <1>1, RuleAt DEF TypeOK, Name, Current
<1>3. RandGrows
  <2>1. rand \in [Headers -> Nat] /\ rand' \in [Headers -> Nat]
    BY <1>1 DEF TypeInv, TypeOK
  <2>a. rand' = rand \/ rand' = [rand EXCEPT ![n] = rand[n] + 1]
    OBVIOUS
  <2>2. \A h \in Headers : rand[h] <= rand'[h]
    BY ONLY <1>2, <2>1, <2>a
  <2> QED
    BY <2>1, <2>2 DEF RandGrows
<1>4. v \in Value /\ v # NoValue
    BY ValuesAssumption DEF Value
<1>5. generators[n] \in TypesFor(rules, n) /\ handler = "serving"
    BY <1>2 DEF HandlerInv, GeneratorsBuilt, Missing
<1>6. MadeFor(v, n)'
    BY <1>1, <1>2, <1>5 DEF MadeFor, TypeOK
<1>7. \A p \in Requests : Started(p)' <=> Started(p)
    BY <1>1 DEF TypeOK
<1>8. \A h \in Headers : ExtractedHeader(q, h)'
    BY <1>3, <1>4, <1>6, Iteration DEF startup
<1>9. ExtractedOf(q)'
    BY <1>7, <1>8 DEF ExtractedOf
<1>10. pc'[q] = "extract"
    BY <1>1 DEF TypeOK
<1>11. MutexOf(q)' /\ OutboundOf(q)'
    BY <1>10 DEF MutexOf, OutboundOf
<1>12. ASSUME NEW p \in Requests, p # q PROVE MutexOf(p)' /\ ExtractedOf(p)' /\ OutboundOf(p)'
  <2>1. /\ pc'[p] = pc[p] /\ hdr'[p] = hdr[p] /\ next'[p] = next[p]
        /\ headerMap'[p] = headerMap[p] /\ inbound'[p] = inbound[p] /\ out'[p] = out[p]
    BY <1>1, <1>12 DEF TypeOK, Propagate
  <2>2. ASSUME pc[p] \in {"locked", "drawn"}
        PROVE  mu'[Name(p)] = p /\ rand'[Name(p)] = rand[Name(p)]
    <3>1. generators[Name(p)] = "ulid" /\ mu[Name(p)] = p
      BY <2>2 DEF HandlerInv, MutexOf
    <3>a. next[p] \in 1..Len(rules)
      BY <1>1, <2>2 DEF TypeInv, Arrived, TypeOK
    <3>2. Name(p) \in Headers
      BY <1>1, <3>a, RuleAt DEF Name, Current
    <3>3. Name(p) # n
      <4>1. CASE generators[n] # "ulid"
        BY <3>1, <4>1
      <4>2. CASE generators[n] = "ulid"
        <5>1. mu[n] = q
          BY <4>2 DEF HandlerInv, MutexOf
        <5> QED
          BY <3>1, <5>1, <1>12
      <4> QED
        BY <4>1, <4>2
    <3> QED
      BY <1>1, <3>1, <3>2, <3>3 DEF TypeOK
  <2>3. MutexOf(p)'
    BY <2>1, <2>2, KeepMutex DEF startup
  <2>4. ExtractedOf(p)'
    BY <1>1, <1>3, <1>7, <2>1, KeepExtracted
  <2>5. OutboundOf(p)'
    BY <1>1, <2>1, KeepOutbound
  <2> QED
    BY <2>3, <2>4, <2>5
<1>13. GeneratorsBuilt'
    BY <1>7, KeepGenerators
<1>14. ASSUME NEW p \in Requests, p # q, Started(p),
              inbound[p].header[n] = NoValue, hdr[p][n] = v
       PROVE  v.gen = "timestamp"
    BY <1>1, <1>2, <1>4, <1>14, MadeIsNew DEF TypeOK
<1>15. \A p \in Requests, h \in Headers :
          hdr'[p][h] = IF p = q /\ h = n THEN v ELSE hdr[p][h]
    BY <1>1, <1>2 DEF TypeOK
<1>16. Unshared'
    BY <1>7, <1>14, <1>15 DEF HandlerInv, Unshared
<1> QED
    BY <1>9, <1>11, <1>12, <1>13, <1>16 DEF HandlerInv

----------------------------------------------------------------------------
(* The invariant holds *)

\* The invariant holds before NewProxyHandler has looked at a rule.
LEMMA InitHandlerInv == Init => HandlerInv
<1> SUFFICES ASSUME Init PROVE HandlerInv
    OBVIOUS
<1>1. TypeInv /\ TypeOK /\ Len(rules) \in Nat
    BY InitTypeInv, LenType DEF TypeInv
<1>2. GeneratorsBuilt
    BY <1>1 DEF Init, GeneratorsBuilt
<1>3. \A q \in Requests : MutexOf(q) /\ ExtractedOf(q) /\ OutboundOf(q)
    BY DEF Init, MutexOf, ExtractedOf, OutboundOf
<1>4. Unshared
    BY DEF Init, Unshared
<1> QED
    BY <1>1, <1>2, <1>3, <1>4 DEF HandlerInv

\* A step of request q that changes neither rules nor headers.
LEMMA QuietStep ==
    ASSUME HandlerInv, TypeInv', NEW q \in Requests,
           UNCHANGED <<startup, rand, inbound, hdr, next, headerMap>>,
           pc[q] # "idle", pc'[q] # "idle",
           \A p \in Requests \ {q} : /\ pc'[p] = pc[p]
                                     /\ out'[p] = out[p]
                                     /\ drawn'[p] = drawn[p]
                                     /\ mu[Name(p)] = p => mu'[Name(p)] = p,
           MutexOf(q)', OutboundOf(q)'
    PROVE  HandlerInv'
<1>1. \A p \in Requests : Started(p)' <=> Started(p)
    OBVIOUS
<1>2. RandGrows /\ rules' = rules
    BY DEF RandGrows, HandlerInv, TypeInv, TypeOK, startup
<1>3. \A p \in Requests : ExtractedOf(p)'
    BY <1>1, <1>2, KeepExtracted
<1>4. \A p \in Requests : OutboundOf(p)'
    BY <1>2, KeepOutbound
<1>5. ASSUME NEW p \in Requests, p # q PROVE MutexOf(p)'
  <2>1. pc[p] \in {"locked", "drawn"} => mu[Name(p)] = p
    BY DEF HandlerInv, MutexOf
  <2> QED
    BY <1>5, <2>1, KeepMutex DEF startup
<1>6. GeneratorsBuilt' /\ Unshared'
    BY <1>1, KeepGenerators, KeepUnshared
<1> QED
    BY <1>3, <1>4, <1>5, <1>6 DEF HandlerInv

\* Every step of NewProxyHandler and of every request preserves the invariant.
LEMMA StepHandlerInv == HandlerInv /\ [Next]_vars => HandlerInv'
<1> SUFFICES ASSUME HandlerInv, [Next]_vars PROVE HandlerInv'
    OBVIOUS
<1>t. TypeInv /\ TypeOK /\ TypeInv' /\ TypeOK' /\ rules \in Seq(Rule) /\ Len(rules) \in Nat
    BY StepTypeInv, LenType DEF HandlerInv, TypeInv
<1>g. GeneratorsBuilt
    BY DEF HandlerInv
<1>r. UNCHANGED rand => RandGrows
    BY <1>t DEF RandGrows, TypeOK
<1>1. ASSUME InitGenerator \/ NewProxyHandler PROVE HandlerInv'
  <2>1. UNCHANGED <<rules, ulid, pc, inbound, extraction, out>> /\ handler = "new"
    BY <1>1 DEF InitGenerator, NewProxyHandler
  <2>2. \A p \in Requests : pc[p] = "idle"
    BY <1>g, <2>1 DEF GeneratorsBuilt
  <2>3. \A p \in Requests : MutexOf(p)' /\ OutboundOf(p)'
    BY <2>1, <2>2 DEF MutexOf, OutboundOf
  <2>4. \A p \in Requests : ExtractedOf(p)'
    BY <1>r, <2>1, KeepExtracted DEF ulid, extraction
  <2>5. Unshared'
    BY <2>1, KeepUnshared DEF extraction
  <2>6. GeneratorsBuilt'
    <3>1. CASE NewProxyHandler
      <4>1. built = Len(rules) + 1
        BY <1>t, <3>1 DEF NewProxyHandler, TypeOK
      <4> QED
        BY <1>g, <2>1, <2>2, <3>1, <4>1 DEF NewProxyHandler, GeneratorsBuilt
    <3>2. CASE InitGenerator
      <4> DEFINE rule == rules[built]
      <4>1. built \in 1..Len(rules) /\ Key(rule) \in Headers /\ DOMAIN rules = 1..Len(rules)
        BY <1>t, <3>2, RuleAt DEF InitGenerator, TypeOK
      <4>2. built' = built + 1 /\ handler' # "serving"
        BY <3>2 DEF InitGenerator
      <4>3. ASSUME handler' # "failed", NEW h \in Headers
            PROVE  generators'[h] = IF rule.generate /\ h = Key(rule)
                                    THEN rule.generatorType ELSE generators[h]
        BY <1>t, <3>2, <4>1, <4>3 DEF InitGenerator, TypeOK
      <4>4. handler' # "failed" /\ rule.generate => rule.generatorType # "none"
        BY <3>2 DEF InitGenerator, GeneratorTypes
      <4>5. rule.generate => rule.generatorType \in TypesFor(rules, Key(rule))
        BY <4>1 DEF TypesFor
      <4>6. \A i \in 1..Len(rules) : i < built + 1 <=> i < built \/ i = built
        BY <1>t, <4>1
      <4>7. ASSUME handler' # "failed", NEW h \in Headers
            PROVE  /\ (\E i \in 1..Len(rules) :
                          i < built + 1 /\ rules[i].generate /\ Key(rules[i]) = h)
                        => generators'[h] # "none"
                   /\ generators'[h] # "none" => generators'[h] \in TypesFor(rules, h)
        BY <1>g, <2>1, <4>3, <4>4, <4>5, <4>6, <4>7 DEF GeneratorsBuilt
      <4> QED
        BY <2>1, <2>2, <4>2, <4>7 DEF GeneratorsBuilt
    <3> QED
      BY <1>1, <3>1, <3>2
  <2> QED
    BY <1>t, <2>3, <2>4, <2>5, <2>6 DEF HandlerInv
<1>2. ASSUME NEW q \in Requests, Arrive(q) PROVE HandlerInv'
  <2>1. PICK m \in Inbound : /\ inbound' = [inbound EXCEPT ![q] = m]
                             /\ hdr' = [hdr EXCEPT ![q] = m.header]
    BY <1>2 DEF Arrive
  <2>2. /\ inbound'[q] = m /\ hdr'[q] = m.header /\ pc'[q] = "extract" /\ pc[q] = "idle"
        /\ rules' = rules /\ next' = next /\ headerMap' = headerMap /\ UNCHANGED ulid
        /\ handler = "serving" /\ UNCHANGED startup /\ out' = out
    BY <1>2, <1>t, <2>1 DEF Arrive, TypeOK, startup
  <2>3. next[q] = 1 /\ headerMap[q] = NoHeaders
    BY <2>2 DEF HandlerInv, ExtractedOf
  <2>4. \A h \in Headers : ExtractedHeader(q, h)'
    BY <1>t, <2>2, <2>3, NoRuleYet DEF ExtractedHeader, NoHeaders
  <2>5. ExtractedOf(q)' /\ MutexOf(q)' /\ OutboundOf(q)'
    BY <2>2, <2>4 DEF ExtractedOf, MutexOf, OutboundOf
  <2>6. ASSUME NEW p \in Requests, p # q
        PROVE  /\ pc'[p] = pc[p] /\ inbound'[p] = inbound[p] /\ hdr'[p] = hdr[p]
               /\ ExtractedOf(p)' /\ MutexOf(p)' /\ OutboundOf(p)'
    <3>1. pc'[p] = pc[p] /\ inbound'[p] = inbound[p] /\ hdr'[p] = hdr[p]
      BY <1>2, <1>t, <2>1, <2>6 DEF Arrive, TypeOK
    <3>2. ExtractedOf(p)' /\ OutboundOf(p)'
      BY <1>r, <2>2, <3>1, KeepExtracted, KeepOutbound DEF ulid
    <3>3. MutexOf(p)'
      <4>1. pc[p] \in {"locked", "drawn"} => mu[Name(p)] = p
        BY DEF HandlerInv, MutexOf
      <4> QED
        BY <2>2, <3>1, <4>1, KeepMutex DEF ulid, startup
    <3> QED
      BY <3>1, <3>2, <3>3
  <2>7. GeneratorsBuilt'
    BY <2>2, KeepGenerators
  <2>8. Unshared'
    BY <2>2, <2>6 DEF HandlerInv, Unshared
  <2> QED
    BY <1>t, <2>5, <2>6, <2>7, <2>8 DEF HandlerInv
<1>3. ASSUME NEW q \in Requests, SkipRule(q) PROVE HandlerInv'
  <2> DEFINE k == next[q]
             m == inbound[q]
  <2>1. /\ k \in 1..Len(rules) /\ next'[q] = k + 1 /\ pc' = pc /\ pc[q] = "extract"
        /\ inbound' = inbound /\ hdr' = hdr /\ headerMap' = headerMap /\ rules' = rules
        /\ out' = out /\ UNCHANGED <<startup, ulid>>
    BY <1>3, <1>t DEF SkipRule, TypeOK, startup
  <2>2. \A h \in Headers : ~ Applies(rules, m, h, k)
    BY <1>3 DEF SkipRule, Applies, Current
  <2>3. \A h \in Headers :
          /\ GeneratedBefore(rules, m, h, k + 1) <=> GeneratedBefore(rules, m, h, k)
          /\ CarriedBefore(rules, m, h, k + 1) <=> CarriedBefore(rules, m, h, k)
    BY <1>t, <2>1, <2>2, OneMoreRule
  <2>4. \A w : \A h \in Headers : MadeFor(w, h) => MadeFor(w, h)'
    BY <1>t, <1>r, <2>1, MadeStays DEF ulid
  <2>5. ExtractedOf(q)'
    BY <2>1, <2>3, <2>4 DEF HandlerInv, ExtractedOf, ExtractedHeader
  <2>6. MutexOf(q)' /\ OutboundOf(q)'
    BY <2>1 DEF MutexOf, OutboundOf
  <2>7. ASSUME NEW p \in Requests, p # q
        PROVE  ExtractedOf(p)' /\ MutexOf(p)' /\ OutboundOf(p)'
    <3>1. next'[p] = next[p]
      BY <1>3, <1>t, <2>7 DEF SkipRule, TypeOK
    <3>2. pc[p] \in {"locked", "drawn"} => mu[Name(p)] = p
      BY DEF HandlerInv, MutexOf
    <3> QED
      BY <1>r, <2>1, <3>1, <3>2, KeepExtracted, KeepMutex, KeepOutbound DEF ulid, startup
  <2>8. GeneratorsBuilt' /\ Unshared'
    BY <2>1, KeepGenerators, KeepUnshared
  <2> QED
    BY <1>t, <2>5, <2>6, <2>7, <2>8 DEF HandlerInv
<1>4. ASSUME NEW q \in Requests, UseHeader(q) PROVE HandlerInv'
  <2> DEFINE n == Name(q)
             v == hdr[q][n]
  <2>1. /\ next[q] \in 1..Len(rules) /\ pc' = pc /\ pc[q] = "extract"
        /\ inbound' = inbound /\ hdr' = hdr /\ rules' = rules
        /\ out' = out /\ UNCHANGED <<startup, ulid>>
    BY <1>4, <1>t DEF UseHeader, Matching, TypeOK, startup
  <2>2. n \in Headers
    BY <1>t, <2>1, RuleAt DEF Name, Current
  <2>3. v \in Value /\ hdr' = [hdr EXCEPT ![q][n] = v]
    BY <1>t, <2>1, <2>2 DEF TypeOK
  <2>4. RandGrows
    BY <1>r, <2>1 DEF ulid
  <2>5. \A h \in Headers : ExtractedHeader(q, h)'
    <3>1. /\ Started(q) /\ next[q] <= Len(rules) /\ ~ Missing(q) /\ Propagate(q, v)
          /\ MatchesRequest(Current(q), inbound[q].path, inbound[q].method)
      BY <1>4 DEF UseHeader, Matching
    <3> HIDE DEF n, v
    <3> QED
      BY <2>1, <2>3, <2>4, <3>1, Iteration DEF n, v
  <2>6. ExtractedOf(q)' /\ MutexOf(q)' /\ OutboundOf(q)'
    BY <2>1, <2>5 DEF ExtractedOf, MutexOf, OutboundOf
  <2>7. ASSUME NEW p \in Requests, p # q
        PROVE  ExtractedOf(p)' /\ MutexOf(p)' /\ OutboundOf(p)'
    <3>1. next'[p] = next[p] /\ headerMap'[p] = headerMap[p]
      BY <1>4, <1>t, <2>7 DEF UseHeader, Propagate, TypeOK
    <3>2. pc[p] \in {"locked", "drawn"} => mu[Name(p)] = p
      BY DEF HandlerInv, MutexOf
    <3> QED
      BY <2>1, <2>4, <3>1, <3>2, KeepExtracted, KeepMutex, KeepOutbound DEF ulid, startup
  <2>8. GeneratorsBuilt' /\ Unshared'
    BY <2>1, KeepGenerators, KeepUnshared
  <2> QED
    BY <1>t, <2>6, <2>7, <2>8 DEF HandlerInv
<1>5. ASSUME NEW q \in Requests, GenerateUUID(q) PROVE HandlerInv'
  <2> DEFINE n == Name(q)
             v == [gen |-> "uuid", key |-> n, n |-> rand[n]]
  <2>1. n \in Headers
    BY <1>5, <1>t, RuleAt DEF GenerateUUID, Matching, TypeOK, Name, Current
  <2>2. v \in Identifier /\ v.gen = generators[n] /\ v.n = rand[n] /\ v.gen = "uuid"
    BY <1>5, <2>1 DEF GenerateUUID, Identifier, GeneratorTypes
  <2>3. /\ pc[q] = "extract" /\ next[q] <= Len(rules) /\ Missing(q)
        /\ MatchesRequest(Current(q), inbound[q].path, inbound[q].method)
        /\ hdr' = [hdr EXCEPT ![q][n] = v] /\ Propagate(q, v)
        /\ rand' = [rand EXCEPT ![n] = v.n + 1]
        /\ UNCHANGED <<startup, inbound, drawn, out, mu>>
        /\ pc' = [pc EXCEPT ![q] = "extract"]
    BY <1>5, <1>t DEF GenerateUUID, Matching, TypeOK
  <2> HIDE DEF n, v
  <2> QED
    BY <1>t, <2>2, <2>3, Generated DEF n
<1>6. ASSUME NEW q \in Requests, GenerateTimestamp(q) PROVE HandlerInv'
  <2> DEFINE n == Name(q)
  <2>1. n \in Headers
    BY <1>6, <1>t, RuleAt DEF GenerateTimestamp, Matching, TypeOK, Name, Current
  <2>2. PICK t \in Instants :
            /\ hdr' = [hdr EXCEPT ![q][n] = [gen |-> "timestamp", key |-> n, n |-> t]]
            /\ Propagate(q, [gen |-> "timestamp", key |-> n, n |-> t])
    BY <1>6 DEF GenerateTimestamp
  <2> DEFINE v == [gen |-> "timestamp", key |-> n, n |-> t]
  <2>3. v \in Identifier /\ v.gen = generators[n] /\ v.gen = "timestamp"
    BY <1>6, <2>1, HandlerAssumption DEF GenerateTimestamp, Identifier, GeneratorTypes
  <2>4. /\ pc[q] = "extract" /\ next[q] <= Len(rules) /\ Missing(q)
        /\ MatchesRequest(Current(q), inbound[q].path, inbound[q].method)
        /\ UNCHANGED <<startup, inbound, drawn, out, mu, rand, pc>>
    BY <1>6 DEF GenerateTimestamp, Matching, ulid
  <2>5. pc' = [pc EXCEPT ![q] = "extract"]
    BY <1>t, <2>4 DEF TypeOK
  <2>6. hdr' = [hdr EXCEPT ![q][n] = v] /\ Propagate(q, v)
    BY <2>2
  <2>7. n = Name(q) /\ (generators[n] = "ulid" => pc[q] = "drawn")
    BY <2>3
  <2> HIDE DEF n, v
  <2> QED
    BY <1>t, <2>3, <2>4, <2>5, <2>6, <2>7, Generated
<1>7. ASSUME NEW q \in Requests, LockULID(q) PROVE HandlerInv'
  <2>1. next[q] \in 1..Len(rules) /\ Name(q) \in Headers
    BY <1>7, <1>t, RuleAt DEF LockULID, Matching, TypeOK, Name, Current
  <2>2. /\ UNCHANGED <<startup, rand, inbound, hdr, next, headerMap, out, drawn>>
        /\ pc[q] = "extract" /\ pc'[q] = "locked"
        /\ mu' = [mu EXCEPT ![Name(q)] = q] /\ mu[Name(q)] = Nobody
    BY <1>7, <1>t DEF LockULID, Lock, Matching, TypeOK, extraction
  <2>3. Current(q)' = Current(q) /\ Name(q)' = Name(q) /\ (Missing(q)' <=> Missing(q))
    BY <2>2 DEF Current, Name, Missing, startup
  <2>4. MutexOf(q)'
    BY <1>7, <1>t, <2>1, <2>2, <2>3 DEF LockULID, Matching, MutexOf, startup, TypeOK
  <2>5. OutboundOf(q)'
    BY <2>2 DEF OutboundOf
  <2>6. \A p \in Requests \ {q} : pc'[p] = pc[p] /\ (mu[Name(p)] = p => mu'[Name(p)] = p)
    BY <1>7, <1>t, <2>1, <2>2, HandlerAssumption DEF LockULID, TypeOK
  <2> QED
    BY <1>t, <2>2, <2>4, <2>5, <2>6, QuietStep
<1>8. ASSUME NEW q \in Requests, DrawULID(q) PROVE HandlerInv'
  <2>2. /\ UNCHANGED <<startup, rand, inbound, hdr, next, headerMap, out, mu>>
        /\ pc[q] = "locked" /\ pc'[q] = "drawn" /\ drawn'[q] = rand[Name(q)]
    BY <1>8, <1>t DEF DrawULID, TypeOK, extraction
  <2>3. Current(q)' = Current(q) /\ Name(q)' = Name(q) /\ (Missing(q)' <=> Missing(q))
    BY <2>2 DEF Current, Name, Missing, startup
  <2>4. MutexOf(q)'
    BY <2>2, <2>3 DEF HandlerInv, MutexOf, startup
  <2>5. OutboundOf(q)'
    BY <2>2 DEF OutboundOf
  <2>6. \A p \in Requests \ {q} : pc'[p] = pc[p] /\ drawn'[p] = drawn[p]
    BY <1>8, <1>t DEF DrawULID, TypeOK
  <2> QED
    BY <1>t, <2>2, <2>4, <2>5, <2>6, QuietStep
<1>9. ASSUME NEW q \in Requests, GenerateULID(q) PROVE HandlerInv'
  <2> DEFINE n == Name(q)
             v == [gen |-> "ulid", key |-> n, n |-> drawn[q]]
  <2>1. next[q] \in 1..Len(rules) /\ n \in Headers
    BY <1>9, <1>t, RuleAt DEF GenerateULID, TypeInv, Arrived, TypeOK, Name, Current
  <2>2. /\ MatchesRequest(Current(q), inbound[q].path, inbound[q].method)
        /\ Missing(q) /\ generators[n] = "ulid" /\ mu[n] = q /\ drawn[q] = rand[n]
    BY <1>9 DEF GenerateULID, HandlerInv, MutexOf
  <2>3. v \in Identifier /\ v.gen = generators[n] /\ v.n = rand[n] /\ v.gen = "ulid"
    BY <1>9, <2>1, <2>2 DEF GenerateULID, Identifier, GeneratorTypes
  <2>4. /\ pc[q] = "drawn" /\ next[q] <= Len(rules)
        /\ hdr' = [hdr EXCEPT ![q][n] = v] /\ Propagate(q, v)
        /\ rand' = [rand EXCEPT ![n] = v.n + 1]
        /\ mu' = [mu EXCEPT ![n] = Nobody]
        /\ UNCHANGED <<startup, inbound, drawn, out>>
        /\ pc' = [pc EXCEPT ![q] = "extract"]
    BY <1>9, <2>1 DEF GenerateULID, Unlock
  <2> HIDE DEF n, v
  <2> QED
    BY <1>t, <2>2, <2>3, <2>4, Generated DEF n
<1>10. ASSUME NEW q \in Requests, Forward(q) PROVE HandlerInv'
  <2>1. /\ UNCHANGED <<startup, rand, inbound, hdr, next, headerMap, mu, drawn>>
        /\ pc[q] = "extract" /\ pc'[q] = "roundtrip" /\ next[q] = Len(rules) + 1
        /\ out'[q] = [h \in Headers |-> IF h \in inbound[q].hop THEN NoValue ELSE hdr[q][h]]
    BY <1>10, <1>t DEF Forward, TypeOK, ulid, extraction
  <2>2. MutexOf(q)' /\ OutboundOf(q)'
    BY <2>1 DEF MutexOf, OutboundOf, startup
  <2>3. \A p \in Requests \ {q} : pc'[p] = pc[p] /\ out'[p] = out[p]
    BY <1>10, <1>t DEF Forward, TypeOK
  <2> QED
    BY <1>t, <2>1, <2>2, <2>3, QuietStep
<1>11. ASSUME NEW q \in Requests, RoundTrip(q) PROVE HandlerInv'
  <2>1. /\ UNCHANGED <<startup, rand, inbound, hdr, next, headerMap, mu, drawn>>
        /\ pc[q] = "roundtrip" /\ pc'[q] = "upstream"
        /\ out'[q] = [h \in Headers |-> IF out[q][h] = NoValue THEN headerMap[q][h] ELSE out[q][h]]
    BY <1>11, <1>t DEF RoundTrip, TypeOK, ulid, extraction
  <2>a. next[q] = Len(rules) + 1
    BY <2>1 DEF HandlerInv, OutboundOf
  <2>b. \A h \in Headers : out[q][h] = IF h \in inbound[q].hop THEN NoValue ELSE hdr[q][h]
    BY <2>1 DEF HandlerInv, OutboundOf
  <2>c. \A h \in Headers :
          headerMap[q][h] = IF CarriedBefore(rules, inbound[q], h, next[q])
                            THEN hdr[q][h] ELSE NoValue
    BY <2>1 DEF HandlerInv, ExtractedOf, ExtractedHeader
  <2>2. /\ next[q] = Len(rules) + 1
        /\ \A h \in Headers :
              /\ out[q][h] = IF h \in inbound[q].hop THEN NoValue ELSE hdr[q][h]
              /\ headerMap[q][h] = IF Carried(rules, inbound[q], h) THEN hdr[q][h] ELSE NoValue
    BY <2>a, <2>b, <2>c DEF Carried
  <2>3. out'[q] = [h \in Headers |->
                      IF h \in inbound[q].hop /\ ~ Carried(rules, inbound[q], h)
                      THEN NoValue ELSE hdr[q][h]]
    BY <2>1, <2>2
  <2>4. MutexOf(q)' /\ OutboundOf(q)'
    BY <2>1, <2>2, <2>3 DEF MutexOf, OutboundOf, startup
  <2>5. \A p \in Requests \ {q} : pc'[p] = pc[p] /\ out'[p] = out[p]
    BY <1>11, <1>t DEF RoundTrip, TypeOK
  <2> QED
    BY <1>t, <2>1, <2>4, <2>5, QuietStep
<1>12. ASSUME NEW q \in Requests, Respond(q) PROVE HandlerInv'
  <2>1. /\ UNCHANGED <<startup, rand, inbound, hdr, next, headerMap, mu, drawn, out>>
        /\ pc[q] \in {"upstream", "copy", "return"}
        /\ pc'[q] \in {"upstream", "copy", "return", "done", "aborted"}
        /\ \A p \in Requests \ {q} : pc'[p] = pc[p]
    BY <1>12, <1>t DEF Respond, Informational, Answer, BadGateway, Complete, Abort,
                       TypeOK, ulid, extraction
  <2>2. MutexOf(q)' /\ OutboundOf(q)'
    BY <2>1 DEF HandlerInv, MutexOf, OutboundOf, startup
  <2> QED
    BY <1>t, <2>1, <2>2, QuietStep
<1>13. CASE UNCHANGED vars
  <2>1. UNCHANGED <<startup, ulid, pc, inbound, hdr, next, headerMap, out>>
    BY <1>13 DEF vars, extraction
  <2>2. \A p \in Requests : pc[p] \in {"locked", "drawn"} => mu[Name(p)] = p
    BY DEF HandlerInv, MutexOf
  <2>3. \A p \in Requests : ExtractedOf(p)' /\ MutexOf(p)' /\ OutboundOf(p)'
    BY <1>r, <2>1, <2>2, KeepExtracted, KeepMutex, KeepOutbound DEF ulid, startup
  <2>4. GeneratorsBuilt' /\ Unshared'
    BY <2>1, KeepGenerators, KeepUnshared
  <2> QED
    BY <1>t, <2>3, <2>4 DEF HandlerInv
<1> QED
    BY <1>1, <1>2, <1>3, <1>4, <1>5, <1>6, <1>7, <1>8, <1>9, <1>10, <1>11, <1>12, <1>13
       DEF Next, Handle

\* The invariant of extractHeaders and RoundTrip always holds.
LEMMA HandlerInvariant == Spec => []HandlerInv
<1> QED
    BY InitHandlerInv, StepHandlerInv, PTL DEF Spec

\* Requests that share a generator never get the same uuid or ulid from it:
\* ULIDGenerator.Generate holds the mutex from reading its random source to
\* storing the source's next state.
THEOREM IdentifiersUnshared == Spec => []NoSharedIdentifier
<1>1. HandlerInv => NoSharedIdentifier
    BY DEF HandlerInv, Unshared, NoSharedIdentifier, Contract!NoSharedIdentifier, Made
<1> QED
    BY <1>1, HandlerInvariant, PTL

----------------------------------------------------------------------------
(* The refinement *)

USE DEF StageOf

\* The contract's constants are the handler's, and so is what they define.
LEMMA SameTerms ==
    /\ Contract!NoHeaders = NoHeaders
    /\ Contract!Identifier = Identifier
    /\ \A rs, m, h : /\ Contract!MustGenerate(rs, m, h) <=> MustGenerate(rs, m, h)
                     /\ Contract!Carried(rs, m, h) <=> Carried(rs, m, h)
                     /\ Contract!TypesFor(rs, h) = TypesFor(rs, h)
<1>1. Contract!NoHeaders = NoHeaders
    BY DEF NoHeaders, Contract!NoHeaders
<1>2. Contract!Identifier = Identifier
    BY DEF Identifier, Contract!Identifier, GeneratorTypes, Contract!GeneratorTypes
<1>3. \A rule, path, method :
          Contract!MatchesRequest(rule, path, method) <=> MatchesRequest(rule, path, method)
    BY DEF MatchesRequest, Contract!MatchesRequest
<1>4. \A rs, m, h, i : Contract!Applies(rs, m, h, i) <=> Applies(rs, m, h, i)
    BY <1>3 DEF Applies, Contract!Applies, Key, Contract!Key
<1>5. \A rs, m, h, k : Contract!GeneratedBefore(rs, m, h, k) <=> GeneratedBefore(rs, m, h, k)
    BY <1>4 DEF GeneratedBefore, Contract!GeneratedBefore
<1>6. \A rs, m, h, k : Contract!CarriedBefore(rs, m, h, k) <=> CarriedBefore(rs, m, h, k)
    BY <1>4, <1>5 DEF CarriedBefore, Contract!CarriedBefore
<1>7. \A rs, m, h : Contract!TypesFor(rs, h) = TypesFor(rs, h)
    BY DEF TypesFor, Contract!TypesFor, Key, Contract!Key
<1> QED
    BY <1>1, <1>2, <1>5, <1>6, <1>7
       DEF MustGenerate, Contract!MustGenerate, Carried, Contract!Carried

\* The handler's initial states are the contract's.
LEMMA InitImplements == Init => Contract!Init
BY SameTerms DEF Init, Contract!Init, Stage, Made, Got, NoHeaders

\* The mapping, one request at a time.
LEMMA Mapped ==
    /\ \A q \in Requests : Stage[q] = StageOf(pc[q])
    /\ \A q \in Requests, h \in Headers :
          Made[q][h] = IF Started(q) /\ inbound[q].header[h] = NoValue
                       THEN hdr[q][h] ELSE NoValue
    /\ \A q \in Requests :
          Got[q] = IF StageOf(pc[q]) \in {"delivered", "closed"} THEN out[q] ELSE NoHeaders
BY DEF Stage, Made, Got

\* A step that changes no header and moves no request to another stage is
\* none of the contract's.
LEMMA Stutter ==
    ASSUME UNCHANGED <<rules, inbound, hdr>>,
           \A p \in Requests : StageOf(pc'[p]) = StageOf(pc[p]),
           \A p \in Requests : StageOf(pc[p]) \in {"delivered", "closed"} => out'[p] = out[p]
    PROVE  UNCHANGED Contract!vars
<1>1. \A p \in Requests : Started(p)' <=> Started(p)
    OBVIOUS
<1>2. Stage' = Stage
    BY DEF Stage
<1>3. Made' = Made
    BY <1>1 DEF Made
<1>4. Got' = Got
    BY <1>2 DEF Got, Stage
<1> QED
    BY <1>2, <1>3, <1>4 DEF Contract!vars

\* A generated value is one the contract allows.
LEMMA GenerateImplements ==
    ASSUME HandlerInv, NEW q \in Requests, pc[q] \in {"extract", "drawn"},
           next[q] <= Len(rules),
           MatchesRequest(Current(q), inbound[q].path, inbound[q].method), Missing(q),
           NEW n, n = Name(q), NEW v \in Identifier, v.gen = generators[n],
           v.gen # "timestamp" => v.n = rand[n],
           hdr' = [hdr EXCEPT ![q][n] = v], pc' = [pc EXCEPT ![q] = "extract"],
           UNCHANGED <<rules, inbound, out>>
    PROVE  Contract!Generate(q, n)
<1>1. TypeOK /\ Len(rules) \in Nat /\ rules \in Seq(Rule)
    BY LenType DEF HandlerInv, TypeInv
<1>2. n \in Headers /\ next[q] \in 1..Len(rules) /\ DOMAIN rules = 1..Len(rules)
    BY <1>1, RuleAt DEF TypeOK, Name, Current
<1>3. inbound[q].header[n] = NoValue /\ hdr[q][n] = NoValue
  <2>1. ExtractedHeader(q, n)
    BY <1>2 DEF HandlerInv, ExtractedOf
  <2> QED
    BY <2>1 DEF ExtractedHeader, Missing
<1>4. MustGenerate(rules, inbound[q], n)
    BY <1>1, <1>2, <1>3 DEF MustGenerate, GeneratedBefore, Applies, Missing, Name, Current
<1>5. v.gen \in TypesFor(rules, n)
    BY <1>2 DEF HandlerInv, GeneratorsBuilt, Missing
<1>6. v # NoValue
    BY ValuesAssumption
<1>7. ASSUME NEW p \in Requests, Made[p][n] = v PROVE v.gen = "timestamp"
  <2>1. Started(p) /\ inbound[p].header[n] = NoValue /\ hdr[p][n] = v
    BY <1>2, <1>6, <1>7, Mapped
  <2>2. rand[n] \in Nat
    BY <1>1, <1>2 DEF TypeOK
  <2> QED
    BY <1>2, <1>6, <2>1, <2>2, MadeIsNew
<1>8. \A p \in Requests : Started(p)' <=> Started(p)
    BY <1>1 DEF TypeOK
<1>9. Stage' = Stage /\ Stage[q] = "open"
    BY <1>1 DEF Stage, TypeOK
<1>10. Got' = Got
    BY <1>9 DEF Got
<1>11. \A p \in Requests, h \in Headers :
          hdr'[p][h] = IF p = q /\ h = n THEN v ELSE hdr[p][h]
    BY <1>1, <1>2 DEF TypeOK
<1>12. \A p \in Requests, h \in Headers :
          Made'[p][h] = IF p = q /\ h = n THEN v ELSE Made[p][h]
    BY <1>3, <1>8, <1>11 DEF Made
<1>13. Made' = [Made EXCEPT ![q][n] = v]
  <2>1. \A p \in Requests : /\ Made[p] = [h \in Headers |-> Made[p][h]]
                            /\ Made'[p] = [h \in Headers |-> Made'[p][h]]
    BY DEF Made
  <2>2. /\ Made = [p \in Requests |-> Made[p]]
        /\ Made' = [p \in Requests |-> Made'[p]]
    BY DEF Made
  <2>3. \A p \in Requests : p # q => Made'[p] = Made[p]
    BY <1>12, <2>1
  <2>4. Made'[q] = [Made[q] EXCEPT ![n] = v]
    BY <1>2, <1>12, <2>1
  <2> QED
    BY <2>2, <2>3, <2>4
<1>14. Made[q][n] = NoValue
    BY <1>2, <1>3, Mapped
<1> QED
    BY <1>4, <1>5, <1>7, <1>9, <1>10, <1>13, <1>14, SameTerms DEF Contract!Generate, Contract!Fresh

\* What reaches the application is what the contract promises.
LEMMA RoundTripImplements ==
    ASSUME HandlerInv, HandlerInv', NEW q \in Requests, RoundTrip(q)
    PROVE  Contract!Deliver(q)
<1>1. TypeOK /\ TypeOK'
    BY DEF HandlerInv, TypeInv
<1>2. /\ pc[q] = "roundtrip" /\ pc' = [pc EXCEPT ![q] = "upstream"]
      /\ UNCHANGED <<rules, inbound, hdr, next>>
      /\ \A p \in Requests \ {q} : out'[p] = out[p]
    BY <1>1 DEF RoundTrip, startup, extraction, TypeOK
<1>3. pc'[q] = "upstream" /\ \A p \in Requests \ {q} : pc'[p] = pc[p]
    BY <1>1, <1>2 DEF TypeOK
<1>4. Stage[q] = "open" /\ Stage' = [Stage EXCEPT ![q] = "delivered"]
  <2>1. Stage[q] = "open"
    BY <1>2, Mapped
  <2>2. StageOf(pc'[q]) = "delivered"
    BY <1>3
  <2> QED
    BY <1>3, <2>1, <2>2 DEF Stage
<1>5. Made' = Made
    BY <1>2, <1>3 DEF Made
<1>6. next[q] = Len(rules) + 1
    BY <1>2 DEF HandlerInv, OutboundOf
<1>7. ASSUME NEW h \in Headers
      PROVE  /\ MustGenerate(rules, inbound[q], h) => Made[q][h] # NoValue
             /\ Contract!Effective(q, h) = hdr[q][h]
  <2>1. ExtractedHeader(q, h)
    BY <1>2 DEF HandlerInv, ExtractedOf
  <2>2. Made[q][h] = IF inbound[q].header[h] = NoValue THEN hdr[q][h] ELSE NoValue
    BY <1>2, Mapped
  <2>3. MustGenerate(rules, inbound[q], h) => MadeFor(hdr[q][h], h)
    BY <1>6, <2>1 DEF ExtractedHeader, MustGenerate
  <2>4. MustGenerate(rules, inbound[q], h) => Made[q][h] # NoValue
    BY <2>2, <2>3, ValuesAssumption DEF MustGenerate, MadeFor
  <2>5. Contract!Effective(q, h) = hdr[q][h]
    BY <2>1, <2>2 DEF ExtractedHeader, Contract!Effective
  <2> QED
    BY <2>4, <2>5
<1>8. out'[q] = [h \in Headers |->
                    IF h \in inbound[q].hop /\ ~ Carried(rules, inbound[q], h)
                    THEN NoValue ELSE hdr[q][h]]
  <2>1. OutboundOf(q)'
    BY DEF HandlerInv
  <2> QED
    BY <1>2, <1>3, <2>1 DEF OutboundOf
<1>9. out'[q] = [h \in Headers |->
                    IF h \in inbound[q].hop /\ ~ Contract!Carried(rules, inbound[q], h)
                    THEN NoValue ELSE Contract!Effective(q, h)]
    BY <1>7, <1>8, SameTerms
<1>10. Got' = [Got EXCEPT ![q] = out'[q]]
  <2>1. Got'[q] = out'[q]
    BY <1>3 DEF Got, Stage
  <2>2. \A p \in Requests \ {q} : Got'[p] = Got[p]
    BY <1>2, <1>3 DEF Got, Stage
  <2>3. /\ Got = [p \in Requests |-> Got[p]]
        /\ Got' = [p \in Requests |-> Got'[p]]
    BY DEF Got
  <2> QED
    BY <2>1, <2>2, <2>3
<1> QED
    BY <1>2, <1>4, <1>5, <1>7, <1>9, <1>10, SameTerms DEF Contract!Deliver

\* A request ends once.
LEMMA EndImplements ==
    ASSUME HandlerInv, NEW q \in Requests, Complete(q) \/ Abort(q)
    PROVE  Contract!Close(q)
<1>1. TypeOK
    BY DEF HandlerInv, TypeInv
<1>2. /\ pc[q] \in {"copy", "return"} /\ pc'[q] \in {"done", "aborted"}
      /\ UNCHANGED <<rules, inbound, hdr, out>>
      /\ \A p \in Requests \ {q} : pc'[p] = pc[p]
    BY <1>1 DEF Complete, Abort, startup, extraction, TypeOK
<1>3. Stage[q] = "delivered" /\ StageOf(pc'[q]) = "closed"
    BY <1>2, Mapped
<1>4. Stage' = [Stage EXCEPT ![q] = "closed"]
    BY <1>2, <1>3 DEF Stage
<1>5. Made' = Made
    BY <1>2 DEF Made
<1>6. Got' = Got
    BY <1>2, <1>3 DEF Got, Stage
<1> QED
    BY <1>2, <1>3, <1>4, <1>5, <1>6 DEF Contract!Close

\* A request that enters ServeHTTP opens in the contract.
LEMMA ArriveImplements ==
    ASSUME HandlerInv, NEW q \in Requests, Arrive(q)
    PROVE  Contract!Open(q)
<1>1. TypeOK
    BY DEF HandlerInv, TypeInv
<1>2. PICK m \in Inbound : /\ inbound' = [inbound EXCEPT ![q] = m]
                           /\ hdr' = [hdr EXCEPT ![q] = m.header]
    BY DEF Arrive
<1>3. /\ pc[q] = "idle" /\ pc'[q] = "extract" /\ inbound'[q] = m /\ hdr'[q] = m.header
      /\ UNCHANGED <<rules, out>>
    BY <1>1, <1>2 DEF Arrive, startup, TypeOK
<1>4. \A p \in Requests \ {q} :
          pc'[p] = pc[p] /\ inbound'[p] = inbound[p] /\ hdr'[p] = hdr[p]
    BY <1>1, <1>2 DEF Arrive, TypeOK
<1>5. Stage[q] = "idle" /\ Stage' = [Stage EXCEPT ![q] = "open"]
    BY <1>3, <1>4 DEF Stage
<1>6. Made' = Made
  <2>1. \A p \in Requests, h \in Headers : Made'[p][h] = Made[p][h]
    BY <1>3, <1>4 DEF Made
  <2> QED
    BY <2>1 DEF Made
<1>7. Got' = Got
    BY <1>3, <1>4 DEF Got, Stage
<1> QED
    BY <1>2, <1>3, <1>5, <1>6, <1>7 DEF Contract!Open

\* Every step of the handler is one of the contract or leaves its state alone.
LEMMA StepImplements ==
    HandlerInv /\ HandlerInv' /\ [Next]_vars => [Contract!Next]_(Contract!vars)
<1> SUFFICES ASSUME HandlerInv, HandlerInv', [Next]_vars
             PROVE  Contract!Next \/ UNCHANGED Contract!vars
    OBVIOUS
<1>t. TypeOK /\ TypeInv /\ rules \in Seq(Rule) /\ Len(rules) \in Nat
    BY LenType DEF HandlerInv, TypeInv
<1>1. CASE InitGenerator \/ NewProxyHandler \/ UNCHANGED vars
  <2>1. UNCHANGED <<rules, inbound, hdr, pc, out>>
    BY <1>1 DEF InitGenerator, NewProxyHandler, vars, extraction, startup
  <2> QED
    BY <2>1, Stutter
<1>2. ASSUME NEW q \in Requests, Arrive(q) PROVE Contract!Next
    BY <1>2, ArriveImplements DEF Contract!Next
<1>3. ASSUME NEW q \in Requests,
             SkipRule(q) \/ UseHeader(q) \/ LockULID(q) \/ DrawULID(q) \/ Forward(q)
                \/ Informational(q) \/ (\E c \in Codes : Answer(q, c)) \/ BadGateway(q)
      PROVE  UNCHANGED Contract!vars
  <2>1. /\ UNCHANGED <<rules, inbound, hdr>>
        /\ \A p \in Requests \ {q} : pc'[p] = pc[p] /\ out'[p] = out[p]
        /\ StageOf(pc'[q]) = StageOf(pc[q])
        /\ StageOf(pc[q]) \in {"delivered", "closed"} => out'[q] = out[q]
    <3>1. CASE SkipRule(q) \/ UseHeader(q)
      BY <3>1 DEF SkipRule, UseHeader, startup
    <3>2. CASE LockULID(q) \/ DrawULID(q)
      BY <1>t, <3>2 DEF LockULID, DrawULID, Matching, startup, extraction, TypeOK
    <3>3. CASE Forward(q)
      BY <1>t, <3>3 DEF Forward, startup, extraction, TypeOK
    <3>4. CASE Informational(q) \/ (\E c \in Codes : Answer(q, c)) \/ BadGateway(q)
      BY <1>t, <3>4 DEF Informational, Answer, BadGateway, startup, extraction, TypeOK
    <3> QED
      BY <1>3, <3>1, <3>2, <3>3, <3>4
  <2> QED
    BY <2>1, Stutter
<1>4. ASSUME NEW q \in Requests, GenerateUUID(q) \/ GenerateTimestamp(q) \/ GenerateULID(q)
      PROVE  Contract!Next
  <2> DEFINE n == Name(q)
  <2>1. next[q] \in 1..Len(rules) /\ n \in Headers
    BY <1>4, <1>t, RuleAt DEF GenerateUUID, GenerateTimestamp, GenerateULID, Matching,
                              TypeInv, Arrived, TypeOK, Name, Current
  <2>2. /\ pc[q] \in {"extract", "drawn"} /\ Missing(q)
        /\ MatchesRequest(Current(q), inbound[q].path, inbound[q].method)
        /\ UNCHANGED <<rules, inbound, out>>
    BY <1>4 DEF GenerateUUID, GenerateTimestamp, GenerateULID, Matching, HandlerInv, MutexOf,
                startup
  <2>3. pc' = [pc EXCEPT ![q] = "extract"]
    BY <1>4, <1>t DEF GenerateUUID, GenerateTimestamp, GenerateULID, Matching, TypeOK
  <2>4. \E v \in Identifier : /\ v.gen = generators[n]
                              /\ v.gen # "timestamp" => v.n = rand[n]
                              /\ hdr' = [hdr EXCEPT ![q][n] = v]
    <3>1. CASE GenerateUUID(q)
      <4> DEFINE v == [gen |-> "uuid", key |-> n, n |-> rand[n]]
      <4>1. v \in Identifier /\ v.gen = generators[n] /\ v.n = rand[n]
        BY <3>1, <2>1 DEF GenerateUUID, Identifier, GeneratorTypes
      <4>2. hdr' = [hdr EXCEPT ![q][n] = v]
        BY <3>1 DEF GenerateUUID
      <4> QED
        BY <4>1, <4>2
    <3>2. CASE GenerateTimestamp(q)
      <4>1. PICK t \in Instants :
                hdr' = [hdr EXCEPT ![q][n] = [gen |-> "timestamp", key |-> n, n |-> t]]
        BY <3>2 DEF GenerateTimestamp
      <4> DEFINE v == [gen |-> "timestamp", key |-> n, n |-> t]
      <4>2. v \in Identifier /\ v.gen = generators[n] /\ v.gen = "timestamp"
        BY <3>2, <2>1, HandlerAssumption DEF GenerateTimestamp, Identifier, GeneratorTypes
      <4> QED
        BY <4>1, <4>2
    <3>3. CASE GenerateULID(q)
      <4> DEFINE v == [gen |-> "ulid", key |-> n, n |-> drawn[q]]
      <4>1. generators[n] = "ulid" /\ drawn[q] = rand[n]
        BY <3>3 DEF GenerateULID, HandlerInv, MutexOf
      <4>2. v \in Identifier /\ v.gen = generators[n] /\ v.n = rand[n]
        BY <3>3, <2>1, <4>1 DEF GenerateULID, Identifier, GeneratorTypes
      <4>3. hdr' = [hdr EXCEPT ![q][n] = v]
        BY <3>3 DEF GenerateULID
      <4> QED
        BY <4>2, <4>3
    <3> QED
      BY <1>4, <3>1, <3>2, <3>3
  <2>5. next[q] <= Len(rules)
    BY <2>1, <1>t
  <2>6. Contract!Generate(q, n)
    <3> HIDE DEF n
    <3> QED
      BY <2>2, <2>3, <2>4, <2>5, GenerateImplements DEF n
  <2> QED
    BY <2>1, <2>6 DEF Contract!Next
<1>5. ASSUME NEW q \in Requests, RoundTrip(q) PROVE Contract!Next
    BY <1>5, RoundTripImplements DEF Contract!Next
<1>6. ASSUME NEW q \in Requests, Complete(q) \/ Abort(q) PROVE Contract!Next
    BY <1>6, EndImplements DEF Contract!Next
<1> QED
    BY <1>1, <1>2, <1>3, <1>4, <1>5, <1>6 DEF Next, Handle, Respond

\* extractHeaders, the hop-by-hop removal of ReverseProxy and RoundTrip give
\* the application, in every interleaving of the requests, the headers that
\* PropagationContract promises.
THEOREM HandlerImplements == Spec => ImplementsContract
<1> QED
    BY HandlerInvariant, InitImplements, StepImplements, PTL
       DEF Spec, ImplementsContract, Contract!Spec

============================================================================
