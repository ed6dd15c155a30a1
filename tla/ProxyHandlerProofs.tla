------------------------- MODULE ProxyHandlerProofs -------------------------
(***************************************************************************)
(* Proofs about ProxyHandler, for any number of requests, rules, headers   *)
(* and status codes.                                                       *)
(***************************************************************************)
EXTENDS ProxyHandler, FiniteSetTheorems, TLAPS

----------------------------------------------------------------------------
(* Types and the gauge *)

Inside == {q \in Requests : Started(q) /\ ~ Ended(q)}

\* A request has a message once it started, and ULIDGenerator.Generate runs
\* on behalf of a rule.
Arrived ==
    \A q \in Requests :
        /\ Started(q) => inbound[q] \in Inbound
        /\ pc[q] \in {"locked", "drawn"} => next[q] <= Len(rules)

TypeInv == TypeOK /\ Arrived /\ GaugeAgrees

\* The rule at a position of the configured list is a rule about some header.
LEMMA RuleAt ==
    ASSUME TypeOK, NEW i \in 1..Len(rules)
    PROVE  /\ rules[i] \in Rule
           /\ Key(rules[i]) \in Headers
           /\ DOMAIN rules = 1..Len(rules)
           /\ Len(rules) \in Nat
<1>1. rules \in Seq(Rule)
    BY HandlerAssumption DEF TypeOK
<1>2. rules[i] \in Rule
    BY <1>1
<1>3. rules[i].name \in Names
    BY <1>2 DEF Rule
<1>4. Key(rules[i]) \in Headers
    BY <1>3, ConstantsAssumption DEF Key
<1> QED
    BY <1>1, <1>2, <1>4

\* The rules are a sequence.
LEMMA LenType ==
    ASSUME TypeOK
    PROVE  rules \in Seq(Rule) /\ Len(rules) \in Nat
BY HandlerAssumption DEF TypeOK

\* The iteration of extractHeaders keeps its variables' types.
LEMMA PropagateType ==
    ASSUME TypeOK, NEW q \in Requests, next[q] <= Len(rules),
           NEW v \in Value, Propagate(q, v)
    PROVE  /\ Name(q) \in Headers
           /\ next' \in [Requests -> 1..(Len(rules) + 1)]
           /\ headerMap' \in [Requests -> [Headers -> Value]]
<1>1. next[q] \in 1..Len(rules) /\ Len(rules) \in Nat
    BY LenType DEF TypeOK
<1>2. Name(q) \in Headers
    BY <1>1, RuleAt DEF Name, Current
<1>3. next' \in [Requests -> 1..(Len(rules) + 1)]
    BY <1>1 DEF TypeOK, Propagate
<1>4. headerMap' \in [Requests -> [Headers -> Value]]
    BY <1>2 DEF TypeOK, Propagate
<1> QED
    BY <1>2, <1>3, <1>4

\* WriteHeader keeps the types of the codes.
LEMMA WriteHeaderType ==
    ASSUME TypeOK, NEW q \in Requests, NEW c \in Recorded, WriteHeader(q, c)
    PROVE  /\ status' \in [Requests -> Recorded]
           /\ wire' \in [Requests -> Recorded \cup {0}]
BY DEF TypeOK, WriteHeader

\* A request that enters or leaves ServeHTTP changes the number of requests
\* inside by one.
LEMMA EnterLeave ==
    ASSUME TypeOK, NEW q \in Requests
    PROVE  /\ IsFiniteSet(Inside)
           /\ Cardinality(Inside) \in Nat
           /\ q \notin Inside => Cardinality(Inside \cup {q}) = Cardinality(Inside) + 1
           /\ q \in Inside => /\ Cardinality(Inside \ {q}) = Cardinality(Inside) - 1
                              /\ Cardinality(Inside) > 0
<1>1. IsFiniteSet(Inside)
    BY HandlerAssumption, FS_Subset DEF Inside
<1>2. Cardinality(Inside) \in Nat
    BY <1>1, FS_CardinalityType
<1>3. q \notin Inside => Cardinality(Inside \cup {q}) = Cardinality(Inside) + 1
    BY <1>1, FS_AddElement
<1>4. IsFiniteSet(Inside \ {q}) /\ Cardinality(Inside \ {q}) \in Nat
    BY <1>1, FS_RemoveElement, FS_CardinalityType
<1>5. q \in Inside => Cardinality(Inside \ {q}) = Cardinality(Inside) - 1
    BY <1>1, FS_RemoveElement
<1> QED
    BY <1>1, <1>2, <1>3, <1>4, <1>5

\* The gauge follows a step in which the set of requests inside is unchanged.
LEMMA SameInside ==
    ASSUME TypeInv, UNCHANGED active, Inside' = Inside
    PROVE  GaugeAgrees'
BY DEF TypeInv, GaugeAgrees, Inside

USE DEF Started, Ended

\* The invariant holds before any request has arrived.
LEMMA InitTypeInv == Init => TypeInv
<1> SUFFICES ASSUME Init PROVE TypeInv
    OBVIOUS
<1>1. TypeOK
    BY HandlerAssumption DEF Init, TypeOK, NoHeaders, Value, Recorded, States
<1>2. Arrived
    BY DEF Init, Arrived
<1>3. {q \in Requests : Started(q) /\ ~ Ended(q)} = {}
    BY DEF Init
<1>4. GaugeAgrees
    BY <1>3, FS_EmptySet DEF Init, GaugeAgrees
<1> QED
    BY <1>1, <1>2, <1>4 DEF TypeInv

\* Every step of NewProxyHandler and of ServeHTTP preserves the invariant.
LEMMA StepTypeInv == TypeInv /\ [Next]_vars => TypeInv'
<1> SUFFICES ASSUME TypeInv, [Next]_vars PROVE TypeInv'
    OBVIOUS
<1>t. TypeOK /\ Arrived /\ GaugeAgrees /\ rules \in Seq(Rule) /\ Len(rules) \in Nat
    BY LenType DEF TypeInv
<1>1. CASE InitGenerator
  <2>1. built \in 1..Len(rules)
    BY <1>1, <1>t DEF InitGenerator, TypeOK
  <2>2. Key(rules[built]) \in Headers
    BY <1>t, <2>1, RuleAt
  <2>3. TypeOK'
    BY <1>1, <1>t, <2>1, <2>2 DEF InitGenerator, TypeOK, ulid, extraction, response, metrics
  <2> QED
    BY <1>1, <1>t, <2>3 DEF InitGenerator, Arrived, GaugeAgrees, TypeInv, extraction, metrics
<1>2. CASE NewProxyHandler
    BY <1>2, <1>t DEF NewProxyHandler, TypeOK, Arrived, GaugeAgrees, TypeInv,
                      ulid, extraction, response, metrics
<1>3. ASSUME NEW q \in Requests, Arrive(q) PROVE TypeInv'
  <2>1. PICK m \in Inbound : /\ inbound' = [inbound EXCEPT ![q] = m]
                             /\ hdr' = [hdr EXCEPT ![q] = m.header]
    BY <1>3 DEF Arrive
  <2>2. m.header \in [Headers -> Value]
    BY HandlerAssumption DEF Message, Value
  <2>3. TypeOK'
    BY <1>3, <1>t, <2>1, <2>2 DEF Arrive, TypeOK, startup, ulid, response, States
  <2>4. Arrived'
    BY <1>3, <1>t, <2>1 DEF Arrive, Arrived, TypeOK, startup
  <2>5. q \notin Inside /\ Inside' = Inside \cup {q}
    BY <1>3, <1>t DEF Arrive, Inside, TypeOK
  <2>6. GaugeAgrees'
    BY <1>3, <1>t, <2>5, EnterLeave DEF Arrive, GaugeAgrees, Inside
  <2> QED
    BY <2>3, <2>4, <2>6 DEF TypeInv
<1>4. ASSUME NEW q \in Requests, Handle(q) PROVE TypeInv'
  <2>a. Inside' = Inside /\ UNCHANGED active
    BY <1>4, <1>t DEF Handle, SkipRule, UseHeader, GenerateUUID, GenerateTimestamp, LockULID,
        DrawULID, GenerateULID, Forward, RoundTrip, Inside, TypeOK, metrics, Matching
  <2>b. GaugeAgrees'
    BY <2>a, SameInside
  <2>1. CASE SkipRule(q)
    BY <1>t, <2>1, <2>b DEF SkipRule, TypeInv, TypeOK, Arrived, startup, ulid, response, metrics
  <2>2. CASE UseHeader(q)
    <3>1. next[q] <= Len(rules)
      BY <2>2 DEF UseHeader, Matching
    <3>2. next[q] \in 1..Len(rules) /\ Name(q) \in Headers
      BY <1>t, <3>1, RuleAt DEF TypeOK, Name, Current
    <3>3. hdr[q][Name(q)] \in Value
      BY <1>t, <3>2 DEF TypeOK
    <3>4. /\ next' \in [Requests -> 1..(Len(rules) + 1)]
          /\ headerMap' \in [Requests -> [Headers -> Value]]
      BY <1>t, <2>2, <3>1, <3>3, PropagateType DEF UseHeader
    <3>5. next' = [next EXCEPT ![q] = @ + 1] /\ pc[q] = "extract"
      BY <2>2 DEF UseHeader, Propagate, Matching
    <3> QED
      BY <1>t, <2>2, <2>b, <3>4, <3>5 DEF UseHeader, TypeInv, TypeOK, Arrived, startup, ulid,
                                     response, metrics
  <2>3. ASSUME Matching(q), NEW v \in Identifier,
               hdr' = [hdr EXCEPT ![q][Name(q)] = v], Propagate(q, v),
               rand' \in [Headers -> Nat],
               UNCHANGED <<startup, mu, drawn, pc, inbound, out, response, metrics>>
        PROVE  TypeInv'
    <3>1. next[q] <= Len(rules) /\ v \in Value /\ pc[q] = "extract"
      BY <2>3 DEF Matching, Value
    <3>2. /\ Name(q) \in Headers
          /\ next' \in [Requests -> 1..(Len(rules) + 1)]
          /\ headerMap' \in [Requests -> [Headers -> Value]]
      BY <1>t, <2>3, <3>1, PropagateType
    <3>3. hdr' \in [Requests -> [Headers -> Value]]
      BY <1>t, <2>3, <3>1, <3>2 DEF TypeOK
    <3>4. next' = [next EXCEPT ![q] = @ + 1]
      BY <2>3 DEF Propagate
    <3> QED
      BY <1>t, <2>3, <2>b, <3>1, <3>2, <3>3, <3>4
         DEF TypeInv, TypeOK, Arrived, startup, response, metrics
  <2>4. CASE GenerateUUID(q)
    <3>1. Name(q) \in Headers
      BY <1>t, <2>4, RuleAt DEF GenerateUUID, Matching, TypeOK, Name, Current
    <3>2. [gen |-> "uuid", key |-> Name(q), n |-> rand[Name(q)]] \in Identifier
      BY <2>4, <3>1 DEF GenerateUUID, Identifier, GeneratorTypes
    <3>3. rand' \in [Headers -> Nat]
      BY <1>t, <2>4, <3>1 DEF GenerateUUID, TypeOK
    <3> QED
      BY <2>3, <2>4, <3>2, <3>3 DEF GenerateUUID
  <2>5. CASE GenerateTimestamp(q)
    <3>1. Name(q) \in Headers
      BY <1>t, <2>5, RuleAt DEF GenerateTimestamp, Matching, TypeOK, Name, Current
    <3>2. PICK t \in Instants :
              /\ hdr' = [hdr EXCEPT ![q][Name(q)] =
                            [gen |-> "timestamp", key |-> Name(q), n |-> t]]
              /\ Propagate(q, [gen |-> "timestamp", key |-> Name(q), n |-> t])
      BY <2>5 DEF GenerateTimestamp
    <3>3. [gen |-> "timestamp", key |-> Name(q), n |-> t] \in Identifier
      BY <3>1, HandlerAssumption DEF Identifier, GeneratorTypes
    <3>4. rand' \in [Headers -> Nat]
      BY <1>t, <2>5 DEF GenerateTimestamp, ulid, TypeOK
    <3> QED
      BY <2>3, <2>5, <3>2, <3>3, <3>4 DEF GenerateTimestamp, ulid
  <2>6. CASE LockULID(q)
    <3>1. Name(q) \in Headers
      BY <1>t, <2>6, RuleAt DEF LockULID, Matching, TypeOK, Name, Current
    <3> QED
      BY <1>t, <2>6, <2>b, <3>1 DEF LockULID, Lock, Matching, TypeInv, TypeOK, Arrived, States,
                               startup, extraction, response, metrics
  <2>7. CASE DrawULID(q)
    <3>1. Name(q) \in Headers
      BY <1>t, <2>7, RuleAt DEF DrawULID, Arrived, TypeOK, Name, Current
    <3> QED
      BY <1>t, <2>7, <2>b, <3>1 DEF DrawULID, TypeInv, TypeOK, Arrived, States,
                               startup, extraction, response, metrics
  <2>8. CASE GenerateULID(q)
    <3> DEFINE v == [gen |-> "ulid", key |-> Name(q), n |-> drawn[q]]
    <3>1. Name(q) \in Headers /\ next[q] <= Len(rules)
      BY <1>t, <2>8, RuleAt DEF GenerateULID, Arrived, TypeOK, Name, Current
    <3>2. v \in Identifier
      BY <2>8, <3>1 DEF GenerateULID, Identifier, GeneratorTypes
    <3>3. hdr' = [hdr EXCEPT ![q][Name(q)] = v] /\ Propagate(q, v)
      BY <2>8 DEF GenerateULID
    <3>4. v \in Value
      BY <3>2 DEF Value
    <3> HIDE DEF v
    <3>5. /\ next' \in [Requests -> 1..(Len(rules) + 1)]
          /\ headerMap' \in [Requests -> [Headers -> Value]]
      BY <1>t, <3>1, <3>3, <3>4, PropagateType
    <3>6. hdr' \in [Requests -> [Headers -> Value]]
      BY <1>t, <3>1, <3>3, <3>4 DEF TypeOK
    <3>7. next' = [next EXCEPT ![q] = @ + 1]
      BY <3>3 DEF Propagate
    <3>8. rand' \in [Headers -> Nat] /\ mu' \in [Headers -> Requests \cup {Nobody}]
      BY <1>t, <2>8, <3>1 DEF GenerateULID, Unlock, TypeOK
    <3>9. TypeOK'
      BY <1>t, <2>8, <3>5, <3>6, <3>8 DEF GenerateULID, TypeOK, States, startup, response, metrics
    <3>10. Arrived'
      BY <1>t, <2>8, <3>7 DEF GenerateULID, TypeOK, Arrived, startup
    <3> QED
      BY <2>b, <3>9, <3>10 DEF TypeInv
  <2>9. CASE Forward(q)
    <3>1. HeaderCount(q) \in Nat
      BY ConstantsAssumption, FS_Subset, FS_CardinalityType DEF HeaderCount
    <3>2. [h \in Headers |-> IF h \in inbound[q].hop THEN NoValue ELSE hdr[q][h]]
            \in [Headers -> Value]
      BY <1>t DEF TypeOK, Value
    <3> QED
      BY <1>t, <2>9, <2>b, <3>1, <3>2 DEF Forward, TypeInv, TypeOK, Arrived, States,
                               startup, ulid, extraction, response
  <2>10. CASE RoundTrip(q)
    <3>1. [h \in Headers |-> IF out[q][h] = NoValue THEN headerMap[q][h] ELSE out[q][h]]
            \in [Headers -> Value]
      BY <1>t DEF TypeOK
    <3> QED
      BY <1>t, <2>10, <2>b, <3>1 DEF RoundTrip, TypeInv, TypeOK, Arrived, States,
                               startup, ulid, extraction, response, metrics
  <2> QED
    BY <1>4, <2>1, <2>2, <2>4, <2>5, <2>6, <2>7, <2>8, <2>9, <2>10 DEF Handle
<1>5. ASSUME NEW q \in Requests, Respond(q) PROVE TypeInv'
  <2>1. ASSUME NEW c \in Recorded, WriteHeader(q, c), pc[q] = "upstream",
               pc' = pc \/ pc' = [pc EXCEPT ![q] = "copy"] \/ pc' = [pc EXCEPT ![q] = "return"],
               UNCHANGED <<startup, ulid, inbound, extraction, out, metrics>>
        PROVE  TypeInv'
    <3>1. TypeOK'
      BY <1>t, <2>1, WriteHeaderType DEF TypeOK, States, startup, ulid, extraction, metrics
    <3>2. Arrived'
      BY <1>t, <2>1 DEF TypeOK, Arrived, startup, extraction
    <3>3. Inside' = Inside /\ UNCHANGED active
      BY <1>t, <2>1 DEF TypeOK, Inside, metrics
    <3> QED
      BY <3>1, <3>2, <3>3, SameInside DEF TypeInv
  <2>2. CASE Informational(q)
    BY <2>1, <2>2 DEF Informational, Recorded
  <2>3. ASSUME NEW c \in Codes, Answer(q, c) PROVE TypeInv'
    BY <2>1, <2>3 DEF Answer, Recorded
  <2>4. CASE BadGateway(q)
    BY <2>1, <2>4 DEF BadGateway, Recorded
  <2>5. ASSUME pc[q] \in {"copy", "return"}, active' = active - 1,
               pc' = [pc EXCEPT ![q] = "done"] \/ pc' = [pc EXCEPT ![q] = "aborted"],
               total' \in [Methods \X Recorded -> Nat],
               UNCHANGED <<startup, ulid, inbound, extraction, out, response, propagated>>
        PROVE  TypeInv'
    <3>1. q \in Inside /\ Inside' = Inside \ {q}
      BY <1>t, <2>5 DEF TypeOK, Inside
    <3>a. active = Cardinality(Inside)
      BY <1>t DEF GaugeAgrees, Inside
    <3>b. /\ Cardinality(Inside) \in Nat /\ Cardinality(Inside) > 0
          /\ Cardinality(Inside \ {q}) = Cardinality(Inside) - 1
      BY <1>t, <3>1, EnterLeave
    <3>c. active' = Cardinality(Inside') /\ active' \in Nat
      BY <2>5, <3>1, <3>a, <3>b
    <3>2. GaugeAgrees' /\ active' \in Nat
      BY <3>c DEF GaugeAgrees, Inside
    <3>3. TypeOK'
      BY <1>t, <2>5, <3>2 DEF TypeOK, States, startup, ulid, extraction, response
    <3>4. Arrived'
      BY <1>t, <2>5 DEF TypeOK, Arrived, startup, extraction
    <3> QED
      BY <3>2, <3>3, <3>4 DEF TypeInv
  <2>6. CASE Complete(q)
    <3>1. inbound[q].method \in Methods /\ status[q] \in Recorded
      BY <1>t, <2>6, HandlerAssumption DEF Complete, Arrived, Message, TypeOK
    <3>2. total' \in [Methods \X Recorded -> Nat]
      BY <1>t, <2>6, <3>1 DEF Complete, TypeOK
    <3> QED
      BY <2>5, <2>6, <3>2 DEF Complete
  <2>7. CASE Abort(q)
    BY <1>t, <2>5, <2>7 DEF Abort, TypeOK
  <2> QED
    BY <1>5, <2>2, <2>3, <2>4, <2>6, <2>7 DEF Respond
<1>6. CASE UNCHANGED vars
    BY <1>6, <1>t DEF vars, startup, ulid, extraction, response, metrics, TypeInv, TypeOK,
                      Arrived, GaugeAgrees
<1> QED
    BY <1>1, <1>2, <1>3, <1>4, <1>5, <1>6 DEF Next

\* The handler's variables keep their types.
THEOREM TypeCorrect == Spec => []TypeOK
<1>1. Spec => []TypeInv
    BY InitTypeInv, StepTypeInv, PTL DEF Spec
<1>2. TypeInv => TypeOK
    BY DEF TypeInv
<1> QED
    BY <1>1, <1>2, PTL

\* active_connections is the number of requests inside ServeHTTP, whatever
\* the number of requests and however they end.
THEOREM GaugeCorrect == Spec => []GaugeAgrees
<1>1. Spec => []TypeInv
    BY InitTypeInv, StepTypeInv, PTL DEF Spec
<1>2. TypeInv => GaugeAgrees
    BY DEF TypeInv
<1> QED
    BY <1>1, <1>2, PTL
============================================================================
