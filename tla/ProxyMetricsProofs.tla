------------------------- MODULE ProxyMetricsProofs -------------------------
(***************************************************************************)
(* The metrics the handler records agree with what it did, for any number  *)
(* of requests, rules, headers and status codes: requests_total with the   *)
(* codes on the wire, headers_propagated_total with the headers the rules  *)
(* carry.                                                                  *)
(***************************************************************************)
EXTENDS ProxyContractProofs

USE DEF Started, Ended

\* The request has been counted by headers_propagated_total.
Forwarded(q) == pc[q] \in {"roundtrip", "upstream", "copy", "return", "done", "aborted"}

\* The requests that requests_total counts under a label.
Counted(l) ==
    {q \in Requests : pc[q] = "done" /\ inbound[q].method = l[1] /\ wire[q] = l[2]}

\* The pairs that headers_propagated_total counts.
Pairs == {p \in Requests \X Headers :
              Forwarded(p[1]) /\ Carried(rules, inbound[p[1]], p[2])}

\* Once the final code was written, the code that RecordRequest will use is
\* the one the client got, whatever informational codes came before.
StatusOnWire ==
    \A q \in Requests :
        pc[q] \in {"copy", "return", "done", "aborted"} => wire[q] = status[q]

TotalsExact == \A l \in Methods \X Recorded : total[l] = Cardinality(Counted(l))
PropagatedExact == propagated = Cardinality(Pairs)

MetricsInv == StatusOnWire /\ TotalsExact /\ PropagatedExact

----------------------------------------------------------------------------
(* Counting *)

\* The number of pairs of one request is the number of its headers.
LEMMA PairsOfOne ==
    ASSUME NEW q, NEW S, IsFiniteSet(S)
    PROVE  IsFiniteSet({q} \X S) /\ Cardinality({q} \X S) = Cardinality(S)
<1>1. IsFiniteSet({q}) /\ Cardinality({q}) = 1
    BY FS_Singleton
<1>2. IsFiniteSet({q} \X S) /\ Cardinality({q} \X S) = Cardinality({q}) * Cardinality(S)
    BY <1>1, FS_Product
<1>3. Cardinality(S) \in Nat
    BY FS_CardinalityType
<1> QED
    BY <1>1, <1>2, <1>3

\* Adding a set disjoint from another adds their sizes.
LEMMA DisjointSum ==
    ASSUME NEW S, NEW T, IsFiniteSet(S), IsFiniteSet(T), S \cap T = {}
    PROVE  Cardinality(S \cup T) = Cardinality(S) + Cardinality(T)
<1>1. Cardinality(S \cup T) = Cardinality(S) + Cardinality(T) - Cardinality(S \cap T)
    BY FS_Union
<1>2. Cardinality(S \cap T) = 0
    BY FS_EmptySet
<1>3. Cardinality(S) \in Nat /\ Cardinality(T) \in Nat
    BY FS_CardinalityType
<1> QED
    BY <1>1, <1>2, <1>3

\* What the metrics count is finite.
LEMMA CountsFinite ==
    /\ \A l : IsFiniteSet(Counted(l))
    /\ IsFiniteSet(Pairs)
<1>1. \A l : IsFiniteSet(Counted(l))
    BY HandlerAssumption, FS_Subset DEF Counted
<1>2. IsFiniteSet(Requests \X Headers)
    BY HandlerAssumption, ConstantsAssumption, FS_Product
<1>3. Pairs \in SUBSET (Requests \X Headers)
    BY DEF Pairs
<1> QED
    BY <1>1, <1>2, <1>3, FS_Subset

\* When extractHeaders returns, the header map holds the headers the rules
\* carry, each once: len(headerMap) is their number.
LEMMA HeaderMapIsCarried ==
    ASSUME HandlerInv, NEW q \in Requests, Started(q), next[q] = Len(rules) + 1
    PROVE  {h \in Headers : headerMap[q][h] # NoValue}
               = {h \in Headers : Carried(rules, inbound[q], h)}
<1> SUFFICES ASSUME NEW h \in Headers
             PROVE  headerMap[q][h] # NoValue <=> Carried(rules, inbound[q], h)
    OBVIOUS
<1>1. TypeOK /\ ExtractedHeader(q, h)
    BY DEF HandlerInv, TypeInv, ExtractedOf
<1>2. headerMap[q][h] = IF Carried(rules, inbound[q], h) THEN hdr[q][h] ELSE NoValue
    BY <1>1 DEF ExtractedHeader, Carried
<1>3. ASSUME Carried(rules, inbound[q], h) PROVE hdr[q][h] # NoValue
  <2>1. CASE inbound[q].header[h] # NoValue
    BY <1>1, <2>1 DEF ExtractedHeader
  <2>2. CASE inbound[q].header[h] = NoValue
    <3>1. Len(rules) + 1 \in 1..(Len(rules) + 1)
        BY <1>1, LenType
    <3>2. GeneratedBefore(rules, inbound[q], h, next[q])
        BY <1>1, <1>3, <2>2, <3>1, CarriedHasValue DEF Carried
    <3>3. MadeFor(hdr[q][h], h)
        BY <1>1, <2>2, <3>2 DEF ExtractedHeader
    <3> QED
        BY <3>3, ValuesAssumption DEF MadeFor
  <2> QED
    BY <2>1, <2>2
<1> QED
    BY <1>2, <1>3

----------------------------------------------------------------------------
(* The steps *)

\* A step that neither forwards nor completes a request, and changes neither
\* the message of one that started nor the code of one that completed.
LEMMA SameCounts ==
    ASSUME UNCHANGED <<rules, total, propagated>>, TotalsExact, PropagatedExact,
           \A q \in Requests : (pc'[q] = "done" <=> pc[q] = "done"),
           \A q \in Requests : Forwarded(q)' <=> Forwarded(q),
           \A q \in Requests : Forwarded(q) => inbound'[q] = inbound[q],
           \A q \in Requests : pc[q] = "done" => wire'[q] = wire[q]
    PROVE  TotalsExact' /\ PropagatedExact'
<1>1. \A q \in Requests : pc[q] = "done" => inbound'[q] = inbound[q]
    BY DEF Forwarded
<1>2. \A l : Counted(l)' = Counted(l)
    BY <1>1 DEF Counted
<1>3. Pairs' = Pairs
    BY DEF Pairs
<1> QED
    BY <1>2, <1>3 DEF TotalsExact, PropagatedExact

\* Nothing is counted before a request arrived.
LEMMA InitMetricsInv == Init => MetricsInv
<1> SUFFICES ASSUME Init PROVE MetricsInv
    OBVIOUS
<1>1. \A l : Counted(l) = {}
    BY DEF Init, Counted
<1>2. Pairs = {}
    BY DEF Init, Pairs, Forwarded
<1>3. StatusOnWire
    BY DEF Init, StatusOnWire
<1>4. TotalsExact
    BY <1>1, FS_EmptySet DEF Init, TotalsExact
<1>5. PropagatedExact
    BY <1>2, FS_EmptySet DEF Init, PropagatedExact
<1> QED
    BY <1>3, <1>4, <1>5 DEF MetricsInv

\* Every step keeps the counts exact.
LEMMA StepMetricsInv == HandlerInv /\ MetricsInv /\ [Next]_vars => MetricsInv'
<1> SUFFICES ASSUME HandlerInv, MetricsInv, [Next]_vars PROVE MetricsInv'
    OBVIOUS
<1>t. TypeOK /\ Arrived /\ StatusOnWire /\ TotalsExact /\ PropagatedExact
    BY DEF HandlerInv, TypeInv, MetricsInv
<1>1. CASE \/ InitGenerator \/ NewProxyHandler \/ UNCHANGED vars
  <2>1. UNCHANGED <<rules, total, propagated, pc, inbound, wire, status>>
    BY <1>1 DEF InitGenerator, NewProxyHandler, vars, startup, ulid, extraction, response, metrics
  <2>2. TotalsExact' /\ PropagatedExact'
    BY <1>t, <2>1, SameCounts DEF Forwarded
  <2> QED
    BY <1>t, <2>1, <2>2 DEF MetricsInv, StatusOnWire
<1>2. ASSUME NEW q \in Requests, Arrive(q) PROVE MetricsInv'
  <2>1. /\ UNCHANGED <<rules, total, propagated, wire, status>>
        /\ pc[q] = "idle"
        /\ pc' = [pc EXCEPT ![q] = "extract"]
        /\ \A p \in Requests : p # q => inbound'[p] = inbound[p]
    BY <1>2, <1>t DEF Arrive, TypeOK, startup, response
  <2>2. \A p \in Requests : p # q => pc'[p] = pc[p]
    BY <1>t, <2>1 DEF TypeOK
  <2>3. pc'[q] = "extract"
    BY <1>t, <2>1 DEF TypeOK
  <2>4. TotalsExact' /\ PropagatedExact'
    BY <1>t, <2>1, <2>2, <2>3, SameCounts DEF Forwarded
  <2> QED
    BY <1>t, <2>1, <2>2, <2>3, <2>4 DEF MetricsInv, StatusOnWire
<1>3. ASSUME NEW q \in Requests,
             \/ SkipRule(q) \/ UseHeader(q) \/ GenerateUUID(q) \/ GenerateTimestamp(q)
             \/ LockULID(q) \/ DrawULID(q) \/ GenerateULID(q)
      PROVE  MetricsInv'
  <2>1. UNCHANGED <<rules, total, propagated, inbound, wire, status>>
    BY <1>3 DEF SkipRule, UseHeader, GenerateUUID, GenerateTimestamp, LockULID, DrawULID,
                GenerateULID, startup, response, metrics
  <2>2. /\ pc[q] \in {"extract", "locked", "drawn"}
        /\ pc' = pc \/ \E s \in {"extract", "locked", "drawn"} : pc' = [pc EXCEPT ![q] = s]
    BY <1>3 DEF SkipRule, UseHeader, GenerateUUID, GenerateTimestamp, LockULID, DrawULID,
                GenerateULID, Matching
  <2>3. \A p \in Requests : p # q => pc'[p] = pc[p]
    BY <1>t, <2>2 DEF TypeOK
  <2>4. pc'[q] \in {"extract", "locked", "drawn"}
    BY <1>t, <2>2 DEF TypeOK
  <2>5. TotalsExact' /\ PropagatedExact'
    BY <1>t, <2>1, <2>2, <2>3, <2>4, SameCounts DEF Forwarded
  <2> QED
    BY <1>t, <2>1, <2>3, <2>4, <2>5 DEF MetricsInv, StatusOnWire
<1>4. ASSUME NEW q \in Requests, Forward(q) PROVE MetricsInv'
  <2> DEFINE Mine == {h \in Headers : Carried(rules, inbound[q], h)}
  <2>1. /\ UNCHANGED <<rules, total, inbound, wire, status>>
        /\ pc[q] = "extract"
        /\ next[q] > Len(rules)
        /\ pc' = [pc EXCEPT ![q] = "roundtrip"]
        /\ propagated' = propagated + HeaderCount(q)
    BY <1>4 DEF Forward, startup, response
  <2>2. \A p \in Requests : p # q => pc'[p] = pc[p]
    BY <1>t, <2>1 DEF TypeOK
  <2>3. pc'[q] = "roundtrip"
    BY <1>t, <2>1 DEF TypeOK
  <2>4. next[q] = Len(rules) + 1
    BY <1>t, <2>1, LenType DEF TypeOK
  <2>5. HeaderCount(q) = Cardinality(Mine)
    <3>1. {h \in Headers : headerMap[q][h] # NoValue} = Mine
        BY <2>1, <2>4, HeaderMapIsCarried
    <3> HIDE DEF Mine
    <3> QED
        BY <3>1 DEF HeaderCount
  <2>6. IsFiniteSet(Mine)
    BY ConstantsAssumption, FS_Subset
  <2>7. Pairs' = Pairs \cup ({q} \X Mine)
    BY <2>1, <2>2, <2>3 DEF Pairs, Forwarded
  <2>8. Pairs \cap ({q} \X Mine) = {}
    BY <2>1 DEF Pairs, Forwarded
  <2> HIDE DEF Mine
  <2>9. Cardinality(Pairs') = Cardinality(Pairs) + Cardinality(Mine)
    <3>1. IsFiniteSet({q} \X Mine) /\ Cardinality({q} \X Mine) = Cardinality(Mine)
        BY <2>6, PairsOfOne
    <3>2. IsFiniteSet(Pairs)
        BY CountsFinite
    <3>3. Cardinality(Pairs \cup ({q} \X Mine)) = Cardinality(Pairs) + Cardinality({q} \X Mine)
        BY <2>8, <3>1, <3>2, DisjointSum
    <3> QED
        BY <2>7, <3>1, <3>3
  <2>10. PropagatedExact'
    BY <1>t, <2>1, <2>5, <2>9 DEF PropagatedExact
  <2>11. \A l : Counted(l)' = Counted(l)
    BY <2>1, <2>2, <2>3 DEF Counted
  <2>12. TotalsExact'
    BY <1>t, <2>1, <2>11 DEF TotalsExact
  <2> QED
    BY <1>t, <2>1, <2>2, <2>3, <2>10, <2>12 DEF MetricsInv, StatusOnWire
<1>5. ASSUME NEW q \in Requests, RoundTrip(q) PROVE MetricsInv'
  <2>1. /\ UNCHANGED <<rules, total, propagated, inbound, wire, status>>
        /\ pc[q] = "roundtrip"
        /\ pc' = [pc EXCEPT ![q] = "upstream"]
    BY <1>5 DEF RoundTrip, startup, response, metrics
  <2>2. \A p \in Requests : p # q => pc'[p] = pc[p]
    BY <1>t, <2>1 DEF TypeOK
  <2>3. pc'[q] = "upstream"
    BY <1>t, <2>1 DEF TypeOK
  <2>4. TotalsExact' /\ PropagatedExact'
    BY <1>t, <2>1, <2>2, <2>3, SameCounts DEF Forwarded
  <2> QED
    BY <1>t, <2>1, <2>2, <2>3, <2>4 DEF MetricsInv, StatusOnWire
<1>6. ASSUME NEW q \in Requests,
             Informational(q) \/ (\E c \in Codes : Answer(q, c)) \/ BadGateway(q)
      PROVE  MetricsInv'
  <2>1. PICK c \in Recorded :
            /\ WriteHeader(q, c)
            /\ pc[q] = "upstream"
            /\ \/ pc' = pc
               \/ /\ c \notin 100..199
                  /\ \E s \in {"copy", "return"} : pc' = [pc EXCEPT ![q] = s]
    <3>1. CASE Informational(q)
        BY <3>1 DEF Informational, Recorded
    <3>2. CASE \E c \in Codes : Answer(q, c)
      <4>1. PICK c \in Codes : Answer(q, c)
        BY <3>2
      <4>2. c \in Recorded /\ c \notin 100..199
        BY <4>1, HandlerAssumption DEF Answer, Recorded
      <4> QED
        BY <4>1, <4>2 DEF Answer
    <3>3. CASE BadGateway(q)
      <4>1. 502 \in Recorded /\ 502 \notin 100..199
        BY DEF Recorded
      <4> QED
        BY <3>3, <4>1 DEF BadGateway
    <3> QED
        BY <1>6, <3>1, <3>2, <3>3
  <2>2. UNCHANGED <<rules, total, propagated, inbound>>
    BY <1>6 DEF Informational, Answer, BadGateway, startup, metrics
  <2>3. \A p \in Requests : p # q =>
            pc'[p] = pc[p] /\ wire'[p] = wire[p] /\ status'[p] = status[p]
    BY <1>t, <2>1 DEF TypeOK, WriteHeader
  <2>4. pc'[q] \in {"upstream", "copy", "return"}
    BY <1>t, <2>1 DEF TypeOK
  <2>5. pc'[q] # "upstream" => wire'[q] = status'[q]
    BY <1>t, <2>1 DEF TypeOK, WriteHeader
  <2>6. TotalsExact' /\ PropagatedExact'
    BY <1>t, <2>1, <2>2, <2>3, <2>4, SameCounts DEF Forwarded
  <2>7. StatusOnWire'
    BY <1>t, <2>3, <2>4, <2>5 DEF StatusOnWire
  <2> QED
    BY <2>6, <2>7 DEF MetricsInv
<1>7. ASSUME NEW q \in Requests, Complete(q) PROVE MetricsInv'
  <2> DEFINE mine == <<inbound[q].method, status[q]>>
  <2>1. /\ UNCHANGED <<rules, propagated, inbound, wire, status>>
        /\ pc[q] \in {"copy", "return"}
        /\ pc' = [pc EXCEPT ![q] = "done"]
        /\ total' = [total EXCEPT ![mine] = @ + 1]
    BY <1>7 DEF Complete, startup, response
  <2>2. \A p \in Requests : p # q => pc'[p] = pc[p]
    BY <1>t, <2>1 DEF TypeOK
  <2>3. pc'[q] = "done"
    BY <1>t, <2>1 DEF TypeOK
  <2>4. inbound[q].method \in Methods /\ status[q] \in Recorded /\ wire[q] = status[q]
    <3>1. inbound[q] \in Message
        BY <1>t, <2>1, HandlerAssumption DEF Arrived
    <3>2. inbound[q].method \in Methods
        BY <3>1 DEF Message
    <3>3. status[q] \in Recorded
        BY <1>t DEF TypeOK
    <3>4. wire[q] = status[q]
        BY <1>t, <2>1 DEF StatusOnWire
    <3> QED
        BY <3>2, <3>3, <3>4
  <2>5. ASSUME NEW l \in Methods \X Recorded
        PROVE  total'[l] = Cardinality(Counted(l)')
    <3>1. total \in [Methods \X Recorded -> Nat] /\ total[l] = Cardinality(Counted(l))
        BY <1>t DEF TypeOK, TotalsExact
    <3>2. IsFiniteSet(Counted(l)) /\ q \notin Counted(l)
        BY <2>1, CountsFinite DEF Counted
    <3>3. CASE l = mine
      <4>1. Counted(l)' = Counted(l) \cup {q}
        BY <2>1, <2>2, <2>3, <2>4, <3>3 DEF Counted
      <4>2. total'[l] = total[l] + 1
        BY <2>1, <3>1, <3>3
      <4> QED
        BY <3>1, <3>2, <4>1, <4>2, FS_AddElement
    <3>4. CASE l # mine
      <4>1. ~ (inbound[q].method = l[1] /\ wire[q] = l[2])
        BY <2>4, <3>4
      <4>2. Counted(l)' = Counted(l)
        BY <2>1, <2>2, <2>3, <4>1 DEF Counted
      <4>3. total'[l] = total[l]
        BY <2>1, <3>1, <3>4
      <4> QED
        BY <3>1, <4>2, <4>3
    <3> QED
        BY <3>3, <3>4
  <2>6. Pairs' = Pairs
    BY <2>1, <2>2, <2>3 DEF Pairs, Forwarded
  <2>7. TotalsExact' /\ PropagatedExact'
    BY <1>t, <2>1, <2>5, <2>6 DEF TotalsExact, PropagatedExact
  <2>8. StatusOnWire'
    BY <1>t, <2>1, <2>2, <2>4 DEF StatusOnWire
  <2> QED
    BY <2>7, <2>8 DEF MetricsInv
<1>8. ASSUME NEW q \in Requests, Abort(q) PROVE MetricsInv'
  <2>1. /\ UNCHANGED <<rules, total, propagated, inbound, wire, status>>
        /\ pc[q] = "copy"
        /\ pc' = [pc EXCEPT ![q] = "aborted"]
    BY <1>8 DEF Abort, startup, response
  <2>2. \A p \in Requests : p # q => pc'[p] = pc[p]
    BY <1>t, <2>1 DEF TypeOK
  <2>3. pc'[q] = "aborted"
    BY <1>t, <2>1 DEF TypeOK
  <2>4. TotalsExact' /\ PropagatedExact'
    BY <1>t, <2>1, <2>2, <2>3, SameCounts DEF Forwarded
  <2> QED
    BY <1>t, <2>1, <2>2, <2>3, <2>4 DEF MetricsInv, StatusOnWire
<1> QED
    BY <1>1, <1>2, <1>3, <1>4, <1>5, <1>6, <1>7, <1>8 DEF Next, Handle, Respond

\* The metrics' invariant always holds.
LEMMA MetricsInvariant == Spec => []MetricsInv
<1> QED
    BY InitMetricsInv, StepMetricsInv, HandlerInvariant, PTL DEF Spec

\* requests_total never counts a request under another code than the one its
\* client got, nor one whose copying a panic cut off: the ResponseWriter
\* overwrites the informational codes it saw with the final one.
THEOREM TotalsCorrect == Spec => []TotalsAgree
<1>1. MetricsInv => TotalsAgree
    BY DEF MetricsInv, TotalsExact, TotalsAgree, Counted
<1> QED
    BY <1>1, MetricsInvariant, PTL

\* headers_propagated_total grows by exactly the number of headers the rules
\* carry, once per forwarded request, however many rules name a header and
\* however requests interleave in extractHeaders.
THEOREM PropagatedCorrect == Spec => []PropagatedAgrees
<1>1. TypeOK /\ MetricsInv => PropagatedAgrees
  <2> SUFFICES ASSUME TypeOK, MetricsInv PROVE PropagatedAgrees
    OBVIOUS
  <2>1. \A q \in Requests :
            Stage[q] \in {"delivered", "closed"} \/ pc[q] = "roundtrip" <=> Forwarded(q)
    BY DEF Stage, StageOf, Forwarded, TypeOK, States
  <2>2. Pairs = {p \in Requests \X Headers :
            /\ Stage[p[1]] \in {"delivered", "closed"} \/ pc[p[1]] = "roundtrip"
            /\ Carried(rules, inbound[p[1]], p[2])}
    BY <2>1 DEF Pairs
  <2> QED
    BY <2>2 DEF MetricsInv, PropagatedExact, PropagatedAgrees
<1> QED
    BY <1>1, MetricsInvariant, TypeCorrect, PTL

============================================================================
