-------------------------- MODULE PodTrafficProofs --------------------------
(***************************************************************************)
(* Proofs about PodTraffic, for any pods, with or without a sidecar, and   *)
(* any number of calls.                                                    *)
(***************************************************************************)
EXTENDS PodTraffic, TLAPS

\* The trace of a call leads to a client's call, which was served before it
\* led to another, and the identifier of the trace is that of its root.
TraceInv ==
    \A c \in Calls :
        LET r == call[c].root
        IN  /\ Unused(c) => r = c
            /\ ~ Unused(r) \/ r = c
            /\ call[r].root = r
            /\ r # c => /\ Served(r)
                        /\ call[r].id # NoId => call[c].id = call[r].id

TrafficInv == TypeOK /\ TraceInv

----------------------------------------------------------------------------
(* Types *)

\* A step gives one call a new record and leaves the others alone.
Becomes(c, n) == call' = [call EXCEPT ![c] = n]

\* What a client sends, a sidecar forwards and an application calls or answers
\* are calls, and only the sidecar of a pod that has one holds a call.
LEMMA StepTraffic ==
    ASSUME TypeOK, Next
    PROVE  \E c \in Calls, n \in Call :
              /\ Becomes(c, n)
              /\ n.at \in {"sidecar", "by sidecar"} => n.pod \in Injected
              /\ \/ \* ClientCalls
                    Unused(c) /\ n.root = c /\ n.at \in {"sidecar", "app"}
                 \/ \* SidecarForwards
                    /\ call[c].at = "sidecar" /\ n.root = call[c].root
                    /\ \/ n.at = "by sidecar" /\ n.id = call[c].id
                       \/ n.at = "app" /\ n.id = HeaderValue(c)
                 \/ \* AppAnswers
                    /\ call[c].at = "app" /\ n.at = "by app"
                    /\ n.root = call[c].root /\ n.id = call[c].id
                 \/ \* AppCalls
                    /\ Unused(c) /\ n.at \in {"sidecar", "app"}
                    /\ \E b \in Calls :
                          /\ call[b].at = "app" /\ n.root = call[b].root
                          /\ call[b].pod \in Copying => n.id = call[b].id
<1>1. PICK c \in Calls : ClientCalls(c) \/ SidecarForwards(c) \/ AppAnswers(c)
                            \/ \E d \in Calls : AppCalls(c, d)
    BY DEF Next
<1>2. call \in [Calls -> Call] /\ call[c] \in Call
    BY DEF TypeOK
<1>3. call[c].at \in {"sidecar", "by sidecar"} => call[c].pod \in Injected
    BY DEF TypeOK
<1>4. CASE ClientCalls(c)
    <2>1. PICK p \in Pods, t \in Paths, i \in {c, NoId} :
             call' = [call EXCEPT ![c] = [at |-> Door(p), pod |-> p, dest |-> p,
                                          root |-> c, id |-> i, path |-> t]]
        BY <1>4 DEF ClientCalls
    <2> DEFINE n == [at |-> Door(p), pod |-> p, dest |-> p, root |-> c, id |-> i, path |-> t]
    <2>2. Unused(c) /\ Door(p) \in {"sidecar", "app"} /\ (Door(p) = "sidecar" => p \in Injected)
        BY <1>4 DEF ClientCalls, Door
    <2>3. n \in Call
        BY <2>2 DEF Call
    <2> QED
        BY <2>1, <2>2, <2>3 DEF Becomes
<1>5. CASE SidecarForwards(c)
    <2>1. HeaderValue(c) \in Calls \cup {NoId}
        BY <1>2 DEF HeaderValue, Call
    <2>2. CASE call[c].path \in OwnPaths
        <3> DEFINE n == [call[c] EXCEPT !.at = "by sidecar"]
        <3>1. call' = [call EXCEPT ![c] = n]
            BY <1>5, <2>2 DEF SidecarForwards
        <3>2. n \in Call /\ n.at = "by sidecar" /\ n.root = call[c].root /\ n.id = call[c].id
                 /\ n.pod = call[c].pod
            BY <1>2 DEF Call
        <3> QED
            BY <1>3, <1>5, <3>1, <3>2 DEF Becomes, SidecarForwards
    <2>3. CASE call[c].path \notin OwnPaths
        <3> DEFINE n == [call[c] EXCEPT !.at = "app", !.id = HeaderValue(c)]
        <3>1. call' = [call EXCEPT ![c] = n]
            BY <1>5, <2>3 DEF SidecarForwards
        <3>2. n \in Call /\ n.at = "app" /\ n.root = call[c].root /\ n.id = HeaderValue(c)
            BY <1>2, <2>1 DEF Call
        <3> QED
            BY <1>5, <3>1, <3>2 DEF Becomes, SidecarForwards
    <2> QED
        BY <2>2, <2>3
<1>6. CASE AppAnswers(c)
    <2> DEFINE n == [call[c] EXCEPT !.at = "by app"]
    <2>1. call' = [call EXCEPT ![c] = n]
        BY <1>6 DEF AppAnswers
    <2>2. n \in Call /\ n.at = "by app" /\ n.root = call[c].root /\ n.id = call[c].id
        BY <1>2 DEF Call
    <2> QED
        BY <1>6, <2>1, <2>2 DEF Becomes, AppAnswers
<1>7. ASSUME NEW d \in Calls, AppCalls(c, d)
      PROVE  \E n \in Call :
                /\ Becomes(d, n)
                /\ n.at \in {"sidecar", "by sidecar"} => n.pod \in Injected
                /\ n.at \in {"sidecar", "app"} /\ n.root = call[c].root
                /\ call[c].pod \in Copying => n.id = call[c].id
    <2> DEFINE p == call[c].pod
    <2>1. PICK q \in Pods, t \in OwnPaths \cup Paths, scheme \in {"http", "https"} :
             call' = [call EXCEPT ![d] =
                  [at |-> IF ViaProxy(p, q, scheme) THEN "sidecar"
                          ELSE IF q = p \/ scheme = "https" THEN "app" ELSE Door(q),
                   pod |-> IF ViaProxy(p, q, scheme) THEN p ELSE q,
                   dest |-> q, root |-> call[c].root, path |-> t,
                   id |-> IF p \in Copying THEN call[c].id ELSE NoId]]
        BY <1>7 DEF AppCalls
    <2> DEFINE a == IF ViaProxy(p, q, scheme) THEN "sidecar"
                    ELSE IF q = p \/ scheme = "https" THEN "app" ELSE Door(q)
               w == IF ViaProxy(p, q, scheme) THEN p ELSE q
               i == IF p \in Copying THEN call[c].id ELSE NoId
               n == [at |-> a, pod |-> w, dest |-> q, root |-> call[c].root, path |-> t,
                     id |-> i]
    <2>2. a \in {"sidecar", "app"} /\ (a = "sidecar" => w \in Injected)
        BY DEF ViaProxy, Door
    <2>3. w \in Pods /\ i \in Calls \cup {NoId} /\ call[c].root \in Calls
        BY <1>2 DEF Call
    <2> HIDE DEF a, w, i
    <2>4. n \in Call /\ n.at = a /\ n.pod = w /\ n.root = call[c].root /\ n.id = i
        BY <2>2, <2>3 DEF Call
    <2>5. Becomes(d, n)
        BY <2>1 DEF Becomes, a, w, i
    <2> QED
        BY <2>2, <2>4, <2>5 DEF i
<1> QED
    BY <1>1, <1>4, <1>5, <1>6, <1>7 DEF AppCalls

----------------------------------------------------------------------------
(* The invariant *)

\* Before any call, every call is its own root.
LEMMA InitTraffic == Init => TrafficInv
<1> SUFFICES ASSUME Init PROVE TrafficInv
    OBVIOUS
<1>1. PICK p \in Pods, t \in Paths :
         call = [c \in Calls |-> [at |-> "none", pod |-> p, dest |-> p, root |-> c,
                                  id |-> NoId, path |-> t]]
    BY DEF Init
<1>2. \A c \in Calls : call[c].at = "none" /\ call[c].root = c
    BY <1>1
<1>3. TypeOK
    BY <1>1, <1>2 DEF TypeOK, Call
<1>4. TraceInv
    BY <1>2 DEF TraceInv, Unused, Served
<1> QED
    BY <1>3, <1>4 DEF TrafficInv

\* Every step of a client, a sidecar or an application keeps the types.
LEMMA TypeStep == TypeOK /\ [Next]_vars => TypeOK'
<1> SUFFICES ASSUME TypeOK, [Next]_vars PROVE TypeOK'
    OBVIOUS
<1>1. CASE UNCHANGED vars
    BY <1>1 DEF vars, TypeOK
<1>2. CASE Next
    <2>1. PICK c \in Calls, n \in Call :
             /\ Becomes(c, n)
             /\ n.at \in {"sidecar", "by sidecar"} => n.pod \in Injected
        BY <1>2, StepTraffic
    <2> QED
        BY <2>1 DEF TypeOK, Becomes
<1> QED
    BY <1>1, <1>2

\* The type invariant holds whichever applications copy the header.
THEOREM TrafficTypeCorrect == Spec => []TypeOK
<1>1. Init => TypeOK
    BY InitTraffic DEF TrafficInv
<1> QED
    BY <1>1, TypeStep, PTL DEF Spec

----------------------------------------------------------------------------
(* One identifier per trace *)

\* What a step does to the call c that it changes leaves every trace with the
\* identifier of its root: a call that is made joins the trace of a served
\* call with its identifier, a sidecar keeps an identifier that is there, and
\* no call of a trace is made before its root is served.
LEMMA TraceStep ==
    ASSUME Copying = Pods, TrafficInv, Next
    PROVE  TraceInv'
<1>1. PICK c \in Calls, n \in Call :
          /\ Becomes(c, n)
          /\ \/ Unused(c) /\ n.root = c /\ n.at \in {"sidecar", "app"}
             \/ /\ call[c].at = "sidecar" /\ n.root = call[c].root
                /\ \/ n.at = "by sidecar" /\ n.id = call[c].id
                   \/ n.at = "app" /\ n.id = HeaderValue(c)
             \/ /\ call[c].at = "app" /\ n.at = "by app"
                /\ n.root = call[c].root /\ n.id = call[c].id
             \/ /\ Unused(c) /\ n.at \in {"sidecar", "app"}
                /\ \E b \in Calls :
                      /\ call[b].at = "app" /\ n.root = call[b].root
                      /\ call[b].pod \in Copying => n.id = call[b].id
    BY StepTraffic DEF TrafficInv
<1>2. call' \in [Calls -> Call] /\ call'[c] = n /\ \A d \in Calls : d # c => call'[d] = call[d]
    BY <1>1 DEF Becomes, TrafficInv, TypeOK
<1>3. \A d \in Calls : call[d].root \in Calls /\ call[d].pod \in Pods
    BY DEF TrafficInv, TypeOK, Call
<1>4. n.at # "none"
    BY <1>1
\* An unused call is the root of itself alone.
<1>5. ASSUME Unused(c) PROVE \A d \in Calls : d # c => call[d].root # c
    BY <1>3, <1>5 DEF TrafficInv, TraceInv, Unused, Served
\* A call that is not served is the root of itself alone.
<1>6. ASSUME ~ Served(c) PROVE \A d \in Calls : d # c => call[d].root # c
    BY <1>6 DEF TrafficInv, TraceInv
<1>7. SUFFICES ASSUME NEW d \in Calls
               PROVE  LET r == call'[d].root
                      IN  /\ call'[d].at = "none" => r = d
                          /\ call'[r].at # "none" \/ r = d
                          /\ call'[r].root = r
                          /\ r # d => /\ call'[r].at \in {"app", "by app"}
                                      /\ call'[r].id # NoId => call'[d].id = call'[r].id
    BY DEF TraceInv, Unused, Served
\* The trace of another call than c.
<1>8. CASE d # c
    <2> DEFINE r == call[d].root
    <2>1. call'[d] = call[d] /\ r \in Calls
        BY <1>2, <1>3, <1>8
    <2>2. /\ call[d].at = "none" => r = d
          /\ call[r].at # "none" \/ r = d
          /\ call[r].root = r
          /\ r # d => /\ Served(r)
                      /\ call[r].id # NoId => call[d].id = call[r].id
        BY DEF TrafficInv, TraceInv, Unused
    <2>3. CASE r # c
        BY <1>2, <2>1, <2>2, <2>3 DEF Served
    <2>4. CASE r = c
        <3>1. Served(c)
            BY <1>6, <1>8, <2>4
        <3>2. n.at = "by app" /\ n.root = call[c].root /\ n.id = call[c].id
            BY <1>1, <3>1 DEF Served, Unused
        <3> QED
            BY <1>2, <1>8, <2>1, <2>2, <2>4, <3>2
    <2> QED
        BY <2>3, <2>4
\* The trace of c.
<1>9. CASE d = c
    <2>1. CASE n.root = c
        BY <1>2, <1>4, <1>9, <2>1
    <2>2. CASE n.root # c
        <3>1. ~ Unused(c) => n.root = call[c].root
            BY <1>1
        <3>2. CASE n.root = call[c].root
            <4> DEFINE r == call[c].root
            <4>1. r \in Calls /\ call'[r] = call[r]
                BY <1>2, <1>3, <2>2, <3>2
            <4>2. /\ call[r].root = r /\ Served(r)
                  /\ call[r].id # NoId => call[c].id = call[r].id
                BY <2>2, <3>2 DEF TrafficInv, TraceInv
            <4>3. ~ Unused(c)
                BY <2>2, <3>2 DEF TrafficInv, TraceInv
            <4>4. call[r].id # NoId => n.id = call[r].id
                BY <1>1, <4>2, <4>3 DEF HeaderValue
            <4> QED
                BY <1>2, <1>4, <1>9, <2>2, <3>2, <4>1, <4>2, <4>4 DEF Served
        <3>3. CASE n.root # call[c].root
            <4>1. PICK b \in Calls : /\ call[b].at = "app" /\ n.root = call[b].root
                                     /\ n.id = call[b].id
                BY <1>1, <1>3, <2>2, <3>3
            <4> DEFINE r == call[b].root
            <4>2. r \in Calls /\ call'[r] = call[r]
                BY <1>2, <1>3, <2>2, <4>1
            <4>3. /\ call[r].root = r
                  /\ r # b => /\ Served(r)
                              /\ call[r].id # NoId => call[b].id = call[r].id
                BY DEF TrafficInv, TraceInv
            <4>4. Served(r)
                BY <4>1, <4>3 DEF Served
            <4> QED
                BY <1>2, <1>4, <1>9, <2>2, <4>1, <4>2, <4>3, <4>4 DEF Served
        <3> QED
            BY <3>2, <3>3
    <2> QED
        BY <2>1, <2>2
<1> QED
    BY <1>8, <1>9

\* Where every application copies the header, whatever the pods, the sidecars
\* and the calls, all served calls of a trace carry the identifier of its root.
THEOREM TracesKeepIdentifier ==
    ASSUME Copying = Pods
    PROVE  Spec => []OneIdentifierPerTrace
<1>1. TrafficInv /\ [Next]_vars => TrafficInv'
    <2> SUFFICES ASSUME TrafficInv, [Next]_vars PROVE TrafficInv'
        OBVIOUS
    <2>1. TypeOK'
        BY TypeStep DEF TrafficInv
    <2>2. CASE UNCHANGED vars
        BY <2>2 DEF vars, TrafficInv, TypeOK, TraceInv, Unused, Served
    <2>3. CASE Next
        BY <2>1, <2>3, TraceStep DEF TrafficInv
    <2> QED
        BY <2>2, <2>3
<1>2. TrafficInv => OneIdentifierPerTrace
    BY DEF TrafficInv, TraceInv, OneIdentifierPerTrace
<1> QED
    BY InitTraffic, <1>1, <1>2, PTL DEF Spec

============================================================================
