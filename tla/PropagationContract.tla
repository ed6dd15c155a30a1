------------------------ MODULE PropagationContract ------------------------
(***************************************************************************)
(* What the sidecar promises about the headers of a request, without       *)
(* saying how: a header the client sent reaches the application as sent, a *)
(* missing header that a matching rule generates is made up exactly once,  *)
(* by a generator the rules name, with an identifier no other request got, *)
(* and a hop-by-hop header survives only if a rule propagates it.          *)
(* ProxyHandler implements this specification.                             *)
(***************************************************************************)
EXTENDS HeaderRules

CONSTANTS
    Requests,     \* identities of requests
    Inbound,      \* the messages clients may send
    RuleConfigs,  \* the rule lists the sidecar may be configured with
    NoMessage     \* inbound of a request that has not arrived

VARIABLES
    rules,    \* the configured rules
    inbound,  \* request -> message received
    stage,    \* request -> "idle", "open", "delivered" or "closed"
    made,     \* request -> header -> value generated for it
    got       \* request -> header -> value the application received

vars == <<rules, inbound, stage, made, got>>

Init ==
    /\ rules \in RuleConfigs
    /\ inbound = [q \in Requests |-> NoMessage]
    /\ stage = [q \in Requests |-> "idle"]
    /\ made = [q \in Requests |-> NoHeaders]
    /\ got = [q \in Requests |-> NoHeaders]

Open(q) ==
    /\ stage[q] = "idle"
    /\ \E m \in Inbound : inbound' = [inbound EXCEPT ![q] = m]
    /\ stage' = [stage EXCEPT ![q] = "open"]
    /\ UNCHANGED <<rules, made, got>>

\* A timestamp may repeat; no other generated value may.
Fresh(v, h) == v.gen = "timestamp" \/ \A p \in Requests : made[p][h] # v

Generate(q, h) ==
    /\ stage[q] = "open"
    /\ MustGenerate(rules, inbound[q], h)
    /\ made[q][h] = NoValue
    /\ \E v \in Identifier :
          /\ v.gen \in TypesFor(rules, h)
          /\ Fresh(v, h)
          /\ made' = [made EXCEPT ![q][h] = v]
    /\ UNCHANGED <<rules, inbound, stage, got>>

\* The value header h of request q has inside the sidecar.
Effective(q, h) ==
    IF inbound[q].header[h] # NoValue THEN inbound[q].header[h] ELSE made[q][h]

Deliver(q) ==
    /\ stage[q] = "open"
    /\ \A h \in Headers : MustGenerate(rules, inbound[q], h) => made[q][h] # NoValue
    /\ got' = [got EXCEPT ![q] = [h \in Headers |->
                  IF h \in inbound[q].hop /\ ~ Carried(rules, inbound[q], h)
                  THEN NoValue
                  ELSE Effective(q, h)]]
    /\ stage' = [stage EXCEPT ![q] = "delivered"]
    /\ UNCHANGED <<rules, inbound, made>>

Close(q) ==
    /\ stage[q] = "delivered"
    /\ stage' = [stage EXCEPT ![q] = "closed"]
    /\ UNCHANGED <<rules, inbound, made, got>>

Next ==
    \E q \in Requests :
        \/ Open(q)
        \/ \E h \in Headers : Generate(q, h)
        \/ Deliver(q)
        \/ Close(q)

Spec == Init /\ [][Next]_vars

----------------------------------------------------------------------------
\* Two requests never carry the same generated identifier in a header,
\* timestamps apart: the identifiers of internal/generator correlate the
\* calls of one request and of no other.
NoSharedIdentifier ==
    \A p, q \in Requests, h \in Headers :
        (p # q /\ made[p][h] = made[q][h] /\ made[p][h] # NoValue)
            => made[p][h].gen = "timestamp"

============================================================================
