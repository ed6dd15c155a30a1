---------------------------- MODULE ProxyHandler ----------------------------
(***************************************************************************)
(* The sidecar's request handler: handler.ProxyHandler, the transport that *)
(* injects headers, the generators they share and the metrics they record. *)
(* net/http runs ServeHTTP in a goroutine per request, so the requests     *)
(* interleave; they share the generators (a ULID generator is a mutex and  *)
(* a random source) and the process-wide metrics.  httputil.ReverseProxy   *)
(* and the base transport are modelled from how the handler uses them: the *)
(* outbound request is a copy without its hop-by-hop headers, the answer   *)
(* is written through metrics.ResponseWriter, an error goes to the         *)
(* ErrorHandler, and a failure while copying the body panics with          *)
(* http.ErrAbortHandler.                                                   *)
(***************************************************************************)
EXTENDS HeaderRules

CONSTANTS
    Requests,     \* identities of requests
    Inbound,      \* the messages clients may send
    RuleConfigs,  \* the rule lists config.Load may return
    NoMessage,    \* inbound of a request that has not arrived
    Nobody,       \* holder of a free mutex
    Codes,        \* final status codes the application may answer with: of
                  \* the informational ones, the transport returns only 101
    Instants      \* the instants the clock may show

ASSUME HandlerAssumption ==
    /\ IsFiniteSet(Requests)
    /\ Inbound \subseteq Message
    /\ RuleConfigs \subseteq Seq(Rule)
    /\ NoMessage \notin Inbound
    /\ Nobody \notin Requests
    /\ Codes \subseteq Nat
    /\ \A c \in Codes : c \in 100..199 => c = 101
    /\ Instants \subseteq Serials

VARIABLES
    \* the handler, built once by NewProxyHandler
    rules,       \* h.rules
    handler,     \* "new" while NewProxyHandler runs, then "serving", or "failed"
    built,       \* index of the rule NewProxyHandler looks at
    generators,  \* h.generators: header -> type of its generator, "none" if absent
    \* the ULID generators
    mu,          \* header -> goroutine holding ULIDGenerator.mu
    rand,        \* header -> draws made so far from the generator's random source
    \* one goroutine per request
    pc,          \* where ServeHTTP is
    inbound,     \* the message received
    hdr,         \* r.Header, which extractHeaders also writes
    next,        \* index of the rule extractHeaders looks at
    drawn,       \* what ULIDGenerator.Generate read from its random source
    headerMap,   \* the context's header map
    out,         \* headers of the outbound request
    status,      \* ResponseWriter.StatusCode
    wire,        \* the final status code written to the client, 0 before
    \* metrics
    active,      \* active_connections
    propagated,  \* headers_propagated_total
    total        \* requests_total by method and status

startup == <<rules, handler, built, generators>>
ulid == <<mu, rand, drawn>>
extraction == <<hdr, next, headerMap>>
response == <<status, wire>>
metrics == <<active, propagated, total>>
vars == <<startup, ulid, pc, inbound, extraction, out, response, metrics>>

\* Codes that ServeHTTP may record: the application's and its own.
Recorded == Codes \cup {103, 200, 502}

Init ==
    /\ rules \in RuleConfigs
    /\ handler = "new"
    /\ built = 1
    /\ generators = [h \in Headers |-> "none"]
    /\ mu = [h \in Headers |-> Nobody]
    /\ rand = [h \in Headers |-> 0]
    /\ pc = [q \in Requests |-> "idle"]
    /\ inbound = [q \in Requests |-> NoMessage]
    /\ hdr = [q \in Requests |-> NoHeaders]
    /\ next = [q \in Requests |-> 1]
    /\ drawn = [q \in Requests |-> 0]
    /\ headerMap = [q \in Requests |-> NoHeaders]
    /\ out = [q \in Requests |-> NoHeaders]
    /\ status = [q \in Requests |-> 200]
    /\ wire = [q \in Requests |-> 0]
    /\ active = 0
    /\ propagated = 0
    /\ total = [l \in Methods \X Recorded |-> 0]

----------------------------------------------------------------------------
(* NewProxyHandler *)

\* One iteration of the loop that creates the generators.  A later rule for
\* the same header replaces the generator of an earlier one.
InitGenerator ==
    /\ handler = "new"
    /\ built <= Len(rules)
    /\ LET rule == rules[built]
           known == rule.generatorType \in GeneratorTypes
       IN  /\ generators' = IF rule.generate /\ known
                            THEN [generators EXCEPT ![Key(rule)] = rule.generatorType]
                            ELSE generators
           /\ handler' = IF rule.generate /\ ~ known THEN "failed" ELSE "new"
    /\ built' = built + 1
    /\ UNCHANGED <<rules, ulid, pc, inbound, extraction, out, response, metrics>>

NewProxyHandler ==
    /\ handler = "new"
    /\ built > Len(rules)
    /\ handler' = "serving"
    /\ UNCHANGED <<rules, built, generators>>
    /\ UNCHANGED <<ulid, pc, inbound, extraction, out, response, metrics>>

----------------------------------------------------------------------------
(* ServeHTTP and extractHeaders *)

\* ServeHTTP starts: the gauge is incremented and extractHeaders begins.
Arrive(q) ==
    /\ handler = "serving"
    /\ pc[q] = "idle"
    /\ \E m \in Inbound :
          /\ inbound' = [inbound EXCEPT ![q] = m]
          /\ hdr' = [hdr EXCEPT ![q] = m.header]
    /\ pc' = [pc EXCEPT ![q] = "extract"]
    /\ active' = active + 1
    /\ UNCHANGED <<startup, ulid, next, headerMap, out, response, propagated, total>>

\* The rule the loop of extractHeaders looks at, its header, and whether it applies.
Current(q) == rules[next[q]]
Name(q) == Key(Current(q))
Matching(q) ==
    /\ pc[q] = "extract"
    /\ next[q] <= Len(rules)
    /\ MatchesRequest(Current(q), inbound[q].path, inbound[q].method)

\* As Missing, but overwriting a header the client sent.
MissingIgnored(q) ==
    /\ Current(q).generate
    /\ generators[Name(q)] # "none"

\* The rule must generate the header: it is missing and has a generator.
Missing(q) ==
    /\ hdr[q][Name(q)] = NoValue
    /\ Current(q).generate
    /\ generators[Name(q)] # "none"

\* The end of an iteration, with the header's value.
Propagate(q, value) ==
    /\ headerMap' = IF value # NoValue /\ Current(q).propagate
                    THEN [headerMap EXCEPT ![q][Name(q)] = value]
                    ELSE headerMap
    /\ next' = [next EXCEPT ![q] = @ + 1]

\* The rule does not apply to this request.
SkipRule(q) ==
    /\ pc[q] = "extract"
    /\ next[q] <= Len(rules)
    /\ ~ MatchesRequest(Current(q), inbound[q].path, inbound[q].method)
    /\ next' = [next EXCEPT ![q] = @ + 1]
    /\ UNCHANGED <<startup, ulid, pc, inbound, hdr, headerMap, out, response, metrics>>

\* The header is there, or the rule does not generate it.
UseHeader(q) ==
    /\ Matching(q)
    /\ ~ Missing(q)
    /\ Propagate(q, hdr[q][Name(q)])
    /\ UNCHANGED <<startup, ulid, pc, inbound, hdr, out, response, metrics>>

\* UUIDGenerator.Generate: the random source is safe for concurrent use.
GenerateUUID(q) ==
    /\ Matching(q)
    /\ Missing(q)
    /\ generators[Name(q)] = "uuid"
    /\ rand[Name(q)] \in Serials
    /\ LET v == [gen |-> "uuid", key |-> Name(q), n |-> rand[Name(q)]]
       IN  hdr' = [hdr EXCEPT ![q][Name(q)] = v] /\ Propagate(q, v)
    /\ rand' = [rand EXCEPT ![Name(q)] = @ + 1]
    /\ UNCHANGED <<startup, mu, drawn, pc, inbound, out, response, metrics>>

\* TimestampGenerator.Generate
GenerateTimestamp(q) ==
    /\ Matching(q)
    /\ Missing(q)
    /\ generators[Name(q)] = "timestamp"
    /\ \E t \in Instants :
          LET v == [gen |-> "timestamp", key |-> Name(q), n |-> t]
          IN  hdr' = [hdr EXCEPT ![q][Name(q)] = v] /\ Propagate(q, v)
    /\ UNCHANGED <<startup, ulid, pc, inbound, out, response, metrics>>

\* ULIDGenerator.mu
LockForgotten(q) == UNCHANGED mu
Lock(q) ==
    /\ mu[Name(q)] = Nobody
    /\ mu' = [mu EXCEPT ![Name(q)] = q]
UnlockForgotten(q) == UNCHANGED mu
Unlock(q) == mu' = [mu EXCEPT ![Name(q)] = Nobody]

\* ULIDGenerator.Generate takes the generator's mutex ...
LockULID(q) ==
    /\ Matching(q)
    /\ Missing(q)
    /\ generators[Name(q)] = "ulid"
    /\ Lock(q)
    /\ pc' = [pc EXCEPT ![q] = "locked"]
    /\ UNCHANGED <<startup, rand, drawn, inbound, extraction, out, response, metrics>>

\* ... reads the state of a random source that is not safe for concurrent use ...
DrawULID(q) ==
    /\ pc[q] = "locked"
    /\ drawn' = [drawn EXCEPT ![q] = rand[Name(q)]]
    /\ pc' = [pc EXCEPT ![q] = "drawn"]
    /\ UNCHANGED <<startup, mu, rand, inbound, extraction, out, response, metrics>>

\* ... stores the next state, releases the mutex and returns the value.
GenerateULID(q) ==
    /\ pc[q] = "drawn"
    /\ drawn[q] \in Serials
    /\ rand' = [rand EXCEPT ![Name(q)] = drawn[q] + 1]
    /\ Unlock(q)
    /\ LET v == [gen |-> "ulid", key |-> Name(q), n |-> drawn[q]]
       IN  hdr' = [hdr EXCEPT ![q][Name(q)] = v] /\ Propagate(q, v)
    /\ pc' = [pc EXCEPT ![q] = "extract"]
    /\ UNCHANGED <<startup, drawn, inbound, out, response, metrics>>

\* len(headerMap)
HeaderCountOfRules(q) == next[q] - 1
HeaderCountOffByOne(q) == Cardinality({h \in Headers : headerMap[q][h] # NoValue}) - 1
HeaderCount(q) == Cardinality({h \in Headers : headerMap[q][h] # NoValue})

\* extractHeaders returns: the propagated headers are counted and put in the
\* context, and ReverseProxy copies the request without hop-by-hop headers.
Forward(q) ==
    /\ pc[q] = "extract"
    /\ next[q] > Len(rules)
    /\ propagated' = propagated + HeaderCount(q)
    /\ out' = [out EXCEPT ![q] = [h \in Headers |->
                  IF h \in inbound[q].hop THEN NoValue ELSE hdr[q][h]]]
    /\ pc' = [pc EXCEPT ![q] = "roundtrip"]
    /\ UNCHANGED <<startup, ulid, inbound, extraction, response, active, total>>

\* HeaderPropagatingTransport.RoundTrip: inject what is missing, then send.
RoundTrip(q) ==
    /\ pc[q] = "roundtrip"
    /\ out' = [out EXCEPT ![q] = [h \in Headers |->
                  IF out[q][h] = NoValue THEN headerMap[q][h] ELSE out[q][h]]]
    /\ pc' = [pc EXCEPT ![q] = "upstream"]
    /\ UNCHANGED <<startup, ulid, inbound, extraction, response, metrics>>

----------------------------------------------------------------------------
(* The answer *)

\* As WriteHeader, but keeping the first code as a writer with a wroteHeader flag would.
WriteHeaderOnce(q, c) ==
    /\ status' = [status EXCEPT ![q] = IF @ = 200 THEN c ELSE @]
    /\ wire' = IF c \in 100..199 THEN wire ELSE [wire EXCEPT ![q] = c]

\* metrics.ResponseWriter.WriteHeader(c).  The server's own writer sends an
\* informational code at once and keeps waiting for the final one.
WriteHeader(q, c) ==
    /\ status' = [status EXCEPT ![q] = c]
    /\ wire' = IF c \in 100..199 THEN wire ELSE [wire EXCEPT ![q] = c]

\* ReverseProxy forwards an informational answer of the application.
Informational(q) ==
    /\ pc[q] = "upstream"
    /\ WriteHeader(q, 103)
    /\ UNCHANGED <<startup, ulid, pc, inbound, extraction, out, metrics>>

\* The application answers; ReverseProxy writes the code and copies the body.
Answer(q, c) ==
    /\ pc[q] = "upstream"
    /\ c # 101
    /\ WriteHeader(q, c)
    /\ pc' = [pc EXCEPT ![q] = "copy"]
    /\ UNCHANGED <<startup, ulid, inbound, extraction, out, metrics>>

\* The transport fails, or the application switches protocols, which
\* ReverseProxy cannot do through a ResponseWriter that is no http.Hijacker:
\* the ErrorHandler answers 502.
BadGateway(q) ==
    /\ pc[q] = "upstream"
    /\ WriteHeader(q, 502)
    /\ pc' = [pc EXCEPT ![q] = "return"]
    /\ UNCHANGED <<startup, ulid, inbound, extraction, out, metrics>>

\* ReverseProxy.ServeHTTP returns: RecordRequest, then the deferred decrement.
Complete(q) ==
    /\ pc[q] \in {"copy", "return"}
    /\ total' = [total EXCEPT ![<<inbound[q].method, status[q]>>] = @ + 1]
    /\ active' = active - 1
    /\ pc' = [pc EXCEPT ![q] = "done"]
    /\ UNCHANGED <<startup, ulid, inbound, extraction, out, response, propagated>>

\* As Abort, but with a decrement that is not deferred.
AbortWithoutDefer(q) ==
    /\ pc[q] = "copy"
    /\ pc' = [pc EXCEPT ![q] = "aborted"]
    /\ UNCHANGED <<startup, ulid, inbound, extraction, out, response, metrics>>

\* Copying the body fails: ReverseProxy panics, and only the deferred
\* decrement runs.
Abort(q) ==
    /\ pc[q] = "copy"
    /\ active' = active - 1
    /\ pc' = [pc EXCEPT ![q] = "aborted"]
    /\ UNCHANGED <<startup, ulid, inbound, extraction, out, response, propagated, total>>

----------------------------------------------------------------------------
\* The steps of extractHeaders and of the way to the application, which wait
\* for nobody but the holder of a generator's mutex.
Handle(q) ==
    \/ SkipRule(q)
    \/ UseHeader(q)
    \/ GenerateUUID(q)
    \/ GenerateTimestamp(q)
    \/ LockULID(q)
    \/ DrawULID(q)
    \/ GenerateULID(q)
    \/ Forward(q)
    \/ RoundTrip(q)

\* The steps that depend on the application or on the connection.
Respond(q) ==
    \/ Informational(q)
    \/ \E c \in Codes : Answer(q, c)
    \/ BadGateway(q)
    \/ Complete(q)
    \/ Abort(q)

Next ==
    \/ InitGenerator
    \/ NewProxyHandler
    \/ \E q \in Requests : Arrive(q) \/ Handle(q) \/ Respond(q)

Spec == Init /\ [][Next]_vars

\* The scheduler runs every goroutine that can run.  Nothing is assumed of
\* the application: the handler sets no bound on its answer.
FairSpec == Spec /\ \A q \in Requests : WF_vars(Handle(q))

----------------------------------------------------------------------------
(* Properties *)

States == {"idle", "extract", "locked", "drawn", "roundtrip", "upstream",
           "copy", "return", "done", "aborted"}

\* Every variable has its type.
TypeOK ==
    /\ rules \in RuleConfigs
    /\ handler \in {"new", "serving", "failed"}
    /\ built \in 1..(Len(rules) + 1)
    /\ generators \in [Headers -> GeneratorTypes \cup {"none"}]
    /\ mu \in [Headers -> Requests \cup {Nobody}]
    /\ rand \in [Headers -> Nat]
    /\ pc \in [Requests -> States]
    /\ inbound \in [Requests -> Inbound \cup {NoMessage}]
    /\ hdr \in [Requests -> [Headers -> Value]]
    /\ next \in [Requests -> 1..(Len(rules) + 1)]
    /\ drawn \in [Requests -> Nat]
    /\ headerMap \in [Requests -> [Headers -> Value]]
    /\ out \in [Requests -> [Headers -> Value]]
    /\ status \in [Requests -> Recorded]
    /\ wire \in [Requests -> Recorded \cup {0}]
    /\ active \in Nat
    /\ propagated \in Nat
    /\ total \in [Methods \X Recorded -> Nat]

\* The refinement mapping: a header the client did not send and that has a
\* value in r.Header was generated; the application has a request's headers
\* once the transport has sent them.
StageOf(c) ==
    CASE c = "idle" -> "idle"
      [] c \in {"extract", "locked", "drawn", "roundtrip"} -> "open"
      [] c \in {"upstream", "copy", "return"} -> "delivered"
      [] OTHER -> "closed"
Stage == [q \in Requests |-> StageOf(pc[q])]
Made == [q \in Requests |-> [h \in Headers |->
            IF pc[q] # "idle" /\ inbound[q].header[h] = NoValue
            THEN hdr[q][h] ELSE NoValue]]
Got == [q \in Requests |->
            IF Stage[q] \in {"delivered", "closed"} THEN out[q] ELSE NoHeaders]

Contract == INSTANCE PropagationContract
                WITH stage <- Stage, made <- Made, got <- Got

\* extractHeaders, ReverseProxy's hop-by-hop removal and RoundTrip together
\* deliver to the application the headers the contract promises: what the
\* client sent, what one matching rule had generated, nothing else.
ImplementsContract == Contract!Spec

\* No two requests are given the same uuid or ulid in a header, although they
\* share the header's generator and ULIDGenerator's random source is not safe
\* for concurrent use.
NoSharedIdentifier == Contract!NoSharedIdentifier

Started(q) == pc[q] # "idle"
Ended(q) == pc[q] \in {"done", "aborted"}

\* active_connections is the number of requests inside ServeHTTP: every way
\* out of it, the panic of an aborted copy included, decrements the gauge.
GaugeAgrees ==
    active = Cardinality({q \in Requests : Started(q) /\ ~ Ended(q)})

\* requests_total counts, for each method and code, the requests that ServeHTTP
\* returned from with that code on the wire: not those that a panic aborted,
\* and never under an informational code that the ResponseWriter saw before.
TotalsAgree ==
    \A l \in Methods \X Recorded :
        total[l] = Cardinality({q \in Requests :
            pc[q] = "done" /\ inbound[q].method = l[1] /\ wire[q] = l[2]})

\* headers_propagated_total counts each header the rules carry once for each
\* forwarded request, however many rules name it.
PropagatedAgrees ==
    propagated = Cardinality({p \in Requests \X Headers :
        /\ Stage[p[1]] \in {"delivered", "closed"} \/ pc[p[1]] = "roundtrip"
        /\ Carried(rules, inbound[p[1]], p[2])})

\* A request that entered the handler is sent to the application: the rules
\* terminate and nobody keeps a generator's mutex.
HandlerNeverStalls ==
    \A q \in Requests : pc[q] = "extract" ~> pc[q] = "upstream"

\* config.HeaderRule says of GeneratorType that it "specifies how to generate
\* the header value": a value generated for a header is of the type that some
\* generating rule applying to the request names.
GeneratedAsRuleSays ==
    \A q \in Requests, h \in Headers :
        Made[q][h] # NoValue =>
            \E i \in DOMAIN rules :
                /\ Applies(rules, inbound[q], h, i)
                /\ rules[i].generate
                /\ rules[i].generatorType = Made[q][h].gen

============================================================================
