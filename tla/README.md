# A TLA+ model of ContextForge

ContextForge propagates HTTP headers through Kubernetes workloads. An operator
injects a proxy sidecar into pods that ask for it, and the sidecar forwards each
request to the application next to it, keeping, generating and propagating the
headers its rules name. This directory holds TLA+ modules that model the sidecar's
request handling and its process, the injection, the traffic between pods and the
policy controller, TLC configurations that check them on small instances, and proofs
that the TLA+ proof system checks.

## Inventory

| Component | Source | State | Operations | Interacts with |
|---|---|---|---|---|
| Proxy handler | `internal/handler` | rules, generators; per request: header map in the context, status | `NewProxyHandler`, `ServeHTTP`, `extractHeaders`, `RoundTrip`, error handler | generators (shared), metrics (shared), `httputil.ReverseProxy`, the application |
| Generators | `internal/generator` | per ULID generator a mutex and a `rand.Rand` | `New`, `Generate` | called by every request's goroutine |
| Metrics | `internal/metrics` | process-wide counters and a gauge; per request the status of `ResponseWriter` | `RecordRequest`, `RecordHeadersPropagated`, `WriteHeader` | handler, reverse proxy |
| Configuration | `internal/config` | none | `Load`, `parseHeaderRules`, `parseHeaders`, `Validate`, `MatchesRequest` | reads the environment that the webhook wrote |
| Server | `internal/server`, `internal/middleware`, `cmd/proxy` | listener, token bucket, deadlines | `main`, `NewServer`, `Start`, `Shutdown`, `Middleware`, probes | in front of the handler; signals and probes of the kubelet |
| Outbound traffic | `modifyAppContainers`, `internal/handler` | none | `HTTP_PROXY` of the application | the sidecar of the same pod |
| Pod webhook | `internal/webhook/v1` | none: it changes the pod | `Default`, `ValidateCreate` (`ValidateUpdate` and `ValidateDelete` accept everything) | API server; the pod's environment configures the sidecar |
| Policy controller | `internal/controller`, `api/v1alpha1` | policy status; caches, queue and timers of controller-runtime | `Reconcile`, `findPoliciesForPod` | API server, pods that the webhook injected |
| Manager, manifests | `cmd/main.go`, `config`, `deploy` | none | wiring | |

What is hard about it:

* **Concurrency.** One goroutine per request shares the generators and the metrics.
  `math/rand.Rand` is not safe for concurrent use; the ULID generator's mutex has to
  cover the draw.
* **Ways out of a handler.** `ReverseProxy` may write several status codes for one
  request, call the error handler, or panic in the middle of the body.
* **Order of effects.** `extractHeaders` writes the request it reads; hop-by-hop
  removal happens between extraction and injection.
* **Stale reads.** The controller computes a status from two caches that lag behind
  the API server, each at its own pace, and is woken by events that are matched against
  the policies cached at that moment.
* **Crashes.** The controller's queue, timers and retries are lost with the process, and
  a status write that nobody waits for any more may still arrive.
* **Deadlines.** Header, body, write and dial deadlines and the shutdown's thirty seconds
  run at the same time, and each starts at another moment.
* **Limits.** One token bucket for all requests, behind a mux whose probes must not be
  limited.
* **Duplicated logic.** Webhook and sidecar validate the same rules with separate code.

What makes each part correct: the handler delivers the headers its rules promise and
no identifier twice; the server limits what it should and nothing else, and ends when
told to without cutting off requests early; the metrics agree with what happened; a pod is injected once, with
a configuration that its sidecar accepts and that says what the annotations say; a
policy's status ends up true, whatever the interleaving.

## Modules

| Module | Models |
|---|---|
| `HeaderRules` | rules, messages and values; `MatchesRequest`; what a rule list asks for in a message |
| `PropagationContract` | abstract specification: what the sidecar promises for each request |
| `ProxyHandler` | the handler, its transport, the generators and the metrics |
| `ULID` | `encodeULID`, bit by bit, and what it should compute |
| `ProxySettings` | the settings other than rules: `getEnv` and its kin, defaults, `Validate` |
| `ProxyConfig` | `config.Load` as operators on the environment of an injected sidecar |
| `ProxyServer` | the sidecar's process: `main`, the server, its deadlines, probes, limiter and shutdown |
| `PodWebhook` | the mutating and the validating webhook as operators on a pod |
| `SidecarInjection` | composes the webhooks with the API server and the sidecar's start |
| `PodTraffic` | calls between pods, through and past their sidecars |
| `PolicyController` | `Reconcile`, `findPoliciesForPod` and the machinery they run on |
| `ProxyHandlerProofs`, `ProxyContractProofs`, `ProxyMetricsProofs` | theorems about `ProxyHandler`: types and gauge, identifiers and the refinement, the counters |
| `ProxyServerProofs`, `SidecarInjectionProofs`, `PodTrafficProofs`, `PolicyControllerProofs`, `ULIDProofs` | theorems about the module each is named after |
| `MCProxyHandler`, `MCULID`, `MCProxyServer`, `MCSidecarInjection`, `MCPodTraffic`, `MCPolicyController` | instances for TLC |

### ProxyHandler

`pc[q]` says where request `q`'s goroutine is: `idle`, `extract` (in the loop of
`extractHeaders`, at rule `next[q]`), `locked` and `drawn` (inside
`ULIDGenerator.Generate`), `roundtrip` (the outbound copy exists, the transport has not
run), `upstream` (waiting for the application), `copy` (copying the body), `return`
(after the error handler), `done`, `aborted`. Each iteration of the loop is one
step, except that a ULID takes three: lock, read the random source, store its next state
and unlock. An iteration touches nothing shared except the generator, so finer steps
would show nothing more. `hdr[q]` is `r.Header`, `headerMap[q]` the map in the context,
`out[q]` the outbound headers; `mu` and `rand` are the ULID generators (a uuid comes from
the same counter, drawn in one step, because `crypto/rand` may be used concurrently).

Header values are abstract: what a client sent, nothing, or an identifier that records
its generator, its header and the draw it came from. A draw stands for its random bits:
different draws of one generator are different values. Timestamps may repeat.

External parts, from how the handler uses them: `ReverseProxy` drops hop-by-hop
headers (`Forward`), forwards informational answers (`Informational`), writes the final
code (`Answer`), calls the error handler, also when the application switches protocols,
which needs an `http.Hijacker` that `metrics.ResponseWriter` is not (`BadGateway`), and
panics when the copy of the body fails (`Abort`).

### ULID

A number is the set of its bits that are 1, so that `|` is union, `& 0x1F` an intersection
and a shift moves bits; a shift of a byte drops what leaves the byte, as in Go. A character
is its index in `crockfordAlphabet`, whose characters ascend. `Packed` and `Bits` are the
reference: the text read as one number is the time followed by the random bytes. The
order of texts is lexicographic. The wall clock may be set back between two draws, so
`SortsByTime` is about the times and not about the order of the calls.

### ProxyServer

`main` is where the main goroutine is, `listener` the state of the goroutine that runs
`Start`, `req[q]` a connection with its current or last request: its phase (`header`, `dial`,
`upload`, `upstream`, `copy` and the ways it can end) and its deadlines, which count down.
`Tick` is `Step` seconds and waits for timers that have run out, so that a deadline is exact;
what the code does between two ticks takes no time, and the order of a deadline and of what
it races is free within the tick before it. `Exit` loses every request whose header was
read (`lost`) and closes the other connections (`dropped`). It follows a signal before
`signal.Notify`, the end of `Shutdown`, and every error of `Start` but `ErrServerClosed`:
`ListenFails` before the server listens, `ServeFails` when the listener fails later, with
requests in flight.

From `http.Server`: a deadline of zero is none; the header has `ReadHeaderTimeout`, or
`ReadTimeout` if that is zero; `WriteTimeout` starts when the header was read and makes
writes fail once it has passed (`WriteTimesOut`). Until its header is read a connection is in
`StateNew`, or in `StateIdle` if it served a request before (`HeaderPending`); then it
is in `StateActive` (`InFlight`). `Shutdown` closes the listener at once, whereupon
`ListenAndServe` returns `ErrServerClosed`, closes idle connections and new ones that are
older than five seconds (`ShutdownCloses`; `new` counts the five seconds down), and waits
for the rest. It polls twice a second at least, which takes no time here. From `rate.Limiter`: the
bucket starts full, refills at the rate, never above the burst. From `http.DefaultTransport`:
dials take at most thirty seconds. The application accepts connections, refuses them (and
breaks the ones it has), or is silent: it accepts none and does not refuse either. It
may answer in parts, so that a request goes back from `copy` to `upstream`, and the client
takes what is written to it or does not (`ClientReads`).

`excess` is a history variable: the most requests, in thousandths, that any interval
ending now admitted above its length times the rate. `RateBound` compares it with the burst,
and `LimitedOnlyAtLimit` says that a request is refused only where admitting it would
have broken that bound.

The header rules are taken to be valid here: what `Load` does with them is
`ProxyConfig`'s business.

### SidecarInjection

A pod is its annotations, its sidecars with their environment, and how often each
application container got `HTTP_PROXY`. `Mutate` is `Default`, `ValidateCreate` the
validator on the mutated pod, `StartSidecar` the sidecar's `main` through `Load` and
`NewProxyHandler`, each of which may fail and end the process. A user's manifest may carry the
`injected` mark without a sidecar, as in the webhook's own tests; `Resubmit` creates a
stored manifest again, with other annotations and with the mark kept, removed or
added. A port is a text with its number and whether it has a sign: `strconv.Atoi` takes
both, and the webhook checks the number and writes the text, while `url.Parse` in
`NewProxyHandler` takes digits only. A list annotation is the sequence of its
comma-separated parts (`Blank` if a part is white space; never empty, as `strings.Split`
returns at least one part); a rule text is a sequence of raw
rules, or malformed. `HEADER_RULES` and `HEADERS_TO_PROPAGATE` are converted by what
`Load` does: defaults are filled in, blanks dropped, regular expressions become the set of
paths they match.

### PodTraffic

A call is at the sidecar or at the application of a pod, or answered by one of them. Calls
from outside a pod enter through its sidecar; a call that an application makes over plain
HTTP goes to the sidecar of its own pod first (`ViaProxy`), one over HTTPS or to localhost
does not. The sidecar answers its own paths itself and forwards everything else to its
application, whatever host the call is for. An application may copy the identifier of the
request it serves to its calls, or not.

### PolicyController

API server (`pods`, `policies`, resource `version`), two informers (`podCache`,
`policyCache` and undelivered events), the work queue with its timers, and one worker
(controller-runtime's default) whose `Reconcile` is split at its calls: `Get` reads
the cache, then `NotFound`, `InvalidSelector`, `ReadFails` or `List`, then
`StatusUpdate` or `UpdateFails`. An update event is mapped for the old and for the new
object. The API server refuses a status of an old resource version. `Crash` loses
everything in memory, or hands over to another leader; `StartManager` lists again before
the worker runs. A status update that got no answer, because the connection or the manager
went away, may stay on the `wire` and reach the API server at any later moment, after other
writes (`LateWrite`). All objects are in one namespace, as `Reconcile`
and `findPoliciesForPod` look at one only.

## Runs

| Run | Configuration | Checks |
|---|---|---|
| `handler` | `MCProxyHandler.cfg` | `ImplementsContract`, `NoSharedIdentifier`, `GaugeAgrees`, `TotalsAgree`, `PropagatedAgrees`, `HandlerNeverStalls`, `TypeOK` |
| `injection` | `MCSidecarInjection.cfg` | `InjectedOnce`, `StartsUnlessMethodOrSign`, `NoSelfForward`, `RunsWhatWasAsked`, `AloneIsExplained`, `TypeOK` |
| `ulid` | `MCULID.cfg` | `PacksAllBits`, `SortsByTime`, `TypeOK` |
| `server` | `MCProxyServer.cfg` | `LostOnlyAfterGrace`, `ClientsNeverForceExit`, `RateBound`, `LimitedOnlyAtLimit`, `TypeOK` |
| `server_live` | `MCProxyServerLive.cfg` | `ShutdownTerminates`, `OnlyTheApplicationHolds` |
| `traffic` | `MCPodTraffic.cfg` | `OneIdentifierPerTrace`, `TypeOK` |
| `controller` | `MCPolicyController.cfg` | `NoMissedChange`, `NoStaleWrite`, `TypeOK` |
| `controller_live` | `MCPolicyControllerLive.cfg` | `EventuallyAccurate` |

Four runs are expected to end in a violation; each shows a place where the code does
not do what its documentation, a comment or a message of it says:

| Run | Property | What the trace shows |
|---|---|---|
| `handler_types` | `GeneratedAsRuleSays` | two rules generate one header with different types on different paths; the last rule's generator serves both |
| `injection_propagate` | `PropagateFalseHonoured` | `"propagate": false` propagates |
| `traffic_outbound` | `ReachesItsService` | a call to another service comes back to the calling pod |
| `controller_invalid` | `InvalidSelectorReported` | the `InvalidSelector` condition is never written |

Other differences between code and documentation that the models contain, with the
property that says what does hold:

* `validateHeaderRulesJSON` does not look at methods: a rule with an unknown one is
  admitted, and its sidecar exits at every start (`StartsUnlessMethodOrSign`).
* `validateTargetPort` takes what `strconv.Atoi` takes, `NewProxyHandler` what `url.Parse` takes:
  with a target port `+8080` the sidecar is admitted and exits at every start
  (`StartsUnlessMethodOrSign`).
* A headers annotation of separators only, such as `","`, gives neither sidecar nor warning,
  and so does the `injected` annotation, with any value, on a pod without sidecar
  (`AloneIsExplained`).
* A comment in `Reconcile` (`headerpropagationpolicy_controller.go:173-178`) says that periodic
  requeue "is needed" because phase transitions "may not trigger events" and for
  "Recovery from controller restarts". `SetupWithManager` watches all pods without a predicate,
  so that a phase change is an event, and a manager that starts lists everything; under
  these two assumptions of the model neither case depends on the requeue
  (`NoMissedChange`, which counts on no `RequeueAfter` timer). Should a watch lose an event
  for good, the comment is right and the model has no such case.
* A response whose copy is aborted is missing from `requests_total` (`TotalsAgree`).
* `TARGET_DIAL_TIMEOUT` bounds the dial of `/ready` only; a proxied request dials with
  `http.DefaultTransport`'s thirty seconds (`OnlyTheApplicationHolds`). Its default is five
  seconds, and `docs/configuration.md` says two.
* `WRITE_TIMEOUT` also covers the time the application takes: a slow answer is dropped.
* `READ_TIMEOUT` and `WRITE_TIMEOUT` may be raised above the thirty seconds that `main` gives
  `Shutdown`; a client that is still in time then makes the exit a forced one
  (`ClientsNeverForceExit`, which is about the other environments).
* A signal between the start of the server and `signal.Notify` kills the process, as does an
  error of the open listener at any time; after a shutdown that ran out of time `main` still
  logs a graceful exit (`LostOnlyAfterGrace`).
* An application that does not copy the headers of the request it serves gets other
  identifiers on its own calls: nothing links them (`OneIdentifierPerTrace`).
* Settings in the environment of an application container do not reach the sidecar, although
  `docs/configuration.md` shows them there.

### Bounds

* Handler: two requests suffice for every pair of steps to interleave and for one to
  wait for the other's mutex; the rule lists contain a header named twice, in two
  spellings, filtered by path and by method in two spellings, and generated by different
  types; messages send all headers or none, and may name one in `Connection`. `Serials` bounds the draws:
  more than the requests of a run can make, so it never disables a step there.
* Injection: two submissions, so that a pod written by the webhook comes back. The
  manifests combine right and wrong values of the two header annotations, lists of one and
  two rules and of two headers included, and, with some of these, every kind of target
  port (absent, no number, out of range, the proxy's own, with and without a sign) and the
  mark.
* ULID: times of one bit, of two adjacent bits, of none and of all, with the least and the
  greatest random bytes; random bytes with one bit set and with one bit missing. Every
  output bit is the union of shifted input bits, so single bits show where each one goes.
* Server: `Step` is five seconds, of which every default deadline is a multiple.
  Two connections, each with any number of requests of every kind, one after the other:
  every pair of deadlines meets, and histories are unbounded. The limiter makes a token in
  ten seconds, so that the bucket is empty, partly filled and full. The environments contain
  the defaults, limiters of burst zero, one and two, equal ports, a target that does not
  parse, header, read and write timeouts longer than a shutdown, and timeouts of zero, which
  `Validate` must not let through. The liveness run has requests with and without a body and
  readiness probes, which dial with a deadline of their own.
* Traffic: four calls, enough for a client's call and a chain of three more, among two pods
  with sidecar and one without.
* Controller: `MaxChanges` bounds what users, kubelets and restarts do. Four changes are
  enough to create a policy and a pod, start it and relabel it, with every step of the
  controller in between; a smaller bound does not reach the relabelling.
  Liveness is checked with three changes. There is one policy: policies share the queue and
  the worker, and no reconciliation reads or writes another policy. At most one write
  is on the wire at a time.

Deadlock is not checked, except for `ULID`: requests end, manifests are used up, a
cluster stops changing.

### Fairness

`ProxyHandler`: weak fairness of each request's steps up to the application. The Go
scheduler runs every goroutine that can run, and `sync.Mutex` hands over to a starving
waiter; weak fairness is enough because the contenders are finitely many. Nothing is
assumed of the application, to whose answer the handler sets no bound.
`ProxyServer`: time passes, timers fire, and `Shutdown` looks at its connections (weak
fairness of `Tick`, `HeaderTimeout`, `DialFails`, `RoundTripFails`, `WriteTimesOut`,
`ShutdownCloses` and the two returns of `Shutdown`). Nothing is assumed of clients and of
the application: `ClientReads`, `AppAnswers` and the arrival of headers and bodies have no
fairness, so a client may stop sending or reading at any point, and the application may
never answer or stop accepting.
`PolicyController`: a manager that died is started again (its Deployment does that),
watches deliver, handlers and timers run (weak fairness); the queue
serves every key, and a read or an update of a policy that can succeed again and again succeeds
(strong fairness: failures and conflicts are not forever, and the queue retries).

## Proofs

The theorems hold for every value of the constants that satisfies the named assumptions of
the modules. Each proof module states an inductive invariant, proves that `Init` implies
it and that every step keeps it, one step of the proof per action, and derives from it the
properties of the runs. The invariants were checked with TLC on the runs' instances
before they were proved.

| Module | Invariant | Theorem | States |
|---|---|---|---|
| `ProxyHandlerProofs` | `TypeInv` | `TypeCorrect` | `Spec => []TypeOK` |
| | | `GaugeCorrect` | `Spec => []GaugeAgrees` |
| `ProxyContractProofs` | `HandlerInv` | `IdentifiersUnshared` | `Spec => []NoSharedIdentifier` |
| | | `HandlerImplements` | `Spec => ImplementsContract`, the refinement |
| `ProxyMetricsProofs` | `MetricsInv` | `TotalsCorrect` | `Spec => []TotalsAgree` |
| | | `PropagatedCorrect` | `Spec => []PropagatedAgrees` |
| `ProxyServerProofs` | `ServerInv` | `ServerTypeCorrect` | `Spec => []TypeOK` |
| | | `RateBounded` | `Spec => []RateBound` |
| | | `LimitedCorrect` | `Spec => LimitedOnlyAtLimit` |
| | | `NoEarlyLoss` | `Spec => LostOnlyAfterGrace` |
| | | `ClientsDoNotForce` | `Spec => ClientsNeverForceExit` |
| `PolicyControllerProofs` | `ControllerInv` | `ControllerTypeCorrect` | `Spec => []TypeOK` |
| | | `MissesNoChange` | `Spec => []NoMissedChange` |
| | | `WritesNothingStale` | `Spec => NoStaleWrite` |
| `SidecarInjectionProofs` | `InjectionInv` | `InjectionTypeCorrect` | `Spec => []TypeOK` |
| | | `InjectsOnce` | `Spec => []InjectedOnce` |
| | | `AdmittedStarts` | `Spec => []StartsUnlessMethodOrSign` |
| | | `ForwardsElsewhere` | `Spec => []NoSelfForward` |
| | | `RunsAsAsked` | `Spec => []RunsWhatWasAsked` |
| | | `AloneForAReason` | `Spec => []AloneIsExplained` |
| `ULIDProofs` | `Encoded` | `TextCorrect` | `Spec => []TypeOK` |
| | | `KeepsAllBits` | `Spec => []PacksAllBits` |
| | | `TimesSort` | `Spec => SortsByTime` |
| `PodTrafficProofs` | `TrafficInv` | `TrafficTypeCorrect` | `Spec => []TypeOK` |
| | | `TracesKeepIdentifier` | `Copying = Pods` implies `Spec => []OneIdentifierPerTrace` |

### The handler

Assumed (`ConstantsAssumption`, `ValuesAssumption`, `HandlerAssumption`): finite sets of
headers and requests, well-typed rules and messages, a `NoValue` that is not a value, and
final codes of which only 101 is informational, since the transport keeps reading after
any other. `TypeInv` adds to types and gauge that a request in the handler has a message
and a rule to look at; the gauge moves with the set of requests inside `ServeHTTP`.

The parts of `HandlerInv`: `GeneratorsBuilt`
(requests are served only when every generating rule has a generator, of a type that some
rule of its header names); `MutexOf` (inside `Generate` a request holds the
mutex, still needs the value, and what it read is what the source still holds);
`ExtractedOf` (after the rules before `next[q]`, each header has the client's value, a
value that its generator made, or none, and the map holds exactly the headers carried so
far); `OutboundOf` (the outbound headers before and after `RoundTrip`); `Unshared`. None
of them is inductive alone: that a new identifier is fresh needs that all identifiers of
the header were drawn before the source's current position, which for a ULID needs the
mutex, which needs that nobody else can be between lock and unlock of the same header.
The refinement maps `Arrive` to `Open`, the three generating steps to `Generate`, `RoundTrip`
to `Deliver`, `Complete` and `Abort` to `Close`, and every other step to a stutter.

`MetricsInv` says that both counters equal the sizes of the sets they stand for, and that a
request past its final code has the same code on the wire and in its `ResponseWriter`,
without which `RecordRequest` could count an informational one. That `len(headerMap)` is the
number of headers the rules carry is a consequence of `ExtractedOf` at the end of the rules.

### The server

Assumed (`ServerAssumption`): well-typed environments, in which an enabled limiter has a
positive rate (see "Not modelled"), and a tick of one or five seconds that divides the
timeouts, those the code fixes included. `ServerInv` ties the parts of the process together:
`Lifecycle` and `ServedByRunning` (which states of `main`, of the listener and of the process
go together, and that a running process has a configuration that `Validate` accepted);
`Bucket` (what was admitted above the rate is exactly what the bucket lacks, which turns a
statement about all intervals into one about the present); `ReadAndWriteTime` (once
`Shutdown` runs, no client that sends a body or reads an answer has more time left than
it has, if the timeout in question is at most the default); `HeaderTime` (the five seconds of
a new connection are over long before the shutdown's thirty). `NoEarlyLoss` is about steps: by
`Lifecycle`, only the exits it names remain once `main` waits for signals.

### The controller

Assumed (`ControllerAssumption`): finitely many pods, selectors that are sets of labels,
`Invalid` none of them, and `Nothing` no policy; `MaxChanges` is any natural number. `ControllerInv`: `WorkerHolds` (what `Reconcile` has in its
hands at each point); `VersionsAgree` (two copies of a policy with one resource version
have one spec, the copies in the cache, with the worker and on the wire included, which is
why the API server's version check suffices against stale writes); `ReadIsFresh` and
`StatusIsFresh` (whatever differs between the cached objects, what the worker read and the
status has something under way that will start another reconciliation: a queued key,
an undelivered event, a timer). `NoMissedChange` is the case in which nothing is under way.

### The injection

Assumed (`InjectionAssumption` and the assumptions of `ProxyConfig`): the manifests that
come in from users are pods that no webhook has seen, which may carry the mark all the
same; the texts that stand for "unset",
"blank" and "malformed" are no lists, names or numbers. The lists of headers and rules have any length. `Whole` says that
sidecar and proxy variables come together in drafts and pods, whatever the mark:
`InjectedOnce` alone is not inductive, because a draft whose mark was removed comes back. `PodInv` and `DraftInv`
remember why a sidecar in a pod can start: it says what the annotations say and these are still to
be validated, or they were validated at an earlier submission. The lemma `ParsedHeadersAre`
(`parseHeaders` finds every header of a list, in order, and nothing else) is an induction on the
length of the list; it is proved by taking the least position at which it would fail,
which well-foundedness of the naturals gives without an induction rule. `InOrder` and `Places`
turn it into the statement of `RunsWhatWasAsked`, that the handler's rules are the listed
headers in their order.

### The ULID

Assumed (`InstantsAssumption`): a time has 48 bits, and there are ten random bytes. The state is one draw and
its text, so the invariant (`Encoded`: the text is `EncodeULID` of the draw) says little;
the work is in the lemmas on the encoding. `TimeChar` and `RandomChars` say which input bit each bit of each character is, through Go's shifts, masks and the
bits a byte drops; from these follow `Packs` (all 128 bits in their order) and
`EarlierPrecedes` (the highest bit in which two times differ decides at the first character
that differs).

### The traffic

`TraceInv` adds to the types that the root of a trace was served before another call
of the trace was made. Under `Copying = Pods` every call then starts with the root's
identifier, and a sidecar replaces no identifier that is there. Without that hypothesis the
property is false, as the list of differences above says.

### Only model-checked

Liveness, which is out of the prover's reach: `HandlerNeverStalls`, `ShutdownTerminates`,
`OnlyTheApplicationHolds`, `EventuallyAccurate`. Every other property of a passing run is
proved. The four properties that the code violates are refuted by their runs.

## Not modelled

* `IdleTimeout`: a connection between two requests is not tracked, since nothing waits for it.
  Connections to the application that are reused: every request dials. Clients that disconnect,
  and answers that the application sends before it has the whole body: both end a request
  earlier than the model does. Upgrades (WebSocket) end in `BadGateway`.
* A rate that is zero or negative, which `Validate` lets through and on which versions of
  `rate.Limiter` differ.
* `setupLogger` and all logging; a SIGKILL by the kubelet, which loses what a crash would.
* The texts of a uuid and of a timestamp, which libraries make.
* The duration histogram and the `/metrics` page: nothing reads them.
* `propagationRules` of a policy: no code reads them. The generated deep copies.
* Watches that lose an event for good: every change of an object reaches the informer, in order.
* A failing `List` in `findPoliciesForPod`, which reads a synced cache.
* Manager flags, certificates, its metrics server and probes; Helm and kustomize manifests.
  Both run one manager with leader election, so two managers never reconcile at once.

## Plan

1. The handler and its contract, the injection, the controller: done.
2. The server, the traffic between pods, the ULID and the settings: done.
3. Theorems about all safety properties of the passing runs, and the refinement: done.
4. Further theorems about the operators: `Default` applied to its own output changes nothing,
   and what `ValidateCreate` accepts `main` accepts up to methods and signs, for every pod and not only
   those of a reachable state.
