---------------------------- MODULE ProxyServer ----------------------------
(***************************************************************************)
(* The sidecar's process: main, the HTTP server with its mux, deadlines    *)
(* and probes, the rate limiter in front of the handler, and shutdown.     *)
(* What the handler does to headers is the business of ProxyHandler; here  *)
(* it is a request that dials the application, sends its body, waits and   *)
(* copies the answer.  net/http and the token bucket of golang.org/x/time  *)
(* are libraries, modelled from how the code uses them.                    *)
(*                                                                         *)
(* Time passes in steps of Step seconds, and deadlines count down.  Tokens *)
(* are in thousandths, as are the rates.                                   *)
(***************************************************************************)
EXTENDS ProxySettings, FiniteSets

CONSTANTS
    Requests,       \* connections, each with one request at a time
    Kinds,          \* what clients ask for: some of AllKinds
    Environments,   \* environments the process may be started in
    Step

\* A request without and with a body, for the application, and the mux's own paths.
AllKinds == {"get", "post", "healthz", "ready", "metrics"}

\* Every deadline is a multiple of Step, those the code fixes too, so that none
\* falls between two ticks.
\* A rate that is not positive is left out: what Allow does then differs
\* between versions of the library.  Text that is no number is Garbage.
ASSUME ServerAssumption ==
    /\ IsFiniteSet(Requests)
    /\ Kinds \subseteq AllKinds
    /\ Step \in {1, 5}
    /\ \A e \in Environments :
          LET cfg == LoadSettings(e)
          IN  /\ \A s \in TimeoutNames \cup {"rateLimitRPS", "rateLimitBurst"} :
                    e[s] \in Int \cup {Unset, Garbage}
              /\ cfg.rateLimitEnabled => cfg.rateLimitRPS > 0
              /\ \A t \in TimeoutNames : cfg[t] % Step = 0

\* As ShutdownTimeout, but less than what the server gives a client.
ShutdownTimeoutShort == 10

ShutdownTimeout == 30
DefaultTransportDialTimeout == 30   \* http.DefaultTransport
NewConnTimeout == 5     \* http.Server.Shutdown takes an older new connection for idle
Token == 1000

VARIABLES
    config,     \* cfg, from the environment
    main,       \* where main is: "load", "start", "notify", "wait", "shutdown", "exited"
    exit,       \* how the process ended: "no", "fatal", "killed", "graceful", "forced"
    listener,   \* "none", "pending", "open", "closed", "returned" (from Start)
    grace,      \* seconds left to Shutdown
    req,        \* the requests
    app,        \* the application: "up", "refusing" or "silent" (accepts no connection)
    tokens,     \* of rl.limiter
    excess      \* history: see Admit

process == <<main, exit, listener, grace>>
limiter == <<tokens, excess>>
vars == <<config, process, req, app, limiter>>

\* "dial" to "copy" are inside a handler.  timer is the deadline of the phase,
\* read and write those of ReadTimeout and WriteTimeout; new is how long
\* Shutdown spares a connection whose first request has not arrived.
Phases ==
    {"none", "header", "dial", "upload", "upstream", "copy",
     "done", "undelivered", "dropped", "lost"}
Codes == {0, 200, 429, 502, 503}
Request ==
    [at : Phases, kind : AllKinds, timer : Nat, read : Nat, write : Nat, new : Nat,
     code : Codes]

NoRequest == [at |-> "none", kind |-> "get", timer |-> 0, read |-> 0, write |-> 0,
              new |-> 0, code |-> 0]

\* A request that is over, and how it ended.
Over(how) == [NoRequest EXCEPT !.at = how]

\* http.Server: until the header is read the connection is in StateNew or
\* StateIdle, and Shutdown does not wait for it; then it is in StateActive.
HeaderPending(q) == req[q].at = "header"
InFlight(q) == req[q].at \in {"dial", "upload", "upstream", "copy"}
Open(q) == HeaderPending(q) \/ InFlight(q)

Init ==
    /\ config \in {LoadSettings(e) : e \in Environments}
    /\ main = "load"
    /\ exit = "no"
    /\ listener = "none"
    /\ grace = 0
    /\ req = [q \in Requests |-> NoRequest]
    /\ app \in {"up", "refusing"}
    /\ tokens = 0
    /\ excess = 0

----------------------------------------------------------------------------
(* main *)

\* The process ends, and the connections with it.
Exit(how) ==
    /\ main' = "exited"
    /\ exit' = how
    /\ listener' = "closed"
    /\ req' = [q \in Requests |->
                  CASE InFlight(q) -> Over("lost")
                    [] HeaderPending(q) -> Over("dropped")
                    [] OTHER -> req[q]]
    /\ UNCHANGED <<config, grace, app, limiter>>

\* config.Load or NewProxyHandler, which parses the target, returns an error.
LoadFails ==
    /\ main = "load"
    /\ ~ Validate(config) \/ config.targetHost = Garbage
    /\ Exit("fatal")

\* NewRateLimiter: the bucket starts full.
FullBucket == IF config.rateLimitBurst > 0 THEN config.rateLimitBurst * Token ELSE 0

\* NewProxyHandler and NewServer.
NewServer ==
    /\ main = "load"
    /\ Validate(config) /\ config.targetHost # Garbage
    /\ main' = "start"
    /\ tokens' = FullBucket
    /\ UNCHANGED <<config, exit, listener, grace, req, app, excess>>

\* go srv.Start()
Start ==
    /\ main = "start"
    /\ main' = "notify"
    /\ listener' = "pending"
    /\ UNCHANGED <<config, exit, grace, req, app, limiter>>

\* ListenAndServe, in its goroutine, listens ...
Listen ==
    /\ listener = "pending"
    /\ listener' = "open"
    /\ UNCHANGED <<config, main, exit, grace, req, app, limiter>>

\* ... or cannot, and log.Fatal ends the process.
ListenFails ==
    /\ listener = "pending"
    /\ Exit("fatal")

\* So does a listener that fails later, whatever is in flight.
ServeFails ==
    /\ listener = "open"
    /\ Exit("fatal")

\* signal.Notify
Notify ==
    /\ main = "notify"
    /\ main' = "wait"
    /\ UNCHANGED <<config, exit, listener, grace, req, app, limiter>>

\* SIGTERM or SIGINT before signal.Notify ends the process.
SignalKills ==
    /\ main \in {"load", "start", "notify"}
    /\ Exit("killed")

\* The signal wakes main, which calls Shutdown: the listener closes at once.
SignalShutsDown ==
    /\ main = "wait"
    /\ main' = "shutdown"
    /\ listener' = "closed"
    /\ grace' = ShutdownTimeout
    /\ UNCHANGED <<config, exit, req, app, limiter>>

\* As StartReturns, but treating ErrServerClosed as a failure.
StartReturnsFatal ==
    /\ listener = "closed"
    /\ main = "shutdown"
    /\ Exit("fatal")

\* Start returns ErrServerClosed while Shutdown is still waiting.
StartReturns ==
    /\ listener = "closed"
    /\ main = "shutdown"
    /\ listener' = "returned"
    /\ UNCHANGED <<config, main, exit, grace, req, app, limiter>>

\* Shutdown closes the connections that are idle ...
ShutdownCloses(q) ==
    /\ main = "shutdown"
    /\ HeaderPending(q) /\ req[q].new = 0
    /\ req' = [req EXCEPT ![q] = Over("dropped")]
    /\ UNCHANGED <<config, process, app, limiter>>

\* ... and returns when no connection is left ...
ShutdownDone ==
    /\ main = "shutdown"
    /\ \A q \in Requests : ~ Open(q)
    /\ Exit("graceful")

\* As ShutdownTimesOut, but with a context that has no deadline.
ShutdownWaits == FALSE

\* ... or when its context expires, and main returns in either case.
ShutdownTimesOut ==
    /\ main = "shutdown"
    /\ grace = 0
    /\ \E q \in Requests : Open(q)
    /\ Exit("forced")

----------------------------------------------------------------------------
(* The server and its mux *)

\* http.Server: a timeout of zero or less is none, and one of zero for the
\* header is that of the whole request.
HeaderTimeoutSetting ==
    IF config.readHeaderTimeout # 0 THEN config.readHeaderTimeout ELSE config.readTimeout
HeaderLate(q) == HeaderPending(q) /\ HeaderTimeoutSetting > 0 /\ req[q].timer = 0
BodyLate(q) == req[q].at = "upload" /\ config.readTimeout > 0 /\ req[q].read = 0
WriteLate(q) == config.writeTimeout > 0 /\ req[q].write = 0

\* A connection is accepted, or the first bytes of a request arrive on one
\* whose last request was served; the header has ReadHeaderTimeout.
Arrive(q) ==
    /\ listener = "open"
    /\ exit = "no"
    /\ ~ Open(q)
    /\ \E k \in Kinds, new \in {NewConnTimeout} \cup (IF req[q].at = "done" THEN {0} ELSE {}) :
          req' = [req EXCEPT ![q] =
                     [at |-> "header", kind |-> k, timer |-> HeaderTimeoutSetting,
                      read |-> config.readTimeout, write |-> 0, new |-> new, code |-> 0]]
    /\ UNCHANGED <<config, process, app, limiter>>

\* The header does not arrive in time: the connection is closed.
HeaderTimeout(q) ==
    /\ HeaderLate(q)
    /\ req' = [req EXCEPT ![q] = Over("dropped")]
    /\ UNCHANGED <<config, process, app, limiter>>

\* The header is complete: WriteTimeout starts to run.
HeaderRead(q) == HeaderPending(q) /\ ~ HeaderLate(q)

\* Request q waits for a connection to the target, for so many seconds at most.
Dials(q, timeout) ==
    req' = [req EXCEPT ![q].at = "dial", ![q].timer = timeout, ![q].new = 0,
                       ![q].write = config.writeTimeout]

\* Request q gets an answer from the sidecar itself.
Replies(q, code) ==
    req' = [req EXCEPT ![q].at = "copy", ![q].code = code, ![q].timer = 0, ![q].new = 0,
                       ![q].write = config.writeTimeout]

\* healthHandler and metrics.Handler
AnswerProbe(q) ==
    /\ HeaderRead(q)
    /\ req[q].kind \in {"healthz", "metrics"}
    /\ Replies(q, 200)
    /\ UNCHANGED <<config, process, app, limiter>>

\* readyHandler: checkTargetReachable dials with TargetDialTimeout.
CheckTarget(q) ==
    /\ HeaderRead(q)
    /\ req[q].kind = "ready"
    /\ Dials(q, config.targetDialTimeout)
    /\ UNCHANGED <<config, process, app, limiter>>

\* The proxy handler is behind the limiter, everything else is not.
Proxied(q) == req[q].kind \in {"get", "post"}

\* As Limited, but with the limiter around the whole mux.
LimitedAll(q) == config.rateLimitEnabled

\* As Limited, but with the handler registered without its middleware.
LimitedNone(q) == FALSE

\* The routes that the rate limiter guards.
Limited(q) == config.rateLimitEnabled /\ Proxied(q)

\* The handler runs: its transport is http.DefaultTransport.  excess is the
\* largest number of requests, in thousandths, that any interval ending now
\* admitted above what the rate that was asked for allows for its length.
Admit(q) ==
    /\ HeaderRead(q)
    /\ Proxied(q)
    /\ Limited(q) => tokens >= Token
    /\ tokens' = IF Limited(q) THEN tokens - Token ELSE tokens
    /\ excess' = IF config.rateLimitEnabled THEN excess + Token ELSE excess
    /\ Dials(q, DefaultTransportDialTimeout)
    /\ UNCHANGED <<config, process, app>>

\* No token is left.
TooManyRequests(q) ==
    /\ HeaderRead(q)
    /\ Limited(q)
    /\ tokens < Token
    /\ Replies(q, 429)
    /\ UNCHANGED <<config, process, app, limiter>>

----------------------------------------------------------------------------
(* The handler and the application *)

\* The connection is made.
Connected(q) ==
    /\ req[q].at = "dial"
    /\ app = "up"
    /\ req' = [req EXCEPT ![q].timer = 0,
                  ![q].at = CASE req[q].kind = "ready" -> "copy"
                              [] req[q].kind = "post" -> "upload"
                              [] OTHER -> "upstream",
                  ![q].code = IF req[q].kind = "ready" THEN 200 ELSE 0,
                  ![q].read = IF req[q].kind = "post" THEN @ ELSE 0]
    /\ UNCHANGED <<config, process, app, limiter>>

\* It is refused, or the deadline passes: readyHandler answers 503, the
\* handler's ErrorHandler 502.
DialFails(q) ==
    /\ req[q].at = "dial"
    /\ app = "refusing" \/ req[q].timer = 0
    /\ req' = [req EXCEPT ![q].timer = 0, ![q].at = "copy", ![q].read = 0,
                  ![q].code = IF req[q].kind = "ready" THEN 503 ELSE 502]
    /\ UNCHANGED <<config, process, app, limiter>>

\* The client's body has arrived and was sent on.
BodyRead(q) ==
    /\ req[q].at = "upload" /\ ~ BodyLate(q)
    /\ req' = [req EXCEPT ![q].at = "upstream", ![q].read = 0]
    /\ UNCHANGED <<config, process, app, limiter>>

\* ReadTimeout passes while the body is read, or the application goes away:
\* RoundTrip fails, and the ErrorHandler answers 502; in the middle of an
\* answer the handler panics instead, and the connection is closed.
RoundTripFails(q) ==
    /\ \/ BodyLate(q)
       \/ req[q].at \in {"upload", "upstream"} /\ app = "refusing"
    /\ \/ /\ req[q].code = 0
          /\ req' = [req EXCEPT ![q].at = "copy", ![q].code = 502, ![q].read = 0]
       \/ /\ req[q].code # 0
          /\ req' = [req EXCEPT ![q] = Over("undelivered")]
    /\ UNCHANGED <<config, process, app, limiter>>

\* The application sends its answer, or a part of it; nothing bounds how long
\* that takes.
AppAnswers(q) ==
    /\ req[q].at = "upstream"
    /\ app # "refusing"
    /\ req' = [req EXCEPT ![q].at = "copy", ![q].code = 200]
    /\ UNCHANGED <<config, process, app, limiter>>

\* The client takes what is written to it, the rest of the answer or a part
\* of the application's.  Nothing makes it.
ClientReads(q) ==
    /\ req[q].at = "copy" /\ ~ WriteLate(q)
    /\ \/ req' = [req EXCEPT ![q] = Over("done")]
       \/ /\ Proxied(q) /\ req[q].code = 200
          /\ req' = [req EXCEPT ![q].at = "upstream"]
    /\ UNCHANGED <<config, process, app, limiter>>

\* Writes fail once WriteTimeout has passed.
WriteTimesOut(q) ==
    /\ req[q].at = "copy" /\ WriteLate(q)
    /\ req' = [req EXCEPT ![q] = Over("undelivered")]
    /\ UNCHANGED <<config, process, app, limiter>>

\* The application starts, crashes, or stops accepting connections.
AppChange ==
    /\ exit = "no"
    /\ app' \in {"up", "refusing", "silent"} \ {app}
    /\ UNCHANGED <<config, process, req, limiter>>

----------------------------------------------------------------------------
(* Time *)

Less(n) == IF n > Step THEN n - Step ELSE 0

\* As Refill, but without the cap.
RefillUncapped == tokens + config.rateLimitRPS * Step

\* What a step of time adds to the bucket.
Refill ==
    IF tokens + config.rateLimitRPS * Step > FullBucket THEN FullBucket
    ELSE tokens + config.rateLimitRPS * Step

\* A timer has run out and its action has not happened yet.
Due ==
    \/ main = "shutdown" /\ grace = 0
    \/ \E q \in Requests :
          \/ HeaderLate(q) \/ BodyLate(q)
          \/ main = "shutdown" /\ HeaderPending(q) /\ req[q].new = 0
          \/ req[q].at = "dial" /\ req[q].timer = 0
          \/ req[q].at = "copy" /\ WriteLate(q)

\* Step seconds pass.  Timers fire before time goes on.  Nobody looks at the
\* bucket of a limiter that is not enabled.
Tick ==
    /\ exit = "no"
    /\ main # "load"
    /\ ~ Due
    /\ grace' = Less(grace)
    /\ req' = [q \in Requests |->
                  IF Open(q)
                  THEN [req[q] EXCEPT !.timer = Less(@), !.read = Less(@), !.write = Less(@),
                                      !.new = Less(@)]
                  ELSE req[q]]
    /\ IF config.rateLimitEnabled
       THEN /\ tokens' = Refill
            /\ excess' = IF excess > config.rateLimitRPS * Step
                         THEN excess - config.rateLimitRPS * Step ELSE 0
       ELSE UNCHANGED limiter
    /\ UNCHANGED <<config, main, exit, listener, app>>

----------------------------------------------------------------------------
Main ==
    \/ LoadFails \/ NewServer \/ Start \/ Listen \/ ListenFails \/ ServeFails
    \/ Notify \/ SignalKills \/ SignalShutsDown \/ StartReturns \/ ShutdownDone \/ ShutdownTimesOut
Serve(q) ==
    \/ Arrive(q) \/ HeaderTimeout(q) \/ AnswerProbe(q) \/ CheckTarget(q) \/ Admit(q)
    \/ TooManyRequests(q) \/ Connected(q) \/ DialFails(q) \/ BodyRead(q)
    \/ RoundTripFails(q) \/ AppAnswers(q) \/ ClientReads(q) \/ WriteTimesOut(q)
    \/ ShutdownCloses(q)

Next == Main \/ (\E q \in Requests : Serve(q)) \/ AppChange \/ Tick

Spec == Init /\ [][Next]_vars

\* Time passes, timers fire and Shutdown looks at its connections.  Nothing is
\* assumed of clients, who may stop sending or reading at any point, and of
\* the application.
Fairness ==
    /\ WF_vars(Tick)
    /\ WF_vars(ShutdownDone)
    /\ WF_vars(ShutdownTimesOut)
    /\ \A q \in Requests :
          WF_vars(HeaderTimeout(q)) /\ WF_vars(DialFails(q)) /\ WF_vars(RoundTripFails(q))
             /\ WF_vars(WriteTimesOut(q)) /\ WF_vars(ShutdownCloses(q))

FairSpec == Spec /\ Fairness

----------------------------------------------------------------------------
(* Properties *)

\* Every variable has its type.
TypeOK ==
    /\ config \in {LoadSettings(e) : e \in Environments}
    /\ main \in {"load", "start", "notify", "wait", "shutdown", "exited"}
    /\ exit \in {"no", "fatal", "killed", "graceful", "forced"}
    /\ listener \in {"none", "pending", "open", "closed", "returned"}
    /\ grace \in Nat
    /\ req \in [Requests -> Request]
    /\ app \in {"up", "refusing", "silent"}
    /\ tokens \in 0..FullBucket
    /\ excess \in Nat

\* Once main waits for signals, a request whose header was read is cut off by
\* the end of the process in two cases only: the listener itself failed, or
\* Shutdown has waited its thirty seconds.  That Start returns in the middle
\* of a shutdown is no failure, and a signal alone cuts nothing off.
LostOnlyAfterGrace ==
    [][\A q \in Requests :
          (main \in {"wait", "shutdown"} /\ req'[q].at = "lost" /\ req[q].at # "lost") =>
              \/ exit' = "fatal" /\ listener = "open"
              \/ exit' = "forced" /\ main = "shutdown" /\ grace = 0]_vars

\* No interval, whenever it starts, admits more requests to the handler than
\* the burst and what the rate allows for its length, if the environment asks
\* for a limit.
RateBound ==
    (config.rateLimitEnabled /\ main # "load") =>
        excess <= FullBucket

\* A request is answered 429 only if it is for the application, and only when
\* the handler has just been given all that the limit allows: probes neither
\* fail nor use up tokens.
LimitedOnlyAtLimit ==
    [][\A q \in Requests :
          (req'[q].code = 429 /\ req[q].code = 0) =>
              Proxied(q) /\ excess + Token > FullBucket]_vars

\* A shutdown ends, whatever the application and the clients do.
ShutdownTerminates == main = "shutdown" ~> exit # "no"

\* Nothing but the application holds a connection: one whose client stops in
\* the middle of its header or body or does not read its answer, or whose
\* target accepts no connection, ends by one of the deadlines that Validate
\* insists on.
OnlyTheApplicationHolds ==
    \A q \in Requests : Open(q) ~> (req[q].at = "upstream" \/ ~ Open(q))

\* A shutdown never runs out of time on a client: clients in the middle of a
\* header were closed long before, whatever ReadHeaderTimeout is, and unless
\* ReadTimeout or WriteTimeout was raised, those that still send a body or
\* read an answer have used up all the time the server gives them.
ClientsNeverForceExit ==
    [][(exit' = "forced" /\ exit = "no") =>
          \A q \in Requests :
              /\ ~ HeaderPending(q)
              /\ (req[q].at = "upload" /\ config.readTimeout <= DefaultTimeout.readTimeout)
                    => req[q].read = 0
              /\ (req[q].at = "copy" /\ config.writeTimeout <= DefaultTimeout.writeTimeout)
                    => req[q].write = 0]_vars

============================================================================
