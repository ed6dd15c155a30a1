------------------------- MODULE ProxyServerProofs -------------------------
(***************************************************************************)
(* Proofs about ProxyServer, for any number of requests, any environments  *)
(* the process may be started in, and any rate and burst.                  *)
(***************************************************************************)
EXTENDS ProxyServer, TLAPS

----------------------------------------------------------------------------
(* The inductive invariant *)

\* main has loaded its configuration, and the process has not ended.
Running == main \in {"start", "notify", "wait", "shutdown"}

\* Where main, the listener and the end of the process stand to each other:
\* the listener opens only while main is about to wait or waits for a signal.
Lifecycle ==
    /\ exit = "no" <=> main # "exited"
    /\ main \in {"load", "start"} => listener = "none"
    /\ listener \in {"pending", "open"} => main \in {"notify", "wait"}
    /\ main = "exited" => listener = "closed"
    /\ Running => Validate(config)

\* Requests are served by a running process that has opened its listener.
ServedByRunning ==
    \A q \in Requests : Open(q) => Running /\ listener \notin {"none", "pending"}

\* What was admitted above the rate is what the bucket lacks.
Bucket ==
    config.rateLimitEnabled =>
        /\ Running => excess + tokens = FullBucket
        /\ main = "load" => excess = 0
        /\ excess <= FullBucket

\* A client has at most ReadTimeout to send its request and WriteTimeout to take
\* the answer, and at most the time Shutdown has left if those are not longer
\* than by default.
ReadAndWriteTime ==
    \A q \in Requests : Open(q) =>
        /\ req[q].read <= config.readTimeout
        /\ req[q].write <= config.writeTimeout
        /\ (main = "shutdown" /\ config.readTimeout <= 15) => req[q].read <= grace
        /\ (main = "shutdown" /\ config.writeTimeout <= 15) => req[q].write <= grace

\* In a shutdown a header is waited for only in its first five seconds.
HeaderTime ==
    \A q \in Requests : HeaderPending(q) =>
        /\ req[q].new <= 5
        /\ req[q].new = 0 \/ Step <= req[q].new
        /\ main = "shutdown" => 25 + req[q].new <= grace

ServerInv ==
    TypeOK /\ Lifecycle /\ ServedByRunning /\ Bucket /\ ReadAndWriteTime /\ HeaderTime

----------------------------------------------------------------------------
(* What the operators return *)

\* A variable that holds no duration gives the default.
LEMMA GetEnvDurationType ==
    ASSUME NEW v \in Int \cup {Unset, Garbage}, NEW d \in Int
    PROVE  GetEnvDuration(v, d) \in Int
BY DEF GetEnvDuration

\* Whatever the environment says, config.Load's timeouts, rate and burst are
\* numbers and the switch of the limiter is a Boolean.
LEMMA ConfigType ==
    ASSUME NEW cfg \in {LoadSettings(e) : e \in Environments}
    PROVE  /\ \A t \in TimeoutNames : cfg[t] \in Int
           /\ cfg.rateLimitRPS \in Int
           /\ cfg.rateLimitBurst \in Int
           /\ cfg.rateLimitEnabled \in BOOLEAN
           /\ cfg.rateLimitEnabled => cfg.rateLimitRPS > 0
<1>1. PICK e \in Environments : cfg = LoadSettings(e)
    OBVIOUS
<1>2. \A s \in TimeoutNames \cup {"rateLimitRPS", "rateLimitBurst"} :
          e[s] \in Int \cup {Unset, Garbage}
    BY ServerAssumption
<1>3. \A t \in TimeoutNames : DefaultTimeout[t] \in Int
    BY DEF TimeoutNames, DefaultTimeout
<1>4. /\ cfg.readTimeout = GetEnvDuration(e.readTimeout, DefaultTimeout.readTimeout)
      /\ cfg.writeTimeout = GetEnvDuration(e.writeTimeout, DefaultTimeout.writeTimeout)
      /\ cfg.idleTimeout = GetEnvDuration(e.idleTimeout, DefaultTimeout.idleTimeout)
      /\ cfg.readHeaderTimeout = GetEnvDuration(e.readHeaderTimeout, DefaultTimeout.readHeaderTimeout)
      /\ cfg.targetDialTimeout = GetEnvDuration(e.targetDialTimeout, DefaultTimeout.targetDialTimeout)
    BY <1>1, SMT DEF LoadSettings
<1>5. ASSUME NEW t \in TimeoutNames PROVE cfg[t] \in Int
    <2>1. cfg[t] = GetEnvDuration(e[t], DefaultTimeout[t])
        BY <1>4, SMT DEF TimeoutNames
    <2> QED
        BY <1>2, <1>3, <2>1, GetEnvDurationType
<1>6. cfg.rateLimitRPS \in Int
    <2>1. cfg.rateLimitRPS = GetEnvFloat(e["rateLimitRPS"], 1000000)
        BY <1>1, SMT DEF LoadSettings
    <2>2. e["rateLimitRPS"] \in Int \cup {Unset, Garbage}
        BY <1>2
    <2> QED
        BY <2>1, <2>2, SMT DEF GetEnvFloat
<1>7. cfg.rateLimitBurst \in Int
    <2>1. cfg.rateLimitBurst = GetEnvInt(e["rateLimitBurst"], 100)
        BY <1>1, SMT DEF LoadSettings
    <2>2. e["rateLimitBurst"] \in Int \cup {Unset, Garbage}
        BY <1>2
    <2> QED
        BY <2>1, <2>2 DEF GetEnvInt
<1>9. cfg.rateLimitEnabled \in BOOLEAN
    <2>1. cfg.rateLimitEnabled = GetEnvBool(e.rateLimitEnabled, FALSE)
        BY <1>1, SMT DEF LoadSettings
    <2>2. GetEnvBool(e.rateLimitEnabled, FALSE) \in BOOLEAN
        BY Zenon DEF GetEnvBool
    <2> QED
        BY <2>1, <2>2, Zenon
<1>8. cfg.rateLimitEnabled => cfg.rateLimitRPS > 0
    BY <1>1, ServerAssumption
<1> QED
    BY <1>5, <1>6, <1>7, <1>8, <1>9

\* The timeouts of a configuration that passed Validate are positive.
LEMMA ValidTimeouts ==
    ASSUME config \in {LoadSettings(e) : e \in Environments}, Validate(config)
    PROVE  /\ config.readTimeout \in Nat \ {0}
           /\ config.writeTimeout \in Nat \ {0}
           /\ config.readHeaderTimeout \in Nat \ {0}
           /\ config.targetDialTimeout \in Nat \ {0}
<1>1. \A t \in TimeoutNames : config[t] \in Int /\ config[t] > 0
    BY ConfigType DEF Validate
<1> QED
    BY <1>1 DEF TimeoutNames

\* The bucket holds a number of thousandths.
LEMMA FullBucketType ==
    ASSUME config \in {LoadSettings(e) : e \in Environments}
    PROVE  FullBucket \in Nat
BY ConfigType DEF FullBucket, Token

\* A tick takes Step off a timer, keeps its type and the order of two timers.
LEMMA LessMonotone ==
    ASSUME NEW m \in Nat, NEW n \in Nat
    PROVE  /\ Less(n) \in Nat
           /\ Less(n) <= n
           /\ m <= n => Less(m) <= Less(n)
BY ServerAssumption DEF Less

\* What is left of a request that is over.
LEMMA OverType ==
    ASSUME NEW how \in Phases
    PROVE  /\ Over(how) \in Request
           /\ Over(how).at = how
           /\ Over(how).code = 0
BY DEF Over, NoRequest, Request, AllKinds, Codes

----------------------------------------------------------------------------
(* The steps *)

\* The invariant holds when the process starts.
LEMMA InitServerInv == Init => ServerInv
<1> SUFFICES ASSUME Init PROVE ServerInv
    OBVIOUS
<1>1. TypeOK
    BY FullBucketType DEF Init, TypeOK, NoRequest, Request, Phases, AllKinds, Codes
<1>2. Bucket
    BY <1>1, FullBucketType DEF Init, Bucket, Running, TypeOK
<1> QED
    BY <1>1, <1>2
    DEF Init, ServerInv, Lifecycle, ServedByRunning, ReadAndWriteTime, HeaderTime, Running,
        Open, HeaderPending, InFlight, NoRequest

\* What the end of the process does to the requests: those in flight are lost,
\* and no connection is left.
LEMMA ExitRequests ==
    ASSUME TypeOK, NEW how, Exit(how)
    PROVE  /\ req' \in [Requests -> Request]
           /\ \A q \in Requests : ~ Open(q)' /\ ~ HeaderPending(q)'
           /\ \A q \in Requests : req'[q].at = "lost" => InFlight(q) \/ req[q].at = "lost"
           /\ \A q \in Requests : req'[q].code \in {0, req[q].code}
<1>1. ASSUME NEW q \in Requests
      PROVE  /\ req'[q] \in Request
             /\ ~ Open(q)' /\ ~ HeaderPending(q)'
             /\ req'[q].at = "lost" => InFlight(q) \/ req[q].at = "lost"
             /\ req'[q].code \in {0, req[q].code}
    <2>1. req[q] \in Request /\ {"lost", "dropped"} \subseteq Phases
        BY DEF TypeOK, Phases
    <2>2. CASE InFlight(q)
        <3>1. req'[q] = Over("lost")
            BY <2>2 DEF Exit, InFlight, HeaderPending
        <3> QED
            BY <2>1, <2>2, <3>1, OverType DEF Open, HeaderPending, InFlight
    <2>3. CASE ~ InFlight(q) /\ HeaderPending(q)
        <3>1. req'[q] = Over("dropped")
            BY <2>3 DEF Exit
        <3> QED
            BY <2>1, <2>3, <3>1, OverType DEF Open, HeaderPending, InFlight
    <2>4. CASE ~ Open(q)
        <3>1. req'[q] = req[q]
            BY <2>4 DEF Exit, Open
        <3> QED
            BY <2>1, <2>4, <3>1 DEF Open, HeaderPending, InFlight
    <2> QED
        BY <2>2, <2>3, <2>4 DEF Open
<1>2. req' = [q \in Requests |-> req'[q]]
    BY DEF Exit
<1> QED
    BY <1>1, <1>2

\* The end of the process preserves the invariant.
LEMMA ExitServerInv ==
    ASSUME ServerInv, NEW how \in {"fatal", "killed", "graceful", "forced"}, Exit(how)
    PROVE  ServerInv'
<1>1. TypeOK' /\ FullBucket' = FullBucket
    BY ExitRequests DEF ServerInv, TypeOK, Exit, limiter, FullBucket
<1>2. Lifecycle'
    BY DEF Exit, Lifecycle, Running
<1>3. ServedByRunning' /\ ReadAndWriteTime' /\ HeaderTime'
    BY ExitRequests DEF ServerInv, ServedByRunning, ReadAndWriteTime, HeaderTime
<1>4. Bucket'
    BY <1>1 DEF ServerInv, Exit, Bucket, Running, limiter
<1> QED
    BY <1>1, <1>2, <1>3, <1>4 DEF ServerInv

\* A step that leaves requests, grace and bucket alone, and neither starts nor
\* ends the process or a shutdown, preserves what is said of those.
LEMMA KeepsRequests ==
    ASSUME ServerInv, UNCHANGED <<config, grace, req, limiter>>,
           TypeOK', Lifecycle',
           Running => Running' /\ (main' = "shutdown" => main = "shutdown"),
           main' # "load",
           ~ Running => \A q \in Requests : ~ Open(q),
           listener \notin {"none", "pending"} => listener' \notin {"none", "pending"},
           Running' => Running
    PROVE  ServerInv'
<1>1. FullBucket' = FullBucket
    BY DEF FullBucket
<1>2. \A q \in Requests : Open(q)' = Open(q) /\ HeaderPending(q)' = HeaderPending(q)
    BY DEF Open, HeaderPending, InFlight
<1>3. Bucket'
    BY <1>1 DEF ServerInv, Bucket, limiter
<1>4. ServedByRunning'
    BY <1>2 DEF ServerInv, ServedByRunning
<1>5. ReadAndWriteTime' /\ HeaderTime'
    BY <1>2 DEF ServerInv, ReadAndWriteTime, HeaderTime, ServedByRunning, Open
<1> QED
    BY <1>3, <1>4, <1>5 DEF ServerInv

\* Every step of main preserves the invariant.
LEMMA MainServerInv == ServerInv /\ Main => ServerInv'
<1> SUFFICES ASSUME ServerInv, Main PROVE ServerInv'
    OBVIOUS
<1>1. CASE LoadFails
    BY <1>1, ExitServerInv DEF LoadFails
<1>2. CASE NewServer
    <2>1. TypeOK' /\ FullBucket' = FullBucket
        BY <1>2, FullBucketType DEF ServerInv, NewServer, TypeOK, FullBucket
    <2>2. Bucket'
        BY <1>2, <2>1, FullBucketType DEF ServerInv, NewServer, TypeOK, Bucket, Running
    <2>3. \A q \in Requests : ~ Open(q) /\ ~ HeaderPending(q)
        BY <1>2 DEF ServerInv, NewServer, ServedByRunning, Open, Running
    <2>4. \A q \in Requests : ~ Open(q)' /\ ~ HeaderPending(q)'
        BY <1>2, <2>3 DEF NewServer, Open, HeaderPending, InFlight
    <2>5. Lifecycle'
        BY <1>2 DEF ServerInv, NewServer, Lifecycle, Running
    <2> QED
        BY <2>1, <2>2, <2>4, <2>5 DEF ServerInv, ServedByRunning, ReadAndWriteTime, HeaderTime
<1>3. CASE Start
    <2>1. TypeOK' /\ Lifecycle'
        BY <1>3 DEF ServerInv, Start, TypeOK, Lifecycle, Running, FullBucket, limiter
    <2> QED
        BY <1>3, <2>1, KeepsRequests DEF ServerInv, Start, Running, Lifecycle
<1>4. CASE Listen
    <2>1. TypeOK' /\ Lifecycle'
        BY <1>4 DEF ServerInv, Listen, TypeOK, Lifecycle, Running, FullBucket, limiter
    <2> QED
        BY <1>4, <2>1, KeepsRequests DEF ServerInv, Listen, Running, Lifecycle
<1>5. CASE ListenFails
    BY <1>5, ExitServerInv DEF ListenFails
<1>6. CASE ServeFails
    BY <1>6, ExitServerInv DEF ServeFails
<1>7. CASE Notify
    <2>1. TypeOK' /\ Lifecycle'
        BY <1>7 DEF ServerInv, Notify, TypeOK, Lifecycle, Running, FullBucket, limiter
    <2> QED
        BY <1>7, <2>1, KeepsRequests DEF ServerInv, Notify, Running
<1>8. CASE SignalKills
    BY <1>8, ExitServerInv DEF SignalKills
<1>9. CASE SignalShutsDown
    <2>1. TypeOK' /\ FullBucket' = FullBucket
        BY <1>9 DEF ServerInv, SignalShutsDown, TypeOK, FullBucket, limiter, ShutdownTimeout
    <2>2. \A q \in Requests : Open(q)' = Open(q) /\ HeaderPending(q)' = HeaderPending(q)
        BY <1>9 DEF SignalShutsDown, Open, HeaderPending, InFlight
    <2>3. Bucket' /\ Lifecycle' /\ ServedByRunning'
        BY <1>9, <2>1, <2>2
        DEF ServerInv, SignalShutsDown, Bucket, Lifecycle, ServedByRunning, Running, limiter
    <2>4. grace' = 30 /\ config' = config /\ req' = req
        BY <1>9 DEF SignalShutsDown, ShutdownTimeout
    <2>5. \A q \in Requests : req[q].read \in Nat /\ req[q].write \in Nat /\ req[q].new \in Nat
        BY DEF ServerInv, TypeOK, Request
    <2>6. config.readTimeout \in Int /\ config.writeTimeout \in Int
        BY ConfigType DEF ServerInv, TypeOK, TimeoutNames
    <2>7. ReadAndWriteTime'
        BY <2>2, <2>4, <2>5, <2>6 DEF ServerInv, ReadAndWriteTime
    <2>8. HeaderTime'
        BY <2>2, <2>4, <2>5 DEF ServerInv, HeaderTime
    <2> QED
        BY <2>1, <2>3, <2>7, <2>8 DEF ServerInv
<1>10. CASE StartReturns
    <2>1. TypeOK' /\ Lifecycle'
        BY <1>10 DEF ServerInv, StartReturns, TypeOK, Lifecycle, Running, FullBucket, limiter
    <2> QED
        BY <1>10, <2>1, KeepsRequests DEF ServerInv, StartReturns, Running
<1>11. CASE ShutdownDone
    BY <1>11, ExitServerInv DEF ShutdownDone
<1>12. CASE ShutdownTimesOut
    BY <1>12, ExitServerInv DEF ShutdownTimesOut
<1> QED
    BY <1>1, <1>2, <1>3, <1>4, <1>5, <1>6, <1>7, <1>8, <1>9, <1>10, <1>11, <1>12 DEF Main

\* An answer of the sidecar itself has its type.
LEMMA RepliesType ==
    ASSUME req \in [Requests -> Request], NEW q \in Requests, NEW code \in Codes,
           config.writeTimeout \in Nat, Replies(q, code)
    PROVE  req' \in [Requests -> Request]
<1>1. "copy" \in Phases /\ req[q] \in Request
    BY DEF Phases
<1> DEFINE n == [req[q] EXCEPT !.at = "copy", !.code = code, !.timer = 0, !.new = 0,
                               !.write = config.writeTimeout]
<1>2. n \in Request
    BY <1>1 DEF Request
<1>3. req' = [req EXCEPT ![q] = n]
    BY DEF Replies
<1> QED
    BY <1>2, <1>3

\* So has an answer of the ErrorHandler.
LEMMA ErrorType ==
    ASSUME req \in [Requests -> Request], NEW q \in Requests, NEW code \in Codes,
           req' = [req EXCEPT ![q].at = "copy", ![q].code = code, ![q].read = 0]
    PROVE  req' \in [Requests -> Request]
<1>1. "copy" \in Phases /\ req[q] \in Request
    BY DEF Phases
<1> DEFINE n == [req[q] EXCEPT !.at = "copy", !.code = code, !.read = 0]
<1>2. n \in Request
    BY <1>1 DEF Request
<1>3. req' = [req EXCEPT ![q] = n]
    OBVIOUS
<1> QED
    BY <1>2, <1>3

\* So has a request that waits for a connection.
LEMMA DialsType ==
    ASSUME req \in [Requests -> Request], NEW q \in Requests, NEW timeout \in Nat,
           config.writeTimeout \in Nat, Dials(q, timeout)
    PROVE  req' \in [Requests -> Request]
<1>1. "dial" \in Phases
    BY DEF Phases
<1> QED
    BY <1>1 DEF Dials, Request

\* Request q is over; it has just arrived; its header is complete; or it goes
\* on, with no more time than it had.
Ended(q) == ~ Open(q)' /\ ~ HeaderPending(q)'
Arrived(q) ==
    /\ listener = "open"
    /\ req'[q].read = config.readTimeout
    /\ req'[q].write = 0
    /\ req'[q].new \in {0, 5}
HeaderCompleted(q) ==
    /\ HeaderPending(q) /\ ~ HeaderPending(q)'
    /\ req'[q].read = req[q].read
    /\ req'[q].write = config.writeTimeout
GoesOn(q) ==
    /\ InFlight(q) /\ ~ HeaderPending(q)'
    /\ req'[q].read <= req[q].read
    /\ req'[q].write = req[q].write

\* What serving a request may do: it changes that request only, keeps its type,
\* never cuts it off, and gives it no time beyond the server's timeouts.
LEMMA ServeRequests ==
    ASSUME ServerInv, NEW q \in Requests, Serve(q)
    PROVE  /\ req' \in [Requests -> Request]
           /\ \A p \in Requests \ {q} : req'[p] = req[p]
           /\ req'[q].at # "lost"
           /\ UNCHANGED <<config, process, app>>
           /\ Open(q) \/ listener = "open"
           /\ Ended(q) \/ Arrived(q) \/ HeaderCompleted(q) \/ GoesOn(q)
<1>1. req \in [Requests -> Request] /\ req[q] \in Request /\ req[q].read \in Nat
    BY DEF ServerInv, TypeOK, Request
<1>2. Open(q) \/ listener = "open" => Running
    BY DEF ServerInv, ServedByRunning, Lifecycle, Running
<1>3. Running => /\ config.readTimeout \in Nat
                 /\ config.writeTimeout \in Nat
                 /\ config.readHeaderTimeout \in Nat
                 /\ config.targetDialTimeout \in Nat
    BY ValidTimeouts DEF ServerInv, TypeOK, Lifecycle
<1>4. CASE Arrive(q)
    <2>1. PICK k \in Kinds,
               new \in {NewConnTimeout} \cup (IF req[q].at = "done" THEN {0} ELSE {}) :
             req' = [req EXCEPT ![q] = [at |-> "header", kind |-> k,
                        timer |-> HeaderTimeoutSetting, read |-> config.readTimeout,
                        write |-> 0, new |-> new, code |-> 0]]
        BY <1>4 DEF Arrive
    <2> DEFINE n == [at |-> "header", kind |-> k, timer |-> HeaderTimeoutSetting,
                     read |-> config.readTimeout, write |-> 0, new |-> new, code |-> 0]
    <2>2. new \in {0, 5}
        BY <2>1 DEF NewConnTimeout
    <2>3. n \in Request
        BY <1>2, <1>3, <1>4, <2>2, ServerAssumption
        DEF Arrive, Request, Phases, Codes, HeaderTimeoutSetting
    <2> QED
        BY <1>1, <1>4, <2>1, <2>2, <2>3 DEF Arrive, Arrived, process
<1>5. CASE HeaderTimeout(q)
    <2>1. Open(q)
        BY <1>5 DEF HeaderTimeout, HeaderLate, Open
    <2>2. req' = [req EXCEPT ![q] = Over("dropped")] /\ "dropped" \in Phases
        BY <1>5 DEF HeaderTimeout, Phases
    <2>3. req' \in [Requests -> Request]
        BY <1>1, <2>2, OverType
    <2>4. /\ \A p \in Requests \ {q} : req'[p] = req[p]
          /\ req'[q].at = "dropped"
        BY <1>1, <2>2, OverType
    <2>5. Ended(q)
        BY <2>4 DEF Ended, Open, HeaderPending, InFlight
    <2> QED
        BY <1>5, <2>1, <2>3, <2>4, <2>5 DEF HeaderTimeout, process
<1>6. CASE AnswerProbe(q)
    <2>1. HeaderPending(q) /\ Open(q)
        BY <1>6 DEF AnswerProbe, HeaderRead, Open
    <2>2. 200 \in Codes /\ config.writeTimeout \in Nat
        BY <1>2, <1>3, <2>1 DEF Codes
    <2>3. req' \in [Requests -> Request]
        BY <1>1, <1>6, <2>2, RepliesType DEF AnswerProbe
    <2>4. /\ \A p \in Requests \ {q} : req'[p] = req[p]
          /\ req'[q].at # "lost"
          /\ HeaderCompleted(q)
        BY <1>1, <1>6, <2>1 DEF AnswerProbe, Replies, Request, HeaderCompleted, HeaderPending
    <2> QED
        BY <1>6, <2>1, <2>3, <2>4 DEF AnswerProbe, process
<1>7. CASE CheckTarget(q)
    <2>1. HeaderPending(q) /\ Open(q)
        BY <1>7 DEF CheckTarget, HeaderRead, Open
    <2>2. config.targetDialTimeout \in Nat /\ config.writeTimeout \in Nat
        BY <1>2, <1>3, <2>1 DEF Codes
    <2>3. req' \in [Requests -> Request]
        BY <1>1, <1>7, <2>2, DialsType DEF CheckTarget
    <2>4. /\ \A p \in Requests \ {q} : req'[p] = req[p]
          /\ req'[q].at # "lost"
          /\ HeaderCompleted(q)
        BY <1>1, <1>7, <2>1 DEF CheckTarget, Dials, Request, HeaderCompleted, HeaderPending
    <2> QED
        BY <1>7, <2>1, <2>3, <2>4 DEF CheckTarget, process
<1>8. CASE Admit(q)
    <2>1. HeaderPending(q) /\ Open(q)
        BY <1>8 DEF Admit, HeaderRead, Open
    <2>2. 30 \in Nat /\ config.writeTimeout \in Nat
        BY <1>2, <1>3, <2>1 DEF Codes
    <2>3. req' \in [Requests -> Request]
        BY <1>1, <1>8, <2>2, DialsType DEF Admit, DefaultTransportDialTimeout
    <2>4. /\ \A p \in Requests \ {q} : req'[p] = req[p]
          /\ req'[q].at # "lost"
          /\ HeaderCompleted(q)
        BY <1>1, <1>8, <2>1 DEF Admit, Dials, Request, HeaderCompleted, HeaderPending, DefaultTransportDialTimeout
    <2> QED
        BY <1>8, <2>1, <2>3, <2>4 DEF Admit, process
<1>9. CASE TooManyRequests(q)
    <2>1. HeaderPending(q) /\ Open(q)
        BY <1>9 DEF TooManyRequests, HeaderRead, Open
    <2>2. 429 \in Codes /\ config.writeTimeout \in Nat
        BY <1>2, <1>3, <2>1 DEF Codes
    <2>3. req' \in [Requests -> Request]
        BY <1>1, <1>9, <2>2, RepliesType DEF TooManyRequests
    <2>4. /\ \A p \in Requests \ {q} : req'[p] = req[p]
          /\ req'[q].at # "lost"
          /\ HeaderCompleted(q)
        BY <1>1, <1>9, <2>1 DEF TooManyRequests, Replies, Request, HeaderCompleted, HeaderPending
    <2> QED
        BY <1>9, <2>1, <2>3, <2>4 DEF TooManyRequests, process
<1>10. CASE Connected(q)
    <2>1. InFlight(q) /\ Open(q)
        BY <1>10 DEF Connected, InFlight, Open
    <2>2. {"copy", "upload", "upstream"} \subseteq Phases /\ {0, 200} \subseteq Codes
        BY DEF Phases, Codes
    <2>3. req' \in [Requests -> Request]
        BY <1>1, <1>10, <2>2 DEF Connected, Request
    <2>4. /\ \A p \in Requests \ {q} : req'[p] = req[p]
          /\ req'[q].at # "lost"
          /\ GoesOn(q)
        BY <1>1, <1>10, <2>1 DEF Connected, Request, GoesOn, HeaderPending
    <2> QED
        BY <1>10, <2>1, <2>3, <2>4 DEF Connected, process
<1>11. CASE DialFails(q)
    <2>1. InFlight(q) /\ Open(q)
        BY <1>11 DEF DialFails, InFlight, Open
    <2>2. "copy" \in Phases /\ {502, 503} \subseteq Codes
        BY DEF Phases, Codes
    <2>3. req' \in [Requests -> Request]
        BY <1>1, <1>11, <2>2 DEF DialFails, Request
    <2>4. /\ \A p \in Requests \ {q} : req'[p] = req[p]
          /\ req'[q].at # "lost"
          /\ GoesOn(q)
        BY <1>1, <1>11, <2>1 DEF DialFails, Request, GoesOn, HeaderPending
    <2> QED
        BY <1>11, <2>1, <2>3, <2>4 DEF DialFails, process
<1>12. CASE BodyRead(q)
    <2>1. InFlight(q) /\ Open(q)
        BY <1>12 DEF BodyRead, InFlight, Open
    <2>2. "upstream" \in Phases
        BY DEF Phases
    <2>3. req' \in [Requests -> Request]
        BY <1>1, <1>12, <2>2 DEF BodyRead, Request
    <2>4. /\ \A p \in Requests \ {q} : req'[p] = req[p]
          /\ req'[q].at # "lost"
          /\ GoesOn(q)
        BY <1>1, <1>12, <2>1 DEF BodyRead, Request, GoesOn, HeaderPending
    <2> QED
        BY <1>12, <2>1, <2>3, <2>4 DEF BodyRead, process
<1>13. CASE RoundTripFails(q)
    <2>1. InFlight(q) /\ Open(q)
        BY <1>13 DEF RoundTripFails, BodyLate, InFlight, Open
    <2>2. "copy" \in Phases /\ "undelivered" \in Phases /\ 502 \in Codes
        BY DEF Phases, Codes
    <2>3. CASE req[q].code = 0
        <3>1. req' = [req EXCEPT ![q].at = "copy", ![q].code = 502, ![q].read = 0]
            BY <1>13, <2>3 DEF RoundTripFails
        <3>2. req' \in [Requests -> Request]
            BY <1>1, <2>2, <3>1, ErrorType
        <3>3. /\ \A p \in Requests \ {q} : req'[p] = req[p]
              /\ req'[q].at # "lost"
              /\ GoesOn(q)
            BY <1>1, <2>1, <3>1 DEF Request, GoesOn, HeaderPending
        <3> QED
            BY <1>13, <2>1, <3>2, <3>3 DEF RoundTripFails, process
    <2>4. CASE req[q].code # 0
        <3>1. req' = [req EXCEPT ![q] = Over("undelivered")]
            BY <1>13, <2>4 DEF RoundTripFails
        <3>2. req' \in [Requests -> Request]
            BY <1>1, <2>2, <3>1, OverType
        <3>3. /\ \A p \in Requests \ {q} : req'[p] = req[p]
              /\ req'[q].at = "undelivered"
            BY <1>1, <2>2, <3>1, OverType
        <3>4. Ended(q)
            BY <3>3 DEF Ended, Open, HeaderPending, InFlight
        <3> QED
            BY <1>13, <2>1, <3>2, <3>3, <3>4 DEF RoundTripFails, process
    <2> QED
        BY <2>3, <2>4
<1>14. CASE AppAnswers(q)
    <2>1. InFlight(q) /\ Open(q)
        BY <1>14 DEF AppAnswers, InFlight, Open
    <2>2. "copy" \in Phases /\ 200 \in Codes
        BY DEF Phases, Codes
    <2>3. req' \in [Requests -> Request]
        BY <1>1, <1>14, <2>2 DEF AppAnswers, Request
    <2>4. /\ \A p \in Requests \ {q} : req'[p] = req[p]
          /\ req'[q].at # "lost"
          /\ GoesOn(q)
        BY <1>1, <1>14, <2>1 DEF AppAnswers, Request, GoesOn, HeaderPending
    <2> QED
        BY <1>14, <2>1, <2>3, <2>4 DEF AppAnswers, process
<1>15. CASE ClientReads(q)
    <2>1. InFlight(q) /\ Open(q)
        BY <1>15 DEF ClientReads, InFlight, Open
    <2>2. {"done", "upstream"} \subseteq Phases
        BY DEF Phases
    <2>3. CASE req' = [req EXCEPT ![q] = Over("done")]
        <3>1. req' \in [Requests -> Request]
            BY <1>1, <2>2, <2>3, OverType
        <3>2. /\ \A p \in Requests \ {q} : req'[p] = req[p]
              /\ req'[q].at = "done"
            BY <1>1, <2>2, <2>3, OverType
        <3>3. Ended(q)
            BY <3>2 DEF Ended, Open, HeaderPending, InFlight
        <3> QED
            BY <1>15, <2>1, <3>1, <3>2, <3>3 DEF ClientReads, process
    <2>4. CASE req' = [req EXCEPT ![q].at = "upstream"]
        <3>1. req' \in [Requests -> Request]
            BY <1>1, <2>2, <2>4 DEF Request
        <3>2. /\ \A p \in Requests \ {q} : req'[p] = req[p]
              /\ req'[q].at # "lost"
              /\ GoesOn(q)
            BY <1>1, <2>1, <2>4 DEF Request, GoesOn, HeaderPending
        <3> QED
            BY <1>15, <2>1, <3>1, <3>2 DEF ClientReads, process
    <2> QED
        BY <1>15, <2>3, <2>4 DEF ClientReads
<1>16. CASE WriteTimesOut(q)
    <2>1. Open(q)
        BY <1>16 DEF WriteTimesOut, InFlight, Open
    <2>2. req' = [req EXCEPT ![q] = Over("undelivered")] /\ "undelivered" \in Phases
        BY <1>16 DEF WriteTimesOut, Phases
    <2>3. req' \in [Requests -> Request]
        BY <1>1, <2>2, OverType
    <2>4. /\ \A p \in Requests \ {q} : req'[p] = req[p]
          /\ req'[q].at = "undelivered"
        BY <1>1, <2>2, OverType
    <2>5. Ended(q)
        BY <2>4 DEF Ended, Open, HeaderPending, InFlight
    <2> QED
        BY <1>16, <2>1, <2>3, <2>4, <2>5 DEF WriteTimesOut, process
<1>17. CASE ShutdownCloses(q)
    <2>1. Open(q)
        BY <1>17 DEF ShutdownCloses, Open
    <2>2. req' = [req EXCEPT ![q] = Over("dropped")] /\ "dropped" \in Phases
        BY <1>17 DEF ShutdownCloses, Phases
    <2>3. req' \in [Requests -> Request]
        BY <1>1, <2>2, OverType
    <2>4. /\ \A p \in Requests \ {q} : req'[p] = req[p]
          /\ req'[q].at = "dropped"
        BY <1>1, <2>2, OverType
    <2>5. Ended(q)
        BY <2>4 DEF Ended, Open, HeaderPending, InFlight
    <2> QED
        BY <1>17, <2>1, <2>3, <2>4, <2>5 DEF ShutdownCloses, process
<1> QED
    BY <1>4, <1>5, <1>6, <1>7, <1>8, <1>9, <1>10, <1>11, <1>12, <1>13, <1>14, <1>15, <1>16, <1>17
    DEF Serve

\* Serving uses up tokens only for a request that the limiter guards, and then
\* one that is there.
LEMMA ServeLimiter ==
    ASSUME ServerInv, NEW q \in Requests, Serve(q)
    PROVE  \/ UNCHANGED limiter
           \/ /\ tokens >= 1000
              /\ tokens' = tokens - 1000
              /\ excess' = excess + 1000
<1>1. CASE Admit(q)
    BY <1>1 DEF Admit, Limited, Token, limiter
<1>2. CASE ~ Admit(q)
    BY <1>2
    DEF Serve, Arrive, HeaderTimeout, AnswerProbe, CheckTarget, TooManyRequests, Connected,
        DialFails, BodyRead, RoundTripFails, AppAnswers, ClientReads, WriteTimesOut,
        ShutdownCloses
<1> QED
    BY <1>1, <1>2

\* Every step of serving a request preserves the invariant.
LEMMA ServeServerInv == ASSUME ServerInv, NEW q \in Requests, Serve(q) PROVE ServerInv'
<1>1. /\ req' \in [Requests -> Request]
      /\ \A p \in Requests \ {q} : req'[p] = req[p]
      /\ UNCHANGED <<config, main, exit, listener, grace, app>>
      /\ Open(q) \/ listener = "open"
    BY ServeRequests DEF process
<1>2. FullBucket' = FullBucket /\ FullBucket \in Nat
    BY <1>1, FullBucketType DEF FullBucket, ServerInv, TypeOK
<1>3. tokens \in Nat /\ tokens <= FullBucket /\ excess \in Nat
    BY <1>2 DEF ServerInv, TypeOK
<1>4. tokens' \in 0..FullBucket' /\ excess' \in Nat
    BY <1>2, <1>3, ServeLimiter DEF limiter
<1>5. TypeOK'
    BY <1>1, <1>4 DEF ServerInv, TypeOK
<1>6. Lifecycle'
    BY <1>1 DEF ServerInv, Lifecycle, Running
<1>7. Running /\ listener \notin {"none", "pending"}
    BY <1>1 DEF ServerInv, Lifecycle, ServedByRunning, Running
<1>8. ServedByRunning'
    BY <1>1, <1>7 DEF ServedByRunning, Running
<1>9. Bucket'
    BY <1>1, <1>2, <1>3, <1>7, ServeLimiter DEF ServerInv, Bucket, Running, limiter
<1>10. Ended(q) \/ Arrived(q) \/ HeaderCompleted(q) \/ GoesOn(q)
    BY ServeRequests
<1>11. listener = "open" => main # "shutdown"
    BY DEF ServerInv, Lifecycle
<1>12. /\ config.readTimeout \in Nat /\ config.writeTimeout \in Nat /\ grace \in Nat
    BY <1>7, ValidTimeouts DEF ServerInv, TypeOK, Lifecycle
<1>13. /\ req[q].read \in Nat /\ req'[q].read \in Nat
       /\ req[q].write \in Nat /\ req'[q].write \in Nat /\ req[q].new \in Nat
    BY <1>1 DEF ServerInv, TypeOK, Request
<1>14. ReadAndWriteTime'
    <2> SUFFICES ASSUME NEW p \in Requests, Open(p)'
                 PROVE  /\ req'[p].read <= config.readTimeout
                        /\ req'[p].write <= config.writeTimeout
                        /\ (main = "shutdown" /\ config.readTimeout <= 15)
                              => req'[p].read <= grace
                        /\ (main = "shutdown" /\ config.writeTimeout <= 15)
                              => req'[p].write <= grace
        BY <1>1 DEF ReadAndWriteTime
    <2>1. CASE p # q
        <3>1. req'[p] = req[p] /\ Open(p)
            BY <1>1, <2>1 DEF Open, HeaderPending, InFlight
        <3> QED
            BY <3>1 DEF ServerInv, ReadAndWriteTime
    <2>2. CASE p = q /\ Arrived(q)
        BY <1>11, <1>12, <2>2 DEF Arrived
    <2>3. CASE p = q /\ HeaderCompleted(q)
        <3>1. Open(q) /\ (main = "shutdown" => 25 <= grace)
            BY <1>12, <1>13, <2>3 DEF ServerInv, HeaderTime, HeaderCompleted, Open
        <3> QED
            BY <1>12, <2>3, <3>1 DEF ServerInv, ReadAndWriteTime, HeaderCompleted
    <2>4. CASE p = q /\ GoesOn(q)
        <3>1. Open(q)
            BY <2>4 DEF GoesOn, Open
        <3> QED
            BY <1>12, <1>13, <2>4, <3>1 DEF ServerInv, ReadAndWriteTime, GoesOn
    <2> QED
        BY <1>10, <2>1, <2>2, <2>3, <2>4 DEF Ended
<1>15. HeaderTime'
    <2> SUFFICES ASSUME NEW p \in Requests, HeaderPending(p)'
                 PROVE  /\ req'[p].new <= 5
                        /\ req'[p].new = 0 \/ Step <= req'[p].new
                        /\ main = "shutdown" => 25 + req'[p].new <= grace
        BY <1>1 DEF HeaderTime
    <2>1. CASE p # q
        <3>1. req'[p] = req[p] /\ HeaderPending(p)
            BY <1>1, <2>1 DEF HeaderPending
        <3> QED
            BY <3>1 DEF ServerInv, HeaderTime
    <2>2. CASE p = q
        <3>1. Arrived(q)
            BY <1>10, <2>2 DEF Ended, HeaderCompleted, GoesOn
        <3> QED
            BY <1>11, <2>2, <3>1, ServerAssumption DEF Arrived
    <2> QED
        BY <2>1, <2>2
<1> QED
    BY <1>5, <1>6, <1>8, <1>9, <1>14, <1>15 DEF ServerInv

\* A tick takes the same time off all timers of a connection and changes
\* nothing else about its request.
LEMMA TickRequests ==
    ASSUME ServerInv, Tick, NEW q \in Requests
    PROVE  /\ req'[q] \in Request
           /\ req'[q].at = req[q].at
           /\ req'[q].code = req[q].code
           /\ Open(q) => /\ req'[q].read = Less(req[q].read)
                         /\ req'[q].write = Less(req[q].write)
                         /\ req'[q].new = Less(req[q].new)
<1>1. /\ req[q] \in Request
      /\ req[q].timer \in Nat /\ req[q].read \in Nat
      /\ req[q].write \in Nat /\ req[q].new \in Nat
    BY DEF ServerInv, TypeOK, Request
<1>2. CASE Open(q)
    <2>1. req'[q] = [req[q] EXCEPT !.timer = Less(@), !.read = Less(@), !.write = Less(@),
                                   !.new = Less(@)]
        BY <1>2 DEF Tick
    <2>2. /\ Less(req[q].timer) \in Nat /\ Less(req[q].read) \in Nat
          /\ Less(req[q].write) \in Nat /\ Less(req[q].new) \in Nat
        BY <1>1, LessMonotone
    <2> QED
        BY <1>1, <2>1, <2>2 DEF Request
<1>3. CASE ~ Open(q)
    BY <1>1, <1>3 DEF Tick
<1> QED
    BY <1>2, <1>3

\* The passage of time preserves the invariant: the bucket fills at the rate at
\* which what was admitted is forgiven, and all timers run equally fast.
LEMMA TickServerInv == ASSUME ServerInv, Tick PROVE ServerInv'
<1>1. UNCHANGED <<config, main, exit, listener, app>>
    BY DEF Tick
<1>2. FullBucket' = FullBucket /\ FullBucket \in Nat
    BY <1>1, FullBucketType DEF FullBucket, ServerInv, TypeOK
<1>3. \A q \in Requests :
          /\ req'[q] \in Request
          /\ req'[q].at = req[q].at
          /\ Open(q) => /\ req'[q].read = Less(req[q].read)
                        /\ req'[q].write = Less(req[q].write)
                        /\ req'[q].new = Less(req[q].new)
    BY TickRequests
<1>4. req' \in [Requests -> Request]
    <2>1. req' = [q \in Requests |-> req'[q]]
        BY DEF Tick
    <2> QED
        BY <1>3, <2>1
<1>5. grace' \in Nat /\ grace' = Less(grace) /\ grace \in Nat
    BY LessMonotone DEF ServerInv, TypeOK, Tick
<1> DEFINE gain == config.rateLimitRPS * Step
<1>6. config.rateLimitEnabled => gain \in Nat
    BY ConfigType, ServerAssumption DEF ServerInv, TypeOK
<1>7. tokens \in Nat /\ tokens <= FullBucket /\ excess \in Nat
    BY <1>2 DEF ServerInv, TypeOK
<1>8. tokens' \in 0..FullBucket' /\ excess' \in Nat /\ Bucket'
    <2> HIDE DEF gain
    <2>1. CASE config.rateLimitEnabled
        <3>1. /\ tokens' = IF tokens + gain > FullBucket THEN FullBucket ELSE tokens + gain
              /\ excess' = IF excess > gain THEN excess - gain ELSE 0
            BY <2>1 DEF Tick, Refill, gain
        <3>2. tokens' \in 0..FullBucket' /\ excess' \in Nat /\ excess' <= excess
            BY <1>2, <1>6, <1>7, <2>1, <3>1
        <3>3. Running => excess + tokens = FullBucket
            BY <2>1 DEF ServerInv, Bucket
        <3>4. Running => excess' + tokens' = FullBucket
            BY <1>2, <1>6, <1>7, <2>1, <3>1, <3>3
        <3>5. excess <= FullBucket /\ (main = "load" => excess = 0)
            BY <2>1 DEF ServerInv, Bucket
        <3>6. excess' <= FullBucket'
            BY <1>2, <1>7, <3>2, <3>5
        <3>7. Bucket'
            <4>1. main # "load"
                BY DEF Tick
            <4> QED
                BY <1>1, <1>2, <3>4, <3>6, <4>1 DEF Bucket, Running
        <3> QED
            BY <3>2, <3>7
    <2>2. CASE ~ config.rateLimitEnabled
        <3>1. tokens' = tokens /\ excess' = excess
            BY <2>2 DEF Tick, limiter
        <3> QED
            BY <1>1, <1>2, <1>7, <2>2, <3>1 DEF Bucket
    <2> QED
        BY <2>1, <2>2
<1>9. TypeOK'
    BY <1>1, <1>4, <1>5, <1>8 DEF ServerInv, TypeOK
<1>10. \A q \in Requests : Open(q)' = Open(q) /\ HeaderPending(q)' = HeaderPending(q)
    BY <1>3 DEF Open, HeaderPending, InFlight
<1>11. Lifecycle' /\ ServedByRunning'
    BY <1>1, <1>3, <1>10 DEF ServerInv, Lifecycle, ServedByRunning, Running
<1>12. ReadAndWriteTime'
    <2> SUFFICES ASSUME NEW q \in Requests, Open(q)
                 PROVE  /\ req'[q].read <= config.readTimeout
                        /\ req'[q].write <= config.writeTimeout
                        /\ (main = "shutdown" /\ config.readTimeout <= 15)
                              => req'[q].read <= grace'
                        /\ (main = "shutdown" /\ config.writeTimeout <= 15)
                              => req'[q].write <= grace'
        BY <1>1, <1>10 DEF ReadAndWriteTime
    <2>1. config.readTimeout \in Int /\ config.writeTimeout \in Int
        BY ConfigType DEF ServerInv, TypeOK, TimeoutNames
    <2>2. req[q].read \in Nat /\ req[q].write \in Nat
        BY DEF ServerInv, TypeOK, Request
    <2> QED
        BY <1>3, <1>5, <2>1, <2>2, LessMonotone DEF ServerInv, ReadAndWriteTime
<1>13. HeaderTime'
    <2> SUFFICES ASSUME NEW q \in Requests, HeaderPending(q)
                 PROVE  /\ req'[q].new <= 5
                        /\ req'[q].new = 0 \/ Step <= req'[q].new
                        /\ main = "shutdown" => 25 + req'[q].new <= grace'
        BY <1>1, <1>10 DEF HeaderTime
    <2>1. req[q].new \in Nat /\ req'[q].new = Less(req[q].new)
        BY <1>3 DEF ServerInv, TypeOK, Request, Open
    <2>2. main = "shutdown" => req[q].new # 0
        BY DEF Tick, Due
    <2>3. /\ req[q].new <= 5
          /\ req[q].new = 0 \/ Step <= req[q].new
          /\ main = "shutdown" => 25 + req[q].new <= grace
        BY DEF ServerInv, HeaderTime
    <2>4. CASE Step = 1
        BY <1>5, <2>1, <2>2, <2>3, <2>4 DEF Less
    <2>5. CASE Step = 5
        BY <1>5, <2>1, <2>2, <2>3, <2>5 DEF Less
    <2> QED
        BY <2>4, <2>5, ServerAssumption
<1> QED
    BY <1>8, <1>9, <1>11, <1>12, <1>13 DEF ServerInv

\* Every step of the process, its requests, the application and time preserves
\* the invariant.
LEMMA StepServerInv == ServerInv /\ [Next]_vars => ServerInv'
<1> SUFFICES ASSUME ServerInv, [Next]_vars PROVE ServerInv'
    OBVIOUS
<1>1. CASE AppChange \/ UNCHANGED vars
    <2>1. UNCHANGED <<config, main, exit, listener, grace, req, tokens, excess>>
        BY <1>1 DEF AppChange, vars, process, limiter
    <2>2. TypeOK'
        BY <1>1, <2>1 DEF ServerInv, TypeOK, AppChange, vars, FullBucket
    <2>3. Lifecycle' /\ Bucket'
        BY <2>1 DEF ServerInv, Lifecycle, Bucket, Running, FullBucket
    <2>4. ServedByRunning' /\ ReadAndWriteTime' /\ HeaderTime'
        BY <2>1
        DEF ServerInv, ServedByRunning, ReadAndWriteTime, HeaderTime, Running, Open,
            HeaderPending, InFlight
    <2> QED
        BY <2>2, <2>3, <2>4 DEF ServerInv
<1> QED
    BY <1>1, MainServerInv, ServeServerInv, TickServerInv DEF Next

----------------------------------------------------------------------------
(* Theorems *)

\* The invariant holds in every reachable state.
THEOREM ServerInvariant == Spec => []ServerInv
BY InitServerInv, StepServerInv, PTL DEF Spec

\* The process's variables have their types: no timer and no bucket becomes
\* negative, and none exceeds what it started with.
THEOREM ServerTypeCorrect == Spec => []TypeOK
<1>1. ServerInv => TypeOK
    BY DEF ServerInv
<1> QED
    BY <1>1, ServerInvariant, PTL

\* Whatever the rate, the burst and the interleaving of requests and time, no
\* interval admits more than the burst and what the rate allows for its length.
THEOREM RateBounded == Spec => []RateBound
<1>1. ServerInv => RateBound
    BY DEF ServerInv, Bucket, RateBound
<1> QED
    BY <1>1, ServerInvariant, PTL

\* A 429 is given to a request for the application only, and only when the rate
\* and the burst are used up.
THEOREM LimitedCorrect == Spec => LimitedOnlyAtLimit
<1>1. ServerInv /\ [Next]_vars =>
          [\A q \in Requests :
              (req'[q].code = 429 /\ req[q].code = 0) =>
                  Proxied(q) /\ excess + Token > FullBucket]_vars
    <2> SUFFICES ASSUME ServerInv, Next, NEW q \in Requests,
                        req'[q].code = 429, req[q].code = 0
                 PROVE  Proxied(q) /\ excess + Token > FullBucket
        BY DEF vars
    <2>1. ~ Main /\ ~ Tick /\ ~ AppChange
        <3>1. Main => req'[q].code \in {0, req[q].code}
            BY ExitRequests
            DEF Main, LoadFails, NewServer, Start, Listen, ListenFails, ServeFails, Notify,
                SignalKills, SignalShutsDown, StartReturns, ShutdownDone,
                ShutdownTimesOut, ServerInv
        <3>2. Tick => req'[q].code = req[q].code
            BY TickRequests
        <3> QED
            BY <3>1, <3>2 DEF AppChange
    <2>2. PICK p \in Requests : Serve(p)
        BY <2>1 DEF Next
    <2>3. p = q
        BY <2>2, ServeRequests
    <2>4. TooManyRequests(q)
        <3>1. req[q] \in Request /\ req \in [Requests -> Request]
            BY DEF ServerInv, TypeOK
        <3>2. ~ Arrive(q)
            <4> SUFFICES ASSUME Arrive(q) PROVE req'[q].code = 0
                OBVIOUS
            <4>1. PICK k \in Kinds, new \in {NewConnTimeout, 0} :
                     req'[q] = [at |-> "header", kind |-> k,
                                timer |-> HeaderTimeoutSetting, read |-> config.readTimeout,
                                write |-> 0, new |-> new, code |-> 0]
                BY <3>1 DEF Arrive
            <4> QED
                BY <4>1
        <3>3. ~ HeaderTimeout(q)
            BY <3>1, OverType DEF HeaderTimeout, Phases
        <3>4. ~ AnswerProbe(q)
            BY <3>1 DEF AnswerProbe, Replies, Request
        <3>5. ~ CheckTarget(q)
            BY <3>1 DEF CheckTarget, Dials, Request
        <3>6. ~ Admit(q)
            BY <3>1 DEF Admit, Dials, Request
        <3>7. ~ Connected(q)
            BY <3>1 DEF Connected, Request
        <3>8. ~ DialFails(q)
            BY <3>1 DEF DialFails, Request
        <3>9. ~ BodyRead(q)
            BY <3>1 DEF BodyRead, Request
        <3>10. ~ RoundTripFails(q)
            BY <3>1, OverType DEF RoundTripFails, Request, Phases
        <3>11. ~ AppAnswers(q)
            BY <3>1 DEF AppAnswers, Request
        <3>12. ~ ClientReads(q)
            BY <3>1, OverType DEF ClientReads, Request, Phases
        <3>13. ~ WriteTimesOut(q) /\ ~ ShutdownCloses(q)
            BY <3>1, OverType DEF WriteTimesOut, ShutdownCloses, Phases
        <3> QED
            BY <2>2, <2>3, <3>2, <3>3, <3>4, <3>5, <3>6, <3>7, <3>8, <3>9, <3>10, <3>11, <3>12,
               <3>13
            DEF Serve
    <2>5. tokens < 1000 /\ config.rateLimitEnabled /\ Proxied(q)
        BY <2>4 DEF TooManyRequests, Limited, Token
    <2>6. Running
        BY <2>4 DEF TooManyRequests, HeaderRead, Open, ServerInv, ServedByRunning
    <2>7. excess + tokens = FullBucket /\ tokens \in Nat /\ excess \in Nat /\ FullBucket \in Nat
        BY <2>5, <2>6, FullBucketType DEF ServerInv, Bucket, TypeOK
    <2> QED
        BY <2>5, <2>7 DEF Token
<1> QED
    BY <1>1, ServerInvariant, PTL DEF Spec, LimitedOnlyAtLimit

\* What ends the process: Shutdown out of time is what makes an exit forced.
LEMMA ForcedByTimeout ==
    ASSUME ServerInv, Next, exit' = "forced", exit = "no"
    PROVE  main = "shutdown" /\ grace = 0
<1>1. ~ Tick /\ ~ AppChange
    BY DEF Tick, AppChange, process
<1>2. ASSUME NEW p \in Requests PROVE ~ Serve(p)
    BY ServeRequests DEF process
<1>3. Main
    BY <1>1, <1>2 DEF Next
<1>4. ShutdownTimesOut
    BY <1>3 DEF Main, LoadFails, NewServer, Start, Listen, ListenFails, ServeFails, Notify,
                SignalKills, SignalShutsDown, StartReturns, ShutdownDone, Exit
<1> QED
    BY <1>4 DEF ShutdownTimesOut

\* Once main waits for signals, a request in progress is cut off only by a
\* failure of the listener or after the whole of Shutdown's thirty seconds.
THEOREM NoEarlyLoss == Spec => LostOnlyAfterGrace
<1>1. ServerInv /\ [Next]_vars =>
          [\A q \in Requests :
              (main \in {"wait", "shutdown"} /\ req'[q].at = "lost" /\ req[q].at # "lost") =>
                  \/ exit' = "fatal" /\ listener = "open"
                  \/ exit' = "forced" /\ main = "shutdown" /\ grace = 0]_vars
    <2> SUFFICES ASSUME ServerInv, Next, NEW q \in Requests, main \in {"wait", "shutdown"},
                        req'[q].at = "lost", req[q].at # "lost"
                 PROVE  \/ exit' = "fatal" /\ listener = "open"
                        \/ exit' = "forced" /\ main = "shutdown" /\ grace = 0
        BY DEF vars
    <2>1. ~ Tick /\ ~ AppChange
        BY TickRequests DEF AppChange
    <2>2. ASSUME NEW p \in Requests PROVE ~ Serve(p)
        <3>1. CASE p = q
            BY <3>1, ServeRequests
        <3>2. CASE p # q
            BY <3>2, ServeRequests
        <3> QED
            BY <3>1, <3>2
    <2>3. Main
        BY <2>1, <2>2 DEF Next
    <2>4. ASSUME NEW how, Exit(how) PROVE InFlight(q) /\ Open(q)
        BY <2>4, ExitRequests DEF ServerInv, Open
    <2>5. ~ ListenFails
        BY <2>4 DEF ListenFails, ServerInv, ServedByRunning
    <2>6. ~ ShutdownDone
        BY <2>4 DEF ShutdownDone
    <2>7. ServeFails \/ ShutdownTimesOut
        BY <2>3, <2>5, <2>6
        DEF Main, LoadFails, NewServer, Start, Listen, Notify, SignalKills, SignalShutsDown,
            StartReturns
    <2> QED
        BY <2>7 DEF ServeFails, ShutdownTimesOut, Exit
<1> QED
    BY <1>1, ServerInvariant, PTL DEF Spec, LostOnlyAfterGrace

\* Whatever the timeouts are, no client in the middle of a header makes Shutdown
\* run out of time; with a ReadTimeout or WriteTimeout of at most the default, no
\* client that is in time with its body or with reading its answer does.
THEOREM ClientsDoNotForce == Spec => ClientsNeverForceExit
<1>1. ServerInv /\ [Next]_vars =>
          [(exit' = "forced" /\ exit = "no") =>
              \A q \in Requests :
                  /\ ~ HeaderPending(q)
                  /\ (req[q].at = "upload" /\ config.readTimeout <= DefaultTimeout.readTimeout)
                        => req[q].read = 0
                  /\ (req[q].at = "copy" /\ config.writeTimeout <= DefaultTimeout.writeTimeout)
                        => req[q].write = 0]_vars
    <2> SUFFICES ASSUME ServerInv, Next, exit' = "forced", exit = "no", NEW q \in Requests
                 PROVE  /\ ~ HeaderPending(q)
                        /\ (req[q].at = "upload"
                               /\ config.readTimeout <= DefaultTimeout.readTimeout)
                              => req[q].read = 0
                        /\ (req[q].at = "copy"
                               /\ config.writeTimeout <= DefaultTimeout.writeTimeout)
                              => req[q].write = 0
        BY DEF vars
    <2>1. main = "shutdown" /\ grace = 0
        BY ForcedByTimeout
    <2>2. req[q].read \in Nat /\ req[q].write \in Nat /\ req[q].new \in Nat
        BY DEF ServerInv, TypeOK, Request
    <2>3. ~ HeaderPending(q)
        BY <2>1, <2>2 DEF ServerInv, HeaderTime
    <2>4. req[q].at \in {"upload", "copy"} => Open(q)
        BY DEF Open, InFlight
    <2>5. DefaultTimeout.readTimeout = 15 /\ DefaultTimeout.writeTimeout = 15
        BY DEF DefaultTimeout
    <2> QED
        BY <2>1, <2>2, <2>3, <2>4, <2>5 DEF ServerInv, ReadAndWriteTime
<1> QED
    BY <1>1, ServerInvariant, PTL DEF Spec, ClientsNeverForceExit

============================================================================
