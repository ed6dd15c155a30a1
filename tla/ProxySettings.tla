--------------------------- MODULE ProxySettings ---------------------------
(***************************************************************************)
(* The settings of the sidecar other than its header rules, as config.Load *)
(* reads them from the environment.  Times are in seconds.  A rate, which  *)
(* the code keeps as a float64, is in thousandths of a request per second. *)
(* A host stands for the port of localhost it names, a log level for all   *)
(* its spellings.                                                          *)
(***************************************************************************)
EXTENDS Integers

CONSTANTS
    Unset,    \* a variable or annotation that is not set, or empty
    Garbage   \* text that is no number, duration, boolean or host

\* The environment variables, named as the fields they set.
TimeoutNames ==
    {"readTimeout", "writeTimeout", "idleTimeout", "readHeaderTimeout",
     "targetDialTimeout"}
SettingNames ==
    TimeoutNames \cup
    {"targetHost", "proxyPort", "logLevel", "metricsPort", "rateLimitEnabled",
     "rateLimitRPS", "rateLimitBurst"}

\* An environment with none of them.
NothingSet == [s \in SettingNames |-> Unset]

DefaultProxyPort == 9090
DefaultTimeout ==
    [readTimeout |-> 15, writeTimeout |-> 15, idleTimeout |-> 60,
     readHeaderTimeout |-> 5, targetDialTimeout |-> 5]

GetEnv(value, default) == IF value = Unset THEN default ELSE value
GetEnvInt(value, default) == IF value \in {Unset, Garbage} THEN default ELSE value
GetEnvDuration(value, default) == IF value \in {Unset, Garbage} THEN default ELSE value
GetEnvFloat(value, default) == IF value \in {Unset, Garbage} THEN default ELSE value
GetEnvBool(value, default) ==
    IF value \in {"true", "1", "yes"} THEN TRUE
    ELSE IF value \in {"false", "0", "no"} THEN FALSE ELSE default

\* The settings Load builds before it validates them.
LoadSettings(env) ==
    [targetHost |-> GetEnv(env.targetHost, 8080),
     proxyPort |-> GetEnvInt(env.proxyPort, DefaultProxyPort),
     logLevel |-> GetEnv(env.logLevel, "info"),
     metricsPort |-> GetEnvInt(env.metricsPort, 9091),
     readTimeout |-> GetEnvDuration(env.readTimeout, DefaultTimeout.readTimeout),
     writeTimeout |-> GetEnvDuration(env.writeTimeout, DefaultTimeout.writeTimeout),
     idleTimeout |-> GetEnvDuration(env.idleTimeout, DefaultTimeout.idleTimeout),
     readHeaderTimeout |->
         GetEnvDuration(env.readHeaderTimeout, DefaultTimeout.readHeaderTimeout),
     targetDialTimeout |->
         GetEnvDuration(env.targetDialTimeout, DefaultTimeout.targetDialTimeout),
     rateLimitEnabled |-> GetEnvBool(env.rateLimitEnabled, FALSE),
     rateLimitRPS |-> GetEnvFloat(env.rateLimitRPS, 1000000),
     rateLimitBurst |-> GetEnvInt(env.rateLimitBurst, 100)]

ValidPort(n) == n \in 1..65535

\* As Validate, but letting a timeout of zero through.
ValidateNonNegative(cfg) ==
    /\ ValidPort(cfg.proxyPort)
    /\ ValidPort(cfg.metricsPort)
    /\ cfg.proxyPort # cfg.metricsPort
    /\ cfg.targetHost # Unset
    /\ cfg.logLevel \in {"debug", "info", "warn", "error"}
    /\ \A t \in TimeoutNames : cfg[t] >= 0

\* Validate returns no error.  The rate limit is not looked at.
Validate(cfg) ==
    /\ ValidPort(cfg.proxyPort)
    /\ ValidPort(cfg.metricsPort)
    /\ cfg.proxyPort # cfg.metricsPort
    /\ cfg.targetHost # Unset
    /\ cfg.logLevel \in {"debug", "info", "warn", "error"}
    /\ \A t \in TimeoutNames : cfg[t] > 0

============================================================================
