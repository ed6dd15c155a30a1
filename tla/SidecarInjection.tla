-------------------------- MODULE SidecarInjection --------------------------
(***************************************************************************)
(* The life of an injected pod: a user submits a manifest, the API server  *)
(* calls the mutating webhook and then the validating one, the kubelet     *)
(* starts the sidecar, which loads its configuration from the environment  *)
(* that the webhook wrote.  A stored manifest, sidecar included, may be    *)
(* submitted again (a restored backup, a copied pod), with its annotations *)
(* edited and the ctxforge.io/injected mark kept, removed or added.        *)
(***************************************************************************)
EXTENDS PodWebhook

CONSTANTS
    Manifests,       \* the pods users write, which no webhook has seen; some may
                     \* carry the mark all the same
    NoPod,
    NoConfig,
    MaxSubmissions   \* bound on the submissions of a manifest

ASSUME InjectionAssumption ==
    /\ Manifests \subseteq Pod
    /\ \A m \in Manifests : /\ m.sidecars = <<>>
                            /\ \A a \in Apps : m.proxied[a] = 0
    /\ MaxSubmissions \in Nat
    /\ NoPod \notin Pod

VARIABLES
    step,         \* "draft", "mutated", "rejected", "admitted", "running", "crashed", "alone"
    draft,        \* the manifest in the user's hands
    pod,          \* the pod in the API server
    warned,       \* ValidateCreate returned a warning
    config,       \* the rules and settings of the running sidecar
    submissions   \* times this manifest was submitted

vars == <<step, draft, pod, warned, config, submissions>>

Init ==
    /\ step = "draft"
    /\ draft \in Manifests
    /\ pod = NoPod
    /\ warned = FALSE
    /\ config = NoConfig
    /\ submissions = 0

\* The API server calls the mutating webhook on CREATE.
Mutate ==
    /\ step = "draft"
    /\ submissions < MaxSubmissions
    /\ pod' = Default(draft)
    /\ step' = "mutated"
    /\ submissions' = submissions + 1
    /\ UNCHANGED <<draft, warned, config>>

\* ... and then the validating one.
ValidateCreate ==
    /\ step = "mutated"
    /\ warned' = Warns(pod)
    /\ step' = IF Accepts(pod) THEN "admitted" ELSE "rejected"
    /\ UNCHANGED <<draft, pod, config, submissions>>

\* NewProxyHandler returns no error: url.Parse takes the target, and every rule
\* that generates names a generator.
NewProxyHandlerOK(rules, settings) ==
    /\ settings.targetHost # Garbage
    /\ \A i \in DOMAIN rules : rules[i].generate => rules[i].generatorType \in GeneratorTypes

\* The kubelet starts the pod: the sidecar, if there is one, runs main, which
\* exits if Load or NewProxyHandler fails.
StartSidecar ==
    /\ step = "admitted"
    /\ IF pod.sidecars = <<>>
       THEN step' = "alone" /\ UNCHANGED config
       ELSE LET env == pod.sidecars[1]
            IN  IF LoadOK(env) /\ NewProxyHandlerOK(LoadedRules(env), LoadedSettings(env))
                THEN /\ step' = "running"
                     /\ config' = [rules |-> LoadedRules(env),
                                   settings |-> LoadedSettings(env)]
                ELSE step' = "crashed" /\ UNCHANGED config
    /\ UNCHANGED <<draft, pod, warned, submissions>>

\* The pod goes away and its stored manifest is submitted again, as it was or
\* with the annotations of another manifest.
Resubmit ==
    /\ step \in {"alone", "running", "crashed"}
    /\ submissions < MaxSubmissions
    /\ \E m \in Manifests \cup {pod}, mark \in BOOLEAN :
          draft' = [pod EXCEPT !.enabled = m.enabled, !.headers = m.headers,
                               !.rules = m.rules, !.targetPort = m.targetPort,
                               !.injected = mark]
    /\ step' = "draft"
    /\ pod' = NoPod
    /\ warned' = FALSE
    /\ config' = NoConfig
    /\ UNCHANGED submissions

Next == Mutate \/ ValidateCreate \/ StartSidecar \/ Resubmit

Spec == Init /\ [][Next]_vars

----------------------------------------------------------------------------
(* Properties *)

\* Every variable has its type.
TypeOK ==
    /\ step \in {"draft", "mutated", "rejected", "admitted", "running", "crashed", "alone"}
    /\ draft \in Pod
    /\ pod \in Pod \cup {NoPod}
    /\ warned \in BOOLEAN
    /\ config # NoConfig => /\ config.rules \in Seq(Rule)
                            /\ DOMAIN config.settings = SettingNames
    /\ submissions \in 0..MaxSubmissions

\* However often a manifest passes the webhook, and whether or not its mark
\* survives, the pod has at most one sidecar and its applications are sent to
\* the proxy at most once.
InjectedOnce ==
    pod # NoPod =>
        /\ Len(pod.sidecars) <= 1
        /\ \A a \in Apps : pod.proxied[a] = Len(pod.sidecars)

MethodsValid(env) ==
    env.rules \notin {Unset, Malformed} =>
        \A i \in DOMAIN env.rules : env.rules[i].methods \cap BadMethods = {}

\* A sidecar that the two webhooks let through starts, unless a rule has a
\* method that is none of HTTP's or the target port a sign: on all else the
\* copies of the validation in the webhook, config.Load and NewProxyHandler
\* agree, and Default writes no environment that main rejects.
StartsUnlessMethodOrSign ==
    step = "crashed" => \/ ~ MethodsValid(pod.sidecars[1])
                        \/ pod.sidecars[1].target.signed

\* The sidecar never forwards to its own port, whatever target-port says and
\* whichever submission wrote its environment.
NoSelfForward ==
    step = "running" => config.settings.targetHost # config.settings.proxyPort

\* What a rule of the text asks of the rule the handler applies.
AsAsked(rule, raw) ==
    /\ rule.name = raw.name
    /\ rule.generate = raw.generate
    /\ rule.generate =>
          rule.generatorType = IF raw.generatorType = "" THEN "uuid" ELSE raw.generatorType
    /\ raw.propagate # "false" => rule.propagate
    /\ \A path \in Paths, method \in Methods :
          MatchesRequest(rule, path, method) <=>
              /\ raw.pathRegex # NoRegex => path \in raw.pathRegex
              /\ raw.methods # {} => \E m \in raw.methods : ToUpper[m] = ToUpper[method]

\* A header of the simple list asks for as much as a rule with a name only.
Listed(name) ==
    [name |-> name, generate |-> FALSE, generatorType |-> "", propagate |-> "unset",
     pathRegex |-> NoRegex, methods |-> {}]

\* A sidecar injected at the first submission applies the rules of
\* header-rules, each in full and in their order, if there are any, and
\* otherwise the listed headers, all of them and in their order: nothing is
\* lost between the annotation, the environment and the handler.
RunsWhatWasAsked ==
    (step = "running" /\ submissions = 1) =>
        IF pod.rules \in {Unset, Blank}
        THEN LET listed == {i \in DOMAIN pod.headers : pod.headers[i] # Blank}
             IN  \E place \in [DOMAIN config.rules -> listed] :
                    /\ \A k, l \in DOMAIN config.rules : k < l => place[k] < place[l]
                    /\ \A i \in listed : \E k \in DOMAIN config.rules : place[k] = i
                    /\ \A k \in DOMAIN config.rules :
                          AsAsked(config.rules[k], Listed(pod.headers[place[k]]))
        ELSE /\ DOMAIN config.rules = DOMAIN pod.rules
             /\ \A i \in DOMAIN pod.rules : AsAsked(config.rules[i], pod.rules[i])

\* config.go says of propagation "To disable propagation, explicitly set
\* "propagate": false": a rule that says so does not propagate its header.
PropagateFalseHonoured ==
    (step = "running" /\ submissions = 1 /\ pod.rules \notin {Unset, Blank}) =>
        \A i \in DOMAIN pod.rules :
            pod.rules[i].propagate = "false" => ~ config.rules[i].propagate

\* A pod that asks for the sidecar and gets neither it nor a warning carries
\* the mark, or has a headers annotation made of separators: on every other
\* pod that names no headers, Default and ValidateCreate agree.
AloneIsExplained ==
    (step = "alone" /\ pod.enabled /\ ~ warned) =>
        \/ pod.injected
        \/ /\ pod.rules \in {Unset, Blank}
           /\ pod.headers # Unset
           /\ Len(pod.headers) > 1
           /\ \A i \in DOMAIN pod.headers : pod.headers[i] = Blank

============================================================================
