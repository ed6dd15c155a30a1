-------------------------- MODULE PolicyController --------------------------
(***************************************************************************)
(* HeaderPropagationPolicyReconciler and the machinery it runs on.  Users  *)
(* and kubelets change pods and policies at the API server; two informers  *)
(* copy them into caches, each at its own pace, and notify the controller; *)
(* findPoliciesForPod turns a pod event into work-queue keys using the     *)
(* policies the cache holds at that moment; one worker takes a key, reads  *)
(* both caches and writes the policy's status back, guarded by the         *)
(* resource version it read.  The API server, the informers and the work   *)
(* queue are libraries, modelled from what the controller relies on.       *)
(*                                                                         *)
(* All pods and policies are in one namespace.  A label stands for a set   *)
(* of pod labels, a selector for the labels it matches.                    *)
(***************************************************************************)
EXTENDS Naturals, Sequences, FiniteSets

CONSTANTS
    Policies,    \* policy names
    Pods,        \* pod names
    Labels,      \* what selectors tell apart in a pod's labels
    Selectors,   \* valid selectors: sets of labels, the nil selector being Labels
    Invalid,     \* a PodSelector that LabelSelectorAsSelector rejects
    Absent,      \* an object that does not exist
    Nothing,     \* the worker has no key
    MaxChanges   \* bound on the changes users, kubelets and crashes make

ASSUME ControllerAssumption ==
    /\ IsFiniteSet(Pods)
    /\ Selectors \subseteq SUBSET Labels
    /\ Invalid \notin Selectors
    /\ Nothing \notin Policies
    /\ MaxChanges \in Nat

VARIABLES
    \* the API server
    pods, policies,
    version,       \* the last resource version given to a policy
    changes,       \* changes made so far
    wire,          \* a status write nobody waits for any more, at most one
    \* the informers: caches, and events not yet handled
    podCache, policyCache, podEvents, policyEvents,
    \* the work queue: keys to reconcile, and keys with a timer
    queue,
    timer,         \* policy -> "none", "requeue" (RequeueAfter) or "retry" (an error)
    \* the worker inside Reconcile
    at,            \* "idle", "list" or "update", or "down": no manager runs
    key,           \* req.NamespacedName
    policy,        \* the policy it read
    counted        \* the pods it counted

api == <<pods, policies, version, changes, wire>>
informers == <<podCache, policyCache, podEvents, policyEvents>>
worker == <<at, key, policy, counted>>
vars == <<api, informers, queue, timer, worker>>

Pod == [label : Labels, sidecar : BOOLEAN, phase : {"Pending", "Running", "Succeeded"}]

\* status: observedGeneration, appliedToPods and the reason of the Ready condition.
NewStatus == [observed |-> 0, applied |-> 0, ready |-> "none"]
Status == [observed : Nat, applied : Nat,
           ready : {"none", "PolicyApplied", "NoMatchingPods", "InvalidSelector"}]
Policy == [version : Nat, generation : Nat, selector : Selectors \cup {Invalid},
           status : Status]

NotCounted == [matched |-> 0, pending |-> 0, total |-> 0]

\* Pods of a view (the API server's or the cache's) that a selector matches
\* and that carry the sidecar, and those of them in a phase.
WithSidecar(view, selector) ==
    {x \in Pods : view[x] # Absent /\ view[x].label \in selector /\ view[x].sidecar}
InPhase(view, selector, phase) ==
    {x \in WithSidecar(view, selector) : view[x].phase = phase}

Init ==
    /\ pods = [x \in Pods |-> Absent]
    /\ policies = [p \in Policies |-> Absent]
    /\ version = 0
    /\ changes = 0
    /\ wire = {}
    /\ podCache = pods
    /\ policyCache = policies
    /\ podEvents = <<>>
    /\ policyEvents = <<>>
    /\ queue = {}
    /\ timer = [p \in Policies |-> "none"]
    /\ at = "idle"
    /\ key = Nothing
    /\ policy = Absent
    /\ counted = NotCounted

----------------------------------------------------------------------------
(* Users, kubelets and crashes *)

Change ==
    /\ changes < MaxChanges
    /\ changes' = changes + 1

\* Every state a pod can be put in: created as Pending (with the sidecar or,
\* where the webhook did not inject it, without), relabelled, moved to its
\* next phase, deleted.
PodChange(x) ==
    /\ Change
    /\ \/ /\ pods[x] = Absent
          /\ \E l \in Labels, s \in BOOLEAN :
                pods' = [pods EXCEPT ![x] = [label |-> l, sidecar |-> s, phase |-> "Pending"]]
       \/ /\ pods[x] # Absent
          /\ \E l \in Labels \ {pods[x].label} : pods' = [pods EXCEPT ![x].label = l]
       \/ /\ pods[x] # Absent
          /\ pods[x].phase # "Succeeded"
          /\ pods' = [pods EXCEPT ![x].phase =
                         IF @ = "Pending" THEN "Running" ELSE "Succeeded"]
       \/ /\ pods[x] # Absent
          /\ pods' = [pods EXCEPT ![x] = Absent]
    /\ UNCHANGED <<policies, version, wire, informers, queue, timer, worker>>

\* A policy is created, its selector edited (a new generation), or it is deleted.
PolicyChange(p) ==
    /\ Change
    /\ version' = version + 1
    /\ \/ /\ policies[p] = Absent
          /\ \E s \in Selectors \cup {Invalid} :
                policies' = [policies EXCEPT ![p] =
                    [version |-> version + 1, generation |-> 1, selector |-> s,
                     status |-> NewStatus]]
       \/ /\ policies[p] # Absent
          /\ \E s \in (Selectors \cup {Invalid}) \ {policies[p].selector} :
                policies' = [policies EXCEPT ![p].selector = s,
                                             ![p].generation = @ + 1,
                                             ![p].version = version + 1]
       \/ /\ policies[p] # Absent
          /\ policies' = [policies EXCEPT ![p] = Absent]
    /\ UNCHANGED <<pods, wire, informers, queue, timer, worker>>

\* As Desired, but taking the pending pods off the matched ones.
DesiredNet ==
    [observed |-> policy.generation, applied |-> counted.matched - counted.pending,
     ready |-> IF counted.matched > 0 THEN "PolicyApplied" ELSE "NoMatchingPods"]

\* The status Reconcile writes.
Desired ==
    [observed |-> policy.generation, applied |-> counted.matched,
     ready |-> IF counted.matched > 0 THEN "PolicyApplied" ELSE "NoMatchingPods"]

\* The status update that the worker has sent may still be under way when the
\* worker stops waiting for it.
LeavesWrite ==
    \/ UNCHANGED wire
    \/ /\ at = "update"
       /\ wire = {}
       /\ wire' = {[key |-> key, version |-> policy.version, status |-> Desired]}

\* The manager dies or loses the leader's lease, which ends the process too:
\* a reconciliation in progress, the caches, the queue and its timers are lost.
Crash ==
    /\ Change
    /\ at # "down"
    /\ LeavesWrite
    /\ podCache' = [x \in Pods |-> Absent]
    /\ policyCache' = [p \in Policies |-> Absent]
    /\ podEvents' = <<>>
    /\ policyEvents' = <<>>
    /\ queue' = {}
    /\ timer' = [p \in Policies |-> "none"]
    /\ at' = "down"
    /\ key' = Nothing
    /\ policy' = Absent
    /\ counted' = NotCounted
    /\ UNCHANGED <<pods, policies, version>>

\* A manager starts, or another one becomes the leader: the informers list
\* everything before the worker starts, and the Create event of every policy
\* enqueues it.
StartManager ==
    /\ at = "down"
    /\ podCache' = pods
    /\ policyCache' = policies
    /\ queue' = {p \in Policies : policies[p] # Absent}
    /\ at' = "idle"
    /\ UNCHANGED <<api, podEvents, policyEvents, timer, key, policy, counted>>

----------------------------------------------------------------------------
(* The informers *)

\* The pod cache catches up on a pod.  The event carries the labels of the
\* old and of the new object: EnqueueRequestsFromMapFunc maps both.
SyncPod(x) ==
    /\ at # "down"
    /\ podCache[x] # pods[x]
    /\ podCache' = [podCache EXCEPT ![x] = pods[x]]
    /\ podEvents' = Append(podEvents,
          {o.label : o \in {podCache[x], pods[x]} \ {Absent}})
    /\ UNCHANGED <<api, policyCache, policyEvents, queue, timer, worker>>

\* The policy cache catches up on a policy: EnqueueRequestForObject.
SyncPolicy(p) ==
    /\ at # "down"
    /\ policyCache[p] # policies[p]
    /\ policyCache' = [policyCache EXCEPT ![p] = policies[p]]
    /\ policyEvents' = Append(policyEvents, p)
    /\ UNCHANGED <<api, podCache, podEvents, queue, timer, worker>>

\* As FindPoliciesForPod, but asking both objects of an update to match.
FindPoliciesForBoth(labels) ==
    {p \in Policies :
        /\ policyCache[p] # Absent
        /\ policyCache[p].selector # Invalid
        /\ \A l \in labels : l \in policyCache[p].selector}

\* findPoliciesForPod, for the objects of an event: the cached policies whose
\* selector is valid and matches.
FindPoliciesForPod(labels) ==
    {p \in Policies :
        /\ policyCache[p] # Absent
        /\ policyCache[p].selector # Invalid
        /\ \E l \in labels : l \in policyCache[p].selector}

HandlePodEvent ==
    /\ podEvents # <<>>
    /\ queue' = queue \cup FindPoliciesForPod(Head(podEvents))
    /\ podEvents' = Tail(podEvents)
    /\ UNCHANGED <<api, podCache, policyCache, policyEvents, timer, worker>>

HandlePolicyEvent ==
    /\ policyEvents # <<>>
    /\ queue' = queue \cup {Head(policyEvents)}
    /\ policyEvents' = Tail(policyEvents)
    /\ UNCHANGED <<api, podCache, policyCache, podEvents, timer, worker>>

\* A RequeueAfter or a retry falls due.
TimerFires(p) ==
    /\ timer[p] # "none"
    /\ timer' = [timer EXCEPT ![p] = "none"]
    /\ queue' = queue \cup {p}
    /\ UNCHANGED <<api, informers, worker>>

----------------------------------------------------------------------------
(* Reconcile *)

\* Reconcile returns: the worker is free again and the queue may start a timer.
Return(requeue) ==
    /\ at' = "idle"
    /\ key' = Nothing
    /\ policy' = Absent
    /\ timer' = IF requeue = "none" THEN timer ELSE [timer EXCEPT ![key] = requeue]
    /\ UNCHANGED counted

\* The worker takes a key and reads the policy from the cache.
Get(p) ==
    /\ at = "idle"
    /\ p \in queue
    /\ queue' = queue \ {p}
    /\ at' = "list"
    /\ key' = p
    /\ policy' = policyCache[p]
    /\ UNCHANGED <<api, informers, timer, counted>>

\* The policy is gone: nothing to do.
NotFound ==
    /\ at = "list"
    /\ policy = Absent
    /\ Return("none")
    /\ UNCHANGED <<api, informers, queue>>

\* The selector does not parse: the Ready condition is set on the copy that
\* Reconcile is about to drop, and the error makes the queue retry.
InvalidSelector ==
    /\ at = "list"
    /\ policy # Absent
    /\ policy.selector = Invalid
    /\ Return("retry")
    /\ UNCHANGED <<api, informers, queue>>

\* Getting the policy or listing the pods fails: the error makes the queue retry.
ReadFails ==
    /\ at = "list"
    /\ Return("retry")
    /\ UNCHANGED <<api, informers, queue>>

\* matchedPods, pendingPods and totalSelectorMatches.
Count(selector) ==
    [matched |-> Cardinality(InPhase(podCache, selector, "Running")),
     pending |-> Cardinality(InPhase(podCache, selector, "Pending")),
     total |-> Cardinality(WithSidecar(podCache, selector))]

\* List the pods from the cache and count them.
List ==
    /\ at = "list"
    /\ policy # Absent
    /\ policy.selector # Invalid
    /\ counted' = Count(policy.selector)
    /\ at' = "update"
    /\ UNCHANGED <<api, informers, queue, timer, key, policy>>

RequeueAfter ==
    IF counted.pending > 0 \/ (counted.matched = 0 /\ counted.total = 0)
    THEN "requeue" ELSE "none"

\* As Current, but without optimistic concurrency.
CurrentUnchecked(p, read) == policies[p] # Absent

\* The API server accepts a write of the version it holds and no other.
Current(p, read) == policies[p] # Absent /\ policies[p].version = read

\* It stores a status.  A write that changes nothing makes no new version.
Store(p, status) ==
    IF policies[p].status = status
    THEN UNCHANGED <<policies, version>>
    ELSE /\ policies' = [policies EXCEPT ![p].status = status, ![p].version = version + 1]
         /\ version' = version + 1

\* Status().Update succeeds.
StatusUpdate ==
    /\ at = "update"
    /\ Current(key, policy.version)
    /\ Store(key, Desired)
    /\ Return(RequeueAfter)
    /\ UNCHANGED <<pods, changes, wire, informers, queue>>

\* As UpdateFails, but returning no error.
UpdateFailsSilently ==
    /\ at = "update"
    /\ Return("none")
    /\ UNCHANGED <<api, informers, queue>>

\* Status().Update fails: a conflict, a deleted policy, or no answer, in which
\* case the write may still arrive.
UpdateFails ==
    /\ at = "update"
    /\ Return("retry")
    /\ LeavesWrite
    /\ UNCHANGED <<pods, policies, version, changes, informers, queue>>

\* A write that nobody waits for arrives at the API server, or does not.
LateWrite ==
    /\ \E w \in wire :
          \/ Current(w.key, w.version) /\ Store(w.key, w.status)
          \/ UNCHANGED <<policies, version>>
    /\ wire' = {}
    /\ UNCHANGED <<pods, changes, informers, queue, timer, worker>>

----------------------------------------------------------------------------
Next ==
    \/ \E x \in Pods : PodChange(x) \/ SyncPod(x)
    \/ \E p \in Policies : PolicyChange(p) \/ SyncPolicy(p) \/ TimerFires(p) \/ Get(p)
    \/ Crash
    \/ StartManager
    \/ HandlePodEvent
    \/ HandlePolicyEvent
    \/ NotFound
    \/ InvalidSelector
    \/ ReadFails
    \/ List
    \/ StatusUpdate
    \/ UpdateFails
    \/ LateWrite

Spec == Init /\ [][Next]_vars

\* A manager that died is started again, late writes arrive or are lost, the
\* watches deliver, handlers and the worker run, timers fire, every key in
\* the queue gets its turn, and a read or an update of a policy that can
\* succeed again and again does.
Fairness ==
    /\ \A x \in Pods : WF_vars(SyncPod(x))
    /\ \A p \in Policies :
          /\ WF_vars(SyncPolicy(p)) /\ WF_vars(TimerFires(p)) /\ SF_vars(Get(p))
          /\ SF_vars(key = p /\ (InvalidSelector \/ List))
          /\ SF_vars(key = p /\ StatusUpdate)
    /\ WF_vars(StartManager)
    /\ WF_vars(LateWrite)
    /\ WF_vars(HandlePodEvent)
    /\ WF_vars(HandlePolicyEvent)
    /\ WF_vars(NotFound \/ InvalidSelector \/ ReadFails \/ List)
    /\ WF_vars(StatusUpdate \/ UpdateFails)
FairSpec == Spec /\ Fairness

----------------------------------------------------------------------------
(* Properties *)

\* Every variable has its type.
TypeOK ==
    /\ pods \in [Pods -> Pod \cup {Absent}]
    /\ policies \in [Policies -> Policy \cup {Absent}]
    /\ version \in Nat
    /\ changes \in 0..MaxChanges
    /\ podCache \in [Pods -> Pod \cup {Absent}]
    /\ policyCache \in [Policies -> Policy \cup {Absent}]
    /\ podEvents \in Seq(SUBSET Labels)
    /\ policyEvents \in Seq(Policies)
    /\ queue \in SUBSET Policies
    /\ timer \in [Policies -> {"none", "requeue", "retry"}]
    /\ at \in {"idle", "list", "update", "down"}
    /\ wire \subseteq [key : Policies, version : Nat, status : Status]
    /\ key \in Policies \cup {Nothing}
    /\ policy \in Policy \cup {Absent}
    /\ counted \in [matched : Nat, pending : Nat, total : Nat]

\* The status describes the policy's current generation and the pods that
\* its selector matches now.  A policy with an invalid selector has no say.
Accurate(p) ==
    (policies[p] # Absent /\ policies[p].selector # Invalid) =>
        LET running == Cardinality(InPhase(pods, policies[p].selector, "Running"))
        IN  policies[p].status =
                [observed |-> policies[p].generation, applied |-> running,
                 ready |-> IF running > 0 THEN "PolicyApplied" ELSE "NoMatchingPods"]

\* Nothing is under way that could still lead to a reconciliation of p: only
\* a RequeueAfter timer may be running.
Settled(p) ==
    /\ podCache = pods
    /\ policyCache[p] = policies[p]
    /\ podEvents = <<>>
    /\ \A i \in DOMAIN policyEvents : policyEvents[i] # p
    /\ p \notin queue
    /\ timer[p] # "retry"
    /\ key # p

\* No change is missed, however the two caches, the events, the queue and the
\* worker interleave: once nothing but RequeueAfter timers is under way, the
\* status that Reconcile persisted is accurate.  The watches deliver every
\* change here, as SetupWithManager filters none, and a manager that starts
\* lists everything again.  A comment in Reconcile has phase changes that give
\* no event, and recovery after a restart, wait for the periodic requeue:
\* where watches keep their word, neither depends on it.
NoMissedChange == \A p \in Policies : Settled(p) => Accurate(p)

\* Reconcile never writes a status computed from an old spec: the status that
\* a step writes names the generation the policy has at that moment.
NoStaleWrite ==
    [][\A p \in Policies :
          (policies[p] # Absent /\ policies'[p] # Absent
             /\ policies'[p].status # policies[p].status)
          => policies'[p].status.observed = policies'[p].generation]_vars

\* When the cluster stops changing, every status becomes accurate and stays so:
\* errors are retried, and the events of the controller's own status writes
\* do not keep it busy with ever new versions.
EventuallyAccurate == <>[](\A p \in Policies : Accurate(p))

\* Reconcile sets the Ready condition to False with reason InvalidSelector
\* when the selector does not parse: a policy that keeps an invalid selector
\* ends up with that condition.
InvalidSelectorReported ==
    \A p \in Policies :
        <>[](policies[p] # Absent /\ policies[p].selector = Invalid
                => policies[p].status.ready = "InvalidSelector")

============================================================================
