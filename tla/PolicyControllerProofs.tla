----------------------- MODULE PolicyControllerProofs -----------------------
(***************************************************************************)
(* Proofs about PolicyController, for any policies, pods, labels and       *)
(* selectors, and any number of changes and crashes.                       *)
(***************************************************************************)
EXTENDS PolicyController, FiniteSetTheorems, SequenceTheorems, TLAPS

----------------------------------------------------------------------------
(* The inductive invariant *)

\* What the worker holds at each point of Reconcile.
WorkerHolds ==
    /\ at \in {"idle", "down"} => key = Nothing
    /\ at \in {"list", "update"} => key \in Policies
    /\ at = "update" => policy # Absent /\ policy.selector # Invalid

\* The version of an object is one that the API server has given out, and two
\* objects of a policy with the same version have the same spec.
VersionOf(p, o) ==
    o # Absent =>
        /\ o.version <= version
        /\ (policies[p] # Absent /\ policies[p].version = o.version) =>
              o.generation = policies[p].generation

VersionsAgree ==
    /\ \A p \in Policies : VersionOf(p, policies[p]) /\ VersionOf(p, policyCache[p])
    /\ key \in Policies => VersionOf(key, policy)
    /\ \A w \in wire :
          /\ w.version <= version
          /\ (policies[w.key] # Absent /\ policies[w.key].version = w.version) =>
                w.status.observed = policies[w.key].generation

\* Some event is one of S.
Occurs(events, S) == \E i \in DOMAIN events : events[i] \in S

\* A reconciliation of p will start that reads the policy as the cache has it now.
Queued(p) == p \in queue \/ Occurs(policyEvents, {p})

\* A change of the cached pods that concerns a selector has yet to be handled.
Noticed(selector) == Occurs(podEvents, {l \in SUBSET Labels : l \cap selector # {}})

\* The running pods that a reconciliation would count now.
CachedRunning(selector) == Cardinality(InPhase(podCache, selector, "Running"))

\* Unless p is queued, what the worker has read of it is what the caches hold,
\* except for pod events that will queue it.
ReadIsFresh(p) ==
    (key = p /\ ~ Queued(p)) =>
        /\ policy = policyCache[p]
        /\ (at = "update" /\ ~ Noticed(policy.selector)) =>
              counted.matched = CachedRunning(policy.selector)

\* Once nothing is left to do for p, its status is what the caches imply.
StatusIsFresh(p) ==
    (/\ key # p /\ ~ Queued(p) /\ timer[p] # "retry"
     /\ policies[p] = policyCache[p]
     /\ policies[p] # Absent /\ policies[p].selector # Invalid
     /\ ~ Noticed(policies[p].selector))
    => policies[p].status =
          LET running == CachedRunning(policies[p].selector)
          IN  [observed |-> policies[p].generation, applied |-> running,
               ready |-> IF running > 0 THEN "PolicyApplied" ELSE "NoMatchingPods"]

ControllerInv ==
    /\ TypeOK
    /\ WorkerHolds
    /\ VersionsAgree
    /\ \A p \in Policies : ReadIsFresh(p) /\ StatusIsFresh(p)

----------------------------------------------------------------------------
(* Types *)

\* Counting the pods of a view gives numbers.
LEMMA CountType ==
    ASSUME NEW selector
    PROVE  Count(selector) \in [matched : Nat, pending : Nat, total : Nat]
<1>1. IsFiniteSet(WithSidecar(podCache, selector))
    BY ControllerAssumption, FS_Subset DEF WithSidecar
<1>2. ASSUME NEW phase PROVE IsFiniteSet(InPhase(podCache, selector, phase))
    BY <1>1, FS_Subset DEF InPhase
<1>3. /\ Cardinality(WithSidecar(podCache, selector)) \in Nat
      /\ Cardinality(InPhase(podCache, selector, "Running")) \in Nat
      /\ Cardinality(InPhase(podCache, selector, "Pending")) \in Nat
    BY <1>1, <1>2, FS_CardinalityType
<1> QED
    BY <1>3 DEF Count

\* The statuses of a new policy and of a reconciled one have their type.
LEMMA StatusType ==
    ASSUME TypeOK
    PROVE  NewStatus \in Status /\ (policy # Absent => Desired \in Status)
<1>1. NewStatus \in Status
    BY DEF NewStatus, Status
<1>2. ASSUME policy # Absent PROVE Desired \in Status
    <2>1. policy.generation \in Nat /\ counted.matched \in Nat
        BY <1>2 DEF TypeOK, Policy
    <2> QED
        BY <2>1 DEF Desired, Status
<1> QED
    BY <1>1, <1>2

\* A change is counted.
LEMMA ChangeType ==
    ASSUME TypeOK, Change
    PROVE  changes' \in 0..MaxChanges
BY ControllerAssumption DEF TypeOK, Change

\* The types of what a changed policy, a stored status and a write left behind
\* by the worker consist of.
LEMMA PolicyChangeType ==
    ASSUME TypeOK, NEW p \in Policies, PolicyChange(p)
    PROVE  /\ policies' \in [Policies -> Policy \cup {Absent}]
           /\ version' = version + 1
           /\ changes' \in 0..MaxChanges
<1>1. policies[p] \in Policy \cup {Absent} /\ version + 1 \in Nat
    BY DEF TypeOK
<1>2. changes' \in 0..MaxChanges /\ version' = version + 1
    BY ChangeType DEF PolicyChange
<1>3. CASE policies[p] = Absent
    <2>1. PICK s \in Selectors \cup {Invalid} :
             policies' = [policies EXCEPT ![p] =
                    [version |-> version + 1, generation |-> 1, selector |-> s,
                     status |-> NewStatus]]
        BY <1>3 DEF PolicyChange
    <2>2. [version |-> version + 1, generation |-> 1, selector |-> s,
           status |-> NewStatus] \in Policy
        BY <1>1, StatusType DEF Policy
    <2> QED
        BY <1>2, <2>1, <2>2 DEF TypeOK
<1>4. CASE policies[p] # Absent
    <2>1. policies[p] \in Policy /\ policies[p].generation + 1 \in Nat
        BY <1>1, <1>4 DEF Policy
    <2>2. CASE policies' = [policies EXCEPT ![p] = Absent]
        BY <1>2, <2>2 DEF TypeOK
    <2>3. CASE \E s \in Selectors \cup {Invalid} :
                  policies' = [policies EXCEPT ![p].selector = s,
                                               ![p].generation = @ + 1,
                                               ![p].version = version + 1]
        BY <1>1, <1>2, <2>1, <2>3 DEF TypeOK, Policy
    <2> QED
        BY <1>4, <2>2, <2>3 DEF PolicyChange
<1> QED
    BY <1>3, <1>4

\* Storing a status changes nothing, or the status and the version of a policy.
LEMMA StoreType ==
    ASSUME TypeOK, NEW p \in Policies, policies[p] # Absent,
           NEW status \in Status, Store(p, status)
    PROVE  /\ policies' \in [Policies -> Policy \cup {Absent}]
           /\ version' \in Nat
           /\ version' \in {version, version + 1}
<1>1. policies[p] \in Policy /\ version \in Nat
    BY DEF TypeOK
<1> QED
    BY <1>1 DEF TypeOK, Store, Policy

\* A write that the worker leaves behind is one it could have sent.
LEMMA LeavesWriteType ==
    ASSUME TypeOK, WorkerHolds, LeavesWrite
    PROVE  wire' \subseteq [key : Policies, version : Nat, status : Status]
<1>1. CASE UNCHANGED wire
    BY <1>1 DEF TypeOK
<1>2. CASE at = "update" /\ wire' = {[key |-> key, version |-> policy.version, status |-> Desired]}
    <2>1. policy \in Policy /\ key \in Policies /\ policy # Absent
        BY <1>2 DEF TypeOK, WorkerHolds
    <2> QED
        BY <1>2, <2>1, StatusType DEF Policy
<1> QED
    BY <1>1, <1>2 DEF LeavesWrite

\* Reconcile's return leaves the worker and the timers with their types.
LEMMA ReturnType ==
    ASSUME TypeOK, WorkerHolds, at \in {"list", "update"},
           NEW r \in {"none", "requeue", "retry"}, Return(r)
    PROVE  /\ timer' \in [Policies -> {"none", "requeue", "retry"}]
           /\ at' = "idle" /\ key' = Nothing /\ policy' = Absent /\ counted' = counted
BY DEF TypeOK, WorkerHolds, Return

\* Every step keeps the types and what the worker holds.
LEMMA StepTypes == ASSUME TypeOK, WorkerHolds, [Next]_vars PROVE TypeOK' /\ WorkerHolds'
<1> USE DEF api, informers, worker
<1>1. ASSUME NEW x \in Pods, PodChange(x) PROVE TypeOK' /\ WorkerHolds'
    <2>1. changes' \in 0..MaxChanges
        BY <1>1, ChangeType DEF PodChange
    <2>2. pods' \in [Pods -> Pod \cup {Absent}]
        <3>1. pods[x] # Absent => pods[x] \in Pod
            BY DEF TypeOK
        <3>2. CASE \E l \in Labels, c \in BOOLEAN :
                      pods' = [pods EXCEPT ![x] = [label |-> l, sidecar |-> c,
                                                   phase |-> "Pending"]]
            BY <3>2 DEF TypeOK, Pod
        <3>3. CASE pods[x] # Absent /\ \E l \in Labels : pods' = [pods EXCEPT ![x].label = l]
            <4>1. PICK l \in Labels : pods' = [pods EXCEPT ![x].label = l]
                BY <3>3
            <4>2. [pods[x] EXCEPT !.label = l] \in Pod
                BY <3>1, <3>3 DEF Pod
            <4> QED
                BY <4>1, <4>2 DEF TypeOK
        <3>4. CASE pods[x] # Absent /\ pods' = [pods EXCEPT ![x].phase =
                                          IF @ = "Pending" THEN "Running" ELSE "Succeeded"]
            BY <3>1, <3>4 DEF TypeOK, Pod
        <3>5. CASE pods' = [pods EXCEPT ![x] = Absent]
            BY <3>5 DEF TypeOK
        <3> QED
            BY <1>1, <3>2, <3>3, <3>4, <3>5 DEF PodChange
    <2> QED
        BY <1>1, <2>1, <2>2 DEF TypeOK, WorkerHolds, PodChange
<1>2. ASSUME NEW x \in Pods, SyncPod(x) PROVE TypeOK' /\ WorkerHolds'
    <2>1. {o.label : o \in {podCache[x], pods[x]} \ {Absent}} \in SUBSET Labels
        BY DEF TypeOK, Pod
    <2>2. podEvents' \in Seq(SUBSET Labels)
        BY <1>2, <2>1 DEF TypeOK, SyncPod
    <2> QED
        BY <1>2, <2>2 DEF TypeOK, WorkerHolds, SyncPod
<1>3. ASSUME NEW p \in Policies, PolicyChange(p) PROVE TypeOK' /\ WorkerHolds'
    <2>1. /\ policies' \in [Policies -> Policy \cup {Absent}]
          /\ version' \in Nat
          /\ changes' \in 0..MaxChanges
        BY <1>3, PolicyChangeType DEF TypeOK
    <2>2. UNCHANGED <<pods, wire, informers, queue, timer, worker>>
        BY <1>3 DEF PolicyChange
    <2> QED
        BY <2>1, <2>2 DEF TypeOK, WorkerHolds
<1>4. ASSUME NEW p \in Policies, SyncPolicy(p) PROVE TypeOK' /\ WorkerHolds'
    BY <1>4 DEF TypeOK, WorkerHolds, SyncPolicy
<1>5. ASSUME NEW p \in Policies, TimerFires(p) PROVE TypeOK' /\ WorkerHolds'
    BY <1>5 DEF TypeOK, WorkerHolds, TimerFires
<1>6. ASSUME NEW p \in Policies, Get(p) PROVE TypeOK' /\ WorkerHolds'
    BY <1>6 DEF TypeOK, WorkerHolds, Get
<1>7. CASE Crash
    <2>1. changes' \in 0..MaxChanges
        BY <1>7, ChangeType DEF Crash
    <2>2. wire' \subseteq [key : Policies, version : Nat, status : Status]
        BY <1>7, LeavesWriteType DEF Crash
    <2> QED
        BY <1>7, <2>1, <2>2 DEF TypeOK, WorkerHolds, Crash, NotCounted
<1>8. CASE StartManager
    BY <1>8 DEF TypeOK, WorkerHolds, StartManager
<1>9. CASE HandlePodEvent
    BY <1>9 DEF TypeOK, WorkerHolds, HandlePodEvent, FindPoliciesForPod
<1>10. CASE HandlePolicyEvent
    BY <1>10 DEF TypeOK, WorkerHolds, HandlePolicyEvent
<1>11. CASE NotFound
    BY <1>11, ReturnType DEF TypeOK, WorkerHolds, NotFound
<1>12. CASE InvalidSelector
    BY <1>12, ReturnType DEF TypeOK, WorkerHolds, InvalidSelector
<1>13. CASE ReadFails
    BY <1>13, ReturnType DEF TypeOK, WorkerHolds, ReadFails
<1>14. CASE List
    BY <1>14, CountType DEF TypeOK, WorkerHolds, List
<1>15. CASE StatusUpdate
    <2>1. key \in Policies /\ policies[key] # Absent /\ Desired \in Status
        BY <1>15, StatusType DEF WorkerHolds, StatusUpdate, Current
    <2>2. /\ policies' \in [Policies -> Policy \cup {Absent}]
          /\ version' \in Nat
        BY <1>15, <2>1, StoreType DEF StatusUpdate
    <2>3. RequeueAfter \in {"none", "requeue", "retry"}
        BY DEF RequeueAfter
    <2> QED
        BY <1>15, <2>2, <2>3, ReturnType DEF TypeOK, WorkerHolds, StatusUpdate
<1>16. CASE UpdateFails
    BY <1>16, LeavesWriteType, ReturnType DEF TypeOK, WorkerHolds, UpdateFails
<1>17. CASE LateWrite
    <2>1. PICK w \in wire :
             \/ Current(w.key, w.version) /\ Store(w.key, w.status)
             \/ UNCHANGED <<policies, version>>
        BY <1>17 DEF LateWrite
    <2>2. w.key \in Policies /\ w.status \in Status
        BY DEF TypeOK
    <2>3. /\ policies' \in [Policies -> Policy \cup {Absent}]
          /\ version' \in Nat
        BY <2>1, <2>2, StoreType DEF Current, TypeOK
    <2> QED
        BY <1>17, <2>3 DEF TypeOK, WorkerHolds, LateWrite
<1>18. CASE UNCHANGED vars
    BY <1>18 DEF TypeOK, WorkerHolds, vars
<1> QED
    BY <1>1, <1>2, <1>3, <1>4, <1>5, <1>6, <1>7, <1>8, <1>9, <1>10, <1>11, <1>12, <1>13,
       <1>14, <1>15, <1>16, <1>17, <1>18
    DEF Next

----------------------------------------------------------------------------
(* Versions *)

\* What a step may do to a policy at the API server, to its copies and to the
\* writes under way: an object that changes gets a version nobody has seen.
NewVersions ==
    /\ version' \in Nat /\ version' \in {version, version + 1}
    /\ \A p \in Policies :
          \/ policies'[p] = policies[p]
          \/ policies'[p] = Absent
          \/ version' = version + 1 /\ policies'[p].version = version + 1
CopiesOnly ==
    /\ \A p \in Policies :
          policyCache'[p] \in {policyCache[p], Absent} \/
             (policyCache'[p] = policies[p] /\ UNCHANGED <<policies, version>>)
    /\ key' \in Policies =>
          \/ key' = key /\ policy' = policy
          \/ policy' = policyCache[key'] /\ UNCHANGED <<policies, version>>
    /\ \/ wire' \subseteq wire
       \/ /\ at = "update" /\ UNCHANGED <<policies, version>>
          /\ wire' = {[key |-> key, version |-> policy.version, status |-> Desired]}

\* The API server's storing of a status is such a step.
LEMMA StoreVersion ==
    ASSUME TypeOK, NEW p \in Policies, policies[p] # Absent,
           NEW status \in Status, Store(p, status)
    PROVE  NewVersions
<1>1. policies[p] \in Policy /\ version \in Nat
    BY DEF TypeOK
<1>2. CASE policies[p].status = status
    BY <1>1, <1>2 DEF Store, NewVersions
<1>3. CASE policies[p].status # status
    <2>1. version' = version + 1 /\ policies'[p].version = version + 1
        BY <1>1, <1>3 DEF Store, TypeOK, Policy
    <2>2. \A r \in Policies \ {p} : policies'[r] = policies[r]
        BY <1>3 DEF Store, TypeOK
    <2> QED
        BY <1>1, <2>1, <2>2 DEF NewVersions
<1> QED
    BY <1>2, <1>3

\* Every step is such a step.
LEMMA VersionStep ==
    ASSUME TypeOK, WorkerHolds, [Next]_vars
    PROVE  NewVersions /\ CopiesOnly
<1> USE DEF api, informers, worker
<1>1. version \in Nat /\ Nothing \notin Policies
    BY ControllerAssumption DEF TypeOK
<1>2. ASSUME NEW x \in Pods, PodChange(x) PROVE NewVersions /\ CopiesOnly
    BY <1>1, <1>2 DEF NewVersions, CopiesOnly, PodChange
<1>3. ASSUME NEW x \in Pods, SyncPod(x) PROVE NewVersions /\ CopiesOnly
    BY <1>1, <1>3 DEF NewVersions, CopiesOnly, SyncPod
<1>4. ASSUME NEW p \in Policies, PolicyChange(p) PROVE NewVersions /\ CopiesOnly
    <2>1. CopiesOnly
        BY <1>4 DEF CopiesOnly, PolicyChange
    <2>2. version' = version + 1 /\ policies[p] \in Policy \cup {Absent}
        BY <1>4 DEF PolicyChange, TypeOK
    <2>3. policies'[p] = Absent \/ policies'[p].version = version + 1
        <3>1. CASE policies[p] = Absent
            BY <1>4, <3>1 DEF PolicyChange, TypeOK
        <3>2. CASE policies[p] # Absent
            <4>1. policies[p] \in Policy
                BY <2>2, <3>2
            <4>2. CASE \E t \in Selectors \cup {Invalid} :
                          policies' = [policies EXCEPT ![p].selector = t,
                                                       ![p].generation = @ + 1,
                                                       ![p].version = version + 1]
                BY <4>1, <4>2 DEF TypeOK, Policy
            <4>3. CASE policies' = [policies EXCEPT ![p] = Absent]
                BY <4>3 DEF TypeOK
            <4> QED
                BY <1>4, <3>2, <4>2, <4>3 DEF PolicyChange
        <3> QED
            BY <3>1, <3>2
    <2>4. \A r \in Policies \ {p} : policies'[r] = policies[r]
        BY <1>4 DEF PolicyChange, TypeOK
    <2> QED
        BY <1>1, <2>1, <2>2, <2>3, <2>4 DEF NewVersions
<1>5. ASSUME NEW p \in Policies, SyncPolicy(p) PROVE NewVersions /\ CopiesOnly
    BY <1>1, <1>5 DEF NewVersions, CopiesOnly, SyncPolicy, TypeOK
<1>6. ASSUME NEW p \in Policies, TimerFires(p) PROVE NewVersions /\ CopiesOnly
    BY <1>1, <1>6 DEF NewVersions, CopiesOnly, TimerFires
<1>7. ASSUME NEW p \in Policies, Get(p) PROVE NewVersions /\ CopiesOnly
    BY <1>1, <1>7 DEF NewVersions, CopiesOnly, Get
<1>8. CASE Crash
    BY <1>1, <1>8 DEF NewVersions, CopiesOnly, Crash, LeavesWrite, TypeOK
<1>9. CASE StartManager
    BY <1>1, <1>9 DEF NewVersions, CopiesOnly, StartManager, TypeOK
<1>10. CASE HandlePodEvent
    BY <1>1, <1>10 DEF NewVersions, CopiesOnly, HandlePodEvent
<1>11. CASE HandlePolicyEvent
    BY <1>1, <1>11 DEF NewVersions, CopiesOnly, HandlePolicyEvent
<1>12. CASE NotFound
    BY <1>1, <1>12 DEF NewVersions, CopiesOnly, NotFound, Return
<1>13. CASE InvalidSelector
    BY <1>1, <1>13 DEF NewVersions, CopiesOnly, InvalidSelector, Return
<1>14. CASE ReadFails
    BY <1>1, <1>14 DEF NewVersions, CopiesOnly, ReadFails, Return
<1>15. CASE List
    BY <1>1, <1>15 DEF NewVersions, CopiesOnly, List
<1>16. CASE StatusUpdate
    <2>1. key \in Policies /\ policies[key] # Absent /\ Desired \in Status
        BY <1>16, StatusType DEF WorkerHolds, StatusUpdate, Current
    <2>2. NewVersions
        BY <1>16, <2>1, StoreVersion DEF StatusUpdate
    <2> QED
        BY <1>1, <1>16, <2>2 DEF CopiesOnly, StatusUpdate, Return
<1>17. CASE UpdateFails
    BY <1>1, <1>17 DEF NewVersions, CopiesOnly, UpdateFails, Return, LeavesWrite
<1>18. CASE LateWrite
    <2>1. PICK w \in wire :
             \/ Current(w.key, w.version) /\ Store(w.key, w.status)
             \/ UNCHANGED <<policies, version>>
        BY <1>18 DEF LateWrite
    <2>2. w.key \in Policies /\ w.status \in Status
        BY DEF TypeOK
    <2>3. NewVersions
        BY <1>1, <2>1, <2>2, StoreVersion DEF Current, NewVersions
    <2> QED
        BY <1>1, <1>18, <2>3 DEF CopiesOnly, LateWrite
<1>19. CASE UNCHANGED vars
    BY <1>1, <1>19 DEF NewVersions, CopiesOnly, vars
<1> QED
    BY <1>2, <1>3, <1>4, <1>5, <1>6, <1>7, <1>8, <1>9, <1>10, <1>11, <1>12, <1>13,
       <1>14, <1>15, <1>16, <1>17, <1>18, <1>19
    DEF Next

\* A copy that agreed with the API server's object still does, since a changed
\* object has a version that no copy has.
LEMMA CopyAgrees ==
    ASSUME TypeOK, NewVersions, NEW p \in Policies, NEW o \in Policy \cup {Absent},
           VersionOf(p, o)
    PROVE  /\ o # Absent => o.version <= version'
           /\ (o # Absent /\ policies'[p] # Absent /\ policies'[p].version = o.version) =>
                 o.generation = policies'[p].generation
<1> SUFFICES ASSUME o # Absent
             PROVE  /\ o.version <= version'
                    /\ (policies'[p] # Absent /\ policies'[p].version = o.version) =>
                          o.generation = policies'[p].generation
    OBVIOUS
<1>1. o.version \in Nat /\ version \in Nat /\ o.version <= version
    BY DEF TypeOK, Policy, VersionOf
<1>2. version' \in {version, version + 1}
    BY DEF NewVersions
<1>3. CASE policies'[p] = policies[p]
    BY <1>1, <1>2, <1>3 DEF VersionOf
<1>4. CASE policies'[p] = Absent
    BY <1>1, <1>2, <1>4
<1>5. CASE policies'[p].version = version + 1
    BY <1>1, <1>2, <1>5
<1> QED
    BY <1>3, <1>4, <1>5 DEF NewVersions

\* Every step keeps the versions in agreement.
LEMMA StepVersions ==
    ASSUME TypeOK, WorkerHolds, VersionsAgree, [Next]_vars
    PROVE  VersionsAgree'
<1>1. NewVersions /\ CopiesOnly /\ TypeOK' /\ WorkerHolds'
    BY VersionStep, StepTypes
<1>2. ASSUME NEW p \in Policies PROVE VersionOf(p, policies[p])'
    <2>1. policies'[p] # Absent => policies'[p].version <= version'
        <3>1. VersionOf(p, policies[p]) /\ policies[p] \in Policy \cup {Absent} /\ version \in Nat
            BY DEF VersionsAgree, TypeOK
        <3>2. CASE policies'[p] = policies[p]
            BY <1>1, <3>1, <3>2, CopyAgrees
        <3>3. CASE version' = version + 1 /\ policies'[p].version = version + 1
            BY <3>1, <3>3
        <3> QED
            BY <1>1, <3>2, <3>3 DEF NewVersions
    <2> QED
        BY <2>1 DEF VersionOf
<1>3. ASSUME NEW p \in Policies PROVE VersionOf(p, policyCache[p])'
    <2>1. /\ VersionOf(p, policyCache[p]) /\ policyCache[p] \in Policy \cup {Absent}
          /\ VersionOf(p, policies[p]) /\ policies[p] \in Policy \cup {Absent}
        BY DEF VersionsAgree, TypeOK
    <2>2. CASE policyCache'[p] = policyCache[p]
        BY <1>1, <2>1, <2>2, CopyAgrees DEF VersionOf
    <2>3. CASE policyCache'[p] = Absent
        BY <2>3 DEF VersionOf
    <2>4. CASE policyCache'[p] = policies[p]
        BY <1>1, <2>1, <2>4, CopyAgrees DEF VersionOf
    <2> QED
        BY <1>1, <2>2, <2>3, <2>4 DEF CopiesOnly
<1>4. ASSUME key' \in Policies PROVE VersionOf(key, policy)'
    <2>1. CASE key' = key /\ policy' = policy
        <3>1. VersionOf(key, policy) /\ policy \in Policy \cup {Absent} /\ key \in Policies
            BY <1>4, <2>1 DEF VersionsAgree, TypeOK
        <3> QED
            BY <1>1, <2>1, <3>1, CopyAgrees DEF VersionOf
    <2>2. CASE policy' = policyCache[key']
        <3>1. VersionOf(key', policyCache[key']) /\ policyCache[key'] \in Policy \cup {Absent}
            BY <1>4 DEF VersionsAgree, TypeOK
        <3> QED
            BY <1>1, <1>4, <2>2, <3>1, CopyAgrees DEF VersionOf
    <2> QED
        BY <1>1, <1>4, <2>1, <2>2 DEF CopiesOnly
<1>5. ASSUME NEW w \in wire'
      PROVE  /\ w.version <= version'
             /\ (policies'[w.key] # Absent /\ policies'[w.key].version = w.version) =>
                   w.status.observed = policies'[w.key].generation
    <2>1. CASE w \in wire
        <3>1. /\ w.key \in Policies /\ w.version \in Nat /\ version \in Nat
              /\ w.version <= version
              /\ version' \in {version, version + 1}
            BY <1>1, <2>1 DEF VersionsAgree, TypeOK, NewVersions
        <3>2. CASE policies'[w.key] = policies[w.key]
            BY <2>1, <3>1, <3>2 DEF VersionsAgree
        <3>3. CASE policies'[w.key] = Absent
            BY <3>1, <3>3
        <3>4. CASE policies'[w.key].version = version + 1
            BY <3>1, <3>4
        <3> QED
            BY <1>1, <3>1, <3>2, <3>3, <3>4 DEF NewVersions
    <2>2. CASE /\ at = "update" /\ UNCHANGED <<policies, version>>
               /\ w = [key |-> key, version |-> policy.version, status |-> Desired]
        <3>1. key \in Policies /\ policy # Absent /\ VersionOf(key, policy)
            BY <2>2 DEF WorkerHolds, VersionsAgree
        <3>2. w.key = key /\ w.version = policy.version /\ w.status.observed = policy.generation
            BY <2>2 DEF Desired
        <3> QED
            BY <2>2, <3>1, <3>2 DEF VersionOf
    <2> QED
        BY <1>1, <1>5, <2>1, <2>2 DEF CopiesOnly
<1> QED
    BY <1>2, <1>3, <1>4, <1>5 DEF VersionsAgree

----------------------------------------------------------------------------
(* Events and freshness *)

\* An event that arrives is added to those that occur ...
LEMMA AppendOccurs ==
    ASSUME NEW T, NEW s \in Seq(T), NEW e \in T, NEW S
    PROVE  Occurs(Append(s, e), S) <=> Occurs(s, S) \/ e \in S
<1>1. /\ Append(s, e) \in Seq(T) /\ Len(s) \in Nat
      /\ DOMAIN s = 1..Len(s) /\ DOMAIN Append(s, e) = 1..(Len(s) + 1)
      /\ \A i \in 1..Len(s) : Append(s, e)[i] = s[i]
      /\ Append(s, e)[Len(s) + 1] = e
    OBVIOUS
<1>2. \A i \in 1..(Len(s) + 1) : i \in 1..Len(s) \/ i = Len(s) + 1
    BY <1>1
<1>3. 1..Len(s) \subseteq 1..(Len(s) + 1) /\ Len(s) + 1 \in 1..(Len(s) + 1)
    BY <1>1
<1> QED
    BY <1>1, <1>2, <1>3 DEF Occurs

\* ... and one that is handled is taken from them.
LEMMA TailOccurs ==
    ASSUME NEW T, NEW s \in Seq(T), s # <<>>, NEW S
    PROVE  Occurs(s, S) <=> Head(s) \in S \/ Occurs(Tail(s), S)
<1>1. /\ Tail(s) \in Seq(T) /\ Len(s) \in Nat \ {0}
      /\ DOMAIN s = 1..Len(s) /\ DOMAIN Tail(s) = 1..(Len(s) - 1)
      /\ Head(s) = s[1]
      /\ \A i \in 1..(Len(s) - 1) : Tail(s)[i] = s[i + 1]
    OBVIOUS
<1>2. ASSUME Occurs(s, S) PROVE Head(s) \in S \/ Occurs(Tail(s), S)
    <2>1. PICK i \in 1..Len(s) : s[i] \in S
        BY <1>1, <1>2 DEF Occurs
    <2>2. CASE i = 1
        BY <1>1, <2>1, <2>2
    <2>3. CASE i # 1
        <3>1. i - 1 \in 1..(Len(s) - 1) /\ (i - 1) + 1 = i
            BY <1>1, <2>3
        <3>2. Tail(s)[i - 1] = s[i]
            BY <1>1, <3>1
        <3> QED
            BY <1>1, <2>1, <3>1, <3>2 DEF Occurs
    <2> QED
        BY <2>2, <2>3
<1>3. ASSUME Occurs(Tail(s), S) PROVE Occurs(s, S)
    <2>1. PICK i \in 1..(Len(s) - 1) : Tail(s)[i] \in S
        BY <1>1, <1>3 DEF Occurs
    <2>2. i + 1 \in 1..Len(s) /\ s[i + 1] \in S
        BY <1>1, <2>1
    <2> QED
        BY <1>1, <2>2 DEF Occurs
<1>4. ASSUME Head(s) \in S PROVE Occurs(s, S)
    <2>1. 1 \in 1..Len(s)
        BY <1>1
    <2> QED
        BY <1>1, <1>4, <2>1 DEF Occurs
<1> QED
    BY <1>2, <1>3, <1>4

\* Nothing is required of a policy whose reconciliation is still to start.
LEMMA QueuedIsFresh ==
    ASSUME NEW p \in Policies, Queued(p)'
    PROVE  ReadIsFresh(p)' /\ StatusIsFresh(p)'
BY DEF ReadIsFresh, StatusIsFresh

\* A status stays fresh in a step that changes no cache and loses no trigger,
\* and after which a changed object differs from its copy.
LEMMA StatusFrame ==
    ASSUME NEW p \in Policies, StatusIsFresh(p),
           key' # p => key # p,
           Queued(p) => Queued(p)',
           timer[p] = "retry" => timer'[p] = "retry" \/ Queued(p)',
           policyCache'[p] = policyCache[p],
           policies'[p] \in {policies[p], Absent} \/ policies'[p] # policyCache[p],
           podCache' = podCache, podEvents' = podEvents
    PROVE  StatusIsFresh(p)'
BY DEF StatusIsFresh, Noticed, CachedRunning, InPhase, WithSidecar

\* What the worker read stays fresh in such a step.
LEMMA ReadFrame ==
    ASSUME NEW p \in Policies, ReadIsFresh(p),
           key' = p => key = p /\ UNCHANGED <<policy, at, counted>>,
           Queued(p) => Queued(p)',
           policyCache'[p] = policyCache[p],
           podCache' = podCache, podEvents' = podEvents
    PROVE  ReadIsFresh(p)'
BY DEF ReadIsFresh, Noticed, CachedRunning, InPhase, WithSidecar

\* An object that the API server changed differs from its copies.
LEMMA ChangedDiffers ==
    ASSUME TypeOK, VersionsAgree, NewVersions, NEW p \in Policies
    PROVE  policies'[p] \in {policies[p], Absent} \/ policies'[p] # policyCache[p]
<1> SUFFICES ASSUME policies'[p] \notin {policies[p], Absent}
             PROVE  policies'[p] # policyCache[p]
    OBVIOUS
<1>1. policies'[p].version = version + 1
    BY DEF NewVersions
<1>2. CASE policyCache[p] = Absent
    BY <1>2
<1>3. CASE policyCache[p] # Absent
    <2>1. policyCache[p].version \in Nat /\ policyCache[p].version <= version /\ version \in Nat
        BY <1>3 DEF TypeOK, Policy, VersionsAgree, VersionOf
    <2> QED
        BY <1>1, <2>1
<1> QED
    BY <1>2, <1>3

\* A pod that the cache catches up on either matters to no selector, or has an
\* event that does: the count of running pods changes only with an event.
LEMMA SyncPodCounts ==
    ASSUME TypeOK, NEW x \in Pods, SyncPod(x), NEW selector \in Selectors,
           ~ Noticed(selector)'
    PROVE  /\ ~ Noticed(selector)
           /\ CachedRunning(selector)' = CachedRunning(selector)
<1> DEFINE labels == {o.label : o \in {podCache[x], pods[x]} \ {Absent}}
           S == {l \in SUBSET Labels : l \cap selector # {}}
<1>1. labels \in SUBSET Labels /\ podEvents \in Seq(SUBSET Labels)
    BY DEF TypeOK, Pod
<1>2. podEvents' = Append(podEvents, labels)
    BY DEF SyncPod
<1>3. ~ Occurs(podEvents, S) /\ labels \notin S
    <2> HIDE DEF labels, S
    <2>1. ~ Occurs(podEvents', S)
        BY DEF Noticed, S
    <2> QED
        BY <1>1, <1>2, <2>1, AppendOccurs
<1>4. /\ podCache[x] # Absent => podCache[x].label \notin selector
      /\ pods[x] # Absent => pods[x].label \notin selector
    BY <1>1, <1>3
<1>5. /\ podCache'[x] = pods[x]
      /\ \A y \in Pods \ {x} : podCache'[y] = podCache[y]
    BY DEF SyncPod, TypeOK
<1>6. WithSidecar(podCache', selector) = WithSidecar(podCache, selector)
    BY <1>4, <1>5 DEF WithSidecar
<1>7. x \notin WithSidecar(podCache, selector)
    BY <1>4 DEF WithSidecar
<1>8. InPhase(podCache', selector, "Running") = InPhase(podCache, selector, "Running")
    BY <1>5, <1>6, <1>7 DEF InPhase, WithSidecar
<1> QED
    BY <1>3, <1>8 DEF Noticed, CachedRunning

\* Handling a pod event queues every policy it concerns; the rest is fresh
\* without it.
LEMMA HandlePodEventFresh ==
    ASSUME ControllerInv, HandlePodEvent, NEW p \in Policies
    PROVE  ReadIsFresh(p)' /\ StatusIsFresh(p)'
<1>1. /\ podEvents \in Seq(SUBSET Labels) /\ podEvents # <<>>
      /\ podEvents' = Tail(podEvents) /\ Head(podEvents) \in SUBSET Labels
    BY DEF ControllerInv, TypeOK, HandlePodEvent
<1>2. UNCHANGED <<policies, policyCache, podCache, policyEvents, timer, at, key, policy, counted>>
    BY DEF HandlePodEvent, api, worker
<1>3. CASE p \in FindPoliciesForPod(Head(podEvents))
    <2>1. Queued(p)'
        BY <1>3 DEF HandlePodEvent, Queued
    <2> QED
        BY <2>1, QueuedIsFresh
<1>4. CASE p \notin FindPoliciesForPod(Head(podEvents))
    <2>1. Queued(p) => Queued(p)'
        BY <1>2 DEF Queued, HandlePodEvent
    <2>2. ASSUME policyCache[p] # Absent, policyCache[p].selector # Invalid
          PROVE  Noticed(policyCache[p].selector) => Noticed(policyCache[p].selector)'
        <3> DEFINE S == {l \in SUBSET Labels : l \cap policyCache[p].selector # {}}
        <3>1. Head(podEvents) \notin S
            BY <1>4, <2>2 DEF FindPoliciesForPod
        <3>2. Occurs(podEvents, S) => Occurs(podEvents', S)
            <4> HIDE DEF S
            <4> QED
                BY <1>1, <3>1, TailOccurs
        <3> QED
            BY <1>2, <3>2 DEF Noticed
    <2>3. \A sel : CachedRunning(sel)' = CachedRunning(sel)
        BY <1>2 DEF CachedRunning, InPhase, WithSidecar
    <2>4. ReadIsFresh(p)'
        <3> SUFFICES ASSUME key = p, ~ Queued(p)'
                     PROVE  /\ policy = policyCache[p]
                            /\ (at = "update" /\ ~ Noticed(policy.selector)') =>
                                  counted.matched = CachedRunning(policy.selector)
            BY <1>2, <2>3 DEF ReadIsFresh, Noticed
        <3>1. ReadIsFresh(p) /\ ~ Queued(p)
            BY <2>1 DEF ControllerInv
        <3>2. policy = policyCache[p]
            BY <3>1 DEF ReadIsFresh
        <3>3. at = "update" => policy # Absent /\ policy.selector # Invalid
            BY DEF ControllerInv, WorkerHolds
        <3> QED
            BY <1>2, <2>2, <3>1, <3>2, <3>3 DEF ReadIsFresh, Noticed
    <2>5. StatusIsFresh(p)'
        <3> SUFFICES ASSUME key # p, ~ Queued(p)', timer[p] # "retry",
                            policies[p] = policyCache[p],
                            policies[p] # Absent, policies[p].selector # Invalid,
                            ~ Noticed(policies[p].selector)'
                     PROVE  /\ ~ Noticed(policies[p].selector)
                            /\ ~ Queued(p)
            BY <1>2, <2>3 DEF StatusIsFresh, Noticed, ControllerInv
        <3> QED
            BY <1>2, <2>1, <2>2 DEF Noticed
    <2> QED
        BY <2>4, <2>5
<1> QED
    BY <1>3, <1>4

\* The cache's catching up on a pod keeps everything fresh.
LEMMA SyncPodFresh ==
    ASSUME ControllerInv, NEW x \in Pods, SyncPod(x), NEW p \in Policies
    PROVE  ReadIsFresh(p)' /\ StatusIsFresh(p)'
<1>1. UNCHANGED <<policies, policyCache, policyEvents, queue, timer, at, key, policy, counted>>
    BY DEF SyncPod, api, worker
<1>2. Queued(p)' <=> Queued(p)
    BY <1>1 DEF Queued
<1>3. ASSUME NEW sel \in Selectors, ~ Noticed(sel)'
      PROVE  ~ Noticed(sel) /\ CachedRunning(sel)' = CachedRunning(sel)
    BY <1>3, SyncPodCounts DEF ControllerInv
<1>4. ReadIsFresh(p)'
    <2> SUFFICES ASSUME key = p, ~ Queued(p)
                 PROVE  /\ policy = policyCache[p]
                        /\ (at = "update" /\ ~ Noticed(policy.selector)') =>
                              counted.matched = CachedRunning(policy.selector)'
        BY <1>1, <1>2 DEF ReadIsFresh, Noticed, CachedRunning
    <2>1. at = "update" => policy.selector \in Selectors
        BY DEF ControllerInv, WorkerHolds, TypeOK, Policy
    <2> QED
        BY <1>1, <1>3, <2>1 DEF ControllerInv, ReadIsFresh, Noticed, CachedRunning
<1>5. StatusIsFresh(p)'
    <2> SUFFICES ASSUME key # p, ~ Queued(p), timer[p] # "retry",
                        policies[p] = policyCache[p],
                        policies[p] # Absent, policies[p].selector # Invalid,
                        ~ Noticed(policies[p].selector)'
                 PROVE  /\ ~ Noticed(policies[p].selector)
                        /\ CachedRunning(policies[p].selector)'
                              = CachedRunning(policies[p].selector)
        BY <1>1, <1>2 DEF StatusIsFresh, Noticed, CachedRunning, ControllerInv
    <2>1. policies[p].selector \in Selectors
        BY DEF ControllerInv, TypeOK, Policy
    <2> QED
        BY <1>1, <1>3, <2>1 DEF Noticed, CachedRunning
<1> QED
    BY <1>4, <1>5

\* Reconcile's return keeps the status of the other policies fresh, and its own
\* where it leaves an error, or finds nothing to do.
LEMMA ReturnFresh ==
    ASSUME ControllerInv, at \in {"list", "update"}, NEW r, Return(r),
           UNCHANGED <<policyCache, podCache, podEvents, policyEvents, queue>>,
           NEW p \in Policies,
           policies'[p] \in {policies[p], Absent} \/ policies'[p] # policyCache[p],
           key = p => r = "retry" \/ StatusIsFresh(p)'
    PROVE  ReadIsFresh(p)' /\ StatusIsFresh(p)'
<1>1. key \in Policies /\ key' = Nothing /\ Nothing \notin Policies
    BY ControllerAssumption DEF ControllerInv, WorkerHolds, Return
<1>2. ReadIsFresh(p)'
    BY <1>1 DEF ReadIsFresh
<1>3. CASE key # p
    <2>1. timer'[p] = timer[p]
        BY <1>1, <1>3 DEF Return, ControllerInv, TypeOK
    <2>2. Queued(p) => Queued(p)'
        BY DEF Queued
    <2> QED
        BY <1>2, <1>3, <2>1, <2>2, StatusFrame DEF ControllerInv
<1>4. CASE key = p /\ r = "retry"
    <2>1. timer'[p] = "retry"
        BY <1>4 DEF Return, ControllerInv, TypeOK
    <2> QED
        BY <1>2, <2>1 DEF StatusIsFresh
<1> QED
    BY <1>2, <1>3, <1>4

\* A status update that succeeds either changes the object, which the watch
\* will report, or finds the status it was about to write.
LEMMA StatusUpdateFresh ==
    ASSUME ControllerInv, StatusUpdate, NEW p \in Policies
    PROVE  ReadIsFresh(p)' /\ StatusIsFresh(p)'
<1>1. /\ at = "update" /\ Current(key, policy.version) /\ Store(key, Desired)
      /\ Return(RequeueAfter)
      /\ UNCHANGED <<policyCache, podCache, podEvents, policyEvents, queue>>
    BY DEF StatusUpdate, informers
<1>2. key \in Policies /\ policies[key] # Absent /\ Desired \in Status
    BY <1>1, StatusType DEF ControllerInv, WorkerHolds, Current
<1>3. NewVersions
    BY <1>1, <1>2, StoreVersion DEF ControllerInv
<1>4. policies'[p] \in {policies[p], Absent} \/ policies'[p] # policyCache[p]
    BY <1>3, ChangedDiffers DEF ControllerInv
<1>5. ASSUME key = p PROVE StatusIsFresh(p)'
    <2>1. CASE policies[p].status # Desired
        <3>1. version' = version + 1 /\ policies'[p].version = version + 1
            <4>1. policies[p] \in Policy
                BY <1>2, <1>5 DEF ControllerInv, TypeOK
            <4> QED
                BY <1>1, <1>2, <1>5, <2>1, <4>1 DEF Store, ControllerInv, TypeOK, Policy
        <3>2. policies[p].version <= version /\ policies[p].version \in Nat /\ version \in Nat
            BY <1>2, <1>5 DEF ControllerInv, VersionsAgree, VersionOf, TypeOK, Policy
        <3>3. policies'[p] # policies[p]
            BY <3>1, <3>2
        <3>4. policies'[p] # policyCache'[p] \/ policies'[p] = Absent
            BY <1>1, <1>4, <3>3
        <3> QED
            BY <3>4 DEF StatusIsFresh
    <2>2. CASE policies[p].status = Desired
        <3>1. policies' = policies
            BY <1>1, <1>5, <2>2 DEF Store
        <3>2. CASE Queued(p)'
            BY <3>2, QueuedIsFresh
        <3>3. CASE ~ Queued(p)' /\ policies[p] = policyCache[p]
                      /\ ~ Noticed(policies[p].selector)
            <4>1. ~ Queued(p)
                BY <1>1, <3>3 DEF Queued
            <4>2. policy = policies[p]
                BY <1>5, <3>3, <4>1 DEF ControllerInv, ReadIsFresh
            <4>3. counted.matched = CachedRunning(policies[p].selector)
                BY <1>1, <1>5, <3>3, <4>1, <4>2 DEF ControllerInv, ReadIsFresh
            <4>4. \A sel : CachedRunning(sel)' = CachedRunning(sel)
                BY <1>1 DEF CachedRunning, InPhase, WithSidecar
            <4> QED
                BY <2>2, <3>1, <4>2, <4>3, <4>4 DEF StatusIsFresh, Desired, CachedRunning
        <3>4. CASE policies[p] # policyCache[p] \/ Noticed(policies[p].selector)
            BY <1>1, <3>1, <3>4 DEF StatusIsFresh, Noticed
        <3> QED
            BY <3>2, <3>3, <3>4
    <2> QED
        BY <2>1, <2>2
<1> QED
    BY <1>1, <1>4, <1>5, ReturnFresh

\* Every step keeps what was read and what was written fresh.
LEMMA StepFresh ==
    ASSUME ControllerInv, [Next]_vars, NEW p \in Policies
    PROVE  ReadIsFresh(p)' /\ StatusIsFresh(p)'
<1> USE DEF api, informers, worker
<1>1. /\ ReadIsFresh(p) /\ StatusIsFresh(p) /\ NewVersions
      /\ TypeOK /\ WorkerHolds /\ VersionsAgree
    BY VersionStep DEF ControllerInv
<1>2. policies'[p] \in {policies[p], Absent} \/ policies'[p] # policyCache[p]
    BY <1>1, ChangedDiffers
<1>3. ASSUME UNCHANGED <<podCache, podEvents, policyCache, queue, policyEvents, timer, worker>>
      PROVE  ReadIsFresh(p)' /\ StatusIsFresh(p)'
    <2>1. Queued(p) => Queued(p)'
        BY <1>3 DEF Queued
    <2> QED
        BY <1>1, <1>2, <1>3, <2>1, StatusFrame, ReadFrame
<1>4. ASSUME NEW x \in Pods, PodChange(x) \/ SyncPod(x) PROVE ReadIsFresh(p)' /\ StatusIsFresh(p)'
    <2>1. CASE PodChange(x)
        BY <1>3, <2>1 DEF PodChange
    <2>2. CASE SyncPod(x)
        BY <2>2, SyncPodFresh
    <2> QED
        BY <1>4, <2>1, <2>2
<1>5. ASSUME NEW q \in Policies, PolicyChange(q) PROVE ReadIsFresh(p)' /\ StatusIsFresh(p)'
    BY <1>3, <1>5 DEF PolicyChange
<1>6. ASSUME NEW q \in Policies, SyncPolicy(q) PROVE ReadIsFresh(p)' /\ StatusIsFresh(p)'
    <2>1. Queued(p)' <=> Queued(p) \/ p = q
        <3>1. policyEvents \in Seq(Policies) /\ policyEvents' = Append(policyEvents, q)
            BY <1>1, <1>6 DEF TypeOK, SyncPolicy
        <3>2. Occurs(policyEvents', {p}) <=> Occurs(policyEvents, {p}) \/ q \in {p}
            BY <3>1, AppendOccurs
        <3> QED
            BY <1>6, <3>2 DEF Queued, SyncPolicy
    <2>2. CASE p = q
        BY <2>1, <2>2, QueuedIsFresh
    <2>3. CASE p # q
        <3>1. policyCache'[p] = policyCache[p]
            BY <1>1, <1>6, <2>3 DEF SyncPolicy, TypeOK
        <3>2. UNCHANGED <<podCache, podEvents, timer, worker>>
            BY <1>6 DEF SyncPolicy
        <3> QED
            BY <1>1, <1>2, <2>1, <3>1, <3>2, StatusFrame, ReadFrame
    <2> QED
        BY <2>2, <2>3
<1>7. ASSUME NEW q \in Policies, TimerFires(q) PROVE ReadIsFresh(p)' /\ StatusIsFresh(p)'
    <2>1. UNCHANGED <<podCache, podEvents, policyCache, policyEvents, worker>>
        BY <1>7 DEF TimerFires
    <2>2. (Queued(p) => Queued(p)') /\ (p = q => Queued(p)')
        BY <1>7, <2>1 DEF TimerFires, Queued
    <2>3. CASE p = q
        BY <2>2, <2>3, QueuedIsFresh
    <2>4. CASE p # q
        <3>1. timer'[p] = timer[p]
            BY <1>1, <1>7, <2>4 DEF TimerFires, TypeOK
        <3> QED
            BY <1>1, <1>2, <2>1, <2>2, <3>1, StatusFrame, ReadFrame
    <2> QED
        BY <2>3, <2>4
<1>8. ASSUME NEW q \in Policies, Get(q) PROVE ReadIsFresh(p)' /\ StatusIsFresh(p)'
    <2>1. key = Nothing /\ Nothing \notin Policies
        BY <1>1, <1>8, ControllerAssumption DEF Get, WorkerHolds
    <2>2. UNCHANGED <<policies, podCache, podEvents, policyCache, policyEvents, timer>>
        BY <1>8 DEF Get
    <2>3. CASE p = q
        BY <1>8, <2>2, <2>3 DEF Get, ReadIsFresh, StatusIsFresh
    <2>4. CASE p # q
        <3>1. key' # p /\ (Queued(p) => Queued(p)')
            BY <1>8, <2>2, <2>4 DEF Get, Queued
        <3> QED
            BY <1>1, <1>2, <2>1, <2>2, <3>1, StatusFrame DEF ReadIsFresh
    <2> QED
        BY <2>3, <2>4
<1>9. CASE Crash
    <2>1. key' = Nothing /\ policyCache'[p] = Absent /\ Nothing \notin Policies
        BY <1>9, ControllerAssumption DEF Crash
    <2> QED
        BY <2>1 DEF ReadIsFresh, StatusIsFresh
<1>10. CASE StartManager
    <2>1. key' = Nothing /\ Nothing \notin Policies
        BY <1>1, <1>10, ControllerAssumption DEF StartManager, WorkerHolds
    <2>2. policies'[p] = Absent \/ Queued(p)'
        BY <1>10 DEF StartManager, Queued
    <2> QED
        BY <2>1, <2>2 DEF ReadIsFresh, StatusIsFresh
<1>11. CASE HandlePodEvent
    BY <1>11, HandlePodEventFresh
<1>12. CASE HandlePolicyEvent
    <2>1. UNCHANGED <<policies, podCache, podEvents, policyCache, timer, worker>>
        BY <1>12 DEF HandlePolicyEvent
    <2>2. policyEvents \in Seq(Policies) /\ policyEvents # <<>>
             /\ policyEvents' = Tail(policyEvents) /\ queue' = queue \cup {Head(policyEvents)}
        BY <1>1, <1>12 DEF TypeOK, HandlePolicyEvent
    <2>3. Occurs(policyEvents, {p}) => Head(policyEvents) \in {p} \/ Occurs(policyEvents', {p})
        BY <2>2, TailOccurs
    <2>4. Queued(p) => Queued(p)'
        BY <2>2, <2>3 DEF Queued
    <2> QED
        BY <1>1, <1>2, <2>1, <2>4, StatusFrame, ReadFrame
<1>13. CASE NotFound
    <2>1. /\ at = "list" /\ policy = Absent /\ Return("none")
          /\ UNCHANGED <<policies, policyCache, podCache, podEvents, policyEvents, queue>>
        BY <1>13 DEF NotFound
    <2>2. ASSUME key = p PROVE StatusIsFresh(p)'
        <3>1. CASE Queued(p)
            BY <2>1, <3>1, QueuedIsFresh DEF Queued
        <3>2. CASE ~ Queued(p)
            BY <1>1, <2>1, <2>2, <3>2 DEF ReadIsFresh, StatusIsFresh
        <3> QED
            BY <3>1, <3>2
    <2> QED
        BY <1>2, <2>1, <2>2, ReturnFresh
<1>14. CASE InvalidSelector
    BY <1>2, <1>14, ReturnFresh DEF InvalidSelector
<1>15. CASE ReadFails
    BY <1>2, <1>15, ReturnFresh DEF ReadFails
<1>16. CASE List
    <2>1. /\ at' = "update" /\ counted' = Count(policy.selector)
          /\ UNCHANGED <<policies, policyCache, podCache, podEvents, policyEvents, queue,
                         timer, key, policy>>
        BY <1>16 DEF List
    <2>2. Queued(p)' <=> Queued(p)
        BY <2>1 DEF Queued
    <2>3. StatusIsFresh(p)'
        BY <1>1, <1>2, <2>1, <2>2, StatusFrame
    <2>4. counted'.matched = CachedRunning(policy.selector)
        BY <2>1 DEF Count, CachedRunning
    <2>5. ReadIsFresh(p)'
        BY <1>1, <2>1, <2>2, <2>4 DEF ReadIsFresh, CachedRunning, InPhase, WithSidecar
    <2> QED
        BY <2>3, <2>5
<1>17. CASE StatusUpdate
    BY <1>17, StatusUpdateFresh
<1>18. CASE UpdateFails
    BY <1>2, <1>18, ReturnFresh DEF UpdateFails
<1>19. CASE LateWrite
    BY <1>3, <1>19 DEF LateWrite
<1>20. CASE UNCHANGED vars
    BY <1>3, <1>20 DEF vars
<1> QED
    BY <1>4, <1>5, <1>6, <1>7, <1>8, <1>9, <1>10, <1>11, <1>12, <1>13, <1>14, <1>15, <1>16,
       <1>17, <1>18, <1>19, <1>20
    DEF Next

----------------------------------------------------------------------------
(* Theorems *)

\* The invariant holds at the start, when there is nothing.
LEMMA InitControllerInv == Init => ControllerInv
<1> SUFFICES ASSUME Init PROVE ControllerInv
    OBVIOUS
<1>1. TypeOK
    BY ControllerAssumption DEF Init, TypeOK, NotCounted
<1>2. WorkerHolds /\ VersionsAgree
    BY ControllerAssumption DEF Init, WorkerHolds, VersionsAgree, VersionOf
<1>3. \A p \in Policies : ReadIsFresh(p) /\ StatusIsFresh(p)
    BY ControllerAssumption DEF Init, ReadIsFresh, StatusIsFresh
<1> QED
    BY <1>1, <1>2, <1>3 DEF ControllerInv

\* Every step preserves the invariant.
LEMMA StepControllerInv == ControllerInv /\ [Next]_vars => ControllerInv'
<1> SUFFICES ASSUME ControllerInv, [Next]_vars PROVE ControllerInv'
    OBVIOUS
<1>1. TypeOK' /\ WorkerHolds' /\ VersionsAgree'
    BY StepTypes, StepVersions DEF ControllerInv
<1>2. \A p \in Policies : ReadIsFresh(p)' /\ StatusIsFresh(p)'
    BY StepFresh
<1> QED
    BY <1>1, <1>2 DEF ControllerInv

\* The invariant holds in every reachable state.
THEOREM ControllerInvariant == Spec => []ControllerInv
BY InitControllerInv, StepControllerInv, PTL DEF Spec

\* The variables of the controller, its caches and its queue have their types.
THEOREM ControllerTypeCorrect == Spec => []TypeOK
<1>1. ControllerInv => TypeOK
    BY DEF ControllerInv
<1> QED
    BY <1>1, ControllerInvariant, PTL

\* Reconcile misses no change, for any number of policies, pods, changes and
\* crashes: with nothing under way, the status of every policy is accurate.
THEOREM MissesNoChange == Spec => []NoMissedChange
<1>1. ControllerInv => NoMissedChange
    <2> SUFFICES ASSUME ControllerInv, NEW p \in Policies, Settled(p),
                        policies[p] # Absent, policies[p].selector # Invalid
                 PROVE  Accurate(p)
        BY DEF NoMissedChange, Accurate
    <2>1. ~ Queued(p)
        BY DEF Settled, Queued, Occurs
    <2>2. ~ Noticed(policies[p].selector)
        BY DEF Settled, Noticed, Occurs
    <2>3. podCache = pods /\ key # p /\ timer[p] # "retry" /\ policies[p] = policyCache[p]
        BY DEF Settled
    <2> QED
        BY <2>1, <2>2, <2>3 DEF ControllerInv, StatusIsFresh, CachedRunning, Accurate
<1> QED
    BY <1>1, ControllerInvariant, PTL

\* A status that is written, also by a write that arrives late, names the
\* generation that the policy has at that moment.
THEOREM WritesNothingStale == Spec => NoStaleWrite
<1>1. ControllerInv /\ [Next]_vars =>
          [\A p \in Policies :
             (policies[p] # Absent /\ policies'[p] # Absent
                /\ policies'[p].status # policies[p].status)
             => policies'[p].status.observed = policies'[p].generation]_vars
    <2> SUFFICES ASSUME ControllerInv, Next, NEW p \in Policies,
                        policies[p] # Absent, policies'[p] # Absent,
                        policies'[p].status # policies[p].status
                 PROVE  policies'[p].status.observed = policies'[p].generation
        BY DEF vars
    <2> USE DEF api
    <2>1. policies[p] \in Policy /\ policies \in [Policies -> Policy \cup {Absent}]
        BY DEF ControllerInv, TypeOK
    <2>2. ASSUME NEW q \in Policies, NEW t \in Status, policies[q] # Absent, Store(q, t)
          PROVE  q = p /\ policies'[p].status = t /\ policies'[p].generation = policies[p].generation
        <3>1. policies' = [policies EXCEPT ![q].status = t, ![q].version = version + 1]
            BY <2>2 DEF Store
        <3>2. q = p
            BY <2>1, <3>1
        <3> QED
            BY <2>1, <3>1, <3>2 DEF Policy
    <2>3. CASE StatusUpdate
        <3>1. /\ key \in Policies /\ policy # Absent /\ Current(key, policy.version)
              /\ Store(key, Desired) /\ policies[key] # Absent /\ Desired \in Status
            BY <2>3, StatusType DEF StatusUpdate, Current, ControllerInv, WorkerHolds
        <3>2. /\ key = p /\ policies'[p].status = Desired
              /\ policies'[p].generation = policies[p].generation
            BY <2>2, <3>1
        <3>3. policy.generation = policies[p].generation
            BY <3>1, <3>2 DEF ControllerInv, VersionsAgree, VersionOf, Current
        <3> QED
            BY <3>2, <3>3 DEF Desired
    <2>4. CASE LateWrite
        <3>1. PICK w \in wire : Current(w.key, w.version) /\ Store(w.key, w.status)
            BY <2>4 DEF LateWrite
        <3>2. w.key \in Policies /\ w.status \in Status
            BY DEF ControllerInv, TypeOK
        <3>3. /\ w.key = p /\ policies'[p].status = w.status
              /\ policies'[p].generation = policies[p].generation
            BY <2>2, <3>1, <3>2 DEF Current
        <3>4. w.status.observed = policies[p].generation
            BY <3>1, <3>3 DEF ControllerInv, VersionsAgree, Current
        <3> QED
            BY <3>3, <3>4
    <2>5. ASSUME NEW q \in Policies, PolicyChange(q) PROVE FALSE
        <3>1. q = p
            BY <2>1, <2>5 DEF PolicyChange
        <3>2. PICK t \in Selectors \cup {Invalid} :
                 policies' = [policies EXCEPT ![p].selector = t, ![p].generation = @ + 1,
                                              ![p].version = version + 1]
            BY <2>1, <2>5, <3>1 DEF PolicyChange
        <3>3. policies'[p].status = policies[p].status
            BY <2>1, <3>2 DEF Policy
        <3> QED
            BY <3>3
    <2> QED
        BY <2>3, <2>4, <2>5
        DEF Next, PodChange, SyncPod, SyncPolicy, TimerFires, Get, Crash, StartManager,
            HandlePodEvent, HandlePolicyEvent, NotFound, InvalidSelector, ReadFails, List,
            UpdateFails
<1> QED
    BY <1>1, ControllerInvariant, PTL DEF Spec, NoStaleWrite

============================================================================
