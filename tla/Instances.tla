----------------------------- MODULE Instances -----------------------------
(***************************************************************************)
(* The PostgreSQL instances of a PostgresCluster and the part of its       *)
(* reconciler that creates, scales, rolls out, stops and deletes them      *)
(* (instance.go, delete.go).  A reconcile lists the objects once and then  *)
(* works from that list, while Kubernetes and Patroni go on.  The work     *)
(* queue is "queued": every change of a watched object sets it, and the    *)
(* reconciler runs only when it is set.                                    *)
(***************************************************************************)
EXTENDS Integers, FiniteSets, FiniteSetsExt

CONSTANTS
    Names,      \* names instances may get
    SetOf,      \* the instance set a name belongs to
    Sets,       \* instance sets
    Wants,      \* the numbers of replicas per set that the spec may ask for
    None,
    Scenarios   \* what may happen in a behaviour, and the sizes at its beginning:
                \* [changes, wants]

VARIABLES
    spec,       \* the PostgresCluster: [want, rev, shutdown, deleting]
    startup,    \* status.startupInstance
    sts,        \* StatefulSet of a name: [rev, replicas, seen], or None
    pod,        \* its Pod: [role, ready, term, rev], or None
    pvc,        \* its data volume: "none", "bound" or "gone" (terminating)
    leader,     \* who holds the Patroni leader lock
    data,       \* what the volumes hold of what was committed: "none", "old", "all"
    booted,     \* the DCS knows an initialised cluster
    c,          \* the reconciler
    queued,     \* its work queue
    down,       \* instances that rollout took down and that are not back
    changes     \* what may still happen

vars == <<spec, startup, sts, pod, pvc, leader, data, booted, c, queued, down, changes>>
kube == <<sts, pod, pvc>>

\* Before the first reconcile, or, in the scenario "established", with every
\* instance that the spec asks for up and the instances in K.
Begin(K) ==
    /\ startup = None
    /\ sts = [n \in Names |-> IF n \in K THEN [rev |-> 0, replicas |-> 1, seen |-> TRUE] ELSE None]
    /\ pvc = [n \in Names |-> IF n \in K THEN "bound" ELSE "none"]
    /\ data = [n \in Names |-> IF n \in K THEN "all" ELSE "none"]
    /\ leader \in IF K = {} THEN {None} ELSE K
    /\ pod = [n \in Names |->
        IF n \in K THEN [role |-> IF n = leader THEN "primary" ELSE "replica",
                         ready |-> TRUE, term |-> FALSE, rev |-> 0]
        ELSE None]
    /\ booted = (K # {})

Init ==
    /\ \E scenario \in Scenarios :
        /\ changes = scenario.changes
        /\ spec \in [want : scenario.wants, rev : {0}, shutdown : {FALSE}, deleting : {FALSE}]
    /\ \E K \in SUBSET Names :
        /\ IF "established" \in changes
           THEN \A s \in Sets : Cardinality({n \in K : SetOf[n] = s}) = spec.want[s]
           ELSE K = {}
        /\ Begin(K)
    /\ c = [pc |-> "idle"] /\ queued = TRUE /\ down = {}

-----------------------------------------------------------------------------
(* What the reconciler concludes from the objects it has listed.           *)

\* newObservedInstances: a StatefulSet or a Pod makes an instance.
Observed == {n \in Names : c.sts[n] # None \/ c.pod[n] # None}
OnePod(n) == c.pod[n] # None
Primary(n) == OnePod(n) /\ c.pod[n].role = "primary"
Terminating(n) == OnePod(n) /\ c.pod[n].term
Available(n) == OnePod(n) /\ c.pod[n].ready /\ ~c.pod[n].term
\* PodMatchesPodTemplate, when its answer is known and negative.
Outdated(n) ==
    OnePod(n) /\ c.sts[n] # None /\ c.sts[n].seen /\ c.pod[n].rev # c.sts[n].rev
InSpec(n) == c.spec.want[SetOf[n]] > 0

\* byPriority: m is redeployed before n.
Before(m, n) ==
    \/ Primary(n) /\ ~Primary(m)
    \/ ~Primary(m) /\ ~Primary(n) /\ Available(n) /\ ~Available(m)

-----------------------------------------------------------------------------
(* observeInstances: the lists of Pods and StatefulSets.                   *)
Observe ==
    /\ c.pc = "idle" /\ queued
    /\ queued' = FALSE
    /\ c' = [pc |-> IF spec.deleting THEN "delete" ELSE "start",
             spec |-> spec, sts |-> sts, pod |-> pod, todo |-> {}, off |-> 0, startup |-> startup]
    /\ UNCHANGED <<spec, startup, kube, leader, data, down, booted, changes>>

\* Mutant: the startup instance is forgotten as soon as the cluster is to run.
StartupInstanceForgotten ==
    LET known == {n \in Observed : Primary(n)} IN
    IF ~c.spec.shutdown THEN None
    ELSE IF known = {} THEN startup ELSE CHOOSE n \in known : TRUE

\* reconcileInstanceSets begins with the startup instance, in its copy of the status.
StartupInstance ==
    LET known == {n \in Observed : Primary(n)} IN
    IF known = {} THEN startup
    ELSE IF c.spec.shutdown THEN CHOOSE n \in known : TRUE ELSE None

\* findAvailableInstanceNames: volumes of the set nobody uses.
Unused(s) == {n \in Names : SetOf[n] = s /\ pvc[n] = "bound" /\ c.sts[n] = None}
Fresh(s) == {n \in Names : SetOf[n] = s /\ pvc[n] = "none" /\ sts[n] = None /\ pod[n] = None}

\* scaleUpInstances: the StatefulSets of the set, and new ones up to its size.
ScaleUp(s) ==
    LET have == {n \in Names : SetOf[n] = s /\ c.sts[n] # None}
        lack == Max({0, c.spec.want[s] - Cardinality(have)})
        reuse == Min({lack, Cardinality(Unused(s))})
    IN IF c.spec.want[s] = 0 THEN {{}}
       ELSE {have \union U \union F :
               U \in kSubset(reuse, Unused(s)),
               F \in kSubset(Min({lack - reuse, Cardinality(Fresh(s))}), Fresh(s))}

Start ==
    /\ c.pc = "start"
    /\ \E f \in [Sets -> SUBSET Names] :
        /\ \A s \in Sets : f[s] \in ScaleUp(s)
        /\ c' = [c EXCEPT !.pc = "apply", !.todo = UNION {f[s] : s \in Sets},
                          !.startup = StartupInstance]
    /\ UNCHANGED <<spec, startup, kube, leader, data, queued, down, booted, changes>>

\* generateInstanceStatefulSetIntent: who runs.
Replicas(n) ==
    IF c.startup = None THEN 1
    ELSE IF c.startup # n THEN 0
    ELSE IF c.spec.shutdown /\ Cardinality({m \in Names : c.pod[m] # None}) <= 1 THEN 0
    ELSE 1

(* reconcileInstance: the StatefulSet and the volume of one instance.      *)
ReconcileInstance(n) ==
    /\ c.pc = "apply" /\ n \in c.todo
    /\ LET want == [rev |-> c.spec.rev, replicas |-> Replicas(n), seen |-> FALSE]
           same == sts[n] # None /\ [sts[n] EXCEPT !.seen = FALSE] = want
       IN /\ sts' = [sts EXCEPT ![n] = IF same THEN @ ELSE want]
          /\ queued' = (queued \/ ~same)
    /\ pvc' = [pvc EXCEPT ![n] = IF @ = "none" THEN "bound" ELSE @]
    /\ c' = [c EXCEPT !.todo = @ \ {n}]
    /\ UNCHANGED <<spec, startup, pod, leader, data, down, booted, changes>>

\* Mutant: the primary does not count.
PodsToKeepMore(s) ==
    LET of == {n \in Names : SetOf[n] = s /\ c.pod[n] # None}
        first == IF c.spec.want[s] > 0 THEN {n \in of : Primary(n)} ELSE {}
        rest == {n \in of : ~Primary(n)}
    IN {first \union K : K \in kSubset(Min({c.spec.want[s], Cardinality(rest)}), rest)}

\* podsToKeep: the primary of a set that stays, and others up to its size.
PodsToKeep(s) ==
    LET of == {n \in Names : SetOf[n] = s /\ c.pod[n] # None}
        first == IF c.spec.want[s] > 0 THEN {n \in of : Primary(n)} ELSE {}
        rest == {n \in of : ~Primary(n)}
        more == Max({0, c.spec.want[s] - Cardinality(first)})
    IN {first \union K : K \in kSubset(Min({more, Cardinality(rest)}), rest)}

(* scaleDownInstances chooses, deleteInstance deletes.                     *)
ScaleDown ==
    /\ c.pc = "apply" /\ c.todo = {}
    /\ \E f \in [Sets -> SUBSET Names] :
        /\ \A s \in Sets : f[s] \in PodsToKeep(s)
        /\ c' = [c EXCEPT !.pc = "down",
                    !.todo = {n \in Names : c.pod[n] # None} \ UNION {f[s] : s \in Sets}]
    /\ UNCHANGED <<spec, startup, kube, leader, data, queued, down, booted, changes>>

DeleteInstance(n) ==
    /\ c.pc = "down" /\ n \in c.todo
    /\ IF sts[n] # None
       THEN /\ sts' = [sts EXCEPT ![n] = None] /\ queued' = TRUE
            /\ UNCHANGED <<pvc, c>>
       ELSE /\ pvc' = [pvc EXCEPT ![n] = IF @ = "bound" THEN "gone" ELSE @]
            /\ c' = [c EXCEPT !.todo = @ \ {n}]
            /\ UNCHANGED <<sts, queued>>
    /\ UNCHANGED <<spec, startup, pod, leader, data, down, booted, changes>>

(* rolloutInstances: what is outdated, least important first.              *)
Rollout ==
    /\ c.pc = "down" /\ c.todo = {}
    /\ LET here == {n \in Observed : InSpec(n) /\ OnePod(n) /\ ~Terminating(n)}
           specified == MapThenSumSet(LAMBDA s : c.spec.want[s], Sets)
       IN c' = [c EXCEPT !.pc = "rollout",
                   !.todo = {n \in here : Outdated(n)},
                   !.off = specified - Cardinality({n \in here : Available(n)})]
    /\ UNCHANGED <<spec, startup, kube, leader, data, queued, down, booted, changes>>

MaxUnavailable == 1

\* Mutant: however many are unavailable already.
RedeployedAll(n) == TRUE

Redeployed(n) == ~Available(n) \/ c.off < MaxUnavailable

\* ChangePrimaryAndWait: Patroni hands the lock to another ready member.
Switchover(n) ==
    \E m \in Names \ {n} :
        /\ leader = n /\ pod[m] # None /\ pod[m].ready /\ ~pod[m].term
        /\ leader' = m
        /\ pod' = [pod EXCEPT ![m].role = "primary", ![n].role = "replica"]
        /\ queued' = TRUE
        /\ UNCHANGED down

\* Mutant: no preconditions.
DeletePodBlind(n) ==
    /\ pod[n] # None
    /\ pod' = [pod EXCEPT ![n].term = TRUE]
    /\ down' = IF Available(n) THEN down \union {n} ELSE down
    /\ queued' = TRUE
    /\ UNCHANGED leader

\* Delete the Pod that was listed, in the version that was listed.
DeletePod(n) ==
    /\ pod[n] = c.pod[n]
    /\ pod' = [pod EXCEPT ![n].term = TRUE]
    /\ down' = IF Available(n) THEN down \union {n} ELSE down
    /\ queued' = TRUE
    /\ UNCHANGED leader

RolloutInstance(n) ==
    IF Primary(n) /\ Cardinality(Observed) > 1 THEN Switchover(n) ELSE DeletePod(n)

\* Redeploy n, pass it over, or fail and end the reconcile to be run again.
RedeployInstance(n) ==
    /\ c.pc = "rollout" /\ n \in c.todo
    /\ \A m \in c.todo : ~Before(m, n)
    /\ \/ /\ Redeployed(n) /\ RolloutInstance(n)
          /\ c' = [c EXCEPT !.todo = @ \ {n}, !.off = IF Available(n) THEN @ + 1 ELSE @]
          /\ UNCHANGED startup
       \/ /\ Redeployed(n) /\ ~ENABLED RolloutInstance(n)
          /\ c' = [pc |-> "idle"] /\ startup' = c.startup /\ queued' = TRUE
          /\ UNCHANGED <<pod, leader, down>>
       \/ /\ ~Redeployed(n)
          /\ c' = [c EXCEPT !.todo = @ \ {n}]
          /\ UNCHANGED <<startup, pod, leader, down, queued>>
    /\ UNCHANGED <<spec, sts, pvc, data, booted, changes>>

\* The status is patched, whether or not the rollout failed.
Done ==
    /\ c.pc = "rollout" /\ c.todo = {}
    /\ c' = [pc |-> "idle"] /\ startup' = c.startup
    /\ queued' = (queued \/ startup' # startup)
    /\ UNCHANGED <<spec, kube, leader, data, down, booted, changes>>

(* deleteInstances: the finalizer of a cluster stops its replicas and then *)
(* its last Pod; with no Pod left the cluster goes with all its objects.   *)
Stop ==
    LET here == {n \in Names : c.pod[n] # None} IN
    IF Cardinality(here) = 1 THEN here ELSE {n \in here : ~Primary(n)}

DeleteInstances ==
    /\ c.pc = "delete" /\ \E n \in Names : c.pod[n] # None
    /\ sts' = [n \in Names |->
        IF n \in Stop /\ sts[n] # None
        THEN [sts[n] EXCEPT !.replicas = 0, !.seen = FALSE] ELSE sts[n]]
    /\ queued' = (queued \/ sts' # sts \/ Stop = {})
    /\ c' = [pc |-> "idle"]
    /\ UNCHANGED <<spec, startup, pvc, leader, pod, data, down, booted, changes>>

\* handleDelete: without a Pod the DCS is removed, and then the finalizer.
HandleDelete ==
    /\ c.pc = "delete" /\ \A n \in Names : c.pod[n] = None
    /\ sts' = [n \in Names |-> None]
    /\ pvc' = [n \in Names |-> IF pvc[n] = "none" THEN "none" ELSE "gone"]
    /\ leader' = None /\ c' = [pc |-> "gone"]
    /\ UNCHANGED <<spec, startup, pod, data, down, booted, queued, changes>>

Reconcile ==
    \/ Observe \/ Start \/ ScaleDown \/ Rollout \/ Done \/ DeleteInstances \/ HandleDelete
    \/ \E n \in Names : ReconcileInstance(n) \/ DeleteInstance(n) \/ RedeployInstance(n)

-----------------------------------------------------------------------------
(* Kubernetes and Patroni.                                                 *)
StatefulSet(n) ==
    \/ /\ sts[n] # None /\ ~sts[n].seen
       /\ sts' = [sts EXCEPT ![n].seen = TRUE]
       /\ UNCHANGED pod
    \/ /\ sts[n] # None /\ sts[n].seen /\ sts[n].replicas = 1
       /\ pod[n] = None /\ pvc[n] = "bound"
       /\ pod' = [pod EXCEPT ![n] =
                    [role |-> "none", ready |-> FALSE, term |-> FALSE, rev |-> sts[n].rev]]
       /\ UNCHANGED sts
    \/ /\ IF sts[n] = None THEN TRUE ELSE sts[n].seen /\ sts[n].replicas = 0
       /\ pod[n] # None /\ ~pod[n].term
       /\ pod' = [pod EXCEPT ![n].term = TRUE]
       /\ UNCHANGED sts

Kubelet(n) ==
    /\ pod[n] # None /\ pod[n].term
    /\ pod' = [pod EXCEPT ![n] = None]
    /\ leader' = IF leader = n THEN None ELSE leader
    /\ UNCHANGED sts

Kubernetes ==
    /\ \/ \E n \in Names : StatefulSet(n) /\ UNCHANGED <<leader, pvc, data>>
       \/ \E n \in Names : Kubelet(n) /\ UNCHANGED <<pvc, data>>
       \/ \E n \in Names : /\ pvc[n] = "gone" /\ pod[n] = None
                           /\ pvc' = [pvc EXCEPT ![n] = "none"]
                           /\ data' = [data EXCEPT ![n] = "none"]
                           /\ UNCHANGED <<sts, pod, leader>>
    /\ queued' = TRUE
    /\ UNCHANGED <<spec, startup, c, down, booted, changes>>

Up(n) == pod[n] # None /\ ~pod[n].term
Ready(n) == Up(n) /\ pod[n].ready

\* A member takes the free leader lock: the first one initialises the cluster,
\* afterwards it must have a data directory, with all data if such a one is up.
Elect(n) ==
    /\ leader = None /\ Up(n)
    /\ \/ ~booted /\ data' = [data EXCEPT ![n] = "all"]
       \/ /\ data[n] # "none"
          /\ data[n] = "all" \/ ~\E m \in Names : data[m] = "all" /\ Up(m)
          /\ UNCHANGED data
    /\ leader' = n /\ booted' = TRUE
    /\ pod' = [pod EXCEPT ![n].role = "primary", ![n].ready = TRUE]

\* A member follows the leader and catches up.
Follow(n) ==
    /\ leader # None /\ leader # n /\ Up(n)
    /\ pod[n].role # "replica" \/ ~pod[n].ready
    /\ pod' = [pod EXCEPT ![n].role = "replica", ![n].ready = TRUE]
    /\ data' = [data EXCEPT ![n] = data[leader]]
    /\ UNCHANGED <<leader, booted>>

Patroni ==
    /\ \E n \in Names : Elect(n) \/ Follow(n)
    /\ down' = {n \in down : pod'[n] = None \/ ~pod'[n].ready \/ pod'[n].term}
    /\ queued' = TRUE
    /\ UNCHANGED <<spec, startup, sts, pvc, c, changes>>

\* The leader commits something; the members that are down miss it.
Write ==
    /\ "write" \in changes /\ leader # None /\ c.pc # "gone"
    /\ data' = [n \in Names |->
        IF data[n] = "all" /\ n # leader /\ ~(pod[n] # None /\ pod[n].ready) THEN "old" ELSE data[n]]
    /\ data' # data
    /\ UNCHANGED <<spec, startup, kube, leader, booted, c, queued, down, changes>>

-----------------------------------------------------------------------------
(* The user, and faults.                                                   *)
Change(what) == what \in changes /\ ~spec.deleting /\ changes' = changes \ {what}

\* Scaling and shutting down begin on a cluster that is up, and resuming on one
\* that is down, unless the scenario is "anytime".
Healthy ==
    \/ "anytime" \in changes
    \/ /\ leader # None
       /\ \A s \in Sets : Cardinality({n \in Names : SetOf[n] = s /\ Ready(n)}) = spec.want[s]

Edit ==
    /\ \/ Change("scale") /\ Healthy /\ \E w \in Wants : spec' = [spec EXCEPT !.want = w]
       \/ Change("update") /\ spec' = [spec EXCEPT !.rev = 1]
       \/ Change("shutdown") /\ Healthy /\ spec' = [spec EXCEPT !.shutdown = TRUE]
       \/ /\ spec.shutdown /\ ~spec.deleting
          /\ "anytime" \in changes \/ \A n \in Names : pod[n] = None
          /\ spec' = [spec EXCEPT !.shutdown = FALSE] /\ UNCHANGED changes
       \/ Change("delete") /\ spec' = [spec EXCEPT !.deleting = TRUE]
    /\ queued' = TRUE
    /\ UNCHANGED <<startup, kube, leader, data, c, down, booted>>

\* The Pod of a member fails: its leader lock expires and it starts over.
Crash(n) ==
    /\ Change("crash") /\ pod[n] # None /\ pod[n].ready
    /\ pod' = [pod EXCEPT ![n].ready = FALSE, ![n].role = "none"]
    /\ leader' = IF leader = n THEN None ELSE leader
    /\ queued' = TRUE
    /\ UNCHANGED <<spec, startup, sts, pvc, data, c, down, booted>>

\* The operator restarts.
Restart ==
    /\ Change("restart") /\ c.pc \notin {"idle", "gone"}
    /\ c' = [pc |-> "idle"] /\ queued' = TRUE
    /\ UNCHANGED <<spec, startup, kube, leader, data, down, booted>>

Next == Restart \/ Reconcile \/ Kubernetes \/ Patroni \/ Write \/ Edit \/ \E n \in Names : Crash(n)

Spec == Init /\ [][Next]_vars

-----------------------------------------------------------------------------
(* Properties.                                                             *)

\* The leader's volume holds every committed transaction: through shutdown and
\* startup the instance that stopped last starts first (instance.go:1481), and
\* scaling down does not remove the data that a remaining member lacks.
LeaderHasData == leader # None /\ c.pc # "gone" => data[leader] = "all"

\* Rolling an update out takes down one available instance at a time, although
\* each decision rests on a list that others change meanwhile.
OneDown == Cardinality(down) <= MaxUnavailable

\* The update never deletes the Pod that leads while there is another member to
\* lead, although the list may be older than the last failover.
RolloutSparesPrimary ==
    [][\A n \in Names :
        /\ c.pc = "rollout" /\ c' # c /\ pod[n] # None /\ pod'[n] # None
        /\ pod'[n].term /\ ~pod[n].term
        => leader # n \/ Cardinality(Observed) = 1]_vars

\* With nothing left to do every set has its size, every Pod is up to date and
\* ready, and a cluster that is shut down or deleted has no Pod.
InstancesSettle ==
    ~ENABLED (Reconcile \/ Kubernetes \/ Patroni) =>
        IF spec.deleting
        THEN c.pc = "gone" /\ \A n \in Names : pod[n] = None /\ pvc[n] = "none"
        ELSE IF spec.shutdown THEN \A n \in Names : pod[n] = None
        ELSE \A s \in Sets :
               LET up == {n \in Names : SetOf[n] = s /\ pod[n] # None /\ pod[n].ready
                                          /\ pod[n].rev = spec.rev}
               IN Cardinality(up) = spec.want[s]
=============================================================================
