------------------------------ MODULE PgBouncer ------------------------------
(***************************************************************************)
(* PgBouncer and its pause (internal/controller/postgrescluster/            *)
(* pgbouncer.go, internal/pgbouncer, cmd/pgbouncer-startup).  PAUSE lives   *)
(* in the memory of each process.  The reconciler sends it to every Pod and *)
(* remembers in a condition that it did; a marker in the ConfigMap lets a   *)
(* process that starts later pause itself.                                  *)
(***************************************************************************)
EXTENDS Naturals, FiniteSets

CONSTANTS
    Pods,       \* as many as spec.proxy.pgBouncer.replicas
    None,
    Scenarios   \* sets of changes: what may happen in a behaviour

VARIABLES
    spec,       \* [enabled, paused, shutdown]
    marker,     \* pgbouncer-paused is in the ConfigMap; None: no ConfigMap
    replicas,   \* of the Deployment; 0 when there is none
    budget,     \* minAvailable of the PodDisruptionBudget; 0: there is none
    pods,       \* [state, file (the marker as projected), wanted, lagged, paused], or None
    condition,  \* PGBouncerPaused is true
    s,          \* the reconciler, with the spec and the condition it has read
    event,      \* something for it to do
    changes

vars == <<spec, marker, replicas, budget, pods, condition, s, event, changes>>
objects == <<marker, replicas, budget>>

Init ==
    /\ changes \in Scenarios
    /\ spec = [enabled |-> TRUE, paused |-> FALSE, shutdown |-> FALSE]
    /\ marker = None /\ replicas = 0 /\ budget = 0
    /\ pods = [p \in Pods |-> None]
    /\ condition = FALSE
    /\ s = [pc |-> "idle"] /\ event = TRUE

Present == {p \in Pods : pods[p] # None}
Running == {p \in Present : pods[p].state = "running"}

-----------------------------------------------------------------------------
(* reconcilePGBouncer.                                                     *)
Reconcile ==
    /\ s.pc = "idle" /\ event /\ event' = FALSE
    /\ s' = [pc |-> "configmap", spec |-> spec, condition |-> condition, todo |-> {}]
    /\ UNCHANGED <<spec, objects, pods, condition, changes>>

To(pc) == s' = [s EXCEPT !.pc = pc]

\* Mutant: the marker stays.
PausedMarkerKept == marker = TRUE \/ s.spec.paused

\* pgbouncer.ConfigMap: the marker goes as soon as the spec no longer asks for a pause.
PausedMarker == s.spec.paused

\* reconcilePGBouncerConfigMap.
ConfigMap ==
    /\ s.pc = "configmap"
    /\ marker' = IF s.spec.enabled THEN PausedMarker ELSE None
    /\ To("deployment")
    /\ UNCHANGED <<spec, replicas, budget, pods, condition, event, changes>>

\* generatePGBouncerDeployment: none of the Pods while the cluster is shut down.
Replicas == IF s.spec.shutdown THEN 0 ELSE Cardinality(Pods)

\* reconcilePGBouncerDeployment.
Deployment ==
    /\ s.pc = "deployment"
    /\ replicas' = IF s.spec.enabled THEN Replicas ELSE 0
    /\ To("budget")
    /\ UNCHANGED <<spec, marker, budget, pods, condition, event, changes>>

\* getMinAvailable, when the spec does not say.
MinAvailable == IF Cardinality(Pods) > 1 THEN 1 ELSE 0

\* reconcilePGBouncerPodDisruptionBudget.
PodDisruptionBudget ==
    /\ s.pc = "budget"
    /\ budget' = IF s.spec.enabled THEN MinAvailable ELSE 0
    /\ To("pause")
    /\ UNCHANGED <<spec, marker, replicas, pods, condition, event, changes>>

Fail == To("status") /\ event' = TRUE

\* reconcilePGBouncerPause: nothing to do when the condition says it is done.
Pause ==
    /\ s.pc = "pause"
    /\ \/ ~s.spec.enabled /\ s' = [s EXCEPT !.pc = "status", !.condition = FALSE] /\ UNCHANGED event
       \/ s.spec.enabled /\ s.spec.paused = s.condition /\ To("status") /\ UNCHANGED event
       \/ /\ s.spec.enabled /\ s.spec.paused # s.condition
          /\ IF Cardinality(Present) < Cardinality(Pods) THEN Fail
             ELSE s' = [s EXCEPT !.pc = "command", !.todo = Present] /\ UNCHANGED event
    /\ UNCHANGED <<spec, objects, pods, condition, changes>>

\* A Pod answers once its process is up: adminClient.Pause and Resume take a
\* pooler that is paused, or not paused, already for done.
Answers(p) == pods[p] # None /\ pods[p].state \in {"probing", "running"}

\* handlePGBouncerPause: one Pod after another; any error ends it.
Command ==
    /\ s.pc = "command" /\ s.todo # {}
    /\ \E p \in s.todo :
        IF Answers(p)
        THEN /\ pods' = [pods EXCEPT ![p].paused = s.spec.paused, ![p].lagged = FALSE]
             /\ s' = [s EXCEPT !.todo = @ \ {p}] /\ UNCHANGED event
        ELSE Fail /\ UNCHANGED pods
    /\ UNCHANGED <<spec, objects, condition, changes>>

Commanded ==
    /\ s.pc = "command" /\ s.todo = {}
    /\ s' = [s EXCEPT !.pc = "status", !.condition = s.spec.paused]
    /\ UNCHANGED <<spec, objects, pods, condition, event, changes>>

\* Reconcile patches the status at its end.
PatchStatus ==
    /\ s.pc = "status"
    /\ condition' = s.condition
    /\ s' = [pc |-> "idle"]
    /\ UNCHANGED <<spec, objects, pods, event, changes>>

-----------------------------------------------------------------------------
(* The Pods, and the kubelet that projects the marker into them.           *)
Started(file) ==
    [state |-> "starting", file |-> file, wanted |-> FALSE, lagged |-> FALSE, paused |-> FALSE]

\* The Deployment controller.
CreatePod(p) ==
    /\ Cardinality(Present) < replicas
    /\ pods[p] = None
    /\ pods' = [pods EXCEPT ![p] = Started(marker = TRUE)]
    /\ UNCHANGED <<spec, objects, condition, s, event, changes>>

RemovePod(p) ==
    /\ Cardinality(Present) > replicas
    /\ pods[p] # None
    /\ pods' = [pods EXCEPT ![p] = None]
    /\ UNCHANGED <<spec, objects, condition, s, event, changes>>

\* The projected file follows the ConfigMap, some time later.
Project(p) ==
    /\ pods[p] # None /\ marker # None /\ pods[p].file # marker
    /\ pods' = [pods EXCEPT ![p].file = marker]
    /\ UNCHANGED <<spec, objects, condition, s, event, changes>>

Change(c) == c \in changes /\ changes' = changes \ {c}

\* pauseWanted: the startup probe reads the marker as far as it has been projected.
ReadMarker(p) ==
    /\ pods[p] # None /\ pods[p].state = "starting"
    /\ pods' = [pods EXCEPT ![p].state = "probing", ![p].wanted = pods[p].file]
    /\ UNCHANGED <<spec, objects, condition, s, event, changes>>

\* handlePause: and pauses its own process.  Reconciles go on meanwhile, so that it may
\* act on a marker that is no longer, or not yet, the one of the ConfigMap.
HandlePause(p) ==
    /\ pods[p] # None /\ pods[p].state = "probing"
    /\ pods' = [pods EXCEPT ![p].state = "running", ![p].paused = pods[p].wanted \/ @,
                            ![p].lagged = IF pods[p].wanted THEN marker # TRUE ELSE @ \/ marker = TRUE]
    /\ event' = TRUE
    /\ UNCHANGED <<spec, objects, condition, s, changes>>

\* "Failure to pause is fatal": the probe is made again, in the same process, which may
\* have paused after all, or in a new one.
HandlePauseFails(p) ==
    /\ pods[p] # None /\ pods[p].state = "probing" /\ pods[p].wanted
    /\ Change("pauseFails")
    /\ \E done \in BOOLEAN :
        pods' = [pods EXCEPT ![p] = [Started(@.file) EXCEPT
                                !.paused = done, !.lagged = done /\ marker # TRUE]]
    /\ UNCHANGED <<spec, objects, condition, s, event>>

-----------------------------------------------------------------------------
Edit(c, new) ==
    /\ Change(c) /\ spec' = new /\ event' = TRUE
    /\ UNCHANGED <<objects, pods, condition, s>>

\* Once the cluster is up; ("early") before the pause is reported to be done.
PauseSpec == Running = Pods /\ Edit("pause", [spec EXCEPT !.paused = TRUE])
ResumeSpec == spec.paused /\ ("early" \in changes \/ condition) /\ Edit("resume", [spec EXCEPT !.paused = FALSE])
Disable == Edit("disable", [spec EXCEPT !.enabled = FALSE])
Enable == ~spec.enabled /\ replicas = 0 /\ Edit("enable", [spec EXCEPT !.enabled = TRUE])
Shutdown == Edit("shutdown", [spec EXCEPT !.shutdown = TRUE])
Startup == spec.shutdown /\ Edit("startup", [spec EXCEPT !.shutdown = FALSE])

\* The container stops and is started again, in the same Pod.
Restart ==
    /\ Change("restart")
    /\ \E p \in Running : pods' = [pods EXCEPT ![p] = Started(@.file)]
    /\ UNCHANGED <<spec, objects, condition, s, event>>

\* A node is drained, as far as the budget allows.
Evict ==
    /\ Change("evict") /\ Cardinality(Running) > budget
    /\ \E p \in Running : pods' = [pods EXCEPT ![p] = None]
    /\ UNCHANGED <<spec, objects, condition, s, event>>

\* The operator restarts.
Crash ==
    /\ s.pc # "idle" /\ Change("crash")
    /\ s' = [pc |-> "idle"] /\ event' = TRUE
    /\ UNCHANGED <<spec, objects, pods, condition>>

Step == Reconcile \/ ConfigMap \/ Deployment \/ PodDisruptionBudget \/ Pause \/ Command \/ Commanded \/ PatchStatus

Kubelet ==
    \E p \in Pods :
        \/ CreatePod(p) \/ RemovePod(p) \/ Project(p)
        \/ ReadMarker(p) \/ HandlePause(p) \/ HandlePauseFails(p)

World ==
    PauseSpec \/ ResumeSpec \/ Disable \/ Enable \/ Shutdown \/ Startup \/ Restart \/ Evict \/ Crash

Next == Step \/ World \/ Kubelet

Spec == Init /\ [][Next]_vars

-----------------------------------------------------------------------------
Quiet == s.pc = "idle" /\ ~event /\ ~ENABLED Kubelet

\* Once reconciler and Pods have nothing more to do, every PgBouncer is paused
\* exactly if the spec says so, whichever of them restarted, were evicted or were
\* created meanwhile, and whatever the operator lost in a crash: a pooler left
\* paused lets its clients wait forever, and nothing looks at it again.  The exception
\* is a process that acted on an old marker and was sent no command since.
PauseHonoured ==
    Quiet =>
        /\ Cardinality(Present) = IF spec.enabled /\ ~spec.shutdown THEN Cardinality(Pods) ELSE 0
        /\ \A p \in Present : pods[p].lagged \/ pods[p].paused = spec.paused
=============================================================================
