----------------------------- MODULE Switchover -----------------------------
(***************************************************************************)
(* What the PostgresCluster reconciler asks of Patroni (patroni.go):       *)
(* switchovers requested with an annotation, the dynamic configuration,    *)
(* and restarts of members whose settings need one.  The cluster is read   *)
(* from a cache that may lag behind, and its status is written by a merge  *)
(* patch at the end of the reconcile, which a restart of the operator may  *)
(* prevent.                                                                *)
(***************************************************************************)
EXTENDS Naturals, FiniteSets

CONSTANTS
    Members,        \* instances with a Pod
    Nil,            \* unset
    MaxTimeline,    \* bound on the timelines of a behaviour
    SwitchoverFaults    \* subset of {"crash", "failover", "misdirected"}

VARIABLES
    ask,        \* spec and annotation: [enabled, id, target, type]
    patroni,    \* status.patroni: [done, timeline]; Nil and 0 if unset
    cached,     \* the cluster as the cache of the operator has it
    leader, timeline,
    conf,       \* revision of the configuration in the spec
    dcs,        \* revision in Patroni's DCS
    pending,    \* members that need a restart
    sw,         \* the reconciler
    requeued,   \* something for it to do
    performed,  \* how often the switchover of a request was carried out
    luck        \* faults that may still happen

switchoverVars == <<ask, patroni, cached, leader, timeline, conf, dcs, pending, sw, requeued,
                    performed, luck>>
world == <<ask, leader, timeline, conf, dcs, pending, performed>>

Requests == {1, 2}
Unset == [done |-> Nil, timeline |-> 0]

Cluster == [ask |-> ask, status |-> patroni, conf |-> conf]

SwitchoverInit ==
    /\ ask \in [enabled : BOOLEAN, id : {Nil}, target : Members \union {Nil},
                type : {"Switchover", "Failover"}]
    /\ patroni = Unset /\ conf = 0 /\ cached = Cluster
    /\ leader = (CHOOSE m \in Members : TRUE) /\ timeline = 1
    /\ dcs = 0 /\ pending = {}
    /\ sw = [pc |-> "idle"] /\ requeued = TRUE
    /\ performed = [r \in Requests |-> 0] /\ luck = SwitchoverFaults

-----------------------------------------------------------------------------
(* Reconcile reads the cluster and lists the Pods.                         *)
ReadPatroni ==
    /\ sw.pc = "idle" /\ requeued
    /\ requeued' = FALSE
    /\ sw' = [pc |-> "switchover", ask |-> cached.ask, conf |-> cached.conf,
              before |-> cached.status, status |-> cached.status,
              pending |-> pending, leader |-> leader]
    /\ UNCHANGED <<world, patroni, cached, luck>>

\* A request of which nothing is left to do; the timeline is forgotten.
Answered(a, st) == a.id = Nil \/ st.done = a.id

\* Mutant: the timeline is remembered but not compared.
VerdictBlind(a, st, tl) ==
    IF ~a.enabled THEN "clear"
    ELSE IF Answered(a, st) THEN "forget"
    ELSE IF st.timeline = 0 THEN "remember" ELSE "act"

\* reconcilePatroniSwitchover up to the call of Patroni: the early returns, the
\* errors, and the timeline from before the switchover, kept in the status so
\* that a later reconcile can tell whether it has happened.
Verdict(a, st, tl) ==
    IF ~a.enabled THEN "clear"
    ELSE IF Answered(a, st) THEN "forget"
    ELSE IF Cardinality(Members) <= 1 THEN "error"
    ELSE IF a.type = "Failover" /\ a.target = Nil THEN "error"
    ELSE IF st.timeline = 0 THEN "remember"
    ELSE IF st.timeline # tl THEN "assume"
    ELSE "act"

DecideSwitchover ==
    /\ sw.pc = "switchover"
    /\ LET v == Verdict(sw.ask, sw.status, timeline)
           next == CASE v = "clear"    -> Unset
                     [] v = "forget"   -> [sw.status EXCEPT !.timeline = 0]
                     [] v = "remember" -> [sw.status EXCEPT !.timeline = timeline]
                     [] v = "assume"   -> [done |-> sw.ask.id, timeline |-> 0]
                     [] OTHER          -> sw.status
       IN sw' = [sw EXCEPT !.status = next,
                           !.pc = CASE v = "act" -> "act" [] v = "error" -> "failed"
                                    [] OTHER -> "configure"]
    /\ UNCHANGED <<world, patroni, cached, requeued, luck>>

\* SwitchoverAndWait and FailoverAndWait: Patroni moves the lock to the target, or
\* to another member, which the command reports differently, or refuses.
Move(m) ==
    /\ timeline < MaxTimeline
    /\ leader' = m /\ timeline' = timeline + 1

CallPatroni ==
    /\ sw.pc = "act"
    /\ \/ \E m \in Members \ {leader} :
            /\ sw.ask.target \in {Nil, m} \/ "misdirected" \in luck
            /\ Move(m)
            /\ performed' = [performed EXCEPT ![sw.ask.id] = @ + 1]
            /\ sw' = IF sw.ask.target \in {Nil, m}
                     THEN [sw EXCEPT !.pc = "configure",
                                     !.status = [done |-> sw.ask.id, timeline |-> 0]]
                     ELSE [sw EXCEPT !.pc = "failed"]
            /\ luck' = IF sw.ask.target \in {Nil, m} THEN luck ELSE luck \ {"misdirected"}
       \/ /\ sw.ask.target = leader
          /\ sw' = [sw EXCEPT !.pc = "failed"]
          /\ UNCHANGED <<leader, timeline, performed, luck>>
    /\ UNCHANGED <<ask, conf, dcs, pending, patroni, cached, requeued>>

\* reconcilePatroniDynamicConfiguration: ReplaceConfiguration.
Configure ==
    /\ sw.pc = "configure"
    /\ dcs' = sw.conf
    /\ pending' = IF dcs' # dcs THEN Members ELSE pending
    /\ requeued' = (requeued \/ dcs' # dcs)
    /\ sw' = [sw EXCEPT !.pc = "restart"]
    /\ UNCHANGED <<ask, leader, timeline, conf, performed, patroni, cached, luck>>

\* Mutant: only a primary is restarted.
RestartedPrimary == IF sw.leader \in sw.pending THEN pending \intersect {leader} ELSE {}

\* handlePatroniRestarts: the primary if it was listed as pending, otherwise all
\* replicas that still need it.  RestartPendingMembers picks members by role.
Restarted ==
    IF sw.pending = {} THEN {}
    ELSE IF sw.leader \in sw.pending THEN pending \intersect {leader}
    ELSE pending \ {leader}

Restart ==
    /\ sw.pc = "restart"
    /\ pending' = pending \ Restarted
    /\ requeued' = (requeued \/ Restarted # {})
    /\ sw' = [sw EXCEPT !.pc = "patch"]
    /\ UNCHANGED <<ask, leader, timeline, conf, dcs, performed, patroni, cached, luck>>

\* patchClusterStatus: a merge patch of what this reconcile changed.
Patched ==
    [f \in {"done", "timeline"} |->
        IF sw.status[f] # sw.before[f] THEN sw.status[f] ELSE patroni[f]]

PatchPatroni ==
    /\ sw.pc \in {"patch", "failed"}
    /\ patroni' = Patched
    /\ requeued' = (requeued \/ sw.pc = "failed")
    /\ sw' = [pc |-> "idle"]
    /\ UNCHANGED <<world, cached, luck>>

ReconcilePatroni ==
    \/ ReadPatroni \/ DecideSwitchover \/ CallPatroni \/ Configure \/ Restart \/ PatchPatroni

-----------------------------------------------------------------------------
(* The cache of the operator catches up, and an event tells so.            *)
CacheSync ==
    /\ cached # Cluster
    /\ cached' = Cluster /\ requeued' = TRUE
    /\ UNCHANGED <<world, patroni, sw, luck>>

\* The user asks for a switchover, or changes a setting.
User ==
    /\ \/ /\ ask.enabled /\ ask.id \notin Requests
          /\ ask' = [ask EXCEPT !.id = 1] /\ UNCHANGED conf
       \/ /\ ask.id = 1 /\ patroni.done = 1
          /\ ask' = [ask EXCEPT !.id = 2] /\ UNCHANGED conf
       \/ conf = 0 /\ conf' = 1 /\ UNCHANGED ask
    /\ UNCHANGED <<leader, timeline, dcs, pending, performed, patroni, cached, sw, requeued, luck>>

SwitchoverCrash ==
    /\ "crash" \in luck /\ sw.pc # "idle"
    /\ luck' = luck \ {"crash"}
    /\ sw' = [pc |-> "idle"] /\ requeued' = TRUE /\ cached' = Cluster
    /\ UNCHANGED <<world, patroni>>

Failover ==
    /\ "failover" \in luck /\ \E m \in Members \ {leader} : Move(m)
    /\ luck' = luck \ {"failover"} /\ requeued' = TRUE
    /\ UNCHANGED <<ask, conf, dcs, pending, performed, patroni, cached, sw>>

SwitchoverNext == ReconcilePatroni \/ CacheSync \/ User \/ SwitchoverCrash \/ Failover

SwitchoverSpec == SwitchoverInit /\ [][SwitchoverNext]_switchoverVars

-----------------------------------------------------------------------------
(* Properties.                                                             *)

\* "To ensure idempotency, the operator verifies that the timeline reported by
\* Patroni matches the timeline that was present when the switchover was first
\* requested" (patroni.go:612): a request moves the leader once, although the
\* status may be lost in a restart or be read from a cache that lags behind.
SwitchoverOnce == \A r \in Requests : performed[r] <= 1

\* With nothing left to do a request that can be met is answered, the DCS has the
\* configuration of the spec and no member waits for a restart.
PatroniSettles ==
    ~ENABLED (ReconcilePatroni \/ CacheSync) =>
        /\ dcs = conf /\ pending = {}
        /\ ask.enabled /\ ask.id # Nil => patroni = [done |-> ask.id, timeline |-> 0]
=============================================================================
