----------------------------- MODULE StandbyLag -----------------------------
(***************************************************************************)
(* The lag of a standby cluster (percona/controller/pgcluster/standby.go). *)
(* The reconciler measures it from time to time, reports it in a condition *)
(* and makes the primary of the standby unready by a file in its data      *)
(* volume.  The file is only touched or removed when the condition changes,*)
(* and the condition is written after the file.                            *)
(***************************************************************************)
EXTENDS Naturals

CONSTANTS
    Pods,
    None,
    MaxChanges, \* bound on how often the lag changes
    Scenarios   \* sets of changes: what may happen in a behaviour

VARIABLES
    source,     \* the standby replicates from "host", "repo" or "both"
    enabled,    \* it is a standby
    main,       \* the main site is a cluster of this Kubernetes
    site,       \* the annotation: None, "" or "main"
    lag,        \* "low", "high", or "unknown" if the query fails
    turns,      \* how often it changed
    primary,    \* Pod of the standby leader, or None
    file,       \* Pods with the file: they are not ready
    cond,       \* the condition: None, "Unknown", "True", "False"
    due,        \* the interval since the last measurement is over
    s,          \* the reconciler
    changes

vars == <<source, enabled, main, site, lag, turns, primary, file, cond, due, s, changes>>
world == <<source, enabled, main, lag, turns, primary, changes>>

Idle == [pc |-> "idle"]

Init ==
    /\ changes \in Scenarios
    /\ source \in {"host", "repo", "both"}
    /\ enabled = TRUE /\ main \in BOOLEAN /\ site = None
    /\ lag = "low" /\ turns = 0 /\ primary \in Pods
    /\ file = {} /\ cond = None /\ due = TRUE /\ s = Idle

-----------------------------------------------------------------------------
(* reconcileStandbyMainSiteAnnotation: what is found first is kept.         *)
AnnotateMainSite ==
    /\ s.pc = "idle" /\ enabled /\ source # "host" /\ site = None
    /\ site' = IF main THEN "main" ELSE ""
    /\ UNCHANGED <<world, file, cond, due, s>>

Annotated == source # "host" => site # None

Lags == {"low", "high", "unknown"}

\* getStandbyLag: from the host if there is one, else, or if that fails, from
\* the main site, which may give any answer then.
GetStandbyLag ==
    IF primary = None THEN {"unknown"}
    ELSE IF source = "repo" THEN {IF site = "main" THEN lag ELSE "unknown"}
    ELSE IF lag = "unknown" /\ source = "both" /\ site = "main" THEN Lags
    ELSE {lag}

(* reconcileStandbyLag.  s.seen is the condition of the cluster it has.     *)
MeasureLag ==
    /\ s.pc = "idle" /\ enabled /\ Annotated
    /\ IF source = "repo" /\ site = ""
       THEN /\ cond # "Unknown"
            /\ s' = [pc |-> "update", seen |-> cond, cond |-> "Unknown", measured |-> FALSE]
       ELSE /\ due
            /\ \E l \in GetStandbyLag : s' = [pc |-> "signal", seen |-> cond, lag |-> l]
    /\ UNCHANGED <<world, site, file, cond, due>>

\* Mutant: a pod that was found lagging stays unready when the lag is unknown.
SignalsUnknownIgnored(verdict) == verdict # "Unknown" /\ s.seen # verdict

\* The Pod is told only if the condition changes.
Signals(verdict) ==
    IF verdict = "Unknown" THEN s.seen = "True" ELSE s.seen # verdict

\* setPodReplicationLagSignal; without a primary the condition stays as it was.
SetSignal ==
    LET verdict == CASE s.lag = "unknown" -> "Unknown"
                     [] s.lag = "high" -> "True"
                     [] OTHER -> "False"
    IN /\ s.pc = "signal"
       /\ IF Signals(verdict) /\ primary = None
          THEN s' = Idle /\ UNCHANGED file
          ELSE /\ file' = IF ~Signals(verdict) THEN file
                          ELSE IF verdict = "True" THEN file \union {primary}
                          ELSE file \ {primary}
               /\ s' = [pc |-> "update", seen |-> s.seen, cond |-> verdict,
                        measured |-> verdict # "Unknown"]
       /\ UNCHANGED <<world, site, cond, due>>

\* A reconcile that ends early does not leave the file and the condition apart; with
\* "late" it may.
Unsignalled == ~(s.pc = "update" /\ s.cond # cond /\ "late" \notin changes)

\* updateStatus; a conflict makes it start over with the cluster as it is now.
UpdateStatus ==
    /\ s.pc = "update"
    /\ \/ /\ cond' = s.cond
          /\ due' = (due /\ ~s.measured)
          /\ UNCHANGED changes
       \/ /\ "conflict" \in changes /\ changes' = changes \ {"conflict"}
          /\ Unsignalled
          /\ UNCHANGED <<cond, due>>
    /\ s' = Idle
    /\ UNCHANGED <<source, enabled, main, lag, turns, primary, site, file>>

\* pollAndRequeueStandbys, once the interval is over.
Poll ==
    /\ enabled /\ ~due /\ s.pc = "idle"
    /\ due' = TRUE
    /\ UNCHANGED <<world, site, file, cond, s>>

Reconcile == AnnotateMainSite \/ MeasureLag \/ SetSignal \/ UpdateStatus

-----------------------------------------------------------------------------
(* PostgreSQL, the user and faults.                                        *)
Replicate ==
    /\ turns < MaxChanges /\ turns' = turns + 1
    /\ \E l \in Lags \ {lag} : lag' = l
    /\ UNCHANGED <<primary, enabled, main, changes, s>>

\* The primary goes and comes back; with "failover" another Pod may take over.
Outage ==
    /\ IF primary = None
       THEN /\ "back" \in changes
            /\ changes' = changes \ {"back"}
            /\ \E p \in Pods : primary' = p /\ ("failover" \in changes \/ p \in file
                                                  \/ file = {})
       ELSE /\ "outage" \in changes
            /\ changes' = (changes \ {"outage"}) \union {"back"}
            /\ primary' = None
    /\ UNCHANGED <<lag, turns, enabled, main, s>>

Promote ==
    /\ "promote" \in changes /\ changes' = changes \ {"promote"}
    /\ enabled' = FALSE
    /\ UNCHANGED <<lag, turns, primary, main, s>>

Crash ==
    /\ "crash" \in changes /\ changes' = changes \ {"crash"}
    /\ s.pc # "idle" /\ Unsignalled /\ s' = Idle
    /\ UNCHANGED <<lag, turns, primary, enabled, main>>

World ==
    /\ Replicate \/ Outage \/ Promote \/ Crash
    /\ UNCHANGED <<source, site, file, cond, due>>

Next == Reconcile \/ Poll \/ World

Spec == Init /\ [][Next]_vars

-----------------------------------------------------------------------------
(* Properties.                                                             *)

\* "The presence of this file in the database container indicates the readiness
\* probe that the data is lagging behind": between two reconciles a Pod is unready
\* for its lag exactly while the condition says that the standby lags, and it is
\* the Pod of the primary, however the lag changes.  The operator restarts and
\* conflicts while file and condition agree, and no other Pod takes over from one
\* that has the file: the words "late" and "failover" lift these two limits.
LagSignal ==
    s.pc = "idle" =>
        /\ (file # {}) = (cond = "True")
        /\ primary # None => file \subseteq {primary}
=============================================================================
