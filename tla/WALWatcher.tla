----------------------------- MODULE WALWatcher -----------------------------
(***************************************************************************)
(* The goroutines that track the latest restorable time of the clusters:   *)
(* percona/watcher/wal.go, the registry in percona/utils/registry, and the *)
(* PerconaPGCluster reconciler that starts and stops them.  The reconciler *)
(* is one worker.  All watchers listen to one unbuffered stop channel, and *)
(* the reconciler sends on it only if some watcher is waiting right then;  *)
(* which one receives is not under its control.                            *)
(***************************************************************************)
EXTENDS Naturals, FiniteSets

CONSTANTS
    Clusters,   \* PerconaPGClusters: namespace and name
    Watchers,   \* bound: the goroutines that can run at the same time
    MaxEdits,   \* bound: how often users create, change or delete a cluster
    None,       \* no cluster
    Faults      \* "getError": a Get of a watcher may fail; "crash": restarts

ASSUME NoneAssumption == None \notin Clusters
ASSUME EditAssumption == MaxEdits \in Nat
ASSUME FaultAssumption == Faults \subseteq {"getError", "crash"}

VARIABLES
    cr,         \* the PerconaPGCluster objects
    registry,   \* the clusters whose watcher is registered
    run,        \* the goroutines: their cluster and where they are
    p,          \* the reconciler: its cluster and what it has read of it
    edits       \* what users did so far

vars == <<cr, registry, run, p, edits>>

\* track: trackLatestRestorableTime is true, the default; untracked: it is
\* false; unmanaged: spec.unmanaged, and no backup runs (the reconciler takes an
\* unmanaged cluster whose backup runs for a managed one); disabled: backups are
\* not enabled.
Modes == {"track", "untracked", "unmanaged", "disabled"}

Cluster == [life : {"absent", "live", "deleting"}, mode : Modes,
            fin : BOOLEAN]          \* finalizer stop-watchers

Absent == [life |-> "absent", mode |-> "track", fin |-> FALSE]

\* busy: between a tick and the next select.
Watcher == [c : Clusters \cup {None}, at : {"select", "busy"}]
Stopped == [c |-> None, at |-> "select"]

PIdle == [c |-> None, mode |-> "track"]
PDown == [c |-> None, mode |-> "down"]   \* the operator does not run

TypeOK ==
    /\ cr \in [Clusters -> Cluster]
    /\ registry \subseteq Clusters
    /\ run \in [Watchers -> Watcher]
    /\ p \in [c : Clusters \cup {None}, mode : Modes \cup {"down"}]
    /\ edits \in 0..MaxEdits

Init ==
    /\ cr = [c \in Clusters |-> Absent]
    /\ registry = {}
    /\ run = [g \in Watchers |-> Stopped]
    /\ p = PIdle
    /\ edits = 0

-----------------------------------------------------------------------------
(* Users.                                                                  *)

Edit == edits < MaxEdits /\ edits' = edits + 1

Create(c, m) ==
    /\ Edit /\ cr[c].life = "absent"
    /\ cr' = [cr EXCEPT ![c] = [life |-> "live", mode |-> m, fin |-> FALSE]]
    /\ UNCHANGED <<registry, run, p>>

\* A change of the spec, or the start or end of a backup of an unmanaged cluster.
SetMode(c, m) ==
    /\ Edit /\ cr[c].life = "live" /\ cr[c].mode # m
    /\ cr' = [cr EXCEPT ![c].mode = m]
    /\ UNCHANGED <<registry, run, p>>

Delete(c) ==
    /\ Edit /\ cr[c].life = "live"
    /\ cr' = [cr EXCEPT ![c].life = "deleting"]
    /\ UNCHANGED <<registry, run, p>>

\* The PostgresCluster and everything else is gone too.
Remove(c) ==
    /\ cr[c].life = "deleting" /\ ~cr[c].fin
    /\ cr' = [cr EXCEPT ![c] = Absent]
    /\ UNCHANGED <<registry, run, p, edits>>

-----------------------------------------------------------------------------
(* PGClusterReconciler.                                                    *)

\* The head of a reconcile, up to ensureFinalizers, which looks at the tracking
\* only: it may be set explicitly where backups are disabled.
PGet(c) ==
    /\ p = PIdle /\ cr[c].life = "live"
    /\ \/ /\ cr[c].mode \in {"track", "disabled"}
          /\ cr' = [cr EXCEPT ![c].fin = TRUE]
       \/ cr[c].mode # "track" /\ UNCHANGED cr
    /\ p' = [c |-> c, mode |-> cr[c].mode]
    /\ UNCHANGED <<registry, run, edits>>

\* The send on the stop channel: one of the watchers in their select receives
\* the event, and returns if the event is for its cluster; nobody receives it
\* when no watcher is there.
Receivers == {g \in Watchers : run[g].c # None /\ run[g].at = "select"}

SendStop(c) ==
    \/ \E g \in Receivers : run' = IF run[g].c = c THEN [run EXCEPT ![g] = Stopped]
                                                   ELSE run
    \/ Receivers = {} /\ UNCHANGED run

\* Mutant: a registered watcher is left in the registry.
stopWALWatcherKeeps(c) ==
    \/ c \in registry /\ SendStop(c) /\ UNCHANGED registry
    \/ c \notin registry /\ UNCHANGED <<run, registry>>

stopWALWatcher(c) ==
    \/ c \in registry /\ SendStop(c) /\ registry' = registry \ {c}
    \/ c \notin registry /\ UNCHANGED <<run, registry>>

startExternalWatchers(c) ==
    \/ /\ c \notin registry
       /\ \E g \in Watchers : run[g] = Stopped
                              /\ run' = [run EXCEPT ![g] = [c |-> c, at |-> "select"]]
       /\ registry' = registry \cup {c}
    \/ c \in registry /\ UNCHANGED <<run, registry>>

\* The rest of the reconcile: reconcileExternalWatchers, or the early return of
\* an unmanaged cluster.  Disabled backups leave the watcher as it is.
PWatch ==
    /\ p.c # None
    /\ \/ p.mode = "track" /\ startExternalWatchers(p.c)
       \/ p.mode \in {"untracked", "unmanaged"} /\ stopWALWatcher(p.c)
       \/ p.mode = "disabled" /\ UNCHANGED <<run, registry>>
    /\ p' = PIdle
    /\ UNCHANGED <<cr, edits>>

\* Mutant: the finalizer clears the registry of nobody.
PFinalizeKeeps(c) ==
    /\ p = PIdle /\ cr[c].life = "deleting" /\ cr[c].fin
    /\ SendStop(c)
    /\ cr' = [cr EXCEPT ![c].fin = FALSE]
    /\ UNCHANGED <<p, registry, edits>>

\* The finalizer stop-watchers of a deleted cluster removes every name of the
\* registry.
PFinalize(c) ==
    /\ p = PIdle /\ cr[c].life = "deleting" /\ cr[c].fin
    /\ SendStop(c)
    /\ registry' = {}
    /\ cr' = [cr EXCEPT ![c].fin = FALSE]
    /\ UNCHANGED <<p, edits>>

-----------------------------------------------------------------------------
(* watchCommitTimestamps.                                                  *)

\* Mutant: a missing cluster is skipped like one without backups.
TickSkips(g) ==
    /\ run[g].c # None /\ run[g].at = "select"
    /\ run' = [run EXCEPT ![g].at =
                 IF cr[run[g].c].life = "absent" \/ cr[run[g].c].mode = "disabled"
                 THEN "select" ELSE "busy"]
    /\ UNCHANGED <<cr, registry, p, edits>>

\* Every ten seconds the watcher reads the cluster, and returns if that fails.
Tick(g) ==
    /\ run[g].c # None /\ run[g].at = "select"
    /\ \/ /\ cr[run[g].c].life = "absent" \/ "getError" \in Faults
          /\ run' = [run EXCEPT ![g] = Stopped]
       \/ /\ cr[run[g].c].life # "absent" /\ cr[run[g].c].mode # "disabled"
          /\ run' = [run EXCEPT ![g].at = "busy"]
       \/ cr[run[g].c].life # "absent" /\ cr[run[g].c].mode = "disabled"
          /\ UNCHANGED run
    /\ UNCHANGED <<cr, registry, p, edits>>

\* It has read the timestamp in the primary's Pod and sent the latest backup to
\* the backup reconciler, or there was nothing to send.
Tock(g) ==
    /\ run[g].at = "busy"
    /\ run' = [run EXCEPT ![g].at = "select"]
    /\ UNCHANGED <<cr, registry, p, edits>>

\* The operator's process ends; another one starts with an empty registry and no
\* goroutine.
Crash ==
    /\ "crash" \in Faults
    /\ p # PDown /\ (registry # {} \/ p # PIdle)
    /\ registry' = {}
    /\ run' = [g \in Watchers |-> Stopped]
    /\ p' = PDown
    /\ UNCHANGED <<cr, edits>>

Restart ==
    /\ p = PDown
    /\ p' = PIdle
    /\ UNCHANGED <<cr, registry, run, edits>>

Next ==
    \/ \E c \in Clusters, m \in Modes : Create(c, m) \/ SetMode(c, m)
    \/ \E c \in Clusters : Delete(c) \/ Remove(c) \/ PGet(c) \/ PFinalize(c)
    \/ PWatch
    \/ \E g \in Watchers : Tick(g) \/ Tock(g)
    \/ Crash \/ Restart

Spec == Init /\ [][Next]_vars

\* Every cluster is reconciled again and again (the operator watches its objects
\* and resynchronises), a watcher's ticker fires and its work ends, and a deleted
\* cluster is removed.  The operator is not restarted for ever.
Fairness ==
    /\ WF_vars(PWatch) /\ WF_vars(Restart)
    /\ \A c \in Clusters : SF_vars(PGet(c)) /\ SF_vars(PFinalize(c)) /\ WF_vars(Remove(c))
    /\ \A g \in Watchers : WF_vars(Tick(g)) /\ WF_vars(Tock(g))
    /\ <>[][~Crash]_vars

FairSpec == Spec /\ Fairness

-----------------------------------------------------------------------------
(* Properties.                                                             *)

Running(c) == {g \in Watchers : run[g].c = c}

\* The registry never outlives the cluster: a registered cluster exists and
\* carries the finalizer that will clear its name, also when the cluster is
\* deleted between the read and the start of its watcher.
RegisteredIsGuarded ==
    \A c \in registry : cr[c].life # "absent" /\ cr[c].fin

\* What keeps the registry guarded: the reconciler is about to start a watcher
\* only for a cluster that carries the finalizer, which nobody removes before.
StartIsGuarded ==
    p.c # None /\ p.mode = "track" => cr[p.c].life # "absent" /\ cr[p.c].fin

\* Tracking does not stop silently: a cluster with tracking on, while nobody
\* changes it, has a watcher again and again, although stop events reach the
\* wrong watcher or nobody and another cluster's deletion clears the registry.
TrackedIsWatched ==
    \A c \in Clusters :
        cr[c].life = "live" /\ cr[c].mode = "track"
            ~> \/ Running(c) # {}
               \/ ~(cr[c].life = "live" /\ cr[c].mode = "track")

\* No watcher outlives its cluster for ever, even if its stop event was lost.
GoneIsUnwatched ==
    \A c \in Clusters :
        cr[c].life = "absent" ~> cr[c].life # "absent" \/ Running(c) = {}
=============================================================================
