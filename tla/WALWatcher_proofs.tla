-------------------------- MODULE WALWatcher_proofs --------------------------
(***************************************************************************)
(* The registry of watchers never outlives the clusters, for any number of *)
(* clusters, watchers and edits.  RegisteredIsGuarded is not inductive: a  *)
(* watcher is started on what the reconcile read earlier, so StartIsGuarded*)
(* has to say that the finalizer seen then is still there.                 *)
(***************************************************************************)
EXTENDS WALWatcher, TLAPS

WatcherInv == TypeOK /\ RegisteredIsGuarded /\ StartIsGuarded

\* Initially nothing is registered and nothing is being reconciled.
LEMMA WatcherInit == Init => WatcherInv
  BY NoneAssumption, EditAssumption
  DEF Init, WatcherInv, TypeOK, RegisteredIsGuarded, StartIsGuarded, Cluster, Absent,
      Watcher, Stopped, PIdle, Modes

\* A send on the stop channel changes the goroutines and keeps their type.
LEMMA SendStopType ==
    ASSUME TypeOK, NEW c \in Clusters, SendStop(c)
    PROVE  run' \in [Watchers -> Watcher]
  BY DEF TypeOK, SendStop, Receivers, Watcher, Stopped

\* No step of a user, of the reconciler, of a watcher or a restart breaks the
\* invariant.
LEMMA WatcherStep == WatcherInv /\ [Next]_vars => WatcherInv'
<1> SUFFICES ASSUME WatcherInv, [Next]_vars PROVE WatcherInv'
  OBVIOUS
<1> USE DEF WatcherInv
<1>1. CASE UNCHANGED vars
  BY <1>1 DEF vars, TypeOK, RegisteredIsGuarded, StartIsGuarded
<1>2. ASSUME NEW c \in Clusters, NEW m \in Modes, Create(c, m) PROVE WatcherInv'
  <2>1. /\ cr' = [cr EXCEPT ![c] = [life |-> "live", mode |-> m, fin |-> FALSE]]
        /\ UNCHANGED <<registry, run, p>>
        /\ cr[c].life = "absent"
    BY <1>2 DEF Create
  <2>2. TypeOK'
    <3>1. edits' \in 0..MaxEdits
      BY <1>2, EditAssumption DEF Create, Edit, TypeOK
    <3> QED
      BY <2>1, <3>1 DEF TypeOK, Cluster
  <2>3. RegisteredIsGuarded' /\ StartIsGuarded'
    BY <2>1 DEF TypeOK, RegisteredIsGuarded, StartIsGuarded
  <2> QED
    BY <2>2, <2>3
<1>3. ASSUME NEW c \in Clusters, NEW m \in Modes, SetMode(c, m) PROVE WatcherInv'
  BY <1>3, EditAssumption
  DEF SetMode, Edit, TypeOK, RegisteredIsGuarded, StartIsGuarded, Cluster
<1>4. ASSUME NEW c \in Clusters, Delete(c) PROVE WatcherInv'
  BY <1>4, EditAssumption
  DEF Delete, Edit, TypeOK, RegisteredIsGuarded, StartIsGuarded, Cluster
<1>5. ASSUME NEW c \in Clusters, Remove(c) PROVE WatcherInv'
  BY <1>5
  DEF Remove, TypeOK, RegisteredIsGuarded, StartIsGuarded, Cluster, Absent, Modes
<1>6. ASSUME NEW c \in Clusters, PGet(c) PROVE WatcherInv'
  <2>0. cr' = cr \/ cr' = [cr EXCEPT ![c].fin = TRUE]
    BY <1>6 DEF PGet
  <2>1. cr' \in [Clusters -> Cluster] /\ \A d \in Clusters :
            cr'[d].life = cr[d].life /\ (cr[d].fin => cr'[d].fin)
    <3>1. CASE cr' = cr
      BY <3>1 DEF TypeOK
    <3>2. CASE cr' = [cr EXCEPT ![c].fin = TRUE]
      BY <3>2 DEF TypeOK, Cluster
    <3> QED
      BY <2>0, <3>1, <3>2
  <2>2. /\ p' = [c |-> c, mode |-> cr[c].mode] /\ cr[c].mode \in Modes
        /\ cr[c].mode = "track" => cr' = [cr EXCEPT ![c].fin = TRUE]
    BY <1>6 DEF PGet, TypeOK, Cluster
  <2>3. TypeOK'
    BY <1>6, <2>1, <2>2 DEF PGet, TypeOK
  <2>4. RegisteredIsGuarded'
    BY <1>6, <2>1 DEF PGet, TypeOK, RegisteredIsGuarded
  <2>5. StartIsGuarded'
    BY <1>6, <2>1, <2>2 DEF PGet, TypeOK, Cluster, StartIsGuarded
  <2> QED
    BY <2>3, <2>4, <2>5
<1>7. ASSUME NEW c \in Clusters, PFinalize(c) PROVE WatcherInv'
  <2>1. run' \in [Watchers -> Watcher]
    BY <1>7, SendStopType DEF PFinalize
  <2> QED
    BY <1>7, <2>1
    DEF PFinalize, PIdle, TypeOK, RegisteredIsGuarded, StartIsGuarded, Cluster
<1>8. CASE PWatch
  <2>1. StartIsGuarded'
    BY <1>8 DEF PWatch, PIdle, StartIsGuarded
  <2>2. p.c \in Clusters /\ p' \in [c : Clusters \cup {None}, mode : Modes \cup {"down"}]
        /\ cr' = cr /\ edits' = edits
    BY <1>8 DEF PWatch, TypeOK, PIdle, Modes
  <2>3. CASE p.mode = "track" /\ startExternalWatchers(p.c)
    <3>1. run' \in [Watchers -> Watcher]
      BY <2>2, <2>3 DEF startExternalWatchers, TypeOK, Watcher
    <3>2. registry' \subseteq registry \cup {p.c}
      BY <2>3 DEF startExternalWatchers
    <3>3. cr[p.c].life # "absent" /\ cr[p.c].fin
      BY <2>2, <2>3, NoneAssumption DEF StartIsGuarded
    <3> QED
      BY <2>1, <2>2, <3>1, <3>2, <3>3 DEF TypeOK, RegisteredIsGuarded
  <2>4. CASE p.mode \in {"untracked", "unmanaged"} /\ stopWALWatcher(p.c)
    <3>1. run' \in [Watchers -> Watcher]
      BY <2>2, <2>4, SendStopType DEF stopWALWatcher, TypeOK
    <3>2. registry' \subseteq registry
      BY <2>4 DEF stopWALWatcher
    <3> QED
      BY <2>1, <2>2, <3>1, <3>2 DEF TypeOK, RegisteredIsGuarded
  <2>5. CASE p.mode = "disabled" /\ UNCHANGED <<run, registry>>
    BY <2>1, <2>2, <2>5 DEF TypeOK, RegisteredIsGuarded
  <2> QED
    BY <1>8, <2>3, <2>4, <2>5 DEF PWatch
<1>9. ASSUME NEW g \in Watchers, Tick(g) PROVE WatcherInv'
  BY <1>9
  DEF Tick, TypeOK, RegisteredIsGuarded, StartIsGuarded, Watcher, Stopped
<1>10. ASSUME NEW g \in Watchers, Tock(g) PROVE WatcherInv'
  BY <1>10
  DEF Tock, TypeOK, RegisteredIsGuarded, StartIsGuarded, Watcher
<1>11. CASE Crash
  BY <1>11
  DEF Crash, TypeOK, RegisteredIsGuarded, StartIsGuarded, Watcher, Stopped, PDown, Modes
<1>12. CASE Restart
  BY <1>12
  DEF Restart, TypeOK, RegisteredIsGuarded, StartIsGuarded, PIdle, Modes
<1> QED
  BY <1>1, <1>2, <1>3, <1>4, <1>5, <1>6, <1>7, <1>8, <1>9, <1>10, <1>11, <1>12
  DEF Next

\* The reconciler's registry and the finalizers of the clusters stay in step in
\* every behaviour of the operator.
THEOREM WatcherInvariant == Spec => []WatcherInv
  BY WatcherInit, WatcherStep, PTL DEF Spec

\* A registered cluster exists and carries the finalizer stop-watchers, so
\* startExternalWatchers never skips a cluster because of a name left behind by
\* a deleted one.
THEOREM WatcherRegistryGuarded == Spec => []RegisteredIsGuarded
  BY WatcherInvariant, PTL DEF WatcherInv
=============================================================================
