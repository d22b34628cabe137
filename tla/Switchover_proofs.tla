-------------------------- MODULE Switchover_proofs --------------------------
(***************************************************************************)
(* A request for a switchover moves the leader at most once, for any       *)
(* number of members and any faults.                                       *)
(***************************************************************************)
EXTENDS Switchover, TLAPS

-----------------------------------------------------------------------------
(* Types.                                                                  *)
Asks == [enabled : BOOLEAN, id : Requests \union {Nil}, target : Members \union {Nil},
         type : {"Switchover", "Failover"}]
Answers == [done : Requests \union {Nil}, timeline : Nat]
Clusters == [ask : Asks, status : Answers, conf : {0, 1}]
Busy == [pc : {"switchover", "act", "configure", "restart", "patch", "failed"}, ask : Asks,
         conf : {0, 1}, before : Answers, status : Answers, pending : SUBSET Members,
         leader : Members]

SwitchoverTypes ==
    /\ ask \in Asks /\ patroni \in Answers /\ conf \in {0, 1} /\ cached \in Clusters
    /\ leader \in Members /\ timeline \in Nat \ {0} /\ pending \in SUBSET Members
    /\ performed \in [Requests -> {0, 1}]
    /\ sw = [pc |-> "idle"] \/ sw \in Busy

Reading == sw.pc # "idle"

-----------------------------------------------------------------------------
(* The stages of the requests.                                             *)

\* How far a cluster is, seen by its request and its status: no request; the first
\* one is asked for, the timeline before it is remembered, it is answered; the same
\* for the second one.
Stage(a, st) ==
    IF a.id = Nil THEN 0
    ELSE IF a.id = 1 THEN IF st.done = 1 THEN 3 ELSE IF st.timeline # 0 THEN 2 ELSE 1
    ELSE IF st.done = 2 THEN 6 ELSE IF st.timeline # 0 THEN 5 ELSE 4

\* A request and a status that were read together belong to one of the stages.
Sound(a, st) ==
    /\ a \in Asks /\ st \in Answers
    /\ ~a.enabled => a.id = Nil
    /\ a.id = Nil => st.done = Nil /\ st.timeline = 0
    /\ a.id = 1 => st.done \in {Nil, 1} /\ (st.done = 1 => st.timeline = 0)
    /\ a.id = 2 => st.done \in {1, 2} /\ (st.done = 2 => st.timeline = 0)

\* What the operator knows is not too old when the cluster is at stage y: only a
\* reconcile that has read the remembered timeline answers a request, and only one
\* that has read the request remembers the timeline for it.
Near(x, y) ==
    /\ x <= y
    /\ y >= 2 => x >= 1
    /\ y >= 3 => x >= 2
    /\ y >= 5 => x >= 4
    /\ y = 6 => x >= 5

\* Who reads it can tell whether the switchover has happened: then the request is
\* answered or the timeline that was remembered is an old one.
Tells(a, st) ==
    /\ st.timeline <= timeline
    /\ performed[1] = 1 => Stage(a, st) >= 2 /\ (Stage(a, st) = 2 => st.timeline < timeline)
    /\ performed[2] = 1 => Stage(a, st) >= 5 /\ (Stage(a, st) = 5 => st.timeline < timeline)

\* The cluster, the cache and the reconcile are at a stage each, in this order and
\* not too far apart.
StagesTrue ==
    /\ Sound(ask, patroni) /\ Sound(cached.ask, cached.status)
    /\ Near(Stage(cached.ask, cached.status), Stage(ask, patroni))
    /\ Reading => /\ Sound(sw.ask, sw.before)
                  /\ Near(Stage(sw.ask, sw.before), Stage(ask, patroni))
                  /\ Stage(sw.ask, sw.before) <= Stage(cached.ask, cached.status)

EveryoneTells ==
    /\ Tells(ask, patroni) /\ Tells(cached.ask, cached.status)
    /\ Reading => Tells(sw.ask, sw.before)

Same(x, y) == x.done = y.done /\ x.timeline = y.timeline

\* A reconcile has made nothing of the status that it read, or brings it to the next
\* stage.  It calls Patroni for a request that was not carried out before.
NextStage(a, old, new) ==
    /\ Stage(a, old) \in {1, 2, 4, 5}
    /\ Sound(a, new) /\ new.timeline <= timeline
    /\ Stage(a, new) = Stage(a, old) + 1

Advances ==
    Reading =>
        /\ Same(sw.status, sw.before) \/ NextStage(sw.ask, sw.before, sw.status)
        /\ sw.pc \in {"switchover", "act", "failed"} => Same(sw.status, sw.before)
        /\ sw.pc = "act" =>
             /\ Stage(sw.ask, sw.before) \in {2, 5} /\ performed[sw.ask.id] = 0

SwitchoverInv == SwitchoverTypes /\ StagesTrue /\ EveryoneTells /\ Advances

-----------------------------------------------------------------------------
(* Lemmas.                                                                 *)

\* What a stage says of the request and the status.
LEMMA StageFields ==
    ASSUME Nil \notin Requests, NEW a, NEW st, Sound(a, st)
    PROVE  /\ Stage(a, st) \in 0..6
           /\ Stage(a, st) = 0 <=> a.id = Nil
           /\ Stage(a, st) = 1 <=> a.id = 1 /\ st.done = Nil /\ st.timeline = 0
           /\ Stage(a, st) = 2 <=> a.id = 1 /\ st.done = Nil /\ st.timeline # 0
           /\ Stage(a, st) = 3 <=> a.id = 1 /\ st.done = 1 /\ st.timeline = 0
           /\ Stage(a, st) = 4 <=> a.id = 2 /\ st.done = 1 /\ st.timeline = 0
           /\ Stage(a, st) = 5 <=> a.id = 2 /\ st.done = 1 /\ st.timeline # 0
           /\ Stage(a, st) = 6 <=> a.id = 2 /\ st.done = 2 /\ st.timeline = 0
           /\ st.timeline \in Nat /\ a.id \in {Nil, 1, 2} /\ a \in Asks /\ st \in Answers
BY DEF Stage, Sound, Requests, Asks, Answers

\* A status that is one of the stages of a request.
LEMMA SoundFields ==
    ASSUME Nil \notin Requests, NEW a \in Asks, NEW st \in Answers, a.enabled,
           \/ a.id = 1 /\ st.done = Nil
           \/ a.id = 1 /\ st.done = 1 /\ st.timeline = 0
           \/ a.id = 2 /\ st.done = 1
           \/ a.id = 2 /\ st.done = 2 /\ st.timeline = 0
    PROVE  Sound(a, st)
BY DEF Sound, Requests

\* The same of the next state, for what was read in this one.
TellsAfter(a, st) ==
    /\ st.timeline <= timeline'
    /\ performed'[1] = 1 => Stage(a, st) >= 2 /\ (Stage(a, st) = 2 => st.timeline < timeline')
    /\ performed'[2] = 1 => Stage(a, st) >= 5 /\ (Stage(a, st) = 5 => st.timeline < timeline')

\* With time everyone who could tell still can.
LEMMA TellsLater ==
    ASSUME SwitchoverTypes, NEW a, NEW st, Sound(a, st), Nil \notin Requests,
           Tells(a, st), timeline' \in Nat, timeline' >= timeline, performed' = performed
    PROVE  TellsAfter(a, st)
BY StageFields DEF Tells, TellsAfter, SwitchoverTypes

\* The status that the merge patch leaves behind.
LEMMA PatchedFields ==
    ASSUME SwitchoverTypes, Reading
    PROVE  /\ Patched \in Answers
           /\ Patched.done = IF sw.status.done # sw.before.done THEN sw.status.done ELSE patroni.done
           /\ Patched.timeline = IF sw.status.timeline # sw.before.timeline
                                 THEN sw.status.timeline ELSE patroni.timeline
<1>1. sw \in Busy
  BY DEF SwitchoverTypes, Reading
<1>2. /\ sw.status.done \in Requests \union {Nil} /\ sw.status.timeline \in Nat
      /\ patroni.done \in Requests \union {Nil} /\ patroni.timeline \in Nat
  BY <1>1 DEF SwitchoverTypes, Busy, Answers
<1> QED BY <1>2 DEF Patched, Answers

\* A verdict changes nothing or leads to the next stage, and Patroni is asked for
\* a switchover only if it has not happened.
LEMMA DecisionAdvances ==
    ASSUME Nil \notin Requests, SwitchoverInv, DecideSwitchover
    PROVE  /\ sw' \in Busy /\ sw'.pc \in {"act", "failed", "configure"}
           /\ sw'.ask = sw.ask /\ sw'.before = sw.before
           /\ Same(sw'.status, sw.before) \/ NextStage(sw.ask, sw.before, sw'.status)
           /\ sw'.pc \in {"act", "failed"} => Same(sw'.status, sw.before)
           /\ sw'.pc = "act" => /\ Stage(sw.ask, sw.before) \in {2, 5}
                                /\ performed[sw.ask.id] = 0
<1>0. SwitchoverTypes /\ StagesTrue /\ EveryoneTells /\ Advances
  BY DEF SwitchoverInv
<1>1. sw \in Busy /\ sw.pc = "switchover" /\ Reading
  BY <1>0 DEF DecideSwitchover, SwitchoverTypes, Reading
<1>2. Sound(sw.ask, sw.before) /\ Tells(sw.ask, sw.before) /\ Same(sw.status, sw.before)
  BY <1>0, <1>1 DEF StagesTrue, EveryoneTells, Advances
<1>3. /\ sw.status \in Answers /\ sw.before \in Answers /\ timeline \in Nat \ {0}
      /\ sw.ask \in Asks
      /\ sw.ask.enabled \in BOOLEAN /\ sw.ask.id \in {Nil, 1, 2}
  BY <1>0, <1>1 DEF SwitchoverTypes, Busy, Asks, Requests
<1> DEFINE v == Verdict(sw.ask, sw.status, timeline)
           next == CASE v = "clear"    -> Unset
                     [] v = "forget"   -> [sw.status EXCEPT !.timeline = 0]
                     [] v = "remember" -> [sw.status EXCEPT !.timeline = timeline]
                     [] v = "assume"   -> [done |-> sw.ask.id, timeline |-> 0]
                     [] OTHER          -> sw.status
           pc == CASE v = "act" -> "act" [] v = "error" -> "failed" [] OTHER -> "configure"
<1>4. sw' = [sw EXCEPT !.status = next, !.pc = pc]
  BY DEF DecideSwitchover
<1>5. v \in {"clear", "forget", "error", "remember", "assume", "act"}
  BY DEF Verdict
<1>6. /\ next \in Answers
      /\ v = "clear" => next.done = Nil /\ next.timeline = 0
      /\ v = "forget" => next.done = sw.status.done /\ next.timeline = 0
      /\ v = "remember" => next.done = sw.status.done /\ next.timeline = timeline
      /\ v = "assume" => next.done = sw.ask.id /\ next.timeline = 0
      /\ v \in {"error", "act"} => next = sw.status
  <2>1. CASE v = "clear"
    BY <2>1 DEF Unset, Answers, Requests
  <2>2. CASE v = "forget"
    BY <2>2, <1>3 DEF Answers, Requests
  <2>3. CASE v = "remember"
    BY <2>3, <1>3 DEF Answers, Requests
  <2>4. CASE v = "assume"
    BY <2>4, <1>3 DEF Answers, Requests
  <2>5. CASE v \in {"error", "act"}
    BY <2>5, <1>3
  <2> QED BY <1>5, <2>1, <2>2, <2>3, <2>4, <2>5
<1>7. /\ v = "clear" => ~sw.ask.enabled
      /\ v # "clear" => sw.ask.enabled
      /\ v = "forget" => sw.ask.id = Nil \/ sw.status.done = sw.ask.id
      /\ v \notin {"clear", "forget"} => sw.ask.id # Nil /\ sw.status.done # sw.ask.id
      /\ v = "remember" => sw.status.timeline = 0
      /\ v = "assume" => sw.status.timeline # 0
      /\ v = "act" => sw.status.timeline # 0 /\ sw.status.timeline = timeline
  BY DEF Verdict, Answered
<1>8. pc \in {"act", "failed", "configure"} /\ (pc = "act" => v = "act")
      /\ (pc = "failed" => v = "error")
  BY <1>5
<1> HIDE DEF v, next, pc
<1>9. /\ sw' \in Busy /\ sw'.pc = pc /\ sw'.ask = sw.ask /\ sw'.before = sw.before
      /\ sw'.status = next
  BY <1>1, <1>4, <1>6, <1>8 DEF Busy
<1>10. v \in {"clear", "forget"} => Same(next, sw.before)
  BY <1>2, <1>3, <1>6, <1>7 DEF Same, Sound, Requests
<1>11. v \in {"error", "act"} => Same(next, sw.before)
  BY <1>2, <1>6
<1>12. v = "remember" => NextStage(sw.ask, sw.before, next)
  <2> SUFFICES ASSUME v = "remember" PROVE NextStage(sw.ask, sw.before, next)
    OBVIOUS
  <2>1. Stage(sw.ask, sw.before) \in {1, 4}
    BY <1>2, <1>3, <1>7, StageFields DEF Same
  <2>2. Sound(sw.ask, next)
    BY <1>2, <1>3, <1>6, <1>7, <2>1, StageFields, SoundFields DEF Same
  <2>3. next.timeline = timeline /\ next.timeline # 0 /\ next.done = sw.before.done
    BY <1>2, <1>3, <1>6 DEF Same
  <2>4. Stage(sw.ask, next) = Stage(sw.ask, sw.before) + 1
    BY <1>2, <2>1, <2>2, <2>3, StageFields
  <2> QED BY <1>3, <2>1, <2>2, <2>3, <2>4 DEF NextStage
<1>13. v = "assume" => NextStage(sw.ask, sw.before, next)
  <2> SUFFICES ASSUME v = "assume" PROVE NextStage(sw.ask, sw.before, next)
    OBVIOUS
  <2>1. Stage(sw.ask, sw.before) \in {2, 5}
    BY <1>2, <1>3, <1>7, StageFields DEF Same
  <2>2. Sound(sw.ask, next)
    BY <1>2, <1>3, <1>6, <1>7, <2>1, StageFields, SoundFields DEF Same
  <2>3. Stage(sw.ask, next) = Stage(sw.ask, sw.before) + 1
    BY <1>2, <1>6, <2>1, <2>2, StageFields
  <2> QED BY <1>3, <1>6, <2>1, <2>2, <2>3 DEF NextStage
<1>14. v = "act" => /\ Stage(sw.ask, sw.before) \in {2, 5}
                    /\ performed[sw.ask.id] = 0
  <2> SUFFICES ASSUME v = "act" PROVE Stage(sw.ask, sw.before) \in {2, 5} /\ performed[sw.ask.id] = 0
    OBVIOUS
  <2>1. Stage(sw.ask, sw.before) \in {2, 5}
    BY <1>2, <1>3, <1>7, StageFields DEF Same
  <2>2. sw.before.timeline = timeline
    BY <1>2, <1>7 DEF Same
  <2>3. performed[1] \in {0, 1} /\ performed[2] \in {0, 1}
    BY <1>0 DEF SwitchoverTypes, Requests
  <2>4. CASE Stage(sw.ask, sw.before) = 2
    BY <1>2, <1>3, <2>2, <2>3, <2>4, StageFields DEF Tells
  <2>5. CASE Stage(sw.ask, sw.before) = 5
    BY <1>2, <1>3, <2>2, <2>3, <2>5, StageFields DEF Tells
  <2> QED BY <2>1, <2>4, <2>5
<1> QED BY <1>5, <1>8, <1>9, <1>10, <1>11, <1>12, <1>13, <1>14

\* Every step keeps the types.
LEMMA TypesKept ==
    ASSUME Nil \notin Requests, SwitchoverInv, SwitchoverNext
    PROVE  SwitchoverTypes'
<1> USE DEF SwitchoverTypes
<1>0. SwitchoverTypes /\ Advances
  BY DEF SwitchoverInv
<1>b. Reading => sw \in Busy
  BY <1>0 DEF Reading
<1>1. CASE ReadPatroni
  <2>1. cached.ask \in Asks /\ cached.status \in Answers /\ cached.conf \in {0, 1}
    BY <1>0 DEF Clusters
  <2>2. sw' \in Busy
    BY <1>0, <1>1, <2>1 DEF ReadPatroni, Busy
  <2> QED BY <1>0, <1>1, <2>2 DEF ReadPatroni, world
<1>2. CASE DecideSwitchover
  <2>1. sw' \in Busy
    BY <1>2, DecisionAdvances
  <2> QED BY <1>0, <1>2, <2>1 DEF DecideSwitchover, world
<1>3. CASE CallPatroni
  <2>1. sw \in Busy /\ sw.pc = "act" /\ sw.ask.id \in Requests \union {Nil}
    BY <1>3, <1>b DEF CallPatroni, Reading, Busy, Asks
  <2>2. performed[sw.ask.id] = 0 /\ Stage(sw.ask, sw.before) \in {2, 5}
    BY <1>0, <2>1 DEF Advances, Reading
  <2>3. sw.ask.id \in Requests
    BY <2>1, <2>2 DEF Stage
  <2>4. [done |-> sw.ask.id, timeline |-> 0] \in Answers
    BY <2>3 DEF Answers
  <2>5. sw' \in Busy
    <3>1. sw' = [sw EXCEPT !.pc = "failed"]
          \/ sw' = [sw EXCEPT !.pc = "configure", !.status = [done |-> sw.ask.id, timeline |-> 0]]
      BY <1>3 DEF CallPatroni
    <3> QED BY <2>1, <2>4, <3>1 DEF Busy
  <2>6. performed' \in [Requests -> {0, 1}]
    BY <1>0, <1>3, <2>2, <2>3 DEF CallPatroni
  <2>7. leader' \in Members /\ timeline' \in Nat \ {0}
    BY <1>0, <1>3 DEF CallPatroni, Move
  <2> QED BY <1>0, <1>3, <2>5, <2>6, <2>7 DEF CallPatroni
<1>4. CASE Configure
  BY <1>0, <1>b, <1>4 DEF Configure, Busy, Reading
<1>5. CASE Restart
  BY <1>0, <1>b, <1>5 DEF Restart, Busy, Reading
<1>6. CASE PatchPatroni
  <2>1. Patched \in Answers
    BY <1>0, <1>6, PatchedFields DEF PatchPatroni, Reading
  <2> QED BY <1>0, <1>6, <2>1 DEF PatchPatroni, world
<1>7. CASE CacheSync
  BY <1>0, <1>7 DEF CacheSync, world, Cluster, Clusters
<1>8. CASE User
  <2>1. ask' \in Asks /\ conf' \in {0, 1}
    BY <1>0, <1>8 DEF User, Asks, Requests
  <2> QED BY <1>0, <1>8, <2>1 DEF User
<1>9. CASE SwitchoverCrash
  BY <1>0, <1>9 DEF SwitchoverCrash, world, Cluster, Clusters
<1>10. CASE Failover
  BY <1>0, <1>10 DEF Failover, Move
<1> QED BY <1>1, <1>2, <1>3, <1>4, <1>5, <1>6, <1>7, <1>8, <1>9, <1>10 DEF SwitchoverNext, ReconcilePatroni

\* The merge patch leaves the cluster at its stage or brings it to the stage that the
\* reconcile has reached.
LEMMA PatchAdvances ==
    ASSUME Nil \notin Requests, SwitchoverInv, Reading
    PROVE  /\ Sound(ask, Patched) /\ Patched.timeline <= timeline
           /\ \/ Same(Patched, patroni)
              \/ /\ NextStage(sw.ask, sw.before, sw.status)
                 /\ Stage(ask, Patched) \in {Stage(ask, patroni), Stage(sw.ask, sw.status)}
                 /\ Stage(ask, Patched) >= Stage(ask, patroni)
                 /\ Stage(ask, Patched) \in {2, 5} => Stage(sw.ask, sw.before) \in {1, 4}
<1>0. SwitchoverTypes /\ StagesTrue /\ EveryoneTells /\ Advances
  BY DEF SwitchoverInv
<1>1. /\ Patched \in Answers
      /\ Patched.done = IF sw.status.done # sw.before.done THEN sw.status.done ELSE patroni.done
      /\ Patched.timeline = IF sw.status.timeline # sw.before.timeline
                            THEN sw.status.timeline ELSE patroni.timeline
  BY <1>0, PatchedFields
<1>2. /\ Sound(ask, patroni) /\ Sound(sw.ask, sw.before)
      /\ Near(Stage(sw.ask, sw.before), Stage(ask, patroni))
      /\ patroni.timeline <= timeline
      /\ timeline \in Nat
  BY <1>0 DEF StagesTrue, EveryoneTells, Tells, SwitchoverTypes
<1> HIDE DEF Patched
<1>3. CASE Same(sw.status, sw.before)
  <2>1. Patched.done = patroni.done /\ Patched.timeline = patroni.timeline
    BY <1>1, <1>3 DEF Same
  <2> QED BY <1>1, <1>2, <2>1 DEF Same, Sound
<1>4. CASE NextStage(sw.ask, sw.before, sw.status)
  <2> DEFINE b == Stage(sw.ask, sw.before)
             x == Stage(ask, patroni)
  <2>1. /\ b \in {1, 2, 4, 5} /\ Sound(sw.ask, sw.status) /\ Stage(sw.ask, sw.status) = b + 1
        /\ sw.status.timeline <= timeline
    BY <1>4 DEF NextStage
  <2>2. x \in 0..6
    BY <1>2, StageFields
  <2>3. \/ b = 1 /\ x \in {1, 2}
        \/ b = 2 /\ x \in {2, 3, 4}
        \/ b = 4 /\ x \in {4, 5}
        \/ b = 5 /\ x \in {5, 6}
    BY <1>2, <2>1, <2>2 DEF Near
  <2>4. ask \in Asks /\ ask.enabled
    BY <1>2, <2>3, StageFields DEF Sound, Asks
  <2>5. CASE b = 1
    <3>1. Patched.done = Nil /\ Patched.timeline = sw.status.timeline /\ ask.id = 1
          /\ Patched.timeline # 0
      BY <1>1, <1>2, <2>1, <2>3, <2>5, StageFields
    <3>2. Sound(ask, Patched)
      BY <1>1, <2>4, <3>1, SoundFields
    <3>3. Stage(ask, Patched) = 2
      BY <3>1, <3>2, StageFields
    <3> QED BY <1>4, <2>1, <2>3, <2>5, <3>1, <3>2, <3>3
  <2>6. CASE b = 2
    <3>1. Patched.done = 1 /\ Patched.timeline = 0 /\ ask.id \in {1, 2}
      BY <1>1, <1>2, <2>1, <2>3, <2>6, StageFields
    <3>2. Sound(ask, Patched)
      BY <1>1, <2>4, <3>1, SoundFields
    <3>3. Stage(ask, Patched) \in {3, 4} /\ (x = 4 => Stage(ask, Patched) = 4)
          /\ (x # 4 => Stage(ask, Patched) = 3)
      BY <1>2, <2>3, <2>6, <3>1, <3>2, StageFields
    <3> QED BY <1>2, <1>4, <2>1, <2>3, <2>6, <3>1, <3>2, <3>3
  <2>7. CASE b = 4
    <3>1. Patched.done = 1 /\ Patched.timeline = sw.status.timeline /\ ask.id = 2
          /\ Patched.timeline # 0
      BY <1>1, <1>2, <2>1, <2>3, <2>7, StageFields
    <3>2. Sound(ask, Patched)
      BY <1>1, <2>4, <3>1, SoundFields
    <3>3. Stage(ask, Patched) = 5
      BY <3>1, <3>2, StageFields
    <3> QED BY <1>4, <2>1, <2>3, <2>7, <3>1, <3>2, <3>3
  <2>8. CASE b = 5
    <3>1. Patched.done = 2 /\ Patched.timeline = 0 /\ ask.id = 2
      BY <1>1, <1>2, <2>1, <2>3, <2>8, StageFields
    <3>2. Sound(ask, Patched)
      BY <1>1, <2>4, <3>1, SoundFields
    <3>3. Stage(ask, Patched) = 6
      BY <3>1, <3>2, StageFields
    <3> QED BY <1>2, <1>4, <2>1, <2>3, <2>8, <3>1, <3>2, <3>3
  <2> QED BY <2>1, <2>5, <2>6, <2>7, <2>8
<1> QED BY <1>0, <1>3, <1>4 DEF Advances

\* Every step keeps the stages in order and everyone able to tell.
LEMMA StagesKept ==
    ASSUME Nil \notin Requests, SwitchoverInv, SwitchoverNext
    PROVE  StagesTrue' /\ EveryoneTells' /\ Advances'
<1>0. SwitchoverTypes /\ StagesTrue /\ EveryoneTells /\ Advances
  BY DEF SwitchoverInv
<1>b. Reading => sw \in Busy
  BY <1>0 DEF SwitchoverTypes, Reading
<1>n. /\ timeline \in Nat \ {0} /\ performed[1] \in {0, 1} /\ performed[2] \in {0, 1}
  BY <1>0 DEF SwitchoverTypes, Requests
<1>s. /\ Stage(ask, patroni) \in 0..6 /\ Stage(cached.ask, cached.status) \in 0..6
      /\ Reading => Stage(sw.ask, sw.before) \in 0..6
  BY <1>0, StageFields DEF StagesTrue
<1>1. CASE ReadPatroni
  <2>1. /\ sw'.pc = "switchover" /\ sw'.ask = cached.ask /\ sw'.before = cached.status
        /\ sw'.status = cached.status
        /\ UNCHANGED <<ask, patroni, cached, timeline, performed>>
    BY <1>1 DEF ReadPatroni, world
  <2>2. StagesTrue'
    BY <1>0, <1>s, <2>1 DEF StagesTrue, Sound, Stage
  <2>3. EveryoneTells'
    BY <1>0, <2>1 DEF EveryoneTells, Tells, Stage
  <2>4. Advances'
    BY <2>1 DEF Advances, Same
  <2> QED BY <2>2, <2>3, <2>4
<1>2. CASE DecideSwitchover
  <2>1. /\ sw'.pc \in {"act", "failed", "configure"}
        /\ sw'.ask = sw.ask /\ sw'.before = sw.before
        /\ Same(sw'.status, sw.before) \/ NextStage(sw.ask, sw.before, sw'.status)
        /\ sw'.pc \in {"act", "failed"} => Same(sw'.status, sw.before)
        /\ sw'.pc = "act" => /\ Stage(sw.ask, sw.before) \in {2, 5}
                             /\ performed[sw.ask.id] = 0
    BY <1>2, DecisionAdvances
  <2>2. UNCHANGED <<ask, patroni, cached, timeline, performed>> /\ Reading
    BY <1>2 DEF DecideSwitchover, world, Reading
  <2>3. StagesTrue'
    BY <1>0, <2>1, <2>2 DEF StagesTrue, Sound, Stage, Reading
  <2>4. EveryoneTells'
    BY <1>0, <2>1, <2>2 DEF EveryoneTells, Tells, Stage, Reading
  <2>5. Advances'
    BY <2>1, <2>2 DEF Advances, Same, NextStage, Sound, Stage
  <2> QED BY <2>3, <2>4, <2>5
<1>3. CASE CallPatroni
  <2>1. sw \in Busy /\ sw.pc = "act" /\ Reading
    BY <1>3, <1>b DEF CallPatroni, Reading
  <2>2. /\ Stage(sw.ask, sw.before) \in {2, 5} /\ performed[sw.ask.id] = 0
        /\ Same(sw.status, sw.before) /\ Sound(sw.ask, sw.before)
        /\ Near(Stage(sw.ask, sw.before), Stage(ask, patroni))
        /\ Stage(sw.ask, sw.before) <= Stage(cached.ask, cached.status)
    BY <1>0, <2>1 DEF Advances, StagesTrue
  <2>3. sw.ask.id \in {1, 2} /\ (Stage(sw.ask, sw.before) = 2 => sw.ask.id = 1)
        /\ (Stage(sw.ask, sw.before) = 5 => sw.ask.id = 2) /\ sw.ask \in Asks /\ sw.ask.enabled
    BY <2>2, StageFields DEF Sound, Asks
  <2>4. UNCHANGED <<ask, patroni, cached>>
    BY <1>3 DEF CallPatroni
  <2> DEFINE ans == [done |-> sw.ask.id, timeline |-> 0]
  <2>5. \/ /\ timeline' = timeline + 1
           /\ performed' = [performed EXCEPT ![sw.ask.id] = @ + 1]
           /\ sw' = [sw EXCEPT !.pc = "configure", !.status = ans] \/ sw' = [sw EXCEPT !.pc = "failed"]
        \/ sw' = [sw EXCEPT !.pc = "failed"] /\ UNCHANGED <<timeline, performed>>
    BY <1>3 DEF CallPatroni, Move
  <2>6. /\ sw'.ask = sw.ask /\ sw'.before = sw.before /\ sw'.pc \in {"configure", "failed"}
        /\ sw'.pc = "failed" => sw'.status = sw.status
        /\ sw'.status = sw.status \/ sw'.status = ans
    BY <2>1, <2>5 DEF Busy
  <2>7. /\ timeline' \in Nat /\ timeline' >= timeline
        /\ performed' = performed \/ timeline' = timeline + 1
        /\ \A r \in {1, 2} : r # sw.ask.id => performed'[r] = performed[r]
    BY <1>0, <1>n, <2>3, <2>5 DEF SwitchoverTypes, Requests
  <2>8. StagesTrue'
    BY <1>0, <2>1, <2>4, <2>6 DEF StagesTrue, Sound, Stage, Reading
  <2>9. ASSUME NEW a, NEW st, Sound(a, st), Tells(a, st),
               Stage(sw.ask, sw.before) <= Stage(a, st)
        PROVE  TellsAfter(a, st)
    <3>1. Stage(a, st) \in 0..6 /\ st.timeline \in Nat /\ st.timeline <= timeline
      BY <2>9, StageFields DEF Tells
    <3>2. CASE Stage(sw.ask, sw.before) = 2
      BY <1>n, <2>3, <2>7, <2>9, <3>1, <3>2 DEF Tells, TellsAfter
    <3>3. CASE Stage(sw.ask, sw.before) = 5
      BY <1>n, <2>3, <2>7, <2>9, <3>1, <3>3 DEF Tells, TellsAfter
    <3> QED BY <2>2, <3>2, <3>3
  <2>10. EveryoneTells'
    <3>1. TellsAfter(ask, patroni) /\ TellsAfter(cached.ask, cached.status)
      BY <1>0, <2>2, <2>9 DEF EveryoneTells, StagesTrue, Near
    <3>2. TellsAfter(sw.ask, sw.before)
      BY <1>0, <1>s, <2>1, <2>2, <2>9 DEF EveryoneTells
    <3> QED BY <2>4, <2>6, <3>1, <3>2 DEF EveryoneTells, Tells, TellsAfter, Stage
  <2>11. Advances'
    <3>1. CASE sw'.status = sw.status
      BY <2>2, <2>6, <3>1, <1>n, <2>5, <2>1 DEF Advances, Same, Stage
    <3>2. CASE sw'.status = ans
      <4>1. ans \in Answers /\ ans.done = sw.ask.id /\ ans.timeline = 0
        BY <2>3 DEF Answers, Requests
      <4> HIDE DEF ans
      <4>2. Sound(sw.ask, ans)
        BY <2>3, <4>1, SoundFields
      <4>3. Stage(sw.ask, ans) = Stage(sw.ask, sw.before) + 1
        BY <2>2, <2>3, <4>1, <4>2, StageFields
      <4>4. Stage(sw.ask, sw.before) \in {1, 2, 4, 5} /\ 0 <= timeline'
        BY <2>2, <2>7, <1>n
      <4>5. CASE sw'.pc = "configure"
        BY <2>6, <3>2, <4>1, <4>2, <4>3, <4>4, <4>5
           DEF Advances, NextStage, Same, Stage, Sound
      <4>6. CASE sw'.pc = "failed"
        BY <2>2, <2>6, <4>6 DEF Advances, Same
      <4> QED BY <2>6, <4>5, <4>6
    <3> QED BY <2>6, <3>1, <3>2
  <2> QED BY <2>8, <2>10, <2>11
<1>4. ASSUME Reading, UNCHANGED <<ask, patroni, cached, timeline, performed>>,
             sw'.pc \in {"restart", "patch"}, sw'.ask = sw.ask, sw'.before = sw.before,
             sw'.status = sw.status
      PROVE  StagesTrue' /\ EveryoneTells' /\ Advances'
  <2>1. StagesTrue'
    BY <1>0, <1>4 DEF StagesTrue, Sound, Stage, Reading
  <2>2. EveryoneTells'
    BY <1>0, <1>4 DEF EveryoneTells, Tells, Stage, Reading
  <2>3. Advances'
    BY <1>0, <1>4 DEF Advances, Same, NextStage, Sound, Stage, Reading
  <2> QED BY <2>1, <2>2, <2>3
<1>5. CASE Configure
  BY <1>4, <1>5, <1>b DEF Configure, Busy, Reading
<1>6. CASE Restart
  BY <1>4, <1>6, <1>b DEF Restart, Busy, Reading
<1>7. CASE PatchPatroni
  <2>1. /\ Reading /\ sw' = [pc |-> "idle"] /\ patroni' = Patched
        /\ UNCHANGED <<ask, cached, timeline, performed>>
    BY <1>7 DEF PatchPatroni, world, Reading
  <2>2. /\ Sound(ask, Patched) /\ Patched.timeline <= timeline
        /\ \/ Same(Patched, patroni)
           \/ /\ NextStage(sw.ask, sw.before, sw.status)
              /\ Stage(ask, Patched) \in {Stage(ask, patroni), Stage(sw.ask, sw.status)}
              /\ Stage(ask, Patched) >= Stage(ask, patroni)
              /\ Stage(ask, Patched) \in {2, 5} => Stage(sw.ask, sw.before) \in {1, 4}
    BY <2>1, PatchAdvances
  <2> DEFINE x == Stage(ask, patroni)
             y == Stage(cached.ask, cached.status)
             b == Stage(sw.ask, sw.before)
             n == Stage(ask, Patched)
  <2>3. n \in 0..6
    BY <2>2, StageFields
  <2>4. \/ n = x /\ Patched.timeline = patroni.timeline
        \/ b \in {1, 2, 4, 5} /\ n \in {x, b + 1} /\ n >= x /\ (n \in {2, 5} => b \in {1, 4})
    BY <2>2 DEF Same, Stage, NextStage
  <2>5. Near(y, x) /\ Near(b, x) /\ b <= y
    BY <1>0, <2>1 DEF StagesTrue
  <2>6. /\ performed[1] = 1 => x >= 2 /\ b >= 2 /\ (x = 2 => patroni.timeline < timeline)
        /\ performed[2] = 1 => x >= 5 /\ b >= 5 /\ (x = 5 => patroni.timeline < timeline)
    BY <1>0, <2>1 DEF EveryoneTells, Tells
  <2>7. x \in 0..6 /\ y \in 0..6 /\ b \in 0..6
    BY <1>s, <2>1
  <2> HIDE DEF x, y, b, n
  <2>8. Near(y, n)
    BY <2>3, <2>4, <2>5, <2>7 DEF Near
  <2>9. /\ performed[1] = 1 => n >= 2 /\ (n = 2 => Patched.timeline < timeline)
        /\ performed[2] = 1 => n >= 5 /\ (n = 5 => Patched.timeline < timeline)
    BY <2>3, <2>4, <2>5, <2>6, <2>7 DEF Near
  <2>10. StagesTrue'
    BY <1>0, <2>1, <2>2, <2>8 DEF StagesTrue, Reading, y, n, Stage, Sound
  <2>11. EveryoneTells'
    BY <1>0, <2>1, <2>2, <2>9 DEF EveryoneTells, Tells, Reading, n, Stage
  <2>12. Advances'
    BY <2>1 DEF Advances, Reading
  <2> QED BY <2>10, <2>11, <2>12
<1>8. ASSUME UNCHANGED <<ask, patroni, timeline, performed>>, cached'.ask = ask,
             cached'.status = patroni, sw' = sw \/ sw' = [pc |-> "idle"]
      PROVE  StagesTrue' /\ EveryoneTells' /\ Advances'
  <2>1. Near(Stage(ask, patroni), Stage(ask, patroni))
    BY <1>s DEF Near
  <2>2. Reading => Stage(sw.ask, sw.before) <= Stage(ask, patroni)
    BY <1>0 DEF StagesTrue, Near
  <2>3. StagesTrue'
    BY <1>0, <1>8, <2>1, <2>2 DEF StagesTrue, Sound, Stage, Reading
  <2>4. EveryoneTells'
    BY <1>0, <1>8 DEF EveryoneTells, Tells, Stage, Reading
  <2>5. Advances'
    BY <1>0, <1>8 DEF Advances, Same, NextStage, Sound, Stage, Reading
  <2> QED BY <2>3, <2>4, <2>5
<1>9. CASE CacheSync
  BY <1>8, <1>9 DEF CacheSync, world, Cluster
<1>10. CASE SwitchoverCrash
  BY <1>8, <1>10 DEF SwitchoverCrash, world, Cluster
<1>11. CASE User
  <2>1. UNCHANGED <<patroni, cached, sw, timeline, performed>>
    BY <1>11 DEF User
  <2>2. \/ ask' = ask
        \/ ask.enabled /\ ask.id \notin Requests /\ ask' = [ask EXCEPT !.id = 1]
        \/ ask.id = 1 /\ patroni.done = 1 /\ ask' = [ask EXCEPT !.id = 2]
    BY <1>11 DEF User
  <2>3. Sound(ask, patroni) /\ ask \in Asks /\ patroni \in Answers
    BY <1>0 DEF StagesTrue, SwitchoverTypes
  <2>4. CASE ask' = ask
    <3>1. StagesTrue'
      BY <1>0, <2>1, <2>4 DEF StagesTrue, Sound, Stage, Reading
    <3>2. EveryoneTells'
      BY <1>0, <2>1, <2>4 DEF EveryoneTells, Tells, Stage, Reading
    <3>3. Advances'
      BY <1>0, <2>1, <2>4 DEF Advances, Same, NextStage, Sound, Stage, Reading
    <3> QED BY <3>1, <3>2, <3>3
  <2>5. CASE ask' # ask
    <3>1. /\ ask' \in Asks /\ ask'.enabled /\ ask'.id \in {1, 2}
          /\ ask'.id = 1 => ask.id = Nil /\ patroni.done = Nil /\ patroni.timeline = 0
          /\ ask'.id = 2 => ask.id = 1 /\ patroni.done = 1 /\ patroni.timeline = 0
      BY <2>2, <2>3, <2>5 DEF Asks, Requests, Sound
    <3> DEFINE x == Stage(ask, patroni)
               z == Stage(ask', patroni)
    <3>2. Sound(ask', patroni)
      BY <2>3, <3>1, SoundFields
    <3>3. (x = 0 /\ z = 1) \/ (x = 3 /\ z = 4)
      BY <3>1 DEF Stage, Requests
    <3>4. ASSUME NEW y \in 0..6, Near(y, x) PROVE Near(y, z)
      BY <3>3, <3>4 DEF Near
    <3>5. StagesTrue'
      <4>1. Near(Stage(cached.ask, cached.status), z)
        BY <1>0, <1>s, <3>4 DEF StagesTrue
      <4>2. Reading => Near(Stage(sw.ask, sw.before), z)
        BY <1>0, <1>s, <3>4 DEF StagesTrue
      <4> QED BY <1>0, <2>1, <3>2, <4>1, <4>2 DEF StagesTrue, Sound, Stage, Reading
    <3>6. EveryoneTells'
      <4>1. /\ performed[1] = 1 => z >= 2 /\ (z = 2 => patroni.timeline < timeline)
            /\ performed[2] = 1 => z >= 5 /\ (z = 5 => patroni.timeline < timeline)
            /\ patroni.timeline <= timeline
        BY <1>0, <3>3 DEF EveryoneTells, Tells
      <4> QED BY <1>0, <2>1, <4>1 DEF EveryoneTells, Tells, Stage, Reading
    <3>7. Advances'
      BY <1>0, <2>1 DEF Advances, Same, NextStage, Sound, Stage, Reading
    <3> QED BY <3>5, <3>6, <3>7
  <2> QED BY <2>4, <2>5
<1>12. CASE Failover
  <2>1. UNCHANGED <<ask, patroni, cached, sw, performed>> /\ timeline' = timeline + 1
    BY <1>12 DEF Failover, Move
  <2>2. timeline' \in Nat /\ timeline' >= timeline
    BY <1>n, <2>1
  <2>3. StagesTrue'
    BY <1>0, <2>1 DEF StagesTrue, Sound, Stage, Reading
  <2>4. EveryoneTells'
    <3>1. TellsAfter(ask, patroni) /\ TellsAfter(cached.ask, cached.status)
          /\ (Reading => TellsAfter(sw.ask, sw.before))
      BY <1>0, <2>1, <2>2, TellsLater DEF EveryoneTells, StagesTrue
    <3> QED BY <2>1, <3>1 DEF EveryoneTells, Tells, TellsAfter, Stage, Reading
  <2>5. Advances'
    <3>1. Reading /\ sw.status.timeline <= timeline => sw.status.timeline <= timeline'
      BY <1>b, <1>n, <2>1 DEF Busy, Answers
    <3> QED BY <1>0, <2>1, <3>1 DEF Advances, Same, NextStage, Sound, Stage, Reading
  <2> QED BY <2>3, <2>4, <2>5
<1> QED BY <1>1, <1>2, <1>3, <1>5, <1>6, <1>7, <1>9, <1>10, <1>11, <1>12 DEF SwitchoverNext, ReconcilePatroni

-----------------------------------------------------------------------------
(* Theorems.                                                               *)

\* At every step the cluster, the cache and the reconcile agree on how far the
\* requests are, up to what the operator has not read yet.
THEOREM SwitchoverInvariant ==
    ASSUME Nil \notin Requests, Members # {}
    PROVE  SwitchoverSpec => []SwitchoverInv
<1>1. SwitchoverInit => SwitchoverInv
  <2> SUFFICES ASSUME SwitchoverInit PROVE SwitchoverInv
    OBVIOUS
  <2>1. /\ ask \in Asks /\ ask.id = Nil /\ patroni = Unset
        /\ cached = [ask |-> ask, status |-> patroni, conf |-> 0]
        /\ conf = 0 /\ timeline = 1 /\ pending = {} /\ sw = [pc |-> "idle"]
        /\ performed = [r \in Requests |-> 0]
    BY DEF SwitchoverInit, Asks, Cluster
  <2>2. leader \in Members
    BY DEF SwitchoverInit
  <2>3. SwitchoverTypes
    BY <2>1, <2>2 DEF SwitchoverTypes, Answers, Unset, Clusters
  <2>4. Stage(ask, patroni) = 0 /\ Sound(ask, patroni) /\ cached.ask = ask /\ cached.status = patroni
    BY <2>1 DEF Stage, Sound, Unset, Answers
  <2>5. StagesTrue
    BY <2>1, <2>4 DEF StagesTrue, Near, Reading
  <2>6. EveryoneTells
    BY <2>1, <2>4 DEF EveryoneTells, Tells, Reading, Unset, Requests
  <2> QED BY <2>1, <2>3, <2>5, <2>6 DEF SwitchoverInv, Advances, Reading
<1>2. SwitchoverInv /\ [SwitchoverNext]_switchoverVars => SwitchoverInv'
  <2>1. CASE SwitchoverNext
    BY <2>1, TypesKept, StagesKept DEF SwitchoverInv
  <2>2. CASE UNCHANGED switchoverVars
    BY <2>2 DEF switchoverVars, SwitchoverInv, SwitchoverTypes, StagesTrue, EveryoneTells, Advances,
                Tells, Sound, Stage, Same, NextStage, Reading, Near
  <2> QED BY <2>1, <2>2
<1> QED BY <1>1, <1>2, PTL DEF SwitchoverSpec

\* A request moves the leader at most once, for any number of members, however far
\* the cache of the operator lags behind, wherever the operator stops, and whether
\* Patroni fails over by itself or chooses another member than the one asked for.
THEOREM RequestMovesLeaderOnce ==
    ASSUME Nil \notin Requests, Members # {}
    PROVE  SwitchoverSpec => []SwitchoverOnce
<1>1. SwitchoverInv => SwitchoverOnce
  <2> SUFFICES ASSUME SwitchoverInv, NEW r \in Requests PROVE performed[r] <= 1
    BY DEF SwitchoverOnce
  <2>1. performed[r] \in {0, 1}
    BY DEF SwitchoverInv, SwitchoverTypes
  <2> QED BY <2>1
<1> QED BY <1>1, SwitchoverInvariant, PTL

=============================================================================
