------------------------- MODULE Simulators_proofs --------------------------
(***************************************************************************)
(* The two ways simulators are shared: lanes of one lockstep pool, and     *)
(* slots of a farm of servers.  The specifications share no variable.      *)
(*                                                                         *)
(* Every state of LockstepPool!Spec satisfies Inductive, for any lanes and *)
(* chunk lengths and whether or not core calls raise: one lemma per        *)
(* action.  From it follow GroupInv and FrameRefreshed; EndIsTold is a     *)
(* property of each step.                                                  *)
(*                                                                         *)
(* Every state of EnvironmentFarm!FarmSpec satisfies FarmInductive, for    *)
(* any slots, workers and clients without a lease, however often servers   *)
(* are killed and workers die.  From it follow FarmInv and                 *)
(* BoundKeepsLease.                                                        *)
(***************************************************************************)
EXTENDS LockstepPool, EnvironmentFarm, FiniteSetTheorems, TLAPS

\* An operation runs in an episode, and holds frames to read only while it is
\* about to read them.
Operating ==
  \A l \in Lanes : /\ pc[l] # "idle" => l \in episode
                   /\ pc[l] \notin {"observe1", "observe2"} => stale[l] = {}

\* The groups are disjoint and hold exactly the chunks that wait.
Grouped ==
  /\ \A n \in Lens : \A l \in open[n] : pc[l] = "wait"
  /\ \A g \in fired : \A l \in g : pc[l] = "wait"
  /\ \A l \in Lanes : pc[l] = "wait" =>
       (\E n \in Lens : l \in open[n]) \/ (\E g \in fired : l \in g)
  /\ \A m, n \in Lens : m # n => open[m] \cap open[n] = {}
  /\ \A g, h \in fired : g # h => g \cap h = {}
  /\ \A n \in Lens : \A g \in fired : open[n] \cap g = {}

\* Some operation is about to read the frame of lane l.
Taken(l) == \E m \in Lanes : l \in stale[m]

\* A running slot has the latest frame, or somebody knows that it has not: the
\* watermark, an operation that reads it again, or an error.
Accounted == \A l \in episode \ wFin : l \in fresh \cup behind \cup unread \/ Taken(l)

\* The same of an operation that has synced and goes on to the inference; one whose
\* episode is over will not.
Synced ==
  \A l \in Lanes : pc[l] = "infer" \/ (pc[l] = "observe1" /\ l \notin wFin)
                     => l \in current \cup unread \/ Taken(l)

Inductive == TypeOK /\ NoFalseEnd /\ Operating /\ Grouped /\ Accounted /\ Synced

-----------------------------------------------------------------------------
LEMMA InitInductive == Init => Inductive
<1> SUFFICES ASSUME Init PROVE Inductive
  OBVIOUS
<1>1. TypeOK
  BY DEF Init, TypeOK
<1>2. NoFalseEnd /\ Operating /\ Grouped /\ Accounted /\ Synced
  BY DEF Init, NoFalseEnd, Operating, Grouped, Accounted, Synced
<1>3. QED
  BY <1>1, <1>2 DEF Inductive

LEMMA ResetStep ==
  ASSUME Inductive, NEW l \in Lanes, Reset(l)
  PROVE  Inductive'
<1> USE DEF Inductive, Reset, Tell, groups
<1>1. TypeOK' /\ NoFalseEnd'
  BY DEF TypeOK, NoFalseEnd
<1>2. Operating' /\ Grouped'
  BY DEF Operating, Grouped
<1>3. Accounted'
  BY DEF Accounted, Taken, TypeOK
<1>4. Synced'
  BY DEF Synced, Taken, TypeOK
<1>5. QED
  BY <1>1, <1>2, <1>3, <1>4

LEMMA RebindStep ==
  ASSUME Inductive, NEW l \in Lanes, Rebind(l)
  PROVE  Inductive'
<1> USE DEF Inductive, Rebind, Tell, groups, core
<1>1. TypeOK' /\ NoFalseEnd'
  BY DEF TypeOK, NoFalseEnd
<1>2. Operating' /\ Grouped'
  BY DEF Operating, Grouped, TypeOK
<1>3. Accounted' /\ Synced'
  BY DEF Accounted, Synced, Taken, TypeOK
<1>4. QED
  BY <1>1, <1>2, <1>3

LEMMA BeginStep ==
  ASSUME Inductive, NEW l \in Lanes, Begin(l)
  PROVE  Inductive'
<1> USE DEF Inductive, Begin, Goto, groups, core, copy
<1>1. TypeOK' /\ NoFalseEnd'
  BY DEF TypeOK, NoFalseEnd
<1>2. Operating'
  BY DEF Operating, TypeOK
<1>3. Grouped'
  BY DEF Grouped, TypeOK
<1>4. Accounted' /\ Synced'
  BY DEF Accounted, Synced, Taken, TypeOK
<1>5. QED
  BY <1>1, <1>2, <1>3, <1>4

LEMMA InferenceDoneStep ==
  ASSUME Inductive, NEW l \in Lanes, InferenceDone(l)
  PROVE  Inductive'
<1> USE DEF Inductive, InferenceDone, Goto, groups, core, copy
<1>1. TypeOK' /\ NoFalseEnd'
  BY DEF TypeOK, NoFalseEnd
<1>2. Operating'
  BY DEF Operating, TypeOK
<1>3. Grouped'
  BY DEF Grouped, TypeOK
<1>4. Accounted' /\ Synced'
  BY DEF Accounted, Synced, Taken, TypeOK
<1>5. QED
  BY <1>1, <1>2, <1>3, <1>4

\* After a readback the operation ends, goes on to the inference, or its chunk
\* joins one group and no other.
LEMMA ProceedGroups ==
  ASSUME Inductive, NEW l \in Lanes, NEW finished, Proceed(l, finished),
         pc[l] \in {"status1", "observe1", "status2", "observe2"}
  PROVE  /\ Grouped'
         /\ open' \in [Lens -> SUBSET Lanes] /\ fired' \subseteq SUBSET Lanes
         /\ told' \in [Lanes -> {"none", "going", "over", "error"}]
         /\ pc' \in [Lanes -> {"idle", "infer", "wait"} \cup
                              {"status1", "observe1", "status2", "observe2"}]
         /\ pc'[l] \in {"idle", "infer", "wait"}
         /\ pc'[l] = "infer" => l \notin finished /\ pc[l] \in {"status1", "observe1"}
         /\ \A k \in Lanes : k # l => pc'[k] = pc[k]
<1> USE DEF Inductive, Goto, Tell, groups
<1>1. (\A n \in Lens : l \notin open[n]) /\ (\A g \in fired : l \notin g)
  BY DEF Grouped
<1>2. CASE Goto(l, "idle") /\ UNCHANGED groups /\ l \in finished /\ Tell(l, "over")
  BY <1>1, <1>2 DEF TypeOK, Grouped
<1>3. CASE Goto(l, "infer") /\ UNCHANGED <<groups, told>> /\ l \notin finished
           /\ pc[l] \in {"status1", "observe1"}
  BY <1>1, <1>3 DEF TypeOK, Grouped
<1>4. CASE Goto(l, "wait") /\ UNCHANGED <<told, open>> /\ fired' = fired \cup {{l}}
  <2>1. /\ open' \in [Lens -> SUBSET Lanes] /\ fired' \subseteq SUBSET Lanes
        /\ told' \in [Lanes -> {"none", "going", "over", "error"}]
        /\ pc'[l] = "wait" /\ \A k \in Lanes : k # l => pc'[k] = pc[k]
        /\ pc' \in [Lanes -> {"idle", "infer", "wait"} \cup
                             {"status1", "observe1", "status2", "observe2"}]
    BY <1>4 DEF TypeOK
  <2>2. /\ \A n \in Lens : \A k \in open'[n] : pc'[k] = "wait"
        /\ \A g \in fired' : \A k \in g : pc'[k] = "wait"
    BY <1>4, <2>1 DEF Grouped, TypeOK
  <2>3. \A k \in Lanes : pc'[k] = "wait" =>
          (\E n \in Lens : k \in open'[n]) \/ (\E g \in fired' : k \in g)
    BY <1>4, <2>1 DEF Grouped
  <2>4. /\ \A m, n \in Lens : m # n => open'[m] \cap open'[n] = {}
        /\ \A g, h \in fired' : g # h => g \cap h = {}
        /\ \A n \in Lens : \A g \in fired' : open'[n] \cap g = {}
    <3>1. /\ \A g \in fired : g \cap {l} = {} /\ {l} \cap g = {}
          /\ \A n \in Lens : open[n] \cap {l} = {}
      BY <1>1
    <3>2. QED
      BY <1>4, <3>1 DEF Grouped
  <2>5. QED
    BY <2>1, <2>2, <2>3, <2>4 DEF Grouped
<1>5. CASE Goto(l, "wait") /\ UNCHANGED <<told, fired>>
           /\ \E n \in Lens : open' = [open EXCEPT ![n] = @ \cup {l}]
  <2>1. PICK n \in Lens : open' = [open EXCEPT ![n] = @ \cup {l}]
    BY <1>5
  <2>2. /\ open' \in [Lens -> SUBSET Lanes] /\ fired' \subseteq SUBSET Lanes
        /\ told' \in [Lanes -> {"none", "going", "over", "error"}]
        /\ pc'[l] = "wait" /\ \A k \in Lanes : k # l => pc'[k] = pc[k]
        /\ pc' \in [Lanes -> {"idle", "infer", "wait"} \cup
                             {"status1", "observe1", "status2", "observe2"}]
        /\ open'[n] = open[n] \cup {l} /\ \A m \in Lens : m # n => open'[m] = open[m]
    BY <1>5, <2>1 DEF TypeOK
  <2>3. Grouped'
    BY <1>1, <1>5, <2>2 DEF Grouped, TypeOK
  <2>4. QED
    BY <2>2, <2>3
<1>6. QED
  BY <1>2, <1>3, <1>4, <1>5 DEF Proceed, Submit

\* lane_status: frames that fell behind are taken over by this operation.
LEMMA StatusStep ==
  ASSUME Inductive, NEW l \in Lanes, Status(l)
  PROVE  Inductive'
<1> USE DEF Inductive
<1>1. /\ pc[l] \in {"status1", "status2"} /\ stale[l] = {} /\ l \in episode
      /\ wFin' = wFin \cup (fin \cap episode) /\ behind' = behind \ episode
      /\ stale'[l] = (behind \cap episode) \ wFin
      /\ \A k \in Lanes : k # l => stale'[k] = stale[k]
      /\ stale' \in [Lanes -> SUBSET Lanes]
      /\ current' = (IF l \in fresh THEN current \cup {l} ELSE current)
      /\ UNCHANGED <<started, fin, masked, episode, fresh, unread>>
  BY DEF Status, Operating, TypeOK, core
<1>2. /\ Grouped'
      /\ open' \in [Lens -> SUBSET Lanes] /\ fired' \subseteq SUBSET Lanes
      /\ told' \in [Lanes -> {"none", "going", "over", "error"}]
      /\ pc' \in [Lanes -> {"idle", "infer", "wait"} \cup
                           {"status1", "observe1", "status2", "observe2"}]
      /\ \A k \in Lanes : k # l => pc'[k] = pc[k]
      /\ pc'[l] \in {"observe1", "observe2"} \/ stale'[l] = {}
      /\ pc'[l] = "infer" => l \notin wFin'
  <2>1. CASE stale'[l] = {}
    <3>1. Proceed(l, wFin')
      BY <2>1 DEF Status
    <3>2. QED
      BY <1>1, <2>1, <3>1, ProceedGroups
  <2>2. CASE stale'[l] # {}
    <3>1. Goto(l, ToObserve(l)) /\ UNCHANGED <<open, fired, told>>
      BY <2>2 DEF Status, groups
    <3>2. QED
      BY <1>1, <3>1 DEF Goto, ToObserve, TypeOK, Grouped
  <2>3. QED
    BY <2>1, <2>2
<1>3. TypeOK' /\ NoFalseEnd'
  BY <1>1, <1>2 DEF TypeOK, NoFalseEnd
<1>4. Operating'
  BY <1>1, <1>2 DEF Operating
<1>5. \A k \in Lanes : Taken(k) => Taken(k)'
  BY <1>1 DEF Taken
<1>6. Accounted'
  BY <1>1, <1>5 DEF Accounted, Taken, TypeOK
<1>7. Synced'
  <2>1. ASSUME NEW k \in Lanes, k # l, pc'[k] = "infer" \/ (pc'[k] = "observe1" /\ k \notin wFin')
        PROVE  k \in current' \cup unread' \/ Taken(k)'
    BY <1>1, <1>2, <1>5, <2>1 DEF Synced
  <2>2. ASSUME pc'[l] = "infer" \/ (pc'[l] = "observe1" /\ l \notin wFin')
        PROVE  l \in current' \cup unread' \/ Taken(l)'
    <3>1. l \notin wFin
      BY <1>1, <1>2, <2>2
    <3>2. QED
      BY <1>1, <1>5, <3>1 DEF Accounted, Taken
  <2>3. QED
    BY <2>1, <2>2 DEF Synced
<1>8. QED
  BY <1>2, <1>3, <1>4, <1>6, <1>7

LEMMA StatusFailsStep ==
  ASSUME Inductive, NEW l \in Lanes, StatusFails(l)
  PROVE  Inductive'
<1> USE DEF Inductive
<1>1. /\ pc[l] \in {"status1", "status2"} /\ stale[l] = {} /\ l \in episode
      /\ current' = current \cup {l} /\ Proceed(l, wFin)
      /\ UNCHANGED <<started, fin, masked, episode, wFin, behind, fresh, stale, unread>>
  BY DEF StatusFails, Operating, core, copy
<1>2. /\ Grouped'
      /\ open' \in [Lens -> SUBSET Lanes] /\ fired' \subseteq SUBSET Lanes
      /\ told' \in [Lanes -> {"none", "going", "over", "error"}]
      /\ pc' \in [Lanes -> {"idle", "infer", "wait"} \cup
                           {"status1", "observe1", "status2", "observe2"}]
      /\ \A k \in Lanes : k # l => pc'[k] = pc[k]
  BY <1>1, ProceedGroups
<1>3. TypeOK' /\ NoFalseEnd'
  BY <1>1, <1>2 DEF TypeOK, NoFalseEnd
<1>4. Operating'
  BY <1>1, <1>2 DEF Operating
<1>5. Accounted' /\ Synced'
  BY <1>1, <1>2 DEF Accounted, Synced, Taken
<1>6. QED
  BY <1>2, <1>3, <1>4, <1>5

\* The frames that were taken are read, or lost with an error.
LEMMA ObserveStep ==
  ASSUME Inductive, NEW l \in Lanes, Observe(l) \/ ObserveFails(l)
  PROVE  Inductive'
<1> USE DEF Inductive
<1>1. /\ pc[l] \in {"observe1", "observe2"} /\ l \in episode /\ Proceed(l, wFin)
      /\ stale'[l] = {} /\ \A k \in Lanes : k # l => stale'[k] = stale[k]
      /\ stale' \in [Lanes -> SUBSET Lanes] /\ stale[l] \subseteq Lanes
      /\ \/ /\ fresh' = fresh \cup stale[l] /\ current' = current \cup stale[l]
            /\ unread' = unread \ stale[l]
         \/ UNCHANGED <<fresh, current>> /\ unread' = unread \cup stale[l]
      /\ UNCHANGED <<started, fin, masked, episode, wFin, behind>>
  BY DEF Observe, ObserveFails, Operating, TypeOK, core, copy
<1>2. /\ Grouped'
      /\ open' \in [Lens -> SUBSET Lanes] /\ fired' \subseteq SUBSET Lanes
      /\ told' \in [Lanes -> {"none", "going", "over", "error"}]
      /\ pc' \in [Lanes -> {"idle", "infer", "wait"} \cup
                           {"status1", "observe1", "status2", "observe2"}]
      /\ \A k \in Lanes : k # l => pc'[k] = pc[k]
      /\ pc'[l] \in {"idle", "infer", "wait"}
      /\ pc'[l] = "infer" => l \notin wFin /\ pc[l] \in {"status1", "observe1"}
  BY <1>1, ProceedGroups
<1>3. TypeOK' /\ NoFalseEnd'
  BY <1>1, <1>2 DEF TypeOK, NoFalseEnd
<1>4. Operating'
  BY <1>1, <1>2 DEF Operating
<1>5. \A k \in Lanes : Taken(k) => Taken(k)' \/ k \in stale[l]
  BY <1>1 DEF Taken
<1>6. Accounted'
  <2>1. \A k \in stale[l] : k \in fresh' \cup unread'
    BY <1>1
  <2>2. \A k \in fresh \cup behind \cup unread : k \in fresh' \cup behind' \cup unread'
    BY <1>1
  <2>3. QED
    BY <1>1, <1>5, <2>1, <2>2 DEF Accounted, TypeOK
<1>7. Synced'
  <2>1. \A k \in stale[l] \cup current \cup unread : k \in current' \cup unread'
    BY <1>1
  <2>2. ASSUME NEW k \in Lanes, pc'[k] = "infer" \/ (pc'[k] = "observe1" /\ k \notin wFin')
        PROVE  pc[k] = "infer" \/ (pc[k] = "observe1" /\ k \notin wFin)
    BY <1>1, <1>2, <2>2
  <2>3. QED
    BY <1>5, <2>1, <2>2 DEF Synced
<1>8. QED
  BY <1>2, <1>3, <1>4, <1>6, <1>7

\* The leader closes its group.
LEMMA FireStep ==
  ASSUME Inductive, NEW n \in Lens, Fire(n)
  PROVE  Inductive'
<1> USE DEF Inductive, Fire, core, copy
<1>1. open'[n] = {} /\ \A m \in Lens : m # n => open'[m] = open[m]
  BY DEF TypeOK
<1>2. TypeOK' /\ NoFalseEnd'
  BY DEF TypeOK, NoFalseEnd
<1>3. Grouped'
  <2>1. /\ \A m \in Lens : \A k \in open'[m] : pc'[k] = "wait"
        /\ \A g \in fired' : \A k \in g : pc'[k] = "wait"
    BY <1>1 DEF Grouped
  <2>2. \A k \in Lanes : pc'[k] = "wait" =>
          (\E m \in Lens : k \in open'[m]) \/ (\E g \in fired' : k \in g)
    BY <1>1 DEF Grouped
  <2>3. /\ \A m, o \in Lens : m # o => open'[m] \cap open'[o] = {}
        /\ \A g, h \in fired' : g # h => g \cap h = {}
        /\ \A m \in Lens : \A g \in fired' : open'[m] \cap g = {}
    BY <1>1 DEF Grouped
  <2>4. QED
    BY <2>1, <2>2, <2>3 DEF Grouped
<1>4. Operating' /\ Accounted' /\ Synced'
  BY DEF Operating, Accounted, Synced, Taken
<1>5. QED
  BY <1>2, <1>3, <1>4

\* A group is answered: its members wait no more, and the others are as they were.
LEMMA AnsweredGroups ==
  ASSUME Inductive, NEW g \in fired, fired' = fired \ {g}, UNCHANGED <<open, stale, episode>>,
         pc' = [l \in Lanes |-> IF l \in g THEN "idle" ELSE pc[l]]
  PROVE  /\ Grouped' /\ Operating'
         /\ g \subseteq episode
         /\ \A l \in g : pc[l] = "wait"
         /\ \A l \in Lanes : Taken(l)' = Taken(l)
<1> USE DEF Inductive
<1>1. g \subseteq Lanes /\ \A l \in g : pc[l] = "wait"
  BY DEF TypeOK, Grouped
<1>2. g \subseteq episode
  BY <1>1 DEF Operating
<1>3. Operating'
  BY <1>1 DEF Operating
<1>4. Grouped'
  <2>1. /\ \A m \in Lens : \A k \in open'[m] : pc'[k] = "wait"
        /\ \A h \in fired' : \A k \in h : pc'[k] = "wait"
    BY <1>1 DEF Grouped, TypeOK
  <2>2. \A k \in Lanes : pc'[k] = "wait" =>
          (\E m \in Lens : k \in open'[m]) \/ (\E h \in fired' : k \in h)
    BY <1>1 DEF Grouped
  <2>3. /\ \A m, o \in Lens : m # o => open'[m] \cap open'[o] = {}
        /\ \A f, h \in fired' : f # h => f \cap h = {}
        /\ \A m \in Lens : \A h \in fired' : open'[m] \cap h = {}
    BY DEF Grouped
  <2>4. QED
    BY <2>1, <2>2, <2>3 DEF Grouped
<1>5. \A l \in Lanes : Taken(l)' = Taken(l)
  BY DEF Taken
<1>6. QED
  BY <1>1, <1>2, <1>3, <1>4, <1>5

LEMMA ExecuteStep ==
  ASSUME Inductive, NEW g \in fired, Execute(g)
  PROVE  Inductive'
<1> USE DEF Inductive
<1>1. PICK done \in SUBSET Lanes : ChunkSteps(g, done) /\ wFin' = wFin \cup Reports(g, done)
  BY DEF Execute
<1>2. /\ Grouped' /\ Operating' /\ g \subseteq episode /\ \A l \in g : pc[l] = "wait"
      /\ \A l \in Lanes : Taken(l)' = Taken(l)
  BY <1>1, AnsweredGroups DEF Execute, ChunkSteps
<1>3. TypeOK'
  BY <1>1, <1>2 DEF TypeOK, Execute, ChunkSteps, Reports
<1>4. NoFalseEnd'
  BY <1>1 DEF NoFalseEnd, ChunkSteps, Reports
<1>5. Accounted'
  BY <1>1, <1>2 DEF Accounted, TypeOK, Execute, ChunkSteps
<1>6. Synced'
  BY <1>1, <1>2 DEF Synced, TypeOK, Execute
<1>7. QED
  BY <1>2, <1>3, <1>4, <1>5, <1>6

LEMMA ExecuteFailsStep ==
  ASSUME Inductive, NEW g \in fired, ExecuteFails(g)
  PROVE  Inductive'
<1> USE DEF Inductive
<1>1. UNCHANGED <<open, stale, episode, current, wFin, started>>
  BY DEF ExecuteFails, ChunkSteps, core, copy
<1>2. /\ Grouped' /\ Operating' /\ g \subseteq episode /\ \A l \in g : pc[l] = "wait"
      /\ \A l \in Lanes : Taken(l)' = Taken(l)
  BY <1>1, AnsweredGroups DEF ExecuteFails
<1>3. pc' \in [Lanes -> {"idle", "status1", "observe1", "infer", "status2", "observe2", "wait"}]
      /\ told' \in [Lanes -> {"none", "going", "over", "error"}] /\ fired' \subseteq SUBSET Lanes
  BY DEF ExecuteFails, TypeOK
<1>4. CASE UNCHANGED <<core, copy, unread>>
  <2>1. TypeOK' /\ NoFalseEnd'
    BY <1>1, <1>3, <1>4 DEF TypeOK, NoFalseEnd, core, copy
  <2>2. Accounted' /\ Synced'
    BY <1>1, <1>2, <1>4 DEF Accounted, Synced, TypeOK, core, copy, ExecuteFails
  <2>3. QED
    BY <1>2, <2>1, <2>2
<1>5. CASE /\ started = Lanes /\ fresh' = {} /\ unread' = unread \cup g
           /\ \E done \in SUBSET Lanes : ChunkSteps(g, done)
  <2>1. TypeOK' /\ NoFalseEnd'
    BY <1>1, <1>2, <1>3, <1>5 DEF TypeOK, NoFalseEnd, ChunkSteps
  <2>2. Accounted' /\ Synced'
    BY <1>1, <1>2, <1>5 DEF Accounted, Synced, TypeOK, ChunkSteps, ExecuteFails
  <2>3. QED
    BY <1>2, <2>1, <2>2
<1>6. QED
  BY <1>4, <1>5 DEF ExecuteFails

-----------------------------------------------------------------------------
\* Lanes, slots and groups stay consistent in every execution of the pool.
THEOREM LockstepInvariant == Spec => []Inductive
<1>1. Inductive /\ [Next]_vars => Inductive'
  <2> SUFFICES ASSUME Inductive, [Next]_vars PROVE Inductive'
    OBVIOUS
  <2>1. CASE UNCHANGED vars
    BY <2>1 DEF vars, core, copy, groups, Inductive, TypeOK, NoFalseEnd, Operating, Grouped,
                Accounted, Synced, Taken
  <2>2. QED
    BY <2>1, ResetStep, RebindStep, BeginStep, InferenceDoneStep, StatusStep,
       StatusFailsStep, ObserveStep, FireStep, ExecuteStep, ExecuteFailsStep
    DEF Next, ReadBack
<1>2. QED
  BY <1>1, InitInductive, PTL DEF Spec

\* GroupInv: a registered chunk is in exactly one group until it is answered, and
\* the worker calls no episode over that the environment has not ended.
THEOREM GroupTheorem == Spec => []GroupInv
<1>1. Inductive => GroupInv
  <2> SUFFICES ASSUME Inductive, NEW l \in Lanes
               PROVE  Cardinality({n \in Lens : l \in open[n]})
                        + Cardinality({g \in fired : l \in g})
                        = IF pc[l] = "wait" THEN 1 ELSE 0
    BY DEF Inductive, GroupInv, OneGroup
  <2> DEFINE N == {n \in Lens : l \in open[n]}
             G == {g \in fired : l \in g}
  <2>1. CASE pc[l] # "wait"
    <3>1. N = {} /\ G = {}
      BY <2>1 DEF Inductive, Grouped
    <3>2. Cardinality(N) = 0 /\ Cardinality(G) = 0
      BY <3>1, FS_EmptySet
    <3>3. QED
      BY <2>1, <3>2
  <2>2. CASE pc[l] = "wait" /\ \E n \in Lens : l \in open[n]
    <3>1. PICK n \in Lens : l \in open[n]
      BY <2>2
    <3>2. N = {n} /\ G = {}
      BY <3>1 DEF Inductive, Grouped
    <3>3. Cardinality(N) = 1 /\ Cardinality(G) = 0
      BY <3>2, FS_Singleton, FS_EmptySet
    <3>4. QED
      BY <2>2, <3>3
  <2>3. CASE pc[l] = "wait" /\ \E g \in fired : l \in g
    <3>1. PICK g \in fired : l \in g
      BY <2>3
    <3>2. N = {} /\ G = {g}
      BY <3>1 DEF Inductive, Grouped
    <3>3. Cardinality(N) = 0 /\ Cardinality(G) = 1
      BY <3>2, FS_Singleton, FS_EmptySet
    <3>4. QED
      BY <2>3, <3>3
  <2>4. QED
    BY <2>1, <2>2, <2>3 DEF Inductive, Grouped
<1>2. QED
  BY <1>1, LockstepInvariant, PTL

\* FrameRefreshed: inference runs on a frame that was the latest one since the
\* operation began, or another operation or an error accounts for it.
THEOREM FrameTheorem == Spec => []FrameRefreshed
<1>1. Inductive => FrameRefreshed
  BY DEF Inductive, Operating, Synced, Taken, FrameRefreshed
<1>2. QED
  BY <1>1, LockstepInvariant, PTL

\* EndIsTold: a client that is told that its episode goes on has a lane that goes
\* on, also when the end came by a hold action between its readback and its group.
THEOREM EndTheorem == Spec => EndIsTold
<1>1. Inductive /\ [Next]_vars =>
        [\A l \in Lanes : pc[l] = "wait" /\ pc'[l] = "idle" /\ told'[l] = "going"
           => l \notin fin']_vars
  <2> SUFFICES ASSUME Inductive, [Next]_vars, NEW l \in Lanes,
                      pc[l] = "wait", pc'[l] = "idle", told'[l] = "going"
               PROVE  l \notin fin'
    OBVIOUS
  <2>1. ASSUME NEW k \in Lanes,
               Reset(k) \/ Rebind(k) \/ Begin(k) \/ InferenceDone(k) \/ ReadBack(k)
        PROVE  FALSE
    <3>1. k # l => pc'[l] = pc[l]
      <4>1. CASE Reset(k) \/ Rebind(k)
        BY <4>1 DEF Reset, Rebind
      <4>2. CASE Begin(k) \/ InferenceDone(k)
        BY <4>2 DEF Begin, InferenceDone, Goto, Inductive, TypeOK
      <4>3. CASE ReadBack(k)
        BY <4>3 DEF ReadBack, Status, StatusFails, Observe, ObserveFails, Proceed, Goto,
                    Inductive, TypeOK
      <4>4. QED
        BY <2>1, <4>1, <4>2, <4>3
    <3>2. pc[k] # "wait"
      BY <2>1 DEF Reset, Rebind, Begin, InferenceDone, ReadBack, Status, StatusFails,
                  Observe, ObserveFails
    <3>3. QED
      BY <3>1, <3>2
  <2>2. ASSUME NEW g \in fired, Execute(g) PROVE l \notin fin'
    BY <2>2 DEF Execute, ChunkSteps, Reports
  <2>3. pc' = pc => FALSE
    OBVIOUS
  <2>4. pc' = pc \/ (\E g \in fired : Execute(g))
          \/ \E k \in Lanes : Reset(k) \/ Rebind(k) \/ Begin(k) \/ InferenceDone(k) \/ ReadBack(k)
    BY DEF Next, Fire, ExecuteFails, vars
  <2> QED
    BY <2>1, <2>2, <2>3, <2>4
<1>2. QED
  BY <1>1, LockstepInvariant, PTL DEF Spec, EndIsTold

-----------------------------------------------------------------------------
(* The farm of environment servers.                                        *)

Process == [id : Sessions, slot : Slots]
WorkerIds == Workers \X (1 .. MaxJobs)
Leased == {s \in Slots : lease[s] # None}

\* What processes, leases and handles are made of; a worker that asks for a slot has a job.
FarmTyped ==
  /\ proc \in [Clients -> Process \cup {None}] /\ flight \subseteq Process
  /\ lease \in [Slots -> [id : WorkerIds, live : BOOLEAN] \cup {None}]
  /\ handle \in [Workers -> [id : WorkerIds, slot : Slots] \cup {None}]
  /\ jobs \in [Clients -> 0 .. MaxJobs] /\ crashes \in Nat
  /\ \A c \in Workers : work[c] = "acquiring" => jobs[c] >= 1

FarmShape == FarmTypeOK /\ FarmTyped

\* A poll of acquire is a worker's that asks for a slot, at a slot, with room for a lease;
\* between a FREE answer and what follows from it the server stays free or has slipped.
Polling ==
  /\ lockAt \in {"reclaim", "probe", "write"} =>
       /\ target \in Slots /\ lockBy \in Workers /\ work[lockBy] = "acquiring"
       /\ Cardinality(Leased) + 1 <= limit
  /\ lockAt \in {"reclaim", "write"} => owner[target] = None \/ target \in slipped

FarmInductive == FarmShape /\ BrokerAlone /\ LimitKept /\ Polling

LEMMA WorkerFacts ==
  /\ Workers \subseteq Clients /\ Direct \subseteq Clients
  /\ WorkerIds \subseteq Sessions
  /\ [id : WorkerIds, slot : Slots] \subseteq Process
  /\ \A c \in Clients, n \in 1 .. MaxJobs : <<c, n>> \in Sessions
  /\ \A c \in Workers, n \in 1 .. MaxJobs : <<c, n>> \in WorkerIds
  /\ None \notin Sessions /\ None \notin Process
  /\ None \notin [id : WorkerIds, slot : Slots]
  /\ None \notin [id : WorkerIds, live : BOOLEAN]
  BY NoneAssumption DEF Clients, Sessions, WorkerIds, Process

LEMMA LeasedFacts ==
  /\ IsFiniteSet(Leased) /\ Cardinality(Leased) \in Nat
  /\ IsFiniteSet(Leased') /\ Cardinality(Leased') \in Nat
<1>1. Leased \in SUBSET Slots /\ Leased' \in SUBSET Slots
  BY DEF Leased
<1> QED
  BY <1>1, FiniteAssumption, FS_Subset, FS_CardinalityType

LEMMA FarmInitInductive == FarmInit => FarmInductive
<1> SUFFICES ASSUME FarmInit PROVE FarmInductive
  OBVIOUS
<1>1. FarmTypeOK /\ FarmTyped
  BY BoundAssumption, WorkerFacts DEF FarmInit, Server!ServerInit, FarmTypeOK, FarmTyped
<1>2. Leased = {}
  BY DEF FarmInit, Leased
<1>3. limit \in Nat
  BY ClientAssumption DEF FarmInit
<1>4. LimitKept
  BY <1>2, <1>3, FS_EmptySet DEF LimitKept, Leased
<1> QED
  BY <1>1, <1>4 DEF FarmInit, FarmInductive, FarmShape, BrokerAlone, Polling

LEMMA ServerStep ==
  ASSUME FarmShape, NEW s \in Slots, NEW x \in Sessions,
         \/ Server!Bind(s, x) \/ Server!Poison(s) \/ Server!Unbind(s) \/ Server!Renew(s)
         \/ UNCHANGED server
  PROVE  owner' \in [Slots -> Sessions \cup {None}] /\ lost' \subseteq Slots
  BY DEF FarmShape, FarmTypeOK, Server!Bind, Server!Poison, Server!Unbind, Server!Renew, server

\* What a step leaves of a poll that it is not part of.
LEMMA Elsewhere ==
  ASSUME FarmInductive, UNCHANGED <<lease, limit, lockVars>>,
         lockAt \in {"reclaim", "probe", "write"} => work'[lockBy] = "acquiring",
         ASSUME lockAt \in {"reclaim", "write"}
         PROVE  owner'[target] = None \/ target \in slipped'
  PROVE  BrokerAlone' /\ LimitKept' /\ Polling'
<1>1. Leased' = Leased
  BY DEF Leased
<1>2. Polling'
  BY <1>1 DEF lockVars, FarmInductive, Polling
<1> QED
  BY <1>2 DEF lockVars, FarmInductive, BrokerAlone, LimitKept, Live

\* Nothing is being polled in a lock that is free, or left.
LEMMA NoPoll ==
  ASSUME lockAt' \in {"free", "left"}, LimitKept' PROVE BrokerAlone' /\ LimitKept' /\ Polling'
  BY DEF BrokerAlone, Polling

\* The client processes and their servers.
LEMMA SendFirstStep ==
  ASSUME FarmInductive, NEW c \in Clients, SendFirst(c) PROVE FarmInductive'
<1>1. FarmShape'
  BY DEF SendFirst, FarmInductive, FarmShape, FarmTypeOK, FarmTyped, server, broker, lockVars, worker, farm
<1>2. BrokerAlone' /\ LimitKept' /\ Polling'
  BY Elsewhere DEF SendFirst, FarmInductive, Polling, server, broker, worker
<1> QED
  BY <1>1, <1>2 DEF FarmInductive

LEMMA ArriveStep ==
  ASSUME FarmInductive, NEW p \in flight, Arrive(p) PROVE FarmInductive'
<1>1. p.slot \in Slots /\ p.id \in Sessions
  BY DEF FarmInductive, FarmShape, FarmTyped, Process
<1>2. owner' \in [Slots -> Sessions \cup {None}] /\ lost' \subseteq Slots
  BY <1>1, ServerStep DEF Arrive, FarmInductive
<1>3. slipped' \subseteq Slots
  BY <1>1 DEF Arrive, FarmInductive, FarmShape, FarmTypeOK
<1>4. FarmShape'
  BY <1>2, <1>3 DEF Arrive, FarmInductive, FarmShape, FarmTypeOK, FarmTyped, broker, lockVars, worker, farm
<1>5. ASSUME lockAt \in {"reclaim", "write"} PROVE owner'[target] = None \/ target \in slipped'
  BY <1>1, <1>5 DEF Arrive, Server!Bind, server, FarmInductive, FarmShape, FarmTypeOK, Polling
<1>6. BrokerAlone' /\ LimitKept' /\ Polling'
  BY <1>5, Elsewhere DEF Arrive, FarmInductive, Polling, broker, worker
<1> QED
  BY <1>4, <1>6 DEF FarmInductive

LEMMA FailStep ==
  ASSUME FarmInductive, NEW c \in Clients, Fail(c) \/ FreeServer(c) PROVE FarmInductive'
<1>1. proc[c].slot \in Slots /\ proc[c].id \in Sessions
  BY DEF FarmInductive, FarmShape, FarmTyped, Process, Fail, FreeServer
<1>2. owner' \in [Slots -> Sessions \cup {None}] /\ lost' \subseteq Slots
  BY <1>1, ServerStep DEF Fail, FreeServer, FarmInductive
<1>3. FarmShape'
  BY <1>2 DEF Fail, FreeServer, FarmInductive, FarmShape, FarmTypeOK, FarmTyped, broker, lockVars, worker,
              farm
<1>4. ASSUME lockAt \in {"reclaim", "write"} PROVE owner'[target] = None \/ target \in slipped'
  BY <1>1, <1>4 DEF Fail, FreeServer, Server!Poison, Server!Unbind, FarmInductive, FarmShape, FarmTypeOK,
                    Polling
<1>5. BrokerAlone' /\ LimitKept' /\ Polling'
  BY <1>4, Elsewhere DEF Fail, FreeServer, FarmInductive, Polling, broker, worker
<1> QED
  BY <1>3, <1>5 DEF FarmInductive

LEMMA ConnectStep ==
  ASSUME FarmInductive, NEW c \in Direct, NEW s \in Slots, Connect(c, s) PROVE FarmInductive'
<1>1. PICK n \in 0 .. MaxJobs : n = jobs[c]
  BY WorkerFacts DEF FarmInductive, FarmShape, FarmTyped
<1>2. c \in Clients /\ c \notin Workers
  BY WorkerFacts, ClientAssumption
<1>3. n + 1 \in 1 .. MaxJobs /\ jobs' = [jobs EXCEPT ![c] = n + 1]
  BY <1>1, BoundAssumption DEF Connect, MayBegin
<1>4. jobs'[c] = n + 1
  BY <1>2, <1>3 DEF FarmInductive, FarmShape, FarmTyped
<1>5. [id |-> <<c, jobs'[c]>>, slot |-> s] \in Process
  BY <1>2, <1>3, <1>4, WorkerFacts DEF Process
<1>6. FarmTyped'
  BY <1>2, <1>3, <1>5, WorkerFacts DEF Connect, FarmInductive, FarmShape, FarmTyped, broker, env
<1>7. FarmTypeOK'
  BY DEF Connect, FarmInductive, FarmShape, FarmTypeOK, server, broker, lockVars, farm
<1>8. BrokerAlone' /\ LimitKept' /\ Polling'
  BY Elsewhere DEF Connect, FarmInductive, Polling, server, broker
<1> QED
  BY <1>6, <1>7, <1>8 DEF FarmInductive, FarmShape

LEMMA ExitStep ==
  ASSUME FarmInductive, NEW c \in Clients, Exit(c) PROVE FarmInductive'
<1>1. FarmShape'
  BY DEF Exit, Turns, FarmInductive, FarmShape, FarmTypeOK, FarmTyped, server, broker, lockVars, farm
<1>2. ASSUME lockAt \in {"reclaim", "probe", "write"} PROVE work'[lockBy] = "acquiring"
  BY <1>2 DEF Exit, Turns, FarmInductive, FarmShape, FarmTypeOK, Polling
<1>3. BrokerAlone' /\ LimitKept' /\ Polling'
  BY <1>2, Elsewhere DEF Exit, FarmInductive, Polling, server, broker
<1> QED
  BY <1>1, <1>3 DEF FarmInductive

\* The broker.
LEMMA ExamineStep ==
  ASSUME FarmInductive, NEW c \in Workers, NEW s \in Slots, Examine(c, s) PROVE FarmInductive'
<1>1. FarmShape'
  BY NoneAssumption DEF Examine, Clients, FarmInductive, FarmShape, FarmTypeOK, FarmTyped, env, server, worker, farm
<1>2. Leased' = Leased
  BY DEF Examine, Leased
<1>3. Cardinality(Leased) + 1 <= limit
  <2>1. limit \in Nat
    BY ClientAssumption DEF FarmInductive, FarmShape, FarmTypeOK
  <2> QED
    BY <2>1, LeasedFacts DEF Examine, BelowLimit, Leased
<1>4. Polling'
  BY <1>2, <1>3 DEF Examine, Polling, Free, env, server, worker
<1>5. BrokerAlone' /\ LimitKept'
  BY DEF Examine, FarmInductive, BrokerAlone, LimitKept, Live
<1> QED
  BY <1>1, <1>4, <1>5 DEF FarmInductive

LEMMA ReclaimStep ==
  ASSUME FarmInductive, NEW c \in Workers, Reclaim(c) PROVE FarmInductive'
<1>1. target \in Slots /\ lockBy = c /\ lockAt = "reclaim" /\ limit \in Nat
  BY ClientAssumption DEF Reclaim, InPoll, FarmInductive, FarmShape, FarmTypeOK, Polling
<1>2. lease' \in [Slots -> [id : WorkerIds, live : BOOLEAN] \cup {None}]
      /\ lease'[target] = None
  BY <1>1 DEF Reclaim, FarmInductive, FarmShape, FarmTyped
<1>3. FarmShape'
  BY <1>1, <1>2 DEF Reclaim, FarmInductive, FarmShape, FarmTypeOK, FarmTyped, WorkerIds, env, server, worker,
                    farm
<1>4. Leased' \in SUBSET Leased
  BY DEF Reclaim, Leased, FarmInductive, FarmShape, FarmTyped
<1>5. Cardinality(Leased') <= Cardinality(Leased)
  BY <1>4, LeasedFacts, FS_Subset
<1>6. Cardinality(Leased') + 1 <= limit
  BY <1>1, <1>5, LeasedFacts DEF FarmInductive, Polling
<1>7. LimitKept'
  <2>1. limit' = limit
    BY DEF Reclaim
  <2> QED
    BY <1>1, <1>6, <2>1, LeasedFacts DEF LimitKept, Leased
<1>8. Polling'
  BY <1>1, <1>6 DEF Reclaim, FarmInductive, Polling, worker
<1>9. BrokerAlone'
  BY <1>2 DEF Reclaim, BrokerAlone
<1> QED
  BY <1>3, <1>7, <1>8, <1>9 DEF FarmInductive

LEMMA ProbeStep ==
  ASSUME FarmInductive, NEW c \in Workers, Probe(c) PROVE FarmInductive'
<1>1. FarmShape'
  BY DEF Probe, InPoll, Unlocks, FarmInductive, FarmShape, FarmTypeOK, FarmTyped, env, server, worker, farm
<1>2. Leased' = Leased
  BY DEF Probe, Leased
<1>3. LimitKept'
  BY DEF Probe, FarmInductive, LimitKept
<1>4. CASE Unlocks
  BY <1>1, <1>3, <1>4, NoPoll DEF Unlocks, FarmInductive
<1>5. CASE Free(target) /\ lockAt' = "write" /\ UNCHANGED <<lockBy, target>>
  <2>1. Polling'
    BY <1>2, <1>5 DEF Probe, InPoll, Free, FarmInductive, Polling, env, server, worker
  <2>2. BrokerAlone'
    BY <1>5 DEF Probe, InPoll, FarmInductive, BrokerAlone
  <2> QED
    BY <1>1, <1>3, <2>1, <2>2 DEF FarmInductive
<1> QED
  BY <1>4, <1>5 DEF Probe

\* The lease file that acquire writes is one more than there were.
LEMMA NewLeaseFacts ==
  ASSUME FarmInductive, NEW c \in Workers, InPoll(c, "write"), lease' = NewLease(c), UNCHANGED limit
  PROVE  /\ lease' \in [Slots -> [id : WorkerIds, live : BOOLEAN] \cup {None}]
         /\ <<c, jobs[c]>> \in WorkerIds
         /\ LimitKept'
<1>1. target \in Slots /\ work[c] = "acquiring" /\ limit \in Nat
  BY ClientAssumption DEF InPoll, FarmInductive, FarmShape, FarmTypeOK, Polling
<1>2. jobs[c] \in 1 .. MaxJobs
  BY <1>1, WorkerFacts, BoundAssumption DEF FarmInductive, FarmShape, FarmTyped
<1>3. <<c, jobs[c]>> \in WorkerIds
  BY <1>2, WorkerFacts
<1> DEFINE new == [id |-> <<c, jobs[c]>>, live |-> TRUE]
<1>4. new \in [id : WorkerIds, live : BOOLEAN]
  BY <1>3
<1>5. lease' = [lease EXCEPT ![target] = new]
  BY DEF NewLease
<1> HIDE DEF new
<1>6. lease' \in [Slots -> [id : WorkerIds, live : BOOLEAN] \cup {None}]
  BY <1>1, <1>4, <1>5 DEF FarmInductive, FarmShape, FarmTyped
<1>7. Leased' \in SUBSET (Leased \cup {target})
  BY <1>1, <1>5 DEF Leased, FarmInductive, FarmShape, FarmTyped
<1>8. IsFiniteSet(Leased \cup {target})
      /\ Cardinality(Leased \cup {target}) \in {Cardinality(Leased), Cardinality(Leased) + 1}
  BY LeasedFacts, FS_AddElement
<1>9. Cardinality(Leased') <= Cardinality(Leased \cup {target})
  BY <1>7, <1>8, FS_Subset
<1>10. Cardinality(Leased) + 1 <= limit
  BY DEF InPoll, FarmInductive, Polling
<1>11. Cardinality(Leased') <= limit'
  BY <1>1, <1>8, <1>9, <1>10, LeasedFacts
<1> QED
  BY <1>3, <1>6, <1>11 DEF LimitKept, Leased

LEMMA GrantStep ==
  ASSUME FarmInductive, NEW c \in Workers, Grant(c) PROVE FarmInductive'
<1>1. /\ lease' \in [Slots -> [id : WorkerIds, live : BOOLEAN] \cup {None}]
      /\ <<c, jobs[c]>> \in WorkerIds
      /\ LimitKept'
  BY NewLeaseFacts DEF Grant
<1>2. target \in Slots
  BY DEF Grant, InPoll, FarmInductive, Polling
<1> DEFINE h == [id |-> <<c, jobs[c]>>, slot |-> target]
<1>3. h \in [id : WorkerIds, slot : Slots] /\ h # None
  BY <1>1, <1>2, WorkerFacts
<1>4. handle' = [handle EXCEPT ![c] = h] /\ work' = [work EXCEPT ![c] = "leased"]
  BY DEF Grant, Turns
<1> HIDE DEF h
<1>5. FarmTyped'
  BY <1>1, <1>3, <1>4 DEF Grant, FarmInductive, FarmShape, FarmTyped, env
<1>6. FarmTypeOK'
  <2>1. work' \in [Workers -> {"idle", "acquiring", "leased", "running", "ending", "dead"}]
        /\ \A d \in Workers : (handle'[d] # None) <=> (work'[d] \in {"leased", "running", "ending"})
    BY <1>3, <1>4 DEF FarmInductive, FarmShape, FarmTypeOK, FarmTyped
  <2> QED
    BY <1>1, <2>1 DEF Grant, Unlocks, FarmInductive, FarmShape, FarmTypeOK, WorkerIds, env, server, farm
<1>7. BrokerAlone' /\ Polling'
  BY <1>1, NoPoll DEF Grant, Unlocks
<1> QED
  BY <1>1, <1>5, <1>6, <1>7 DEF FarmInductive, FarmShape

\* A lease that lapses or is renewed keeps its id.
LEMMA Renewal ==
  ASSUME FarmShape, NEW s \in Slots, lease[s] # None, NEW v \in BOOLEAN,
         lease' = [lease EXCEPT ![s].live = v]
  PROVE  /\ lease' \in [Slots -> [id : WorkerIds, live : BOOLEAN] \cup {None}]
         /\ \A t \in Slots : lease[t] = None <=> lease'[t] = None
         /\ \A t \in Slots : lease[t] # None => lease'[t].id = lease[t].id
         /\ \A t \in Slots : t # s => lease'[t] = lease[t]
<1> DEFINE l == lease[s]
<1>1. l \in [id : WorkerIds, live : BOOLEAN]
  BY DEF FarmShape, FarmTyped
<1>2. [l EXCEPT !.live = v] \in [id : WorkerIds, live : BOOLEAN]
      /\ [l EXCEPT !.live = v].id = l.id
  BY <1>1
<1>3. lease' = [lease EXCEPT ![s] = [l EXCEPT !.live = v]]
  OBVIOUS
<1>4. [l EXCEPT !.live = v] # None
  BY <1>2, WorkerFacts
<1> HIDE DEF l
<1> QED
  BY <1>2, <1>3, <1>4 DEF FarmShape, FarmTyped, l

LEMMA ExpireStep ==
  ASSUME FarmInductive, NEW s \in Slots, Expire(s) PROVE FarmInductive'
<1>1. /\ lease' \in [Slots -> [id : WorkerIds, live : BOOLEAN] \cup {None}]
      /\ \A t \in Slots : lease[t] = None <=> lease'[t] = None
      /\ \A t \in Slots : t # s => lease'[t] = lease[t]
  BY Renewal DEF Expire, Live, FarmInductive
<1>2. FarmShape'
  BY <1>1 DEF Expire, FarmInductive, FarmShape, FarmTypeOK, FarmTyped, WorkerIds, lockVars, env, server,
              worker, farm
<1>3. Leased' = Leased
  BY <1>1 DEF Leased
<1>4. LimitKept'
  BY <1>3 DEF Expire, FarmInductive, LimitKept, Leased
<1>5. Polling'
  BY <1>3 DEF Expire, FarmInductive, Polling, lockVars, env, server, worker
<1>6. ASSUME lockAt = "reclaim" PROVE lease'[target] # None /\ ~Live(target)'
  <2>1. target \in Slots /\ lease[target] # None /\ ~Live(target) /\ target' = target
    BY <1>6 DEF Expire, FarmInductive, Polling, BrokerAlone, lockVars
  <2>2. target # s
    BY <2>1 DEF Expire
  <2> QED
    BY <1>1, <2>1, <2>2 DEF Live
<1>7. ASSUME lockAt \in {"probe", "write"} PROVE lease'[target] = None
  BY <1>1, <1>7 DEF FarmInductive, Polling, BrokerAlone
<1>8. BrokerAlone'
  BY <1>6, <1>7 DEF Expire, BrokerAlone, lockVars
<1> QED
  BY <1>2, <1>4, <1>5, <1>8 DEF FarmInductive

\* run_worker.
LEMMA TakeJobStep ==
  ASSUME FarmInductive, NEW c \in Workers, TakeJob(c) PROVE FarmInductive'
<1>1. PICK n \in 0 .. MaxJobs : n = jobs[c]
  BY WorkerFacts DEF FarmInductive, FarmShape, FarmTyped
<1>2. n + 1 \in 1 .. MaxJobs /\ jobs' = [jobs EXCEPT ![c] = n + 1]
  BY <1>1, BoundAssumption DEF TakeJob, MayBegin
<1>3. FarmTypeOK' /\ FarmTyped'
  BY <1>2, WorkerFacts DEF TakeJob, Turns, FarmInductive, FarmShape, FarmTypeOK, FarmTyped, env, server,
                           broker, lockVars, farm
<1>4. BrokerAlone' /\ LimitKept' /\ Polling'
  BY Elsewhere DEF TakeJob, Turns, FarmInductive, FarmShape, FarmTypeOK, Polling, env, server, broker
<1> QED
  BY <1>3, <1>4 DEF FarmInductive, FarmShape

LEMMA WaitStep ==
  ASSUME FarmInductive, NEW c \in Workers, AcquireTimeout(c) \/ ProviderTimeout(c)
  PROVE  FarmInductive'
<1>1. FarmShape'
  BY DEF AcquireTimeout, ProviderTimeout, Turns, FarmInductive, FarmShape, FarmTypeOK, FarmTyped, env,
         server, broker, lockVars, farm
<1>2. ASSUME lockAt \in {"reclaim", "probe", "write"} PROVE work'[lockBy] = "acquiring"
  BY <1>2 DEF AcquireTimeout, ProviderTimeout, Turns, FarmInductive, FarmShape, FarmTypeOK, Polling
<1>3. BrokerAlone' /\ LimitKept' /\ Polling'
  BY <1>2, Elsewhere DEF AcquireTimeout, ProviderTimeout, FarmInductive, Polling, env, server, broker
<1> QED
  BY <1>1, <1>3 DEF FarmInductive

LEMMA StartStep ==
  ASSUME FarmInductive, NEW c \in Workers, Start(c) PROVE FarmInductive'
<1>1. handle[c] \in Process
  BY WorkerFacts DEF Start, FarmInductive, FarmShape, FarmTypeOK, FarmTyped
<1>2. FarmShape'
  BY <1>1, WorkerFacts DEF Start, Turns, FarmInductive, FarmShape, FarmTypeOK, FarmTyped, server, broker,
                           lockVars, farm
<1>3. ASSUME lockAt \in {"reclaim", "probe", "write"} PROVE work'[lockBy] = "acquiring"
  BY <1>3 DEF Start, Turns, FarmInductive, FarmShape, FarmTypeOK, Polling
<1>4. BrokerAlone' /\ LimitKept' /\ Polling'
  BY <1>3, Elsewhere DEF Start, FarmInductive, Polling, server, broker
<1> QED
  BY <1>2, <1>4 DEF FarmInductive

\* Renewing and removing one's own lease.
LEMMA OwnLease ==
  ASSUME FarmInductive, NEW c \in Workers, work[c] \in {"running", "ending"}, Holds(c), UNCHANGED limit,
         lease' = Renewed(c) \/ lease' = Removed(c)
  PROVE  lease' \in [Slots -> [id : WorkerIds, live : BOOLEAN] \cup {None}] /\ LimitKept'
<1>1. handle[c].slot \in Slots /\ limit \in Nat
  BY ClientAssumption DEF FarmInductive, FarmShape, FarmTypeOK, FarmTyped
<1>2. lease' \in [Slots -> [id : WorkerIds, live : BOOLEAN] \cup {None}] /\ Leased' \in SUBSET Leased
  <2>1. CASE lease' = Renewed(c)
    BY <1>1, <2>1, Renewal DEF FarmInductive, Renewed, Holds, Leased
  <2>2. CASE lease' = Removed(c)
    BY <1>1, <2>2 DEF FarmInductive, FarmShape, FarmTyped, Removed, Leased
  <2> QED
    BY <2>1, <2>2
<1>3. Cardinality(Leased') <= Cardinality(Leased)
  BY <1>2, LeasedFacts, FS_Subset
<1>4. Cardinality(Leased) <= limit
  BY DEF FarmInductive, LimitKept, Leased
<1>5. Cardinality(Leased') <= limit'
  BY <1>1, <1>3, <1>4, LeasedFacts
<1> QED
  BY <1>2, <1>5 DEF LimitKept, Leased

LEMMA HeartbeatStep ==
  ASSUME FarmInductive, NEW c \in Workers, Heartbeat(c) PROVE FarmInductive'
<1>1. lease' \in [Slots -> [id : WorkerIds, live : BOOLEAN] \cup {None}] /\ LimitKept'
  BY OwnLease DEF Heartbeat
<1>2. FarmShape'
  BY <1>1 DEF Heartbeat, FarmInductive, FarmShape, FarmTypeOK, FarmTyped, WorkerIds, lockVars, env, server,
              worker, farm
<1>3. BrokerAlone' /\ Polling'
  BY <1>1, NoPoll DEF Heartbeat, lockVars, FarmInductive, FarmShape, FarmTypeOK
<1> QED
  BY <1>1, <1>2, <1>3 DEF FarmInductive

LEMMA HeartbeatRaisesStep ==
  ASSUME FarmInductive, NEW c \in Workers, HeartbeatRaises(c) PROVE FarmInductive'
<1>1. FarmShape'
  BY WorkerFacts DEF HeartbeatRaises, Turns, FarmInductive, FarmShape, FarmTypeOK, FarmTyped, server, broker,
                     lockVars, farm
<1>2. ASSUME lockAt \in {"reclaim", "probe", "write"} PROVE work'[lockBy] = "acquiring"
  BY <1>2 DEF HeartbeatRaises, Turns, FarmInductive, FarmShape, FarmTypeOK, Polling
<1>3. BrokerAlone' /\ LimitKept' /\ Polling'
  BY <1>2, Elsewhere DEF HeartbeatRaises, FarmInductive, Polling, server, broker
<1> QED
  BY <1>1, <1>3 DEF FarmInductive

\* A worker that gives up its handle.
LEMMA HandleGone ==
  ASSUME FarmShape, NEW c \in Workers, NEW to \in {"idle", "dead"}, Turns(c, to),
         handle' = [handle EXCEPT ![c] = None]
  PROVE  /\ work' \in [Workers -> {"idle", "acquiring", "leased", "running", "ending", "dead"}]
         /\ handle' \in [Workers -> [id : WorkerIds, slot : Slots] \cup {None}]
         /\ \A d \in Workers : (handle'[d] # None) <=> (work'[d] \in {"leased", "running", "ending"})
         /\ \A d \in Workers : work'[d] = "acquiring" => work[d] = "acquiring"
  BY DEF Turns, FarmShape, FarmTypeOK, FarmTyped

LEMMA ReleaseStep ==
  ASSUME FarmInductive, NEW c \in Workers, Release(c) PROVE FarmInductive'
<1>1. lease' \in [Slots -> [id : WorkerIds, live : BOOLEAN] \cup {None}] /\ LimitKept'
  <2>1. CASE Holds(c)
    BY <2>1, OwnLease DEF Release
  <2>2. CASE lease[handle[c].slot] = None
    <3>1. lease' = lease
      BY <2>2 DEF Release, Removed, FarmInductive, FarmShape, FarmTyped
    <3> QED
      BY <3>1 DEF Release, FarmInductive, FarmShape, FarmTyped, LimitKept
  <2> QED
    BY <2>1, <2>2 DEF Release
<1>2. FarmShape'
  <2>1. /\ work' \in [Workers -> {"idle", "acquiring", "leased", "running", "ending", "dead"}]
        /\ handle' \in [Workers -> [id : WorkerIds, slot : Slots] \cup {None}]
        /\ \A d \in Workers : (handle'[d] # None) <=> (work'[d] \in {"leased", "running", "ending"})
        /\ \A d \in Workers : work'[d] = "acquiring" => work[d] = "acquiring"
    BY HandleGone DEF Release, FarmInductive
  <2>2. UNCHANGED <<owner, lost, up, proc, flight, limit, lockBy, lockAt, target, jobs, crashes>>
        /\ UNCHANGED <<status, restarts, seen, observed, slipped>>
    BY DEF Release, env, server, lockVars, farm
  <2>3. FarmTyped'
    BY <1>1, <2>1, <2>2 DEF FarmInductive, FarmShape, FarmTyped
  <2>4. FarmTypeOK'
    BY <1>1, <2>1, <2>2 DEF FarmInductive, FarmShape, FarmTypeOK, WorkerIds
  <2> QED
    BY <2>3, <2>4 DEF FarmShape
<1>3. BrokerAlone' /\ Polling'
  BY <1>1, NoPoll DEF Release, lockVars, FarmInductive, FarmShape, FarmTypeOK
<1> QED
  BY <1>1, <1>2, <1>3 DEF FarmInductive

LEMMA ReleaseRaisesStep ==
  ASSUME FarmInductive, NEW c \in Workers, ReleaseRaises(c) \/ Crash(c) PROVE FarmInductive'
<1>1. FarmShape'
  <2>1. FarmTyped'
    BY HandleGone DEF ReleaseRaises, Crash, Dies, FarmInductive, FarmShape, FarmTyped, env
  <2> QED
    BY <2>1, HandleGone DEF ReleaseRaises, Crash, Dies, FarmInductive, FarmShape, FarmTypeOK, lockVars, env,
                            server, farm
<1>2. ASSUME lockAt \in {"reclaim", "probe", "write"} PROVE work'[lockBy] = "acquiring"
  BY <1>2 DEF ReleaseRaises, Crash, Dies, Turns, FarmInductive, FarmShape, FarmTypeOK, Polling
<1>3. BrokerAlone' /\ LimitKept' /\ Polling'
  BY <1>2, Elsewhere DEF ReleaseRaises, Crash, Dies, FarmInductive, Polling, env, server
<1> QED
  BY <1>1, <1>3 DEF FarmInductive

LEMMA CrashInBrokerStep ==
  ASSUME FarmInductive, NEW c \in Workers, CrashInBroker(c) PROVE FarmInductive'
<1>1. lease' \in [Slots -> [id : WorkerIds, live : BOOLEAN] \cup {None}] /\ LimitKept'
  <2>1. CASE UNCHANGED lease
    BY <2>1 DEF CrashInBroker, Dies, FarmInductive, FarmShape, FarmTyped, LimitKept
  <2>2. CASE InPoll(c, "write") /\ lease' = NewLease(c)
    BY <2>2, NewLeaseFacts DEF CrashInBroker, Dies
  <2>3. CASE work[c] \in {"running", "ending"} /\ Holds(c) /\ (lease' = Renewed(c) \/ lease' = Removed(c))
    BY <2>3, OwnLease DEF CrashInBroker, Dies
  <2> QED
    BY <2>1, <2>2, <2>3 DEF CrashInBroker
<1>2. FarmShape'
  <2>1. /\ work' \in [Workers -> {"idle", "acquiring", "leased", "running", "ending", "dead"}]
        /\ handle' \in [Workers -> [id : WorkerIds, slot : Slots] \cup {None}]
        /\ \A d \in Workers : (handle'[d] # None) <=> (work'[d] \in {"leased", "running", "ending"})
        /\ \A d \in Workers : work'[d] = "acquiring" => work[d] = "acquiring"
    BY HandleGone DEF CrashInBroker, Dies, FarmInductive
  <2>2. UNCHANGED <<owner, lost, up, proc, flight, limit, jobs, status, restarts, seen, observed, slipped>>
        /\ crashes' \in Nat
    BY DEF CrashInBroker, Dies, FarmInductive, FarmShape, FarmTyped, env, server, farm
  <2>3. lockBy' \in Workers /\ lockBy' # None /\ lockAt' = "left" /\ target' = None
    BY NoneAssumption DEF CrashInBroker, Clients
  <2>4. FarmTyped'
    BY <1>1, <2>1, <2>2 DEF FarmInductive, FarmShape, FarmTyped
  <2>5. FarmTypeOK'
    BY <1>1, <2>1, <2>2, <2>3 DEF FarmInductive, FarmShape, FarmTypeOK, WorkerIds
  <2> QED
    BY <2>4, <2>5 DEF FarmShape
<1>3. BrokerAlone' /\ Polling'
  BY <1>1, NoPoll DEF CrashInBroker
<1> QED
  BY <1>1, <1>2, <1>3 DEF FarmInductive

\* The supervisor.
LEMMA PollStep ==
  ASSUME FarmInductive, NEW s \in Slots, PollHealth(s) \/ PollFails(s) \/ PollLease(s) \/ Ready(s)
  PROVE  FarmInductive'
<1>1. FarmTypeOK'
  <2>1. CASE PollHealth(s)
    BY <2>1 DEF PollHealth, FarmInductive, FarmShape, FarmTypeOK, env, server, broker, lockVars, worker
  <2>2. CASE PollFails(s)
    BY <2>2 DEF PollFails, FarmInductive, FarmShape, FarmTypeOK, env, server, broker, lockVars, worker
  <2>3. CASE PollLease(s)
    BY <2>3 DEF PollLease, FarmInductive, FarmShape, FarmTypeOK, env, server, broker, lockVars, worker
  <2>4. CASE Ready(s)
    BY <2>4 DEF Ready, FarmInductive, FarmShape, FarmTypeOK, env, server, broker, lockVars, worker
  <2> QED
    BY <2>1, <2>2, <2>3, <2>4
<1>2. UNCHANGED <<env, broker, worker, slipped>>
  BY DEF PollHealth, PollFails, PollLease, Ready
<1>3. FarmTyped'
  BY <1>2 DEF FarmInductive, FarmShape, FarmTyped, env, broker, worker
<1>4. BrokerAlone' /\ LimitKept' /\ Polling'
  BY <1>2, Elsewhere DEF FarmInductive, Polling, env, server, broker, worker
<1> QED
  BY <1>1, <1>3, <1>4 DEF FarmInductive, FarmShape

LEMMA KillStep ==
  ASSUME FarmInductive, NEW s \in Slots, Kill(s) PROVE FarmInductive'
<1>1. owner' \in [Slots -> Sessions \cup {None}] /\ lost' \subseteq Slots
  BY DEF Kill, FarmInductive, FarmShape, FarmTypeOK, Server!Renew
<1>2. FarmShape'
  BY <1>1 DEF Kill, FarmInductive, FarmShape, FarmTypeOK, FarmTyped, broker, lockVars, worker
<1>3. ASSUME lockAt \in {"reclaim", "write"} PROVE owner'[target] = None \/ target \in slipped'
  BY <1>3 DEF Kill, Server!Renew, FarmInductive, FarmShape, FarmTypeOK, Polling
<1>4. BrokerAlone' /\ LimitKept' /\ Polling'
  BY <1>3, Elsewhere DEF Kill, FarmInductive, Polling, broker, worker
<1> QED
  BY <1>2, <1>4 DEF FarmInductive

LEMMA RelaunchStep ==
  ASSUME FarmInductive, NEW s \in Slots, Relaunch(s) PROVE FarmInductive'
<1>1. PICK n \in 0 .. RestartLimit : n = restarts[s]
  BY DEF FarmInductive, FarmShape, FarmTypeOK
<1>2. restarts' \in [Slots -> 0 .. RestartLimit]
  <2>1. CASE n < RestartLimit
    <3>1. n + 1 \in 0 .. RestartLimit /\ restarts' = [restarts EXCEPT ![s] = n + 1]
      BY <1>1, <2>1, BoundAssumption DEF Relaunch
    <3> QED
      BY <3>1 DEF FarmInductive, FarmShape, FarmTypeOK
  <2>2. CASE ~(n < RestartLimit)
    BY <1>1, <2>2 DEF Relaunch, FarmInductive, FarmShape, FarmTypeOK
  <2> QED
    BY <2>1, <2>2
<1>3. /\ status' \in [Slots -> {"ready", "restarting", "quarantined"}]
      /\ seen' \in [Slots -> {None, "bound", "kill"}]
      /\ up' \subseteq Slots /\ observed' \subseteq Slots
  BY DEF Relaunch, FarmInductive, FarmShape, FarmTypeOK
<1>4. FarmShape'
  BY <1>2, <1>3 DEF Relaunch, FarmInductive, FarmShape, FarmTypeOK, FarmTyped, server, broker, lockVars,
                    worker
<1>5. BrokerAlone' /\ LimitKept' /\ Polling'
  BY Elsewhere DEF Relaunch, FarmInductive, Polling, server, broker, worker
<1> QED
  BY <1>4, <1>5 DEF FarmInductive

LEMMA FarmNextInductive == FarmInductive /\ [FarmNext]_farmVars => FarmInductive'
<1> SUFFICES ASSUME FarmInductive, [FarmNext]_farmVars PROVE FarmInductive'
  OBVIOUS
<1>1. ASSUME NEW c \in Clients, ClientStep(c) PROVE FarmInductive'
  BY <1>1, SendFirstStep, FailStep, ExitStep DEF ClientStep
<1>2. ASSUME NEW c \in Workers, WorkerStep(c) PROVE FarmInductive'
  BY <1>2, ExamineStep, ReclaimStep, ProbeStep, GrantStep, TakeJobStep, WaitStep, StartStep, HeartbeatStep,
     HeartbeatRaisesStep, ReleaseStep, ReleaseRaisesStep, CrashInBrokerStep
     DEF WorkerStep, Acquire
<1>3. ASSUME NEW s \in Slots, Expire(s) \/ FarmStep(s) PROVE FarmInductive'
  BY <1>3, ExpireStep, PollStep, KillStep, RelaunchStep DEF FarmStep
<1>4. CASE UNCHANGED farmVars
  BY <1>4 DEF farmVars, env, server, broker, lockVars, worker, farm, FarmInductive, FarmShape, FarmTypeOK,
              FarmTyped, BrokerAlone, LimitKept, Polling, Live, Leased
<1> QED
  BY ArriveStep, ConnectStep, <1>4, <1>3, <1>2, <1>1 DEF FarmNext

\* A poll of acquire acts on a lease file as it read it, and only while there is room for
\* a lease; between two steps of a poll the server it asked stays free or has slipped
\* (EnvironmentSlotBroker.acquire under directory_lock).
THEOREM FarmInvariant == FarmSpec => []FarmInductive
  BY FarmInitInductive, FarmNextInductive, PTL DEF FarmSpec

\* The broker removes expired leases only and writes where no file is, and no more slots
\* are leased than maximum_active_slots, in a farm of any size and for any limit.
THEOREM FarmTheorem == FarmSpec => [](FarmInv /\ LimitKept)
<1>1. FarmInductive => FarmInv /\ LimitKept
  BY DEF FarmInductive, FarmShape, FarmInv
<1> QED
  BY <1>1, FarmInvariant, PTL

\* The lease of a bound slot that has not slipped changes its name by its holder's
\* release alone: heartbeats and time keep the id, and a poll is at free or slipped slots.
LEMMA LeaseEnds ==
  ASSUME FarmInductive, [FarmNext]_farmVars, NEW s \in Slots, owner[s] # None,
         Named(lease'[s]) # Named(lease[s]), s \notin slipped
  PROVE  \E c \in Workers : work[c] = "ending" /\ lockBy = None /\ Holds(c) /\ handle[c].slot = s
<1>1. lease'[s] # lease[s] /\ lease' # lease
  BY DEF Named
<1>2. ASSUME NEW v \in BOOLEAN, NEW t \in Slots, lease[t] # None, lease' = [lease EXCEPT ![t].live = v]
      PROVE  FALSE
  BY <1>2, Renewal DEF FarmInductive, Named
<1>3. ASSUME NEW c \in Workers, Reclaim(c) \/ (InPoll(c, "write") /\ lease' = NewLease(c)) PROVE FALSE
  <2>1. target = s
    BY <1>1, <1>3 DEF Reclaim, NewLease, FarmInductive, FarmShape, FarmTyped
  <2>2. lockAt \in {"reclaim", "write"}
    BY <1>3 DEF Reclaim, InPoll
  <2> QED
    BY <2>1, <2>2 DEF FarmInductive, Polling
<1>4. ASSUME NEW t \in Slots, Expire(t) PROVE FALSE
  BY <1>2, <1>4 DEF Expire, Live
<1>5. ASSUME NEW c \in Workers, work[c] \in {"running", "ending"}, Holds(c), lease' = Renewed(c) PROVE FALSE
  <2>1. handle[c].slot \in Slots
    BY <1>5 DEF FarmInductive, FarmShape, FarmTypeOK, FarmTyped
  <2> QED
    BY <1>2, <1>5, <2>1 DEF Renewed, Holds
<1>6. ASSUME NEW c \in Workers, work[c] = "ending", lockBy = None,
             Holds(c) \/ lease[handle[c].slot] = None, lease' = Removed(c)
      PROVE  \E d \in Workers : work[d] = "ending" /\ lockBy = None /\ Holds(d) /\ handle[d].slot = s
  <2>1. handle[c].slot \in Slots
    BY <1>6 DEF FarmInductive, FarmShape, FarmTypeOK, FarmTyped
  <2>2. handle[c].slot = s /\ lease[s] # None
    BY <1>1, <1>6, <2>1 DEF Removed, FarmInductive, FarmShape, FarmTyped
  <2> QED
    BY <1>6, <2>2
<1>7. \/ lease' = lease
      \/ \E c \in Workers : \/ Reclaim(c) \/ Grant(c) \/ Heartbeat(c) \/ Release(c)
                            \/ CrashInBroker(c)
      \/ \E t \in Slots : Expire(t)
  BY DEF FarmNext, farmVars, ClientStep, WorkerStep, Acquire, FarmStep, SendFirst, Fail, FreeServer, Exit,
         Arrive, Connect, Examine, Probe, TakeJob, AcquireTimeout, Start, ProviderTimeout, HeartbeatRaises,
         ReleaseRaises, Crash, PollHealth, PollFails, PollLease, Kill, Relaunch, Ready, broker
<1>8. ASSUME NEW c \in Workers, Grant(c) \/ Heartbeat(c) \/ Release(c) \/ CrashInBroker(c)
      PROVE  \E d \in Workers : work[d] = "ending" /\ lockBy = None /\ Holds(d) /\ handle[d].slot = s
  BY <1>1, <1>3, <1>5, <1>6, <1>8 DEF Grant, Heartbeat, Release, CrashInBroker
<1> QED
  BY <1>1, <1>3, <1>4, <1>7, <1>8

\* No step but the holder's own release takes the lease from a bound server, expired or
\* not, unless the session was bound while acquire was between a FREE answer and the
\* unlink or the write it allows (EnvironmentSlotBroker.acquire).
THEOREM LeaseTheorem == FarmSpec => BoundKeepsLease
<1>1. FarmInductive /\ [FarmNext]_farmVars =>
        [\A s \in Slots :
           owner[s] # None /\ Named(lease'[s]) # Named(lease[s])
           => \/ s \in slipped
              \/ \E c \in Workers : /\ work[c] = "ending" /\ lockBy = None
                                    /\ Holds(c) /\ handle[c].slot = s]_farmVars
  BY LeaseEnds
<1> QED
  BY <1>1, FarmInvariant, PTL DEF FarmSpec, BoundKeepsLease
=============================================================================
