---------------------------- MODULE LockstepPool ----------------------------
(***************************************************************************)
(* A vector pool of the env worker: one simulator with a lane per session  *)
(* that can only be stepped as a whole.  The SlotGroupCoalescer merges the *)
(* chunks of several sessions into one core call, lanes without an action  *)
(* are carried by a hold action, and the worker reads the lanes' state     *)
(* back before it trusts its own copy (workers/env_worker.py;              *)
(* run_lockstep_chunk of backends/rlinf_family.py).                        *)
(*                                                                         *)
(* Core calls run one at a time under the pool's core_lock, which their    *)
(* caller holds until it has applied the answer: each is one action.       *)
(* A frame is abstracted to whether the worker's copy is the core's, and   *)
(* masked_steps to whether the worker's watermark differs from it.         *)
(***************************************************************************)
EXTENDS Naturals, FiniteSets

CONSTANTS Lanes,       \* the pool's slots, each with a session
          Lens,        \* chunk lengths; chunks of different lengths do not merge
          CoreMayFail  \* whether core calls may raise

ASSUME FailAssumption == CoreMayFail \in BOOLEAN

VARIABLES
  started,   \* core: lanes reset at least once
  fin,       \* core: lanes that are frozen (terminated or truncated)
  masked,    \* core: lanes with masked_steps > 0
  episode,   \* worker: slots with an episode_id
  wFin,      \* worker: slots whose copy says terminated or truncated
  behind,    \* lanes whose masked_steps differ from masked_steps_seen
  fresh,     \* slots whose last_observation is the lane's latest frame
  pc,        \* where the slot's operation is
  stale,     \* the slots whose frames the operation is about to read
  open,      \* the coalescing group of each length that takes registrants
  fired,     \* groups that are closed and wait for the core
  current,   \* history: the frame was the latest one since the operation began, or
             \* the lanes could not be read
  unread,    \* history: a core call raised, so that nobody reads the latest frame
  told       \* history: the last answer to each client

core == <<started, fin, masked>>
copy == <<episode, wFin, behind, fresh>>
groups == <<open, fired>>
vars == <<core, copy, pc, stale, groups, current, unread, told>>

Init ==
  /\ started = {} /\ fin = {} /\ masked = {}
  /\ episode = {} /\ wFin = {} /\ behind = {} /\ fresh = {}
  /\ pc = [l \in Lanes |-> "idle"] /\ stale = [l \in Lanes |-> {}]
  /\ open = [n \in Lens |-> {}] /\ fired = {}
  /\ current = {} /\ unread = {} /\ told = [l \in Lanes |-> "none"]

Goto(l, to) == pc' = [pc EXCEPT ![l] = to]
Tell(l, what) == told' = [told EXCEPT ![l] = what]

-----------------------------------------------------------------------------
(* Sessions and episodes.                                                  *)

\* begin_episode in the core, and reset of the SessionSlot: the watermark stays.
Reset(l) ==
  /\ pc[l] = "idle"
  /\ started' = started \cup {l} /\ fin' = fin \ {l}
  /\ episode' = episode \cup {l} /\ wFin' = wFin \ {l}
  /\ fresh' = fresh \cup {l}
  /\ unread' = unread \ {l}
  /\ Tell(l, "going")
  /\ UNCHANGED <<masked, behind, pc, stale, groups, current>>

\* The session is released and another one bound to the lane: a new SessionSlot
\* over the lane as it is.
Rebind(l) ==
  /\ pc[l] = "idle"
  /\ episode' = episode \ {l} /\ wFin' = wFin \ {l}
  /\ behind' = IF l \in masked THEN behind \cup {l} ELSE behind \ {l}
  /\ fresh' = fresh \ {l}
  /\ Tell(l, "none")
  /\ UNCHANGED <<core, pc, stale, groups, current, unread>>

\* policy_step reads the lanes before the inference and again before the step,
\* action_step only before the step.
Begin(l) ==
  /\ pc[l] = "idle" /\ l \in episode
  /\ \/ Goto(l, "status1") \/ Goto(l, "status2")
  /\ current' = IF l \in fresh THEN current \cup {l} ELSE current \ {l}
  /\ UNCHANGED <<core, copy, stale, groups, unread, told>>

-----------------------------------------------------------------------------
(* _step_slot and SlotGroupCoalescer.submit.                               *)

Running(finished) == episode \ finished

\* With one running lane the chunk goes to the core alone; otherwise it joins the
\* group of its length, as leader if nobody is there.
Submit(l, n, finished) ==
  IF Cardinality(Running(finished)) <= 1
  THEN fired' = fired \cup {{l}} /\ UNCHANGED open
  ELSE open' = [open EXCEPT ![n] = @ \cup {l}] /\ UNCHANGED fired

\* What follows a readback: _require_running_episode, then inference or the chunk.
Proceed(l, finished) ==
  IF l \in finished
  THEN Goto(l, "idle") /\ Tell(l, "over") /\ UNCHANGED groups
  ELSE /\ UNCHANGED told
       /\ IF pc[l] \in {"status1", "observe1"}
          THEN Goto(l, "infer") /\ UNCHANGED groups
          ELSE Goto(l, "wait") /\ \E n \in Lens : Submit(l, n, finished)

-----------------------------------------------------------------------------
(* _sync_lockstep_pool and _refresh_lockstep_observations.                 *)

ToObserve(l) == IF pc[l] = "status1" THEN "observe1" ELSE "observe2"

\* Mutant of Status: the watermark is taken over without reading the frame.
StatusForgetsFrames(l) ==
  /\ pc[l] \in {"status1", "status2"}
  /\ wFin' = wFin \cup (fin \cap episode)
  /\ behind' = behind \ episode
  /\ stale' = [stale EXCEPT ![l] = (behind \cap {l}) \ wFin]
  /\ current' = IF l \in fresh THEN current \cup {l} ELSE current
  /\ IF stale'[l] = {}
     THEN Proceed(l, wFin')
     ELSE Goto(l, ToObserve(l)) /\ UNCHANGED <<groups, told>>
  /\ UNCHANGED <<core, episode, fresh, unread>>

\* lane_status of the whole pool, applied to every slot with an episode; frames
\* are read again where the watermark moved and the copy was still running.
Status(l) ==
  /\ pc[l] \in {"status1", "status2"}
  /\ wFin' = wFin \cup (fin \cap episode)
  /\ behind' = behind \ episode
  /\ stale' = [stale EXCEPT ![l] = (behind \cap episode) \ wFin]
  /\ current' = IF l \in fresh THEN current \cup {l} ELSE current
  /\ IF stale'[l] = {}
     THEN Proceed(l, wFin')
     ELSE Goto(l, ToObserve(l)) /\ UNCHANGED <<groups, told>>
  /\ UNCHANGED <<core, episode, fresh, unread>>

\* A readback that raises is swallowed.
StatusFails(l) ==
  /\ CoreMayFail
  /\ pc[l] \in {"status1", "status2"}
  /\ current' = current \cup {l}
  /\ Proceed(l, wFin)
  /\ UNCHANGED <<core, copy, stale, unread>>

Observe(l) ==
  /\ pc[l] \in {"observe1", "observe2"}
  /\ fresh' = fresh \cup stale[l]
  /\ current' = current \cup stale[l]
  /\ unread' = unread \ stale[l]
  /\ stale' = [stale EXCEPT ![l] = {}]
  /\ Proceed(l, wFin)
  /\ UNCHANGED <<core, episode, wFin, behind>>

ObserveFails(l) ==
  /\ CoreMayFail
  /\ pc[l] \in {"observe1", "observe2"}
  /\ unread' = unread \cup stale[l]
  /\ stale' = [stale EXCEPT ![l] = {}]
  /\ Proceed(l, wFin)
  /\ UNCHANGED <<core, copy, current>>

InferenceDone(l) ==
  /\ pc[l] = "infer"
  /\ Goto(l, "status2")
  /\ UNCHANGED <<core, copy, stale, groups, current, unread, told>>

-----------------------------------------------------------------------------
(* _fire, _abandon and run_lockstep_chunk.                                 *)

\* Mutant of Fire: the leader's chunk goes, the group is forgotten.
FireLeaderOnly(n) ==
  /\ open[n] # {}
  /\ \E leader \in open[n] : fired' = fired \cup {{leader}}
  /\ open' = [open EXCEPT ![n] = {}]
  /\ UNCHANGED <<core, copy, pc, stale, current, unread, told>>

\* Mutant of Fire: the group that is executed still takes registrants.
FireKeepsOpen(n) ==
  /\ open[n] # {}
  /\ fired' = fired \cup {open[n]}
  /\ UNCHANGED <<core, copy, pc, stale, open, current, unread, told>>

\* Everybody is here or the window is over: the leader closes the group.
Fire(n) ==
  /\ open[n] # {}
  /\ fired' = fired \cup {open[n]}
  /\ open' = [open EXCEPT ![n] = {}]
  /\ UNCHANGED <<core, copy, pc, stale, current, unread, told>>

\* Mutant of Reports: the flags of a lane that was over come from its empty steps.
ReportsOwnSteps(g, done) == g \cap (done \ fin)

\* Members of group g whose outcome says the episode is over.
Reports(g, done) == g \cap done

\* Every lane moves.  Members end with the group's last step, the others at any
\* step; done is who has ended after it.
ChunkSteps(g, done) ==
  /\ fin \subseteq done
  /\ fin' = done
  /\ masked' = masked \cup (Lanes \ g)
  /\ behind' = behind \cup (Lanes \ g)
  /\ UNCHANGED <<started, episode>>

\* All members are answered: each takes its flags and its frame.
Execute(g) ==
  /\ started = Lanes
  /\ \E done \in SUBSET Lanes :
       /\ ChunkSteps(g, done)
       /\ wFin' = wFin \cup Reports(g, done)
  /\ fresh' = g /\ unread' = unread \ g
  /\ pc' = [l \in Lanes |-> IF l \in g THEN "idle" ELSE pc[l]]
  /\ told' = [l \in Lanes |-> IF l \notin g THEN told[l]
                              ELSE IF l \in wFin' THEN "over" ELSE "going"]
  /\ fired' = fired \ {g}
  /\ UNCHANGED <<stale, open, current>>

\* The call raises, because a lane was never reset or in the simulator, perhaps
\* after some steps: the whole group gets the exception.
ExecuteFails(g) ==
  /\ \/ started # Lanes /\ UNCHANGED <<core, copy, unread>>
     \/ /\ CoreMayFail /\ started = Lanes
        /\ \/ UNCHANGED <<core, copy, unread>>
           \/ /\ \E done \in SUBSET Lanes : ChunkSteps(g, done)
              /\ fresh' = {} /\ unread' = unread \cup g
              /\ UNCHANGED wFin
  /\ pc' = [l \in Lanes |-> IF l \in g THEN "idle" ELSE pc[l]]
  /\ told' = [l \in Lanes |-> IF l \in g THEN "error" ELSE told[l]]
  /\ fired' = fired \ {g}
  /\ UNCHANGED <<stale, open, current>>

-----------------------------------------------------------------------------
ReadBack(l) == Status(l) \/ StatusFails(l) \/ Observe(l) \/ ObserveFails(l)

Next ==
  \/ \E l \in Lanes : Reset(l) \/ Rebind(l) \/ Begin(l) \/ InferenceDone(l) \/ ReadBack(l)
  \/ \E n \in Lens : Fire(n)
  \/ \E g \in fired : Execute(g) \/ ExecuteFails(g)

\* The core lock is fair and core calls end, inference ends, the window's timer
\* goes off.  No client has to begin anything.
Spec ==
  /\ Init /\ [][Next]_vars
  /\ \A l \in Lanes : WF_vars(ReadBack(l)) /\ WF_vars(InferenceDone(l))
  /\ \A n \in Lens : WF_vars(Fire(n))
  /\ \A g \in SUBSET Lanes : WF_vars(g \in fired /\ (Execute(g) \/ ExecuteFails(g)))

-----------------------------------------------------------------------------
\* The worker's slots and the core's lanes have the values the code gives them.
TypeOK ==
  /\ started \subseteq Lanes /\ fin \subseteq started /\ masked \subseteq Lanes
  /\ episode \subseteq started /\ wFin \subseteq episode
  /\ behind \subseteq masked /\ fresh \subseteq Lanes
  /\ pc \in [Lanes -> {"idle", "status1", "observe1", "infer", "status2", "observe2",
                       "wait"}]
  /\ stale \in [Lanes -> SUBSET Lanes]
  /\ open \in [Lens -> SUBSET Lanes] /\ fired \subseteq SUBSET Lanes
  /\ current \subseteq Lanes /\ unread \subseteq Lanes
  /\ told \in [Lanes -> {"none", "going", "over", "error"}]

\* The worker never calls an episode over that the environment has not ended,
\* although readbacks write the flags of other sessions' slots while these reset
\* and are bound anew ("success is determined solely by the environment's
\* termination signal").
NoFalseEnd == wFin \subseteq fin

\* A registered chunk is in exactly one group, open or on its way to the core,
\* until it is answered, and nothing else is: no chunk is executed twice and no
\* follower is left behind (submit, _fire).
OneGroup ==
  \A l \in Lanes :
    Cardinality({n \in Lens : l \in open[n]}) + Cardinality({g \in fired : l \in g})
      = IF pc[l] = "wait" THEN 1 ELSE 0

\* A client that is told that its episode goes on has a lane that goes on: an end
\* that came by a hold action, between its readback and its group, is told too
\* (frozen_participants).
EndIsTold ==
  [][\A l \in Lanes : pc[l] = "wait" /\ pc'[l] = "idle" /\ told'[l] = "going"
        => l \notin fin']_vars

\* Each registrant is answered: "a dangling follower would keep holding
\* slot.active_op forever".
Resolved == \A l \in Lanes : pc[l] = "wait" ~> pc[l] = "idle"

\* Inference runs on a frame that was the latest one at some moment since the
\* operation began (_policy_step_inner: "rather than run inference on a stale
\* frame"), unless another operation's resync has taken over the refresh of this
\* lane and is still waiting for the core, or a core call has raised: whatever
\* resets, chunks and rebinds come between, no refresh is forgotten.
FrameRefreshed ==
  \A l \in Lanes : pc[l] = "infer" =>
    l \in current \cup unread \/ \E m \in Lanes \ {l} : l \in stale[m]

\* The coalescer and the worker's copy of the lanes: a chunk in one group until
\* it is answered, and no end of an episode that the core has not seen.
GroupInv == TypeOK /\ NoFalseEnd /\ OneGroup
=============================================================================
