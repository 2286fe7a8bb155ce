--------------------------- MODULE OperationPlane ---------------------------
(***************************************************************************)
(* The operations of one session, from the client's call to the env worker *)
(* and back: _dispatch_one, cancel_request and _absorb_late_result of      *)
(* gateway.py, the idempotency table (operation_registry.py), the command, *)
(* control and result channels (transport/ray_channel.py), and the command *)
(* and control handlers of workers/env_worker.py.                          *)
(*                                                                         *)
(* Gateway and worker are two asyncio programs: code between two awaits is *)
(* one action.  The RPC timeout may strike at any moment.  A request id is *)
(* one operation of one kind; a retry is a second call with the same id.   *)
(* The maintenance loop forgets a closed session, whatever still runs.     *)
(***************************************************************************)
EXTENDS Naturals, Sequences, FiniteSets

CONSTANTS Ops,          \* request ids
          KindOf,       \* "reset", "action", "policy" or "episode"
          CommandSize,  \* maxsize of the command queue of the rank
          MaxSteps,     \* max_steps of an EpisodeRequest
          None

Kinds == {"reset", "action", "policy", "episode"}

ASSUME KindAssumption == KindOf \in [Ops -> Kinds]
ASSUME SizeAssumption == {CommandSize, MaxSteps} \subseteq Nat \ {0}

\* What the queues between the gateway and the worker carry.
Terminal == {"SUCCEEDED", "FAILED", "CANCELLED"}
Commands == [op : Ops, episode : Nat, seq : Nat \ {0}]
Results == [op : Ops, state : Terminal, effect : BOOLEAN, episode : Nat]
Controls == [kind : {"cancel", "release"}, op : Ops \cup {None}]

ASSUME NoneAssumption == None \notin Commands

VARIABLES
  reg,        \* the registry's state of each operation, "none" if not begun
  regEffect,  \* its side_effect_applied
  waiters,    \* calls queued at the session's lock
  holder,     \* the call that has the lock, or None
  open,       \* the gateway's session is READY
  known,      \* the gateway still has a record of the session
  gwEpisode,  \* record.episode_id, 0 before the first reset
  gwSeq,      \* operation_seq allocated last
  pending,    \* requests with a waiting future in the transport
  commands,   \* command queue: [op, episode, seq]
  controls,   \* control queue: [kind, op]
  results,    \* result queue: [op, state, effect, episode]
  intent,     \* requests whose cancellation was asked for while RUNNING
  accepted,   \* requests of which the worker said "cancelled": true
  bound,      \* the worker has a slot for the session
  wEpisode,   \* slot.episode_id
  wEnded,     \* slot.terminated or slot.truncated
  wLast,      \* slot.last_operation_seq
  run,        \* the command the slot is running (active_op), or None
  stage,      \* its stage
  wCancel,    \* its cancel_requested
  wEffect,    \* its side_effect_applied
  steps       \* history: resets and env steps really made for each operation

sessionVars == <<open, known>>
gatewayVars == <<reg, regEffect, waiters, holder, sessionVars, gwEpisode, gwSeq, intent>>
channelVars == <<pending, commands, controls, results>>
slotVars == <<bound, wEpisode, wEnded, wLast>>
activeVars == <<run, stage, wCancel, wEffect>>
historyVars == <<accepted, steps>>
vars == <<gatewayVars, channelVars, slotVars, activeVars, historyVars>>

Init ==
  /\ reg = [o \in Ops |-> "none"] /\ regEffect = [o \in Ops |-> FALSE]
  /\ waiters = <<>> /\ holder = None /\ open = TRUE /\ known = TRUE
  /\ gwEpisode = 0 /\ gwSeq = 0 /\ intent = {}
  /\ pending = {} /\ commands = <<>> /\ controls = <<>> /\ results = <<>>
  /\ bound = TRUE /\ wEpisode = 0 /\ wEnded = FALSE /\ wLast = 0
  /\ run = None /\ stage = "done" /\ wCancel = FALSE /\ wEffect = FALSE
  /\ accepted = {} /\ steps = [o \in Ops |-> 0]

-----------------------------------------------------------------------------
(* The gateway: _dispatch_one and _execute.                                *)

\* A full command queue is a failure, never a wait.
Dispatch(o) ==
  /\ gwSeq' = gwSeq + 1
  /\ IF Len(commands) < CommandSize
     THEN /\ reg' = [reg EXCEPT ![o] = "RUNNING"]
          /\ holder' = o
          /\ pending' = pending \cup {o}
          /\ commands' = Append(commands, [op |-> o, episode |-> gwEpisode, seq |-> gwSeq'])
     ELSE /\ reg' = [reg EXCEPT ![o] = "FAILED"]
          /\ holder' = None
          /\ UNCHANGED <<pending, commands>>

\* _require_session
Admitted(o) == open /\ (KindOf[o] = "reset" \/ gwEpisode > 0)

\* Mutant of Fresh: a finished request is executed again.
FreshOrDone(o) == reg[o] \in {"none"} \cup Terminal

\* operations.begin: a request id that is known is answered from its record.
Fresh(o) == reg[o] = "none"

\* The lock is free for a newcomer only if nobody waits for it.
Call(o) ==
  /\ Fresh(o)
  /\ Admitted(o)
  /\ IF holder = None /\ waiters = <<>>
     THEN Dispatch(o) /\ UNCHANGED waiters
     ELSE /\ reg' = [reg EXCEPT ![o] = "ACCEPTED"]
          /\ waiters' = Append(waiters, o)
          /\ UNCHANGED <<holder, gwSeq, pending, commands>>
  /\ UNCHANGED <<regEffect, sessionVars, gwEpisode, intent, controls, results, slotVars,
                 activeVars, historyVars>>

\* Mutant of LockHandover: no look at what happened while waiting.
LockHandoverBlind ==
  /\ holder = None /\ waiters # <<>>
  /\ waiters' = Tail(waiters)
  /\ Dispatch(Head(waiters))
  /\ UNCHANGED <<regEffect, sessionVars, gwEpisode, intent, controls, results, slotVars,
                 activeVars, historyVars>>

\* The next waiter gets the lock; what was cancelled meanwhile is not sent.
LockHandover ==
  /\ holder = None /\ waiters # <<>>
  /\ waiters' = Tail(waiters)
  /\ IF reg[Head(waiters)] = "ACCEPTED"
     THEN Dispatch(Head(waiters))
     ELSE UNCHANGED <<reg, holder, gwSeq, pending, commands>>
  /\ UNCHANGED <<regEffect, sessionVars, gwEpisode, intent, controls, results, slotVars,
                 activeVars, historyVars>>

\* Mutant of Timeout: the operation is recorded as failed.
TimeoutFails(o) ==
  /\ o \in pending
  /\ pending' = pending \ {o}
  /\ holder' = None
  /\ reg' = [reg EXCEPT ![o] = "FAILED"]
  /\ UNCHANGED <<regEffect, waiters, sessionVars, gwEpisode, gwSeq, intent, commands,
                 controls, results, slotVars, activeVars, historyVars>>

\* command_timeout_seconds: the caller has its answer, the record stays RUNNING.
Timeout(o) ==
  /\ o \in pending
  /\ pending' = pending \ {o}
  /\ holder' = None
  /\ UNCHANGED <<reg, regEffect, waiters, sessionVars, gwEpisode, gwSeq, intent, commands,
                 controls, results, slotVars, activeVars, historyVars>>

\* The record becomes terminal, of the state st.
Settle(r, st) ==
  /\ reg' = [reg EXCEPT ![r.op] = st]
  /\ regEffect' = [regEffect EXCEPT ![r.op] = r.effect]

\* _finish of a session the gateway knows: a success carries the episode.
FinishKnown(r) ==
  /\ Settle(r, r.state)
  /\ gwEpisode' = IF r.state = "SUCCEEDED" THEN r.episode ELSE gwEpisode

\* _finish of one it has forgotten: set_episode raises before succeed is reached,
\* so that the record of a success stays RUNNING.  A late result does without the
\* session, and knows of success and failure only.
FinishForgotten(r) ==
  /\ IF r.op \notin pending
     THEN Settle(r, IF r.state = "SUCCEEDED" THEN "SUCCEEDED" ELSE "FAILED")
     ELSE IF r.state = "SUCCEEDED" THEN UNCHANGED <<reg, regEffect>>
     ELSE Settle(r, r.state)
  /\ UNCHANGED gwEpisode

Finish(r) == IF known THEN FinishKnown(r) ELSE FinishForgotten(r)

\* Mutant of Drain: a late result is dropped.
DrainDropsLate ==
  /\ results # <<>>
  /\ results' = Tail(results)
  /\ LET r == Head(results) IN
     /\ pending' = pending \ {r.op}
     /\ holder' = IF r.op \in pending THEN None ELSE holder
     /\ IF r.op \in pending
        THEN Finish(r)
        ELSE UNCHANGED <<reg, regEffect, gwEpisode>>
  /\ UNCHANGED <<waiters, sessionVars, gwSeq, intent, commands, controls, slotVars,
                 activeVars, historyVars>>

\* The transport's _drain: the answer of a call that still waits, or a late one
\* for _absorb_late_result, which leaves a terminal record as it is.
Drain ==
  /\ results # <<>>
  /\ results' = Tail(results)
  /\ LET r == Head(results) IN
     /\ pending' = pending \ {r.op}
     /\ holder' = IF r.op \in pending THEN None ELSE holder
     /\ IF reg[r.op] \in Terminal
        THEN UNCHANGED <<reg, regEffect, gwEpisode>>
        ELSE Finish(r)
  /\ UNCHANGED <<waiters, sessionVars, gwSeq, intent, commands, controls, slotVars,
                 activeVars, historyVars>>

\* cancel_request: directly before the dispatch, by message after it.
CancelRequest(o) ==
  /\ o \notin intent
  /\ \/ /\ reg[o] = "ACCEPTED"
        /\ reg' = [reg EXCEPT ![o] = "CANCELLED"]
        /\ UNCHANGED <<intent, controls>>
     \/ /\ reg[o] = "RUNNING"
        /\ intent' = intent \cup {o}
        /\ controls' = Append(controls, [kind |-> "cancel", op |-> o])
        /\ UNCHANGED reg
  /\ UNCHANGED <<regEffect, waiters, holder, sessionVars, gwEpisode, gwSeq, pending,
                 commands, results, slotVars, activeVars, historyVars>>

\* _close_session, whatever the session is doing.
CloseSession ==
  /\ open
  /\ open' = FALSE
  /\ controls' = Append(controls, [kind |-> "release", op |-> None])
  /\ UNCHANGED <<reg, regEffect, waiters, holder, known, gwEpisode, gwSeq, intent,
                 pending, commands, results, slotVars, activeVars, historyVars>>

\* purge_terminal, by the maintenance loop: calls that wait, run or are late stay.
Purge ==
  /\ ~open /\ known
  /\ known' = FALSE
  /\ UNCHANGED <<reg, regEffect, waiters, holder, open, gwEpisode, gwSeq, intent,
                 channelVars, slotVars, activeVars, historyVars>>

-----------------------------------------------------------------------------
(* The env worker: handle_command and the operations.                      *)

\* Mutant of Stale: only the sequence number is looked at.
StaleSeqOnly(c) == c.seq <= wLast

\* _reject_stale: an older episode, or a sequence number already executed.
Stale(c) ==
  \/ c.episode > 0 /\ wEpisode > 0 /\ c.episode < wEpisode
  \/ c.seq <= wLast

Answer(c, state, effect, episode) ==
  results' = Append(results, [op |-> c.op, state |-> state, effect |-> effect,
                              episode |-> episode])

\* _command_loop and handle_command up to the handler's first await: of a reset
\* that is the core's, of the others the reading of the lane's state.
Receive ==
  /\ commands # <<>>
  /\ commands' = Tail(commands)
  /\ LET c == Head(commands) IN
     IF ~bound \/ Stale(c) \/ run # None
     THEN /\ Answer(c, "FAILED", FALSE, wEpisode)
          /\ UNCHANGED activeVars
     ELSE /\ run' = c
          /\ stage' = IF KindOf[c.op] = "reset" THEN "env_step" ELSE "queued"
          /\ wCancel' = FALSE /\ wEffect' = FALSE
          /\ UNCHANGED results
  /\ UNCHANGED <<gatewayVars, pending, controls, slotVars, historyVars>>

\* handle_command from the handler's end on; an error tells what was done.
Ends(state) ==
  /\ Answer(run, state, wEffect', wEpisode')
  /\ run' = None /\ stage' = "done"
  /\ wLast' = IF run.seq > wLast THEN run.seq ELSE wLast
  /\ UNCHANGED <<gatewayVars, pending, commands, controls, bound, wCancel, accepted>>

Raises(state) ==
  /\ UNCHANGED <<wEffect, wEpisode, wEnded, steps>>
  /\ Ends(state)

Kind == KindOf[run.op]

\* _require_running_episode
NoEpisode == wEpisode = 0 \/ wEnded

\* The operation goes on to the next stage.
Enters(s) ==
  /\ stage' = s
  /\ UNCHANGED <<gatewayVars, channelVars, slotVars, run, wCancel, historyVars>>

\* The handler goes on: what is over or cancelled ends here.  run_episode calls
\* a lost slot or a cancellation an end of the episode; request_inference looks
\* the slot up again, _step_slot does not.
Start ==
  /\ run # None /\ stage = "queued"
  /\ IF NoEpisode THEN Raises("FAILED")
     ELSE IF Kind = "episode" /\ (wCancel \/ ~bound) THEN Raises("SUCCEEDED")
     ELSE IF wCancel THEN Raises("CANCELLED")
     ELSE IF Kind = "action" THEN Enters("env_step") /\ wEffect' = TRUE
     ELSE IF bound THEN Enters("inference") /\ UNCHANGED wEffect
     ELSE Raises("FAILED")

\* The action is there: _policy_step_inner and _step_slot up to the core.
InferenceDone ==
  /\ run # None /\ stage = "inference"
  /\ ~wCancel
  /\ Enters("env_step")
  /\ wEffect' = TRUE

\* The wait for the action was cancelled, or the action came after the cancel.
InferenceCancelled ==
  /\ run # None /\ stage = "inference"
  /\ wCancel
  /\ Raises("CANCELLED")

InferenceFails ==
  /\ run # None /\ stage = "inference"
  /\ Raises("FAILED")

\* The core is done with one reset or env step of the running operation.
Touches == steps' = [steps EXCEPT ![run.op] = @ + 1]

ResetDone ==
  /\ run # None /\ stage = "env_step" /\ Kind = "reset"
  /\ Touches
  /\ wEpisode' = wEpisode + 1
  /\ wEnded' = FALSE
  /\ wEffect' = TRUE
  /\ Ends("SUCCEEDED")

\* chunk_step returns, perhaps with the end of the episode.  run_episode stops
\* there (should_finish_episode), without a slot, on a cancellation or at max_steps;
\* else it infers again.
StepDone ==
  /\ run # None /\ stage = "env_step" /\ Kind # "reset"
  /\ Touches
  /\ wEnded' \in {wEnded, TRUE}
  /\ UNCHANGED <<wEpisode, wEffect>>
  /\ IF Kind # "episode" \/ wEnded' \/ ~bound \/ wCancel \/ steps'[run.op] >= MaxSteps
     THEN Ends("SUCCEEDED")
     ELSE /\ stage' = "inference"
          /\ UNCHANGED <<gatewayVars, channelVars, bound, wLast, run, wCancel, accepted>>

\* The core raises: before or after the simulator moved.  Of a reset that is not
\* told: reset sets side_effect_applied only when the core has returned.
StepFails ==
  /\ run # None /\ stage = "env_step"
  /\ UNCHANGED steps \/ Touches
  /\ UNCHANGED <<wEffect, wEpisode, wEnded>>
  /\ Ends("FAILED")

-----------------------------------------------------------------------------
(* The env worker: handle_control and the reap loop.                       *)

\* ActiveRequest.cancellable
Cancellable == ~wEffect /\ stage \in {"queued", "inference"}

HandleControl ==
  /\ controls # <<>>
  /\ controls' = Tail(controls)
  /\ LET m == Head(controls) IN
     \/ /\ m.kind = "release"
        /\ bound' = FALSE
        /\ UNCHANGED <<wCancel, accepted>>
     \/ /\ m.kind = "cancel"
        /\ IF run # None /\ run.op = m.op
           THEN /\ wCancel' = TRUE
                /\ accepted' = IF Cancellable THEN accepted \cup {m.op} ELSE accepted
           ELSE UNCHANGED <<wCancel, accepted>>
        /\ UNCHANGED bound
  /\ UNCHANGED <<gatewayVars, pending, commands, results, wEpisode, wEnded, wLast,
                 run, stage, wEffect, steps>>

\* recover_expired_sessions: the lease ran out and no operation is running.
Reap ==
  /\ bound /\ run = None
  /\ bound' = FALSE
  /\ UNCHANGED <<gatewayVars, channelVars, wEpisode, wEnded, wLast, activeVars,
                 historyVars>>

-----------------------------------------------------------------------------
WorkerStep == Start \/ InferenceDone \/ InferenceCancelled \/ InferenceFails
                \/ ResetDone \/ StepDone \/ StepFails

Next ==
  \/ \E o \in Ops : Call(o) \/ Timeout(o) \/ CancelRequest(o)
  \/ LockHandover \/ Drain \/ CloseSession \/ Purge
  \/ Receive \/ WorkerStep \/ HandleControl \/ Reap

\* The loops of both programs run, the core and the policy answer, a lock that
\* is free is handed over.  No client has to call, cancel or close.
Spec == /\ Init /\ [][Next]_vars
        /\ WF_vars(LockHandover) /\ WF_vars(Drain)
        /\ WF_vars(Receive) /\ WF_vars(WorkerStep) /\ WF_vars(HandleControl)

-----------------------------------------------------------------------------
\* Records, queues and stages have the values the code gives them.
TypeOK ==
  /\ reg \in [Ops -> {"none", "ACCEPTED", "RUNNING"} \cup Terminal]
  /\ regEffect \in [Ops -> BOOLEAN]
  /\ waiters \in Seq(Ops) /\ holder \in Ops \cup {None}
  /\ open \in BOOLEAN /\ known \in BOOLEAN
  /\ gwEpisode \in Nat /\ gwSeq \in Nat /\ intent \subseteq Ops
  /\ pending \subseteq Ops
  /\ commands \in Seq(Commands) /\ Len(commands) <= CommandSize
  /\ controls \in Seq(Controls) /\ results \in Seq(Results)
  /\ bound \in BOOLEAN /\ wEpisode \in Nat /\ wEnded \in BOOLEAN /\ wLast \in Nat
  /\ run \in Commands \cup {None}
  /\ stage \in {"queued", "inference", "env_step", "done"}
  /\ (run = None) = (stage = "done")
  /\ wCancel \in BOOLEAN /\ wEffect \in BOOLEAN
  /\ accepted \subseteq Ops /\ steps \in [Ops -> Nat]

\* However a client times out and retries, an operation touches the environment
\* at most once, an episode at most max_steps times (the registry's
\* idempotency and the worker's operation_seq check).
AtMostOnce ==
  \A o \in Ops : steps[o] <= IF KindOf[o] = "episode" THEN MaxSteps ELSE 1

\* When the worker has accepted a cancellation, no env step of the operation has
\* been or will be made (cancel_request: "no env step was started").
CancelIsFinal ==
  \A o \in accepted : steps[o] = 0 /\ ~(run # None /\ run.op = o /\ stage = "env_step")

\* The exception: a reset that failed may have moved the simulator all the same.
ResetFailed(o, state) == KindOf[o] = "reset" /\ state = "FAILED"

\* A record that is terminal without side_effect_applied stays true for ever:
\* the environment was not touched for it and will not be, although its command
\* may still be queued, running, or late (_finish, _absorb_late_result), except
\* that a failed reset says nothing; and so does the worker's word that it has
\* cancelled one.
HonestRegistry ==
  /\ \A o \in Ops : reg[o] \in Terminal /\ ~regEffect[o]
                     => steps[o] = 0 \/ ResetFailed(o, reg[o])
  /\ CancelIsFinal

\* An operation runs in the episode the gateway issued it for, also when the reset
\* before it timed out and its result is still under way (_reject_stale).
OwnEpisode == run # None /\ Kind # "reset" => run.episode = wEpisode

\* Nothing that is settled is undone, in whatever order calls time out and late
\* results come: the gateway's episode_id does not go back (set_episode), and a
\* terminal record is changed neither by a late result nor by the dispatch of a
\* call that was cancelled while it waited for the lock (_transition raises; the
\* callers must not get there).
NeverBack ==
  [][/\ gwEpisode' >= gwEpisode
     /\ \A o \in Ops : reg[o] \in Terminal => reg'[o] = reg[o] /\ regEffect'[o] = regEffect[o]]_vars

\* What the transport or the worker still has to do for an operation.
UnderWay(o) ==
  \/ o \in pending \/ (run # None /\ run.op = o)
  \/ \E i \in DOMAIN commands : commands[i].op = o
  \/ \E i \in DOMAIN results : results[i].op = o

\* The one record nobody will settle: its answer came to a session forgotten.
Orphaned(o) == reg[o] = "RUNNING" /\ ~known /\ ~UnderWay(o)

\* Each registered operation gets its terminal state, also after its caller has
\* been told DEADLINE_EXCEEDED ("the operation does not enter a terminal state;
\* only when the real result arrives"), or else its session was closed and purged
\* before the answer of a call that still waited.
Settled ==
  \A o \in Ops :
    reg[o] \in {"ACCEPTED", "RUNNING"} ~> reg[o] \in Terminal \/ Orphaned(o)

\* Queues, records and the active request fit together, and what the worker runs
\* belongs to the episode it is in.
WorkerInv == TypeOK /\ OwnEpisode
=============================================================================
