--------------------------- MODULE EnvironmentFarm ---------------------------
(***************************************************************************)
(* A farm of persistent environment servers: the workers of the rollout    *)
(* queue lease slots from EnvironmentSlotBroker, their rollout processes   *)
(* bind the leased server, and the farm supervisor restarts servers that   *)
(* are lost, gone, or bound by a session whose worker has abandoned it     *)
(* (zetta/evolution/slot_broker.py, queue.py,                              *)
(* scripts/evolution/serve_robocasa_farm.py).                              *)
(*                                                                         *)
(* A server is what SlotServer promises; WriteProtocol implements it.      *)
(* Broker operations run under the broker's directory lock, which keeps    *)
(* other workers out, not the servers, and stays for ever when its holder  *)
(* dies: a poll of acquire is several steps, what touches only the lease   *)
(* file one.  Time is a lease that may lapse at any moment.  GPU balancing *)
(* and the event ledger are left out: a poll is at any one slot, those it  *)
(* passes over before and after change nothing.                            *)
(***************************************************************************)
EXTENDS Naturals, FiniteSets

CONSTANTS Slots,        \* the environment servers
          Workers,      \* workers of the rollout queue
          Direct,       \* clients that connect without a lease
          Limits,       \* values maximum_active_slots may have
          MaxJobs,      \* bound: jobs a worker takes
          MaxCrashes,   \* bound: worker crashes
          MaxActors,    \* bound: clients that take a job or connect
          RestartLimit, \* restarts before a slot is quarantined
          None

ASSUME ClientAssumption == Workers \cap Direct = {} /\ Limits \subseteq Nat
ASSUME FiniteAssumption == IsFiniteSet(Slots)
ASSUME BoundAssumption == {MaxJobs, MaxCrashes, MaxActors, RestartLimit} \subseteq Nat

VARIABLES
  owner,     \* the session bound to each server, or None
  lost,      \* servers whose state is unknown
  up,        \* slots whose server process runs
  proc,      \* the client process of each client: [id, slot] or None
  flight,    \* first writes on their way: [id, slot]
  lease,     \* the lease file of each slot: [id, live] or None
  work,      \* where the worker is
  handle,    \* the EnvironmentSlotLease a worker holds: [id, slot] or None
  limit,     \* maximum_active_slots of this farm
  lockBy,    \* the worker whose .slot-broker.lock exists, or None
  lockAt,    \* where its poll of acquire is, "left" if it is dead
  target,    \* the slot the poll is at, or None
  slipped,   \* history: slots bound between a FREE answer and what the broker
             \* did with it
  jobs,      \* jobs taken by each worker, processes of each direct client
  crashes,
  stopping,  \* the worker pool's stop event
  status,    \* the slot's status in the ready manifest
  restarts,  \* launches after the first
  seen,      \* what the supervisor's poll of the slot has read
  observed   \* slots with lease_observed_for_binding

server == <<owner, lost>>
env == <<server, up, proc, flight>>
lockVars == <<lockBy, lockAt, target>>
broker == <<lease, handle, limit, lockVars>>
worker == <<work, jobs, crashes, stopping>>
farm == <<status, restarts, seen, observed>>
farmVars == <<env, broker, worker, farm, slipped>>

Clients == Workers \cup Direct
Sessions == Clients \X (1 .. MaxJobs)

\* None is no client, no session, no client process and no lease.
ASSUME NoneAssumption ==
  /\ None \notin Clients \cup Sessions
  /\ None \notin [id : Sessions, slot : Slots] \cup [id : Sessions, live : BOOLEAN]

Server == INSTANCE SlotServer

FarmInit ==
  /\ Server!ServerInit /\ up = Slots
  /\ proc = [c \in Clients |-> None] /\ flight = {}
  /\ lease = [s \in Slots |-> None] /\ handle = [c \in Workers |-> None]
  /\ limit \in Limits
  /\ lockBy = None /\ lockAt = "free" /\ target = None
  /\ slipped = {}
  /\ work = [c \in Workers |-> "idle"] /\ jobs = [c \in Clients |-> 0]
  /\ crashes = 0 /\ stopping = FALSE
  /\ status = [s \in Slots |-> "ready"] /\ restarts = [s \in Slots |-> 0]
  /\ seen = [s \in Slots |-> None] /\ observed = {}

\* The bounds on what a client may begin.
MayBegin(c) ==
  /\ jobs[c] < MaxJobs
  /\ Cardinality({x \in Clients : jobs[x] > 0} \cup {c}) <= MaxActors

Live(s) == lease[s] # None /\ lease[s].live
Turns(c, to) == work' = [work EXCEPT ![c] = to]

-----------------------------------------------------------------------------
(* Client processes and their servers.                                     *)

\* The first write of a process, with the server's current token.
SendFirst(c) ==
  /\ proc[c] # None /\ proc[c].slot \in up /\ owner[proc[c].slot] # proc[c].id
  /\ proc[c] \notin flight
  /\ flight' = flight \cup {proc[c]}
  /\ UNCHANGED <<server, up, proc, broker, worker, farm, slipped>>

\* It arrives, perhaps after its process has ended: the server is bound if it is free,
\* although the broker may have read FREE and not have acted on it yet.
Arrive(p) ==
  /\ p \in flight /\ p.slot \in up
  /\ flight' = flight \ {p}
  /\ IF owner[p.slot] = None
     THEN /\ Server!Bind(p.slot, p.id)
          /\ slipped' = IF target = p.slot /\ lockAt \in {"reclaim", "write"}
                        THEN slipped \cup {p.slot} ELSE slipped
     ELSE UNCHANGED <<server, slipped>>
  /\ UNCHANGED <<up, proc, broker, worker, farm>>

\* A write of a bound process ends with an unknown outcome.
Fail(c) ==
  /\ proc[c] # None /\ owner[proc[c].slot] = proc[c].id
  /\ Server!Poison(proc[c].slot)
  /\ UNCHANGED <<up, proc, flight, broker, worker, farm, slipped>>

\* It releases the server, whose token changes: what is on its way is refused.
FreeServer(c) ==
  /\ proc[c] # None /\ owner[proc[c].slot] = proc[c].id
  /\ Server!Unbind(proc[c].slot)
  /\ flight' = {p \in flight : p.slot # proc[c].slot}
  /\ slipped' = slipped \ {proc[c].slot}
  /\ UNCHANGED <<up, proc, broker, worker, farm>>

\* A client that connects to a server of the farm without a lease.
Connect(c, s) ==
  /\ proc[c] = None /\ MayBegin(c)
  /\ jobs' = [jobs EXCEPT ![c] = @ + 1]
  /\ proc' = [proc EXCEPT ![c] = [id |-> <<c, jobs'[c]>>, slot |-> s]]
  /\ UNCHANGED <<server, up, flight, broker, work, crashes, stopping, farm, slipped>>

\* A client process ends: it is through, it failed, or a watchdog killed it.
Exit(c) ==
  /\ proc[c] # None
  /\ proc' = [proc EXCEPT ![c] = None]
  /\ IF c \in Workers /\ work[c] = "running" THEN Turns(c, "ending") ELSE UNCHANGED work
  /\ UNCHANGED <<server, up, flight, broker, jobs, crashes, stopping, farm, slipped>>

-----------------------------------------------------------------------------
(* EnvironmentSlotBroker.                                                  *)

\* The limit counts every lease file, those of expired leases too.
BelowLimit == Cardinality({s \in Slots : lease[s] # None}) < limit

\* _is_free of the answer of /health
Free(s) == s \in up /\ owner[s] = None /\ s \notin lost

\* Mutant of Examine: an expired lease is enough.
ExamineExpired(c, s) ==
  /\ work[c] = "acquiring" /\ lockBy = None /\ BelowLimit
  /\ status[s] = "ready" /\ ~Live(s)
  /\ lockBy' = c /\ target' = s
  /\ lockAt' = IF lease[s] = None THEN "probe" ELSE "reclaim"
  /\ UNCHANGED <<env, lease, handle, limit, worker, farm, slipped>>

\* A poll of acquire is at a ready slot that is not leased, or leased by an expired
\* lease while its server answers FREE.
Examine(c, s) ==
  /\ work[c] = "acquiring" /\ lockBy = None /\ BelowLimit
  /\ status[s] = "ready" /\ ~Live(s)
  /\ lockBy' = c /\ target' = s
  /\ \/ lease[s] = None /\ lockAt' = "probe"
     \/ lease[s] # None /\ Free(s) /\ lockAt' = "reclaim"
  /\ UNCHANGED <<env, lease, handle, limit, worker, farm, slipped>>

InPoll(c, at) == lockBy = c /\ lockAt = at
Unlocks == lockBy' = None /\ lockAt' = "free" /\ target' = None

\* The expired lease goes; nobody looks whether the server is still FREE.
Reclaim(c) ==
  /\ InPoll(c, "reclaim")
  /\ lease' = [lease EXCEPT ![target] = None]
  /\ lockAt' = "probe"
  /\ UNCHANGED <<env, handle, limit, lockBy, target, worker, farm, slipped>>

\* The server is asked (once more); it may not answer in time.
Probe(c) ==
  /\ InPoll(c, "probe")
  /\ \/ Free(target) /\ lockAt' = "write" /\ UNCHANGED <<lockBy, target>>
     \/ Unlocks
  /\ UNCHANGED <<env, lease, handle, limit, worker, farm, slipped>>

NewLease(c) == [lease EXCEPT ![target] = [id |-> <<c, jobs[c]>>, live |-> TRUE]]

\* acquire writes the lease file and returns.
Grant(c) ==
  /\ InPoll(c, "write") /\ Unlocks
  /\ lease' = NewLease(c)
  /\ handle' = [handle EXCEPT ![c] = [id |-> <<c, jobs[c]>>, slot |-> target]]
  /\ Turns(c, "leased")
  /\ UNCHANGED <<env, limit, jobs, crashes, stopping, farm, slipped>>

Holds(c) == lease[handle[c].slot] # None /\ lease[handle[c].slot].id = handle[c].id

\* What heartbeat and release make of a lease that is still the worker's.
Renewed(c) == [lease EXCEPT ![handle[c].slot].live = TRUE]
Removed(c) == [lease EXCEPT ![handle[c].slot] = None]

\* Time passes: expires_at is over.
Expire(s) ==
  /\ Live(s)
  /\ lease' = [lease EXCEPT ![s].live = FALSE]
  /\ UNCHANGED <<env, handle, limit, lockVars, worker, farm, slipped>>

-----------------------------------------------------------------------------
(* run_worker with a job that requires an environment slot.                *)

\* queue.claim returned a job.
TakeJob(c) ==
  /\ work[c] = "idle" /\ ~stopping /\ MayBegin(c)
  /\ jobs' = [jobs EXCEPT ![c] = @ + 1]
  /\ Turns(c, "acquiring")
  /\ UNCHANGED <<env, broker, crashes, stopping, farm, slipped>>

\* acquire raises TimeoutError between two polls, or waiting for the lock, which
\* finishes the job as failed.
AcquireTimeout(c) ==
  /\ work[c] = "acquiring" /\ lockBy # c
  /\ Turns(c, "idle")
  /\ UNCHANGED <<env, broker, jobs, crashes, stopping, farm, slipped>>

\* The rollout process starts, after the wait for a provider lease, during which the
\* slot's lease is not renewed.
Start(c) ==
  /\ work[c] = "leased"
  /\ proc' = [proc EXCEPT ![c] = handle[c]]
  /\ Turns(c, "running")
  /\ UNCHANGED <<server, up, flight, broker, jobs, crashes, stopping, farm, slipped>>

\* The wait for the provider times out.
ProviderTimeout(c) ==
  /\ work[c] = "leased"
  /\ Turns(c, "ending")
  /\ UNCHANGED <<env, broker, jobs, crashes, stopping, farm, slipped>>

\* Mutant of Heartbeat: it does not take the lock.
HeartbeatUnlocked(c) ==
  /\ work[c] = "running" /\ Holds(c)
  /\ lease' = Renewed(c)
  /\ UNCHANGED <<env, handle, limit, lockVars, worker, farm, slipped>>

\* The progress callback of SubprocessRolloutExecutor.
Heartbeat(c) ==
  /\ work[c] = "running" /\ lockBy = None /\ Holds(c)
  /\ lease' = Renewed(c)
  /\ UNCHANGED <<env, handle, limit, lockVars, worker, farm, slipped>>

\* It raises: the lease is gone or another's, or the lock was another's for timeout_s.
\* The rollout process is killed.
HeartbeatRaises(c) ==
  /\ work[c] = "running" /\ (lockBy = None => ~Holds(c))
  /\ proc' = [proc EXCEPT ![c] = None]
  /\ Turns(c, "ending")
  /\ UNCHANGED <<server, up, flight, broker, jobs, crashes, stopping, farm, slipped>>

\* environment_lease.release in the finally clause; a file that is gone will do.
Release(c) ==
  /\ work[c] = "ending" /\ lockBy = None /\ (Holds(c) \/ lease[handle[c].slot] = None)
  /\ lease' = Removed(c)
  /\ handle' = [handle EXCEPT ![c] = None]
  /\ Turns(c, "idle")
  /\ UNCHANGED <<env, limit, lockVars, jobs, crashes, stopping, farm, slipped>>

\* It raises out of run_worker, and the worker pool stops.
ReleaseRaises(c) ==
  /\ work[c] = "ending"
  /\ lockBy = None => ~Holds(c) /\ lease[handle[c].slot] # None
  /\ handle' = [handle EXCEPT ![c] = None]
  /\ Turns(c, "dead") /\ stopping' = TRUE
  /\ UNCHANGED <<env, lease, limit, lockVars, jobs, crashes, farm, slipped>>

\* The worker process dies; its rollout process, in a session of its own, lives on.
Dies(c) ==
  /\ work[c] # "dead" /\ crashes < MaxCrashes
  /\ crashes' = crashes + 1
  /\ Turns(c, "dead")
  /\ handle' = [handle EXCEPT ![c] = None]
  /\ UNCHANGED <<env, limit, jobs, stopping, farm, slipped>>

Crash(c) == Dies(c) /\ lockBy # c /\ UNCHANGED <<lease, lockVars>>

\* The same in the broker, before or after the write to the lease file.
CrashInBroker(c) ==
  /\ Dies(c)
  /\ lockBy' = c /\ lockAt' = "left" /\ target' = None
  /\ \/ UNCHANGED lease /\ lockBy \in {None, c} /\ work[c] \in {"acquiring", "running", "ending"}
     \/ InPoll(c, "write") /\ lease' = NewLease(c)
     \/ work[c] = "running" /\ lockBy = None /\ Holds(c) /\ lease' = Renewed(c)
     \/ work[c] = "ending" /\ lockBy = None /\ Holds(c) /\ lease' = Removed(c)

-----------------------------------------------------------------------------
(* The supervisor's loop of serve_robocasa_farm: one poll of a slot reads  *)
(* the server, then the lease, then acts; nothing is locked meanwhile.     *)

\* /health of a ready slot.  The lease matters to the answer of a bound server alone; a
\* LOST one is stopped anyway.
PollHealth(s) ==
  /\ status[s] = "ready" /\ s \in up /\ seen[s] = None
  /\ \/ /\ owner[s] = None /\ s \notin lost
        /\ observed' = observed \ {s} /\ UNCHANGED seen
     \/ /\ owner[s] # None /\ UNCHANGED observed
        /\ seen' = [seen EXCEPT ![s] = IF s \in lost THEN "kill" ELSE "bound"]
  /\ UNCHANGED <<env, broker, worker, status, restarts, slipped>>

\* /health fails, if only because it waits for the lock a write holds:
\* _health_restart_due, once the outage has lasted.
PollFails(s) ==
  /\ status[s] = "ready" /\ s \in up /\ seen[s] = None /\ ~Live(s)
  /\ seen' = [seen EXCEPT ![s] = "kill"]
  /\ UNCHANGED <<env, broker, worker, status, restarts, observed, slipped>>

\* Mutant of Orphaned: an abandoned binding is nobody's business.
OrphanedNever(s) == FALSE

\* _bound_session_is_orphaned
Orphaned(s) == s \in observed /\ ~Live(s)

\* _lease_is_live, after the answer.
PollLease(s) ==
  /\ seen[s] = "bound"
  /\ observed' = IF Live(s) THEN observed \cup {s} ELSE observed
  /\ seen' = [seen EXCEPT ![s] = IF Orphaned(s) THEN "kill" ELSE None]
  /\ UNCHANGED <<env, broker, worker, status, restarts, slipped>>

\* process.terminate(), and the end of a process by itself while it serves a write:
\* what was on its sockets is lost.
Kill(s) ==
  /\ s \in up
  /\ seen[s] = "kill" \/ owner[s] # None
  /\ up' = up \ {s}
  /\ Server!Renew(s)
  /\ flight' = {p \in flight : p.slot # s}
  /\ slipped' = slipped \ {s}
  /\ seen' = [seen EXCEPT ![s] = None]
  /\ status' = [status EXCEPT ![s] = IF seen[s] = "kill" THEN "restarting" ELSE @]
  /\ UNCHANGED <<proc, broker, worker, restarts, observed>>

\* process.poll() finds the process gone: a new one with a new record, or quarantine.
Relaunch(s) ==
  /\ s \notin up /\ status[s] # "quarantined"
  /\ seen' = [seen EXCEPT ![s] = None]
  /\ IF restarts[s] < RestartLimit
     THEN /\ up' = up \cup {s}
          /\ restarts' = [restarts EXCEPT ![s] = @ + 1]
          /\ observed' = observed \ {s}
          /\ status' = [status EXCEPT ![s] = "restarting"]
     ELSE /\ status' = [status EXCEPT ![s] = "quarantined"]
          /\ UNCHANGED <<up, restarts, observed>>
  /\ UNCHANGED <<server, proc, flight, broker, worker, slipped>>

\* The new process answers healthy.
Ready(s) ==
  /\ s \in up /\ status[s] = "restarting"
  /\ status' = [status EXCEPT ![s] = "ready"]
  /\ UNCHANGED <<env, broker, worker, restarts, seen, observed, slipped>>

-----------------------------------------------------------------------------
ClientStep(c) == SendFirst(c) \/ Fail(c) \/ FreeServer(c) \/ Exit(c)

Acquire(c) == (\E s \in Slots : Examine(c, s)) \/ Reclaim(c) \/ Probe(c) \/ Grant(c)

WorkerStep(c) ==
  \/ TakeJob(c) \/ Acquire(c) \/ AcquireTimeout(c) \/ Start(c) \/ ProviderTimeout(c)
  \/ Heartbeat(c) \/ HeartbeatRaises(c) \/ Release(c) \/ ReleaseRaises(c)
  \/ Crash(c) \/ CrashInBroker(c)

FarmStep(s) ==
  PollHealth(s) \/ PollFails(s) \/ PollLease(s) \/ Kill(s) \/ Relaunch(s) \/ Ready(s)

FarmNext ==
  \/ \E c \in Clients : ClientStep(c)
  \/ \E p \in flight : Arrive(p)
  \/ \E c \in Direct, s \in Slots : Connect(c, s)
  \/ \E c \in Workers : WorkerStep(c)
  \/ \E s \in Slots : Expire(s) \/ FarmStep(s)

\* What a worker does next once it is in the broker or has a lease, and what the
\* supervisor does next about a slot it has read something of or must restart.
WorkerGoesOn(c) ==
  \/ Reclaim(c) \/ Probe(c) \/ Grant(c) \/ Start(c) \/ ProviderTimeout(c)
  \/ Release(c) \/ ReleaseRaises(c)

SupervisorGoesOn(s) ==
  PollLease(s) \/ (Kill(s) /\ seen[s] = "kill") \/ Relaunch(s) \/ Ready(s)

\* Every process that is alive goes on, every rollout ends, a lock that is free again
\* and again is taken, a server that is FREE again and again answers so, and leases
\* that nobody renews lapse.
FarmFairness ==
  /\ \A c \in Clients : WF_farmVars(Exit(c))
  /\ \A c \in Workers :
       /\ WF_farmVars(WorkerGoesOn(c))
       /\ SF_farmVars(Probe(c) /\ lockAt' = "write")
       /\ \A s \in Slots : SF_farmVars(Examine(c, s))
  /\ \A s \in Slots :
       /\ WF_farmVars(Expire(s))
       /\ SF_farmVars(PollHealth(s))
       /\ WF_farmVars(SupervisorGoesOn(s))

FarmSpec == FarmInit /\ [][FarmNext]_farmVars /\ FarmFairness

-----------------------------------------------------------------------------
(* Properties.                                                             *)

\* Leases, handles and slot records have the values the code gives them; a worker
\* has a lease handle exactly between acquire and release (run_worker).
FarmTypeOK ==
  /\ owner \in [Slots -> Sessions \cup {None}]
  /\ up \subseteq Slots /\ observed \subseteq Slots /\ lost \subseteq Slots
  /\ \A s \in Slots : lease[s] = None \/ lease[s] \in [id : Workers \X (1 .. MaxJobs), live : BOOLEAN]
  /\ work \in [Workers -> {"idle", "acquiring", "leased", "running", "ending", "dead"}]
  /\ \A c \in Workers : (handle[c] # None) <=> (work[c] \in {"leased", "running", "ending"})
  /\ limit \in Limits /\ lockBy \in Workers \cup {None}
  /\ lockAt \in {"free", "reclaim", "probe", "write", "left"}
  /\ (lockBy = None) <=> (lockAt = "free")
  /\ target \in Slots \cup {None} /\ slipped \subseteq Slots
  /\ status \in [Slots -> {"ready", "restarting", "quarantined"}]
  /\ restarts \in [Slots -> 0 .. RestartLimit]
  /\ seen \in [Slots -> {None, "bound", "kill"}]

\* What a poll has read of the lease file holds until it acts on it, whatever the
\* holder of that lease does and however long the server takes to answer: it removes an
\* expired lease only, and finds no file where it writes one with overwrite=False.
BrokerAlone ==
  /\ lockAt = "reclaim" => lease[target] # None /\ ~Live(target)
  /\ lockAt \in {"probe", "write"} => lease[target] = None

\* The broker's files, the workers' handles and the farm's records at every moment
\* (run_worker, EnvironmentSlotBroker).
FarmInv == FarmTypeOK /\ BrokerAlone

\* No more slots are leased than the farm may use, whoever polls, dies in the broker or
\* comes back to an expired lease (acquire counts the files under the lock).
LimitKept == Cardinality({s \in Slots : lease[s] # None}) <= limit

Named(l) == IF l = None THEN None ELSE l.id

\* The lease of a slot under a session, be it of a worker or of a client without a
\* lease, is neither taken away nor given to another: it ends by its holder's own
\* release, unless the session was bound after the broker had read FREE and before it
\* acted on that (acquire asks the server before each of the two).
BoundKeepsLease ==
  [][\A s \in Slots :
       owner[s] # None /\ Named(lease'[s]) # Named(lease[s])
       => \/ s \in slipped
          \/ \E c \in Workers : /\ work[c] = "ending" /\ lockBy = None
                                /\ Holds(c) /\ handle[c].slot = s]_farmVars

\* A slot nobody can use again: quarantined, or bound by a process that is gone while
\* the supervisor, which has seen no lease over the binding, spares it as a direct
\* client's.
Stranded(s) == \/ status[s] = "quarantined"
               \/ /\ owner[s] # None /\ s \notin observed
                  /\ \A c \in Clients : proc[c] = None \/ proc[c].id # owner[s]

\* A lock left by a worker that died in the broker: nobody removes it.
LockLeft == lockAt = "left"

\* Leases that no worker will release use up the limit, which acquire looks at first.
LimitSpent ==
  limit <= Cardinality({s \in Slots : /\ lease[s] # None
                                      /\ \A c \in Workers : handle[c] = None \/ ~Holds(c)
                                                            \/ handle[c].slot # s})

\* Crashed workers, expired leases, lost servers and unknown outcomes do not use up
\* the farm: a worker that asks for a slot gets one, unless it gives up, every slot is
\* stranded, or a crash has left the broker locked or its limit spent.
Served == \A c \in Workers :
  work[c] = "acquiring" ~> \/ work[c] # "acquiring"
                           \/ LockLeft \/ LimitSpent
                           \/ \A s \in Slots : Stranded(s)
=============================================================================
