------------------------------ MODULE EnvPool -------------------------------
(***************************************************************************)
(* The environment pool of one env spec on one env worker                  *)
(* (rollout_runtime/workers/env_worker.py: EnvPool, EnvPoolManager and     *)
(* RuntimeEnvWorker.create_binding / _ensure_pool / release_binding /      *)
(* _reap_loop), with the per-slot execution core it grows and shrinks      *)
(* (backends/robocasa_current.py: add_slot, remove_slot, close).           *)
(*                                                                         *)
(* Everything runs on one event loop, so code between two awaits is one    *)
(* step; the core's blocking calls run in threads and take effect at any   *)
(* moment while their caller waits.  _state_lock is never held across an   *)
(* await and disappears; _pool_locks[key] is held while a pool is built or *)
(* closed and is the variable poolLock.                                    *)
(*                                                                         *)
(* A rebuilt pool is a new object: pools are numbered by their builds, and *)
(* a binding in progress keeps the object it started with while everything *)
(* else finds the pool by its key.                                         *)
(***************************************************************************)
EXTENDS Naturals, FiniteSets, FiniteSetsExt

CONSTANTS Sessions,     \* session ids the gateway may bind
          MinSize,      \* env_spec.pool_size
          MaxSize,      \* env_spec.effective_max_pool_size()
          MaxBuilds,    \* bound on how often the pool is built
          Reaper, None

ASSUME SizeAssumption == MinSize \in Nat \ {0} /\ MaxSize \in Nat /\ MinSize <= MaxSize
ASSUME BuildAssumption == MaxBuilds \in Nat \ {0}
ASSUME SessionAssumption == IsFiniteSet(Sessions)
ASSUME NoneAssumption ==
  None \notin Nat /\ None \notin Sessions \cup {Reaper} /\ Reaper \notin Sessions

Builds == 1 .. MaxBuilds

VARIABLES
  pools,     \* the EnvPool object of each build
  built,     \* how many builds there have been
  table,     \* EnvPoolManager.pools[key]: the build in the table, or None
  poolLock,  \* holder of _pool_locks[key], or None
  pc,        \* where create_binding of each session is
  home,      \* the build a session's create_binding acquires from
  slot,      \* the slot index a session has got, or None
  reaper,    \* where _reap_loop is
  victim     \* the build and index shrink_idle is removing

vars == <<pools, built, table, poolLock, pc, home, slot, reaper, victim>>

\* A pool object: its two slot sets, the number of slots of its core, the
\* counters of EnvPool, and whether the core is still there.
Unbuilt == [warm |-> {}, active |-> {}, count |-> 0, reserved |-> 0, cold |-> 0,
            binding |-> 0, unhealthy |-> FALSE, evicting |-> FALSE, open |-> FALSE]

Fresh == [Unbuilt EXCEPT !.warm = 0 .. MinSize - 1, !.count = MinSize,
                         !.reserved = MinSize, !.open = TRUE]

Init ==
  /\ pools = [p \in Builds |-> Unbuilt]
  /\ built = 0 /\ table = None /\ poolLock = None
  /\ pc = [s \in Sessions |-> "idle"]
  /\ home = [s \in Sessions |-> None]
  /\ slot = [s \in Sessions |-> None]
  /\ reaper = "idle" /\ victim = None

Larger(a, b) == IF a >= b THEN a ELSE b
Less1(n) == IF n = 0 THEN 0 ELSE n - 1

(***************************************************************************)
(* EnvPool                                                                 *)
(***************************************************************************)
\* EnvPool.close, run in a thread.
ClosedPool(r) == [r EXCEPT !.active = {}, !.warm = 0 .. r.count - 1,
                           !.count = 0, !.open = FALSE]

\* EnvPool.release: give an index back, whoever held it.
ReleasedPool(r, i) ==
  IF i < r.reserved THEN [r EXCEPT !.active = @ \ {i}, !.warm = @ \cup {i}] ELSE r

\* acquire_or_grow after add_slot has raised, or has returned index i.
NotGrownPool(r) == [r EXCEPT !.cold = Less1(@), !.binding = @ - 1,
                             !.reserved = Larger(MinSize, Less1(@))]
GrownPool(r, i) == [r EXCEPT !.cold = Less1(@), !.binding = @ - 1,
                             !.reserved = Larger(@, i + 1), !.active = @ \cup {i}]

\* shrink_idle: the last index leaves the books; remove_slot removes it from the
\* core, or raises and the books are restored.
ShrunkPool(r, last) == [r EXCEPT !.warm = @ \ {last}, !.reserved = @ - 1]
RemovedPool(r, last) ==
  IF r.count = last + 1
    THEN [r EXCEPT !.count = @ - 1]
    ELSE [r EXCEPT !.reserved = @ + 1, !.warm = @ \cup {last}]

\* acquire_or_grow on build p, whose record is r: a warm slot, a refusal, or a
\* reservation for a cold create.
Acquire(s, p, r) ==
  \/ /\ r.warm # {}
     /\ slot' = [slot EXCEPT ![s] = Max(r.warm)]
     /\ pools' = [pools EXCEPT ![p] = [r EXCEPT !.warm = @ \ {Max(r.warm)},
                                                !.active = @ \cup {Max(r.warm)}]]
     /\ pc' = [pc EXCEPT ![s] = "bound"]
     /\ UNCHANGED home
  \/ /\ r.warm = {} /\ r.reserved >= MaxSize
     /\ pools' = [pools EXCEPT ![p] = r]
     /\ pc' = [pc EXCEPT ![s] = "idle"]
     /\ UNCHANGED <<slot, home>>
  \/ /\ r.warm = {} /\ r.reserved < MaxSize
     /\ pools' = [pools EXCEPT ![p] = [r EXCEPT !.reserved = @ + 1, !.cold = @ + 1,
                                                !.binding = @ + 1]]
     /\ pc' = [pc EXCEPT ![s] = "add"]
     /\ home' = [home EXCEPT ![s] = p]
     /\ UNCHANGED slot

\* core.add_slot in its thread: the new slot goes to the end.
AddSlot(s) ==
  /\ pc[s] = "add"
  /\ LET p == home[s] IN
     /\ slot' = [slot EXCEPT ![s] = pools[p].count]
     /\ pools' = [pools EXCEPT ![p].count = @ + 1]
  /\ pc' = [pc EXCEPT ![s] = "added"]
  /\ UNCHANGED <<built, table, poolLock, home, reaper, victim>>
\* core.add_slot raises: the reservation is undone.
AddFails(s) ==
  /\ pc[s] = "add"
  /\ pools' = [pools EXCEPT ![home[s]] = NotGrownPool(@)]
  /\ pc' = [pc EXCEPT ![s] = "idle"]
  /\ home' = [home EXCEPT ![s] = None]
  /\ UNCHANGED <<built, table, poolLock, slot, reaper, victim>>

\* The event loop resumes acquire_or_grow, create_binding records the slot.
AddDone(s) ==
  /\ pc[s] = "added"
  /\ pools' = [pools EXCEPT ![home[s]] = GrownPool(@, slot[s])]
  /\ pc' = [pc EXCEPT ![s] = "bound"]
  /\ home' = [home EXCEPT ![s] = None]
  /\ UNCHANGED <<built, table, poolLock, slot, reaper, victim>>

(***************************************************************************)
(* RuntimeEnvWorker: create_binding through _ensure_pool, release_binding  *)
(***************************************************************************)
Usable(p) == p # None /\ pools[p].open /\ ~pools[p].unhealthy /\ ~pools[p].evicting

\* The fast path of _ensure_pool needs no lock; otherwise the call queues for it.
CreateBinding(s) ==
  /\ pc[s] = "idle"
  /\ IF Usable(table)
       THEN Acquire(s, table, pools[table])
       ELSE /\ pc' = [pc EXCEPT ![s] = "lock"]
            /\ UNCHANGED <<pools, home, slot>>
  /\ UNCHANGED <<built, table, poolLock, reaper, victim>>

\* The double check under the lock: somebody built the pool meanwhile, or the
\* old one is dead and still in use, or it is dead and can be retired, or
\* there is none.
EnsureLocked(s) ==
  /\ pc[s] = "lock" /\ poolLock = None
  /\ \/ /\ Usable(table)
        /\ Acquire(s, table, pools[table])
        /\ UNCHANGED poolLock
     \/ /\ ~Usable(table) /\ table # None /\ pools[table].active # {}
        /\ pc' = [pc EXCEPT ![s] = "idle"]
        /\ UNCHANGED <<pools, home, slot, poolLock>>
     \/ /\ ~Usable(table) /\ (table # None => pools[table].active = {})
        /\ pc' = [pc EXCEPT ![s] = IF table = None THEN "build" ELSE "retire"]
        /\ poolLock' = s
        /\ UNCHANGED <<pools, home, slot>>
  /\ UNCHANGED <<built, table, reaper, victim>>
\* Mutant of RetirePool: the dead pool leaves the table and is not closed.
RetireForgets(s) ==
  /\ pc[s] = "retire"
  /\ table' = None
  /\ pc' = [pc EXCEPT ![s] = "build"]
  /\ UNCHANGED <<pools, built, poolLock, home, slot, reaper, victim>>

RetirePool(s) ==
  /\ pc[s] = "retire"
  /\ pools' = [pools EXCEPT ![table] = ClosedPool(@)]
  /\ table' = None
  /\ pc' = [pc EXCEPT ![s] = "build"]
  /\ UNCHANGED <<built, poolLock, home, slot, reaper, victim>>

\* EnvPoolManager.ensure_pool in its thread: the pool is in the table, and the
\* fast path of other callers finds it before the builder goes on.
BuildPool(s) ==
  /\ pc[s] = "build" /\ built < MaxBuilds
  /\ built' = built + 1
  /\ table' = built + 1
  /\ pools' = [pools EXCEPT ![built + 1] = Fresh]
  /\ pc' = [pc EXCEPT ![s] = "built"]
  /\ UNCHANGED <<poolLock, home, slot, reaper, victim>>

\* The builder leaves the lock and takes a slot of the pool it has built.
BuildDone(s) ==
  /\ pc[s] = "built"
  /\ poolLock' = None
  /\ Acquire(s, table, pools[table])
  /\ UNCHANGED <<built, table, reaper, victim>>

\* core.build raises, or MaxBuilds is reached.
BuildFails(s) ==
  /\ pc[s] = "build"
  /\ pc' = [pc EXCEPT ![s] = "idle"]
  /\ poolLock' = None
  /\ UNCHANGED <<pools, built, table, home, slot, reaper, victim>>

\* RELEASE_BINDING, or recover_expired_sessions of _reap_loop: the slot goes
\* back to whatever pool the key finds now.
ReleaseBinding(s) ==
  /\ pc[s] = "bound"
  /\ pools' = IF table = None THEN pools
              ELSE [pools EXCEPT ![table] = ReleasedPool(@, slot[s])]
  /\ pc' = [pc EXCEPT ![s] = "idle"]
  /\ slot' = [slot EXCEPT ![s] = None]
  /\ UNCHANGED <<built, table, poolLock, home, reaper, victim>>

\* A core call of a bound session finds a broken pipe.
MarkUnhealthy ==
  /\ \E s \in Sessions : pc[s] = "bound"
  /\ table # None /\ pools[table].open
  /\ pools' = [pools EXCEPT ![table].unhealthy = TRUE]
  /\ UNCHANGED <<built, table, poolLock, pc, home, slot, reaper, victim>>

(***************************************************************************)
(* _reap_loop: shrink_idle and _evict_idle_pools                           *)
(***************************************************************************)
\* The trailing slot is idle and no cold create is under way.
ShrinkPick ==
  /\ reaper = "idle" /\ table # None
  /\ LET r == pools[table]
         last == r.reserved - 1
     IN /\ r.open /\ r.reserved > MinSize /\ r.cold = 0
        /\ last \in r.warm \ r.active
        /\ pools' = [pools EXCEPT ![table] = ShrunkPool(@, last)]
        /\ victim' = <<table, last>>
  /\ reaper' = "remove"
  /\ UNCHANGED <<built, table, poolLock, pc, home, slot>>

\* core.remove_slot in its thread, and what follows it.
ShrinkRemove ==
  /\ reaper = "remove"
  /\ pools' = [pools EXCEPT ![victim[1]] = RemovedPool(@, victim[2])]
  /\ reaper' = "idle" /\ victim' = None
  /\ UNCHANGED <<built, table, poolLock, pc, home, slot>>
\* Mutant of EvictStart: bindings in progress do not hold the pool.
EvictPending ==
  /\ reaper = "idle" /\ poolLock = None /\ table # None
  /\ pools[table].active = {}
  /\ pools' = [pools EXCEPT ![table].evicting = TRUE]
  /\ poolLock' = Reaper
  /\ reaper' = "evict"
  /\ UNCHANGED <<built, table, pc, home, slot, victim>>

\* One idle pool too many: it is closed under its lock.  Whether other specs'
\* pools make it one too many is left open.
EvictStart ==
  /\ reaper = "idle" /\ poolLock = None /\ table # None
  /\ pools[table].active = {} /\ pools[table].binding = 0
  /\ pools' = [pools EXCEPT ![table].evicting = TRUE]
  /\ poolLock' = Reaper
  /\ reaper' = "evict"
  /\ UNCHANGED <<built, table, pc, home, slot, victim>>

EvictDone ==
  /\ reaper = "evict"
  /\ pools' = [pools EXCEPT ![table] = [ClosedPool(pools[table]) EXCEPT !.evicting = FALSE]]
  /\ table' = None
  /\ poolLock' = None
  /\ reaper' = "idle"
  /\ UNCHANGED <<built, pc, home, slot, victim>>

Next == \/ \E s \in Sessions : \/ CreateBinding(s) \/ EnsureLocked(s) \/ RetirePool(s)
                               \/ BuildPool(s) \/ BuildDone(s) \/ BuildFails(s)
                               \/ AddSlot(s) \/ AddFails(s) \/ AddDone(s)
                               \/ ReleaseBinding(s)
        \/ MarkUnhealthy \/ ShrinkPick \/ ShrinkRemove \/ EvictStart \/ EvictDone

Spec == Init /\ [][Next]_vars

-----------------------------------------------------------------------------
Bound == {s \in Sessions : pc[s] = "bound"}

\* The sets and counters of every pool object have their types.
TypeOK ==
  /\ \A p \in Builds :
       LET r == pools[p] IN
         /\ r.warm \subseteq Nat /\ r.active \subseteq Nat
         /\ {r.count, r.reserved, r.cold, r.binding} \subseteq Nat
         /\ {r.unhealthy, r.evicting, r.open} \subseteq BOOLEAN
  /\ built \in 0 .. MaxBuilds /\ table \in Builds \cup {None}
  /\ poolLock \in Sessions \cup {Reaper, None}
  /\ pc \in [Sessions -> {"idle", "lock", "retire", "build", "built", "add", "added", "bound"}]
  /\ home \in [Sessions -> Builds \cup {None}]
  /\ slot \in [Sessions -> Nat \cup {None}]
  /\ reaper \in {"idle", "remove", "evict"}

\* One live core per key, even while dead pools are retired, idle ones evicted
\* and builds fail: _ensure_pool builds "a given digest only once".
OneLiveCore == \A p \in Builds : pools[p].open => table = p

\* pending_bindings and _pending_cold_creates count exactly the bindings that
\* are between the pool lookup and their slot, in whatever order they fail or
\* succeed: they gate eviction and shrinking.
PendingCounted ==
  \A p \in Builds :
    LET n == Cardinality({s \in Sessions : home[s] = p}) IN
      pools[p].binding = n /\ pools[p].cold = n

\* Two sessions bound on the worker never drive the same environment: both
\* resolve the pool by its key, so their slot indices differ (_ensure_pool:
\* "so two sessions would end up on the same lane").
SlotExclusive == \A s, t \in Bound : slot[s] = slot[t] => s = t

\* While no simulator has died, no two bound sessions share an environment and
\* the environment of each is there, however growth, its failures, shrinking,
\* eviction and rebuilds overlap: not removed by shrink_idle, not closed by
\* _evict_idle_pools under a binding that is still in progress.
HealthySlots ==
  (\A p \in Builds : ~pools[p].unhealthy) =>
    /\ SlotExclusive
    /\ \A s \in Bound : /\ table # None /\ pools[table].open
                        /\ slot[s] < pools[table].count

\* The pool table and the counters agree with the pools and bindings there are,
\* on both sides of every await (_ensure_pool, _acquire_slot).
PoolInv == TypeOK /\ OneLiveCore /\ PendingCounted
=============================================================================
