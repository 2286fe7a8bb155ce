--------------------------- MODULE EnvPool_proofs ---------------------------
(***************************************************************************)
(* Every state of EnvPool!Spec satisfies Inductive, for any finite set of  *)
(* sessions, any pool sizes and any number of builds: one lemma per        *)
(* action.  From it follow PoolInv and HealthySlots.                       *)
(***************************************************************************)
EXTENDS EnvPool, FiniteSetTheorems, WellFoundedInduction, TLAPS

Pool == [warm : SUBSET Nat, active : SUBSET Nat, count : Nat, reserved : Nat, cold : Nat,
         binding : Nat, unhealthy : BOOLEAN, evicting : BOOLEAN, open : BOOLEAN]

\* A warm set has a largest element, which acquire_or_grow pops.
Bounded(S) == \E u \in Nat : \A i \in S : i <= u

\* TypeOK, and what the values are made of.
Typed ==
  /\ pools \in [Builds -> Pool]
  /\ \A p \in Builds : Bounded(pools[p].warm)
  /\ built \in 0 .. MaxBuilds /\ table \in Builds \cup {None}
  /\ poolLock \in Sessions \cup {Reaper, None}
  /\ pc \in [Sessions -> {"idle", "lock", "retire", "build", "built", "add", "added", "bound"}]
  /\ home \in [Sessions -> Builds \cup {None}]
  /\ slot \in [Sessions -> Nat \cup {None}]
  /\ reaper \in {"idle", "remove", "evict"}
  /\ reaper = "remove" => victim \in Builds \X Nat

\* Who builds, retires or evicts holds the pool lock, and the table is as the
\* holder left it.
Locked ==
  /\ \A s \in Sessions : pc[s] \in {"retire", "build", "built"} <=> poolLock = s
  /\ reaper = "evict" <=> poolLock = Reaper
  /\ \A s \in Sessions :
       /\ pc[s] = "retire" => table # None /\ pools[table].unhealthy
       /\ pc[s] = "build" => table = None
       /\ pc[s] = "built" => table # None
  /\ reaper = "evict" => table # None /\ pools[table].evicting
  /\ \A p \in Builds : pools[p].evicting => reaper = "evict" /\ table = p

\* The table holds the one pool whose core is there, a build so far.
Tabled ==
  /\ \A p \in Builds : pools[p].open <=> table = p
  /\ table # None => table <= built
  /\ \A p \in Builds : p > built => ~pools[p].unhealthy
  /\ \A s \in Sessions : home[s] # None => home[s] <= built

\* A session remembers a pool while its cold create runs, and a slot from the
\* moment the core has added it.
Placed ==
  \A s \in Sessions :
    /\ home[s] # None <=> pc[s] \in {"add", "added"}
    /\ pc[s] \in {"added", "bound"} => slot[s] # None

Pending(p) == {s \in Sessions : home[s] = p}

Counted ==
  \A p \in Builds : /\ pools[p].binding = Cardinality(Pending(p))
                    /\ pools[p].cold = Cardinality(Pending(p))

Healthy == \A p \in Builds : ~pools[p].unhealthy

\* Every index of the core is in one place at most: warm, active, in the hands
\* of a cold create that has just added it, or of shrink_idle.
OnePlace ==
  LET r == pools[table] IN
    /\ \A i \in r.warm : i < r.count /\ i \notin r.active
    /\ \A i \in r.active : i < r.count
    /\ \A s \in Sessions : pc[s] = "bound" => slot[s] \in r.active
    /\ \A s \in Sessions : pc[s] = "added" =>
         slot[s] < r.count /\ slot[s] \notin r.warm /\ slot[s] \notin r.active
    /\ \A s, t \in Sessions :
         pc[s] \in {"added", "bound"} /\ pc[t] = pc[s] /\ slot[s] = slot[t] => s = t
    /\ reaper = "remove" =>
         /\ victim[2] < r.count /\ victim[2] \notin r.warm /\ victim[2] \notin r.active
         /\ \A s \in Sessions : pc[s] = "added" => slot[s] # victim[2]
    /\ reaper = "evict" => r.active = {} /\ r.binding = 0

\* While no simulator has died nobody holds on to a pool that is not in the
\* table.
Current ==
  /\ \A s \in Sessions : /\ home[s] # None => home[s] = table
                         /\ pc[s] = "bound" => table # None
  /\ reaper = "remove" => victim[1] = table

Owned == Healthy => Current /\ (table # None => OnePlace)

Inductive == Typed /\ Locked /\ Tabled /\ Placed /\ Counted /\ Owned

-----------------------------------------------------------------------------
\* A bounded set of naturals that is not empty has a largest element: the least
\* distance from the bound is well founded.
LEMMA MaxIn ==
  ASSUME NEW S \in SUBSET Nat, S # {}, Bounded(S)
  PROVE  Max(S) \in S
<1>1. PICK u \in Nat : \A i \in S : i <= u
  BY DEF Bounded
<1> DEFINE T == {n \in Nat : \E i \in S : i = u - n}
<1>2. T # {} /\ T \subseteq Nat
  <2>1. PICK i \in S : TRUE
    OBVIOUS
  <2>2. u - i \in T
    BY <1>1, <2>1
  <2>3. QED
    BY <2>2
<1>3. PICK n \in T : \A m \in T : ~(<<m, n>> \in OpToRel(<, Nat))
  <2> HIDE DEF T
  <2>1. QED
    BY <1>2, NatLessThanWellFounded, WFMin, Zenon
<1>4. \A m \in T : ~(m < n)
  <2>1. \A m \in T : <<m, n>> \in Nat \X Nat
    BY <1>2
  <2>2. QED
    BY <1>3, <2>1 DEF OpToRel
<1>5. PICK i \in S : i = u - n
  OBVIOUS
<1>6. \A j \in S : i >= j
  <2>1. SUFFICES ASSUME NEW j \in S PROVE i >= j
    OBVIOUS
  <2>2. u - j \in T
    BY <1>1
  <2>3. ~(u - j < n)
    BY <1>4, <2>2
  <2>4. QED
    BY <1>5, <2>3
<1>7. QED
  BY <1>6 DEF Max

\* One pool object is replaced by another.
LEMMA PoolUpdate ==
  ASSUME Typed, NEW p \in Builds, NEW q \in Pool, Bounded(q.warm),
         pools' = [pools EXCEPT ![p] = q]
  PROVE  /\ pools' \in [Builds -> Pool]
         /\ pools'[p] = q
         /\ \A o \in Builds : o # p => pools'[o] = pools[o]
         /\ \A o \in Builds : Bounded(pools'[o].warm)
BY DEF Typed

LEMMA BoundedSets ==
  ASSUME NEW S \in SUBSET Nat, Bounded(S), NEW i \in Nat, NEW n \in Nat
  PROVE  /\ Bounded(S \cup {i}) /\ Bounded(S \ {i})
         /\ Bounded({}) /\ Bounded(0 .. n - 1)
<1>1. PICK u \in Nat : \A j \in S : j <= u
  BY DEF Bounded
<1>2. \A j \in S \cup {i} : j <= u + i
  BY <1>1
<1>3. u + i \in Nat /\ u \in Nat
  OBVIOUS
<1>4. Bounded(S \cup {i})
  BY <1>2, <1>3 DEF Bounded
<1>5. Bounded(S \ {i})
  BY <1>1 DEF Bounded
<1>6. Bounded({})
  BY <1>3 DEF Bounded
<1>7. \A j \in 0 .. n - 1 : j <= n
  OBVIOUS
<1>8. QED
  BY <1>4, <1>5, <1>6, <1>7 DEF Bounded

\* The bindings in progress on one pool are finitely many.
LEMMA PendingFinite ==
  ASSUME NEW p
  PROVE  IsFiniteSet(Pending(p)) /\ Cardinality(Pending(p)) \in Nat
<1>1. Pending(p) \subseteq Sessions
  BY DEF Pending
<1>2. QED
  BY <1>1, SessionAssumption, FS_Subset, FS_CardinalityType

\* A session begins a cold create on pool p.
LEMMA PendingGrows ==
  ASSUME Typed, NEW s \in Sessions, NEW p \in Builds, home[s] = None,
         home' = [home EXCEPT ![s] = p]
  PROVE  /\ Cardinality(Pending(p)') = Cardinality(Pending(p)) + 1
         /\ \A o \in Builds : o # p => Pending(o)' = Pending(o)
<1>1. home \in [Sessions -> Builds \cup {None}] /\ None \notin Builds
  BY NoneAssumption DEF Typed, Builds
<1>2. Pending(p)' = Pending(p) \cup {s} /\ s \notin Pending(p)
  BY <1>1 DEF Pending
<1>3. \A o \in Builds : o # p => Pending(o)' = Pending(o)
  BY <1>1 DEF Pending
<1>4. QED
  BY <1>2, <1>3, PendingFinite, FS_AddElement

\* A session ends its cold create on pool p.
LEMMA PendingShrinks ==
  ASSUME Typed, NEW s \in Sessions, NEW p \in Builds, home[s] = p,
         home' = [home EXCEPT ![s] = None]
  PROVE  /\ Cardinality(Pending(p)') = Cardinality(Pending(p)) - 1
         /\ Cardinality(Pending(p)) \in Nat \ {0}
         /\ \A o \in Builds : o # p => Pending(o)' = Pending(o)
<1>1. home \in [Sessions -> Builds \cup {None}] /\ None \notin Builds
  BY NoneAssumption DEF Typed, Builds
<1>2. Pending(p)' = Pending(p) \ {s} /\ s \in Pending(p)
  BY <1>1 DEF Pending
<1>3. \A o \in Builds : o # p => Pending(o)' = Pending(o)
  BY <1>1 DEF Pending
<1>4. Cardinality(Pending(p)) \in Nat /\ Cardinality(Pending(p)) # 0
  BY <1>2, PendingFinite, FS_EmptySet
<1>5. QED
  BY <1>2, <1>3, <1>4, PendingFinite, FS_RemoveElement

\* No cold create begins or ends.
LEMMA CountedFrame ==
  ASSUME Counted, UNCHANGED home,
         \A p \in Builds : pools'[p].binding = pools[p].binding /\ pools'[p].cold = pools[p].cold
  PROVE  Counted'
BY DEF Counted, Pending

-----------------------------------------------------------------------------
LEMMA Initially ==
  ASSUME Init
  PROVE  Inductive
<1> USE DEF Init
<1>1. Unbuilt \in Pool /\ Bounded(Unbuilt.warm)
  BY BoundedSets DEF Unbuilt, Pool, Bounded
<1>2. Typed
  BY <1>1, BuildAssumption DEF Typed, Builds
<1>3. Locked
  BY NoneAssumption DEF Locked, Unbuilt
<1>4. Tabled
  BY NoneAssumption DEF Tabled, Builds, Unbuilt
<1>5. Placed
  BY DEF Placed
<1>6. \A p \in Builds : Pending(p) = {}
  BY NoneAssumption DEF Pending, Builds
<1>7. Counted
  BY <1>6, FS_EmptySet DEF Counted, Unbuilt
<1>8. Owned
  BY DEF Owned, Current
<1>9. QED
  BY <1>2, <1>3, <1>4, <1>5, <1>7, <1>8 DEF Inductive

-----------------------------------------------------------------------------
\* acquire_or_grow of a session on the pool in the table, which is not being
\* evicted; a builder leaves the lock with it.
Acquires(s) ==
  /\ s \in Sessions /\ table # None /\ ~pools[table].evicting
  /\ Acquire(s, table, pools[table])
  /\ UNCHANGED <<built, table, reaper, victim>>
  /\ \/ pc[s] \in {"idle", "lock"} /\ UNCHANGED poolLock
     \/ pc[s] = "built" /\ poolLock' = None

\* The fields of the pool that acquire_or_grow leaves alone.
SameCore(q, r) ==
  q.count = r.count /\ q.unhealthy = r.unhealthy /\ q.evicting = r.evicting /\ q.open = r.open

\* Acquiring does not touch the lock discipline and the table.
LEMMA AcquireFrame ==
  ASSUME Inductive, NEW s \in Sessions, Acquires(s), NEW q \in Pool,
         pools' = [pools EXCEPT ![table] = q], Bounded(q.warm), SameCore(q, pools[table]),
         NEW to \in {"idle", "bound", "add"}, pc' = [pc EXCEPT ![s] = to],
         \/ UNCHANGED home
         \/ home' = [home EXCEPT ![s] = table]
  PROVE  /\ Locked' /\ Tabled'
         /\ table \in Builds /\ table' = table
         /\ pools' \in [Builds -> Pool] /\ pools'[table] = q
         /\ \A o \in Builds : o # table => pools'[o] = pools[o]
         /\ \A o \in Builds : Bounded(pools'[o].warm)
         /\ reaper # "evict" /\ UNCHANGED <<built, reaper, victim>>
         /\ poolLock' \in Sessions \cup {Reaper, None}
         /\ Healthy' <=> Healthy
<1>1. table \in Builds /\ UNCHANGED <<built, table, reaper, victim>>
  BY DEF Acquires, Inductive, Typed
<1>2. /\ pools' \in [Builds -> Pool] /\ pools'[table] = q
      /\ \A o \in Builds : o # table => pools'[o] = pools[o]
      /\ \A o \in Builds : Bounded(pools'[o].warm)
  BY <1>1, PoolUpdate DEF Inductive
<1>3. \A o \in Builds : /\ pools'[o].unhealthy = pools[o].unhealthy
                        /\ pools'[o].evicting = pools[o].evicting
                        /\ pools'[o].open = pools[o].open
  BY <1>1, <1>2 DEF SameCore
<1>4. reaper # "evict"
  BY DEF Inductive, Locked, Acquires
<1>5. pc \in [Sessions -> {"idle", "lock", "retire", "build", "built", "add", "added", "bound"}]
  BY DEF Inductive, Typed
<1>6. pc'[s] = to /\ \A t \in Sessions : t # s => pc'[t] = pc[t]
  BY <1>5
<1>7. Locked'
  <2>1. \A t \in Sessions : pc'[t] \in {"retire", "build", "built"} <=> poolLock' = t
    BY <1>6, NoneAssumption DEF Acquires, Inductive, Locked
  <2>2. poolLock' # Reaper
    BY <1>4, NoneAssumption DEF Acquires, Inductive, Locked
  <2>3. \A t \in Sessions :
       /\ pc'[t] = "retire" => table # None /\ pools'[table].unhealthy
       /\ pc'[t] = "build" => table = None
       /\ pc'[t] = "built" => table # None
    BY <1>1, <1>3, <1>6 DEF Inductive, Locked
  <2>4. \A o \in Builds : ~pools'[o].evicting
    BY <1>3, <1>4 DEF Inductive, Locked
  <2>5. QED
    BY <1>1, <1>4, <2>1, <2>2, <2>3, <2>4 DEF Locked
<1>8. Tabled'
  <2>1. \A t \in Sessions : home'[t] # None => home'[t] <= built
    BY <1>1 DEF Inductive, Tabled, Typed
  <2>2. QED
    BY <1>1, <1>3, <2>1 DEF Inductive, Tabled
<1>9. poolLock' \in Sessions \cup {Reaper, None}
  BY DEF Acquires, Inductive, Typed
<1>10. Healthy' <=> Healthy
  BY <1>3 DEF Healthy
<1>11. QED
  BY <1>1, <1>2, <1>4, <1>7, <1>8, <1>9, <1>10

LEMMA AcquireStep ==
  ASSUME Inductive, NEW s \in Sessions, Acquires(s)
  PROVE  Inductive'
<1> DEFINE r == pools[table]
<1> USE DEF Inductive
<1>1. /\ table \in Builds /\ r \in Pool /\ Bounded(r.warm)
      /\ UNCHANGED <<built, table, reaper, victim>>
  BY DEF Acquires, Typed
<1>2. /\ pc \in [Sessions -> {"idle", "lock", "retire", "build", "built", "add", "added", "bound"}]
      /\ home \in [Sessions -> Builds \cup {None}] /\ slot \in [Sessions -> Nat \cup {None}]
  BY DEF Typed
<1>3. pc[s] \in {"idle", "lock", "built"} /\ home[s] = None
  BY DEF Acquires, Placed
<1>4. CASE r.warm # {} /\ Acquire(s, table, r)
  <2> DEFINE i == Max(r.warm)
  <2> DEFINE q == [r EXCEPT !.warm = @ \ {i}, !.active = @ \cup {i}]
  <2>1. i \in r.warm /\ i \in Nat /\ i # None
    BY <1>1, <1>4, MaxIn, NoneAssumption DEF Pool
  <2> HIDE DEF i
  <2>2. /\ slot' = [slot EXCEPT ![s] = i] /\ pools' = [pools EXCEPT ![table] = q]
        /\ pc' = [pc EXCEPT ![s] = "bound"] /\ UNCHANGED home
    BY <1>4 DEF Acquire, i
  <2>3. /\ q \in Pool /\ q.warm = r.warm \ {i} /\ q.active = r.active \cup {i}
        /\ q.count = r.count /\ q.binding = r.binding /\ q.cold = r.cold /\ SameCore(q, r)
    BY <1>1, <2>1 DEF Pool, SameCore
  <2>4. Bounded(q.warm)
    BY <1>1, <2>1, <2>3, BoundedSets DEF Pool
  <2> HIDE DEF q
  <2>5. /\ Locked' /\ Tabled' /\ reaper # "evict"
        /\ pools' \in [Builds -> Pool] /\ pools'[table] = q
        /\ \A o \in Builds : o # table => pools'[o] = pools[o]
        /\ \A o \in Builds : Bounded(pools'[o].warm)
        /\ poolLock' \in Sessions \cup {Reaper, None}
        /\ Healthy' <=> Healthy
    BY <2>2, <2>3, <2>4, AcquireFrame
  <2>6. pc'[s] = "bound" /\ slot'[s] = i /\ \A t \in Sessions : t # s => pc'[t] = pc[t] /\ slot'[t] = slot[t]
    BY <1>2, <2>2
  <2>7. Typed'
    BY <1>1, <1>2, <2>1, <2>2, <2>5 DEF Typed
  <2>8. Placed'
    BY <1>3, <2>1, <2>2, <2>6 DEF Placed
  <2>9. Counted'
    BY <1>1, <2>2, <2>3, <2>5, CountedFrame
  <2>10. Owned'
    <3>1. SUFFICES ASSUME Healthy PROVE Current' /\ OnePlace'
      BY <2>5 DEF Owned
    <3>2. Current /\ OnePlace
      BY <3>1, <1>1, NoneAssumption DEF Owned, Builds
    <3>3. Current'
      BY <1>1, <2>2, <2>6, <3>2, NoneAssumption DEF Current, Builds
    <3>4. OnePlace'
      BY <1>1, <2>1, <2>3, <2>5, <2>6, <3>2 DEF OnePlace
    <3>5. QED
      BY <3>3, <3>4
  <2>11. QED
    BY <2>5, <2>7, <2>8, <2>9, <2>10
<1>5. CASE r.warm = {} /\ r.reserved >= MaxSize /\ Acquire(s, table, r)
  <2>2. /\ UNCHANGED <<slot, home>> /\ pools' = [pools EXCEPT ![table] = r]
        /\ pc' = [pc EXCEPT ![s] = "idle"]
    BY <1>1, <1>5, SizeAssumption DEF Acquire, Pool
  <2>3. pools' = pools
    BY <1>1, <2>2 DEF Typed
  <2>5. /\ Locked' /\ Tabled' /\ reaper # "evict"
        /\ poolLock' \in Sessions \cup {Reaper, None}
    BY <1>1, <2>2, AcquireFrame DEF SameCore
  <2>6. pc'[s] = "idle" /\ \A t \in Sessions : t # s => pc'[t] = pc[t]
    BY <1>2, <2>2
  <2>7. Typed'
    BY <1>1, <1>2, <2>2, <2>3, <2>5 DEF Typed
  <2>8. Placed'
    BY <1>3, <2>2, <2>6 DEF Placed
  <2>9. Counted'
    BY <2>2, <2>3, CountedFrame
  <2>10. Owned'
    <3>1. SUFFICES ASSUME Healthy PROVE Current' /\ OnePlace'
      BY <2>3 DEF Owned, Healthy
    <3>2. Current /\ OnePlace
      BY <3>1, <1>1, NoneAssumption DEF Owned, Builds
    <3>3. Current'
      BY <1>1, <2>2, <2>6, <3>2 DEF Current
    <3>4. OnePlace'
      BY <1>1, <2>2, <2>3, <2>5, <2>6, <3>2 DEF OnePlace
    <3>5. QED
      BY <3>3, <3>4
  <2>11. QED
    BY <2>5, <2>7, <2>8, <2>9, <2>10
<1>6. CASE r.warm = {} /\ r.reserved < MaxSize /\ Acquire(s, table, r)
  <2> DEFINE q == [r EXCEPT !.reserved = @ + 1, !.cold = @ + 1, !.binding = @ + 1]
  <2>2. /\ UNCHANGED slot /\ pools' = [pools EXCEPT ![table] = q]
        /\ pc' = [pc EXCEPT ![s] = "add"] /\ home' = [home EXCEPT ![s] = table]
    BY <1>1, <1>6, SizeAssumption DEF Acquire, Pool
  <2>3. /\ q \in Pool /\ q.warm = r.warm /\ q.active = r.active
        /\ q.count = r.count /\ q.binding = r.binding + 1 /\ q.cold = r.cold + 1
        /\ SameCore(q, r)
    <3>1. r.reserved + 1 \in Nat /\ r.cold + 1 \in Nat /\ r.binding + 1 \in Nat
      BY <1>1 DEF Pool
    <3>2. q \in Pool
      BY <1>1, <3>1 DEF Pool
    <3>3. QED
      BY <1>1, <3>2 DEF Pool, SameCore
  <2>4. Bounded(q.warm)
    BY <1>1, <2>3
  <2> HIDE DEF q
  <2>5. /\ Locked' /\ Tabled' /\ reaper # "evict"
        /\ pools' \in [Builds -> Pool] /\ pools'[table] = q
        /\ \A o \in Builds : o # table => pools'[o] = pools[o]
        /\ \A o \in Builds : Bounded(pools'[o].warm)
        /\ poolLock' \in Sessions \cup {Reaper, None}
        /\ Healthy' <=> Healthy
    BY <2>2, <2>3, <2>4, AcquireFrame
  <2>6. /\ pc'[s] = "add" /\ \A t \in Sessions : t # s => pc'[t] = pc[t]
        /\ home'[s] = table /\ \A t \in Sessions : t # s => home'[t] = home[t]
    BY <1>2, <2>2
  <2>7. Typed'
    BY <1>1, <1>2, <2>2, <2>5 DEF Typed
  <2>8. Placed'
    BY <1>1, <1>3, <2>2, <2>6, NoneAssumption DEF Placed, Builds
  <2>9. Counted'
    <3>1. /\ Cardinality(Pending(table)') = Cardinality(Pending(table)) + 1
          /\ \A o \in Builds : o # table => Pending(o)' = Pending(o)
      BY <1>1, <1>3, <2>2, PendingGrows
    <3>2. QED
      BY <1>1, <2>3, <2>5, <3>1 DEF Counted
  <2>10. Owned'
    <3>1. SUFFICES ASSUME Healthy PROVE Current' /\ OnePlace'
      BY <2>5 DEF Owned
    <3>2. Current /\ OnePlace
      BY <3>1, <1>1, NoneAssumption DEF Owned, Builds
    <3>3. Current'
      BY <1>1, <2>2, <2>6, <3>2, NoneAssumption DEF Current, Builds
    <3>4. OnePlace'
      BY <1>1, <2>2, <2>3, <2>5, <2>6, <3>2 DEF OnePlace
    <3>5. QED
      BY <3>3, <3>4
  <2>11. QED
    BY <2>5, <2>7, <2>8, <2>9, <2>10
<1>7. QED
  BY <1>1, <1>4, <1>5, <1>6, SizeAssumption DEF Acquires, Acquire, Pool

-----------------------------------------------------------------------------
\* A session moves on without touching a pool.
LEMMA CreateBindingStep ==
  ASSUME Inductive, NEW s \in Sessions, CreateBinding(s)
  PROVE  Inductive'
<1> USE DEF Inductive
<1>1. CASE Usable(table)
  <2>1. Acquires(s)
    BY <1>1 DEF CreateBinding, Usable, Acquires
  <2>2. QED
    BY <2>1, AcquireStep
<1>2. CASE ~Usable(table)
  <2>1. /\ pc[s] = "idle" /\ pc' = [pc EXCEPT ![s] = "lock"]
        /\ UNCHANGED <<pools, home, slot, built, table, poolLock, reaper, victim>>
    BY <1>2 DEF CreateBinding
  <2>2. pc'[s] = "lock" /\ \A t \in Sessions : t # s => pc'[t] = pc[t]
    BY <2>1 DEF Typed
  <2>3. Typed' /\ Tabled'
    BY <2>1 DEF Typed, Tabled
  <2>4. Locked'
    BY <2>1, <2>2 DEF Locked
  <2>5. Placed' /\ Counted'
    BY <2>1, <2>2, CountedFrame DEF Placed
  <2>6. Owned'
    BY <2>1, <2>2 DEF Owned, Healthy, Current, OnePlace
  <2>7. QED
    BY <2>3, <2>4, <2>5, <2>6
<1>3. QED
  BY <1>1, <1>2

LEMMA EnsureLockedStep ==
  ASSUME Inductive, NEW s \in Sessions, EnsureLocked(s)
  PROVE  Inductive'
<1> USE DEF Inductive
<1>1. pc[s] = "lock" /\ poolLock = None /\ UNCHANGED <<built, table, reaper, victim>>
  BY DEF EnsureLocked
<1>2. CASE Usable(table) /\ Acquire(s, table, pools[table]) /\ UNCHANGED poolLock
  <2>1. Acquires(s)
    BY <1>1, <1>2 DEF Usable, Acquires
  <2>2. QED
    BY <2>1, AcquireStep
<1>3. CASE pc' = [pc EXCEPT ![s] = "idle"] /\ UNCHANGED <<pools, home, slot, poolLock>>
  <2>2. pc'[s] = "idle" /\ \A t \in Sessions : t # s => pc'[t] = pc[t]
    BY <1>3 DEF Typed
  <2>3. Typed' /\ Tabled'
    BY <1>1, <1>3 DEF Typed, Tabled
  <2>4. Locked'
    BY <1>1, <1>3, <2>2 DEF Locked
  <2>5. Placed' /\ Counted'
    BY <1>1, <1>3, <2>2, CountedFrame DEF Placed
  <2>6. Owned'
    BY <1>1, <1>3, <2>2 DEF Owned, Healthy, Current, OnePlace
  <2>7. QED
    BY <2>3, <2>4, <2>5, <2>6
<1>4. CASE /\ ~Usable(table) /\ UNCHANGED <<pools, home, slot>> /\ poolLock' = s
           /\ pc' = [pc EXCEPT ![s] = IF table = None THEN "build" ELSE "retire"]
  <2>1. reaper # "evict" /\ table # None => pools[table].unhealthy
    BY <1>1, <1>4, NoneAssumption DEF Locked, Tabled, Usable, Typed
  <2>2. /\ pc'[s] = (IF table = None THEN "build" ELSE "retire")
        /\ \A t \in Sessions : t # s => pc'[t] = pc[t]
    BY <1>4 DEF Typed
  <2>3. Typed' /\ Tabled'
    BY <1>1, <1>4 DEF Typed, Tabled
  <2>4. Locked'
    BY <1>1, <1>4, <2>1, <2>2, NoneAssumption DEF Locked
  <2>5. Placed' /\ Counted'
    BY <1>1, <1>4, <2>2, CountedFrame DEF Placed
  <2>6. Owned'
    BY <1>1, <1>4, <2>2 DEF Owned, Healthy, Current, OnePlace
  <2>7. QED
    BY <2>3, <2>4, <2>5, <2>6
<1>5. QED
  BY <1>2, <1>3, <1>4 DEF EnsureLocked

\* The pool of the table is closed and leaves it.
LEMMA RetirePoolStep ==
  ASSUME Inductive, NEW s \in Sessions, RetirePool(s)
  PROVE  Inductive'
<1> USE DEF Inductive
<1> DEFINE r == pools[table]
<1> DEFINE q == ClosedPool(r)
<1>1. /\ pc[s] = "retire" /\ pc' = [pc EXCEPT ![s] = "build"] /\ table' = None
      /\ pools' = [pools EXCEPT ![table] = q]
      /\ UNCHANGED <<built, poolLock, home, slot, reaper, victim>>
  BY DEF RetirePool
<1>2. table \in Builds /\ r.unhealthy /\ poolLock = s /\ r \in Pool
  BY <1>1 DEF Locked, Typed
<1>3. /\ q \in Pool /\ ~q.open /\ q.unhealthy = r.unhealthy /\ q.evicting = r.evicting
      /\ q.binding = r.binding /\ q.cold = r.cold /\ q.warm = 0 .. r.count - 1
  <2>1. r.count \in Nat /\ 0 .. r.count - 1 \in SUBSET Nat
    BY <1>2 DEF Pool
  <2>2. q \in Pool
    BY <1>2, <2>1 DEF ClosedPool, Pool
  <2>3. QED
    BY <1>2, <2>2 DEF ClosedPool, Pool
<1>4. Bounded(q.warm)
  <2>1. r.count \in Nat
    BY <1>2 DEF Pool
  <2>2. QED
    BY <1>3, <2>1, BoundedSets DEF Bounded
<1> HIDE DEF q
<1>5. /\ pools' \in [Builds -> Pool] /\ pools'[table] = q
      /\ \A o \in Builds : o # table => pools'[o] = pools[o]
      /\ \A o \in Builds : Bounded(pools'[o].warm)
  BY <1>1, <1>2, <1>3, <1>4, PoolUpdate
<1>6. pc'[s] = "build" /\ \A t \in Sessions : t # s => pc'[t] = pc[t]
  BY <1>1 DEF Typed
<1>7. Typed'
  BY <1>1, <1>5 DEF Typed
<1>8. Locked'
  <2>1. reaper # "evict" /\ \A t \in Sessions : t # s => pc[t] \notin {"retire", "build", "built"}
    BY <1>2, NoneAssumption DEF Locked
  <2>2. \A o \in Builds : ~pools'[o].evicting
    BY <1>2, <1>3, <1>5, <2>1 DEF Locked
  <2>3. QED
    BY <1>1, <1>2, <1>6, <2>1, <2>2, NoneAssumption DEF Locked
<1>9. Tabled'
  BY <1>1, <1>2, <1>3, <1>5, NoneAssumption DEF Tabled, Builds
<1>10. Placed'
  BY <1>1, <1>6 DEF Placed
<1>11. Counted'
  BY <1>1, <1>2, <1>3, <1>5, CountedFrame
<1>12. Owned'
  BY <1>2, <1>3, <1>5 DEF Owned, Healthy
<1>13. QED
  BY <1>7, <1>8, <1>9, <1>10, <1>11, <1>12

LEMMA BuildPoolStep ==
  ASSUME Inductive, NEW s \in Sessions, BuildPool(s)
  PROVE  Inductive'
<1> USE DEF Inductive
<1> DEFINE p == built + 1
<1>1. /\ pc[s] = "build" /\ pc' = [pc EXCEPT ![s] = "built"]
      /\ built' = p /\ table' = p /\ pools' = [pools EXCEPT ![p] = Fresh]
      /\ UNCHANGED <<poolLock, home, slot, reaper, victim>> /\ built < MaxBuilds
  BY DEF BuildPool
<1>2. /\ p \in Builds /\ p > built /\ table = None /\ poolLock = s /\ built \in Nat
      /\ p \in 0 .. MaxBuilds /\ \A o \in Builds : o > p => o > built
  BY <1>1, BuildAssumption DEF Locked, Typed, Builds
<1>3. /\ Fresh \in Pool /\ Fresh.open /\ ~Fresh.unhealthy /\ ~Fresh.evicting
      /\ Fresh.binding = 0 /\ Fresh.cold = 0 /\ Fresh.warm = 0 .. MinSize - 1
      /\ Fresh.active = {} /\ Fresh.count = MinSize
  <2>1. MinSize \in Nat /\ 0 .. MinSize - 1 \in SUBSET Nat
    BY SizeAssumption
  <2>2. /\ Unbuilt \in Pool /\ ~Unbuilt.unhealthy /\ ~Unbuilt.evicting
        /\ Unbuilt.binding = 0 /\ Unbuilt.cold = 0 /\ Unbuilt.active = {}
    BY DEF Unbuilt, Pool
  <2>3. QED
    BY <2>1, <2>2 DEF Fresh, Pool
<1>4. Bounded(Fresh.warm)
  BY <1>3, SizeAssumption, BoundedSets DEF Bounded
<1>5. /\ pools' \in [Builds -> Pool] /\ pools'[p] = Fresh
      /\ \A o \in Builds : o # p => pools'[o] = pools[o]
      /\ \A o \in Builds : Bounded(pools'[o].warm)
  BY <1>1, <1>2, <1>3, <1>4, PoolUpdate
<1>6. pc'[s] = "built" /\ \A t \in Sessions : t # s => pc'[t] = pc[t]
  BY <1>1 DEF Typed
<1>7. Typed'
  BY <1>1, <1>2, <1>5 DEF Typed
<1>8. reaper # "evict" /\ \A t \in Sessions : t # s => pc[t] \notin {"retire", "build", "built"}
  BY <1>2, NoneAssumption DEF Locked
<1>9. Locked'
  <2>1. \A o \in Builds : ~pools'[o].evicting
    BY <1>2, <1>3, <1>5, <1>8 DEF Locked
  <2>2. QED
    BY <1>1, <1>2, <1>6, <1>8, <2>1, NoneAssumption DEF Locked, Builds
<1>10. Tabled'
  <2>1. \A o \in Builds : pools'[o].open <=> p = o
    BY <1>2, <1>3, <1>5, NoneAssumption DEF Tabled, Builds
  <2>2. \A t \in Sessions : home[t] # None => home[t] <= p
    BY <1>2 DEF Tabled, Typed, Builds
  <2>3. QED
    BY <1>1, <1>2, <1>3, <1>5, <2>1, <2>2 DEF Tabled
<1>11. Placed'
  BY <1>1, <1>6 DEF Placed
<1>12. Counted'
  <2>1. \A o \in Builds : Pending(o)' = Pending(o) /\ (o = p => Pending(o) = {})
    BY <1>1, <1>2, NoneAssumption DEF Pending, Tabled, Typed, Builds
  <2>2. SUFFICES ASSUME NEW o \in Builds
                 PROVE  /\ pools'[o].binding = Cardinality(Pending(o)')
                        /\ pools'[o].cold = Cardinality(Pending(o)')
    BY DEF Counted
  <2>3. CASE o = p
    <3>1. Pending(o)' = {} /\ pools'[o] = Fresh
      BY <1>5, <2>1, <2>3
    <3>2. Cardinality({}) = 0
      BY FS_EmptySet
    <3>3. QED
      BY <1>3, <3>1, <3>2
  <2>4. CASE o # p
    BY <1>5, <2>1, <2>4 DEF Counted
  <2>5. QED
    BY <2>3, <2>4
<1>13. Owned'
  <2>1. SUFFICES ASSUME Healthy' PROVE Current' /\ OnePlace'
    BY DEF Owned
  <2>2. Healthy
    BY <1>2, <1>5, <2>1 DEF Healthy, Tabled
  <2>3. /\ \A t \in Sessions : home[t] = None /\ pc[t] # "bound" /\ pc[t] # "added"
        /\ reaper # "remove"
    BY <1>2, <2>2, NoneAssumption DEF Owned, Current, Placed, Typed, Builds
  <2>4. Current'
    BY <1>1, <1>6, <2>3 DEF Current
  <2>5. OnePlace'
    <3>1. \A i \in 0 .. MinSize - 1 : i < MinSize
      BY SizeAssumption
    <3>2. QED
      BY <1>1, <1>3, <1>5, <1>6, <1>8, <2>3, <3>1, ZenonT(40) DEF OnePlace
  <2>6. QED
    BY <2>4, <2>5
<1>14. QED
  BY <1>7, <1>9, <1>10, <1>11, <1>12, <1>13

LEMMA BuildEndsStep ==
  ASSUME Inductive, NEW s \in Sessions, BuildDone(s) \/ BuildFails(s)
  PROVE  Inductive'
<1> USE DEF Inductive
<1>1. CASE BuildDone(s)
  <2>1. poolLock = s /\ table # None /\ reaper # "evict" /\ ~pools[table].evicting
    BY <1>1, NoneAssumption DEF BuildDone, Locked, Typed
  <2>2. Acquires(s)
    BY <1>1, <2>1 DEF BuildDone, Acquires
  <2>3. QED
    BY <2>2, AcquireStep
<1>2. CASE BuildFails(s)
  <2>1. /\ pc[s] = "build" /\ pc' = [pc EXCEPT ![s] = "idle"] /\ poolLock' = None
        /\ UNCHANGED <<pools, built, table, home, slot, reaper, victim>> /\ poolLock = s
    BY <1>2 DEF BuildFails, Locked
  <2>2. pc'[s] = "idle" /\ \A t \in Sessions : t # s => pc'[t] = pc[t]
    BY <2>1 DEF Typed
  <2>3. Typed' /\ Tabled'
    BY <2>1 DEF Typed, Tabled
  <2>4. Locked'
    BY <2>1, <2>2, NoneAssumption DEF Locked
  <2>5. Placed' /\ Counted'
    BY <2>1, <2>2, CountedFrame DEF Placed
  <2>6. Owned'
    BY <2>1, <2>2 DEF Owned, Healthy, Current, OnePlace
  <2>7. QED
    BY <2>3, <2>4, <2>5, <2>6
<1>3. QED
  BY <1>1, <1>2

-----------------------------------------------------------------------------
\* The core has a new slot, with an index nobody else can have.
LEMMA AddSlotStep ==
  ASSUME Inductive, NEW s \in Sessions, AddSlot(s)
  PROVE  Inductive'
<1> USE DEF Inductive
<1> DEFINE p == home[s]
<1> DEFINE r == pools[p]
<1> DEFINE q == [r EXCEPT !.count = @ + 1]
<1>1. p \in Builds /\ r \in Pool /\ Bounded(r.warm) /\ pc[s] = "add"
  BY DEF AddSlot, Placed, Typed
<1>2. /\ slot' = [slot EXCEPT ![s] = r.count] /\ pools' = [pools EXCEPT ![p] = q]
      /\ pc' = [pc EXCEPT ![s] = "added"]
      /\ UNCHANGED <<built, table, poolLock, home, reaper, victim>>
  BY DEF AddSlot
<1>3. /\ q \in Pool /\ q.warm = r.warm /\ q.active = r.active /\ q.count = r.count + 1
      /\ q.binding = r.binding /\ q.cold = r.cold /\ q.unhealthy = r.unhealthy
      /\ q.evicting = r.evicting /\ q.open = r.open /\ r.count \in Nat
  BY <1>1 DEF Pool
<1>4. Bounded(q.warm)
  BY <1>1, <1>3
<1> HIDE DEF q
<1>5. /\ pools' \in [Builds -> Pool] /\ pools'[p] = q
      /\ \A o \in Builds : o # p => pools'[o] = pools[o]
      /\ \A o \in Builds : Bounded(pools'[o].warm)
  BY <1>1, <1>2, <1>3, <1>4, PoolUpdate
<1>6. /\ pc'[s] = "added" /\ slot'[s] = r.count
      /\ \A t \in Sessions : t # s => pc'[t] = pc[t] /\ slot'[t] = slot[t]
  BY <1>2 DEF Typed
<1>7. Typed'
  BY <1>1, <1>2, <1>3, <1>5 DEF Typed
<1>8. Locked' /\ Tabled'
  <2>1. \A o \in Builds : /\ pools'[o].unhealthy = pools[o].unhealthy
                          /\ pools'[o].evicting = pools[o].evicting
                          /\ pools'[o].open = pools[o].open
    BY <1>3, <1>5
  <2>2. \A t \in Sessions : pc'[t] \in {"retire", "build", "built"}
                              => pc'[t] = pc[t]
    BY <1>6
  <2>3. \A t \in Sessions : pc[t] \in {"retire", "build", "built"}
                              => pc'[t] = pc[t]
    BY <1>1, <1>6
  <2>4. table \in Builds \cup {None}
    BY DEF Typed
  <2>5. Locked'
    BY <1>2, <2>1, <2>2, <2>3, <2>4 DEF Locked
  <2>6. Tabled'
    BY <1>2, <2>1 DEF Tabled
  <2>7. QED
    BY <2>5, <2>6
<1>9. Placed'
  BY <1>1, <1>2, <1>3, <1>6, NoneAssumption DEF Placed
<1>10. Counted'
  BY <1>2, <1>3, <1>5, CountedFrame
<1>11. Owned'
  <2>1. SUFFICES ASSUME Healthy' PROVE Current' /\ OnePlace'
    BY DEF Owned
  <2>2. Healthy
    BY <1>3, <1>5, <2>1 DEF Healthy
  <2>3. Current /\ OnePlace /\ p = table
    BY <1>1, <2>2, NoneAssumption DEF Owned, Current, Builds
  <2>4. Current'
    BY <1>1, <1>2, <1>6, <2>3 DEF Current
  <2>5. OnePlace'
    <3>1. r.warm \subseteq Nat /\ r.active \subseteq Nat /\ \A t \in Sessions : pc[t] = "added" => slot[t] \in Nat
      BY <1>1 DEF Pool, Typed, Placed
    <3>2. reaper = "remove" => victim[2] \in Nat
      BY DEF Typed
    <3>3. QED
      BY <1>2, <1>3, <1>5, <1>6, <2>3, <3>1, <3>2 DEF OnePlace
  <2>6. QED
    BY <2>4, <2>5
<1>12. QED
  BY <1>7, <1>8, <1>9, <1>10, <1>11

\* A cold create ends, with its slot or without one.
AddEnds(s, to, q) ==
  /\ pools' = [pools EXCEPT ![home[s]] = q]
  /\ pc' = [pc EXCEPT ![s] = to] /\ home' = [home EXCEPT ![s] = None]
  /\ UNCHANGED <<built, table, poolLock, slot, reaper, victim>>
  /\ SameCore(q, pools[home[s]]) /\ q.warm = pools[home[s]].warm
  /\ q.cold = pools[home[s]].cold - 1 /\ q.binding = pools[home[s]].binding - 1

LEMMA AddEndsFrame ==
  ASSUME Inductive, NEW s \in Sessions, NEW to \in {"idle", "bound"}, NEW q \in Pool,
         AddEnds(s, to, q), to = "bound" => pc[s] = "added", pc[s] \in {"add", "added"}
  PROVE  /\ Typed' /\ Locked' /\ Tabled' /\ Placed' /\ Counted'
         /\ pools'[home[s]] = q /\ home[s] \in Builds
         /\ pc'[s] = to /\ home'[s] = None
         /\ \A t \in Sessions : t # s => pc'[t] = pc[t] /\ home'[t] = home[t]
         /\ Healthy' <=> Healthy
<1> USE DEF Inductive, AddEnds, SameCore
<1> DEFINE p == home[s]
<1> DEFINE r == pools[p]
<1>1. p \in Builds /\ r \in Pool /\ Bounded(r.warm) /\ Bounded(q.warm)
  BY DEF Placed, Typed
<1>2. UNCHANGED <<built, table, poolLock, slot, reaper, victim>>
  OBVIOUS
<1>3. /\ pools' \in [Builds -> Pool] /\ pools'[p] = q
      /\ \A o \in Builds : o # p => pools'[o] = pools[o]
      /\ \A o \in Builds : Bounded(pools'[o].warm)
  BY <1>1, PoolUpdate
<1>4. /\ pc'[s] = to /\ home'[s] = None
      /\ \A t \in Sessions : t # s => pc'[t] = pc[t] /\ home'[t] = home[t]
  BY DEF Typed
<1>5. \A o \in Builds : /\ pools'[o].unhealthy = pools[o].unhealthy
                        /\ pools'[o].evicting = pools[o].evicting
                        /\ pools'[o].open = pools[o].open
  BY <1>3
<1>6. Typed'
  BY <1>1, <1>2, <1>3 DEF Typed
<1>7. Locked'
  <2>1. \A t \in Sessions : pc'[t] \in {"retire", "build", "built"} => pc'[t] = pc[t]
    BY <1>4
  <2>2. \A t \in Sessions : pc[t] \in {"retire", "build", "built"} => pc'[t] = pc[t]
    BY <1>4
  <2>3. table \in Builds \cup {None}
    BY DEF Typed
  <2>4. QED
    BY <1>2, <1>5, <2>1, <2>2, <2>3 DEF Locked
<1>8. Tabled'
  BY <1>2, <1>4, <1>5 DEF Tabled
<1>9. Placed'
  BY <1>2, <1>4 DEF Placed
<1>10. Counted'
  <2>1. PICK k \in Builds : k = p
    BY <1>1
  <2>2. /\ Cardinality(Pending(k)') = Cardinality(Pending(k)) - 1
        /\ \A o \in Builds : o # k => Pending(o)' = Pending(o)
    BY <2>1, PendingShrinks
  <2>3. SUFFICES ASSUME NEW o \in Builds
                 PROVE  /\ pools'[o].binding = Cardinality(Pending(o)')
                        /\ pools'[o].cold = Cardinality(Pending(o)')
    BY DEF Counted
  <2>4. CASE o = k
    BY <1>3, <2>1, <2>2, <2>4 DEF Counted
  <2>5. CASE o # k
    BY <1>3, <2>1, <2>2, <2>5 DEF Counted
  <2>6. QED
    BY <2>4, <2>5
<1>11. Healthy' <=> Healthy
  BY <1>5 DEF Healthy
<1>12. QED
  BY <1>1, <1>3, <1>4, <1>6, <1>7, <1>8, <1>9, <1>10, <1>11

LEMMA AddFailsStep ==
  ASSUME Inductive, NEW s \in Sessions, AddFails(s)
  PROVE  Inductive'
<1> USE DEF Inductive
<1> DEFINE p == home[s]
<1> DEFINE r == pools[p]
<1> DEFINE q == NotGrownPool(r)
<1>1. p \in Builds /\ r \in Pool /\ pc[s] = "add"
  BY DEF AddFails, Placed, Typed
<1>2. /\ pools' = [pools EXCEPT ![p] = q]
      /\ pc' = [pc EXCEPT ![s] = "idle"] /\ home' = [home EXCEPT ![s] = None]
      /\ UNCHANGED <<built, table, poolLock, slot, reaper, victim>>
  BY DEF AddFails
<1>3. r.cold \in Nat \ {0} /\ r.binding = r.cold /\ r.reserved \in Nat
  BY <1>1, <1>2, PendingShrinks DEF Counted, Pool
<1>4. /\ Less1(r.cold) = r.cold - 1 /\ r.cold - 1 \in Nat /\ r.binding - 1 \in Nat
      /\ Larger(MinSize, Less1(r.reserved)) \in Nat
  BY <1>3, SizeAssumption DEF Less1, Larger
<1>5. q \in Pool
  BY <1>1, <1>4 DEF Pool, NotGrownPool
<1>6. /\ SameCore(q, r) /\ q.cold = r.cold - 1 /\ q.binding = r.binding - 1
      /\ q.warm = r.warm /\ q.active = r.active
  BY <1>1, <1>4 DEF Pool, SameCore, NotGrownPool
<1> HIDE DEF q
<1>7. AddEnds(s, "idle", q)
  BY <1>2, <1>6 DEF AddEnds
<1>8. /\ Typed' /\ Locked' /\ Tabled' /\ Placed' /\ Counted' /\ pools'[p] = q
      /\ pc'[s] = "idle" /\ home'[s] = None
      /\ \A t \in Sessions : t # s => pc'[t] = pc[t] /\ home'[t] = home[t]
      /\ Healthy' <=> Healthy
  BY <1>1, <1>5, <1>7, AddEndsFrame
<1>9. Owned'
  <2>1. SUFFICES ASSUME Healthy PROVE Current' /\ OnePlace'
    BY <1>8 DEF Owned
  <2>2. Current /\ OnePlace /\ p = table
    BY <1>1, <2>1, NoneAssumption DEF Owned, Current, Builds
  <2>3. Current'
    BY <1>1, <1>2, <1>8, <2>2 DEF Current
  <2>4. reaper # "evict"
    BY <1>3, <2>2 DEF OnePlace
  <2>5. OnePlace'
    BY <1>2, <1>6, <1>8, <2>2, <2>4 DEF OnePlace, SameCore
  <2>6. QED
    BY <2>3, <2>5
<1>10. QED
  BY <1>8, <1>9

LEMMA AddDoneStep ==
  ASSUME Inductive, NEW s \in Sessions, AddDone(s)
  PROVE  Inductive'
<1> USE DEF Inductive
<1> DEFINE p == home[s]
<1> DEFINE r == pools[p]
<1> DEFINE q == GrownPool(r, slot[s])
<1>1. p \in Builds /\ r \in Pool /\ pc[s] = "added" /\ slot[s] \in Nat
  BY DEF AddDone, Placed, Typed
<1>2. /\ pools' = [pools EXCEPT ![p] = q]
      /\ pc' = [pc EXCEPT ![s] = "bound"] /\ home' = [home EXCEPT ![s] = None]
      /\ UNCHANGED <<built, table, poolLock, slot, reaper, victim>>
  BY DEF AddDone
<1>3. r.cold \in Nat \ {0} /\ r.binding = r.cold /\ r.reserved \in Nat
  BY <1>1, <1>2, PendingShrinks DEF Counted, Pool
<1>4. /\ Less1(r.cold) = r.cold - 1 /\ r.cold - 1 \in Nat /\ r.binding - 1 \in Nat
      /\ Larger(r.reserved, slot[s] + 1) \in Nat
  BY <1>1, <1>3 DEF Less1, Larger
<1>5. q \in Pool
  BY <1>1, <1>4 DEF Pool, GrownPool
<1>6. /\ SameCore(q, r) /\ q.cold = r.cold - 1 /\ q.binding = r.binding - 1
      /\ q.warm = r.warm /\ q.active = r.active \cup {slot[s]}
  BY <1>1, <1>4 DEF Pool, SameCore, GrownPool
<1> HIDE DEF q
<1>7. AddEnds(s, "bound", q)
  BY <1>2, <1>6 DEF AddEnds
<1>8. /\ Typed' /\ Locked' /\ Tabled' /\ Placed' /\ Counted' /\ pools'[p] = q
      /\ pc'[s] = "bound" /\ home'[s] = None
      /\ \A t \in Sessions : t # s => pc'[t] = pc[t] /\ home'[t] = home[t]
      /\ Healthy' <=> Healthy
  BY <1>1, <1>5, <1>7, AddEndsFrame
<1>9. Owned'
  <2>1. SUFFICES ASSUME Healthy PROVE Current' /\ OnePlace'
    BY <1>8 DEF Owned
  <2>2. Current /\ OnePlace /\ p = table
    BY <1>1, <2>1, NoneAssumption DEF Owned, Current, Builds
  <2>3. Current'
    BY <1>1, <1>2, <1>8, <2>2, NoneAssumption DEF Current, Builds
  <2>4. reaper # "evict"
    BY <1>3, <2>2 DEF OnePlace
  <2>5. OnePlace'
    BY <1>1, <1>2, <1>6, <1>8, <2>2, <2>4 DEF OnePlace, SameCore
  <2>6. QED
    BY <2>3, <2>5
<1>10. QED
  BY <1>8, <1>9

-----------------------------------------------------------------------------
\* Pool p becomes q, which has the same flags and bindings, while nobody moves
\* that has to do with the lock or a cold create.
Becomes(p, q) ==
  /\ p \in Builds /\ q \in Pool /\ Bounded(q.warm)
  /\ pools' = [pools EXCEPT ![p] = q]
  /\ q.unhealthy = pools[p].unhealthy /\ q.open = pools[p].open
  /\ q.evicting = pools[p].evicting
  /\ q.binding = pools[p].binding /\ q.cold = pools[p].cold
  /\ UNCHANGED <<built, table, poolLock, home>>

LEMMA BecomesFrame ==
  ASSUME Inductive, NEW p, NEW q, Becomes(p, q),
         reaper' = "evict" <=> reaper = "evict",
         \A t \in Sessions : \/ pc'[t] = pc[t]
                             \/ pc[t] = "bound" /\ pc'[t] = "idle"
  PROVE  /\ Locked' /\ Tabled' /\ Counted'
         /\ pools' \in [Builds -> Pool] /\ pools'[p] = q
         /\ \A o \in Builds : o # p => pools'[o] = pools[o]
         /\ \A o \in Builds : Bounded(pools'[o].warm)
         /\ Healthy' <=> Healthy
<1> USE DEF Inductive
<1>1. /\ pools' \in [Builds -> Pool] /\ pools'[p] = q
      /\ \A o \in Builds : o # p => pools'[o] = pools[o]
      /\ \A o \in Builds : Bounded(pools'[o].warm)
  BY PoolUpdate DEF Becomes
<1>2. \A o \in Builds : /\ pools'[o].unhealthy = pools[o].unhealthy
                        /\ pools'[o].evicting = pools[o].evicting
                        /\ pools'[o].open = pools[o].open
                        /\ pools'[o].binding = pools[o].binding
                        /\ pools'[o].cold = pools[o].cold
  BY <1>1 DEF Becomes
<1>3. UNCHANGED <<built, table, poolLock, home>> /\ table \in Builds \cup {None}
  BY DEF Becomes, Typed
<1>4. Locked'
  <2>1. \A t \in Sessions : pc[t] \in {"retire", "build", "built"} => pc'[t] = pc[t]
    OBVIOUS
  <2>2. \A t \in Sessions : pc'[t] \in {"retire", "build", "built"} => pc'[t] = pc[t]
    OBVIOUS
  <2>3. QED
    BY <1>2, <1>3, <2>1, <2>2 DEF Locked
<1>5. Tabled'
  BY <1>2, <1>3 DEF Tabled
<1>6. Counted'
  BY <1>2, <1>3, CountedFrame
<1>7. Healthy' <=> Healthy
  BY <1>2 DEF Healthy
<1>8. QED
  BY <1>1, <1>4, <1>5, <1>6, <1>7

LEMMA ReleaseBindingStep ==
  ASSUME Inductive, NEW s \in Sessions, ReleaseBinding(s)
  PROVE  Inductive'
<1> USE DEF Inductive
<1>1. /\ pc[s] = "bound" /\ pc' = [pc EXCEPT ![s] = "idle"] /\ slot' = [slot EXCEPT ![s] = None]
      /\ UNCHANGED <<built, table, poolLock, home, reaper, victim>> /\ slot[s] \in Nat
      /\ home[s] = None
  BY DEF ReleaseBinding, Placed, Typed
<1>2. /\ pc'[s] = "idle" /\ slot'[s] = None
      /\ \A t \in Sessions : t # s => pc'[t] = pc[t] /\ slot'[t] = slot[t]
  BY <1>1 DEF Typed
<1>3. Placed'
  BY <1>1, <1>2 DEF Placed
<1>4. CASE table = None
  <2>1. pools' = pools
    BY <1>4 DEF ReleaseBinding
  <2>2. Typed' /\ Tabled' /\ Counted'
    BY <1>1, <2>1, CountedFrame DEF Typed, Tabled
  <2>3. Locked'
    BY <1>1, <1>2, <2>1 DEF Locked
  <2>4. Owned'
    BY <1>1, <1>2, <1>4, <2>1 DEF Owned, Healthy, Current
  <2>5. QED
    BY <1>3, <2>2, <2>3, <2>4
<1>5. CASE table # None
  <2> DEFINE r == pools[table]
  <2> DEFINE q == ReleasedPool(r, slot[s])
  <2>1. pools' = [pools EXCEPT ![table] = q]
    BY <1>5 DEF ReleaseBinding
  <2>2. table \in Builds /\ r \in Pool /\ Bounded(r.warm) /\ r.warm \in SUBSET Nat
    BY <1>5 DEF Typed, Pool
  <2>3. /\ q \in Pool /\ q.count = r.count
        /\ q.unhealthy = r.unhealthy /\ q.open = r.open /\ q.evicting = r.evicting
        /\ q.binding = r.binding /\ q.cold = r.cold
        /\ \/ q.warm = r.warm /\ q.active = r.active
           \/ q.warm = r.warm \cup {slot[s]} /\ q.active = r.active \ {slot[s]}
    BY <1>1, <2>2 DEF ReleasedPool, Pool
  <2>4. Bounded(q.warm)
    BY <1>1, <2>2, <2>3, BoundedSets
  <2> HIDE DEF q
  <2>5. Becomes(table, q)
    BY <1>1, <2>1, <2>2, <2>3, <2>4 DEF Becomes
  <2>6. /\ Locked' /\ Tabled' /\ Counted'
        /\ pools' \in [Builds -> Pool] /\ pools'[table] = q
        /\ \A o \in Builds : o # table => pools'[o] = pools[o]
        /\ \A o \in Builds : Bounded(pools'[o].warm)
        /\ Healthy' <=> Healthy
    BY <1>1, <1>2, <2>5, BecomesFrame
  <2>7. Typed'
    BY <1>1, <2>6 DEF Typed
  <2>8. Owned'
    <3>1. SUFFICES ASSUME Healthy PROVE Current' /\ OnePlace'
      BY <2>6 DEF Owned
    <3>2. Current /\ OnePlace
      BY <1>5, <3>1 DEF Owned
    <3>3. Current'
      BY <1>1, <1>2, <3>2 DEF Current
    <3>4. OnePlace'
      BY <1>1, <1>2, <2>3, <2>6, <3>2 DEF OnePlace
    <3>5. QED
      BY <3>3, <3>4
  <2>9. QED
    BY <1>3, <2>6, <2>7, <2>8
<1>6. QED
  BY <1>4, <1>5

LEMMA MarkUnhealthyStep ==
  ASSUME Inductive, MarkUnhealthy
  PROVE  Inductive'
<1> USE DEF Inductive
<1> DEFINE r == pools[table]
<1> DEFINE q == [r EXCEPT !.unhealthy = TRUE]
<1>1. /\ table \in Builds /\ r \in Pool /\ Bounded(r.warm)
      /\ pools' = [pools EXCEPT ![table] = q]
      /\ UNCHANGED <<built, table, poolLock, pc, home, slot, reaper, victim>>
  BY DEF MarkUnhealthy, Typed
<1>2. /\ q \in Pool /\ q.unhealthy /\ q.warm = r.warm /\ q.evicting = r.evicting
      /\ q.open = r.open /\ q.binding = r.binding /\ q.cold = r.cold
  BY <1>1 DEF Pool
<1> HIDE DEF q
<1>3. /\ pools' \in [Builds -> Pool] /\ pools'[table] = q
      /\ \A o \in Builds : o # table => pools'[o] = pools[o]
      /\ \A o \in Builds : Bounded(pools'[o].warm)
  BY <1>1, <1>2, PoolUpdate
<1>4. Typed'
  BY <1>1, <1>3 DEF Typed
<1>5. \A o \in Builds : /\ pools[o].unhealthy => pools'[o].unhealthy
                        /\ pools'[o].evicting = pools[o].evicting
                        /\ pools'[o].open = pools[o].open
  BY <1>2, <1>3
<1>6. Locked' /\ Placed'
  BY <1>1, <1>5 DEF Locked, Placed
<1>7. Tabled'
  <2>1. \A o \in Builds : o > built => o # table
    BY <1>1, NoneAssumption DEF Tabled, Builds, Typed
  <2>2. QED
    BY <1>1, <1>3, <1>5, <2>1 DEF Tabled
<1>8. Counted'
  BY <1>1, <1>2, <1>3, CountedFrame
<1>9. Owned'
  BY <1>1, <1>2, <1>3 DEF Owned, Healthy
<1>10. QED
  BY <1>4, <1>6, <1>7, <1>8, <1>9

LEMMA ShrinkPickStep ==
  ASSUME Inductive, ShrinkPick
  PROVE  Inductive'
<1> USE DEF Inductive
<1> DEFINE r == pools[table]
<1> DEFINE last == r.reserved - 1
<1> DEFINE q == ShrunkPool(r, last)
<1>1. /\ table \in Builds /\ r \in Pool /\ Bounded(r.warm)
      /\ pools' = [pools EXCEPT ![table] = q] /\ victim' = <<table, last>>
      /\ last \in r.warm \ r.active /\ r.reserved > MinSize
      /\ reaper = "idle" /\ reaper' = "remove"
      /\ UNCHANGED <<built, table, poolLock, pc, home, slot>>
  BY DEF ShrinkPick, Typed
<1>2. r.reserved - 1 \in Nat /\ last \in Nat /\ r.warm \in SUBSET Nat
  BY <1>1, SizeAssumption DEF Pool
<1> HIDE DEF last
<1>3. /\ q \in Pool /\ q.unhealthy = r.unhealthy /\ q.evicting = r.evicting
      /\ q.open = r.open /\ q.binding = r.binding /\ q.cold = r.cold /\ q.count = r.count
      /\ q.warm = r.warm \ {last} /\ q.active = r.active
  BY <1>1, <1>2 DEF Pool, ShrunkPool
<1>4. Bounded(q.warm)
  BY <1>1, <1>2, <1>3, BoundedSets
<1> HIDE DEF q
<1>5. Becomes(table, q)
  BY <1>1, <1>3, <1>4 DEF Becomes
<1>6. /\ Locked' /\ Tabled' /\ Counted'
      /\ pools' \in [Builds -> Pool] /\ pools'[table] = q
      /\ \A o \in Builds : o # table => pools'[o] = pools[o]
      /\ \A o \in Builds : Bounded(pools'[o].warm)
      /\ Healthy' <=> Healthy
  BY <1>1, <1>5, BecomesFrame
<1>7. Typed' /\ Placed'
  BY <1>1, <1>2, <1>6 DEF Typed, Placed
<1>8. Owned'
  <2>1. SUFFICES ASSUME Healthy PROVE Current' /\ OnePlace'
    BY <1>6 DEF Owned
  <2>2. Current /\ OnePlace
    BY <1>1, <2>1, NoneAssumption DEF Owned, Builds
  <2>3. Current'
    BY <1>1, <2>2 DEF Current
  <2>4. OnePlace'
    BY <1>1, <1>3, <1>6, <2>2 DEF OnePlace
  <2>5. QED
    BY <2>3, <2>4
<1>9. QED
  BY <1>6, <1>7, <1>8

LEMMA ShrinkRemoveStep ==
  ASSUME Inductive, ShrinkRemove
  PROVE  Inductive'
<1> USE DEF Inductive
<1> DEFINE p == victim[1]
<1> DEFINE last == victim[2]
<1> DEFINE r == pools[p]
<1> DEFINE q == RemovedPool(r, last)
<1>1. /\ p \in Builds /\ last \in Nat /\ r \in Pool /\ Bounded(r.warm)
      /\ pools' = [pools EXCEPT ![p] = q] /\ r.warm \in SUBSET Nat
      /\ reaper = "remove" /\ reaper' = "idle"
      /\ UNCHANGED <<built, table, poolLock, pc, home, slot>>
  BY DEF ShrinkRemove, Typed, Pool
<1>2. r.reserved \in Nat /\ r.count \in Nat
  BY <1>1 DEF Pool
<1>3. /\ q \in Pool /\ q.unhealthy = r.unhealthy /\ q.evicting = r.evicting
      /\ q.open = r.open /\ q.binding = r.binding /\ q.cold = r.cold
      /\ q.active = r.active
      /\ \/ q.warm = r.warm /\ r.count = last + 1 /\ q.count = last
         \/ q.warm = r.warm \cup {last} /\ q.count = r.count
  <2>1. CASE r.count = last + 1
    BY <1>1, <1>2, <2>1 DEF Pool, RemovedPool
  <2>2. CASE r.count # last + 1
    <3>1. r.reserved + 1 \in Nat /\ r.warm \cup {last} \in SUBSET Nat
      BY <1>1, <1>2
    <3>2. q = [r EXCEPT !.reserved = @ + 1, !.warm = @ \cup {last}]
      BY <2>2 DEF RemovedPool
    <3>3. QED
      BY <1>1, <3>1, <3>2 DEF Pool
  <2>3. QED
    BY <2>1, <2>2
<1>4. Bounded(q.warm)
  BY <1>1, <1>3, BoundedSets
<1> HIDE DEF q
<1>5. Becomes(p, q)
  BY <1>1, <1>3, <1>4 DEF Becomes
<1>6. /\ Locked' /\ Tabled' /\ Counted'
      /\ pools' \in [Builds -> Pool] /\ pools'[p] = q
      /\ \A o \in Builds : o # p => pools'[o] = pools[o]
      /\ \A o \in Builds : Bounded(pools'[o].warm)
      /\ Healthy' <=> Healthy
  BY <1>1, <1>5, BecomesFrame
<1>7. Typed' /\ Placed'
  BY <1>1, <1>6 DEF Typed, Placed
<1>8. Owned'
  <2>1. SUFFICES ASSUME Healthy PROVE Current' /\ OnePlace'
    BY <1>6 DEF Owned
  <2>2. Current /\ OnePlace /\ p = table
    BY <1>1, <2>1, NoneAssumption DEF Owned, Current, Builds
  <2>3. Current'
    BY <1>1, <2>2 DEF Current
  <2>4. OnePlace'
    <3>1. /\ r.warm \subseteq Nat /\ r.active \subseteq Nat
          /\ \A t \in Sessions : pc[t] = "added" => slot[t] \in Nat
      BY <1>1 DEF Pool, Typed, Placed
    <3>2. \A i \in Nat : i < last + 1 /\ i # last => i < last
      BY <1>1
    <3>3. QED
      BY <1>1, <1>3, <1>6, <2>2, <3>1, <3>2 DEF OnePlace
  <2>5. QED
    BY <2>3, <2>4
<1>9. QED
  BY <1>6, <1>7, <1>8

LEMMA EvictStartStep ==
  ASSUME Inductive, EvictStart
  PROVE  Inductive'
<1> USE DEF Inductive
<1> DEFINE r == pools[table]
<1> DEFINE q == [r EXCEPT !.evicting = TRUE]
<1>1. /\ table \in Builds /\ r \in Pool /\ Bounded(r.warm) /\ poolLock = None
      /\ pools' = [pools EXCEPT ![table] = q] /\ reaper = "idle"
      /\ r.active = {} /\ r.binding = 0
      /\ poolLock' = Reaper /\ reaper' = "evict"
      /\ UNCHANGED <<built, table, pc, home, slot, victim>>
  BY DEF EvictStart, Typed
<1>2. /\ q \in Pool /\ q.unhealthy = r.unhealthy /\ q.warm = r.warm /\ q.active = r.active
      /\ q.open = r.open /\ q.binding = r.binding /\ q.cold = r.cold /\ q.count = r.count
      /\ q.evicting
  BY <1>1 DEF Pool
<1> HIDE DEF q
<1>3. /\ pools' \in [Builds -> Pool] /\ pools'[table] = q
      /\ \A o \in Builds : o # table => pools'[o] = pools[o]
      /\ \A o \in Builds : Bounded(pools'[o].warm)
  BY <1>1, <1>2, PoolUpdate
<1>4. Typed' /\ Placed'
  BY <1>1, <1>3 DEF Typed, Placed
<1>5. \A o \in Builds : /\ pools'[o].unhealthy = pools[o].unhealthy
                        /\ o # table => ~pools'[o].evicting
                        /\ pools'[o].open = pools[o].open
  BY <1>1, <1>2, <1>3 DEF Locked
<1>6. Locked'
  <2>1. \A t \in Sessions : pc[t] \notin {"retire", "build", "built"}
    BY <1>1, NoneAssumption DEF Locked
  <2>2. QED
    BY <1>1, <1>2, <1>3, <1>5, <2>1, NoneAssumption DEF Locked, Builds
<1>7. Tabled'
  BY <1>1, <1>5 DEF Tabled
<1>8. Counted'
  BY <1>1, <1>2, <1>3, CountedFrame
<1>9. Owned'
  <2>1. SUFFICES ASSUME Healthy PROVE Current' /\ OnePlace'
    BY <1>5 DEF Owned, Healthy
  <2>2. Current /\ OnePlace
    BY <1>1, <2>1, NoneAssumption DEF Owned, Builds
  <2>3. Current'
    BY <1>1, <2>2 DEF Current
  <2>4. OnePlace'
    BY <1>1, <1>2, <1>3, <2>2 DEF OnePlace
  <2>5. QED
    BY <2>3, <2>4
<1>10. QED
  BY <1>4, <1>6, <1>7, <1>8, <1>9

LEMMA EvictDoneStep ==
  ASSUME Inductive, EvictDone
  PROVE  Inductive'
<1> USE DEF Inductive
<1> DEFINE r == pools[table]
<1> DEFINE q == [ClosedPool(r) EXCEPT !.evicting = FALSE]
<1>1. /\ table \in Builds /\ r \in Pool /\ table' = None /\ poolLock' = None
      /\ pools' = [pools EXCEPT ![table] = q] /\ reaper = "evict" /\ reaper' = "idle"
      /\ UNCHANGED <<built, pc, home, slot, victim>>
  BY DEF EvictDone, Typed, Locked
<1>2. poolLock = Reaper
  BY <1>1 DEF Locked
<1>3. r.count \in Nat /\ 0 .. r.count - 1 \in SUBSET Nat
  BY <1>1 DEF Pool
<1>4. /\ q \in Pool /\ q.unhealthy = r.unhealthy /\ ~q.open /\ ~q.evicting
      /\ q.binding = r.binding /\ q.cold = r.cold /\ q.warm = 0 .. r.count - 1
  <2>1. /\ ClosedPool(r) \in Pool /\ ClosedPool(r).unhealthy = r.unhealthy
        /\ ~ClosedPool(r).open /\ ClosedPool(r).binding = r.binding
        /\ ClosedPool(r).cold = r.cold /\ ClosedPool(r).warm = 0 .. r.count - 1
    BY <1>1, <1>3 DEF ClosedPool, Pool
  <2>2. QED
    BY <2>1 DEF Pool
<1>5. Bounded(q.warm)
  BY <1>3, <1>4, BoundedSets DEF Bounded
<1> HIDE DEF q
<1>6. /\ pools' \in [Builds -> Pool] /\ pools'[table] = q
      /\ \A o \in Builds : o # table => pools'[o] = pools[o]
      /\ \A o \in Builds : Bounded(pools'[o].warm)
  BY <1>1, <1>4, <1>5, PoolUpdate
<1>7. Typed' /\ Placed'
  BY <1>1, <1>6 DEF Typed, Placed
<1>8. \A o \in Builds : /\ pools'[o].unhealthy = pools[o].unhealthy
                        /\ ~pools'[o].evicting /\ ~pools'[o].open
  BY <1>1, <1>4, <1>6 DEF Locked, Tabled
<1>9. Locked'
  <2>1. \A t \in Sessions : pc[t] \notin {"retire", "build", "built"}
    BY <1>2, NoneAssumption DEF Locked
  <2>2. QED
    BY <1>1, <1>8, <2>1, NoneAssumption DEF Locked
<1>10. Tabled'
  BY <1>1, <1>8, NoneAssumption DEF Tabled, Builds
<1>11. Counted'
  BY <1>1, <1>4, <1>6, CountedFrame
<1>12. Owned'
  <2>1. SUFFICES ASSUME Healthy PROVE Current'
    BY <1>1, <1>8 DEF Owned, Healthy
  <2>2. Current /\ OnePlace
    BY <1>1, <2>1, NoneAssumption DEF Owned, Builds
  <2>3. \A t \in Sessions : pc[t] # "bound"
    BY <1>1, <2>2 DEF OnePlace
  <2>4. Pending(table) = {}
    <3>1. Cardinality(Pending(table)) = 0
      BY <1>1, <2>2 DEF OnePlace, Counted
    <3>2. QED
      BY <3>1, PendingFinite, FS_EmptySet
  <2>5. \A t \in Sessions : home[t] = None
    BY <2>2, <2>4 DEF Current, Pending
  <2>6. QED
    BY <1>1, <2>3, <2>5 DEF Current
<1>13. QED
  BY <1>7, <1>9, <1>10, <1>11, <1>12

-----------------------------------------------------------------------------
LEMMA Steps ==
  ASSUME Inductive, [Next]_vars
  PROVE  Inductive'
<1>1. CASE UNCHANGED vars
  BY <1>1 DEF vars, Inductive, Typed, Locked, Tabled, Placed, Counted, Pending, Owned,
              Healthy, Current, OnePlace
<1>2. CASE Next
  BY <1>2, CreateBindingStep, EnsureLockedStep, RetirePoolStep, BuildPoolStep,
     BuildEndsStep, AddSlotStep, AddFailsStep, AddDoneStep, ReleaseBindingStep,
     MarkUnhealthyStep, ShrinkPickStep, ShrinkRemoveStep, EvictStartStep, EvictDoneStep
     DEF Next
<1>3. QED
  BY <1>1, <1>2

\* The inductive invariant of the pool: the lock discipline of building and
\* closing, the counters of cold creates, and that every index of a healthy
\* core is in one place.
THEOREM PoolInvariant == Spec => []Inductive
<1>1. Init => Inductive
  BY Initially
<1>2. Inductive /\ [Next]_vars => Inductive'
  BY Steps
<1>3. QED
  BY <1>1, <1>2, PTL DEF Spec

\* One live core per key, and counters that are exact on both sides of every
\* await (_ensure_pool, acquire_or_grow), whatever the sizes.
THEOREM PoolTheorem == Spec => []PoolInv
<1>1. Inductive => PoolInv
  <2>1. SUFFICES ASSUME Inductive PROVE PoolInv
    OBVIOUS
  <2>2. \A p \in Builds :
         /\ pools[p].warm \subseteq Nat /\ pools[p].active \subseteq Nat
         /\ {pools[p].count, pools[p].reserved, pools[p].cold, pools[p].binding} \subseteq Nat
         /\ {pools[p].unhealthy, pools[p].evicting, pools[p].open} \subseteq BOOLEAN
    <3>1. SUFFICES ASSUME NEW r \in Pool
                   PROVE  /\ r.warm \subseteq Nat /\ r.active \subseteq Nat
                          /\ {r.count, r.reserved, r.cold, r.binding} \subseteq Nat
                          /\ {r.unhealthy, r.evicting, r.open} \subseteq BOOLEAN
      BY <2>1 DEF Inductive, Typed
    <3>2. QED
      BY DEF Pool
  <2>3. TypeOK
    BY <2>1, <2>2 DEF Inductive, Typed, TypeOK
  <2>4. OneLiveCore /\ PendingCounted
    BY <2>1 DEF Inductive, Tabled, OneLiveCore, Counted, PendingCounted, Pending
  <2>5. QED
    BY <2>3, <2>4 DEF PoolInv
<1>2. QED
  BY <1>1, PoolInvariant, PTL

\* As long as no simulator has died, no two bound sessions drive one environment
\* and each one's environment is there (shrink_idle, _evict_idle_pools).
THEOREM HealthyTheorem == Spec => []HealthySlots
<1>1. Inductive => HealthySlots
  <2>1. SUFFICES ASSUME Inductive, Healthy
                 PROVE  /\ SlotExclusive
                        /\ \A s \in Bound : /\ table # None /\ pools[table].open
                                            /\ slot[s] < pools[table].count
    BY DEF HealthySlots, Healthy
  <2>2. \A s \in Bound : table # None /\ s \in Sessions /\ pc[s] = "bound"
    BY <2>1 DEF Inductive, Owned, Current, Bound
  <2>3. Bound # {} => OnePlace /\ pools[table].open
    BY <2>1, <2>2 DEF Inductive, Owned, Tabled, Typed
  <2>4. QED
    BY <2>2, <2>3 DEF OnePlace, SlotExclusive
<1>2. QED
  BY <1>1, PoolInvariant, PTL
=============================================================================
