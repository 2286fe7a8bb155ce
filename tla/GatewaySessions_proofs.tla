----------------------- MODULE GatewaySessions_proofs -----------------------
(***************************************************************************)
(* Every state of GatewaySessions!Spec satisfies Inductive, for any finite *)
(* set of sessions and any keys, ranks and closing calls: one lemma per    *)
(* group of actions.  From it follow SessionInv and OneSessionPerKey.      *)
(***************************************************************************)
EXTENDS GatewaySessions, FiniteSetTheorems, TLAPS

\* TypeOK but for the bound on the load, which follows from Counts.
Typed ==
  /\ state \in [Sessions -> Held \cup {"none", "CLOSED", "FAILED"}]
  /\ used \subseteq Sessions /\ expired \subseteq Sessions /\ busy \subseteq Sessions
  /\ due \subseteq Sessions
  /\ rank \in [Sessions -> Ranks \cup {None}]
  /\ trying \in [Sessions -> Ranks \cup {None}]
  /\ \A s \in Sessions : trying[s] # None <=> state[s] = "CREATING"
  /\ attempted \in [Sessions -> SUBSET Ranks]
  /\ key \in [Sessions -> Keys \cup {None}]
  /\ byKey \in [Keys -> Sessions \cup {None}]
  /\ quota \in 0 .. MaxSessions
  /\ healthy \subseteq Ranks /\ aged \subseteq Ranks /\ canCreate \subseteq Ranks
  /\ load \in [Ranks -> Nat]
  /\ call \in [Closers -> Sessions \cup {None}]

Live == {"CREATING", "READY", "FAILED", "LOST"}

\* A session id that was never given out has no record, a rank is bound only by
\* commit_binding, and the index finds every record that is not closing.
Records ==
  \A s \in Sessions :
    /\ state[s] # "none" => s \in used
    /\ rank[s] # None => state[s] \in {"READY", "CLOSING", "LOST", "CLOSED"}
    /\ state[s] \in Live => key[s] # None /\ byKey[key[s]] = s

\* Sessions that rank r may still be charged for: those on it, and those that
\* ended, whose place was perhaps never given back.
Counted(r) == On(r) \cup {s \in used : state[s] \notin Held}

\* The load of a rank is at least what is on it.  Each session was charged once,
\* so it is at most what is on it or has ended.
Charged(r) == Cardinality(On(r)) <= load[r] /\ load[r] <= Cardinality(Counted(r))

Counts == \A r \in Ranks : Charged(r)

Inductive == Typed /\ Records /\ Counts

-----------------------------------------------------------------------------
\* The two sets are finite, with natural numbers of elements.
LEMMA Finite ==
  ASSUME NEW r
  PROVE  /\ IsFiniteSet(On(r)) /\ Cardinality(On(r)) \in Nat
         /\ used \subseteq Sessions =>
              IsFiniteSet(Counted(r)) /\ Cardinality(Counted(r)) \in Nat
<1>1. On(r) \subseteq Sessions
  BY DEF On
<1>2. used \subseteq Sessions => Counted(r) \subseteq Sessions
  BY <1>1 DEF Counted
<1>3. QED
  BY <1>1, <1>2, SessionAssumption, FS_Subset, FS_CardinalityType

\* Nothing is charged, given back or moved between the sets.
LEMMA ChargedFrame ==
  ASSUME Inductive, NEW r \in Ranks, load'[r] = load[r],
         On(r)' = On(r), Counted(r)' = Counted(r)
  PROVE  Charged(r)'
BY DEF Inductive, Counts, Charged

\* One session leaves a rank that is charged for it: its place is given back, or
\* stays charged as that of a session that has ended.
LEMMA ChargedLess ==
  ASSUME Inductive, Typed', NEW r \in Ranks, NEW s \in On(r),
         load'[r] \in {load[r], load[r] - 1},
         On(r)' = On(r) \ {s},
         \/ Counted(r)' = Counted(r)
         \/ Counted(r)' = Counted(r) \ {s} /\ load'[r] = load[r] - 1
  PROVE  Charged(r)'
<1>1. Cardinality(On(r)') = Cardinality(On(r)) - 1
  BY Finite, FS_RemoveElement
<1>2. s \in Counted(r)
  BY DEF Counted
<1>3. Cardinality(Counted(r) \ {s}) = Cardinality(Counted(r)) - 1
  BY <1>2, Finite, FS_RemoveElement DEF Inductive, Typed
<1>4. /\ load[r] \in Nat /\ Cardinality(On(r)) \in Nat
      /\ Cardinality(Counted(r)) \in Nat /\ Charged(r)
  BY Finite DEF Inductive, Typed, Counts
<1>5. Cardinality(On(r)') <= load'[r]
  BY <1>1, <1>4 DEF Charged
<1>6. load'[r] <= Cardinality(Counted(r)')
  BY <1>3, <1>4 DEF Charged
<1>7. QED
  BY <1>5, <1>6 DEF Charged

\* One session comes to a rank and is charged for.
LEMMA ChargedMore ==
  ASSUME Inductive, NEW r \in Ranks, NEW s \in Sessions, s \notin Counted(r),
         load'[r] = load[r] + 1,
         On(r)' = On(r) \cup {s}, Counted(r)' = Counted(r) \cup {s}
  PROVE  Charged(r)'
<1>1. s \notin On(r)
  BY DEF Counted
<1>2. Cardinality(On(r) \cup {s}) = Cardinality(On(r)) + 1
  BY <1>1, Finite, FS_AddElement
<1>3. Cardinality(Counted(r) \cup {s}) = Cardinality(Counted(r)) + 1
  BY Finite, FS_AddElement DEF Inductive, Typed
<1>4. /\ load[r] \in Nat /\ Cardinality(On(r)) \in Nat
      /\ Cardinality(Counted(r)) \in Nat /\ Charged(r)
  BY Finite DEF Inductive, Typed, Counts
<1>5. QED
  BY <1>2, <1>3, <1>4 DEF Charged

\* Another session has ended: nothing is charged to this rank for it.
LEMMA ChargedEnded ==
  ASSUME Inductive, NEW r \in Ranks, NEW s \in Sessions,
         load'[r] = load[r], On(r)' = On(r),
         Counted(r)' = Counted(r) \cup {s}
  PROVE  Charged(r)'
<1>1. /\ load[r] \in Nat /\ Cardinality(Counted(r)) \in Nat /\ IsFiniteSet(Counted(r))
      /\ Charged(r)
  BY Finite DEF Inductive, Typed, Counts
<1>2. CASE s \in Counted(r)
  <2>1. Counted(r)' = Counted(r)
    BY <1>2
  <2>2. QED
    BY <2>1, ChargedFrame
<1>3. CASE s \notin Counted(r)
  <2>1. Cardinality(Counted(r)') = Cardinality(Counted(r)) + 1
    BY <1>1, <1>3, FS_AddElement
  <2>2. QED
    BY <1>1, <2>1 DEF Charged
<1>4. QED
  BY <1>2, <1>3

\* A place is given back only on a rank that is charged for it.
LEMMA GivenBack ==
  ASSUME Inductive, NEW r \in Ranks, NEW s \in On(r)
  PROVE  load[r] \in Nat \ {0} /\ Less1(load[r]) = load[r] - 1
<1>1. Cardinality(On(r)) # 0
  BY Finite, FS_EmptySet
<1>2. load[r] \in Nat /\ Cardinality(On(r)) \in Nat /\ Cardinality(On(r)) <= load[r]
  BY Finite DEF Inductive, Typed, Counts, Charged
<1>3. QED
  BY <1>1, <1>2 DEF Less1

\* The quota stays a count.
LEMMA QuotaBack ==
  ASSUME NEW n \in 0 .. MaxSessions
  PROVE  Less1(n) \in 0 .. MaxSessions
BY QuotaAssumption DEF Less1

-----------------------------------------------------------------------------
LEMMA InitInductive == Init => Inductive
<1> SUFFICES ASSUME Init PROVE Inductive
  OBVIOUS
<1>1. Typed
  <2>1. /\ state \in [Sessions -> Held \cup {"none", "CLOSED", "FAILED"}]
        /\ used \subseteq Sessions /\ expired \subseteq Sessions /\ busy \subseteq Sessions
        /\ due \subseteq Sessions
    BY DEF Init
  <2>2. /\ rank \in [Sessions -> Ranks \cup {None}]
        /\ trying \in [Sessions -> Ranks \cup {None}]
        /\ attempted \in [Sessions -> SUBSET Ranks]
        /\ key \in [Sessions -> Keys \cup {None}]
        /\ byKey \in [Keys -> Sessions \cup {None}]
        /\ call \in [Closers -> Sessions \cup {None}]
    BY DEF Init
  <2>3. \A s \in Sessions : trying[s] # None <=> state[s] = "CREATING"
    BY DEF Init
  <2>4. quota \in 0 .. MaxSessions /\ load \in [Ranks -> Nat]
    BY QuotaAssumption DEF Init
  <2>5. healthy \subseteq Ranks /\ aged \subseteq Ranks /\ canCreate \subseteq Ranks
    BY DEF Init
  <2>6. QED
    BY <2>1, <2>2, <2>3, <2>4, <2>5, Zenon DEF Typed
<1>2. Records
  BY DEF Init, Records, Live
<1>3. ASSUME NEW r \in Ranks PROVE Charged(r)
  <2>1. On(r) = {} /\ Counted(r) = {}
    BY NoneAssumption DEF Init, On, Counted, Held
  <2>2. load[r] = 0
    BY DEF Init
  <2>3. QED
    BY <2>1, <2>2, FS_EmptySet DEF Charged
<1>4. QED
  BY <1>1, <1>2, <1>3 DEF Inductive, Counts

\* admit_session, sessions.create, select_rank and acquire.
LEMMA CreateStep ==
  ASSUME Inductive, NEW s \in Sessions, NEW k \in Keys, CreateSession(s, k)
  PROVE  Inductive'
<1> USE DEF Inductive, CreateSession, ToState
<1>1. Selectable({}, canCreate, load) \subseteq Ranks
  BY DEF Selectable, Typed
<1>2. Typed'
  <2>1. CASE state' = [state EXCEPT ![s] = "FAILED"] /\ UNCHANGED <<trying, load, quota>>
    <3>1. trying[s] = None
      BY DEF Typed, Records
    <3>2. QED
      BY <2>1, <3>1 DEF Typed
  <2>2. ASSUME NEW r \in Ranks,
               state' = [state EXCEPT ![s] = "CREATING"],
               trying' = [trying EXCEPT ![s] = r],
               load' = [load EXCEPT ![r] = @ + 1], quota' = quota + 1
        PROVE  Typed'
    <3>1. quota' \in 0 .. MaxSessions
      BY <2>2, QuotaAssumption DEF Typed
    <3>2. QED
      BY <2>2, <3>1, NoneAssumption DEF Typed, Held
  <2>3. QED
    BY <1>1, <2>1, <2>2
<1>3. /\ state[s] = "none" /\ trying[s] = None /\ rank[s] = None
      /\ \A q \in Ranks : s \notin On(q) /\ s \notin Counted(q)
  BY NoneAssumption DEF Typed, Records, On, Counted
<1>4. Records'
  <2>1. k # None
    BY NoneAssumption
  <2>2. ASSUME NEW t \in Sessions, t # s PROVE state'[t] = state[t] /\ rank'[t] = rank[t] /\ key'[t] = key[t]
    BY <2>2 DEF Typed
  <2>3. ASSUME NEW t \in Sessions, t # s, state'[t] \in Live
        PROVE  key'[t] # None /\ byKey'[key'[t]] = t
    <3>1. key[t] # None /\ byKey[key[t]] = t
      BY <2>2, <2>3 DEF Records
    <3>2. key[t] # k
      BY <2>2, <2>3, <3>1, NoneAssumption DEF Live
    <3>3. QED
      BY <2>2, <2>3, <3>1, <3>2 DEF Typed
  <2>4. key'[s] = k /\ byKey'[k] = s /\ rank'[s] = None /\ s \in used'
    BY <1>3 DEF Typed
  <2>5. QED
    BY <2>1, <2>2, <2>3, <2>4 DEF Records
<1>5. ASSUME NEW q \in Ranks PROVE Charged(q)'
  <2>1. CASE state'[s] = "FAILED"
    <3>1. load'[q] = load[q] /\ On(q)' = On(q) /\ Counted(q)' = Counted(q) \cup {s}
      BY <2>1, <1>3, NoneAssumption DEF Typed, On, Counted, Held
    <3>2. QED
      BY <3>1, ChargedEnded
  <2>2. CASE state'[s] = "CREATING" /\ trying'[s] # q
    <3>1. load'[q] = load[q] /\ On(q)' = On(q) /\ Counted(q)' = Counted(q)
      BY <2>2, <1>1, <1>3, NoneAssumption DEF Typed, On, Counted, Held
    <3>2. QED
      BY <3>1, ChargedFrame
  <2>3. CASE state'[s] = "CREATING" /\ trying'[s] = q
    <3>1. /\ load'[q] = load[q] + 1
          /\ On(q)' = On(q) \cup {s} /\ Counted(q)' = Counted(q) \cup {s}
      BY <2>3, <1>1, <1>3, NoneAssumption DEF Typed, On, Counted, Held
    <3>2. QED
      BY <3>1, <1>3, ChargedMore
  <2>4. QED
    BY <2>1, <2>2, <2>3 DEF Typed
<1>6. QED
  BY <1>2, <1>4, <1>5 DEF Counts

\* The binding is there: the place the create was charged for is the session's.
LEMMA BindingCreatedStep ==
  ASSUME Inductive, NEW s \in Sessions, BindingCreated(s)
  PROVE  Inductive'
<1> USE DEF Inductive, BindingCreated, ToState, CreateEnds, ranks
<1>1. trying[s] \in Ranks /\ rank[s] = None
  BY DEF Typed, Records
<1>2. Typed'
  BY <1>1 DEF Typed, Held
<1>3. Records'
  BY <1>1 DEF Typed, Records, Live
<1>4. ASSUME NEW q \in Ranks PROVE Charged(q)'
  <2>1. load'[q] = load[q] /\ On(q)' = On(q) /\ Counted(q)' = Counted(q)
    BY <1>1, NoneAssumption DEF Typed, On, Counted, Held
  <2>2. QED
    BY <2>1, ChargedFrame
<1>5. QED
  BY <1>2, <1>3, <1>4 DEF Counts

\* A create that fails gives its place back: BindingFailed, and the last rank of
\* BindingExhausted.
LEMMA CreateFails ==
  ASSUME Inductive, NEW s \in Sessions, state[s] = "CREATING",
         load' = [load EXCEPT ![trying[s]] = Less1(@)],
         canCreate' \subseteq Ranks,
         ReleaseSession, ToState(s, "FAILED"), CreateEnds(s),
         UNCHANGED <<used, rank, key, byKey, expired, busy, healthy, aged, call, due>>
  PROVE  Inductive'
<1> USE DEF Inductive, ToState, CreateEnds
<1>1. trying[s] \in Ranks /\ rank[s] = None /\ s \in used
  BY DEF Typed, Records
<1>2. s \in On(trying[s])
  BY DEF On
<1>3. Less1(load[trying[s]]) = load[trying[s]] - 1 /\ load[trying[s]] \in Nat \ {0}
  BY <1>1, <1>2, GivenBack
<1>4. Typed'
  <2>1. quota' \in 0 .. MaxSessions
    BY QuotaBack DEF Typed, ReleaseSession
  <2>2. load' \in [Ranks -> Nat]
    BY <1>1, <1>3 DEF Typed
  <2>3. QED
    BY <2>1, <2>2 DEF Typed, Held
<1>5. Records'
  BY <1>1 DEF Typed, Records, Live
<1>6. ASSUME NEW q \in Ranks PROVE Charged(q)'
  <2>1. CASE q = trying[s]
    <3>1. /\ load'[q] = load[q] - 1
          /\ On(q)' = On(q) \ {s} /\ Counted(q)' = Counted(q)
      BY <2>1, <1>1, <1>3, NoneAssumption DEF Typed, On, Counted, Held
    <3>2. QED
      BY <2>1, <3>1, <1>2, <1>4, ChargedLess
  <2>2. CASE q # trying[s]
    <3>1. /\ load'[q] = load[q]
          /\ On(q)' = On(q) /\ Counted(q)' = Counted(q) \cup {s}
      BY <2>2, <1>1, NoneAssumption DEF Typed, On, Counted, Held
    <3>2. QED
      BY <3>1, ChargedEnded
  <2>3. QED
    BY <2>1, <2>2
<1>7. QED
  BY <1>4, <1>5, <1>6 DEF Counts

LEMMA BindingFailedStep ==
  ASSUME Inductive, NEW s \in Sessions, BindingFailed(s)
  PROVE  Inductive'
<1>1. canCreate' \subseteq Ranks
  BY DEF Inductive, Typed, BindingFailed, ReleaseRank
<1>2. QED
  BY <1>1, CreateFails DEF BindingFailed, ReleaseRank

\* RESOURCE_EXHAUSTED: the charge moves to the next rank with the create.
LEMMA BindingExhaustedStep ==
  ASSUME Inductive, NEW s \in Sessions, BindingExhausted(s)
  PROVE  Inductive'
<1> DEFINE r == trying[s]
           freed == [load EXCEPT ![r] = Less1(@)]
           next == Selectable(attempted[s] \cup {r}, canCreate \ {r}, freed)
<1> USE DEF Inductive
<1>1. r \in Ranks /\ rank[s] = None /\ s \in used /\ state[s] = "CREATING"
  BY DEF Typed, Records, BindingExhausted
<1>2. s \in On(r)
  BY DEF On
<1>3. Less1(load[r]) = load[r] - 1 /\ load[r] \in Nat \ {0}
  BY <1>1, <1>2, GivenBack
<1>4. canCreate' = canCreate \ {r} /\ canCreate' \subseteq Ranks
  BY DEF BindingExhausted, Typed
<1>5. ASSUME NEW q \in next,
             attempted' = [attempted EXCEPT ![s] = @ \cup {r}],
             trying' = [trying EXCEPT ![s] = q],
             load' = [freed EXCEPT ![q] = @ + 1],
             UNCHANGED <<state, quota>>
      PROVE  Inductive'
  <2>1. q \in Ranks /\ q # r
    BY <1>5 DEF Selectable, Typed
  <2>2. /\ load'[r] = load[r] - 1 /\ load'[q] = load[q] + 1
        /\ \A p \in Ranks : p \notin {r, q} => load'[p] = load[p]
        /\ load' \in [Ranks -> Nat]
    BY <1>1, <1>3, <1>5, <2>1 DEF Typed
  <2>3. UNCHANGED <<used, rank, key, byKey, expired, busy, healthy, aged, call, due>>
    BY DEF BindingExhausted
  <2>4. Typed'
    BY <1>1, <1>4, <1>5, <2>1, <2>2, <2>3, NoneAssumption DEF Typed
  <2>5. Records'
    BY <1>5, <2>3 DEF Records
  <2>6. ASSUME NEW p \in Ranks PROVE Charged(p)'
    <3>1. CASE p = r
      <4>1. On(p)' = On(p) \ {s} /\ Counted(p)' = Counted(p) \ {s}
        BY <3>1, <1>1, <1>5, <2>1, <2>3, NoneAssumption DEF Typed, On, Counted, Held
      <4>2. QED
        BY <3>1, <4>1, <1>2, <2>2, <2>4, ChargedLess
    <3>2. CASE p = q
      <4>1. On(p)' = On(p) \cup {s} /\ Counted(p)' = Counted(p) \cup {s} /\ s \notin Counted(p)
        BY <3>2, <1>1, <1>5, <2>1, <2>3, NoneAssumption DEF Typed, On, Counted, Held
      <4>2. QED
        BY <3>2, <4>1, <2>2, ChargedMore
    <3>3. CASE p \notin {q, r}
      <4>1. On(p)' = On(p) /\ Counted(p)' = Counted(p)
        BY <3>3, <1>1, <1>5, <2>1, <2>3, NoneAssumption DEF Typed, On, Counted, Held
      <4>2. QED
        BY <3>3, <4>1, <2>2, ChargedFrame
    <3>4. QED
      BY <3>1, <3>2, <3>3
  <2>7. QED
    BY <2>4, <2>5, <2>6 DEF Counts
<1>6. CASE CreateEnds(s) /\ load' = freed /\ ToState(s, "FAILED") /\ ReleaseSession
  BY <1>1, <1>4, <1>6, CreateFails DEF BindingExhausted
<1>7. QED
  BY <1>5, <1>6 DEF BindingExhausted

\* finish_close gives back the place of a session that holds one, and of no other.
LEMMA FinishStep ==
  ASSUME Inductive, NEW s \in Sessions, state[s] \in {"CLOSING", "FAILED", "LOST"},
         Finish(s), call' \in [Closers -> Sessions \cup {None}], due' \subseteq Sessions,
         UNCHANGED <<used, rank, trying, attempted, key, byKey, expired, busy, healthy, aged>>
  PROVE  Inductive'
<1> USE DEF Inductive, Finish, ToState
<1>1. trying[s] = None /\ s \in used /\ (rank[s] # None => state[s] # "FAILED")
  BY DEF Typed, Records
<1>2. rank[s] # None => rank[s] \in Ranks /\ s \in On(rank[s])
  BY <1>1 DEF Typed, On, Held
<1>3. rank[s] # None => /\ Less1(load[rank[s]]) = load[rank[s]] - 1
                        /\ load[rank[s]] \in Nat \ {0}
  BY <1>2, GivenBack
<1>4. Typed'
  <2>1. quota' \in 0 .. MaxSessions
    BY QuotaBack DEF Typed, ReleaseSession
  <2>2. load' \in [Ranks -> Nat] /\ canCreate' \subseteq Ranks
    BY <1>2, <1>3 DEF Typed, ReleaseRank
  <2>3. QED
    BY <2>1, <2>2, <1>1 DEF Typed, Held
<1>5. Records'
  BY <1>1 DEF Typed, Records, Live
<1>6. ASSUME NEW q \in Ranks PROVE Charged(q)'
  <2>1. CASE q = rank[s]
    <3>1. /\ load'[q] = load[q] - 1
          /\ On(q)' = On(q) \ {s} /\ Counted(q)' = Counted(q)
      BY <2>1, <1>1, <1>2, <1>3, NoneAssumption DEF Typed, On, Counted, Held, ReleaseRank
    <3>2. QED
      BY <2>1, <3>1, <1>2, <1>4, NoneAssumption, ChargedLess
  <2>2. CASE q # rank[s]
    <3>1. /\ load'[q] = load[q]
          /\ On(q)' = On(q) /\ Counted(q)' = Counted(q) \cup {s}
      BY <2>2, <1>1, <1>2, NoneAssumption DEF Typed, On, Counted, Held, ReleaseRank
    <3>2. QED
      BY <3>1, ChargedEnded
  <2>3. QED
    BY <2>1, <2>2
<1>7. QED
  BY <1>4, <1>5, <1>6 DEF Counts

\* Sessions, ranks and charges are left as they are, or a READY session becomes
\* CLOSING or LOST, which keeps its place.
LEMMA KeepsPlace ==
  ASSUME Inductive, Typed', UNCHANGED <<used, rank, trying, key, byKey, load>>,
         \A s \in Sessions : state'[s] = state[s]
                             \/ (state[s] = "READY" /\ state'[s] \in {"CLOSING", "LOST"})
  PROVE  Inductive'
<1> USE DEF Inductive
<1>1. Records'
  BY DEF Records, Live
<1>2. ASSUME NEW q \in Ranks PROVE Charged(q)'
  <2>1. load'[q] = load[q] /\ On(q)' = On(q) /\ Counted(q)' = Counted(q)
    BY DEF Typed, On, Counted, Held
  <2>2. QED
    BY <2>1, ChargedFrame
<1>3. QED
  BY <1>1, <1>2 DEF Counts

LEMMA CloseStep ==
  ASSUME Inductive, NEW c \in Closers, NEW s \in Sessions, Close(c, s), due' \subseteq due
  PROVE  Inductive'
<1> USE DEF Inductive, Close
<1>1. call' \in [Closers -> Sessions \cup {None}] /\ due' \subseteq Sessions
  BY DEF Typed
<1>2. CASE state[s] = "READY" /\ ToState(s, "CLOSING") /\ UNCHANGED <<quota, load, canCreate>>
  <2>1. Typed'
    BY <1>1, <1>2 DEF Typed, ToState, Held
  <2>2. QED
    BY <1>2, <2>1, KeepsPlace DEF Typed, ToState
<1>3. CASE UNCHANGED <<state, quota, load, canCreate>>
  <2>1. Typed'
    BY <1>1, <1>3 DEF Typed
  <2>2. QED
    BY <1>3, <2>1, KeepsPlace
<1>4. CASE state[s] \in {"FAILED", "LOST"} /\ Finish(s)
  BY <1>1, <1>4, FinishStep
<1>5. QED
  BY <1>2, <1>3, <1>4

LEMMA CloseReplyStep ==
  ASSUME Inductive, NEW c \in Closers, CloseReply(c)
  PROVE  Inductive'
<1> USE DEF Inductive, CloseReply
<1>1. call[c] \in Sessions /\ call' \in [Closers -> Sessions \cup {None}]
  BY DEF Typed
<1>2. CASE state[call[c]] \in {"CLOSING", "FAILED", "LOST"}
  <2>1. Finish(call[c]) /\ due' \subseteq Sessions
    BY <1>2 DEF Typed
  <2>2. QED
    BY <1>1, <1>2, <2>1, FinishStep
<1>3. CASE UNCHANGED <<state, load, canCreate, quota>>
  <2>1. Typed'
    BY <1>1, <1>3 DEF Typed
  <2>2. QED
    BY <1>3, <2>1, KeepsPlace
<1>4. QED
  BY <1>2, <1>3

\* purge_terminal forgets a record; the place of a LOST one is never given back.
LEMMA PurgeStep ==
  ASSUME Inductive, NEW s \in Sessions, Purge(s)
  PROVE  Inductive'
<1> USE DEF Inductive, Purge, Delete, ToState, ranks
<1>1. trying[s] = None /\ s \in used /\ (rank[s] # None => state[s] # "FAILED")
  BY DEF Typed, Records
<1>2. Typed'
  BY <1>1 DEF Typed, Held
<1>3. Records'
  BY <1>1 DEF Typed, Records, Live
<1>4. ASSUME NEW q \in Ranks PROVE Charged(q)'
  <2>1. CASE s \in On(q)
    <3>1. load'[q] = load[q] /\ On(q)' = On(q) \ {s} /\ Counted(q)' = Counted(q)
      BY <2>1, <1>1, NoneAssumption DEF Typed, On, Counted, Held
    <3>2. QED
      BY <2>1, <3>1, <1>2, ChargedLess
  <2>2. CASE s \notin On(q)
    <3>1. load'[q] = load[q] /\ On(q)' = On(q) /\ Counted(q)' = Counted(q) \cup {s}
      BY <2>2, <1>1, NoneAssumption DEF Typed, On, Counted, Held
    <3>2. QED
      BY <3>1, ChargedEnded
  <2>3. QED
    BY <2>1, <2>2
<1>5. QED
  BY <1>2, <1>3, <1>4 DEF Counts

\* Leases, operations, the start of a maintenance round, heartbeats and a dead
\* rank move no charge.
LEMMA OtherSteps ==
  ASSUME Inductive,
         \/ \E s \in Sessions : \/ LeaseExpires(s) \/ RenewSession(s)
                                \/ BeginOperation(s) \/ EndOperation(s)
         \/ RecoverStart
         \/ \E r \in Ranks : ReapStaleWorker(r) \/ HeartbeatAges(r) \/ HeartbeatOk(r)
         \/ UNCHANGED vars
  PROVE  Inductive'
<1> USE DEF Inductive, records, ranks
<1>1. CASE \E s \in Sessions : LeaseExpires(s) \/ RenewSession(s)
                               \/ BeginOperation(s) \/ EndOperation(s)
  <2>1. Typed'
    BY <1>1 DEF LeaseExpires, RenewSession, BeginOperation, EndOperation, Typed
  <2>2. QED
    BY <1>1, <2>1, KeepsPlace DEF LeaseExpires, RenewSession, BeginOperation, EndOperation
<1>2. CASE RecoverStart
  <2>1. Typed'
    BY <1>2 DEF RecoverStart, Typed
  <2>2. QED
    BY <1>2, <2>1, KeepsPlace DEF RecoverStart
<1>3. CASE \E r \in Ranks : ReapStaleWorker(r)
  <2>1. Typed'
    BY <1>3 DEF ReapStaleWorker, Typed, Held
  <2>2. QED
    BY <1>3, <2>1, KeepsPlace DEF ReapStaleWorker
<1>4. CASE \E r \in Ranks : HeartbeatAges(r) \/ HeartbeatOk(r)
  <2>1. Typed'
    BY <1>4 DEF HeartbeatAges, HeartbeatOk, Typed
  <2>2. QED
    BY <1>4, <2>1, KeepsPlace DEF HeartbeatAges, HeartbeatOk
<1>5. CASE UNCHANGED vars
  <2>1. Typed'
    BY <1>5 DEF vars, Typed
  <2>2. QED
    BY <1>5, <2>1, KeepsPlace DEF vars
<1>6. QED
  BY <1>1, <1>2, <1>3, <1>4, <1>5

LEMMA RecoverOneStep ==
  ASSUME Inductive, NEW s \in Sessions, RecoverOne(s)
  PROVE  Inductive'
<1>1. due' \subseteq due /\ Maintenance \in Closers
  BY DEF RecoverOne, Closers
<1>2. CASE Close(Maintenance, s)
  BY <1>1, <1>2, CloseStep
<1>3. CASE UNCHANGED <<records, expired, busy, quota, ranks, call>>
  <2>1. Typed'
    BY <1>1, <1>3 DEF Inductive, Typed, records, ranks
  <2>2. QED
    BY <1>3, <2>1, KeepsPlace DEF records, ranks
<1>4. QED
  BY <1>2, <1>3 DEF RecoverOne

-----------------------------------------------------------------------------
\* The session table, its key index and the rank loads stay consistent in every
\* execution of the gateway's session plane.
THEOREM SessionsInvariant == Spec => []Inductive
<1>1. Inductive /\ [Next]_vars => Inductive'
  <2> SUFFICES ASSUME Inductive, [Next]_vars PROVE Inductive'
    OBVIOUS
  <2>1. ASSUME NEW s \in Sessions, \E c \in Calls : CloseSession(c, s) PROVE Inductive'
    BY <2>1, CloseStep DEF CloseSession, Closers
  <2>2. QED
    BY <2>1, CreateStep, BindingCreatedStep, BindingFailedStep, BindingExhaustedStep,
       CloseReplyStep, PurgeStep, RecoverOneStep, OtherSteps DEF Next
<1>2. QED
  BY <1>1, InitInductive, PTL DEF Spec

\* SessionInv: the records are well typed, a create waits for a rank exactly
\* while it is CREATING, and active_sessions of a rank is at least the sessions
\* on it and at most the sessions there are.
THEOREM SessionTheorem == Spec => []SessionInv
<1>1. Inductive => SessionInv
  <2> SUFFICES ASSUME Inductive PROVE SessionInv
    OBVIOUS
  <2>1. ASSUME NEW r \in Ranks
        PROVE  load[r] \in 0 .. Cardinality(Sessions) /\ load[r] >= Cardinality(On(r))
    <3>1. Counted(r) \subseteq Sessions
      BY DEF Inductive, Typed, Counted, On
    <3>2. /\ Cardinality(Counted(r)) <= Cardinality(Sessions)
          /\ Cardinality(Sessions) \in Nat
      BY <3>1, SessionAssumption, FS_Subset, FS_CardinalityType
    <3>3. load[r] \in Nat /\ Cardinality(On(r)) \in Nat /\ Cardinality(Counted(r)) \in Nat
      BY Finite DEF Inductive, Typed
    <3>4. QED
      BY <3>2, <3>3 DEF Inductive, Counts, Charged
  <2>2. load \in [Ranks -> 0 .. Cardinality(Sessions)]
    BY <2>1 DEF Inductive, Typed
  <2>3. TypeOK
    BY <2>2 DEF Inductive, Typed, TypeOK
  <2>4. QED
    BY <2>1, <2>3 DEF SessionInv, LoadCoversSessions
<1>2. QED
  BY <1>1, SessionsInvariant, PTL

\* OneSessionPerKey: two records of one client_session_key are never both alive,
\* since the index names one record and finds every one that is not closing.
THEOREM KeyTheorem == Spec => []OneSessionPerKey
<1>1. Inductive => OneSessionPerKey
  BY DEF Inductive, Records, Live, OneSessionPerKey
<1>2. QED
  BY <1>1, SessionsInvariant, PTL
=============================================================================
