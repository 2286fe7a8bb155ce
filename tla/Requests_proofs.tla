-------------------------- MODULE Requests_proofs ---------------------------
(***************************************************************************)
(* What a rollout asks of others: writes of the environment servers, and   *)
(* requests of a model provider.  The specifications share no variable.    *)
(*                                                                         *)
(* Every state of WriteProtocol!Spec satisfies Inductive, for any servers, *)
(* clients, writes and size of the cache of results.  From it follow       *)
(* TypeOK, InOrder and the refinement of SlotServer; and, as long as the   *)
(* result of a reset is dropped from a cache only when nobody can ask for  *)
(* it any more, AtMostOnce.                                                *)
(*                                                                         *)
(* Every state of ProviderAdmission!AdmissionSpec satisfies                *)
(* AdmissionInductive, for any callers, estimates, samples and limits.     *)
(* From it follows AdmissionInv.  The budget is a sum over samples and     *)
(* reservations, so this part starts with an induction principle and what  *)
(* such a sum does when an element is added or taken out.                  *)
(***************************************************************************)
EXTENDS WriteProtocol, ProviderAdmission, SequenceTheorems, FiniteSetTheorems, TLAPS

Result == [id : Ids, out : {"COMMITTED", "REJECTED", "OUTCOME_UNKNOWN"}]

Registry == [token : Nat, session : SessionIds \cup {None}, episode : Ids \cup {None},
             seq : Nat, lost : BOOLEAN, cache : Seq(Result)]

Client == [slot : Slots \cup {None}, session : Nat, token : Nat \cup {None},
           episode : Ids \cup {None}, seq : Nat, unknown : BOOLEAN,
           req : Request \cup {None}, try : 0 .. 2, n : Nat]

Typed ==
  /\ reg \in [Slots -> Registry]
  /\ cl \in [Clients -> Client]
  /\ net \subseteq [req : Request, try : 1 .. 2]
  /\ last \in [Slots -> Application \cup {None}]
  /\ done \subseteq Ids

\* Requests that are in the network or that a client may send once more.
Outstanding == {m.req : m \in net} \cup ({cl[c].req : c \in Clients} \ {None})

\* Who has issued n writes has no session, request or attempt with a higher number,
\* and waits for a request of its own.
Numbered ==
  /\ \A c \in Clients : /\ cl[c].n <= MaxWrites[c] /\ cl[c].session <= cl[c].n
                        /\ cl[c].req # None => cl[c].req.id[1] = c
  /\ \A r \in Outstanding : r.id[2] <= cl[r.id[1]].n
  /\ \A d \in done : d[2] <= cl[d[1]].n

\* A server without a session has no episode and is not lost; its cache is bounded.
Bounded ==
  \A s \in Slots : /\ Len(reg[s].cache) <= CacheSize
                   /\ reg[s].session = None => reg[s].episode = None /\ ~reg[s].lost

\* What the registry says of the last write applied in its process.
Follows ==
  \A s \in Slots :
    IF last[s] = None THEN reg[s].episode = None
    ELSE IF last[s].out = "OUTCOME_UNKNOWN" THEN reg[s].lost
    ELSE IF last[s].req.op = "release" THEN reg[s].episode = None
    ELSE /\ reg[s].session = last[s].req.session
         /\ reg[s].episode = last[s].req.episode
         /\ reg[s].seq = last[s].req.seq + 1

\* A request id names one request; tokens only grow, and nobody has one of the
\* future.
Named ==
  /\ \A q, r \in Outstanding : q.id = r.id => q = r
  /\ \A r \in Outstanding : r.token <= reg[r.slot].token
  /\ \A c \in Clients : cl[c].slot # None /\ cl[c].token # None =>
       cl[c].token <= reg[cl[c].slot].token

Inductive == Typed /\ Numbered /\ Bounded /\ Follows /\ Named

\* A cache has the result of a request id.
Knows(cache, id) == \E i \in DOMAIN cache : cache[i].id = id

\* A request that the registry of its slot can never dispatch again, if no reset is
\* replayed: its token or its simulator is gone, or its sequence number is past.
Spent(q) ==
  \/ q.token < reg[q.slot].token
  \/ reg[q.slot].lost
  \/ /\ q.op = "write" /\ q.episode \in done
     /\ reg[q.slot].episode # q.episode \/ q.seq < reg[q.slot].seq

\* The result of a reset is dropped from a cache only when nobody can ask for it any
\* more, or a release has ended its binding.
KeepsResets ==
  \A s \in Slots :
    /\ Len(reg[s].cache) = CacheSize
    /\ reg'[s].cache # reg[s].cache /\ reg'[s].token = reg[s].token
    => \A q \in Outstanding' : q.op = "reset" /\ q.slot = s => q.id # reg[s].cache[1].id

\* A reset names its episode, an episode began with a write, and a request that was
\* applied and is still outstanding is spent, or a reset whose result is in the cache.
Remembered ==
  /\ \A q \in Outstanding : q.op = "reset" => q.episode = q.id
  /\ \A s \in Slots : reg[s].episode # None => reg[s].episode \in done
  /\ \A q \in Outstanding : q.id \in done =>
       Spent(q) \/ (q.op = "reset" /\ Knows(reg[q.slot].cache, q.id))

-----------------------------------------------------------------------------
(* What the operators of the protocol give.                                *)

LEMMA SessionIdsType ==
  /\ \A c \in Clients : \A n \in Nat : n <= MaxWrites[c] => <<c, n>> \in SessionIds
  /\ SessionIds \subseteq Ids
  /\ None \notin SessionIds
<1>1. ASSUME NEW c \in Clients, NEW n \in Nat, n <= MaxWrites[c]
      PROVE  <<c, n>> \in SessionIds
  <2>1. n \in 0 .. MaxWrites[c]
    BY <1>1, WritesAssumption
  <2>2. <<c, n>> \in {c} \X (0 .. MaxWrites[c])
    BY <2>1
  <2>3. QED
    BY <2>2 DEF SessionIds
<1>2. ASSUME NEW x \in SessionIds PROVE x \in Ids
  <2>1. PICK c \in Clients : x \in {c} \X (0 .. MaxWrites[c])
    BY <1>2 DEF SessionIds
  <2>2. QED
    BY <2>1, WritesAssumption DEF Ids
<1>3. QED
  BY <1>1, <1>2, NoneAssumption

\* An answer ends the wait of a client; its token can only be forgotten, and a new
\* session is numbered by the writes issued so far.
LEMMA ReceivedType ==
  ASSUME NEW me \in Client, me.req \in Request, NEW a
  PROVE  /\ Received(me, a) \in Client
         /\ Received(me, a).n = me.n
         /\ Received(me, a).slot = me.slot
         /\ Received(me, a).req = None
         /\ Received(me, a).token \in {me.token, None}
         /\ Received(me, a).session \in {me.session, me.n}
<1> DEFINE idle == [me EXCEPT !.req = None]
<1>1. /\ idle \in Client /\ idle.n = me.n /\ idle.slot = me.slot /\ idle.req = None
      /\ idle.token = me.token /\ idle.session = me.session
  BY DEF Client
<1>a. me.n \in Nat /\ me.req.episode \in Ids
  BY DEF Client, Request
<1> HIDE DEF idle
<1>2. CASE a = "OUTCOME_UNKNOWN"
  <2>1. Received(me, a) = [idle EXCEPT !.unknown = TRUE]
    BY <1>2 DEF Received, idle
  <2>2. QED
    BY <1>1, <1>a, <2>1 DEF Client
<1>3. CASE a = "COMMITTED" /\ me.req.op = "reset"
  <2> DEFINE x == [idle EXCEPT !.episode = me.req.episode]
             y == [x EXCEPT !.seq = 1]
  <2>1. Received(me, a) = [y EXCEPT !.unknown = FALSE]
    BY <1>3 DEF Received, idle
  <2>2. /\ x \in Client /\ x.n = me.n /\ x.slot = me.slot /\ x.req = None
        /\ x.token = me.token /\ x.session = me.session
    BY <1>1, <1>a DEF Client
  <2> HIDE DEF x
  <2>3. /\ y \in Client /\ y.n = me.n /\ y.slot = me.slot /\ y.req = None
        /\ y.token = me.token /\ y.session = me.session
    BY <2>2 DEF Client
  <2> HIDE DEF y
  <2>4. QED
    BY <2>1, <2>3 DEF Client
<1>4. CASE a = "COMMITTED" /\ me.req.op = "write"
  <2>1. Received(me, a) = [idle EXCEPT !.seq = @ + 1]
    BY <1>4 DEF Received, idle
  <2>2. QED
    BY <1>1, <1>a, <2>1 DEF Client
<1>5. CASE a = "COMMITTED" /\ me.req.op = "release"
  <2> DEFINE x == [idle EXCEPT !.session = me.n]
             y == [x EXCEPT !.token = None]
             z == [y EXCEPT !.episode = None]
  <2>1. Received(me, a) = [z EXCEPT !.seq = 0]
    BY <1>5 DEF Received, idle
  <2>2. /\ x \in Client /\ x.n = me.n /\ x.slot = me.slot /\ x.req = None
        /\ x.session = me.n
    BY <1>1, <1>a DEF Client
  <2> HIDE DEF x
  <2>3. /\ y \in Client /\ y.n = me.n /\ y.slot = me.slot /\ y.req = None
        /\ y.token = None /\ y.session = me.n
    BY <2>2 DEF Client
  <2> HIDE DEF y
  <2>4. /\ z \in Client /\ z.n = me.n /\ z.slot = me.slot /\ z.req = None
        /\ z.token = None /\ z.session = me.n
    BY <2>3 DEF Client
  <2> HIDE DEF z
  <2>5. QED
    BY <2>1, <2>4 DEF Client
<1>6. CASE a \notin {"OUTCOME_UNKNOWN", "COMMITTED"}
  <2>1. Received(me, a) = idle
    BY <1>6 DEF Received, idle
  <2>2. QED
    BY <1>1, <1>a, <2>1 DEF Client
<1>7. QED
  BY <1>2, <1>3, <1>4, <1>5, <1>6 DEF Request

\* No client issues a write or takes a token.
Settled ==
  /\ cl' \in [Clients -> Client]
  /\ \A c \in Clients :
       /\ cl'[c].n = cl[c].n
       /\ cl'[c].req \in {cl[c].req, None}
       /\ cl'[c].session \in {cl[c].session, cl[c].n}
       /\ cl'[c].token # None => /\ cl'[c].token = cl[c].token
                                 /\ cl'[c].slot = cl[c].slot

LEMMA AnswerSettles ==
  ASSUME Typed, NEW m \in net, NEW a, Answer(m, a)
  PROVE  Settled
<1>1. m.req \in Request /\ m.req.id[1] \in Clients
  BY DEF Typed, Request, Ids
<1> DEFINE c == m.req.id[1]
<1>2. CASE cl[c].req = m.req /\ cl[c].try = m.try
  <2>1. cl' = [cl EXCEPT ![c] = Received(@, a)]
    BY <1>2 DEF Answer
  <2>2. cl[c] \in Client /\ cl[c].req \in Request
    BY <1>1, <1>2 DEF Typed
  <2>3. QED
    BY <1>1, <2>1, <2>2, ReceivedType DEF Typed, Settled
<1>3. CASE ~(cl[c].req = m.req /\ cl[c].try = m.try)
  <2>1. cl' = cl
    BY <1>1, <1>3 DEF Answer, Typed
  <2>2. QED
    BY <2>1 DEF Typed, Settled
<1>4. QED
  BY <1>2, <1>3

\* The cache takes one more result and drops at most the oldest.
LEMMA RememberType ==
  ASSUME NEW E, NEW cache \in Seq(E), NEW r, NEW out, [id |-> r.id, out |-> out] \in E,
         Len(cache) <= CacheSize
  PROVE  /\ Remember(cache, r, out) \in Seq(E)
         /\ Len(Remember(cache, r, out)) <= CacheSize
         /\ Len(cache) < CacheSize =>
              Remember(cache, r, out) = Append(cache, [id |-> r.id, out |-> out])
<1> DEFINE longer == Append(cache, [id |-> r.id, out |-> out])
<1>1. longer \in Seq(E) /\ Len(longer) = Len(cache) + 1 /\ longer # << >>
  OBVIOUS
<1>2. Tail(longer) \in Seq(E) /\ Len(Tail(longer)) = Len(longer) - 1
  BY <1>1
<1>3. QED
  BY <1>1, <1>2, CacheAssumption DEF Remember

\* It knows the request it took, and those it knew but the oldest of a full cache.
LEMMA RememberKnows ==
  ASSUME NEW cache \in Seq(Result), NEW r, NEW out, [id |-> r.id, out |-> out] \in Result,
         Len(cache) <= CacheSize
  PROVE  /\ Knows(Remember(cache, r, out), r.id)
         /\ \A id : Knows(cache, id) =>
              \/ Knows(Remember(cache, r, out), id)
              \/ Len(cache) = CacheSize /\ cache[1].id = id
<1> DEFINE e == [id |-> r.id, out |-> out]
           longer == Append(cache, e)
<1>1. e.id = r.id
  OBVIOUS
<1> HIDE DEF e
<1>2. /\ longer \in Seq(Result) /\ Len(longer) = Len(cache) + 1
      /\ \A i \in 1 .. Len(cache) : longer[i] = cache[i]
      /\ longer[Len(cache) + 1] = e
      /\ DOMAIN cache = 1 .. Len(cache) /\ Len(cache) \in Nat
  BY DEF e
<1> HIDE DEF longer
<1>3. CASE Len(cache) < CacheSize
  <2>1. Remember(cache, r, out) = longer
    BY <1>2, <1>3, CacheAssumption DEF Remember, longer, e
  <2>2. Knows(longer, r.id) /\ \A id : Knows(cache, id) => Knows(longer, id)
    BY <1>1, <1>2 DEF Knows
  <2>3. QED
    BY <2>1, <2>2
<1>4. CASE Len(cache) = CacheSize
  <2> DEFINE rest == Tail(longer)
  <2>1. Remember(cache, r, out) = rest
    BY <1>2, <1>4, CacheAssumption DEF Remember, longer, e
  <2>2. Len(cache) \in Nat \ {0}
    BY <1>4, CacheAssumption
  <2>3. /\ Len(rest) = Len(cache) /\ DOMAIN rest = 1 .. Len(cache)
        /\ \A i \in 1 .. Len(cache) : rest[i] = longer[i + 1]
    BY <1>2, <2>2
  <2> HIDE DEF rest
  <2>4. Knows(rest, r.id)
    <3>1. Len(cache) \in DOMAIN rest /\ rest[Len(cache)] = e
      BY <1>2, <2>2, <2>3
    <3>2. QED
      BY <1>1, <3>1 DEF Knows
  <2>5. ASSUME NEW id, Knows(cache, id), cache[1].id # id PROVE Knows(rest, id)
    <3>1. PICK i \in DOMAIN cache : cache[i].id = id
      BY <2>5 DEF Knows
    <3>2. i \in 2 .. Len(cache)
      BY <1>2, <2>5, <3>1
    <3>3. i - 1 \in DOMAIN rest /\ rest[i - 1] = cache[i]
      BY <1>2, <2>2, <2>3, <3>2
    <3>4. QED
      BY <3>1, <3>3 DEF Knows
  <2>6. QED
    BY <1>4, <2>1, <2>4, <2>5
<1>5. Len(cache) < CacheSize \/ Len(cache) = CacheSize
  <2>1. Len(cache) \in Nat /\ CacheSize \in Nat /\ Len(cache) <= CacheSize
    BY CacheAssumption
  <2>2. QED
    BY <2>1
<1>6. QED
  BY <1>3, <1>4, <1>5

\* A dispatched write: what is bound, lost, begun and ended.
LEMMA AfterType ==
  ASSUME NEW R \in Registry, NEW r \in Request, NEW out \in Outcomes(r.op),
         Len(R.cache) <= CacheSize
  PROVE  /\ After(R, r, out) \in Registry
         /\ After(R, r, out).cache = Remember(R.cache, r, out)
         /\ After(R, r, out).token = IF out = "COMMITTED" /\ r.op = "release"
                                     THEN R.token + 1 ELSE R.token
         /\ After(R, r, out).session = IF out = "COMMITTED" /\ r.op = "release"
                                       THEN None ELSE r.session
         /\ After(R, r, out).lost = (R.lost \/ out = "OUTCOME_UNKNOWN")
         /\ After(R, r, out).episode = IF out # "COMMITTED" \/ r.op = "write" THEN R.episode
                                       ELSE IF r.op = "release" THEN None ELSE r.episode
         /\ out = "COMMITTED" /\ r.op = "reset" => After(R, r, out).seq = 1
         /\ out = "COMMITTED" /\ r.op = "write" => After(R, r, out).seq = R.seq + 1
<1> DEFINE C == Remember(R.cache, r, out)
           B == [R EXCEPT !.session = r.session, !.cache = C]
<1>1. out \in {"COMMITTED", "REJECTED", "OUTCOME_UNKNOWN"} /\ r.op \in {"reset", "write", "release"}
  BY DEF Outcomes, Request
<1>2. C \in Seq(Result)
  <2>1. [id |-> r.id, out |-> out] \in Result
    BY <1>1 DEF Request, Result
  <2>2. R.cache \in Seq(Result)
    BY DEF Registry
  <2>3. QED
    BY <2>1, <2>2, RememberType
<1>3. /\ B \in Registry /\ B.cache = C /\ B.token = R.token /\ B.session = r.session
      /\ B.lost = R.lost /\ B.episode = R.episode /\ B.seq = R.seq
  BY <1>2 DEF Registry, Request
<1>a. r.episode \in Ids
  BY DEF Request
<1> HIDE DEF B
<1>4. CASE out = "REJECTED"
  <2>1. After(R, r, out) = B
    BY <1>4 DEF After, B
  <2>2. QED
    BY <1>3, <1>4, <2>1 DEF Registry
<1>5. CASE out = "OUTCOME_UNKNOWN"
  <2>1. After(R, r, out) = [B EXCEPT !.lost = TRUE]
    BY <1>5 DEF After, B
  <2>2. QED
    BY <1>3, <1>5, <2>1 DEF Registry
<1>6. CASE out = "COMMITTED" /\ r.op = "reset"
  <2> DEFINE x == [B EXCEPT !.episode = r.episode]
  <2>1. After(R, r, out) = [x EXCEPT !.seq = 1]
    BY <1>6 DEF After, B
  <2>2. /\ x \in Registry /\ x.cache = C /\ x.token = R.token /\ x.session = r.session
        /\ x.lost = R.lost /\ x.episode = r.episode
    BY <1>3, <1>a DEF Registry
  <2> HIDE DEF x
  <2>3. QED
    BY <1>6, <2>1, <2>2 DEF Registry
<1>7. CASE out = "COMMITTED" /\ r.op = "write"
  <2>1. After(R, r, out) = [B EXCEPT !.seq = @ + 1]
    BY <1>7 DEF After, B
  <2>2. QED
    BY <1>3, <1>7, <2>1 DEF Registry
<1>8. CASE out = "COMMITTED" /\ r.op = "release"
  <2> DEFINE x == [B EXCEPT !.token = @ + 1]
             y == [x EXCEPT !.session = None]
             z == [y EXCEPT !.episode = None]
  <2>1. After(R, r, out) = [z EXCEPT !.seq = 0]
    BY <1>8 DEF After, B
  <2>2. x \in Registry /\ x.cache = C /\ x.token = R.token + 1 /\ x.lost = R.lost
    BY <1>3 DEF Registry
  <2> HIDE DEF x
  <2>3. /\ y \in Registry /\ y.cache = C /\ y.token = R.token + 1 /\ y.lost = R.lost
        /\ y.session = None
    BY <2>2 DEF Registry
  <2> HIDE DEF y
  <2>4. /\ z \in Registry /\ z.cache = C /\ z.token = R.token + 1 /\ z.lost = R.lost
        /\ z.session = None /\ z.episode = None
    BY <2>3 DEF Registry
  <2> HIDE DEF z
  <2>5. QED
    BY <1>8, <2>1, <2>4 DEF Registry
<1>9. QED
  BY <1>1, <1>4, <1>5, <1>6, <1>7, <1>8

LEMMA OutstandingType ==
  ASSUME Typed
  PROVE  Outstanding \subseteq Request
BY DEF Typed, Outstanding, Client

\* A step that settles clients and sends nothing new keeps what concerns them, if
\* tokens grow and what is applied was outstanding.
LEMMA SettledStep ==
  ASSUME Inductive, Settled, \A m \in net' : m.req \in Outstanding,
         \A d \in done' : d \in done \/ \E r \in Outstanding : d = r.id,
         reg' \in [Slots -> Registry], \A s \in Slots : reg[s].token <= reg'[s].token
  PROVE  Outstanding' \subseteq Outstanding /\ Numbered' /\ Named'
<1>1. Outstanding' \subseteq Outstanding
  BY DEF Outstanding, Settled
<1>2. /\ Outstanding \subseteq Request
      /\ \A r \in Request : r.id[1] \in Clients /\ r.slot \in Slots /\ r.token \in Nat
      /\ \A c \in Clients : cl[c].n \in Nat /\ cl[c].session \in Nat
  BY OutstandingType DEF Inductive, Typed, Request, Ids, Client
<1>3. Numbered'
  <2>1. ASSUME NEW c \in Clients
        PROVE  /\ cl'[c].n <= MaxWrites[c] /\ cl'[c].session <= cl'[c].n
               /\ cl'[c].req # None => cl'[c].req.id[1] = c
    BY <1>2 DEF Inductive, Numbered, Settled
  <2>2. ASSUME NEW r \in Outstanding PROVE r.id[2] <= cl'[r.id[1]].n
    BY <1>2 DEF Inductive, Numbered, Settled
  <2>3. ASSUME NEW d \in done' PROVE d[2] <= cl'[d[1]].n
    <3>1. CASE d \in done
      BY <3>1 DEF Inductive, Numbered, Settled, Typed, Ids
    <3>2. CASE \E r \in Outstanding : d = r.id
      BY <3>2, <2>2
    <3>3. QED
      BY <3>1, <3>2
  <2>4. QED
    BY <1>1, <2>1, <2>2, <2>3 DEF Numbered
<1>4. Named'
  <2>1. \A s \in Slots : reg[s].token \in Nat /\ reg'[s].token \in Nat
    BY DEF Inductive, Typed, Registry
  <2>2. ASSUME NEW r \in Outstanding PROVE r.token <= reg'[r.slot].token
    BY <1>2, <2>1 DEF Inductive, Named
  <2>3. ASSUME NEW c \in Clients, cl'[c].slot # None, cl'[c].token # None
        PROVE  cl'[c].token <= reg'[cl'[c].slot].token
    <3>1. cl'[c].token = cl[c].token /\ cl'[c].slot = cl[c].slot
      BY <2>3 DEF Settled
    <3>2. cl[c].token \in Nat /\ cl[c].slot \in Slots
      BY <2>3, <3>1 DEF Inductive, Typed, Client
    <3>3. cl[c].token <= reg[cl[c].slot].token
      BY <2>3, <3>1 DEF Inductive, Named
    <3>4. QED
      BY <2>1, <3>1, <3>2, <3>3
  <2>4. QED
    BY <1>1, <2>2, <2>3 DEF Inductive, Named
<1>5. QED
  BY <1>1, <1>3, <1>4

\* The same when the servers do nothing.
LEMMA ClientStep ==
  ASSUME Inductive, Settled, net' \subseteq [req : Request, try : 1 .. 2],
         \A m \in net' : m.req \in Outstanding, UNCHANGED <<reg, last, done>>
  PROVE  Inductive' /\ Outstanding' \subseteq Outstanding
<1>1. \A s \in Slots : reg[s].token \in Nat
  BY DEF Inductive, Typed, Registry
<1>2. Outstanding' \subseteq Outstanding /\ Numbered' /\ Named'
  BY <1>1, SettledStep DEF Inductive, Typed
<1>3. Typed' /\ Bounded' /\ Follows'
  BY DEF Inductive, Typed, Settled, Bounded, Follows
<1>4. QED
  BY <1>2, <1>3 DEF Inductive

-----------------------------------------------------------------------------
LEMMA InitInductive == Init => Inductive /\ Remembered
<1> SUFFICES ASSUME Init PROVE Inductive /\ Remembered
  OBVIOUS
<1>1. NewRegistry(1) \in Registry
  BY DEF NewRegistry, Registry
<1>2. NewClient(None, 0) \in Client
  BY DEF NewClient, Client
<1>3. Typed
  BY <1>1, <1>2 DEF Init, Typed
<1>4. Outstanding = {}
  BY DEF Init, Outstanding, NewClient
<1>5. Numbered /\ Named
  BY <1>4, WritesAssumption DEF Init, Numbered, Named, NewClient
<1>a. Remembered
  BY <1>4 DEF Init, Remembered, NewRegistry
<1>6. Bounded /\ Follows
  BY CacheAssumption DEF Init, Bounded, Follows, NewRegistry
<1>7. QED
  BY <1>3, <1>5, <1>6, <1>a DEF Inductive

\* A rollout process starts or ends.
LEMMA OpenExitStep ==
  ASSUME Inductive, NEW c \in Clients, Open(c) \/ Exit(c)
  PROVE  Settled /\ Inductive' /\ Outstanding' \subseteq Outstanding
<1>1. PICK s \in Slots \cup {None} : cl' = [cl EXCEPT ![c] = NewClient(s, @.n)]
  BY DEF Open, Exit
<1>2. cl[c].n \in Nat
  BY DEF Inductive, Typed, Client
<1>3. NewClient(s, cl[c].n) \in Client
  BY <1>2 DEF NewClient, Client
<1>4. Settled
  BY <1>1, <1>3 DEF Settled, Inductive, Typed, NewClient
<1>5. net' = net /\ UNCHANGED <<reg, last, done>>
  BY DEF Open, Exit
<1>6. \A m \in net : m.req \in Outstanding
  BY DEF Outstanding
<1>7. QED
  BY <1>4, <1>5, <1>6, ClientStep DEF Inductive, Typed

\* The write is sent once more, or given up.
LEMMA TimeoutStep ==
  ASSUME Inductive, NEW c \in Clients, Timeout(c)
  PROVE  Settled /\ Inductive' /\ Outstanding' \subseteq Outstanding
<1>1. cl[c] \in Client /\ cl[c].req \in Request /\ cl[c].req \in Outstanding
  BY DEF Inductive, Typed, Timeout, Client, Outstanding
<1>2. Settled
  <2>1. CASE cl' = [cl EXCEPT ![c].try = 2]
    <3>1. cl'[c] = [cl[c] EXCEPT !.try = 2] /\ \A d \in Clients : d # c => cl'[d] = cl[d]
      BY <2>1 DEF Inductive, Typed
    <3>2. cl'[c] \in Client
      BY <1>1, <3>1 DEF Client
    <3>3. cl' \in [Clients -> Client]
      BY <2>1, <3>1, <3>2 DEF Inductive, Typed
    <3>4. /\ cl'[c].n = cl[c].n /\ cl'[c].req = cl[c].req /\ cl'[c].session = cl[c].session
          /\ cl'[c].token = cl[c].token /\ cl'[c].slot = cl[c].slot
      BY <1>1, <3>1 DEF Client
    <3>5. QED
      BY <3>1, <3>3, <3>4 DEF Settled
  <2>2. CASE cl' = [cl EXCEPT ![c].req = None, ![c].unknown = TRUE]
    <3> DEFINE x == [cl[c] EXCEPT !.req = None]
    <3>1. /\ cl'[c] = [x EXCEPT !.unknown = TRUE]
          /\ \A d \in Clients : d # c => cl'[d] = cl[d]
          /\ cl' \in [Clients -> {cl'[d] : d \in Clients}]
      BY <2>2 DEF Inductive, Typed
    <3>2. /\ x \in Client /\ x.n = cl[c].n /\ x.req = None /\ x.session = cl[c].session
          /\ x.token = cl[c].token /\ x.slot = cl[c].slot
      BY <1>1 DEF Client
    <3> HIDE DEF x
    <3>3. /\ cl'[c] \in Client
          /\ cl'[c].n = cl[c].n /\ cl'[c].req = None /\ cl'[c].session = cl[c].session
          /\ cl'[c].token = cl[c].token /\ cl'[c].slot = cl[c].slot
      BY <3>1, <3>2 DEF Client
    <3>4. cl' \in [Clients -> Client]
      BY <3>1, <3>3 DEF Inductive, Typed
    <3>5. QED
      BY <3>1, <3>3, <3>4 DEF Settled
  <2>3. QED
    BY <2>1, <2>2 DEF Timeout
<1>3. \A m \in net' : m \in net \/ m = [req |-> cl[c].req, try |-> 2]
  BY DEF Timeout
<1>4. net' \subseteq [req : Request, try : 1 .. 2] /\ \A m \in net' : m.req \in Outstanding
  BY <1>1, <1>3 DEF Outstanding, Inductive, Typed
<1>5. QED
  BY <1>2, <1>4, ClientStep DEF Timeout

\* 503.
LEMMA RefuseStep ==
  ASSUME Inductive, NEW m \in net, Refuse(m)
  PROVE  Settled /\ Inductive' /\ Outstanding' \subseteq Outstanding
<1>1. Settled
  BY AnswerSettles DEF Refuse, Inductive
<1>2. net' \subseteq [req : Request, try : 1 .. 2] /\ \A k \in net' : k.req \in Outstanding
  BY DEF Refuse, Outstanding, Inductive, Typed
<1>3. QED
  BY <1>1, <1>2, ClientStep DEF Refuse

\* A write is composed: the one request with a new number.
LEMMA SendStep ==
  ASSUME Inductive, NEW c \in Clients, NEW op \in {"reset", "write", "release"}, Send(c, op)
  PROVE  Inductive' /\ (Remembered => Remembered')
<1> DEFINE me == cl[c]
           id == <<c, me.n + 1>>
           token == IF me.token = None THEN reg[me.slot].token ELSE me.token
           r == [id |-> id, slot |-> me.slot, session |-> <<c, me.session>>,
                 token |-> token, op |-> op,
                 episode |-> IF op = "reset" THEN id ELSE me.episode,
                 seq |-> IF op = "reset" THEN 0 ELSE me.seq]
           x == [me EXCEPT !.n = @ + 1]
           y == [x EXCEPT !.token = token]
           z == [y EXCEPT !.req = r]
<1>1. /\ cl' = [cl EXCEPT ![c] = [z EXCEPT !.try = 1]]
      /\ net' = net \cup {[req |-> r, try |-> 1]}
      /\ UNCHANGED <<reg, last, done>>
      /\ me.slot # None /\ me.n < MaxWrites[c] /\ (op # "reset" => me.episode # None)
  BY DEF Send
<1>2. /\ me \in Client /\ me.n \in Nat /\ me.session \in Nat /\ me.slot \in Slots
      /\ me.token \in Nat \cup {None} /\ me.episode \in Ids \cup {None} /\ me.seq \in Nat
      /\ me.session <= me.n /\ me.req \in Request \cup {None}
  BY <1>1 DEF Inductive, Typed, Client, Numbered
<1>3. token \in Nat /\ token <= reg[me.slot].token
  BY <1>1, <1>2 DEF Inductive, Typed, Registry, Named
<1> HIDE DEF token
<1>4. r \in Request
  <2>1. MaxWrites[c] \in Nat
    BY WritesAssumption
  <2>2. <<c, me.session>> \in SessionIds
    BY <1>1, <1>2, <2>1, SessionIdsType
  <2>3. id \in Ids
    BY <1>2 DEF Ids
  <2>4. QED
    BY <1>1, <1>2, <1>3, <2>2, <2>3 DEF Request
<1>5. r.id = id /\ r.slot = me.slot /\ r.token = token
  OBVIOUS
<1> HIDE DEF r
<1>6. /\ cl' \in [Clients -> Client]
      /\ cl'[c].n = me.n + 1 /\ cl'[c].token = token /\ cl'[c].req = r
      /\ cl'[c].slot = me.slot /\ cl'[c].session = me.session
      /\ \A d \in Clients : d # c => cl'[d] = cl[d]
  <2>1. /\ x \in Client /\ x.n = me.n + 1 /\ x.slot = me.slot /\ x.session = me.session
    BY <1>2 DEF Client
  <2> HIDE DEF x
  <2>2. /\ y \in Client /\ y.n = me.n + 1 /\ y.slot = me.slot /\ y.session = me.session
        /\ y.token = token
    BY <2>1, <1>3 DEF Client
  <2> HIDE DEF y
  <2>3. /\ z \in Client /\ z.n = me.n + 1 /\ z.slot = me.slot /\ z.session = me.session
        /\ z.token = token /\ z.req = r
    BY <2>2, <1>4 DEF Client
  <2> HIDE DEF z
  <2> DEFINE w == [z EXCEPT !.try = 1]
  <2>4. /\ w \in Client /\ w.n = me.n + 1 /\ w.slot = me.slot /\ w.session = me.session
        /\ w.token = token /\ w.req = r
    BY <2>3 DEF Client
  <2> HIDE DEF w
  <2>5. cl' = [cl EXCEPT ![c] = w]
    BY <1>1 DEF w
  <2>6. QED
    BY <2>4, <2>5 DEF Inductive, Typed
<1>7. Outstanding' \subseteq Outstanding \cup {r}
  BY <1>1, <1>6 DEF Outstanding
<1>8. /\ Outstanding \subseteq Request
      /\ \A q \in Request : q.id \in Ids /\ q.id[1] \in Clients /\ q.id[2] \in Nat
      /\ \A d \in Clients : cl[d].n \in Nat /\ cl'[d].n \in Nat /\ cl[d].n <= cl'[d].n
  BY <1>2, <1>6, OutstandingType DEF Inductive, Typed, Request, Ids, Client
<1>9. \A q \in Outstanding : q.id # id
  BY <1>2, <1>8 DEF Inductive, Numbered
<1>10. id \notin done
  BY <1>2 DEF Inductive, Numbered
<1>11. Typed'
  <2>1. [req |-> r, try |-> 1] \in [req : Request, try : 1 .. 2]
    BY <1>4
  <2>2. QED
    BY <1>1, <1>6, <2>1 DEF Inductive, Typed
<1>12. Numbered'
  <2>1. ASSUME NEW d \in Clients
        PROVE  /\ cl'[d].n <= MaxWrites[d] /\ cl'[d].session <= cl'[d].n
               /\ cl'[d].req # None => cl'[d].req.id[1] = d
    BY <1>1, <1>2, <1>5, <1>6, WritesAssumption DEF Inductive, Numbered
  <2>2. ASSUME NEW q \in Outstanding PROVE q.id[2] <= cl'[q.id[1]].n
    BY <1>8 DEF Inductive, Numbered
  <2>3. r.id[2] <= cl'[r.id[1]].n
    BY <1>2, <1>5, <1>6
  <2>4. ASSUME NEW d \in done PROVE d[2] <= cl'[d[1]].n
    BY <1>8 DEF Inductive, Numbered, Typed, Ids
  <2>5. QED
    BY <1>1, <1>7, <2>1, <2>2, <2>3, <2>4 DEF Numbered
<1>13. Bounded' /\ Follows'
  BY <1>1 DEF Inductive, Bounded, Follows
<1>14. Named'
  <2>1. ASSUME NEW p \in Outstanding', NEW q \in Outstanding', p.id = q.id PROVE p = q
    BY <1>5, <1>7, <1>9, <2>1 DEF Inductive, Named
  <2>2. ASSUME NEW q \in Outstanding' PROVE q.token <= reg'[q.slot].token
    BY <1>1, <1>3, <1>5, <1>7 DEF Inductive, Named
  <2>3. ASSUME NEW d \in Clients, cl'[d].slot # None, cl'[d].token # None
        PROVE  cl'[d].token <= reg'[cl'[d].slot].token
    BY <1>1, <1>3, <1>6, <2>3 DEF Inductive, Named
  <2>4. QED
    BY <2>1, <2>2, <2>3 DEF Named
<1>15. ASSUME Remembered PROVE Remembered'
  <2>1. r.op = "reset" => r.episode = r.id
    BY DEF r
  <2>2. QED
    BY <1>1, <1>5, <1>7, <1>10, <1>15, <2>1 DEF Remembered, Spent
<1>16. QED
  BY <1>11, <1>12, <1>13, <1>14, <1>15 DEF Inductive

\* A new server process.
LEMMA RestartStep ==
  ASSUME Inductive, NEW s \in Slots, Restart(s)
  PROVE  Inductive' /\ (Remembered => Remembered')
<1>1. reg[s] \in Registry /\ reg[s].token \in Nat /\ \A x \in Slots : reg[x].token \in Nat
  BY DEF Inductive, Typed, Registry
<1>2. NewRegistry(reg[s].token + 1) \in Registry
  BY <1>1 DEF NewRegistry, Registry
<1>3. /\ reg' \in [Slots -> Registry] /\ reg'[s] = NewRegistry(reg[s].token + 1)
      /\ \A x \in Slots : x # s => reg'[x] = reg[x]
  BY <1>2 DEF Restart, Inductive, Typed
<1>4. reg'[s].token = reg[s].token + 1 /\ \A x \in Slots : reg[x].token <= reg'[x].token
  BY <1>1, <1>3 DEF NewRegistry
<1>5. Settled
  BY DEF Restart, Settled, Inductive, Typed
<1>6. net' \subseteq net /\ \A m \in net' : m.req \in Outstanding
  BY DEF Restart, Outstanding
<1>7. Outstanding' \subseteq Outstanding /\ Numbered' /\ Named'
  BY <1>3, <1>4, <1>5, <1>6, SettledStep DEF Restart
<1>8. Typed'
  BY <1>3, <1>6 DEF Restart, Inductive, Typed
<1>9. Bounded' /\ Follows'
  BY <1>3, CacheAssumption DEF Restart, Inductive, Typed, Bounded, Follows, NewRegistry
<1>10. ASSUME Remembered PROVE Remembered'
  <2>1. ASSUME NEW r \in Outstanding, r.id \in done
        PROVE  Spent(r)' \/ (r.op = "reset" /\ Knows(reg'[r.slot].cache, r.id))
    <3>1. r.slot \in Slots /\ r.token \in Nat /\ r.token <= reg[r.slot].token
      BY OutstandingType DEF Inductive, Named, Request
    <3>2. CASE r.slot = s
      BY <1>1, <1>4, <3>1, <3>2 DEF Spent
    <3>3. CASE r.slot # s
      BY <1>3, <1>10, <2>1, <3>1, <3>3 DEF Remembered, Spent, Restart
    <3>4. QED
      BY <3>2, <3>3
  <2>2. \A x \in Slots : reg'[x].episode # None => reg'[x].episode \in done'
    BY <1>3, <1>10 DEF Restart, Remembered, NewRegistry
  <2>3. QED
    BY <1>7, <1>10, <2>1, <2>2 DEF Restart, Remembered
<1>11. QED
  BY <1>7, <1>8, <1>9, <1>10 DEF Inductive

-----------------------------------------------------------------------------
(* Serve, by what the registry does with the attempt.                      *)

\* It is answered from the cache or refused.
NotBound(m) == /\ Settled /\ net' = net \ {m} /\ UNCHANGED <<reg, last, done>>

\* It binds its session and goes no further.
OnlyBound(m) ==
  /\ Settled /\ net' = net \ {m} /\ UNCHANGED <<last, done>>
  /\ Bindable(reg[m.req.slot], m.req)
  /\ reg' = [reg EXCEPT ![m.req.slot].session = m.req.session]

\* It is dispatched.
Dispatched(m, out) ==
  /\ Settled /\ net' = net \ {m}
  /\ Cached(reg[m.req.slot], m.req) = {}
  /\ Bindable(reg[m.req.slot], m.req) /\ InSequence(reg[m.req.slot], m.req)
  /\ reg' = [reg EXCEPT ![m.req.slot] = After(reg[m.req.slot], m.req, out)]
  /\ Applied(m.req.slot, m.req, out)

LEMMA ServeCases ==
  ASSUME Inductive, NEW m \in net, Serve(m)
  PROVE  \/ NotBound(m)
         \/ OnlyBound(m)
         \/ \E out \in Outcomes(m.req.op) : Dispatched(m, out)
<1> DEFINE R == reg[m.req.slot]
<1>1. ASSUME NEW a, Answer(m, a) PROVE Settled
  BY <1>1, AnswerSettles DEF Inductive
<1>2. CASE \E hit \in Cached(R, m.req) : Answer(m, hit.out) /\ UNCHANGED <<reg, last, done>>
  BY <1>1, <1>2 DEF Serve, NotBound
<1>3. CASE Answer(m, "CONFLICT") /\ UNCHANGED <<reg, last, done>>
  BY <1>1, <1>3 DEF Serve, NotBound
<1>4. CASE /\ Bindable(R, m.req)
           /\ reg' = [reg EXCEPT ![m.req.slot].session = m.req.session]
           /\ Answer(m, "CONFLICT") /\ UNCHANGED <<last, done>>
  BY <1>1, <1>4 DEF Serve, OnlyBound
<1>5. CASE /\ Cached(R, m.req) = {} /\ Bindable(R, m.req) /\ InSequence(R, m.req)
           /\ \E out \in Outcomes(m.req.op) :
                /\ reg' = [reg EXCEPT ![m.req.slot] = After(R, m.req, out)]
                /\ Applied(m.req.slot, m.req, out)
                /\ Answer(m, out)
  BY <1>1, <1>5 DEF Serve, Dispatched
<1>6. QED
  BY <1>2, <1>3, <1>4, <1>5 DEF Serve

\* What is known of an attempt that is served.
LEMMA ServedType ==
  ASSUME Inductive, NEW m \in net
  PROVE  /\ m.req \in Request /\ m.req \in Outstanding
         /\ m.req.slot \in Slots /\ m.req.session \in SessionIds /\ m.req.session # None
         /\ m.req.token \in Nat /\ m.req.seq \in Nat /\ m.req.id \in Ids
         /\ m.req.op \in {"reset", "write", "release"}
         /\ m.req.episode \in Ids /\ m.req.episode # None
         /\ reg[m.req.slot] \in Registry
         /\ Len(reg[m.req.slot].cache) <= CacheSize
         /\ last[m.req.slot] \in Application \cup {None}
<1>1. m.req \in Request /\ m.req \in Outstanding
  BY DEF Inductive, Typed, Outstanding
<1>2. QED
  BY <1>1, SessionIdsType, NoneAssumption DEF Request, Inductive, Typed, Bounded

\* A request that goes past the binding is of the session that wrote last, unless
\* that session has released the server.
LEMMA SameSession ==
  ASSUME Inductive, NEW m \in net, Bindable(reg[m.req.slot], m.req), last[m.req.slot] # None
  PROVE  /\ last[m.req.slot].out = "COMMITTED"
         /\ last[m.req.slot].req.op # "release" => reg[m.req.slot].session = m.req.session
         /\ last[m.req.slot].req.session = m.req.session \/ last[m.req.slot].req.op = "release"
<1> DEFINE s == m.req.slot
<1>1. s \in Slots /\ last[s] \in Application
  BY ServedType
<1>2. /\ last[s].out \in {"COMMITTED", "OUTCOME_UNKNOWN"}
      /\ last[s].req \in Request /\ last[s].req.session \in SessionIds
  BY <1>1 DEF Application, Request
<1>3. QED
  BY <1>1, <1>2, SessionIdsType DEF Inductive, Follows, Bindable

LEMMA OnlyBoundStep ==
  ASSUME Inductive, NEW m \in net, OnlyBound(m)
  PROVE  Inductive' /\ (Remembered => Remembered')
<1> DEFINE s == m.req.slot
           R == reg[s]
<1>1. /\ R \in Registry /\ s \in Slots /\ m.req.session \in SessionIds
      /\ m.req.session # None /\ Bindable(R, m.req)
  BY ServedType DEF OnlyBound
<1>2. /\ reg'[s] = [R EXCEPT !.session = m.req.session]
      /\ \A x \in Slots : x # s => reg'[x] = reg[x]
      /\ reg' = [reg EXCEPT ![s] = [R EXCEPT !.session = m.req.session]]
  BY <1>1 DEF OnlyBound, Inductive, Typed
<1>3. [R EXCEPT !.session = m.req.session] \in Registry
  BY <1>1 DEF Registry
<1>4. /\ reg'[s].session = m.req.session /\ reg'[s].token = R.token
      /\ reg'[s].episode = R.episode /\ reg'[s].seq = R.seq /\ reg'[s].lost = R.lost
      /\ reg'[s].cache = R.cache
  BY <1>1, <1>2 DEF Registry
<1>5. reg' \in [Slots -> Registry]
  BY <1>1, <1>2, <1>3 DEF Inductive, Typed
<1>6. \A x \in Slots : reg[x].token \in Nat /\ reg'[x].token = reg[x].token
  BY <1>2, <1>4 DEF Inductive, Typed, Registry
<1>7. Outstanding' \subseteq Outstanding /\ Numbered' /\ Named'
  <2>1. \A k \in net' : k.req \in Outstanding
    BY DEF OnlyBound, Outstanding
  <2>2. QED
    BY <1>5, <1>6, <2>1, SettledStep DEF OnlyBound
<1>8. Typed'
  BY <1>5 DEF OnlyBound, Settled, Inductive, Typed
<1>9. Bounded'
  BY <1>1, <1>2, <1>4 DEF Inductive, Bounded
<1>10. Follows'
  <2>1. last[s] # None => /\ last[s].out = "COMMITTED"
                          /\ last[s].req.op # "release" => R.session = m.req.session
    BY <1>1, SameSession
  <2>2. last' = last
    BY DEF OnlyBound
  <2>3. ASSUME NEW x \in Slots, x = s
        PROVE  /\ reg'[x].episode = reg[x].episode /\ reg'[x].seq = reg[x].seq
               /\ reg'[x].lost = reg[x].lost
               /\ last[x] # None /\ last[x].req.op # "release"
                    => last[x].out = "COMMITTED" /\ reg'[x].session = reg[x].session
    BY <1>4, <2>1, <2>3
  <2>4. QED
    BY <1>2, <2>2, <2>3 DEF Inductive, Follows
<1>11. ASSUME Remembered PROVE Remembered'
  <2>1. ASSUME NEW x \in Slots
        PROVE  /\ reg'[x].cache = reg[x].cache /\ reg'[x].token = reg[x].token
               /\ reg'[x].lost = reg[x].lost /\ reg'[x].episode = reg[x].episode
               /\ reg'[x].seq = reg[x].seq
    BY <1>2, <1>4
  <2>2. \A r \in Outstanding : r.slot \in Slots
    BY OutstandingType DEF Inductive, Request
  <2>3. done' = done
    BY DEF OnlyBound
  <2>4. QED
    BY <1>7, <1>11, <2>1, <2>2, <2>3 DEF Remembered, Spent
<1>12. QED
  BY <1>7, <1>8, <1>9, <1>10, <1>11 DEF Inductive

LEMMA DispatchedStep ==
  ASSUME Inductive, NEW m \in net, NEW out \in Outcomes(m.req.op), Dispatched(m, out)
  PROVE  Inductive' /\ (Remembered /\ KeepsResets => Remembered')
<1> DEFINE r == m.req
           s == r.slot
           R == reg[s]
           A == After(R, r, out)
<1>1. /\ r \in Request /\ r \in Outstanding /\ s \in Slots /\ R \in Registry
      /\ r.session \in SessionIds /\ r.session # None /\ r.id \in Ids
      /\ r.op \in {"reset", "write", "release"} /\ Len(R.cache) <= CacheSize
      /\ r.episode # None /\ r.seq \in Nat
  BY ServedType
<1>2. Bindable(R, r) /\ InSequence(R, r) /\ reg' = [reg EXCEPT ![s] = A] /\ Applied(s, r, out)
  BY DEF Dispatched
<1>3. /\ A \in Registry
      /\ A.cache = Remember(R.cache, r, out)
      /\ A.token = (IF out = "COMMITTED" /\ r.op = "release" THEN R.token + 1 ELSE R.token)
      /\ A.session = (IF out = "COMMITTED" /\ r.op = "release" THEN None ELSE r.session)
      /\ A.lost = (R.lost \/ out = "OUTCOME_UNKNOWN")
      /\ A.episode = (IF out # "COMMITTED" \/ r.op = "write" THEN R.episode
                      ELSE IF r.op = "release" THEN None ELSE r.episode)
      /\ out = "COMMITTED" /\ r.op = "reset" => A.seq = 1
      /\ out = "COMMITTED" /\ r.op = "write" => A.seq = R.seq + 1
  BY <1>1, AfterType
<1>4. out \in {"COMMITTED", "REJECTED", "OUTCOME_UNKNOWN"} /\ (out = "OUTCOME_UNKNOWN" => r.op # "release")
  BY <1>1 DEF Outcomes
<1>5. R.token \in Nat /\ R.seq \in Nat /\ ~R.lost /\ R.token = r.token
      /\ R.session \in {None, r.session}
  BY <1>1, <1>2 DEF Registry, Bindable
<1> HIDE DEF A
<1>6. /\ reg' \in [Slots -> Registry] /\ reg'[s] = A
      /\ \A x \in Slots : x # s => reg'[x] = reg[x]
  BY <1>1, <1>2, <1>3 DEF Inductive, Typed
<1>7. \A x \in Slots : reg[x].token \in Nat /\ reg[x].token <= reg'[x].token
  <2>1. \A x \in Slots : reg[x].token \in Nat
    BY DEF Inductive, Typed, Registry
  <2>2. R.token <= A.token
    BY <1>3, <1>5
  <2>3. QED
    BY <1>6, <2>1, <2>2
<1>8. done' \subseteq done \cup {r.id}
  BY <1>2 DEF Applied
<1>9. Outstanding' \subseteq Outstanding /\ Numbered' /\ Named'
  <2>1. \A k \in net' : k.req \in Outstanding
    BY DEF Dispatched, Outstanding
  <2>2. \A d \in done' : d \in done \/ \E q \in Outstanding : d = q.id
    BY <1>1, <1>8
  <2>3. QED
    BY <1>6, <1>7, <2>1, <2>2, SettledStep DEF Dispatched
<1>10. /\ \A x \in Slots : x # s => last'[x] = last[x]
       /\ out = "REJECTED" => last' = last
       /\ out # "REJECTED" => /\ last'[s] \in Application
                              /\ last'[s].req = r /\ last'[s].out = out
  <2>1. CASE out = "REJECTED"
    BY <1>2, <2>1 DEF Applied
  <2>2. CASE out # "REJECTED"
    <3> DEFINE n == IF last[s] = None THEN 1 ELSE last[s].count + 1
               w == [req |-> r, out |-> out, count |-> n]
    <3>1. n \in Nat
      BY <1>1 DEF Inductive, Typed, Application
    <3>2. w \in Application /\ w.req = r /\ w.out = out
      BY <1>1, <1>4, <2>2, <3>1 DEF Application
    <3>3. last' = [last EXCEPT ![s] = w]
      BY <1>2, <2>2 DEF Applied
    <3> HIDE DEF w
    <3>4. last'[s] = w /\ \A x \in Slots : x # s => last'[x] = last[x]
      BY <1>1, <3>3 DEF Inductive, Typed
    <3>5. QED
      BY <2>2, <3>2, <3>4
  <2>3. QED
    BY <2>1, <2>2
<1>11. Typed'
  <2>1. last' \in [Slots -> Application \cup {None}]
    <3>1. \E w : last' = [last EXCEPT ![s] = w] \/ last' = last
      BY <1>2 DEF Applied
    <3>2. QED
      BY <1>1, <1>10, <3>1 DEF Inductive, Typed
  <2>2. QED
    BY <1>1, <1>6, <1>8, <2>1 DEF Dispatched, Settled, Inductive, Typed
<1>12. Bounded'
  <2>1. Len(A.cache) <= CacheSize
    <3>1. R.cache \in Seq(Result)
      BY <1>1 DEF Registry
    <3>2. [id |-> r.id, out |-> out] \in Result
      BY <1>1, <1>4 DEF Result
    <3>3. Len(Remember(R.cache, r, out)) <= CacheSize
      BY <1>1, <3>1, <3>2, RememberType
    <3>4. QED
      BY <1>3, <3>3
  <2>2. A.session = None => A.episode = None /\ ~A.lost
    BY <1>1, <1>3, <1>5
  <2>3. QED
    BY <1>6, <2>1, <2>2 DEF Inductive, Bounded
<1>13. Follows'
  <2>1. ASSUME NEW x \in Slots, x # s
        PROVE  IF last'[x] = None THEN reg'[x].episode = None
               ELSE IF last'[x].out = "OUTCOME_UNKNOWN" THEN reg'[x].lost
               ELSE IF last'[x].req.op = "release" THEN reg'[x].episode = None
               ELSE /\ reg'[x].session = last'[x].req.session
                    /\ reg'[x].episode = last'[x].req.episode
                    /\ reg'[x].seq = last'[x].req.seq + 1
    BY <1>6, <1>10, <2>1 DEF Inductive, Follows
  <2>2. CASE out = "REJECTED"
    <3>1. /\ A.episode = R.episode /\ A.session = r.session /\ ~A.lost /\ A.seq = R.seq
      BY <1>1, <1>2, <1>3, <1>5, <2>2 DEF After, Registry, A
    <3>2. last[s] # None => /\ last[s].out = "COMMITTED"
                            /\ last[s].req.op # "release" => R.session = r.session
      BY <1>2, SameSession
    <3>3. IF last[s] = None THEN A.episode = None
          ELSE IF last[s].out = "OUTCOME_UNKNOWN" THEN A.lost
          ELSE IF last[s].req.op = "release" THEN A.episode = None
          ELSE /\ A.session = last[s].req.session
               /\ A.episode = last[s].req.episode
               /\ A.seq = last[s].req.seq + 1
      BY <1>1, <3>1, <3>2 DEF Inductive, Follows
    <3>4. QED
      BY <1>6, <1>10, <2>1, <2>2, <3>3 DEF Follows
  <2>3. CASE out = "OUTCOME_UNKNOWN"
    <3>1. last'[s] # None /\ A.lost /\ last'[s].out = "OUTCOME_UNKNOWN"
      BY <1>3, <1>10, <2>3, NoneAssumption
    <3>2. QED
      BY <1>6, <2>1, <3>1 DEF Follows
  <2>4. CASE out = "COMMITTED"
    <3>1. last'[s] # None /\ last'[s].out = "COMMITTED" /\ last'[s].req = r
      BY <1>10, <2>4, NoneAssumption
    <3>2. r.op = "release" => A.episode = None
      BY <1>3, <2>4
    <3>3. r.op # "release" => /\ A.session = r.session
                              /\ A.episode = r.episode
                              /\ A.seq = r.seq + 1
      BY <1>1, <1>2, <1>3, <1>5, <2>4 DEF InSequence
    <3>4. QED
      BY <1>6, <2>1, <3>1, <3>2, <3>3 DEF Follows
  <2>5. QED
    BY <1>4, <2>2, <2>3, <2>4
<1>14. ASSUME Remembered, KeepsResets PROVE Remembered'
  <2>1. /\ Knows(A.cache, r.id)
        /\ \A id : Knows(R.cache, id) =>
             Knows(A.cache, id) \/ (Len(R.cache) = CacheSize /\ R.cache[1].id = id)
    <3>1. R.cache \in Seq(Result) /\ [id |-> r.id, out |-> out] \in Result
      BY <1>1, <1>4 DEF Registry, Result
    <3>2. QED
      BY <1>1, <1>3, <3>1, RememberKnows
  <2>2. r.id \notin done
    <3>1. ~Knows(R.cache, r.id)
      BY DEF Dispatched, Cached, Knows
    <3>2. ~Spent(r)
      BY <1>1, <1>2, <1>5 DEF Spent, InSequence
    <3>3. QED
      BY <1>1, <1>14, <3>1, <3>2 DEF Remembered
  <2>3. r.op = "reset" => r.episode = r.id
    BY <1>1, <1>14 DEF Remembered
  <2>4. out # "REJECTED" => done' = done \cup {r.id}
    BY <1>2 DEF Applied
  <2>5. done \subseteq done'
    BY <1>2 DEF Applied
  <2>6. out = "REJECTED" => A.seq = R.seq
    BY <1>1 DEF After, A, Registry
  <2>7. ASSUME NEW q \in Outstanding, q.id # r.id, Spent(q) PROVE Spent(q)'
    <3>1. q \in Request /\ q.slot \in Slots /\ q.token \in Nat /\ q.seq \in Nat /\ q.episode \in Ids
      BY OutstandingType DEF Inductive, Request
    <3>2. CASE q.token < reg[q.slot].token
      BY <1>7, <3>1, <3>2, <1>6 DEF Registry, Spent
    <3>3. CASE reg[q.slot].lost
      BY <1>3, <1>6, <3>1, <3>3 DEF Spent
    <3>4. CASE /\ q.op = "write" /\ q.episode \in done
               /\ reg[q.slot].episode # q.episode \/ q.seq < reg[q.slot].seq
      <4>1. CASE q.slot # s
        BY <1>6, <2>5, <3>1, <3>4, <4>1 DEF Spent
      <4>2. CASE q.slot = s /\ out = "OUTCOME_UNKNOWN"
        BY <1>3, <1>6, <4>2 DEF Spent
      <4>3. CASE q.slot = s /\ out = "REJECTED"
        BY <1>3, <1>6, <2>5, <2>6, <3>4, <4>3 DEF Spent
      <4>4. CASE q.slot = s /\ out = "COMMITTED" /\ r.op = "release"
        <5>1. q.token <= R.token
          BY <4>4 DEF Inductive, Named
        <5>2. QED
          BY <1>3, <1>5, <1>6, <3>1, <4>4, <5>1 DEF Spent
      <4>5. CASE q.slot = s /\ out = "COMMITTED" /\ r.op = "reset"
        <5>1. A.episode # q.episode
          BY <1>3, <2>2, <2>3, <3>4, <4>5
        <5>2. QED
          BY <1>6, <2>5, <3>4, <4>5, <5>1 DEF Spent
      <4>6. CASE q.slot = s /\ out = "COMMITTED" /\ r.op = "write"
        BY <1>3, <1>5, <1>6, <2>5, <3>1, <3>4, <4>6 DEF Spent
      <4>7. QED
        BY <1>1, <1>4, <4>1, <4>2, <4>3, <4>4, <4>5, <4>6
    <3>5. QED
      BY <2>7, <3>2, <3>3, <3>4 DEF Spent
  <2>8. ASSUME NEW q \in Outstanding', q.id # r.id, q.op = "reset", q.id \in done,
               Knows(reg[q.slot].cache, q.id)
        PROVE  Spent(q)' \/ Knows(reg'[q.slot].cache, q.id)
    <3>1. q \in Outstanding /\ q \in Request /\ q.slot \in Slots /\ q.token \in Nat
      BY <1>9, OutstandingType DEF Inductive, Request
    <3>2. CASE q.slot # s \/ Knows(A.cache, q.id)
      BY <1>6, <2>8, <3>1, <3>2
    <3>3. CASE q.slot = s /\ ~Knows(A.cache, q.id) /\ A.token = R.token
      <4>1. Len(R.cache) = CacheSize /\ R.cache[1].id = q.id
        BY <2>1, <2>8, <3>3
      <4>2. A.cache # R.cache
        BY <2>8, <3>3
      <4>3. QED
        BY <1>1, <1>6, <1>14, <2>8, <3>3, <4>1, <4>2 DEF KeepsResets
    <3>4. CASE q.slot = s /\ A.token # R.token
      <4>1. q.token <= R.token
        BY <3>1, <3>4 DEF Inductive, Named
      <4>2. QED
        BY <1>3, <1>5, <1>6, <3>1, <3>4, <4>1 DEF Spent
    <3>5. QED
      BY <3>2, <3>3, <3>4
  <2>9. ASSUME out # "REJECTED"
        PROVE  Spent(r)' \/ (r.op = "reset" /\ Knows(A.cache, r.id))
    <3>1. CASE out = "OUTCOME_UNKNOWN"
      BY <1>3, <1>6, <3>1 DEF Spent
    <3>2. CASE r.op = "reset"
      BY <2>1, <3>2
    <3>3. CASE out = "COMMITTED" /\ r.op = "release"
      BY <1>3, <1>5, <1>6, <3>3 DEF Spent
    <3>4. CASE out = "COMMITTED" /\ r.op = "write"
      <4>1. r.episode \in done
        BY <1>1, <1>2, <1>14, <3>4 DEF Remembered, InSequence
      <4>2. r.seq < A.seq
        BY <1>1, <1>2, <1>3, <1>5, <3>4 DEF InSequence
      <4>3. QED
        BY <1>6, <2>5, <3>4, <4>1, <4>2 DEF Spent
    <3>5. QED
      BY <1>1, <1>4, <2>9, <3>1, <3>2, <3>3, <3>4
  <2>10. ASSUME NEW q \in Outstanding', q.id \in done'
         PROVE  Spent(q)' \/ (q.op = "reset" /\ Knows(reg'[q.slot].cache, q.id))
    <3>1. q \in Outstanding
      BY <1>9
    <3>2. CASE q.id = r.id
      <4>1. q = r
        BY <1>1, <3>1, <3>2 DEF Inductive, Named
      <4>2. out # "REJECTED"
        BY <1>2, <2>2, <2>10, <3>2 DEF Applied
      <4>3. QED
        BY <1>6, <2>9, <4>1, <4>2
    <3>3. CASE q.id # r.id
      <4>1. q.id \in done
        BY <1>8, <2>10, <3>3
      <4>2. Spent(q) \/ (q.op = "reset" /\ Knows(reg[q.slot].cache, q.id))
        BY <1>14, <3>1, <4>1 DEF Remembered
      <4>3. QED
        BY <2>7, <2>8, <3>1, <3>3, <4>1, <4>2
    <3>4. QED
      BY <3>2, <3>3
  <2>11. ASSUME NEW x \in Slots, reg'[x].episode # None PROVE reg'[x].episode \in done'
    <3>1. CASE x # s
      BY <1>6, <1>14, <2>5, <2>11, <3>1 DEF Remembered
    <3>2. CASE x = s /\ A.episode = R.episode
      BY <1>1, <1>6, <1>14, <2>5, <2>11, <3>2 DEF Remembered
    <3>3. CASE x = s /\ out = "COMMITTED" /\ r.op = "reset"
      BY <1>3, <1>6, <2>3, <2>4, <3>3
    <3>4. QED
      BY <1>1, <1>3, <1>6, <2>11, <3>1, <3>2, <3>3
  <2>12. \A q \in Outstanding' : q.op = "reset" => q.episode = q.id
    BY <1>9, <1>14 DEF Remembered
  <2>13. QED
    BY <2>10, <2>11, <2>12 DEF Remembered
<1>15. QED
  BY <1>9, <1>11, <1>12, <1>13, <1>14 DEF Inductive

LEMMA ServeStep ==
  ASSUME Inductive, NEW m \in net, Serve(m)
  PROVE  Inductive' /\ (Remembered /\ KeepsResets => Remembered')
<1>1. CASE NotBound(m)
  <2>1. net' \subseteq [req : Request, try : 1 .. 2] /\ \A k \in net' : k.req \in Outstanding
    BY <1>1 DEF NotBound, Outstanding, Inductive, Typed
  <2>2. Inductive' /\ Outstanding' \subseteq Outstanding
    BY <1>1, <2>1, ClientStep DEF NotBound
  <2>3. Remembered => Remembered'
    BY <1>1, <2>2 DEF NotBound, Remembered, Spent
  <2>4. QED
    BY <2>2, <2>3
<1>2. CASE OnlyBound(m)
  BY <1>2, OnlyBoundStep
<1>3. CASE \E out \in Outcomes(m.req.op) : Dispatched(m, out)
  BY <1>3, DispatchedStep
<1>4. QED
  BY <1>1, <1>2, <1>3, ServeCases

LEMMA NextStep ==
  ASSUME Inductive, [Next]_vars
  PROVE  Inductive' /\ (Remembered /\ KeepsResets => Remembered')
<1>1. ASSUME NEW c \in Clients, Open(c) \/ Exit(c) \/ Timeout(c)
      PROVE  Inductive' /\ (Remembered => Remembered')
  <2>1. Inductive' /\ Outstanding' \subseteq Outstanding
    BY <1>1, OpenExitStep, TimeoutStep
  <2>2. UNCHANGED <<reg, done>>
    BY <1>1 DEF Open, Exit, Timeout
  <2>3. QED
    BY <2>1, <2>2 DEF Remembered, Spent
<1>2. ASSUME NEW m \in net, Refuse(m)
      PROVE  Inductive' /\ (Remembered => Remembered')
  <2>1. Inductive' /\ Outstanding' \subseteq Outstanding
    BY <1>2, RefuseStep
  <2>2. UNCHANGED <<reg, done>>
    BY <1>2 DEF Refuse
  <2>3. QED
    BY <2>1, <2>2 DEF Remembered, Spent
<1>3. CASE UNCHANGED vars
  BY <1>3 DEF vars, Inductive, Typed, Numbered, Bounded, Follows, Named, Remembered, Spent, Outstanding
<1>4. QED
  BY <1>1, <1>2, <1>3, SendStep, ServeStep, RestartStep DEF Next

-----------------------------------------------------------------------------
\* Registries, clients and the network stay consistent in every execution.
THEOREM WritesInvariant == Spec => []Inductive
<1>1. Init => Inductive
  BY InitInductive
<1>2. Inductive /\ [Next]_vars => Inductive'
  BY NextStep
<1>3. QED
  BY <1>1, <1>2, PTL DEF Spec

\* TypeOK: a server without a session has no episode and is not lost, and its
\* cache of results is bounded.
THEOREM TypeTheorem == Spec => []TypeOK
<1>1. Inductive => TypeOK
  <2> SUFFICES ASSUME Inductive PROVE TypeOK
    OBVIOUS
  <2>1. ASSUME NEW s \in Slots
        PROVE  /\ Phase(s) \in {"FREE", "BOUND", "EPISODE_ACTIVE", "LOST"}
               /\ Len(reg[s].cache) <= CacheSize
               /\ reg[s].session = None => reg[s].episode = None /\ ~reg[s].lost
    BY DEF Inductive, Bounded, Phase
  <2>2. ASSUME NEW c \in Clients PROVE cl[c].n \in 0 .. MaxWrites[c] /\ cl[c].try \in 0 .. 2
    BY WritesAssumption DEF Inductive, Typed, Numbered, Client
  <2>3. ASSUME NEW m \in net PROVE m.req.id[2] <= cl[m.req.id[1]].n
    BY DEF Inductive, Numbered, Outstanding
  <2>4. QED
    BY <2>1, <2>2, <2>3 DEF TypeOK
<1>2. QED
  BY <1>1, WritesInvariant, PTL

\* A write reaches a simulator in a step that dispatches an attempt of it.
LEMMA WriteIsDispatched ==
  ASSUME Inductive, [Next]_vars, NEW s \in Slots, Writes(s)
  PROVE  \E m \in net : \E out \in Outcomes(m.req.op) :
           Dispatched(m, out) /\ m.req.slot = s /\ last'[s].req = m.req
<1>1. \E m \in net : Serve(m)
  <2>1. \A c \in Clients : ~Open(c) /\ ~Exit(c) /\ ~Timeout(c)
                           /\ \A op \in {"reset", "write", "release"} : ~Send(c, op)
    BY DEF Writes, Open, Exit, Timeout, Send
  <2>2. \A m \in net : ~Refuse(m)
    BY DEF Writes, Refuse
  <2>3. \A x \in Slots : ~Restart(x)
    BY DEF Writes, Restart, Inductive, Typed
  <2>4. ~UNCHANGED vars
    BY DEF Writes, vars
  <2>5. QED
    BY <2>1, <2>2, <2>3, <2>4 DEF Next
<1>2. PICK m \in net : Serve(m)
  BY <1>1
<1>3. PICK out \in Outcomes(m.req.op) : Dispatched(m, out)
  BY <1>2, ServeCases DEF NotBound, OnlyBound, Writes
<1>4. out # "REJECTED"
  BY <1>3 DEF Dispatched, Applied, Writes
<1>5. PICK n : last' = [last EXCEPT ![m.req.slot] = [req |-> m.req, out |-> out, count |-> n]]
  BY <1>3, <1>4 DEF Dispatched, Applied
<1>6. m.req.slot = s
  BY <1>5 DEF Writes, Inductive, Typed
<1>7. last'[s].req = m.req
  BY <1>5, <1>6 DEF Inductive, Typed
<1>8. QED
  BY <1>3, <1>6, <1>7

\* InOrder, whatever the size of the cache: a physical write extends its own
\* episode by one, nothing follows a write of unknown outcome, and another session
\* writes only after a release.
THEOREM OrderTheorem == Spec => InOrder
<1>1. Inductive /\ [Next]_vars =>
        [\A s \in Slots : Writes(s) =>
           LET r == last'[s].req IN
           /\ last[s] # None => /\ last[s].out = "COMMITTED"
                                /\ last[s].req.session = r.session \/ last[s].req.op = "release"
           /\ r.op # "reset" => /\ last[s] # None /\ last[s].req.episode = r.episode
                                /\ last[s].req.seq = r.seq - 1]_vars
  <2> SUFFICES ASSUME Inductive, [Next]_vars, NEW s \in Slots, Writes(s)
               PROVE  /\ last[s] # None =>
                           /\ last[s].out = "COMMITTED"
                           /\ \/ last[s].req.session = last'[s].req.session
                              \/ last[s].req.op = "release"
                      /\ last'[s].req.op # "reset" =>
                           /\ last[s] # None /\ last[s].req.episode = last'[s].req.episode
                           /\ last[s].req.seq = last'[s].req.seq - 1
    OBVIOUS
  <2>1. PICK m \in net : /\ \E out \in Outcomes(m.req.op) : Dispatched(m, out)
                         /\ m.req.slot = s /\ last'[s].req = m.req
    BY WriteIsDispatched
  <2>2. /\ Bindable(reg[s], m.req) /\ InSequence(reg[s], m.req)
        /\ m.req.episode # None /\ m.req.seq \in Nat
    BY <2>1, ServedType DEF Dispatched
  <2>3. last[s] # None => /\ last[s].out = "COMMITTED"
                          /\ last[s].req.session = m.req.session \/ last[s].req.op = "release"
    BY <2>1, <2>2, SameSession
  <2>4. ASSUME m.req.op # "reset"
        PROVE  /\ last[s] # None /\ last[s].req.episode = m.req.episode
               /\ last[s].req.seq = m.req.seq - 1
    <3>1. reg[s].episode = m.req.episode /\ reg[s].seq = m.req.seq
      BY <2>2, <2>4 DEF InSequence
    <3>2. last[s] # None /\ last[s].req.op # "release"
      BY <2>2, <2>3, <3>1 DEF Inductive, Follows
    <3>3. last[s].req.episode = m.req.episode /\ m.req.seq = last[s].req.seq + 1
      BY <2>3, <3>1, <3>2 DEF Inductive, Follows
    <3>4. last[s].req.seq \in Nat
      BY <3>2 DEF Inductive, Typed, Application, Request
    <3>5. QED
      BY <2>2, <3>2, <3>3, <3>4
  <2>5. QED
    BY <2>1, <2>3, <2>4
<1>2. QED
  BY <1>1, WritesInvariant, PTL DEF Spec, InOrder

\* AtMostOnce: however often a write is sent and whichever process serves its
\* attempts, the simulator sees it once, for a cache of any size, as long as results
\* of resets are not dropped too early.  Against the replay of anything else the
\* token and the sequence number protect; a reset has no sequence number, and one
\* whose result is dropped while an attempt of it is on its way runs again.
THEOREM OnceTheorem == Spec /\ [][KeepsResets]_vars => AtMostOnce
<1>1. Init => Inductive /\ Remembered
  BY InitInductive
<1>2. Inductive /\ Remembered /\ [KeepsResets]_vars /\ [Next]_vars => (Inductive /\ Remembered)'
  <2>1. Inductive /\ Remembered /\ KeepsResets /\ [Next]_vars => (Inductive /\ Remembered)'
    BY NextStep
  <2>2. Inductive /\ Remembered /\ UNCHANGED vars => (Inductive /\ Remembered)'
    BY DEF vars, Inductive, Typed, Numbered, Bounded, Follows, Named, Remembered, Spent, Outstanding
  <2>3. QED
    BY <2>1, <2>2
<1>3. Inductive /\ Remembered /\ [Next]_vars =>
        [\A s \in Slots : Writes(s) => last'[s].req.id \notin done]_vars
  <2> SUFFICES ASSUME Inductive, Remembered, [Next]_vars, NEW s \in Slots, Writes(s)
               PROVE  last'[s].req.id \notin done
    OBVIOUS
  <2>1. PICK m \in net : /\ \E out \in Outcomes(m.req.op) : Dispatched(m, out)
                         /\ m.req.slot = s /\ last'[s].req = m.req
    BY WriteIsDispatched
  <2>2. Cached(reg[s], m.req) = {} /\ Bindable(reg[s], m.req)
    BY <2>1 DEF Dispatched
  <2>3. ~Knows(reg[s].cache, m.req.id)
    BY <2>2 DEF Cached, Knows
  <2>4. /\ m.req \in Outstanding /\ m.req.token \in Nat /\ m.req.token = reg[s].token
        /\ ~reg[s].lost /\ m.req.seq \in Nat
    BY <2>2, ServedType DEF Bindable
  <2>5. ~Spent(m.req)
    BY <2>1, <2>4 DEF Spent, Dispatched, InSequence
  <2>6. QED
    BY <2>1, <2>3, <2>4, <2>5 DEF Remembered
<1>4. QED
  BY <1>1, <1>2, <1>3, PTL DEF Spec, AtMostOnce

-----------------------------------------------------------------------------
\* A step of the protocol binds, poisons, unbinds or renews one server of
\* SlotServer, or leaves them alone.
LEMMA StepImplements ==
  ASSUME Inductive, [Next]_vars
  PROVE  [Server!ServerNext]_(Server!server)
<1> DEFINE owner(R) == [s \in Slots |-> R[s].session]
           lost(R) == {s \in Slots : R[s].lost}
<1> SUFFICES ASSUME reg' # reg
             PROVE  Server!ServerNext \/ (owner(reg') = owner(reg) /\ lost(reg') = lost(reg))
  BY DEF Server!server
<1>1. CASE \E s \in Slots : Restart(s)
  <2>1. PICK s \in Slots : Restart(s)
    BY <1>1
  <2>2. owner(reg') = [owner(reg) EXCEPT ![s] = None] /\ lost(reg') = lost(reg) \ {s}
    BY <2>1 DEF Restart, NewRegistry, Inductive, Typed
  <2>3. QED
    BY <2>2 DEF Server!ServerNext, Server!Renew
<1>2. ASSUME NEW m \in net, OnlyBound(m)
      PROVE  Server!ServerNext \/ (owner(reg') = owner(reg) /\ lost(reg') = lost(reg))
  <2> DEFINE s == m.req.slot
  <2>1. /\ s \in Slots /\ m.req.session \in SessionIds /\ m.req.session # None
        /\ reg[s] \in Registry
    BY ServedType
  <2>2. ~reg[s].lost /\ reg[s].session \in {None, m.req.session}
    BY <1>2 DEF OnlyBound, Bindable
  <2>3. /\ owner(reg') = [owner(reg) EXCEPT ![s] = m.req.session]
        /\ lost(reg') = lost(reg)
    BY <1>2, <2>1 DEF OnlyBound, Inductive, Typed, Registry
  <2>4. CASE reg[s].session = None
    BY <2>1, <2>2, <2>3, <2>4 DEF Server!ServerNext, Server!Bind
  <2>5. CASE reg[s].session = m.req.session
    BY <2>1, <2>3, <2>5, ZenonT(40)
  <2>6. QED
    BY <2>2, <2>4, <2>5
<1>3. ASSUME NEW m \in net, NEW out \in Outcomes(m.req.op), Dispatched(m, out)
      PROVE  Server!ServerNext \/ (owner(reg') = owner(reg) /\ lost(reg') = lost(reg))
  <2> DEFINE s == m.req.slot
             A == After(reg[s], m.req, out)
  <2>1. /\ s \in Slots /\ m.req \in Request /\ m.req.session \in SessionIds
        /\ m.req.session # None /\ reg[s] \in Registry /\ Len(reg[s].cache) <= CacheSize
        /\ m.req.episode # None
    BY ServedType
  <2>2. /\ ~reg[s].lost /\ reg[s].session \in {None, m.req.session}
        /\ InSequence(reg[s], m.req)
        /\ reg' = [reg EXCEPT ![s] = A]
    BY <1>3 DEF Dispatched, Bindable
  <2>3. /\ A.session = (IF out = "COMMITTED" /\ m.req.op = "release" THEN None
                        ELSE m.req.session)
        /\ A.lost = (out = "OUTCOME_UNKNOWN")
    BY <2>1, <2>2, AfterType
  <2> HIDE DEF A
  <2>4. /\ owner(reg') = [owner(reg) EXCEPT ![s] = A.session]
        /\ lost(reg') = IF out = "OUTCOME_UNKNOWN" THEN lost(reg) \cup {s} ELSE lost(reg)
    BY <2>1, <2>2, <2>3 DEF Inductive, Typed
  <2>5. s \notin lost(reg) /\ owner(reg)[s] = reg[s].session
    BY <2>1, <2>2
  <2>6. CASE out = "COMMITTED" /\ m.req.op = "release"
    <3>1. reg[s].session # None
      BY <2>1, <2>2, <2>6 DEF InSequence, Inductive, Bounded
    <3>2. QED
      BY <2>1, <2>3, <2>4, <2>5, <2>6, <3>1 DEF Server!ServerNext, Server!Unbind
  <2>7. CASE ~(out = "COMMITTED" /\ m.req.op = "release") /\ reg[s].session = None
    BY <2>1, <2>3, <2>4, <2>5, <2>7, ZenonT(40) DEF Server!ServerNext, Server!Bind
  <2>8. CASE ~(out = "COMMITTED" /\ m.req.op = "release") /\ reg[s].session = m.req.session
    <3>1. owner(reg') = owner(reg)
      BY <2>1, <2>3, <2>4, <2>8, ZenonT(40)
    <3>2. QED
      BY <2>1, <2>4, <2>5, <2>8, <3>1 DEF Server!ServerNext, Server!Poison
  <2>9. QED
    BY <2>2, <2>6, <2>7, <2>8
<1>4. CASE \E m \in net : Serve(m)
  BY <1>2, <1>3, <1>4, ServeCases DEF NotBound
<1>5. QED
  BY <1>1, <1>4 DEF Next, vars, Open, Exit, Timeout, Send, Refuse

\* ImplementsServer: to the farm the protocol is a SlotServer.  A server belongs to
\* one session until that session releases it, and a write of unknown outcome
\* poisons it until its process is replaced.
THEOREM ServerTheorem == Spec => ImplementsServer
<1>1. Init => Server!ServerInit
  BY DEF Init, NewRegistry, Server!ServerInit
<1>2. Inductive /\ [Next]_vars => [Server!ServerNext]_(Server!server)
  BY StepImplements
<1>3. QED
  BY <1>1, <1>2, WritesInvariant, PTL DEF Spec, ImplementsServer, Server!ServerSpec

-----------------------------------------------------------------------------
(* Admission of provider requests.                                         *)

\* Induction over the naturals, as a fact about sets.
LEMMA NatSet ==
  ASSUME NEW T, T \subseteq Nat, 0 \in T, \A n \in T : n + 1 \in T
  PROVE  T = Nat
<1> SUFFICES ASSUME Nat \ T # {} PROVE FALSE
  OBVIOUS
<1> DEFINE R == OpToRel(<, Nat)
           U == Nat \ T
<1>1. PICK n \in U : \A m \in U : ~(<<m, n>> \in R)
  <2>1. U # {} /\ U \subseteq Nat /\ IsWellFoundedOn(R, Nat)
    BY NatLessThanWellFounded
  <2> HIDE DEF U, R
  <2> QED
    BY <2>1, WFMin, Zenon
<1>2. n # 0 /\ n \in Nat
  OBVIOUS
<1>3. n - 1 \in Nat /\ n - 1 < n
  BY <1>2
<1>4. n - 1 \notin U
  <2>1. \A m \in Nat : m < n => <<m, n>> \in R
    BY <1>2 DEF OpToRel
  <2> QED
    BY <1>1, <1>3, <2>1
<1> QED
  BY <1>3, <1>4

\* The element a fold over s takes first.
Some(s) == CHOOSE x \in s : TRUE

LEMMA SomeIn == ASSUME NEW s, s # {} PROVE Some(s) \in s
  BY DEF Some

\* g is the recursion by which SumFunctionOnSet is defined.
Sums(f, S, g) ==
  g = [s \in SUBSET S |-> IF s = {} THEN 0 ELSE f[Some(s)] + g[s \ {Some(s)}]]

LEMMA SmallerSet ==
  ASSUME NEW s, IsFiniteSet(s), NEW x \in s
  PROVE  /\ IsFiniteSet(s \ {x}) /\ Cardinality(s \ {x}) = Cardinality(s) - 1
         /\ Cardinality(s) \in Nat \ {0} /\ Cardinality(s \ {x}) \in Nat
<1>1. IsFiniteSet(s \ {x}) /\ Cardinality(s \ {x}) = Cardinality(s) - 1
  BY FS_RemoveElement
<1>2. Cardinality(s) \in Nat /\ Cardinality(s \ {x}) \in Nat
  BY <1>1, FS_CardinalityType
<1>3. Cardinality(s) # 0
  BY FS_EmptySet
<1> QED
  BY <1>1, <1>2, <1>3

\* The recursion of the sum has a solution on the subsets of a finite set.
LEMMA SumsExists ==
  ASSUME NEW f, NEW S, IsFiniteSet(S)
  PROVE  \E g : Sums(f, S, g)
<1> DEFINE Sets(n) == {s \in SUBSET S : Cardinality(s) <= n}
           Rec(n, g) == g = [s \in Sets(n) |->
                               IF s = {} THEN 0 ELSE f[Some(s)] + g[s \ {Some(s)}]]
           T == {n \in Nat : \E g : Rec(n, g)}
<1>0. ASSUME NEW s \in SUBSET S
      PROVE  /\ Cardinality(s) \in Nat /\ IsFiniteSet(s) /\ Cardinality(s) <= Cardinality(S)
             /\ Cardinality(s) = 0 => s = {}
             /\ s # {} => /\ Cardinality(s \ {Some(s)}) = Cardinality(s) - 1
                          /\ s \ {Some(s)} \in SUBSET S
  BY FS_Subset, FS_CardinalityType, FS_EmptySet, SomeIn, SmallerSet
<1>1. 0 \in T
  <2>1. ASSUME NEW s \in Sets(0) PROVE s = {}
    <3>1. s \in SUBSET S /\ Cardinality(s) <= 0
      BY <2>1
    <3>2. Cardinality(s) \in Nat /\ (Cardinality(s) = 0 => s = {})
      BY <1>0, <3>1
    <3> QED
      BY <3>1, <3>2
  <2>2. Rec(0, [s \in Sets(0) |-> 0])
    <3> HIDE DEF Sets
    <3> QED
      BY <2>1
  <2> HIDE DEF Rec
  <2> QED
    BY <2>2
<1>2. ASSUME NEW n \in T PROVE n + 1 \in T
  <2>0. n \in Nat
    OBVIOUS
  <2>1. PICK g : Rec(n, g)
    OBVIOUS
  <2> DEFINE h == [s \in Sets(n + 1) |-> IF s = {} THEN 0 ELSE f[Some(s)] + g[s \ {Some(s)}]]
  <2>2. ASSUME NEW s \in Sets(n + 1), s # {} PROVE h[s \ {Some(s)}] = g[s \ {Some(s)}]
    <3> DEFINE u == s \ {Some(s)}
    <3>1. u \in Sets(n) /\ u \in Sets(n + 1)
      BY <1>0, <2>0, <2>2
    <3>2. g[u] = IF u = {} THEN 0 ELSE f[Some(u)] + g[u \ {Some(u)}]
      <4> HIDE DEF u, Sets
      <4> QED
        BY <2>1, <3>1
    <3>3. h[u] = IF u = {} THEN 0 ELSE f[Some(u)] + g[u \ {Some(u)}]
      <4> HIDE DEF u, Sets
      <4> QED
        BY <3>1
    <3> HIDE DEF u, h
    <3> QED
      BY <3>2, <3>3 DEF u
  <2>3. Rec(n + 1, h)
    <3>1. \A s \in Sets(n + 1) : h[s] = IF s = {} THEN 0 ELSE f[Some(s)] + h[s \ {Some(s)}]
      <4> HIDE DEF Sets
      <4> QED
        BY <2>2
    <3>2. h = [s \in Sets(n + 1) |-> h[s]]
      OBVIOUS
    <3> HIDE DEF h, Sets
    <3> QED
      BY <3>1, <3>2
  <2>4. n + 1 \in Nat
    BY <2>0
  <2> HIDE DEF h, Rec
  <2> QED
    BY <2>3, <2>4
<1>3. T = Nat
  <2>1. T \subseteq Nat
    OBVIOUS
  <2> HIDE DEF T
  <2> QED
    BY <1>1, <1>2, <2>1, NatSet
<1>4. PICK g : Rec(Cardinality(S), g)
  <2>1. Cardinality(S) \in Nat
    BY FS_CardinalityType
  <2>2. Cardinality(S) \in T
    <3> HIDE DEF T
    <3> QED
      BY <1>3, <2>1
  <2> HIDE DEF Rec
  <2> QED
    BY <2>2
<1>5. Sets(Cardinality(S)) = SUBSET S
  BY <1>0
<1> QED
  <2> HIDE DEF Sets
  <2> QED
    BY <1>4, <1>5 DEF Sums

\* Two solutions agree where both are defined.
LEMMA SumsAgree ==
  ASSUME NEW f, NEW e, NEW S, NEW U, NEW g, NEW h, Sums(f, S, g), Sums(e, U, h),
         NEW s, IsFiniteSet(s), s \subseteq S, s \subseteq U, \A x \in s : f[x] = e[x]
  PROVE  g[s] = h[s]
<1> DEFINE T == {n \in Nat : \A u \in SUBSET s : Cardinality(u) = n => g[u] = h[u]}
<1>0. ASSUME NEW u \in SUBSET s
      PROVE  /\ Cardinality(u) \in Nat /\ IsFiniteSet(u)
             /\ g[u] = IF u = {} THEN 0 ELSE f[Some(u)] + g[u \ {Some(u)}]
             /\ h[u] = IF u = {} THEN 0 ELSE e[Some(u)] + h[u \ {Some(u)}]
  <2>1. u \in SUBSET S /\ u \in SUBSET U
    OBVIOUS
  <2>2. Cardinality(u) \in Nat /\ IsFiniteSet(u)
    BY FS_Subset, FS_CardinalityType
  <2> QED
    BY <2>1, <2>2 DEF Sums
<1>1. 0 \in T
  <2>1. \A u \in SUBSET s : Cardinality(u) = 0 => u = {}
    BY <1>0, FS_EmptySet
  <2> QED
    BY <1>0, <2>1
<1>2. ASSUME NEW n \in T PROVE n + 1 \in T
  <2> SUFFICES ASSUME NEW u \in SUBSET s, Cardinality(u) = n + 1 PROVE g[u] = h[u]
    OBVIOUS
  <2>0. n \in Nat /\ IsFiniteSet(u)
    BY <1>0
  <2>1. u # {}
    <3>1. n + 1 # 0 /\ Cardinality({}) = 0
      BY <2>0, FS_EmptySet
    <3> QED
      BY <3>1
  <2>2. Some(u) \in u /\ Cardinality(u \ {Some(u)}) = n /\ u \ {Some(u)} \in SUBSET s
    <3>1. Some(u) \in u
      BY <2>1, SomeIn
    <3>2. Cardinality(u \ {Some(u)}) = Cardinality(u) - 1
      BY <2>0, <3>1, SmallerSet
    <3> QED
      BY <2>0, <3>1, <3>2
  <2>3. g[u \ {Some(u)}] = h[u \ {Some(u)}] /\ f[Some(u)] = e[Some(u)]
    BY <2>2
  <2> QED
    BY <1>0, <2>1, <2>3
<1>3. T = Nat
  <2>1. T \subseteq Nat
    OBVIOUS
  <2> HIDE DEF T
  <2> QED
    BY <1>1, <1>2, <2>1, NatSet
<1>4. Cardinality(s) \in T
  <2> HIDE DEF T
  <2> QED
    BY <1>0, <1>3
<1> QED
  BY <1>4

LEMMA SumIsSums ==
  ASSUME NEW f, NEW S, IsFiniteSet(S)
  PROVE  \E g : Sums(f, S, g) /\ SumFunctionOnSet(f, S) = g[S]
<1> DEFINE g == CHOOSE h : Sums(f, S, h)
<1>1. Sums(f, S, g)
  BY SumsExists
<1>2. SumFunctionOnSet(f, S) = g[S]
  BY DEF SumFunctionOnSet, FoldFunctionOnSet, MapThenFoldSet, Sums, Some
<1> QED
  BY <1>1, <1>2

\* The sum by the element the recursion takes first, and sums of equal functions.
LEMMA SumStep ==
  ASSUME NEW f, NEW S, IsFiniteSet(S)
  PROVE  /\ S = {} => SumFunctionOnSet(f, S) = 0
         /\ S # {} => SumFunctionOnSet(f, S) =
                        f[Some(S)] + SumFunctionOnSet(f, S \ {Some(S)})
<1>1. PICK g : Sums(f, S, g) /\ SumFunctionOnSet(f, S) = g[S]
  BY SumIsSums
<1>2. g[S] = IF S = {} THEN 0 ELSE f[Some(S)] + g[S \ {Some(S)}]
  BY <1>1 DEF Sums
<1>3. S # {} => g[S \ {Some(S)}] = SumFunctionOnSet(f, S \ {Some(S)})
  <2> DEFINE U == S \ {Some(S)}
  <2>1. IsFiniteSet(U) /\ U \subseteq S
    BY FS_Subset
  <2> HIDE DEF U
  <2>2. PICK h : Sums(f, U, h) /\ SumFunctionOnSet(f, U) = h[U]
    BY <2>1, SumIsSums
  <2>3. g[U] = h[U]
    BY <1>1, <2>1, <2>2, SumsAgree
  <2> QED
    BY <2>2, <2>3 DEF U
<1> QED
  BY <1>1, <1>2, <1>3

LEMMA SumCongruent ==
  ASSUME NEW f, NEW e, NEW S, IsFiniteSet(S), \A x \in S : f[x] = e[x]
  PROVE  SumFunctionOnSet(f, S) = SumFunctionOnSet(e, S)
<1>1. PICK g : Sums(f, S, g) /\ SumFunctionOnSet(f, S) = g[S]
  BY SumIsSums
<1>2. PICK h : Sums(e, S, h) /\ SumFunctionOnSet(e, S) = h[S]
  BY SumIsSums
<1> QED
  BY <1>1, <1>2, SumsAgree

LEMMA SumNat ==
  ASSUME NEW f, NEW S, IsFiniteSet(S), \A x \in S : f[x] \in Nat
  PROVE  SumFunctionOnSet(f, S) \in Nat
<1> DEFINE T == {n \in Nat : \A u \in SUBSET S :
                   Cardinality(u) = n => SumFunctionOnSet(f, u) \in Nat}
<1>0. ASSUME NEW u \in SUBSET S PROVE Cardinality(u) \in Nat /\ IsFiniteSet(u)
  BY FS_Subset, FS_CardinalityType
<1>1. 0 \in T
  BY <1>0, FS_EmptySet, SumStep
<1>2. ASSUME NEW n \in T PROVE n + 1 \in T
  <2> SUFFICES ASSUME NEW u \in SUBSET S, Cardinality(u) = n + 1
               PROVE  SumFunctionOnSet(f, u) \in Nat
    OBVIOUS
  <2>1. n \in Nat /\ u # {}
    BY FS_EmptySet
  <2>2. Some(u) \in u /\ Cardinality(u \ {Some(u)}) = n /\ u \ {Some(u)} \in SUBSET S
    BY <1>0, <2>1, SomeIn, SmallerSet
  <2>3. SumFunctionOnSet(f, u \ {Some(u)}) \in Nat /\ f[Some(u)] \in Nat
    BY <2>2
  <2>4. SumFunctionOnSet(f, u) = f[Some(u)] + SumFunctionOnSet(f, u \ {Some(u)})
    BY <1>0, <2>1, SumStep
  <2> QED
    BY <2>3, <2>4
<1>3. T = Nat
  <2>1. T \subseteq Nat
    OBVIOUS
  <2> HIDE DEF T
  <2> QED
    BY <1>1, <1>2, <2>1, NatSet
<1>4. Cardinality(S) \in T
  <2> HIDE DEF T
  <2> QED
    BY <1>0, <1>3
<1> QED
  BY <1>4

\* Any element may be taken out of a sum.
LEMMA SumRemove ==
  ASSUME NEW f, NEW S, IsFiniteSet(S), \A x \in S : f[x] \in Nat, NEW x \in S
  PROVE  SumFunctionOnSet(f, S) = f[x] + SumFunctionOnSet(f, S \ {x})
<1> DEFINE Sum(u) == SumFunctionOnSet(f, u)
           T == {n \in Nat : \A u \in SUBSET S : \A y \in u :
                   Cardinality(u) = n => Sum(u) = f[y] + Sum(u \ {y})}
<1>0. ASSUME NEW u \in SUBSET S
      PROVE  Cardinality(u) \in Nat /\ IsFiniteSet(u) /\ Sum(u) \in Nat
  <2>1. Cardinality(u) \in Nat /\ IsFiniteSet(u)
    BY FS_Subset, FS_CardinalityType
  <2> QED
    BY <2>1, SumNat
<1>1. 0 \in T
  BY <1>0, FS_EmptySet
<1>2. ASSUME NEW n \in T PROVE n + 1 \in T
  <2> SUFFICES ASSUME NEW u \in SUBSET S, NEW y \in u, Cardinality(u) = n + 1
               PROVE  Sum(u) = f[y] + Sum(u \ {y})
    OBVIOUS
  <2> DEFINE z == Some(u)
  <2>1. n \in Nat /\ z \in u
    BY SomeIn
  <2>2. Sum(u) = f[z] + Sum(u \ {z})
    BY <1>0, SumStep
  <2> HIDE DEF z
  <2>3. CASE y = z
    BY <2>2, <2>3
  <2>4. CASE y # z
    <3>1. /\ u \ {z} \in SUBSET S /\ Cardinality(u \ {z}) = n /\ y \in u \ {z}
          /\ u \ {y} \in SUBSET S /\ Cardinality(u \ {y}) = n /\ z \in u \ {y}
      BY <1>0, <2>1, <2>4, SmallerSet
    <3> DEFINE w == (u \ {z}) \ {y}
    <3>2. w = (u \ {y}) \ {z} /\ w \in SUBSET S
      OBVIOUS
    <3>3. Sum(u \ {z}) = f[y] + Sum(w)
      <4> HIDE DEF Sum
      <4> QED
        BY <3>1
    <3>4. Sum(u \ {y}) = f[z] + Sum((u \ {y}) \ {z})
      <4> HIDE DEF Sum
      <4> QED
        BY <3>1
    <3>5. Sum(w) \in Nat /\ f[y] \in Nat /\ f[z] \in Nat
      BY <1>0, <2>1, <3>2
    <3> HIDE DEF w, Sum
    <3> QED
      BY <2>2, <3>2, <3>3, <3>4, <3>5
  <2> QED
    BY <2>3, <2>4
<1>3. T = Nat
  <2>1. T \subseteq Nat
    OBVIOUS
  <2> HIDE DEF T
  <2> QED
    BY <1>1, <1>2, <2>1, NatSet
<1>4. Cardinality(S) \in T
  <2> HIDE DEF T
  <2> QED
    BY <1>0, <1>3
<1> QED
  BY <1>4

LEMMA SumUpTo ==
  ASSUME NEW f, NEW m \in Nat, \A i \in 1 .. m : f[i] \in Nat
  PROVE  /\ IsFiniteSet(1 .. m) /\ SumFunctionOnSet(f, 1 .. m) \in Nat
         /\ f[m + 1] \in Nat =>
              SumFunctionOnSet(f, 1 .. m + 1) = f[m + 1] + SumFunctionOnSet(f, 1 .. m)
<1>1. IsFiniteSet(1 .. m) /\ IsFiniteSet(1 .. m + 1)
  <2>1. 1 \in Int /\ m \in Int /\ m + 1 \in Int
    OBVIOUS
  <2> QED
    BY <2>1, FS_Interval
<1>2. SumFunctionOnSet(f, 1 .. m) \in Nat
  BY <1>1, SumNat
<1>3. ASSUME f[m + 1] \in Nat
      PROVE  SumFunctionOnSet(f, 1 .. m + 1) = f[m + 1] + SumFunctionOnSet(f, 1 .. m)
  <2> DEFINE S == 1 .. m + 1
             x == m + 1
  <2>1. x \in S /\ S \ {x} = 1 .. m
    OBVIOUS
  <2>2. \A i \in S : f[i] \in Nat
    BY <1>3
  <2> HIDE DEF S, x
  <2>3. SumFunctionOnSet(f, S) = f[x] + SumFunctionOnSet(f, S \ {x})
    BY <1>1, <2>1, <2>2, SumRemove DEF S
  <2> QED
    BY <2>1, <2>3 DEF S, x
<1> QED
  BY <1>1, <1>2, <1>3

\* Sequences of numbers: a sample is added at the end and leaves at the front.
LEMMA SumAppend ==
  ASSUME NEW t \in Seq(Nat), NEW m \in Nat
  PROVE  /\ SumFunction(t) \in Nat
         /\ SumFunction(Append(t, m)) = SumFunction(t) + m
<1> DEFINE L == Len(t)
           a == Append(t, m)
<1>1. /\ L \in Nat /\ DOMAIN t = 1 .. L /\ a \in Seq(Nat) /\ DOMAIN a = 1 .. L + 1
      /\ a[L + 1] = m /\ \A i \in 1 .. L : a[i] = t[i] /\ t[i] \in Nat
  OBVIOUS
<1> HIDE DEF a, L
<1>2. IsFiniteSet(1 .. L) /\ SumFunctionOnSet(t, 1 .. L) \in Nat
  BY <1>1, SumUpTo
<1>3. SumFunctionOnSet(a, 1 .. L + 1) = m + SumFunctionOnSet(a, 1 .. L)
  BY <1>1, SumUpTo
<1>4. SumFunctionOnSet(a, 1 .. L) = SumFunctionOnSet(t, 1 .. L)
  BY <1>1, <1>2, SumCongruent
<1>5. SumFunction(a) = SumFunctionOnSet(a, 1 .. L + 1) /\ SumFunction(t) = SumFunctionOnSet(t, 1 .. L)
  BY <1>1 DEF SumFunction
<1>6. SumFunction(a) = SumFunction(t) + m /\ SumFunction(t) \in Nat
  BY <1>2, <1>3, <1>4, <1>5
<1> QED
  BY <1>6 DEF a

LEMMA SumTail ==
  ASSUME NEW t \in Seq(Nat), t # <<>>
  PROVE  /\ SumFunction(Tail(t)) \in Nat
         /\ SumFunction(t) = t[1] + SumFunction(Tail(t)) /\ t[1] \in Nat
<1> DEFINE L == Len(t)
           e == Tail(t)
           Good(m) == SumFunctionOnSet(t, 1 .. m + 1) = t[1] + SumFunctionOnSet(e, 1 .. m)
           T == {m \in Nat : m <= L - 1 => Good(m)}
<1>1. /\ L \in Nat \ {0} /\ DOMAIN t = 1 .. L /\ e \in Seq(Nat) /\ DOMAIN e = 1 .. L - 1
      /\ \A i \in 1 .. L - 1 : e[i] = t[i + 1] /\ e[i] \in Nat
      /\ \A i \in 1 .. L : t[i] \in Nat
  OBVIOUS
<1> HIDE DEF e, L
<1>2. 0 \in T
  <2>1. 1 .. 0 = {} /\ 0 + 1 = 1 /\ t[0 + 1] \in Nat /\ \A i \in 1 .. 0 : t[i] \in Nat
    BY <1>1
  <2>2. SumFunctionOnSet(t, 1 .. 0 + 1) = t[0 + 1] + SumFunctionOnSet(t, 1 .. 0)
    BY <2>1, SumUpTo
  <2>3. SumFunctionOnSet(t, 1 .. 0) = 0 /\ SumFunctionOnSet(e, 1 .. 0) = 0
    BY <2>1, FS_EmptySet, SumStep
  <2> QED
    BY <2>1, <2>2, <2>3
<1>3. ASSUME NEW m \in T PROVE m + 1 \in T
  <2> SUFFICES ASSUME m + 1 <= L - 1 PROVE Good(m + 1)
    OBVIOUS
  <2>1. m \in Nat /\ m + 1 \in Nat /\ m <= L - 1 /\ m + 1 \in 1 .. L - 1 /\ (m + 1) + 1 \in 1 .. L
    BY <1>1
  <2>2. SumFunctionOnSet(t, 1 .. m + 1) = t[1] + SumFunctionOnSet(e, 1 .. m)
    BY <2>1
  <2>3. (\A i \in 1 .. m + 1 : t[i] \in Nat) /\ (\A i \in 1 .. m : e[i] \in Nat)
        /\ t[(m + 1) + 1] \in Nat /\ e[m + 1] = t[(m + 1) + 1] /\ t[1] \in Nat
    <3> HIDE DEF T, Good
    <3>1. L \in Nat /\ m \in Nat /\ m + 1 <= L - 1
      BY <1>1, <2>1
    <3>2. (\A i \in 1 .. m + 1 : i \in 1 .. L) /\ (\A i \in 1 .. m : i \in 1 .. L - 1)
          /\ 1 \in 1 .. L
      BY <3>1
    <3> QED
      BY <1>1, <2>1, <3>2
  <2>4. SumFunctionOnSet(t, 1 .. (m + 1) + 1) = t[(m + 1) + 1] + SumFunctionOnSet(t, 1 .. m + 1)
    BY <2>1, <2>3, SumUpTo
  <2>5. SumFunctionOnSet(e, 1 .. m + 1) = e[m + 1] + SumFunctionOnSet(e, 1 .. m)
        /\ SumFunctionOnSet(e, 1 .. m) \in Nat
    BY <2>1, <2>3, SumUpTo
  <2> QED
    BY <2>2, <2>3, <2>4, <2>5
<1>4. T = Nat
  <2>1. T \subseteq Nat
    OBVIOUS
  <2> HIDE DEF T
  <2> QED
    BY <1>2, <1>3, <2>1, NatSet
<1>5. Good(L - 1)
  <2>1. L - 1 \in Nat /\ L - 1 <= L - 1
    BY <1>1
  <2>2. L - 1 \in T
    <3> HIDE DEF T
    <3> QED
      BY <1>4, <2>1
  <2> HIDE DEF Good
  <2> QED
    BY <2>1, <2>2
<1>6. SumFunctionOnSet(e, 1 .. L - 1) \in Nat
  <2>1. L - 1 \in Nat /\ \A i \in 1 .. L - 1 : e[i] \in Nat
    BY <1>1
  <2> QED
    BY <2>1, SumUpTo
<1>7. (L - 1) + 1 = L /\ t[1] \in Nat
  BY <1>1
<1> QED
  BY <1>1, <1>5, <1>6, <1>7 DEF SumFunction, e

LEMMA Sizes ==
  /\ MinLimit \in Nat /\ InitialLimit \in Nat /\ MaxLimit \in Nat /\ IncreaseStep \in Nat
  /\ Healthy \in Nat /\ TpmLimit \in Nat
  /\ 1 <= MinLimit /\ MinLimit <= InitialLimit /\ InitialLimit <= MaxLimit
  /\ \A c \in Callers : Estimate[c] \in Nat
<1>1. {MinLimit, InitialLimit, MaxLimit, IncreaseStep, Healthy, TpmLimit} \subseteq Nat
  BY SizeAssumption
<1>2. \A c \in Callers : Estimate[c] \in Nat
  BY <1>1, LimitAssumption
<1> QED
  BY <1>1, <1>2, LimitAssumption

\* What tickets, samples, leases and counters are.
Recorded ==
  /\ waiters \in Seq(Callers) /\ starts \in Nat
  /\ tokens \in Seq(Nat) /\ beyond \in Seq(Nat) /\ Len(beyond) = Len(tokens)
  /\ \A i \in 1 .. Len(tokens) : beyond[i] <= tokens[i]
  /\ IsFiniteSet(leases) /\ calls \in [Callers -> Nat] /\ crashes \in Nat

AdmissionInductive == AdmissionInv /\ Recorded

LEMMA Joined ==
  ASSUME NEW S, NEW a \in Seq(S), NEW b \in Seq(S)
  PROVE  /\ a \o b \in Seq(S) /\ Len(a \o b) = Len(a) + Len(b)
         /\ \A i \in 1 .. Len(a) + Len(b) :
              (a \o b)[i] = IF i <= Len(a) THEN a[i] ELSE b[i - Len(a)]
  OBVIOUS

\* A ticket taken out of the queue.
LEMMA RemoveFacts ==
  ASSUME NEW s \in Seq(Callers), IsInjective(s), NEW c
  PROVE  /\ RemoveFirst(s, c) \in Seq(Callers) /\ IsInjective(RemoveFirst(s, c))
         /\ ToSet(RemoveFirst(s, c)) \subseteq ToSet(s) \ {c}
<1>1. CASE ~\E i \in 1 .. Len(s) : s[i] = c
  <2>1. RemoveFirst(s, c) = s
    BY <1>1 DEF RemoveFirst
  <2>2. c \notin ToSet(s)
    BY <1>1 DEF ToSet
  <2> QED
    BY <2>1, <2>2
<1>2. CASE \E i \in 1 .. Len(s) : s[i] = c
  <2>1. PICK k \in 1 .. Len(s) : s[k] = c
    BY <1>2
  <2>2. {i \in 1 .. Len(s) : s[i] = c} = {k}
    BY <2>1 DEF IsInjective
  <2>3. Min({k}) = k
    BY <2>1 DEF Min
  <2>4. SelectInSeq(s, LAMBDA v : v = c) = k
    BY <2>2, <2>3 DEF SelectInSeq
  <2>5. RemoveFirst(s, c) = SubSeq(s, 1, k - 1) \o SubSeq(s, k + 1, Len(s))
    BY <1>2, <2>4 DEF RemoveFirst, RemoveAt
  <2> DEFINE l == SubSeq(s, 1, k - 1)
             r == SubSeq(s, k + 1, Len(s))
             q == l \o r
  <2>6. Len(s) \in Nat /\ k \in Nat /\ k >= 1 /\ k <= Len(s)
    BY <2>1
  <2>7. l \in Seq(Callers) /\ Len(l) = k - 1 /\ \A i \in 1 .. k - 1 : l[i] = s[i]
    BY <2>6
  <2>8. /\ r \in Seq(Callers) /\ Len(r) = Len(s) - k
        /\ \A i \in 1 .. Len(s) - k : r[i] = s[k + i]
    BY <2>6
  <2> HIDE DEF l, r, q
  <2>9. /\ q \in Seq(Callers) /\ Len(q) = Len(l) + Len(r)
        /\ \A i \in 1 .. Len(l) + Len(r) : q[i] = IF i <= Len(l) THEN l[i] ELSE r[i - Len(l)]
    BY <2>7, <2>8, Joined DEF q
  <2>10. Len(q) = Len(s) - 1 /\ DOMAIN q = 1 .. Len(s) - 1 /\ DOMAIN s = 1 .. Len(s)
    BY <2>6, <2>7, <2>8, <2>9
  <2>11. ASSUME NEW i \in 1 .. Len(s) - 1
         PROVE  \/ i < k /\ q[i] = s[i]
                \/ i >= k /\ q[i] = s[i + 1]
    <3>1. CASE i < k
      <4>1. i <= k - 1 /\ i \in 1 .. k - 1 /\ i \in 1 .. Len(l) + Len(r)
        BY <2>6, <2>7, <2>8, <3>1
      <4>2. q[i] = l[i]
        BY <2>7, <2>9, <4>1
      <4> QED
        BY <2>7, <3>1, <4>1, <4>2
    <3>2. CASE i >= k
      <4>1. i - (k - 1) \in 1 .. Len(s) - k /\ k + (i - (k - 1)) = i + 1 /\ ~(i <= k - 1)
            /\ i \in 1 .. Len(l) + Len(r)
        BY <2>6, <2>7, <2>8, <3>2
      <4>2. q[i] = r[i - (k - 1)]
        BY <2>7, <2>9, <4>1
      <4> QED
        BY <2>8, <3>2, <4>1, <4>2
    <3> QED
      BY <2>6, <3>1, <3>2
  <2>12. \A i, j \in 1 .. Len(s) : s[i] = s[j] => i = j
    BY <2>10 DEF IsInjective
  <2>13. IsInjective(q)
    <3> SUFFICES ASSUME NEW i \in 1 .. Len(s) - 1, NEW j \in 1 .. Len(s) - 1, q[i] = q[j]
                 PROVE  i = j
      BY <2>10 DEF IsInjective
    <3>1. {i, i + 1, j, j + 1} \subseteq 1 .. Len(s)
      BY <2>6
    <3> QED
      BY <2>6, <2>11, <2>12, <3>1
  <2>14. ASSUME NEW i \in 1 .. Len(s) - 1 PROVE q[i] \in ToSet(s) /\ q[i] # c
    <3>1. {i, i + 1, k} \subseteq 1 .. Len(s)
      BY <2>6
    <3>2. q[i] # c
      BY <2>1, <2>6, <2>11, <2>12, <3>1
    <3>3. s[i] \in ToSet(s) /\ s[i + 1] \in ToSet(s)
      BY <2>10, <3>1 DEF ToSet
    <3> QED
      BY <2>11, <3>2, <3>3
  <2>15. ToSet(q) \subseteq ToSet(s) \ {c}
    BY <2>10, <2>14 DEF ToSet
  <2> QED
    BY <2>5, <2>9, <2>13, <2>15 DEF q, l, r
<1> QED
  BY <1>1, <1>2

LEMMA AppendFacts ==
  ASSUME NEW s \in Seq(Callers), IsInjective(s), NEW c \in Callers, c \notin ToSet(s)
  PROVE  /\ Append(s, c) \in Seq(Callers) /\ IsInjective(Append(s, c))
         /\ ToSet(Append(s, c)) = ToSet(s) \cup {c}
<1>1. /\ Len(Append(s, c)) = Len(s) + 1 /\ Append(s, c)[Len(s) + 1] = c
      /\ \A i \in 1 .. Len(s) : Append(s, c)[i] = s[i]
      /\ DOMAIN Append(s, c) = 1 .. Len(s) + 1 /\ DOMAIN s = 1 .. Len(s)
      /\ Len(s) \in Nat /\ Append(s, c) \in Seq(Callers)
  OBVIOUS
<1>2. ToSet(Append(s, c)) = ToSet(s) \cup {c}
  BY <1>1 DEF ToSet
<1>3. IsInjective(Append(s, c))
  BY <1>1 DEF ToSet, IsInjective
<1> QED
  BY <1>1, <1>2, <1>3

LEMMA TailFacts ==
  ASSUME NEW s \in Seq(Callers), s # <<>>, IsInjective(s)
  PROVE  /\ Tail(s) \in Seq(Callers) /\ IsInjective(Tail(s)) /\ Head(s) \in ToSet(s)
         /\ ToSet(Tail(s)) \subseteq ToSet(s) \ {Head(s)}
<1>1. /\ Len(s) \in Nat \ {0} /\ Head(s) = s[1]
      /\ \A i \in 1 .. Len(s) - 1 : Tail(s)[i] = s[i + 1]
      /\ DOMAIN s = 1 .. Len(s) /\ DOMAIN Tail(s) = 1 .. Len(s) - 1
      /\ Tail(s) \in Seq(Callers)
  OBVIOUS
<1>2. Head(s) \in ToSet(s) /\ ToSet(Tail(s)) \subseteq ToSet(s) \ {Head(s)}
  BY <1>1 DEF ToSet, IsInjective
<1>3. IsInjective(Tail(s))
  BY <1>1 DEF IsInjective
<1> QED
  BY <1>1, <1>2, <1>3

\* What the running requests have reserved.
LEMMA ReservedFacts ==
  ASSUME NEW S \in SUBSET Callers, IsFiniteSet(S)
  PROVE  /\ SumFunctionOnSet(Estimate, S) \in Nat
         /\ \A c \in S : SumFunctionOnSet(Estimate, S)
                            = Estimate[c] + SumFunctionOnSet(Estimate, S \ {c})
         /\ \A c \in Callers \ S : SumFunctionOnSet(Estimate, S \cup {c})
                                      = Estimate[c] + SumFunctionOnSet(Estimate, S)
<1>1. \A c \in Callers : Estimate[c] \in Nat
  BY Sizes
<1>2. SumFunctionOnSet(Estimate, S) \in Nat
  BY <1>1, SumNat
<1>3. ASSUME NEW c \in S
      PROVE  SumFunctionOnSet(Estimate, S) = Estimate[c] + SumFunctionOnSet(Estimate, S \ {c})
  <2>1. \A x \in S : Estimate[x] \in Nat
    BY <1>1
  <2> QED
    BY <2>1, SumRemove
<1>4. ASSUME NEW c \in Callers \ S
      PROVE  SumFunctionOnSet(Estimate, S \cup {c}) = Estimate[c] + SumFunctionOnSet(Estimate, S)
  <2> DEFINE U == S \cup {c}
  <2>1. IsFiniteSet(U) /\ c \in U /\ U \ {c} = S
    BY FS_AddElement
  <2>2. \A x \in U : Estimate[x] \in Nat
    BY <1>1
  <2> HIDE DEF U
  <2>3. SumFunctionOnSet(Estimate, U) = Estimate[c] + SumFunctionOnSet(Estimate, U \ {c})
    BY <2>1, <2>2, SumRemove
  <2> QED
    BY <2>1, <2>3 DEF U
<1> QED
  BY <1>2, <1>3, <1>4

LEMMA AdmissionInitInductive == AdmissionInit => AdmissionInductive
<1> SUFFICES ASSUME AdmissionInit PROVE AdmissionInductive
  OBVIOUS
<1>1. SumFunctionOnSet(Estimate, {}) = 0
  BY FS_EmptySet, SumStep
<1>2. SumFunction(<<>>) = 0
  <2>1. DOMAIN <<>> = {}
    OBVIOUS
  <2> QED
    BY <2>1, FS_EmptySet, SumStep DEF SumFunction
<1>3. AdmissionTypeOK
  <2>1. IsInjective(<<>>) /\ ToSet(<<>>) = {}
    BY DEF IsInjective, ToSet
  <2>2. IsInjective(waiters) /\ ToSet(waiters) = {}
    BY <2>1 DEF AdmissionInit
  <2>3. limit \in MinLimit .. MaxLimit /\ healthy \in 0 .. Healthy
    BY Sizes DEF AdmissionInit
  <2>4. cooling \in BOOLEAN
    BY DEF AdmissionInit
  <2> QED
    BY <2>2, <2>3, <2>4 DEF AdmissionInit, AdmissionTypeOK
<1>4. BudgetKept
  BY <1>1, <1>2, Sizes DEF AdmissionInit, BudgetKept, Rolling, Reserved, Excess
<1>5. Recorded
  BY FS_EmptySet DEF AdmissionInit, Recorded
<1> QED
  BY <1>3, <1>4, <1>5 DEF AdmissionInductive, AdmissionInv

\* What the steps use of the invariant.
LEMMA Facts ==
  ASSUME AdmissionInductive
  PROVE  /\ Rolling \in Nat /\ Reserved \in Nat /\ Excess \in Nat
         /\ Rolling + Reserved <= TpmLimit + Excess
         /\ leases \in SUBSET Callers /\ IsFiniteSet(leases)
<1>1. leases \in SUBSET Callers /\ IsFiniteSet(leases) /\ tokens \in Seq(Nat) /\ beyond \in Seq(Nat)
  BY DEF AdmissionInductive, AdmissionInv, AdmissionTypeOK, Recorded
<1>2. Reserved \in Nat
  BY <1>1, ReservedFacts DEF Reserved
<1>3. Rolling \in Nat /\ Excess \in Nat
  <2>1. SumFunction(tokens) \in Nat /\ SumFunction(beyond) \in Nat
    BY <1>1, SumAppend
  <2> QED
    BY <2>1 DEF Rolling, Excess
<1> QED
  BY <1>1, <1>2, <1>3 DEF AdmissionInductive, AdmissionInv, BudgetKept

\* A lease that ends gives back what its request had reserved.
LEMMA LeaseGone ==
  ASSUME AdmissionInductive, NEW c \in leases, leases' = leases \ {c}
  PROVE  /\ Reserved' \in Nat /\ Reserved = Estimate[c] + Reserved'
         /\ Estimate[c] \in Nat /\ IsFiniteSet(leases')
<1>1. leases \in SUBSET Callers /\ IsFiniteSet(leases) /\ c \in Callers
  BY Facts
<1>2. IsFiniteSet(leases') /\ leases' \in SUBSET Callers
  BY <1>1, FS_Subset
<1>3. SumFunctionOnSet(Estimate, leases) = Estimate[c] + SumFunctionOnSet(Estimate, leases \ {c})
  BY <1>1, ReservedFacts
<1>4. SumFunctionOnSet(Estimate, leases') \in Nat
  BY <1>2, ReservedFacts
<1> QED
  BY <1>1, <1>2, <1>3, <1>4, Sizes DEF Reserved

\* The budget is a matter of the samples and the leases alone.
LEMMA BudgetSame ==
  ASSUME AdmissionInductive, samples' = samples, leases' = leases
  PROVE  BudgetKept'
  BY DEF AdmissionInductive, AdmissionInv, BudgetKept, Rolling, Reserved, Excess, samples

LEMMA BudgetFreed ==
  ASSUME AdmissionInductive, NEW c \in leases, leases' = leases \ {c}, samples' = samples
  PROVE  BudgetKept'
<1>1. Rolling' = Rolling /\ Excess' = Excess
  BY DEF Rolling, Excess, samples
<1> QED
  BY <1>1, Facts, LeaseGone, Sizes DEF BudgetKept

LEMMA AskStep == ASSUME AdmissionInductive, NEW c \in Callers, Ask(c) PROVE AdmissionInductive'
<1>1. c \notin ToSet(waiters) /\ waiters \in Seq(Callers) /\ IsInjective(waiters)
  BY DEF Ask, AdmissionInductive, AdmissionInv, AdmissionTypeOK, Recorded
<1>2. /\ waiters' \in Seq(Callers) /\ IsInjective(waiters')
      /\ ToSet(waiters') = ToSet(waiters) \cup {c}
  BY <1>1, AppendFacts DEF Ask
<1>3. AdmissionTypeOK'
  BY <1>2 DEF Ask, Goto, route, AdmissionInductive, AdmissionInv, AdmissionTypeOK
<1>4. BudgetKept'
  BY BudgetSame DEF Ask, route
<1>5. Recorded'
  BY <1>2 DEF Ask, route, samples, AdmissionInductive, Recorded
<1> QED
  BY <1>3, <1>4, <1>5 DEF AdmissionInductive, AdmissionInv

LEMMA AdmitStep == ASSUME AdmissionInductive, NEW c \in Callers, Admit(c) PROVE AdmissionInductive'
<1>1. waiters \in Seq(Callers) /\ IsInjective(waiters) /\ waiters # <<>> /\ Head(waiters) = c
  BY DEF Admit, AdmissionInductive, AdmissionInv, AdmissionTypeOK, Recorded
<1>2. /\ waiters' \in Seq(Callers) /\ IsInjective(waiters')
      /\ ToSet(waiters') \subseteq ToSet(waiters) \ {c}
  BY <1>1, TailFacts DEF Admit
<1>3. c \in Callers \ leases
  BY DEF Admit, AdmissionInductive, AdmissionInv, AdmissionTypeOK
<1>4. AdmissionTypeOK'
  BY <1>2 DEF Admit, Goto, AdmissionInductive, AdmissionInv, AdmissionTypeOK
<1>5. BudgetKept'
  <2>1. SumFunctionOnSet(Estimate, leases \cup {c})
          = Estimate[c] + SumFunctionOnSet(Estimate, leases)
    BY <1>3, Facts, ReservedFacts
  <2>2. Reserved' = Estimate[c] + Reserved /\ Rolling' = Rolling /\ Excess' = Excess
    BY <2>1 DEF Admit, Reserved, Rolling, Excess, samples
  <2>3. Rolling + Reserved + Estimate[c] <= TpmLimit
    BY DEF Admit, WithinBudget
  <2> QED
    BY <2>2, <2>3, Facts, Sizes DEF BudgetKept
<1>6. Recorded'
  <2>1. IsFiniteSet(leases')
    BY Facts, FS_AddElement DEF Admit
  <2> QED
    BY <1>2, <2>1 DEF Admit, samples, AdmissionInductive, Recorded
<1> QED
  BY <1>4, <1>5, <1>6 DEF AdmissionInductive, AdmissionInv

\* A ticket that leaves unserved, by its caller or by its age.
LEMMA TicketGone ==
  ASSUME AdmissionInductive, NEW c \in Callers, waiters' = RemoveFirst(waiters, c)
  PROVE  /\ waiters' \in Seq(Callers) /\ IsInjective(waiters')
         /\ ToSet(waiters') \subseteq ToSet(waiters) \ {c}
<1>1. waiters \in Seq(Callers) /\ IsInjective(waiters)
  BY DEF AdmissionInductive, AdmissionInv, AdmissionTypeOK, Recorded
<1> QED
  BY <1>1, RemoveFacts

LEMMA GiveUpStep == ASSUME AdmissionInductive, NEW c \in Callers, GiveUp(c) PROVE AdmissionInductive'
<1>1. /\ waiters' \in Seq(Callers) /\ IsInjective(waiters')
      /\ ToSet(waiters') \subseteq ToSet(waiters) \ {c}
  BY TicketGone DEF GiveUp
<1>2. AdmissionTypeOK'
  BY <1>1 DEF GiveUp, Goto, route, AdmissionInductive, AdmissionInv, AdmissionTypeOK
<1>3. BudgetKept'
  BY BudgetSame DEF GiveUp, route
<1>4. Recorded'
  BY <1>1 DEF GiveUp, route, samples, AdmissionInductive, Recorded
<1> QED
  BY <1>2, <1>3, <1>4 DEF AdmissionInductive, AdmissionInv

LEMMA TicketLapseStep == ASSUME AdmissionInductive, NEW c \in Callers, TicketLapse(c) PROVE AdmissionInductive'
<1>1. /\ waiters' \in Seq(Callers) /\ IsInjective(waiters')
      /\ ToSet(waiters') \subseteq ToSet(waiters) \ {c}
  BY TicketGone DEF TicketLapse
<1>2. AdmissionTypeOK'
  BY <1>1 DEF TicketLapse, route, AdmissionInductive, AdmissionInv, AdmissionTypeOK
<1>3. BudgetKept'
  BY BudgetSame DEF TicketLapse, route
<1>4. Recorded'
  BY <1>1 DEF TicketLapse, route, samples, AdmissionInductive, Recorded
<1> QED
  BY <1>2, <1>3, <1>4 DEF AdmissionInductive, AdmissionInv

\* What a sample costs within its reservation was given back by the lease.
LEMMA EndStep ==
  ASSUME AdmissionInductive, NEW c \in leases, pc[c] = "holding", End(c)
  PROVE  BudgetKept' /\ Recorded'
<1>1. /\ tokens \in Seq(Nat) /\ beyond \in Seq(Nat) /\ Len(beyond) = Len(tokens)
      /\ \A i \in 1 .. Len(tokens) : beyond[i] <= tokens[i]
      /\ c \in Callers /\ leases' = leases \ {c}
  BY Facts DEF AdmissionInductive, Recorded, End
<1>2. /\ Reserved' \in Nat /\ Reserved = Estimate[c] + Reserved'
      /\ Estimate[c] \in Nat /\ IsFiniteSet(leases')
  BY <1>1, LeaseGone
<1>3. PICK n \in Samples : /\ tokens' = Append(tokens, n)
                           /\ beyond' = Append(beyond, IF n > Estimate[c] THEN n - Estimate[c] ELSE 0)
  BY DEF End
<1>4. PICK m \in Nat : m = IF n > Estimate[c] THEN n - Estimate[c] ELSE 0
  BY <1>2, <1>3, LimitAssumption
<1>5. n \in Nat /\ m <= n /\ n <= Estimate[c] + m
  BY <1>2, <1>3, <1>4, LimitAssumption
<1>6. beyond' = Append(beyond, m)
  BY <1>3, <1>4
<1>7. Rolling' = Rolling + n /\ Excess' = Excess + m
  BY <1>1, <1>3, <1>4, <1>5, <1>6, SumAppend DEF Rolling, Excess
<1>8. BudgetKept'
  <2>1. Rolling \in Nat /\ Excess \in Nat /\ Rolling + Reserved <= TpmLimit + Excess /\ TpmLimit \in Nat
    BY Facts, Sizes
  <2>2. Rolling' + Reserved' <= TpmLimit + Excess'
    BY <1>2, <1>4, <1>5, <1>7, <2>1
  <2> QED
    BY <2>2 DEF BudgetKept
<1>9. /\ tokens' \in Seq(Nat) /\ beyond' \in Seq(Nat) /\ Len(beyond') = Len(tokens')
      /\ \A i \in 1 .. Len(tokens') : beyond'[i] <= tokens'[i]
  BY <1>1, <1>3, <1>4, <1>5, <1>6
<1>10. Recorded'
  BY <1>2, <1>9 DEF End, AdmissionInductive, Recorded
<1> QED
  BY <1>8, <1>10

LEMMA EndType ==
  ASSUME AdmissionInductive, NEW c \in leases, pc[c] = "holding", End(c), limit' \in MinLimit .. MaxLimit,
         healthy' \in 0 .. Healthy, cooling' \in BOOLEAN
  PROVE  AdmissionTypeOK'
<1>1. c \in Callers /\ pc \in [Callers -> {"idle", "waiting", "holding", "dead"}]
      /\ leases \subseteq {d \in Callers : pc[d] \in {"holding", "dead"}}
      /\ ToSet(waiters) \subseteq {d \in Callers : pc[d] \in {"waiting", "dead"}}
      /\ IsInjective(waiters)
  BY DEF AdmissionInductive, AdmissionInv, AdmissionTypeOK
<1>2. leases' = leases \ {c} /\ waiters' = waiters /\ pc' = [pc EXCEPT ![c] = "idle"]
  BY DEF End, Goto
<1>3. c \notin ToSet(waiters)
  BY <1>1
<1> QED
  BY <1>1, <1>2, <1>3 DEF AdmissionTypeOK

LEMMA FailStep == ASSUME AdmissionInductive, NEW c \in Callers, Fail(c) PROVE AdmissionInductive'
<1>1. limit \in MinLimit .. MaxLimit
  BY DEF AdmissionInductive, AdmissionInv, AdmissionTypeOK
<1>2. Decreased(limit) \in MinLimit .. MaxLimit /\ 0 \in 0 .. Healthy
  BY <1>1, Sizes DEF Decreased
<1>3. AdmissionTypeOK'
  BY <1>2, EndType DEF Fail
<1>4. BudgetKept' /\ Recorded'
  BY EndStep DEF Fail
<1> QED
  BY <1>3, <1>4 DEF AdmissionInductive, AdmissionInv

LEMMA SucceedStep == ASSUME AdmissionInductive, NEW c \in Callers, Succeed(c) PROVE AdmissionInductive'
<1>1. limit \in MinLimit .. MaxLimit /\ healthy \in 0 .. Healthy /\ cooling \in BOOLEAN
  BY DEF AdmissionInductive, AdmissionInv, AdmissionTypeOK
<1>2. limit' \in MinLimit .. MaxLimit /\ healthy' \in 0 .. Healthy
  BY <1>1, Sizes DEF Succeed
<1>3. AdmissionTypeOK'
  BY <1>1, <1>2, EndType DEF Succeed
<1>4. BudgetKept' /\ Recorded'
  BY EndStep DEF Succeed
<1> QED
  BY <1>3, <1>4 DEF AdmissionInductive, AdmissionInv

LEMMA ReleaseStep == ASSUME AdmissionInductive, NEW c \in Callers, Release(c) PROVE AdmissionInductive'
<1>1. BudgetKept'
  BY BudgetFreed DEF Release, route
<1>2. AdmissionTypeOK'
  BY DEF Release, Goto, route, AdmissionInductive, AdmissionInv, AdmissionTypeOK
<1>3. Recorded'
  BY LeaseGone DEF Release, route, samples, AdmissionInductive, Recorded
<1> QED
  BY <1>1, <1>2, <1>3 DEF AdmissionInductive, AdmissionInv

LEMMA LeaseLapseStep == ASSUME AdmissionInductive, NEW c \in Callers, LeaseLapse(c) PROVE AdmissionInductive'
<1>1. BudgetKept'
  BY BudgetFreed DEF LeaseLapse, route
<1>2. AdmissionTypeOK'
  BY DEF LeaseLapse, route, AdmissionInductive, AdmissionInv, AdmissionTypeOK
<1>3. Recorded'
  BY LeaseGone DEF LeaseLapse, route, samples, AdmissionInductive, Recorded
<1> QED
  BY <1>1, <1>2, <1>3 DEF AdmissionInductive, AdmissionInv

LEMMA LateEndStep == ASSUME AdmissionInductive, NEW c \in Callers, LateEnd(c) PROVE AdmissionInductive'
<1>1. BudgetKept'
  BY BudgetSame DEF LateEnd, Unreported, route
<1>2. AdmissionTypeOK'
  BY DEF LateEnd, Unreported, Goto, route, AdmissionInductive, AdmissionInv, AdmissionTypeOK
<1>3. Recorded'
  BY DEF LateEnd, Unreported, route, samples, AdmissionInductive, Recorded
<1> QED
  BY <1>1, <1>2, <1>3 DEF AdmissionInductive, AdmissionInv

LEMMA CrashStep == ASSUME AdmissionInductive, NEW c \in Callers, Crash(c) PROVE AdmissionInductive'
<1>1. BudgetKept'
  BY BudgetSame DEF Crash, route
<1>2. AdmissionTypeOK'
  BY DEF Crash, Goto, route, AdmissionInductive, AdmissionInv, AdmissionTypeOK
<1>3. Recorded'
  BY DEF Crash, route, samples, AdmissionInductive, Recorded
<1> QED
  BY <1>1, <1>2, <1>3 DEF AdmissionInductive, AdmissionInv

LEMMA CooldownStep == ASSUME AdmissionInductive, CooldownOver PROVE AdmissionInductive'
<1>1. BudgetKept'
  BY BudgetSame DEF CooldownOver
<1> QED
  BY <1>1 DEF CooldownOver, samples, AdmissionInductive, AdmissionInv, AdmissionTypeOK, Recorded

\* A sample that leaves takes no less than its excess with it.
LEMMA Less ==
  ASSUME NEW r \in Nat, NEW e \in Nat, NEW m \in Nat, NEW k \in Nat, NEW v \in Nat, NEW t \in Nat,
         k <= m, m + r + v <= t + (k + e)
  PROVE  r + v <= t + e
  OBVIOUS

LEMMA WindowStep == ASSUME AdmissionInductive, WindowMoves PROVE AdmissionInductive'
<1>1. AdmissionTypeOK'
  BY DEF WindowMoves, AdmissionInductive, AdmissionInv, AdmissionTypeOK
<1>2. CASE starts > 0 /\ starts' = starts - 1 /\ UNCHANGED samples
  <2>1. BudgetKept'
    BY <1>2, BudgetSame DEF WindowMoves
  <2>2. Recorded'
    BY <1>2 DEF WindowMoves, samples, AdmissionInductive, Recorded
  <2> QED
    BY <1>1, <2>1, <2>2 DEF AdmissionInductive, AdmissionInv
<1>3. CASE tokens # <<>> /\ tokens' = Tail(tokens) /\ beyond' = Tail(beyond) /\ UNCHANGED starts
  <2>1. /\ tokens \in Seq(Nat) /\ beyond \in Seq(Nat) /\ Len(beyond) = Len(tokens)
        /\ \A i \in 1 .. Len(tokens) : beyond[i] <= tokens[i]
    BY DEF AdmissionInductive, Recorded
  <2>2. beyond # <<>> /\ beyond[1] <= tokens[1]
    BY <1>3, <2>1
  <2>3. /\ SumFunction(Tail(tokens)) \in Nat
        /\ SumFunction(tokens) = tokens[1] + SumFunction(Tail(tokens)) /\ tokens[1] \in Nat
    BY <1>3, <2>1, SumTail
  <2>4. /\ SumFunction(Tail(beyond)) \in Nat
        /\ SumFunction(beyond) = beyond[1] + SumFunction(Tail(beyond)) /\ beyond[1] \in Nat
    BY <2>1, <2>2, SumTail
  <2>5. /\ Rolling' \in Nat /\ Rolling = tokens[1] + Rolling' /\ Excess' \in Nat
        /\ Excess = beyond[1] + Excess' /\ Reserved' = Reserved
    BY <1>3, <2>3, <2>4 DEF WindowMoves, Rolling, Reserved, Excess
  <2>6. Rolling' + Reserved' <= TpmLimit + Excess'
    <3>1. PICK m \in Nat, k \in Nat : m = tokens[1] /\ k = beyond[1]
      BY <2>3, <2>4
    <3>2. k <= m /\ Rolling = m + Rolling' /\ Excess = k + Excess' /\ Reserved' = Reserved
      BY <2>2, <2>5, <3>1
    <3>3. Rolling + Reserved <= TpmLimit + Excess /\ Reserved \in Nat /\ TpmLimit \in Nat
      BY Facts, Sizes
    <3>4. Rolling' \in Nat /\ Excess' \in Nat
      BY <2>5
    <3> QED
      BY <3>1, <3>2, <3>3, <3>4, Less
  <2>7. BudgetKept'
    BY <2>6 DEF BudgetKept
  <2>8. /\ tokens' \in Seq(Nat) /\ beyond' \in Seq(Nat) /\ Len(beyond') = Len(tokens')
        /\ \A i \in 1 .. Len(tokens') : beyond'[i] <= tokens'[i]
    <3>1. /\ tokens' \in Seq(Nat) /\ Len(tokens') = Len(tokens) - 1
          /\ \A i \in 1 .. Len(tokens) - 1 : tokens'[i] = tokens[i + 1]
      BY <1>3, <2>1
    <3>2. /\ beyond' \in Seq(Nat) /\ Len(beyond') = Len(beyond) - 1
          /\ \A i \in 1 .. Len(beyond) - 1 : beyond'[i] = beyond[i + 1]
      BY <1>3, <2>1, <2>2
    <3>3. \A i \in 1 .. Len(tokens) - 1 : i + 1 \in 1 .. Len(tokens)
      BY <2>1
    <3> QED
      BY <2>1, <3>1, <3>2, <3>3
  <2>9. Recorded'
    BY <1>3, <2>8 DEF WindowMoves, AdmissionInductive, Recorded
  <2> QED
    BY <1>1, <2>7, <2>9 DEF AdmissionInductive, AdmissionInv
<1> QED
  BY <1>2, <1>3 DEF WindowMoves

LEMMA AdmissionStepInductive == ASSUME AdmissionInductive, [AdmissionNext]_admissionVars PROVE AdmissionInductive'
<1>1. ASSUME NEW c \in Callers,
             \/ Ask(c) \/ Admit(c) \/ GiveUp(c)
             \/ Fail(c) \/ Succeed(c) \/ Release(c) \/ LateEnd(c)
             \/ TicketLapse(c) \/ LeaseLapse(c) \/ Crash(c)
      PROVE  AdmissionInductive'
  BY <1>1, AskStep, AdmitStep, GiveUpStep, FailStep, SucceedStep, ReleaseStep, LateEndStep,
     TicketLapseStep, LeaseLapseStep, CrashStep
<1>2. ASSUME UNCHANGED admissionVars PROVE AdmissionInductive'
  <2>1. BudgetKept'
    BY <1>2, BudgetSame DEF admissionVars, route
  <2> QED
    BY <1>2, <2>1 DEF admissionVars, route, samples, AdmissionInductive, AdmissionInv, AdmissionTypeOK, Recorded
<1> QED
  BY <1>1, <1>2, CooldownStep, WindowStep DEF AdmissionNext

\* Tickets, leases, limit and budget fit together after every operation and prune of the
\* state file (acquire, complete, release, _prune).
THEOREM AdmissionInvariant == AdmissionSpec => []AdmissionInductive
  BY AdmissionInitInductive, AdmissionStepInductive, PTL DEF AdmissionSpec

\* A caller has at most one ticket or lease, the limit stays between its bounds under
\* any mix of increases and decreases, and samples and reservations together go beyond
\* the token budget by no more than the samples go beyond their own estimates, for any
\* estimates, any budget and any number of tokens reported to complete.
THEOREM AdmissionTheorem == AdmissionSpec => []AdmissionInv
<1>1. AdmissionInductive => AdmissionInv
  BY DEF AdmissionInductive
<1> QED
  BY <1>1, AdmissionInvariant, PTL
=============================================================================
