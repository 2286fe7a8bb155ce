----------------------- MODULE OperationPlane_proofs -----------------------
(***************************************************************************)
(* Every state of OperationPlane!Spec satisfies Inductive, for any set of  *)
(* operations, any size of the command queue and any max_steps.  From it   *)
(* follow WorkerInv, AtMostOnce, HonestRegistry and NeverBack.             *)
(***************************************************************************)
EXTENDS OperationPlane, TLAPS

Elems(q) == {q[i] : i \in DOMAIN q}
OpsIn(q) == {q[i].op : i \in DOMAIN q}
Distinct(q) == \A i, j \in DOMAIN q : q[i] = q[j] => i = j
Once(q) == \A i, j \in DOMAIN q : q[i].op = q[j].op => i = j
Rising(q) == \A i, j \in DOMAIN q : i < j => q[i].episode <= q[j].episode

\* A call that waits for the lock is ACCEPTED or was cancelled.  A RUNNING operation
\* is a command, is run or is a result, in one place and once.
Placed ==
  /\ Distinct(waiters) /\ Once(commands) /\ Once(results)
  /\ \A o \in Elems(waiters) : reg[o] \in {"ACCEPTED", "CANCELLED"}
  /\ \A o \in OpsIn(commands) : reg[o] = "RUNNING" /\ o \notin OpsIn(results)
  /\ \A o \in OpsIn(results) : reg[o] = "RUNNING"
  /\ run # None => /\ reg[run.op] = "RUNNING"
                   /\ run.op \notin OpsIn(commands) /\ run.op \notin OpsIn(results)

Limit(o) == IF KindOf[o] = "episode" THEN MaxSteps ELSE 1

\* What has not been received has touched nothing.
Untouched ==
  /\ \A o \in Ops : reg[o] \in {"none", "ACCEPTED"} => steps[o] = 0 /\ o \notin accepted
  /\ \A o \in OpsIn(commands) : steps[o] = 0 /\ o \notin accepted

\* What is run may step once more; without its effect flag it has not stepped.  Once
\* it is accepted as cancelled it will not.
Active ==
  run # None =>
    /\ steps[run.op] < Limit(run.op)
    /\ ~wEffect => steps[run.op] = 0
    /\ stage = "env_step" /\ Kind # "reset" => wEffect
    /\ stage = "queued" => ~wEffect
    /\ Kind = "reset" => stage = "env_step"
    /\ run.op \in accepted => wCancel /\ ~wEffect /\ stage \in {"queued", "inference"}

\* What is told of an operation is true of it, but for the resets that fail.
Honest ==
  /\ \A r \in Elems(results) : ~r.effect => steps[r.op] = 0 \/ ResetFailed(r.op, r.state)
  /\ \A o \in Ops : reg[o] \in Terminal /\ ~regEffect[o]
                     => steps[o] = 0 \/ ResetFailed(o, reg[o])
  /\ \A o \in accepted : steps[o] = 0
  /\ \A o \in Ops : steps[o] <= Limit(o)

\* The gateway is never ahead of the worker, and results tell the episodes in their
\* order.  Only a reset is issued before the first episode.
Episodes ==
  /\ gwEpisode <= wEpisode /\ Rising(results)
  /\ \A r \in Elems(results) : gwEpisode <= r.episode /\ r.episode <= wEpisode
  /\ \A c \in Elems(commands) : /\ c.episode <= wEpisode
                                /\ KindOf[c.op] # "reset" => c.episode > 0
  /\ \A o \in Elems(waiters) : KindOf[o] # "reset" => gwEpisode > 0
  /\ OwnEpisode

Inductive == TypeOK /\ Placed /\ Untouched /\ Active /\ Honest /\ Episodes

-----------------------------------------------------------------------------
(* Queues.                                                                 *)

LEMMA AppendQueue ==
  ASSUME NEW S, NEW q \in Seq(S), NEW e \in S
  PROVE  /\ Append(q, e) \in Seq(S) /\ Len(Append(q, e)) = Len(q) + 1
         /\ Elems(Append(q, e)) = Elems(q) \cup {e}
         /\ OpsIn(Append(q, e)) = OpsIn(q) \cup {e.op}
         /\ Distinct(q) /\ e \notin Elems(q) => Distinct(Append(q, e))
         /\ Once(q) /\ e.op \notin OpsIn(q) => Once(Append(q, e))
         /\ Rising(q) /\ (\A x \in Elems(q) : x.episode <= e.episode) => Rising(Append(q, e))
<1> DEFINE a == Append(q, e)
<1>1. /\ a \in Seq(S) /\ Len(a) = Len(q) + 1 /\ Len(q) \in Nat
      /\ DOMAIN q = 1 .. Len(q) /\ DOMAIN a = 1 .. Len(q) + 1
      /\ \A i \in 1 .. Len(q) : a[i] = q[i]
      /\ a[Len(q) + 1] = e
  OBVIOUS
<1> HIDE DEF a
<1>2. DOMAIN a = DOMAIN q \cup {Len(q) + 1} /\ \A i \in DOMAIN q : i # Len(q) + 1 /\ i < Len(q) + 1
  BY <1>1
<1>3. Elems(a) = Elems(q) \cup {e}
  BY <1>1, <1>2 DEF Elems
<1>4. OpsIn(a) = OpsIn(q) \cup {e.op}
  BY <1>1, <1>2 DEF OpsIn
<1>5. Distinct(q) /\ e \notin Elems(q) => Distinct(a)
  BY <1>1, <1>2 DEF Distinct, Elems
<1>6. Once(q) /\ e.op \notin OpsIn(q) => Once(a)
  BY <1>1, <1>2 DEF Once, OpsIn
<1>7. Rising(q) /\ (\A x \in Elems(q) : x.episode <= e.episode) => Rising(a)
  BY <1>1, <1>2 DEF Rising, Elems
<1>8. QED
  BY <1>1, <1>3, <1>4, <1>5, <1>6, <1>7 DEF a

LEMMA TailQueue ==
  ASSUME NEW S, NEW q \in Seq(S), q # << >>
  PROVE  /\ Head(q) \in S /\ Head(q) \in Elems(q) /\ Head(q).op \in OpsIn(q)
         /\ Tail(q) \in Seq(S) /\ Len(Tail(q)) <= Len(q)
         /\ Elems(Tail(q)) \subseteq Elems(q) /\ OpsIn(Tail(q)) \subseteq OpsIn(q)
         /\ Distinct(q) => Distinct(Tail(q)) /\ Head(q) \notin Elems(Tail(q))
         /\ Once(q) => Once(Tail(q)) /\ Head(q).op \notin OpsIn(Tail(q))
         /\ Rising(q) => /\ Rising(Tail(q))
                         /\ \A x \in Elems(Tail(q)) : Head(q).episode <= x.episode
<1> DEFINE t == Tail(q)
<1>1. /\ t \in Seq(S) /\ Len(q) \in Nat \ {0} /\ Len(t) = Len(q) - 1
      /\ DOMAIN q = 1 .. Len(q) /\ DOMAIN t = 1 .. Len(q) - 1
      /\ \A i \in DOMAIN t : t[i] = q[i + 1] /\ i + 1 \in DOMAIN q /\ i + 1 # 1 /\ 1 < i + 1
      /\ 1 \in DOMAIN q /\ Head(q) = q[1] /\ q[1] \in S
  OBVIOUS
<1> HIDE DEF t
<1>2. Elems(t) \subseteq Elems(q) /\ Head(q) \in Elems(q)
  BY <1>1 DEF Elems
<1>3. OpsIn(t) \subseteq OpsIn(q) /\ Head(q).op \in OpsIn(q)
  BY <1>1 DEF OpsIn
<1>4. Distinct(q) => Distinct(t) /\ Head(q) \notin Elems(t)
  BY <1>1 DEF Distinct, Elems
<1>5. Once(q) => Once(t) /\ Head(q).op \notin OpsIn(t)
  BY <1>1 DEF Once, OpsIn
<1>6. Rising(q) => Rising(t) /\ \A x \in Elems(t) : Head(q).episode <= x.episode
  <2>1. \A i, j \in DOMAIN t : i < j => i + 1 < j + 1
    BY <1>1
  <2>2. Rising(q) => Rising(t)
    BY <1>1, <2>1 DEF Rising
  <2>3. ASSUME Rising(q), NEW i \in DOMAIN t PROVE q[1].episode <= t[i].episode
    BY <1>1, <2>3 DEF Rising
  <2>4. QED
    BY <1>1, <2>2, <2>3 DEF Elems
<1>7. QED
  BY <1>1, <1>2, <1>3, <1>4, <1>5, <1>6 DEF t

LEMMA EmptyQueue ==
  /\ Elems(<< >>) = {} /\ OpsIn(<< >>) = {}
  /\ Distinct(<< >>) /\ Once(<< >>) /\ Rising(<< >>)
BY DEF Elems, OpsIn, Distinct, Once, Rising

LEMMA QueueElems ==
  ASSUME NEW S, NEW q \in Seq(S)
  PROVE  /\ Elems(q) \subseteq S
         /\ \A o \in OpsIn(q) : \E x \in Elems(q) : x.op = o
         /\ \A x \in Elems(q) : x.op \in OpsIn(q)
BY DEF Elems, OpsIn

-----------------------------------------------------------------------------
LEMMA LimitType ==
  \A o : Limit(o) \in Nat \ {0}
BY SizeAssumption DEF Limit

LEMMA InitInductive == Init => Inductive
<1> SUFFICES ASSUME Init PROVE Inductive
  OBVIOUS
<1>1. TypeOK
  <2>1. /\ reg \in [Ops -> {"none", "ACCEPTED", "RUNNING"} \cup Terminal]
        /\ regEffect \in [Ops -> BOOLEAN]
        /\ waiters \in Seq(Ops) /\ holder \in Ops \cup {None}
        /\ open \in BOOLEAN /\ known \in BOOLEAN
        /\ gwEpisode \in Nat /\ gwSeq \in Nat /\ intent \subseteq Ops
        /\ pending \subseteq Ops
    BY DEF Init
  <2>2. /\ commands \in Seq(Commands) /\ Len(commands) <= CommandSize
        /\ controls \in Seq(Controls) /\ results \in Seq(Results)
    BY SizeAssumption DEF Init
  <2>3. /\ bound \in BOOLEAN /\ wEpisode \in Nat /\ wEnded \in BOOLEAN /\ wLast \in Nat
        /\ run \in Commands \cup {None}
        /\ stage \in {"queued", "inference", "env_step", "done"}
        /\ (run = None) = (stage = "done")
        /\ wCancel \in BOOLEAN /\ wEffect \in BOOLEAN
        /\ accepted \subseteq Ops /\ steps \in [Ops -> Nat]
    BY DEF Init
  <2>4. QED
    BY <2>1, <2>2, <2>3 DEF TypeOK
<1>2. Placed
  BY EmptyQueue DEF Init, Placed
<1>3. Untouched /\ Active
  BY EmptyQueue DEF Init, Untouched, Active
<1>4. Honest
  BY EmptyQueue, LimitType DEF Init, Honest, Terminal
<1>5. Episodes
  BY EmptyQueue DEF Init, Episodes, OwnEpisode
<1>6. QED
  BY <1>1, <1>2, <1>3, <1>4, <1>5 DEF Inductive

LEMMA PlacesType ==
  ASSUME TypeOK
  PROVE  /\ Elems(commands) \subseteq Commands /\ Elems(results) \subseteq Results
         /\ OpsIn(commands) \subseteq Ops /\ OpsIn(results) \subseteq Ops
         /\ Elems(waiters) \subseteq Ops /\ (run # None => run.op \in Ops)
<1>1. Elems(commands) \subseteq Commands /\ Elems(results) \subseteq Results
  BY QueueElems DEF TypeOK
<1>2. OpsIn(commands) \subseteq Ops
  <2>1. \A o \in OpsIn(commands) : \E x \in Elems(commands) : x.op = o
    BY QueueElems DEF TypeOK
  <2>2. QED
    BY <1>1, <2>1 DEF Commands
<1>3. OpsIn(results) \subseteq Ops
  <2>1. \A o \in OpsIn(results) : \E x \in Elems(results) : x.op = o
    BY QueueElems DEF TypeOK
  <2>2. QED
    BY <1>1, <2>1 DEF Results
<1>4. Elems(waiters) \subseteq Ops /\ (run # None => run.op \in Ops)
  BY QueueElems DEF TypeOK, Commands
<1>5. QED
  BY <1>1, <1>2, <1>3, <1>4

\* The worker and what it has told are left alone.
WorkerIdle == UNCHANGED <<results, slotVars, activeVars, historyVars>>

\* An operation that nobody has sent is sent, or fails at a full queue.
LEMMA DispatchStep ==
  ASSUME Inductive, NEW o \in Ops, reg[o] \in {"none", "ACCEPTED"}, Dispatch(o),
         KindOf[o] # "reset" => gwEpisode > 0,
         waiters' \in Seq(Ops), Distinct(waiters'), Elems(waiters') \subseteq Elems(waiters) \ {o},
         UNCHANGED <<regEffect, sessionVars, gwEpisode, intent, controls>>, WorkerIdle
  PROVE  Inductive'
<1> USE DEF Inductive, Dispatch, WorkerIdle, sessionVars, slotVars, activeVars, historyVars
<1> DEFINE c == [op |-> o, episode |-> gwEpisode, seq |-> gwSeq']
<1>1. c \in Commands /\ c.op = o /\ c.episode = gwEpisode /\ gwSeq' \in Nat
  BY DEF TypeOK, Commands
<1> HIDE DEF c
<1>2. /\ o \notin OpsIn(commands) /\ o \notin OpsIn(results) /\ steps[o] = 0 /\ o \notin accepted
      /\ run # None => run.op # o
  BY DEF Placed, Untouched
<1>3. /\ \/ reg' = [reg EXCEPT ![o] = "RUNNING"] /\ commands' = Append(commands, c)
            /\ Len(commands) < CommandSize
         \/ reg' = [reg EXCEPT ![o] = "FAILED"] /\ UNCHANGED commands
      /\ holder' \in Ops \cup {None} /\ pending' \subseteq Ops
  BY DEF c, TypeOK
<1>4. /\ commands' \in Seq(Commands) /\ Len(commands') <= CommandSize /\ Once(commands')
      /\ \A x \in OpsIn(commands') : x \in OpsIn(commands) \/ (x = o /\ reg'[o] = "RUNNING")
      /\ \A x \in Elems(commands') : x \in Elems(commands) \/ x = c
  <2>1. CASE commands' = Append(commands, c) /\ Len(commands) < CommandSize
    BY <1>1, <1>2, <1>3, <2>1, AppendQueue, SizeAssumption, SMTT(20) DEF TypeOK, Placed
  <2>2. CASE UNCHANGED commands
    BY <2>2 DEF TypeOK, Placed
  <2>3. QED
    BY <1>3, <2>1, <2>2
<1>5. reg' \in [Ops -> {"none", "ACCEPTED", "RUNNING"} \cup Terminal]
  <2>1. reg \in [Ops -> {"none", "ACCEPTED", "RUNNING"} \cup Terminal] /\ "FAILED" \in Terminal
    BY DEF TypeOK, Terminal
  <2>2. QED
    BY <1>3, <2>1
<1>6. reg'[o] \in {"RUNNING", "FAILED"} /\ \A x \in Ops : x # o => reg'[x] = reg[x]
  BY <1>3 DEF TypeOK
<1>7. TypeOK'
  BY <1>1, <1>3, <1>4, <1>5 DEF TypeOK
<1>8. OpsIn(commands) \subseteq Ops /\ OpsIn(results) \subseteq Ops /\ Elems(waiters) \subseteq Ops
      /\ (run # None => run.op \in Ops)
  BY PlacesType
<1>9. Placed'
  BY <1>2, <1>4, <1>6, <1>8 DEF Placed
<1>10. Untouched' /\ Active'
  BY <1>2, <1>4, <1>6, <1>8 DEF Untouched, Active, Kind
<1>11. Honest'
  BY <1>2, <1>6 DEF Honest
<1>12. Episodes'
  BY <1>1, <1>4 DEF Episodes, OwnEpisode, Kind
<1>13. QED
  BY <1>7, <1>9, <1>10, <1>11, <1>12

LEMMA CallStep ==
  ASSUME Inductive, NEW o \in Ops, Call(o)
  PROVE  Inductive'
<1>1. o \notin Elems(waiters) /\ waiters \in Seq(Ops) /\ Elems(waiters) \subseteq Ops
  BY QueueElems DEF Call, Fresh, Inductive, Placed, TypeOK
<1>2. KindOf[o] # "reset" => gwEpisode > 0
  BY DEF Call, Admitted
<1>3. CASE Dispatch(o) /\ UNCHANGED waiters
  <2>1. Distinct(waiters') /\ waiters' \in Seq(Ops) /\ Elems(waiters') \subseteq Elems(waiters) \ {o}
    BY <1>1, <1>3 DEF Inductive, Placed
  <2>2. QED
    BY <1>2, <1>3, <2>1, DispatchStep DEF Call, Fresh, WorkerIdle
<1>4. CASE /\ reg' = [reg EXCEPT ![o] = "ACCEPTED"]
           /\ waiters' = Append(waiters, o)
           /\ UNCHANGED <<holder, gwSeq, pending, commands>>
  <2> USE <1>4 DEF Inductive, Call, sessionVars, slotVars, activeVars, historyVars
  <2>1. /\ waiters' \in Seq(Ops) /\ Distinct(waiters')
        /\ Elems(waiters') = Elems(waiters) \cup {o}
    BY <1>1, AppendQueue DEF Placed
  <2>2. reg'[o] = "ACCEPTED" /\ reg[o] = "none" /\ \A x \in Ops : x # o => reg'[x] = reg[x]
    BY DEF TypeOK, Fresh
  <2>3. TypeOK'
    BY <2>1 DEF TypeOK
  <2>4. OpsIn(commands) \subseteq Ops /\ OpsIn(results) \subseteq Ops
        /\ (run # None => run.op \in Ops)
    BY PlacesType
  <2>5. Placed'
    BY <1>1, <2>1, <2>2, <2>4 DEF Placed
  <2>6. Untouched' /\ Active'
    BY <2>2, <2>4 DEF Untouched, Active, Kind
  <2>7. Honest'
    BY <2>2 DEF Honest, Terminal
  <2>8. Episodes'
    BY <1>2, <2>1 DEF Episodes, OwnEpisode, Kind
  <2>9. QED
    BY <2>3, <2>5, <2>6, <2>7, <2>8
<1>5. QED
  BY <1>3, <1>4 DEF Call

LEMMA LockHandoverStep ==
  ASSUME Inductive, LockHandover
  PROVE  Inductive'
<1> DEFINE o == Head(waiters)
<1>1. /\ o \in Ops /\ o \in Elems(waiters) /\ waiters' = Tail(waiters)
      /\ waiters' \in Seq(Ops) /\ Distinct(waiters')
      /\ Elems(waiters') \subseteq Elems(waiters) \ {o}
  BY TailQueue DEF LockHandover, Inductive, TypeOK, Placed
<1> HIDE DEF o
<1>2. CASE reg[o] = "ACCEPTED"
  <2>1. Dispatch(o)
    BY <1>2 DEF LockHandover, o
  <2>2. KindOf[o] # "reset" => gwEpisode > 0
    BY <1>1 DEF Inductive, Episodes
  <2>3. QED
    BY <1>1, <1>2, <2>1, <2>2, DispatchStep DEF LockHandover, WorkerIdle
<1>3. CASE reg[o] # "ACCEPTED"
  <2>1. /\ UNCHANGED <<reg, holder, gwSeq, pending, commands>>
        /\ UNCHANGED <<regEffect, sessionVars, gwEpisode, intent, controls, results, slotVars,
                       activeVars, historyVars>>
    BY <1>3 DEF LockHandover, o
  <2> USE <2>1 DEF Inductive, sessionVars, slotVars, activeVars, historyVars
  <2>2. TypeOK'
    BY <1>1 DEF TypeOK
  <2>3. Placed'
    BY <1>1 DEF Placed
  <2>4. Untouched' /\ Active' /\ Honest'
    BY DEF Untouched, Active, Honest, Kind
  <2>5. Episodes'
    BY <1>1 DEF Episodes, OwnEpisode, Kind
  <2>6. QED
    BY <2>2, <2>3, <2>4, <2>5
<1>4. QED
  BY <1>2, <1>3

\* A timeout, a cancellation on its way and a close leave records and queues alone.
LEMMA GatewayStep ==
  ASSUME Inductive, UNCHANGED <<reg, regEffect, waiters, gwEpisode, gwSeq, commands>>, WorkerIdle,
         holder' \in Ops \cup {None}, open' \in BOOLEAN, known' \in BOOLEAN, intent' \subseteq Ops,
         pending' \subseteq Ops, controls' \in Seq(Controls)
  PROVE  Inductive'
<1> USE DEF Inductive, WorkerIdle, slotVars, activeVars, historyVars
<1>1. TypeOK'
  BY DEF TypeOK
<1>2. Placed' /\ Untouched'
  BY DEF Placed, Untouched
<1>3. Active' /\ Honest' /\ Episodes'
  BY DEF Active, Honest, Episodes, OwnEpisode, Kind
<1>4. QED
  BY <1>1, <1>2, <1>3

LEMMA TimeoutStep ==
  ASSUME Inductive, NEW o \in Ops, Timeout(o)
  PROVE  Inductive'
BY GatewayStep DEF Timeout, WorkerIdle, Inductive, TypeOK, sessionVars

LEMMA CloseSessionStep ==
  ASSUME Inductive, CloseSession
  PROVE  Inductive'
<1>1. [kind |-> "release", op |-> None] \in Controls
  BY DEF Controls
<1>2. controls' \in Seq(Controls)
  BY <1>1, AppendQueue DEF CloseSession, Inductive, TypeOK
<1>3. QED
  BY <1>2, GatewayStep DEF CloseSession, WorkerIdle, Inductive, TypeOK

LEMMA PurgeStep ==
  ASSUME Inductive, Purge
  PROVE  Inductive'
BY GatewayStep DEF Purge, channelVars, WorkerIdle, Inductive, TypeOK

LEMMA CancelRequestStep ==
  ASSUME Inductive, NEW o \in Ops, CancelRequest(o)
  PROVE  Inductive'
<1>1. CASE /\ reg[o] = "ACCEPTED"
           /\ reg' = [reg EXCEPT ![o] = "CANCELLED"]
           /\ UNCHANGED <<intent, controls>>
  <2> USE <1>1 DEF Inductive, CancelRequest, sessionVars, slotVars, activeVars, historyVars
  <2>1. reg'[o] = "CANCELLED" /\ \A x \in Ops : x # o => reg'[x] = reg[x]
    BY DEF TypeOK
  <2>2. TypeOK'
    BY DEF TypeOK, Terminal
  <2>3. OpsIn(commands) \subseteq Ops /\ OpsIn(results) \subseteq Ops /\ Elems(waiters) \subseteq Ops
        /\ (run # None => run.op \in Ops)
    BY PlacesType
  <2>4. Placed'
    BY <2>1, <2>3 DEF Placed
  <2>5. Untouched' /\ Active'
    BY <2>1, <2>3 DEF Untouched, Active, Kind
  <2>6. Honest'
    BY <2>1 DEF Honest, Untouched
  <2>7. Episodes'
    BY DEF Episodes, OwnEpisode, Kind
  <2>8. QED
    BY <2>2, <2>4, <2>5, <2>6, <2>7
<1>2. CASE /\ intent' = intent \cup {o}
           /\ controls' = Append(controls, [kind |-> "cancel", op |-> o])
           /\ UNCHANGED reg
  <2>1. [kind |-> "cancel", op |-> o] \in Controls
    BY DEF Controls
  <2>2. controls' \in Seq(Controls)
    BY <1>2, <2>1, AppendQueue DEF Inductive, TypeOK
  <2>3. QED
    BY <1>2, <2>2, GatewayStep DEF CancelRequest, WorkerIdle, Inductive, TypeOK, sessionVars
<1>3. QED
  BY <1>1, <1>2 DEF CancelRequest

\* A result is told once: the record becomes terminal unless it is already.
LEMMA DrainStep ==
  ASSUME Inductive, Drain
  PROVE  Inductive'
<1> USE DEF Inductive, Drain, sessionVars, slotVars, activeVars, historyVars
<1> DEFINE r == Head(results)
<1>1. /\ r \in Results /\ r \in Elems(results) /\ r.op \in OpsIn(results)
      /\ results' \in Seq(Results) /\ Once(results') /\ Rising(results')
      /\ Elems(results') \subseteq Elems(results)
      /\ OpsIn(results') \subseteq OpsIn(results) \ {r.op}
      /\ \A x \in Elems(results') : r.episode <= x.episode
  BY TailQueue DEF TypeOK, Placed, Episodes
<1>2. /\ r.op \in Ops /\ r.state \in Terminal /\ r.effect \in BOOLEAN /\ r.episode \in Nat
      /\ reg[r.op] = "RUNNING"
  BY <1>1 DEF Results, Placed
<1>3. /\ \/ UNCHANGED <<reg, regEffect>>
         \/ \E st \in Terminal :
              /\ reg' = [reg EXCEPT ![r.op] = st]
              /\ regEffect' = [regEffect EXCEPT ![r.op] = r.effect]
              /\ r.state = "FAILED" => st = "FAILED"
      /\ gwEpisode' = gwEpisode \/ gwEpisode' = r.episode
  BY <1>2 DEF Finish, FinishKnown, FinishForgotten, Settle, Terminal
<1>4. /\ holder' \in Ops \cup {None} /\ pending' \subseteq Ops
  BY DEF TypeOK
<1> HIDE DEF r
<1>5. /\ \/ reg'[r.op] = "RUNNING" /\ regEffect'[r.op] = regEffect[r.op]
         \/ /\ reg'[r.op] \in Terminal /\ regEffect'[r.op] = r.effect
            /\ r.state = "FAILED" => reg'[r.op] = "FAILED"
      /\ \A x \in Ops : x # r.op => reg'[x] = reg[x] /\ regEffect'[x] = regEffect[x]
      /\ reg' \in [Ops -> {"none", "ACCEPTED", "RUNNING"} \cup Terminal]
      /\ regEffect' \in [Ops -> BOOLEAN]
  BY <1>2, <1>3 DEF TypeOK
<1>6. /\ gwEpisode' \in Nat /\ gwEpisode <= gwEpisode' /\ gwEpisode' <= wEpisode
      /\ \A x \in Elems(results') : gwEpisode' <= x.episode
  BY <1>1, <1>2, <1>3 DEF TypeOK, Episodes
<1>7. TypeOK'
  BY <1>1, <1>4, <1>5, <1>6 DEF TypeOK
<1>8. /\ OpsIn(commands) \subseteq Ops /\ OpsIn(results) \subseteq Ops
      /\ Elems(waiters) \subseteq Ops /\ (run # None => run.op \in Ops)
  BY PlacesType
<1>9. /\ r.op \notin OpsIn(commands) /\ r.op \notin Elems(waiters)
      /\ (run # None => run.op # r.op)
  BY <1>1, <1>2 DEF Placed
<1>10. Placed'
  BY <1>1, <1>5, <1>8, <1>9 DEF Placed
<1>11. Untouched' /\ Active'
  BY <1>2, <1>5, <1>8, <1>9 DEF Untouched, Active, Kind, Terminal
<1>12. Honest'
  <2>1. ASSUME NEW o \in Ops, reg'[o] \in Terminal, ~regEffect'[o]
        PROVE  steps[o] = 0 \/ ResetFailed(o, reg'[o])
    <3>1. CASE o = r.op
      <4>1. "RUNNING" \notin Terminal
        BY DEF Terminal
      <4>2. ~r.effect /\ (r.state = "FAILED" => reg'[o] = "FAILED")
        BY <1>5, <2>1, <3>1, <4>1
      <4>3. QED
        BY <1>1, <3>1, <4>2 DEF Honest, ResetFailed
    <3>2. CASE o # r.op
      BY <1>5, <2>1, <3>2 DEF Honest
    <3>3. QED
      BY <3>1, <3>2
  <2>2. QED
    BY <1>1, <2>1 DEF Honest
<1>13. Episodes'
  <2>1. \A x \in Elems(results') : x.episode <= wEpisode
    BY <1>1 DEF Episodes
  <2>2. \A o \in Elems(waiters) : KindOf[o] # "reset" => gwEpisode' > 0
    BY <1>6 DEF Episodes, TypeOK
  <2>3. QED
    BY <1>1, <1>6, <2>1, <2>2 DEF Episodes, OwnEpisode, Kind
<1>14. QED
  BY <1>7, <1>10, <1>11, <1>12, <1>13

\* An answer is one more result, of the worker's latest episode.
LEMMA AnswerQueue ==
  ASSUME Inductive, NEW x \in Results, x.op \notin OpsIn(results), wEpisode <= x.episode,
         results' = Append(results, x)
  PROVE  /\ results' \in Seq(Results) /\ Elems(results') = Elems(results) \cup {x}
         /\ OpsIn(results') = OpsIn(results) \cup {x.op} /\ Once(results')
         /\ Rising(results')
<1>1. results \in Seq(Results) /\ Once(results) /\ Rising(results)
  BY DEF Inductive, TypeOK, Placed, Episodes
<1>2. \A y \in Elems(results) : y.episode <= x.episode
  <2>1. \A y \in Elems(results) : y.episode \in Nat /\ y.episode <= wEpisode
    BY PlacesType DEF Inductive, Episodes, Results
  <2>2. wEpisode \in Nat /\ x.episode \in Nat
    BY DEF Inductive, TypeOK, Results
  <2>3. QED
    BY <2>1, <2>2
<1>3. QED
  BY <1>1, <1>2, AppendQueue

\* A command is rejected or run; what is run belongs to the slot's episode.
LEMMA ReceiveStep ==
  ASSUME Inductive, Receive
  PROVE  Inductive'
<1> USE DEF Inductive, Receive, gatewayVars, sessionVars, slotVars, historyVars
<1> DEFINE c == Head(commands)
<1>1. /\ c \in Commands /\ c \in Elems(commands) /\ c.op \in OpsIn(commands)
      /\ commands' \in Seq(Commands) /\ Len(commands') <= CommandSize /\ Once(commands')
      /\ Elems(commands') \subseteq Elems(commands)
      /\ OpsIn(commands') \subseteq OpsIn(commands) \ {c.op}
  <2>1. Len(commands) \in Nat /\ Len(Tail(commands)) \in Nat /\ CommandSize \in Nat
    BY SizeAssumption, TailQueue DEF TypeOK
  <2>2. QED
    BY <2>1, TailQueue DEF TypeOK, Placed
<1>2. /\ c.op \in Ops /\ c.episode \in Nat /\ c.seq \in Nat /\ c # None
      /\ reg[c.op] = "RUNNING" /\ c.op \notin OpsIn(results)
      /\ steps[c.op] = 0 /\ c.op \notin accepted
      /\ run # None => run.op # c.op
  BY <1>1, NoneAssumption DEF Commands, Placed, Untouched
<1>3. /\ OpsIn(commands) \subseteq Ops /\ OpsIn(results) \subseteq Ops
      /\ Elems(waiters) \subseteq Ops /\ (run # None => run.op \in Ops)
  BY PlacesType
<1>4. CASE ~bound \/ Stale(c) \/ run # None
  <2> DEFINE x == [op |-> c.op, state |-> "FAILED", effect |-> FALSE, episode |-> wEpisode]
  <2>1. results' = Append(results, x) /\ UNCHANGED activeVars
    BY <1>4 DEF Answer
  <2>2. x \in Results /\ x.op = c.op /\ x.effect = FALSE /\ x.episode = wEpisode
    BY <1>2 DEF Results, Terminal, TypeOK
  <2> HIDE DEF x, c
  <2>3. /\ results' \in Seq(Results) /\ Elems(results') = Elems(results) \cup {x}
        /\ OpsIn(results') = OpsIn(results) \cup {c.op} /\ Once(results')
        /\ Rising(results')
    <3>1. wEpisode <= x.episode
      BY <2>2 DEF TypeOK
    <3>2. QED
      BY <1>2, <2>1, <2>2, <3>1, AnswerQueue
  <2> USE <2>1 DEF activeVars
  <2>4. TypeOK'
    BY <1>1, <2>3 DEF TypeOK
  <2>5. Placed'
    BY <1>1, <1>2, <2>3 DEF Placed
  <2>6. Untouched' /\ Active'
    BY <1>1 DEF Untouched, Active, Kind
  <2>7. Honest'
    BY <1>2, <2>2, <2>3 DEF Honest
  <2>8. Episodes'
    <3>1. wEpisode <= wEpisode
      BY DEF TypeOK
    <3>2. QED
      BY <1>1, <2>2, <2>3, <3>1 DEF Episodes, OwnEpisode, Kind
  <2>9. QED
    BY <2>4, <2>5, <2>6, <2>7, <2>8
<1>5. CASE ~(~bound \/ Stale(c) \/ run # None)
  <2>1. /\ run' = c /\ stage' = (IF KindOf[c.op] = "reset" THEN "env_step" ELSE "queued")
        /\ wCancel' = FALSE /\ wEffect' = FALSE /\ UNCHANGED results /\ ~Stale(c)
    BY <1>5
  <2> HIDE DEF c
  <2>2. TypeOK'
    <3>1. /\ run' \in Commands \cup {None}
          /\ stage' \in {"queued", "inference", "env_step", "done"}
          /\ (run' = None) = (stage' = "done")
          /\ wCancel' \in BOOLEAN /\ wEffect' \in BOOLEAN
      BY <1>1, <1>2, <2>1
    <3>2. QED
      BY <1>1, <2>1, <3>1 DEF TypeOK
  <2>3. Placed'
    BY <1>1, <1>2, <2>1 DEF Placed
  <2>4. Untouched'
    BY <1>1 DEF Untouched
  <2>5. Active'
    BY <1>2, <2>1, LimitType DEF Active, Kind, Limit
  <2>6. Honest'
    BY <2>1 DEF Honest
  <2>7. Episodes'
    <3>1. KindOf[c.op] # "reset" => c.episode = wEpisode
      BY <1>1, <1>2, <2>1 DEF Episodes, Stale, TypeOK
    <3>2. OwnEpisode'
      BY <2>1, <3>1 DEF OwnEpisode, Kind
    <3>3. QED
      BY <1>1, <2>1, <3>2 DEF Episodes
  <2>8. QED
    BY <2>2, <2>3, <2>4, <2>5, <2>6, <2>7
<1>6. QED
  BY <1>4, <1>5

\* The handler ends: what it tells of its effect is true, and the slot is free.
LEMMA EndsStep ==
  ASSUME Inductive, run # None, NEW state \in Terminal, Ends(state),
         wEffect' \in BOOLEAN, wEnded' \in BOOLEAN,
         wEpisode' \in Nat, wEpisode <= wEpisode',
         steps' = steps \/ (Touches /\ run.op \notin accepted),
         ~wEffect' => steps'[run.op] = 0 \/ ResetFailed(run.op, state)
  PROVE  Inductive'
<1> USE DEF Inductive, Ends, gatewayVars, sessionVars
<1> DEFINE o == run.op
           x == [op |-> o, state |-> state, effect |-> wEffect', episode |-> wEpisode']
<1>1. /\ o \in Ops /\ run \in Commands /\ run.seq \in Nat /\ reg[o] = "RUNNING"
      /\ o \notin OpsIn(commands) /\ o \notin OpsIn(results)
  BY DEF TypeOK, Commands, Placed
<1>2. /\ x \in Results /\ x.op = o /\ x.effect = wEffect' /\ x.episode = wEpisode'
      /\ x.state = state
  BY <1>1 DEF Results
<1>3. results' = Append(results, x)
  BY DEF Answer
<1> HIDE DEF x
<1>4. /\ results' \in Seq(Results) /\ Elems(results') = Elems(results) \cup {x}
      /\ OpsIn(results') = OpsIn(results) \cup {o} /\ Once(results') /\ Rising(results')
  BY <1>1, <1>2, <1>3, AnswerQueue
<1>5. /\ OpsIn(commands) \subseteq Ops /\ OpsIn(results) \subseteq Ops
      /\ Elems(results) \subseteq Results /\ Elems(commands) \subseteq Commands
  BY PlacesType
<1>6. /\ steps' \in [Ops -> Nat] /\ steps'[o] <= Limit(o)
      /\ \A y \in Ops : y # o => steps'[y] = steps[y]
      /\ o \in accepted => steps'[o] = 0
  <2>1. steps[o] \in Nat /\ steps[o] < Limit(o) /\ Limit(o) \in Nat
    BY <1>1, LimitType DEF TypeOK, Active
  <2>2. CASE steps' = steps
    BY <1>1, <2>1, <2>2 DEF TypeOK, Honest
  <2>3. CASE Touches /\ o \notin accepted
    BY <1>1, <2>1, <2>3 DEF TypeOK, Touches
  <2>4. QED
    BY <2>2, <2>3
<1>7. TypeOK'
  <2>1. wLast' \in Nat
    BY <1>1 DEF TypeOK
  <2>2. /\ run' \in Commands \cup {None} /\ stage' \in {"queued", "inference", "env_step", "done"}
        /\ (run' = None) = (stage' = "done")
    OBVIOUS
  <2>3. QED
    BY <1>4, <1>6, <2>1, <2>2 DEF TypeOK
<1>8. Placed'
  BY <1>1, <1>4 DEF Placed
<1>9. Untouched'
  BY <1>1, <1>5, <1>6 DEF Untouched
<1>10. Active' /\ OwnEpisode'
  BY DEF Active, OwnEpisode
<1>11. Honest'
  <2>1. ASSUME NEW r \in Elems(results'), ~r.effect
        PROVE  steps'[r.op] = 0 \/ ResetFailed(r.op, r.state)
    <3>1. CASE r = x
      BY <1>2, <2>1, <3>1
    <3>2. CASE r \in Elems(results)
      <4>1. r.op \in OpsIn(results)
        BY <3>2 DEF Elems, OpsIn
      <4>2. QED
        BY <1>1, <1>5, <1>6, <2>1, <3>2, <4>1 DEF Honest
    <3>3. QED
      BY <1>4, <3>1, <3>2
  <2>2. ASSUME NEW y \in Ops, reg'[y] \in Terminal, ~regEffect'[y]
        PROVE  steps'[y] = 0 \/ ResetFailed(y, reg'[y])
    BY <1>1, <1>6, <2>2 DEF Honest, Terminal
  <2>3. \A y \in accepted' : steps'[y] = 0
    BY <1>6 DEF Honest, TypeOK
  <2>4. \A y \in Ops : steps'[y] <= Limit(y)
    BY <1>6 DEF Honest
  <2>5. QED
    BY <2>1, <2>2, <2>3, <2>4 DEF Honest
<1>12. Episodes'
  <2>1. gwEpisode' <= wEpisode' /\ gwEpisode' \in Nat /\ wEpisode \in Nat
    BY DEF Episodes, TypeOK
  <2>2. \A r \in Elems(results') : gwEpisode' <= r.episode /\ r.episode <= wEpisode'
    BY <1>2, <1>4, <1>5, <2>1 DEF Episodes, Results
  <2>3. \A c \in Elems(commands') : /\ c.episode <= wEpisode'
                                    /\ KindOf[c.op] # "reset" => c.episode > 0
    BY <1>5, <2>1 DEF Episodes, Commands
  <2>4. QED
    BY <1>4, <1>10, <2>1, <2>2, <2>3 DEF Episodes
<1>13. QED
  BY <1>7, <1>8, <1>9, <1>10, <1>11, <1>12

LEMMA RaisesStep ==
  ASSUME Inductive, run # None, NEW state \in Terminal, Raises(state)
  PROVE  Inductive'
<1>1. UNCHANGED <<wEffect, wEpisode, wEnded, steps>> /\ Ends(state)
  BY DEF Raises
<1>2. /\ wEffect' \in BOOLEAN /\ wEnded' \in BOOLEAN /\ wEpisode' \in Nat /\ wEpisode <= wEpisode'
  BY <1>1 DEF Inductive, TypeOK
<1>3. ~wEffect' => steps'[run.op] = 0
  BY <1>1 DEF Inductive, Active
<1>4. QED
  BY <1>1, <1>2, <1>3, EndsStep

\* The operation goes on: the queues, the records and the slot are left alone.
LEMMA GoesOn ==
  ASSUME Inductive, run # None, stage' \in {"inference", "env_step"}, wEffect' \in BOOLEAN,
         wEnded' \in BOOLEAN, wCancel' = wCancel, run.op \notin accepted \/ stage' = "inference",
         UNCHANGED <<gatewayVars, channelVars, bound, wEpisode, wLast, run, accepted>>,
         steps' = steps \/ (Touches /\ run.op \notin accepted),
         Active', steps'[run.op] <= Limit(run.op)
  PROVE  Inductive'
<1> USE DEF Inductive, gatewayVars, sessionVars, channelVars
<1> DEFINE o == run.op
<1>1. /\ o \in Ops /\ reg[o] = "RUNNING"
      /\ o \notin OpsIn(commands) /\ o \notin OpsIn(results)
  BY PlacesType DEF Placed
<1>2. /\ OpsIn(commands) \subseteq Ops /\ OpsIn(results) \subseteq Ops
  BY PlacesType
<1>3. steps' \in [Ops -> Nat] /\ \A y \in Ops : y # o => steps'[y] = steps[y]
  <2>1. CASE steps' = steps
    BY <2>1 DEF TypeOK
  <2>2. CASE Touches
    <3>1. steps[o] + 1 \in Nat
      BY <1>1 DEF TypeOK
    <3>2. QED
      BY <1>1, <2>2, <3>1 DEF TypeOK, Touches
  <2>3. QED
    BY <2>1, <2>2
<1>4. TypeOK'
  BY <1>3 DEF TypeOK
<1>5. Placed'
  BY DEF Placed
<1>6. Untouched'
  BY <1>1, <1>2, <1>3 DEF Untouched
<1>7. Honest'
  <2>1. ASSUME NEW r \in Elems(results), ~r.effect
        PROVE  steps'[r.op] = 0 \/ ResetFailed(r.op, r.state)
    <3>1. r.op \in OpsIn(results)
      BY DEF Elems, OpsIn
    <3>2. QED
      BY <1>1, <1>2, <1>3, <2>1, <3>1 DEF Honest
  <2>2. ASSUME NEW y \in Ops, reg[y] \in Terminal, ~regEffect[y]
        PROVE  steps'[y] = 0 \/ ResetFailed(y, reg[y])
    BY <1>1, <1>3, <2>2 DEF Honest, Terminal
  <2>3. \A y \in accepted : steps'[y] = 0
    BY <1>1, <1>3 DEF Honest, TypeOK, Touches
  <2>4. \A y \in Ops : steps'[y] <= Limit(y)
    BY <1>3 DEF Honest
  <2>5. QED
    BY <2>1, <2>2, <2>3, <2>4 DEF Honest
<1>8. Episodes'
  BY DEF Episodes, OwnEpisode, Kind
<1>9. QED
  BY <1>4, <1>5, <1>6, <1>7, <1>8

LEMMA StartStep ==
  ASSUME Inductive, Start
  PROVE  Inductive'
<1>1. run # None /\ stage = "queued" /\ run.op \in Ops /\ Kind # "reset" /\ ~wEffect
  BY PlacesType DEF Start, Inductive, Active
<1>2. CASE \E state \in Terminal : Raises(state)
  BY <1>1, <1>2, RaisesStep
<1>3. CASE ~wCancel /\ Enters("env_step") /\ wEffect' = TRUE
  <2>1. run.op \notin accepted
    BY <1>1, <1>3 DEF Inductive, Active
  <2>2. /\ UNCHANGED <<gatewayVars, channelVars, bound, wEpisode, wLast, run, accepted>>
        /\ UNCHANGED <<wEnded, wCancel, steps>> /\ stage' = "env_step"
    BY <1>3 DEF Enters, slotVars, historyVars
  <2>3. steps[run.op] < Limit(run.op) /\ steps[run.op] \in Nat /\ Limit(run.op) \in Nat
    BY <1>1, LimitType DEF Inductive, Active, TypeOK
  <2>4. Active'
    BY <1>1, <1>3, <2>1, <2>2, <2>3 DEF Active, Kind
  <2>5. steps' = steps /\ wEnded' \in BOOLEAN /\ wEffect' \in BOOLEAN
    BY <1>3, <2>2 DEF Inductive, TypeOK
  <2>6. QED
    BY <1>1, <1>3, <2>1, <2>2, <2>3, <2>4, <2>5, GoesOn
<1>4. CASE Enters("inference") /\ UNCHANGED wEffect
  <2>2. /\ UNCHANGED <<gatewayVars, channelVars, bound, wEpisode, wLast, run, accepted>>
        /\ UNCHANGED <<wEnded, wCancel, steps>> /\ stage' = "inference"
    BY <1>4 DEF Enters, slotVars, historyVars
  <2>3. steps[run.op] < Limit(run.op) /\ steps[run.op] \in Nat /\ Limit(run.op) \in Nat
    BY <1>1, LimitType DEF Inductive, Active, TypeOK
  <2>4. Active'
    BY <1>1, <1>4, <2>2, <2>3 DEF Inductive, Active, Kind
  <2>5. steps' = steps /\ wEnded' \in BOOLEAN /\ wEffect' \in BOOLEAN
    BY <1>4, <2>2 DEF Inductive, TypeOK
  <2>6. QED
    BY <1>1, <1>4, <2>2, <2>3, <2>4, <2>5, GoesOn
<1>5. QED
  BY <1>2, <1>3, <1>4 DEF Start, Terminal

LEMMA InferenceStep ==
  ASSUME Inductive, InferenceDone \/ InferenceCancelled \/ InferenceFails
  PROVE  Inductive'
<1>1. run # None /\ stage = "inference" /\ run.op \in Ops /\ Kind # "reset"
  BY PlacesType DEF InferenceDone, InferenceCancelled, InferenceFails, Inductive, Active
<1>2. CASE InferenceDone
  <2>1. run.op \notin accepted
    BY <1>1, <1>2 DEF InferenceDone, Inductive, Active
  <2>2. /\ UNCHANGED <<gatewayVars, channelVars, bound, wEpisode, wLast, run, accepted>>
        /\ UNCHANGED <<wEnded, wCancel, steps>> /\ stage' = "env_step" /\ wEffect' = TRUE
    BY <1>2 DEF InferenceDone, Enters, slotVars, historyVars
  <2>3. steps[run.op] < Limit(run.op) /\ steps[run.op] \in Nat /\ Limit(run.op) \in Nat
    BY <1>1, LimitType DEF Inductive, Active, TypeOK
  <2>4. Active'
    BY <1>1, <2>1, <2>2, <2>3 DEF Active, Kind
  <2>5. steps' = steps /\ wEnded' \in BOOLEAN /\ wEffect' \in BOOLEAN
    BY <2>2 DEF Inductive, TypeOK
  <2>6. QED
    BY <1>1, <2>1, <2>2, <2>3, <2>4, <2>5, GoesOn
<1>3. CASE InferenceCancelled \/ InferenceFails
  BY <1>1, <1>3, RaisesStep DEF InferenceCancelled, InferenceFails, Terminal
<1>4. QED
  BY <1>2, <1>3

LEMMA ResetDoneStep ==
  ASSUME Inductive, ResetDone
  PROVE  Inductive'
<1>1. /\ run # None /\ Ends("SUCCEEDED") /\ "SUCCEEDED" \in Terminal
      /\ wEffect' = TRUE /\ wEnded' = FALSE /\ wEpisode' = wEpisode + 1 /\ Touches
  BY DEF ResetDone, Terminal
<1>2. run.op \notin accepted
  BY <1>1 DEF ResetDone, Inductive, Active
<1>3. wEpisode' \in Nat /\ wEpisode <= wEpisode'
  BY <1>1 DEF Inductive, TypeOK
<1>4. QED
  BY <1>1, <1>2, <1>3, EndsStep

LEMMA StepDoneStep ==
  ASSUME Inductive, StepDone
  PROVE  Inductive'
<1>1. /\ run # None /\ run.op \in Ops /\ stage = "env_step" /\ Kind # "reset" /\ Touches
      /\ wEnded' \in BOOLEAN /\ wEffect /\ wEffect' = wEffect /\ wEpisode' = wEpisode
      /\ run.op \notin accepted
  BY PlacesType DEF StepDone, Inductive, Active, TypeOK
<1>2. /\ wEpisode' \in Nat /\ wEpisode <= wEpisode' /\ wEffect' \in BOOLEAN
  BY <1>1 DEF Inductive, TypeOK
<1>3. CASE Ends("SUCCEEDED")
  BY <1>1, <1>2, <1>3, EndsStep DEF Terminal
<1>4. CASE /\ stage' = "inference" /\ Kind = "episode" /\ ~(steps'[run.op] >= MaxSteps)
           /\ UNCHANGED <<gatewayVars, channelVars, bound, wLast, run, wCancel, accepted>>
  <2>1. steps'[run.op] = steps[run.op] + 1 /\ steps[run.op] \in Nat
    BY <1>1 DEF Inductive, TypeOK, Touches
  <2>2. Limit(run.op) = MaxSteps /\ MaxSteps \in Nat
    BY <1>4, SizeAssumption DEF Limit, Kind
  <2>3. steps'[run.op] < Limit(run.op) /\ steps'[run.op] <= Limit(run.op)
    BY <1>4, <2>1, <2>2
  <2>4. Active'
    BY <1>1, <1>4, <2>3 DEF Active, Kind
  <2>5. QED
    BY <1>1, <1>2, <1>4, <2>3, <2>4, GoesOn
<1>5. QED
  BY <1>3, <1>4 DEF StepDone

LEMMA StepFailsStep ==
  ASSUME Inductive, StepFails
  PROVE  Inductive'
<1>1. /\ run # None /\ stage = "env_step" /\ Ends("FAILED") /\ "FAILED" \in Terminal
      /\ UNCHANGED <<wEffect, wEpisode, wEnded>>
      /\ steps' = steps \/ Touches
  BY DEF StepFails, Terminal
<1>2. run.op \notin accepted /\ (Kind # "reset" => wEffect) /\ (~wEffect => steps[run.op] = 0)
  BY <1>1 DEF Inductive, Active
<1>3. /\ wEpisode' \in Nat /\ wEpisode <= wEpisode' /\ wEffect' \in BOOLEAN /\ wEnded' \in BOOLEAN
  BY <1>1 DEF Inductive, TypeOK
<1>4. ~wEffect' => steps'[run.op] = 0 \/ ResetFailed(run.op, "FAILED")
  BY <1>1, <1>2 DEF ResetFailed, Kind
<1>5. QED
  BY <1>1, <1>2, <1>3, <1>4, EndsStep

\* A cancellation is accepted only of what has not touched the environment.
LEMMA HandleControlStep ==
  ASSUME Inductive, HandleControl
  PROVE  Inductive'
<1> USE DEF Inductive, gatewayVars, sessionVars
<1>1. /\ controls' \in Seq(Controls)
      /\ UNCHANGED <<gatewayVars, pending, commands, results, wEpisode, wEnded, wLast,
                     run, stage, wEffect, steps>>
  BY TailQueue DEF HandleControl, TypeOK
<1>2. /\ bound' \in BOOLEAN /\ wCancel' \in BOOLEAN /\ (wCancel => wCancel')
      /\ \/ accepted' = accepted
         \/ /\ run # None /\ accepted' = accepted \cup {run.op}
            /\ wCancel' /\ Cancellable
  BY DEF HandleControl, TypeOK
<1>3. OpsIn(commands) \subseteq Ops /\ (run # None => run.op \in Ops)
  BY PlacesType
<1>4. TypeOK'
  BY <1>1, <1>2, <1>3 DEF TypeOK
<1>5. Placed'
  BY <1>1 DEF Placed
<1>6. Untouched'
  BY <1>1, <1>2, <1>3 DEF Untouched, Placed
<1>7. Active'
  BY <1>1, <1>2 DEF Active, Kind, Cancellable
<1>8. Honest'
  BY <1>1, <1>2 DEF Honest, Active, Cancellable
<1>9. Episodes'
  BY <1>1 DEF Episodes, OwnEpisode, Kind
<1>10. QED
  BY <1>4, <1>5, <1>6, <1>7, <1>8, <1>9

LEMMA ReapStep ==
  ASSUME Inductive, Reap \/ UNCHANGED vars
  PROVE  Inductive'
<1> USE DEF Inductive, vars, gatewayVars, sessionVars, channelVars, slotVars, activeVars, historyVars
<1>1. /\ bound' \in BOOLEAN
      /\ UNCHANGED <<gatewayVars, channelVars, wEpisode, wEnded, wLast, activeVars, historyVars>>
  BY DEF Reap, TypeOK
<1>2. TypeOK'
  BY <1>1 DEF TypeOK
<1>3. Placed' /\ Untouched'
  BY <1>1 DEF Placed, Untouched
<1>4. Active' /\ Honest' /\ Episodes'
  BY <1>1 DEF Active, Honest, Episodes, OwnEpisode, Kind
<1>5. QED
  BY <1>2, <1>3, <1>4

-----------------------------------------------------------------------------
\* Records, queues and the running command stay consistent in every execution of
\* the session.
THEOREM OperationsInvariant == Spec => []Inductive
<1>1. Inductive /\ [Next]_vars => Inductive'
  BY CallStep, TimeoutStep, CancelRequestStep, LockHandoverStep, DrainStep,
     CloseSessionStep, PurgeStep, ReceiveStep, StartStep, InferenceStep, ResetDoneStep,
     StepDoneStep, StepFailsStep, HandleControlStep, ReapStep
  DEF Next, WorkerStep
<1>2. QED
  BY <1>1, InitInductive, PTL DEF Spec

\* WorkerInv: an operation runs in the episode the gateway issued it for, also when
\* the reset before it timed out and its result is still under way.
THEOREM WorkerTheorem == Spec => []WorkerInv
<1>1. Inductive => WorkerInv
  BY DEF Inductive, WorkerInv, Episodes
<1>2. QED
  BY <1>1, OperationsInvariant, PTL

\* AtMostOnce: an operation touches the environment at most once, an episode at
\* most max_steps times.
THEOREM OnceTheorem == Spec => []AtMostOnce
<1>1. Inductive => AtMostOnce
  BY DEF Inductive, Honest, Limit, AtMostOnce
<1>2. QED
  BY <1>1, OperationsInvariant, PTL

\* HonestRegistry: a terminal record without side_effect_applied, that of a failed
\* reset excepted, and the worker's word that it has cancelled an operation, are
\* true for ever.
THEOREM HonestTheorem == Spec => []HonestRegistry
<1>1. Inductive => HonestRegistry
  BY DEF Inductive, Honest, Active, HonestRegistry, CancelIsFinal
<1>2. QED
  BY <1>1, OperationsInvariant, PTL

\* NeverBack: the gateway's episode does not go back and a terminal record is not
\* changed, in whatever order calls time out and late results come.
THEOREM NeverBackTheorem == Spec => NeverBack
<1>1. Inductive /\ [Next]_vars =>
        [/\ gwEpisode' >= gwEpisode
         /\ \A o \in Ops : reg[o] \in Terminal =>
              reg'[o] = reg[o] /\ regEffect'[o] = regEffect[o]]_vars
  <2> SUFFICES ASSUME Inductive, [Next]_vars
               PROVE  /\ gwEpisode' >= gwEpisode
                      /\ \A o \in Ops : reg[o] \in Terminal =>
                           reg'[o] = reg[o] /\ regEffect'[o] = regEffect[o]
    OBVIOUS
  <2> USE DEF Inductive
  <2>1. gwEpisode \in Nat /\ reg \in [Ops -> {"none", "ACCEPTED", "RUNNING"} \cup Terminal]
        /\ regEffect \in [Ops -> BOOLEAN]
    BY DEF TypeOK
  <2>2. CASE Drain
    <3> DEFINE r == Head(results)
    <3>1. r \in Elems(results) /\ r \in Results /\ r.op \in OpsIn(results)
      BY <2>2, TailQueue DEF Drain, TypeOK
    <3>2. r.op \in Ops /\ r.episode \in Nat /\ gwEpisode <= r.episode /\ reg[r.op] = "RUNNING"
      BY <3>1 DEF Results, Episodes, Placed
    <3>3. Finish(r)
      BY <2>2, <3>2 DEF Drain, Terminal
    <3>4. QED
      BY <2>1, <3>2, <3>3 DEF Finish, FinishKnown, FinishForgotten, Settle, Terminal
  <2>3. ASSUME NEW o \in Ops, Call(o) \/ Timeout(o) \/ CancelRequest(o)
        PROVE  UNCHANGED <<gwEpisode, regEffect>>
               /\ \A x \in Ops : reg[x] \in Terminal => reg'[x] = reg[x]
    BY <2>1, <2>3 DEF Call, Fresh, Dispatch, Timeout, CancelRequest, Terminal
  <2>4. CASE LockHandover
    BY <2>1, <2>4 DEF LockHandover, Dispatch, Terminal
  <2>5. CASE CloseSession \/ Purge \/ Receive \/ WorkerStep \/ HandleControl \/ Reap \/ UNCHANGED vars
    <3>1. UNCHANGED <<gwEpisode, reg, regEffect>>
      BY <2>5 DEF CloseSession, Purge, Receive, WorkerStep, Start, InferenceDone, InferenceCancelled,
                  InferenceFails, ResetDone, StepDone, StepFails, Raises, Ends, Enters,
                  HandleControl, Reap, vars, gatewayVars
    <3>2. QED
      BY <2>1, <3>1
  <2>6. QED
    BY <2>1, <2>2, <2>3, <2>4, <2>5 DEF Next
<1>2. QED
  BY <1>1, OperationsInvariant, PTL DEF Spec, NeverBack
=============================================================================
