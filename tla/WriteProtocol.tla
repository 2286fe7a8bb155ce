---------------------------- MODULE WriteProtocol ----------------------------
(***************************************************************************)
(* The write protocol of a persistent environment server: every write      *)
(* carries a binding token, a session, an episode and a sequence number,   *)
(* and the server caches the terminal result of each request id, so that a *)
(* client may send a write a second time after a transport timeout         *)
(* (robots/robocasa/operation_protocol.py, env_server.py, env_client.py).  *)
(*                                                                         *)
(* A write runs under the registry's lock: serving it, with its answer, is *)
(* one action.  A timed-out attempt stays in the network and may be served *)
(* much later.                                                             *)
(* The identity of an episode is the identity of the reset that began it.  *)
(***************************************************************************)
EXTENDS Naturals, Sequences, FiniteSets

CONSTANTS Slots,      \* the environment servers
          Clients,    \* processes that own a RoboCasaEnvClient
          MaxWrites,  \* bound: writes each client issues
          MaxRestarts, \* bound: replacements of a server process
          CacheSize,  \* maximum_cached_results
          None

ASSUME CacheAssumption == CacheSize \in Nat \ {0}
ASSUME WritesAssumption == MaxWrites \in [Clients -> Nat]

\* A client numbers its writes and its sessions.
Ids == Clients \X Nat
SessionIds == UNION {{c} \X (0 .. MaxWrites[c]) : c \in Clients}

\* WriteEnvelope, and a write applied to a simulator.
Request == [id : Ids, slot : Slots, session : SessionIds, token : Nat,
            op : {"reset", "write", "release"}, episode : Ids, seq : Nat]
Application == [req : Request, out : {"COMMITTED", "OUTCOME_UNKNOWN"}, count : Nat]

ASSUME NoneAssumption == None \notin Slots /\ None \notin Ids /\ None \notin Application

VARIABLES
  reg,   \* the IdempotentWriteRegistry of each slot
  cl,    \* the RoboCasaEnvClient of each client
  net,   \* attempts sent and not yet served
  last,  \* history: the last write applied in the slot's process
  done,  \* history: the writes ever applied to a simulator
  restarts

vars == <<reg, cl, net, last, done, restarts>>

NewRegistry(t) == [token |-> t, session |-> None, episode |-> None, seq |-> 0,
                   lost |-> FALSE, cache |-> <<>>]

\* A client of slot s (None: no process) that has issued n writes so far.
NewClient(s, n) == [slot |-> s, session |-> n, token |-> None, episode |-> None,
                    seq |-> 0, unknown |-> FALSE, req |-> None, try |-> 0, n |-> n]

Init ==
  /\ restarts = 0
  /\ reg = [s \in Slots |-> NewRegistry(1)]
  /\ cl = [c \in Clients |-> NewClient(None, 0)]
  /\ net = {} /\ done = {}
  /\ last = [s \in Slots |-> None]

\* IdempotentWriteRegistry.state
Phase(s) == IF reg[s].lost THEN "LOST"
            ELSE IF reg[s].episode # None THEN "EPISODE_ACTIVE"
            ELSE IF reg[s].session # None THEN "BOUND" ELSE "FREE"

-----------------------------------------------------------------------------
(* The client: _write and _request.                                        *)

\* A write is composed; a client without a token reads it from /health first.
\* "write" stands for execute_chunk, finalize_episode and close.
Send(c, op) ==
  LET me == cl[c]
      id == <<c, me.n + 1>>
      token == IF me.token = None THEN reg[me.slot].token ELSE me.token
      r == [id |-> id, slot |-> me.slot, session |-> <<c, me.session>>,
            token |-> token, op |-> op,
            episode |-> IF op = "reset" THEN id ELSE me.episode,
            seq |-> IF op = "reset" THEN 0 ELSE me.seq]
  IN /\ me.slot # None /\ me.req = None /\ me.n < MaxWrites[c]
     /\ op = "release" => ~me.unknown
     /\ op # "reset" => me.episode # None
     /\ cl' = [cl EXCEPT ![c] = [me EXCEPT !.n = @ + 1, !.token = token,
                                 !.req = r, !.try = 1]]
     /\ net' = net \cup {[req |-> r, try |-> 1]}
     /\ UNCHANGED <<reg, last, done, restarts>>

\* The client after the answer to the attempt it waits for: only COMMITTED moves it on.
Received(me, answer) ==
  LET idle == [me EXCEPT !.req = None] IN
  CASE answer = "OUTCOME_UNKNOWN" -> [idle EXCEPT !.unknown = TRUE]
    [] answer = "COMMITTED" /\ me.req.op = "reset" ->
         [idle EXCEPT !.episode = me.req.episode, !.seq = 1, !.unknown = FALSE]
    [] answer = "COMMITTED" /\ me.req.op = "write" -> [idle EXCEPT !.seq = @ + 1]
    [] answer = "COMMITTED" /\ me.req.op = "release" ->
         [idle EXCEPT !.session = me.n, !.token = None, !.episode = None, !.seq = 0]
    [] OTHER -> idle

\* A transport timeout or a broken connection: the write is sent a second time,
\* and after that its outcome is unknown.
Timeout(c) ==
  LET me == cl[c] IN
  /\ me.req # None
  /\ IF me.try = 1
     THEN /\ cl' = [cl EXCEPT ![c].try = 2]
          /\ net' = net \cup {[req |-> me.req, try |-> 2]}
     ELSE /\ cl' = [cl EXCEPT ![c].req = None, ![c].unknown = TRUE]
          /\ UNCHANGED net
  /\ UNCHANGED <<reg, last, done, restarts>>

-----------------------------------------------------------------------------
(* The server: BoundedThreadingHTTPServer and IdempotentWriteRegistry.     *)

\* The answer reaches a client that still waits for this attempt.  A lost answer is a
\* client that timed out just before.
Answer(m, what) ==
  LET c == m.req.id[1] IN
  cl' = [cl EXCEPT ![c] = IF @.req = m.req /\ @.try = m.try THEN Received(@, what) ELSE @]

\* Mutant of Cached: the results of earlier requests are not looked up.
NeverCached(R, r) == {}

\* The cached result of a request id.
Cached(R, r) == {R.cache[i] : i \in {j \in DOMAIN R.cache : R.cache[j].id = r.id}}

\* Mutant of Bindable: any session may write.
BindableByAnyone(R, r) == r.token = R.token /\ ~R.lost

\* The checks before a session is bound.
Bindable(R, r) ==
  /\ r.token = R.token
  /\ ~R.lost
  /\ R.session \in {None, r.session}

\* Mutant of InSequence: the sequence number is not compared.
InSequenceAny(R, r) ==
  IF r.op = "reset" THEN r.seq = 0 /\ R.episode # r.episode ELSE R.episode = r.episode

\* The checks after it.
InSequence(R, r) ==
  IF r.op = "reset" THEN r.seq = 0 /\ R.episode # r.episode
                    ELSE R.episode = r.episode /\ r.seq = R.seq

\* A reset that raises is always taken as written; an artifact flush never writes.
Outcomes(op) ==
  CASE op = "reset"   -> {"COMMITTED", "OUTCOME_UNKNOWN"}
    [] op = "write"   -> {"COMMITTED", "REJECTED", "OUTCOME_UNKNOWN"}
    [] op = "release" -> {"COMMITTED", "REJECTED"}

\* _cache_result
Remember(cache, r, out) ==
  LET longer == Append(cache, [id |-> r.id, out |-> out])
  IN IF Len(longer) > CacheSize THEN Tail(longer) ELSE longer

\* Mutant of After: a release leaves the episode active.
AfterKeepsEpisode(R, r, out) ==
  LET B == [R EXCEPT !.session = r.session, !.cache = Remember(@, r, out)]
  IN CASE out = "REJECTED" -> B
       [] out = "OUTCOME_UNKNOWN" -> [B EXCEPT !.lost = TRUE]
       [] out = "COMMITTED" /\ r.op = "reset" -> [B EXCEPT !.episode = r.episode, !.seq = 1]
       [] out = "COMMITTED" /\ r.op = "write" -> [B EXCEPT !.seq = @ + 1]
       [] out = "COMMITTED" /\ r.op = "release" ->
            [B EXCEPT !.token = @ + 1, !.session = None, !.seq = 0]

\* What a dispatched write leaves behind.
After(R, r, out) ==
  LET B == [R EXCEPT !.session = r.session, !.cache = Remember(@, r, out)]
  IN CASE out = "REJECTED" -> B
       [] out = "OUTCOME_UNKNOWN" -> [B EXCEPT !.lost = TRUE]
       [] out = "COMMITTED" /\ r.op = "reset" -> [B EXCEPT !.episode = r.episode, !.seq = 1]
       [] out = "COMMITTED" /\ r.op = "write" -> [B EXCEPT !.seq = @ + 1]
       [] out = "COMMITTED" /\ r.op = "release" ->
            [B EXCEPT !.token = @ + 1, !.session = None, !.episode = None, !.seq = 0]

\* The simulator is written unless the operation raised before it wrote.
Applied(s, r, out) ==
  IF out = "REJECTED" THEN UNCHANGED <<last, done>>
  ELSE /\ last' = [last EXCEPT ![s] =
                     [req |-> r, out |-> out,
                      count |-> IF @ = None THEN 1 ELSE @.count + 1]]
       /\ done' = done \cup {r.id}

\* IdempotentWriteRegistry.execute.  A refused request may have bound its session.
Serve(m) ==
  LET r == m.req
      s == r.slot
      R == reg[s]
  IN /\ m \in net
     /\ net' = net \ {m}
     /\ \/ \E hit \in Cached(R, r) :
             Answer(m, hit.out) /\ UNCHANGED <<reg, last, done>>
        \/ /\ Cached(R, r) = {} /\ ~Bindable(R, r)
           /\ Answer(m, "CONFLICT") /\ UNCHANGED <<reg, last, done>>
        \/ /\ Cached(R, r) = {} /\ Bindable(R, r) /\ ~InSequence(R, r)
           /\ reg' = [reg EXCEPT ![s].session = r.session]
           /\ Answer(m, "CONFLICT") /\ UNCHANGED <<last, done>>
        \/ /\ Cached(R, r) = {} /\ Bindable(R, r) /\ InSequence(R, r)
           /\ \E out \in Outcomes(r.op) :
                /\ reg' = [reg EXCEPT ![s] = After(R, r, out)]
                /\ Applied(s, r, out)
                /\ Answer(m, out)
     /\ UNCHANGED restarts

\* 503: the handlers are taken, by another attempt and a /health request that both
\* wait for the registry's lock.
Refuse(m) ==
  /\ m \in net
  /\ \E k \in net \ {m} : k.req.slot = m.req.slot
  /\ net' = net \ {m}
  /\ Answer(m, "QUEUE_FULL")
  /\ UNCHANGED <<reg, last, done, restarts>>

-----------------------------------------------------------------------------
(* Processes come and go.                                                  *)

\* A rollout process starts on a slot, with a session of its own.
Open(c) ==
  /\ cl[c].slot = None /\ cl[c].n < MaxWrites[c]
  /\ \E s \in Slots : cl' = [cl EXCEPT ![c] = NewClient(s, @.n)]
  /\ UNCHANGED <<reg, net, last, done, restarts>>

\* It ends or is killed; what it has sent stays in the network.
Exit(c) ==
  /\ cl[c].slot # None
  /\ cl' = [cl EXCEPT ![c] = NewClient(None, @.n)]
  /\ UNCHANGED <<reg, net, last, done, restarts>>

\* The server process is replaced: a registry with a token of its own, and nothing
\* that was on the sockets of the old process.
Restart(s) ==
  /\ restarts < MaxRestarts
  /\ restarts' = restarts + 1
  /\ reg' = [reg EXCEPT ![s] = NewRegistry(@.token + 1)]
  /\ net' = {m \in net : m.req.slot # s}
  /\ last' = [last EXCEPT ![s] = None]
  /\ UNCHANGED <<cl, done>>

Next ==
  \/ \E c \in Clients :
       Open(c) \/ Exit(c) \/ Timeout(c)
         \/ \E op \in {"reset", "write", "release"} : Send(c, op)
  \/ \E m \in net : Serve(m) \/ Refuse(m)
  \/ \E s \in Slots : Restart(s)

Spec == Init /\ [][Next]_vars

-----------------------------------------------------------------------------
(* Properties.  A write of slot s is applied in a step that changes last.  *)

\* Registries and clients have the values the code gives them: a server without a
\* session has no episode, and the cache of results is bounded (state, _cache_result).
TypeOK ==
  /\ \A s \in Slots : /\ Phase(s) \in {"FREE", "BOUND", "EPISODE_ACTIVE", "LOST"}
                      /\ Len(reg[s].cache) <= CacheSize
                      /\ reg[s].session = None => reg[s].episode = None /\ ~reg[s].lost
  /\ \A c \in Clients : /\ cl[c].n \in 0 .. MaxWrites[c] /\ cl[c].try \in 0 .. 2
  /\ \A m \in net : m.req.id[2] <= cl[m.req.id[1]].n

Writes(s) == last'[s] # last[s] /\ last'[s] # None

\* However often a write is sent, whenever its attempts arrive and whichever process
\* serves them, the simulator sees it at most once.  TLC's instance has a cache for
\* all the writes it issues, so no result is dropped (_cache_result) there; for any
\* cache it holds if the results of resets are dropped late enough (OnceTheorem).
AtMostOnce ==
  [][\A s \in Slots : Writes(s) => last'[s].req.id \notin done]_vars

\* A physical write extends its own episode: the write before it in the same process
\* is the committed write or reset with the sequence number just below.  Nothing
\* follows a write of unknown outcome, and no gap, replay or write of an earlier
\* episode gets through.  Another session writes only after the committed release of
\* the session before it, or to a new server process.
InOrder ==
  [][\A s \in Slots : Writes(s) =>
       LET r == last'[s].req IN
       /\ last[s] # None => /\ last[s].out = "COMMITTED"
                            /\ last[s].req.session = r.session \/ last[s].req.op = "release"
       /\ r.op # "reset" => /\ last[s] # None /\ last[s].req.episode = r.episode
                            /\ last[s].req.seq = r.seq - 1]_vars

Server == INSTANCE SlotServer WITH
  Sessions <- SessionIds,
  owner <- [s \in Slots |-> reg[s].session],
  lost <- {s \in Slots : reg[s].lost}

\* The protocol gives the farm what SlotServer promises.
ImplementsServer == Server!ServerSpec
=============================================================================
