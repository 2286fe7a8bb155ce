-------------------------- MODULE GatewaySessions ---------------------------
(***************************************************************************)
(* The session plane of the rollout gateway (rollout_runtime/gateway):     *)
(* RuntimeGateway create/close/renew and its maintenance and heartbeat     *)
(* loops (gateway.py), the session table and its client-key index          *)
(* (session_manager.py), the session quota (admission.py) and the load and *)
(* health of the env-worker ranks (worker_registry.py), for the sessions   *)
(* of one application.                                                     *)
(*                                                                         *)
(* One event loop: code between two awaits is one step.  The awaits are    *)
(* the control messages CREATE_BINDING and RELEASE_BINDING, which the      *)
(* dispatcher answers with a result or an error and never by raising.      *)
(* Creates and closes of any sessions interleave at them with each other   *)
(* and with the two loops.                                                 *)
(*                                                                         *)
(* Time is a flag that may be set at any moment: a lease that has run out, *)
(* a heartbeat that is too old.  The retention of FAILED and LOST records  *)
(* may be over at any moment.                                              *)
(***************************************************************************)
EXTENDS Naturals, FiniteSets

CONSTANTS Sessions,     \* session ids; new_session_id never repeats one
          Keys,         \* client_session_key values
          Ranks,        \* registered env-worker ranks
          Calls,        \* close_sessions tasks of clients
          Maintenance,  \* the close the maintenance loop is in
          MaxSessions,  \* max_sessions_per_application
          None

ASSUME QuotaAssumption == MaxSessions \in Nat \ {0}
ASSUME CallAssumption == Maintenance \notin Calls
ASSUME SessionAssumption == IsFiniteSet(Sessions)
ASSUME NoneAssumption == None \notin Sessions \cup Keys \cup Ranks

VARIABLES
  state,      \* SessionRecord.state; "none" is not in the table
  used,       \* session ids given out so far
  rank,       \* record.worker_rank, set by commit_binding
  trying,     \* rank a create waits for
  attempted,  \* attempted_workers of a create
  key,        \* record.client_session_key
  byKey,      \* _by_client_key
  expired,    \* sessions whose lease_expiration has passed
  busy,       \* sessions with an active_operation
  quota,      \* AdmissionController._sessions[application]
  healthy,    \* ranks marked healthy
  aged,       \* ranks whose heartbeat_at is beyond the timeout
  canCreate,  \* ranks with can_create_slot
  load,       \* active_sessions of each rank
  call,       \* the session each close is waiting for, or None
  due         \* what expired_sessions() returned and is not handled yet

records == <<state, used, rank, trying, attempted, key, byKey>>
ranks   == <<healthy, aged, canCreate, load>>
vars    == <<records, expired, busy, quota, ranks, call, due>>

Closers == Calls \cup {Maintenance}
Held == {"CREATING", "READY", "CLOSING", "LOST"}

Init ==
  /\ state = [s \in Sessions |-> "none"] /\ used = {}
  /\ rank = [s \in Sessions |-> None] /\ trying = [s \in Sessions |-> None]
  /\ attempted = [s \in Sessions |-> {}]
  /\ key = [s \in Sessions |-> None] /\ byKey = [k \in Keys |-> None]
  /\ expired = {} /\ busy = {} /\ quota = 0
  /\ healthy = Ranks /\ aged = {} /\ canCreate = Ranks
  /\ load = [r \in Ranks |-> 0]
  /\ call = [c \in Closers |-> None] /\ due = {}

Less1(n) == IF n = 0 THEN 0 ELSE n - 1
ToState(s, to) == state' = [state EXCEPT ![s] = to]

\* release_session
ReleaseSession == quota' = Less1(quota)

\* workers.release of one rank
ReleaseRank(r, restore) ==
  /\ load' = [load EXCEPT ![r] = Less1(@)]
  /\ canCreate' = IF restore THEN canCreate \cup {r} ELSE canCreate

\* Until it waits for an answer or has finished its list, the maintenance loop
\* has the event loop to itself.
LoopFree == due = {} \/ call[Maintenance] # None

(***************************************************************************)
(* _create_session                                                         *)
(***************************************************************************)
\* select_rank: least loaded of the healthy ranks that can create a slot and
\* were not attempted, among equals whichever is smallest.
Selectable(tried, usable, l) ==
  LET free == (healthy \cap usable) \ tried
  IN {r \in free : \A q \in free : l[r] <= l[q]}

\* The call returns: its local variables are gone.
CreateEnds(s) == /\ trying' = [trying EXCEPT ![s] = None]
                 /\ attempted' = [attempted EXCEPT ![s] = {}]

\* Mutant of CreateSession: a key whose record FAILED is free again.
CreateSessionAfterFailure(s, k) ==
  /\ LoopFree
  /\ s \notin used
  /\ quota < MaxSessions
  /\ byKey[k] # None => state[byKey[k]] \in {"CLOSED", "CLOSING", "FAILED"}
  /\ used' = used \cup {s}
  /\ key' = [key EXCEPT ![s] = k]
  /\ byKey' = [byKey EXCEPT ![k] = s]
  /\ \E r \in Selectable({}, canCreate, load) :
       /\ ToState(s, "CREATING")
       /\ trying' = [trying EXCEPT ![s] = r]
       /\ load' = [load EXCEPT ![r] = @ + 1]
       /\ quota' = quota + 1
  /\ UNCHANGED <<rank, attempted, expired, busy, healthy, aged, canCreate, call, due>>

\* admit_session, sessions.create, select_rank and acquire up to the await.  A
\* key that still names a live record is answered with that record and leaves
\* everything as it was.
CreateSession(s, k) ==
  /\ LoopFree
  /\ s \notin used
  /\ quota < MaxSessions
  /\ byKey[k] # None => state[byKey[k]] \in {"CLOSED", "CLOSING"}
  /\ used' = used \cup {s}
  /\ key' = [key EXCEPT ![s] = k]
  /\ byKey' = [byKey EXCEPT ![k] = s]
  /\ \/ \E r \in Selectable({}, canCreate, load) :
          /\ ToState(s, "CREATING")
          /\ trying' = [trying EXCEPT ![s] = r]
          /\ load' = [load EXCEPT ![r] = @ + 1]
          /\ quota' = quota + 1
     \/ /\ Selectable({}, canCreate, load) = {}
        /\ ToState(s, "FAILED")
        /\ UNCHANGED <<trying, load, quota>>
  /\ UNCHANGED <<rank, attempted, expired, busy, healthy, aged, canCreate, call, due>>

\* The binding is there: commit_binding.
BindingCreated(s) ==
  /\ LoopFree
  /\ state[s] = "CREATING"
  /\ ToState(s, "READY")
  /\ rank' = [rank EXCEPT ![s] = trying[s]]
  /\ CreateEnds(s)
  /\ UNCHANGED <<used, key, byKey, expired, busy, quota, ranks, call, due>>
\* The worker refused, or the wait timed out: the create fails.
BindingFailed(s) ==
  /\ LoopFree
  /\ state[s] = "CREATING"
  /\ ReleaseRank(trying[s], FALSE)
  /\ ReleaseSession
  /\ ToState(s, "FAILED")
  /\ CreateEnds(s)
  /\ UNCHANGED <<used, rank, key, byKey, expired, busy, healthy, aged, call, due>>

\* RESOURCE_EXHAUSTED: the rank is marked and the next one tried, until none
\* is left.
BindingExhausted(s) ==
  /\ LoopFree
  /\ state[s] = "CREATING"
  /\ LET r == trying[s]
         freed == [load EXCEPT ![r] = Less1(@)]
         next == Selectable(attempted[s] \cup {r}, canCreate \ {r}, freed)
     IN /\ canCreate' = canCreate \ {r}
        /\ \/ \E q \in next :
                /\ attempted' = [attempted EXCEPT ![s] = @ \cup {r}]
                /\ trying' = [trying EXCEPT ![s] = q]
                /\ load' = [freed EXCEPT ![q] = @ + 1]
                /\ UNCHANGED <<state, quota>>
           \/ /\ next = {}
              /\ CreateEnds(s)
              /\ load' = freed
              /\ ToState(s, "FAILED")
              /\ ReleaseSession
  /\ UNCHANGED <<used, rank, key, byKey, expired, busy, healthy, aged, call, due>>

(***************************************************************************)
(* _close_session                                                          *)
(***************************************************************************)
\* finish_close and what follows it: the rank and the quota are given back.
Finish(s) ==
  /\ ToState(s, "CLOSED")
  /\ IF rank[s] = None THEN UNCHANGED <<load, canCreate>> ELSE ReleaseRank(rank[s], TRUE)
  /\ ReleaseSession

\* A READY session goes to CLOSING and waits for its RELEASE_BINDING; a FAILED
\* or LOST one waits only if it has a binding on a rank that is healthy now.
\* Any other state is answered at once.
Close(c, s) ==
  /\ call[c] = None
  /\ \/ /\ state[s] = "READY"
        /\ ToState(s, "CLOSING")
        /\ call' = [call EXCEPT ![c] = s]
        /\ UNCHANGED <<quota, load, canCreate>>
     \/ /\ state[s] \in {"FAILED", "LOST"} /\ rank[s] \in healthy
        /\ call' = [call EXCEPT ![c] = s]
        /\ UNCHANGED <<state, quota, load, canCreate>>
     \/ /\ state[s] \in {"FAILED", "LOST"} /\ rank[s] \notin healthy
        /\ Finish(s)
        /\ UNCHANGED call
  /\ UNCHANGED <<used, rank, trying, attempted, key, byKey, expired, busy, healthy, aged>>

CloseSession(c, s) == LoopFree /\ Close(c, s) /\ UNCHANGED due
\* Mutant of CloseReply: what another close has finished is finished again.
CloseReplyTwice(c) ==
  /\ LoopFree
  /\ call[c] # None
  /\ Finish(call[c])
  /\ call' = [call EXCEPT ![c] = None]
  /\ UNCHANGED <<used, rank, trying, attempted, key, byKey, expired, busy, healthy, aged, due>>

\* Mutant of CloseReply: the release on a dead rank ends the close with an error.
CloseReplyGivesUp(c) ==
  /\ LoopFree
  /\ call[c] # None
  /\ IF state[call[c]] \in {"CLOSING", "FAILED", "LOST"} /\ rank[call[c]] \in healthy
       THEN Finish(call[c])
       ELSE UNCHANGED <<state, load, canCreate, quota>>
  /\ call' = [call EXCEPT ![c] = None]
  /\ UNCHANGED <<used, rank, trying, attempted, key, byKey, expired, busy, healthy, aged, due>>

\* The release was answered.  finish_close refuses a record that another close
\* has finished, or that has been purged: then nothing is given back.
CloseReply(c) ==
  /\ LoopFree
  /\ call[c] # None
  /\ IF state[call[c]] \in {"CLOSING", "FAILED", "LOST"}
       THEN Finish(call[c])
       ELSE UNCHANGED <<state, load, canCreate, quota>>
  /\ call' = [call EXCEPT ![c] = None]
  /\ UNCHANGED <<used, rank, trying, attempted, key, byKey, expired, busy, healthy, aged, due>>

(***************************************************************************)
(* Leases and operations                                                   *)
(***************************************************************************)
LeaseExpires(s) ==
  /\ LoopFree
  /\ state[s] = "READY"
  /\ expired' = expired \cup {s}
  /\ UNCHANGED <<records, busy, quota, ranks, call, due>>

\* renew_sessions
RenewSession(s) ==
  /\ LoopFree
  /\ state[s] = "READY" /\ s \in expired
  /\ expired' = expired \ {s}
  /\ UNCHANGED <<records, busy, quota, ranks, call, due>>

\* begin_operation under the session lock, and end_operation.
BeginOperation(s) ==
  /\ LoopFree
  /\ state[s] = "READY" /\ s \notin busy
  /\ busy' = busy \cup {s}
  /\ UNCHANGED <<records, expired, quota, ranks, call, due>>

EndOperation(s) ==
  /\ LoopFree
  /\ s \in busy
  /\ busy' = busy \ {s}
  /\ UNCHANGED <<records, expired, quota, ranks, call, due>>

(***************************************************************************)
(* The maintenance loop: recover_expired_sessions, then                    *)
(* _reap_stale_workers, then purge_terminal                                *)
(***************************************************************************)
MaintenanceIdle == call[Maintenance] = None /\ due = {}

\* expired_sessions() is evaluated once per round.
RecoverStart ==
  /\ MaintenanceIdle
  /\ due' = {s \in expired : state[s] = "READY"}
  /\ due' # {}
  /\ UNCHANGED <<records, expired, busy, quota, ranks, call>>

\* One record of the list: skipped while an operation runs, else closed, one
\* after the other.  A close that is answered at once changes nothing.
RecoverOne(s) ==
  /\ s \in due /\ call[Maintenance] = None
  /\ due' = due \ {s}
  /\ IF s \notin busy /\ state[s] \in {"READY", "LOST"}
       THEN Close(Maintenance, s)
       ELSE UNCHANGED <<records, expired, busy, quota, ranks, call>>

\* mark_unhealthy, and mark_lost for every READY session on the rank.
ReapStaleWorker(r) ==
  /\ MaintenanceIdle
  /\ r \in healthy \cap aged
  /\ healthy' = healthy \ {r}
  /\ state' = [s \in Sessions |-> IF state[s] = "READY" /\ rank[s] = r THEN "LOST"
                                  ELSE state[s]]
  /\ UNCHANGED <<used, rank, trying, attempted, key, byKey, expired, busy, quota,
                 aged, canCreate, load, call, due>>
\* The record is deleted with everything in it.
Delete(s) ==
  /\ ToState(s, "none")
  /\ rank' = [rank EXCEPT ![s] = None]
  /\ key' = [key EXCEPT ![s] = None]
  /\ expired' = expired \ {s}
  /\ busy' = busy \ {s}

\* purge_terminal of one record; the key is dropped only if it is still its own.
Purge(s) ==
  /\ MaintenanceIdle
  /\ state[s] \in {"CLOSED", "FAILED", "LOST"}
  /\ Delete(s)
  /\ byKey' = [k \in Keys |-> IF byKey[k] = s THEN None ELSE byKey[k]]
  /\ UNCHANGED <<used, trying, attempted, quota, ranks, call, due>>

(***************************************************************************)
(* Heartbeats                                                              *)
(***************************************************************************)
HeartbeatAges(r) ==
  /\ LoopFree
  /\ r \notin aged
  /\ aged' = aged \cup {r}
  /\ UNCHANGED <<records, expired, busy, quota, healthy, canCreate, load, call, due>>

\* A successful probe registers the rank again.
HeartbeatOk(r) ==
  /\ LoopFree
  /\ r \in aged
  /\ aged' = aged \ {r}
  /\ healthy' = healthy \cup {r}
  /\ UNCHANGED <<records, expired, busy, quota, canCreate, load, call, due>>

Next == \/ \E s \in Sessions :
             \/ \E k \in Keys : CreateSession(s, k)
             \/ BindingCreated(s) \/ BindingFailed(s) \/ BindingExhausted(s)
             \/ \E c \in Calls : CloseSession(c, s)
             \/ LeaseExpires(s) \/ RenewSession(s)
             \/ BeginOperation(s) \/ EndOperation(s)
             \/ RecoverOne(s) \/ Purge(s)
        \/ \E c \in Closers : CloseReply(c)
        \/ RecoverStart
        \/ \E r \in Ranks : ReapStaleWorker(r) \/ HeartbeatAges(r) \/ HeartbeatOk(r)

Spec == Init /\ [][Next]_vars

\* The maintenance loop keeps running, a control message is answered within
\* command_timeout_seconds, and an operation ends.
FairSpec == /\ Spec
            /\ WF_vars(RecoverStart)
            /\ \A c \in Closers : SF_vars(CloseReply(c))
            /\ \A s \in Sessions : /\ WF_vars(RecoverOne(s))
                                  /\ SF_vars(EndOperation(s))

-----------------------------------------------------------------------------
On(r) == {s \in Sessions : trying[s] = r \/ (rank[s] = r /\ state[s] \in Held)}

\* Session records and ranks have the values the code gives them; a create
\* waits for a rank exactly while it is CREATING.
TypeOK ==
  /\ state \in [Sessions -> Held \cup {"none", "CLOSED", "FAILED"}]
  /\ used \subseteq Sessions /\ expired \subseteq Sessions /\ busy \subseteq Sessions
  /\ due \subseteq Sessions
  /\ rank \in [Sessions -> Ranks \cup {None}]
  /\ trying \in [Sessions -> Ranks \cup {None}]
  /\ \A s \in Sessions : trying[s] # None <=> state[s] = "CREATING"
  /\ attempted \in [Sessions -> SUBSET Ranks]
  /\ key \in [Sessions -> Keys \cup {None}]
  /\ byKey \in [Keys -> Sessions \cup {None}]
  /\ quota \in 0 .. MaxSessions
  /\ healthy \subseteq Ranks /\ aged \subseteq Ranks /\ canCreate \subseteq Ranks
  /\ load \in [Ranks -> 0 .. Cardinality(Sessions)]
  /\ call \in [Closers -> Sessions \cup {None}]

\* select_rank balances on active_sessions, which never reports a rank less
\* loaded than it is: however creates fail over and closes race, no session's
\* place is given back twice.
LoadCoversSessions == \A r \in Ranks : load[r] >= Cardinality(On(r))

\* client_session_key idempotency: one key never has two records that are not
\* closing, although the record it used to name is purged later.
OneSessionPerKey ==
  \A s, t \in Sessions :
    s # t /\ key[s] = key[t] =>
      ~ ({state[s], state[t]} \subseteq {"CREATING", "READY", "FAILED", "LOST"})

\* A session that has begun to close is closed, also when two callers close it,
\* its rank dies or the maintenance loop is the caller.
ClosingEnds == \A s \in Sessions : state[s] = "CLOSING" ~> state[s] # "CLOSING"

\* The session table and the rank load agree while creates fail over, closes race
\* and ranks die (_create_session, _close_session).
SessionInv == TypeOK /\ LoadCoversSessions
=============================================================================
