---------------------------- MODULE InferenceService ----------------------------
(***************************************************************************)
(* Policy inference: the env worker's InferenceClient, the two bounded     *)
(* inference channels, and one RolloutWorker with its batch scheduler.     *)
(*                                                                         *)
(* Both workers are asyncio programs: code between two awaits is one       *)
(* action.  Inference itself runs in a thread and ends at some moment.     *)
(* A request waits max_wait_ms before a smaller batch may take it; ripe    *)
(* holds those that have waited that long.  Weights are versions 0, 1, ... *)
(***************************************************************************)
EXTENDS Naturals, Sequences, FiniteSets

CONSTANTS
    Requests,        \* inference requests, each submitted once
    KeyOf,           \* compat_key of a request
    SessionOf,       \* its session
    AppOf,           \* its application
    Rank,            \* its sort_key, (priority, deadline), as a number
    BatchSize,       \* max_batch_size
    MaxConcurrent,   \* max_concurrent_inferences
    MaxDepth,        \* max_queue_depth
    MaxPerApp,       \* max_inflight_per_application
    MaxPerSession,   \* max_inflight_per_session
    ChannelSize,     \* maxsize of rr_infer_req
    ResponseSize,    \* maxsize of the env worker's rr_infer_resp key
    MaxUpdates       \* bound on the number of weight updates tried

Keys == {KeyOf[r] : r \in Requests}
Sessions == {SessionOf[r] : r \in Requests}
Apps == {AppOf[r] : r \in Requests}

ASSUME SizeAssumption ==
    {BatchSize, MaxConcurrent, MaxDepth, MaxPerApp, MaxPerSession,
     ChannelSize, ResponseSize} \subseteq Nat \ {0}
ASSUME RankAssumption == Rank \in [Requests -> Nat] /\ MaxUpdates \in Nat

VARIABLES
    call,         \* the env worker's call of submit, per request
    channel,      \* rr_infer_req["pending"]
    responses,    \* rr_infer_resp of the env worker: <<request, outcome>>
    dropped,      \* history: requests whose response was dropped
    receiver,     \* receive_requests: "acquire" or, holding a slot, "get"
    slots,        \* free permits of the semaphore _slots
    queue,        \* the scheduler's requests, all buckets, in enqueue order
    ripe,         \* requests of the queue that have waited max_wait_ms
    inApp,        \* inflight_per_application
    inSession,    \* inflight_per_session
    inTotal,      \* inflight_total
    batches,      \* batches being run
    loop,         \* execute_batches: "run", "wait" for _wake, or "timed" wait
    wake,         \* the event _wake
    fence,        \* the version fence is up
    update,       \* update_weights: "idle" or "drain"
    version,      \* version of the weights
    updates       \* number of updates tried, at most MaxUpdates

clientVars == <<call, channel, responses, dropped>>
schedVars == <<queue, ripe, inApp, inSession, inTotal, batches>>
loopVars == <<loop, wake>>
updateVars == <<fence, update, version, updates>>
serviceVars == <<clientVars, receiver, slots, schedVars, loopVars, updateVars>>

ToSet(s) == {s[i] : i \in DOMAIN s}
Members(b) == ToSet(b.items)
InBatch == UNION {Members(b) : b \in batches}
Answers == {"action", "error"}

\* Calls, channels and loops have the values the code gives them; no queue exceeds
\* its bound (SchedulerConfig, put_request_nowait, put_response_nowait).
ServiceTypeOK ==
    /\ call \in [Requests -> {"new", "waiting", "full", "cancelled"} \cup Answers]
    /\ channel \in Seq(Requests) /\ Len(channel) <= ChannelSize
    /\ responses \in Seq(Requests \X Answers) /\ Len(responses) <= ResponseSize
    /\ dropped \subseteq Requests
    /\ receiver \in {"acquire", "get"}
    /\ slots \in 0 .. MaxConcurrent
    /\ queue \in Seq(Requests) /\ Len(queue) <= MaxDepth
    /\ ripe \subseteq ToSet(queue)
    /\ inApp \in [Apps -> 0 .. MaxPerApp]
    /\ inSession \in [Sessions -> 0 .. MaxPerSession]
    /\ inTotal \in Nat
    /\ batches \subseteq [items : Seq(Requests), version : Nat]
    /\ loop \in {"run", "wait", "timed"}
    /\ wake \in BOOLEAN /\ fence \in BOOLEAN
    /\ update \in {"idle", "drain"}
    /\ version \in Nat /\ updates \in 0 .. MaxUpdates

ServiceInit ==
    /\ call = [r \in Requests |-> "new"]
    /\ channel = <<>> /\ responses = <<>> /\ dropped = {}
    /\ receiver = "acquire" /\ slots = MaxConcurrent
    /\ queue = <<>> /\ ripe = {}
    /\ inApp = [a \in Apps |-> 0]
    /\ inSession = [s \in Sessions |-> 0]
    /\ inTotal = 0
    /\ batches = {}
    /\ loop = "run" /\ wake = FALSE
    /\ fence = FALSE /\ update = "idle" /\ version = 0 /\ updates = 0

---------------------------------------------------------------------------
(* The scheduler's choice of a batch.                                      *)

Pos(r) == CHOOSE i \in DOMAIN queue : queue[i] = r

\* The order of _selectable: sort_key, then time of enqueueing.
Before(r, s) == Rank[r] < Rank[s] \/ (Rank[r] = Rank[s] /\ Pos(r) < Pos(s))

\* The members of S in the order less, a set of pairs.
Sorted(S, less) ==
    [i \in 1 .. Cardinality(S) |->
        CHOOSE r \in S : Cardinality({s \in S : <<s, r>> \in less}) = i - 1]

Bucket(k) ==
    LET members == {r \in ToSet(queue) : KeyOf[r] = k}
    IN  Sorted(members, {p \in members \X members : Before(p[1], p[2])})

\* The queue without the requests of a batch.
QueueWithout(items) ==
    LET rest == ToSet(queue) \ ToSet(items)
    IN  Sorted(rest, {p \in rest \X rest : Pos(p[1]) < Pos(p[2])})

\* _has_quota: what is in flight, and what this batch has picked already.
HasQuota(r, picked) ==
    /\ inApp[AppOf[r]] + Cardinality({p \in ToSet(picked) : AppOf[p] = AppOf[r]})
            < MaxPerApp
    /\ inSession[SessionOf[r]]
         + Cardinality({p \in ToSet(picked) : SessionOf[p] = SessionOf[r]})
            < MaxPerSession

Selectable(k) ==
    LET bucket == Bucket(k)
        picked[i \in 0 .. Len(bucket)] ==
            IF i = 0 THEN <<>>
            ELSE IF Len(picked[i - 1]) < BatchSize /\ HasQuota(bucket[i], picked[i - 1])
                 THEN Append(picked[i - 1], bucket[i])
                 ELSE picked[i - 1]
    IN  picked[Len(bucket)]

\* The fence stops new batches only while others are in flight.
Fenced == fence /\ inTotal > 0

\* Batches that next_batch could issue now, one per bucket at most.
Ready ==
    IF Fenced THEN {}
    ELSE {items \in {Selectable(k) : k \in Keys} :
            /\ items # <<>>
            /\ Len(items) = BatchSize \/ ToSet(items) \cap ripe # {}}

\* The best of them; the code breaks ties by the age of the bucket.
Best == LET ready == Ready
        IN  {b \in ready : \A c \in ready : Rank[b[1]] <= Rank[c[1]]}

\* time_until_ready is not None.
SomethingSelectable == ~Fenced /\ \E k \in Keys : Selectable(k) # <<>>

---------------------------------------------------------------------------
(* The env worker.                                                         *)

\* InferenceClient.submit: a full channel is a rejection, never a wait.
Submit(r) ==
    /\ call[r] = "new"
    /\ IF Len(channel) < ChannelSize
       THEN /\ call' = [call EXCEPT ![r] = "waiting"]
            /\ channel' = Append(channel, r)
       ELSE /\ call' = [call EXCEPT ![r] = "full"]
            /\ UNCHANGED channel
    /\ UNCHANGED <<responses, dropped, receiver, slots, schedVars, loopVars, updateVars>>

\* cancel_request cancels the future; the request itself stays under way.
Cancel(r) ==
    /\ call[r] = "waiting"
    /\ call' = [call EXCEPT ![r] = "cancelled"]
    /\ UNCHANGED <<channel, responses, dropped, receiver, slots, schedVars, loopVars,
                   updateVars>>

\* InferenceClient._drain and deliver: an answer nobody waits for is discarded.
Deliver ==
    /\ responses # <<>>
    /\ LET r == Head(responses)[1] IN
       call' = [call EXCEPT ![r] = IF @ = "waiting" THEN Head(responses)[2] ELSE @]
    /\ responses' = Tail(responses)
    /\ UNCHANGED <<channel, dropped, receiver, slots, schedVars, loopVars, updateVars>>

---------------------------------------------------------------------------
(* RolloutWorker.receive_requests.                                         *)

\* With the queue at its watermark the permit is given back and taken later.
ReceiveAcquire ==
    /\ receiver = "acquire"
    /\ slots > 0
    /\ Len(queue) < MaxDepth
    /\ slots' = slots - 1
    /\ receiver' = "get"
    /\ UNCHANGED <<clientVars, schedVars, loopVars, updateVars>>

ReceiveGet ==
    /\ receiver = "get"
    /\ channel # <<>>
    /\ channel' = Tail(channel)
    /\ queue' = Append(queue, Head(channel))
    /\ wake' = TRUE
    /\ receiver' = "acquire"
    /\ UNCHANGED <<call, responses, dropped, slots, ripe, inApp, inSession, inTotal,
                   batches, loop, updateVars>>

\* Mutant of ReceiveFails: the permit is kept.
ReceiveFailsKeepsSlot ==
    /\ receiver = "get"
    /\ receiver' = "acquire"
    /\ UNCHANGED <<clientVars, slots, schedVars, loopVars, updateVars>>

\* Any other error of get_request.
ReceiveFails ==
    /\ receiver = "get"
    /\ slots' = slots + 1
    /\ receiver' = "acquire"
    /\ UNCHANGED <<clientVars, schedVars, loopVars, updateVars>>

---------------------------------------------------------------------------
(* RolloutWorker.execute_batches and _run_batch.                           *)

\* next_batch, and the task that runs the batch.
Issue ==
    /\ loop = "run"
    /\ \E items \in Best :
         /\ batches' = batches \cup {[items |-> items, version |-> version]}
         /\ queue' = QueueWithout(items)
         /\ ripe' = ripe \ ToSet(items)
         /\ inApp' = [a \in Apps |->
                inApp[a] + Cardinality({r \in ToSet(items) : AppOf[r] = a})]
         /\ inSession' = [s \in Sessions |->
                inSession[s] + Cardinality({r \in ToSet(items) : SessionOf[r] = s})]
         /\ inTotal' = inTotal + Len(items)
    /\ UNCHANGED <<clientVars, receiver, slots, loopVars, updateVars>>

\* Nothing to issue: clear the event, then wait for it or for a request to ripen.
Sleep ==
    /\ loop = "run"
    /\ Ready = {}
    /\ wake' = FALSE
    /\ loop' = IF SomethingSelectable THEN "timed" ELSE "wait"
    /\ UNCHANGED <<clientVars, receiver, slots, schedVars, updateVars>>

WakeUp ==
    /\ \/ loop = "wait" /\ wake
       \/ loop = "timed" /\ (wake \/ Ready # {})
    /\ loop' = "run"
    /\ UNCHANGED <<clientVars, receiver, slots, schedVars, wake, updateVars>>

\* max_wait_ms passes for a request of the queue.
Ripen(r) ==
    /\ r \in ToSet(queue) \ ripe
    /\ ripe' = ripe \cup {r}
    /\ UNCHANGED <<clientVars, receiver, slots, queue, inApp, inSession, inTotal,
                   batches, loopVars, updateVars>>

\* Mutant of FinishBatch: the loop is not woken.
FinishBatchNoWake(b, failed) ==
    LET answer(r) == <<r, IF r \in failed THEN "error" ELSE "action">>
        room == ResponseSize - Len(responses)
        sent == SubSeq(b.items, 1, IF room < Len(b.items) THEN room ELSE Len(b.items))
    IN  /\ responses' = responses \o [i \in DOMAIN sent |-> answer(sent[i])]
        /\ dropped' = dropped \cup (Members(b) \ ToSet(sent))
        /\ batches' = batches \ {b}
        /\ inApp' = [a \in Apps |->
               inApp[a] - Cardinality({r \in Members(b) : AppOf[r] = a})]
        /\ inSession' = [s \in Sessions |->
               inSession[s] - Cardinality({r \in Members(b) : SessionOf[r] = s})]
        /\ inTotal' = inTotal - Len(b.items)
        /\ slots' = slots + Len(b.items)
        /\ UNCHANGED <<call, channel, receiver, queue, ripe, loopVars, updateVars>>

\* _run_batch from the end of inference on: answers in order, a full response
\* queue drops the answer; then quotas, permits and the wake-up.
FinishBatch(b, failed) ==
    LET answer(r) == <<r, IF r \in failed THEN "error" ELSE "action">>
        room == ResponseSize - Len(responses)
        sent == SubSeq(b.items, 1, IF room < Len(b.items) THEN room ELSE Len(b.items))
    IN  /\ responses' = responses \o [i \in DOMAIN sent |-> answer(sent[i])]
        /\ dropped' = dropped \cup (Members(b) \ ToSet(sent))
        /\ batches' = batches \ {b}
        /\ inApp' = [a \in Apps |->
               inApp[a] - Cardinality({r \in Members(b) : AppOf[r] = a})]
        /\ inSession' = [s \in Sessions |->
               inSession[s] - Cardinality({r \in Members(b) : SessionOf[r] = s})]
        /\ inTotal' = inTotal - Len(b.items)
        /\ slots' = slots + Len(b.items)
        /\ wake' = TRUE
        /\ UNCHANGED <<call, channel, receiver, queue, ripe, loop, updateVars>>

---------------------------------------------------------------------------
(* RolloutWorker.update_weights.                                           *)

UpdateBegin ==
    /\ update = "idle"
    /\ updates < MaxUpdates
    /\ updates' = updates + 1
    /\ update' = "drain"
    /\ fence' = TRUE
    /\ wake' = TRUE
    /\ UNCHANGED <<clientVars, receiver, slots, schedVars, loop, version>>

UpdateEnds(newVersion) ==
    /\ update' = "idle"
    /\ fence' = FALSE
    /\ wake' = TRUE
    /\ version' = newVersion
    /\ UNCHANGED <<clientVars, receiver, slots, schedVars, loop, updates>>

\* Mutant of UpdateSwap: the weights are swapped whatever is in flight.
UpdateSwapAnyTime ==
    /\ update = "drain"
    /\ \/ UpdateEnds(version + 1)
       \/ UpdateEnds(version)

\* The poll finds nothing in flight: the weights are swapped without an await,
\* unless the core refuses them.
UpdateSwap ==
    /\ update = "drain"
    /\ inTotal = 0
    /\ \/ UpdateEnds(version + 1)
       \/ UpdateEnds(version)

\* weight_update_timeout_seconds.
UpdateTimeout ==
    /\ update = "drain"
    /\ inTotal > 0
    /\ UpdateEnds(version)

---------------------------------------------------------------------------

\* While execute_batches runs, no other task of the rollout worker does.
Worker ==
    \/ ReceiveAcquire \/ ReceiveGet \/ ReceiveFails
    \/ WakeUp
    \/ \E b \in batches : \E failed \in SUBSET Members(b) : FinishBatch(b, failed)
    \/ UpdateBegin \/ UpdateSwap \/ UpdateTimeout

ServiceNext ==
    \/ \E r \in Requests : Submit(r) \/ Cancel(r) \/ Ripen(r)
    \/ Deliver
    \/ Issue \/ Sleep
    \/ loop # "run" /\ Worker

\* The loops run for ever, time passes, inference ends.  A failing get is no
\* obligation, and no client has to submit or cancel.
ServiceFairness ==
    /\ WF_serviceVars(Deliver) /\ WF_serviceVars(Issue \/ Sleep)
    /\ WF_serviceVars(loop # "run" /\ WakeUp)
    /\ SF_serviceVars(loop # "run" /\ ReceiveAcquire)
    /\ SF_serviceVars(loop # "run" /\ ReceiveGet)
    /\ SF_serviceVars(loop # "run" /\ \E b \in batches : FinishBatch(b, {}))
    /\ SF_serviceVars(loop # "run" /\ (UpdateSwap \/ UpdateTimeout))
    /\ WF_serviceVars(\E r \in Requests : Ripen(r))

ServiceSpec == ServiceInit /\ [][ServiceNext]_serviceVars /\ ServiceFairness

---------------------------------------------------------------------------

\* Permits of the semaphore are neither lost nor made: each is free, held by the
\* receive loop, or stands for one request that is queued or in a batch
\* (receive_requests, _run_batch).
SlotsConserved ==
    slots + (IF receiver = "get" THEN 1 ELSE 0) + Len(queue) + Cardinality(InBatch)
        = MaxConcurrent

\* The fairness counters say exactly what is in flight, and no application and no
\* session exceeds its cap, within one batch or across several (_selectable).
QuotaExact ==
    /\ \A a \in Apps : /\ inApp[a] = Cardinality({r \in InBatch : AppOf[r] = a})
                       /\ inApp[a] <= MaxPerApp
    /\ \A s \in Sessions : /\ inSession[s] = Cardinality({r \in InBatch : SessionOf[r] = s})
                           /\ inSession[s] <= MaxPerSession
    /\ inTotal = Cardinality(InBatch)

\* The weights never change under a batch that is being inferred
\* (update_weights: "never mix versions within a batch").
OneVersion == \A b \in batches : b.version = version

\* A scheduler that sleeps without a pending wake-up has no batch it could issue,
\* and if it sleeps without a timer, none that time alone would make ready.
NoLostWakeUp ==
    /\ loop = "wait" /\ ~wake => ~SomethingSelectable
    /\ loop = "timed" /\ ~wake => SomethingSelectable

\* Calls of submit whose answer can still come: a full response queue has not
\* dropped it (put_response_nowait).
Outstanding == {r \in Requests : call[r] = "waiting"} \ dropped

\* Each call of submit comes to its end, unless a full response queue dropped
\* the answer; then only a cancellation ends it.  A request is submitted once,
\* so a call that waited for ever would keep Outstanding from emptying.
Answered == Outstanding # {} ~> Outstanding = {}

\* The rollout worker's books: permits and quotas count what is queued and in
\* flight, and the batch loop never sleeps over a batch it could issue.
SchedulerInv == ServiceTypeOK /\ SlotsConserved /\ QuotaExact /\ NoLostWakeUp
=============================================================================
