# Zetta-Embodiment: a TLA+ verification of the rollout infrastructure

The repository evolves robot policies. A *campaign* (`zetta/evolution`) hands
rollout jobs to worker processes through a queue of files, reads the results back,
and moves through diagnosis, proposal, gating and promotion. A *rollout runtime*
(`rollout_runtime`) serves simulated environments to clients through a gateway, env
workers and rollout workers. A *farm* of simulator servers (`robots/robocasa`,
`scripts/evolution`) is leased to the campaign's workers. All of them must survive
killed processes, expired leases, lost answers and dead simulators, and all lean on
careful ordering of file writes and of code between `await`s. That is what this
project models; the learned policies, the simulators and the language-model prompts
are data to it.

## 1. Inventory

| Component | State it keeps | Operations | Interacts with | What is hard |
|---|---|---|---|---|
| Rollout queue, `zetta/evolution/queue.py`, `jsonio.py` | four bucket directories, a lock directory, claim files with token and lease | enqueue, claim, heartbeat, finish, recover_abandoned, known_job_ids | workers, operator, supervisor through the file system | crashes between two file operations, a scan without the lock, leases, a lock renamed away by whoever last saw it old |
| Campaign, rollout phase, `campaign.py`, `supervisor.py`, `store.py`, `run_campaign.py` | attempt artifacts, two ledgers, canonical records, `state.json` | step: ingest, record, build, enqueue, verdict | queue; nothing else writes its files | kill between the four writes of one record, and inside an append, whose lock stays; a verdict from two different moments |
| Later phases, gates, promotion, `lifecycle.py`, `gate_runner.py`, `gating.py`, `store.py`, `supervisor.py` | diagnoses, candidate bundles and reports, gate decisions, promotions, `state.json`, operator files | diagnose, propose, screen, register, gate, advance, promote, spawn; authorize, veto | store, queue, operator commands | a stop between any two writes or inside a lock, loops between phases, waivers of evidence that land after a decision |
| Slot broker and farm, `slot_broker.py`, `run_worker`, `serve_robocasa_farm.py` | lease files, ready manifest, server processes | acquire, heartbeat, release, expire; poll, kill, relaunch | queue workers, servers | a decision from two reads of different moments, by the farm and by the broker; late first writes; a lock nobody removes |
| Write protocol, `robots/robocasa/*` | binding token, session, episode, sequence number, cache of results | reset, write, release, retry | farm, workers, direct clients | lost answers, late copies, restarts |
| Provider admission, `provider_admission.py` | tickets, leases, limit, cooldown, samples in one file | acquire, heartbeat, complete, release, prune | run_worker, planner | limits across processes that die |
| Env pools, `env_worker.py`, `robocasa_current.py` | warm and active slots, counters, pool table, pool locks, the core's slots | create_binding, release_binding, shrink, evict, retire, build | gateway control messages, threads running the core | every counter is changed on one side of an await or a thread |
| Lockstep pools, `env_worker.py`, `rlinf_family.py` | lanes, flags and frames in core and worker, coalescing groups | reset, rebind, read back, infer, submit, fire, execute | sessions of one vector core | other sessions' chunks move one's lane |
| Gateway sessions, `gateway.py`, `session_manager.py`, `admission.py`, `worker_registry.py` | session records, client-key index, quota, rank load and health | create, close, renew, reap, purge, heartbeat | clients, env workers | two closes of one session, fail-over, stale lists, counters on several paths |
| Gateway operations and transport, `operation_registry.py`, `gateway.py`, `transport/`, command handlers of `env_worker.py` | operation records, session lock, pending futures, queues, the worker's active request | dispatch, time out, absorb, cancel, close; receive, run, answer | clients, env worker | RPC timeout against a late result, cancel against completion |
| Policy inference, `batch_scheduler.py`, `rollout_worker.py`, `InferenceClient` | permits, queue, batches in flight, quotas, version fence, channels | submit, cancel, receive, issue, finish, deliver, update_weights | env workers | lost wake-ups, dropped answers, weights changed under way |

HTTP service, backends, agent runtime, dashboard, robots and vendored policies are
listed in `PROJECT.json` as not modelled, each with its reason.

What makes each modelled component correct:

* **queue**: terminals immutable, no job missed by the scan, and, as long as no live
  holder loses the claim lock, one terminal per job, no job run twice, no acknowledged
  result lost, every job eventually closed; the lock is lost only after a crash;
* **rollout phase**: attempts in order and within budget, the phase is left only
  when complete, nothing ingested disappears, the loop ends;
* **promotion**: what is promoted earned it, one candidate in trial, bounded rounds,
  a decision is final, the handoff names what was promoted, the campaign ends;
* **farm**: a bound slot stays with its lease, the limit on leases is kept, stranded slots
  come back;
* **writes**: at most once, in order, one writer at a time;
* **provider**: budgets kept but for what requests use beyond their estimates, nobody waits
  behind the dead;
* **pools**: one session per slot, a session's slot exists, one core per spec, size
  within its limits, no slot lost;
* **lockstep**: every caller answered once, ends neither invented nor missed, no
  refresh forgotten;
* **sessions**: one session per client key, load that covers the sessions there are,
  every close comes to its end;
* **operations**: at most one effect per request, a registry that does not lie, a
  cancel that holds, a terminal state for each operation;
* **inference**: no permit or wake-up lost, exact quotas, one version per batch, every
  submit ends.

## 2. Modules

| Module | Role |
|---|---|
| `RolloutLifecycle` | abstract specification: a job goes absent, pending, running, closed and never back |
| `SharedHostQueue` | the queue file by file, with workers, recoverers and the scanning supervisor; implements `RolloutLifecycle` |
| `CampaignRollout` | the rollout phase, composed with the queue through `INSTANCE RolloutLifecycle` |
| `CampaignPromotion` | the phases after it, up to the child generation |
| `SlotServer` | abstract specification: what a simulator server promises the farm |
| `WriteProtocol` | client, network and registry of such servers; implements `SlotServer` |
| `EnvironmentFarm` | slot broker, queue workers and the farm's poll loop, composed with the servers through `INSTANCE SlotServer` |
| `ProviderAdmission` | one route of the provider admission file |
| `EnvPool` | one env spec's pool on one worker with its core |
| `LockstepPool` | one vector pool: coalescer, core and read-back |
| `GatewaySessions` | the session plane for one application |
| `OperationPlane` | the operations of one session: gateway, transport and env worker together |
| `InferenceService` | inference client, channels, scheduler and rollout worker |
| `MC*` | functions and model values for TLC |
| `M_proofs` | for `SharedHostQueue`, `CampaignPromotion`, `EnvPool`, `GatewaySessions`, `OperationPlane`: the inductive invariant of module `M`, the lemmas and the theorems about it |
| `Rollouts_proofs` | the same for `CampaignRollout` and `InferenceService` |
| `Simulators_proofs` | the same for `LockstepPool` and `EnvironmentFarm` |
| `Requests_proofs` | the same for `WriteProtocol` and `ProviderAdmission` |

The last three extend two components each. So that both can be extended, the second one's
specification has a name of its own (`ServiceSpec`, `FarmSpec`, `AdmissionSpec`, and in the
same way its `Init`, `Next`, tuple of variables and type invariant); the others are
called `Spec`.

The operators whose comment begins with "Mutant of" are altered versions of the
definition that follows them. No specification uses them; `PROJECT.json` names the
property each one must break, which shows that the property can fail.

### SharedHostQueue

A variable per bucket: `pending`, `running` (by claim token), `completed`, `failed`;
`published` is the set of result files, `episodes` the subprocesses that may still
run, `lock` the lock directory. `pc`, `job`, `tok`, `res` are what each process is
doing and remembers; `scan`, `todo`, `seen` belong to the supervisor's
`known_job_ids`. `enqueued`, `owner` and `acked` are history.

`claim` is `ClaimEnter`, `ClaimScan`, `ClaimWrite`, `ClaimRename`, `ClaimReturn`; the
episode is `StartEpisode`, `EpisodePublish`, `EpisodeEnd`; `heartbeat` is
`HeartbeatEnter/Check/Write`; `finish` is `FinishEnter` or `FinishTimeout`, then
`CommitCheck`, `CommitPublish`, `CommitClean`, which `recover_abandoned`
(`RecoverStart/Enter/Check`) shares as the code shares `_finish_locked`. A critical
section is cut wherever a crash leaves another directory. `Crash` may hit any
process at any point, `Restart` brings it back with nothing but the files.

Wall-clock ages are the three values a claim's age can have for the code: fresh,
stale (recovery may close it), expired (its worker may not commit it). `Age` lets
time pass at any moment.

The claim lock is two steps for whoever finds it old, as in the code: `StaleStat` reads
the age of the directory (`sighted` keeps who has), `StealRename` renames what is at the
path by then. So a second waiter may rename away the fresh lock of the first, which is
inside; `late` records that a live holder has lost the lock. `Spec` assumes that a
critical section, which is a handful of small file operations, does not last the 120 s
after which the code finds the lock of a live holder old too; `SlowSpec` drops the
assumption (`SlowStat`). A process that has lost the lock goes on and finds files another
one has changed; where it would write its claim into a file another token has renamed,
the model renames tokens, which nothing distinguishes.

Left out: version-1 sidecar files; which of the available jobs `claim` prefers.

### CampaignRollout

Job `<<l, a>>` is attempt `a` of logical rollout `l`. The terminal of a closed job
gives one of three outcomes to ingest: a valid record, an infrastructure failure,
or a record that is refused. `Ingest`, `RecordArtifact`, `RecordAttempt`,
`RecordCanonical` and `RecordEpisode` are the writes of `record_episode` one by one; the
two appends are enclosed in `AppendLock` and `AppendUnlock`, the lock directory of the
ledger (`held`). `Build`, `Enqueue`, `CountPending`, `CountRunning` and `Verdict` are the
rest of a step. `Crash` kills the supervisor anywhere; when that is inside an append, the
directory stays, and each later append ends in `AppendTimeout`, the exception that ends
`run_campaign`. What the queue does between two reads is
`RolloutLifecycle`'s `Claim` and `Close`: that `known_job_ids` returns every job is
`SharedHostQueue!ScanComplete`, proved there.

### CampaignPromotion

`state` is `state.json` (phase, target cluster, candidate, current bundle), replaced
atomically; `home`, `shadow`, `registered`, `gates`, `promotions` and the rest are
append-only files written one after the other, so a stop between two writes is a state
of the module (`pc` says where the supervisor is, `work` and `gate` what it has in
hand). `Supervise` are the supervisor's steps, `Work` the workers finishing the arms of
the gate in progress, `Interrupt`, `Kill` and `KillIngest` the end of the process
anywhere, after which only the files are left. `MayHold` says which lock directory it
holds at that moment: a kill leaves it (`left`), and what needs it can never go on (`arms` is
"jammed" when it is a lock of the gate's own ledgers). The policy record holds what a
manifest can preregister (rounds per cluster, clusters, skip of regression, provisional
hypotheses, test mode). What agents, replays and paired arms say is chosen by the
environment once per candidate, because those outputs are committed files. Operator
commands (`Grant*`, `Authorize*`, `RejectShadow`, `Veto*`) may come at any moment the code
allows. `authorize_same_seed_threshold_override` is four steps, `GrantCheck`,
`GrantArtifact`, `GrantRow` and `GrantState`, between which the supervisor goes on, may
record the very decision the command is about, and either may be killed. What reads an
authorization raises until all four are done (`Loads`); a diagnosis or a proposal derives
every same-seed decision again and raises when one differs (`Reproducible`; `drifted` are
the candidates whose evidence has changed since). `MaxFaults` bounds kills and operator
races together, `MaxGrants` the candidates with an authorized threshold and the
provisional hypothesis. The read and the write of `state.json` by one command or step are
one action (section 6).

### SlotServer, WriteProtocol, EnvironmentFarm

`SlotServer` has for each slot the session it is bound to and whether its state is
lost: `Bind`, `Poison`, `Unbind`, and `Renew` when its process is replaced.

`WriteProtocol` keeps the registry of each process (`reg`), the clients (`cl`) and the
set `net` of attempts under way. A client sends each write up to twice; a timed-out
attempt stays in `net` and may be served at any later moment. A write runs under the
registry's lock, so `Serve` is one action: cache, token, lost, session and sequence
checks, the simulator, the new registry. `last` and `done` are history. The identity of
an episode is that of the reset that began it.

`EnvironmentFarm` uses servers only through `SlotServer`. `lease` and `handle` are the
lease file and what its worker remembers, `flight` the first writes of clients on
their way. A poll of `acquire` holds the broker's lock directory (`lockBy`, `lockAt`) and
is cut at each thing it asks or writes: `Examine` (the files and, for an expired lease,
`/health`), `Reclaim` (unlink), `Probe` (`/health`), `Grant` (the lease file). The lock
does not keep clients out, so a server may be bound between a FREE answer and what
follows from it; `slipped` records such slots. Heartbeat and release are one action under
the lock. A worker that dies inside (`CrashInBroker`) leaves the lock for ever. The farm's poll is `PollHealth` then `PollLease` then `Kill`, because the
code reads the server and the lease file one after the other. `Stranded` names the
slots that the code cannot win back (below, further disagreements).

### ProviderAdmission

Every operation is one critical section on the state file, which prunes first, so an
expired ticket or lease is gone for everybody at that moment (`TicketLapse`,
`LeaseLapse`). `WindowMoves` lets the oldest request or sample leave its window.
Latencies are abstracted to whether the 95th percentile has degraded. `Reserved` and
`Rolling` are the sums `acquire` compares with `tpm_limit`, over the leases and over the
samples of the window. A request may report any number of tokens, whatever it estimated
(`run_worker` estimates 0): `beyond` is what each sample has above its estimate.

### EnvPool

The worker is one event loop, so code between two awaits is one action, and the
calls of the core (`add_slot`, `remove_slot`, `close`, `build`) are steps of threads
that happen at some moment while their caller waits. Pools are numbered by builds
because a binding in progress keeps the pool object it found, while everything
else finds the pool by its key. `warm`, `active`, `reserved`, `cold`, `binding` are
the fields of the code's object and `count` is the number of slots of its core.

Left out: `grow` (no caller), the semaphore limiting parallel cold creates to eight.

### LockstepPool

`started`, `fin`, `masked` belong to the core's lanes, `episode`, `wFin`, `fresh` to the
worker's copy; `behind` says that the watermark `masked_steps_seen` differs from the
core's. An operation is `Begin`, `Status`, `Observe`, `InferenceDone`, again `Status` and
`Observe`, then `Submit` to the open group of its chunk length. `Fire` closes a group,
`Execute` and `ExecuteFails` are the one core call for it, which moves every lane.
`current` and `unread` are history for `FrameRefreshed`.

### GatewaySessions

`state`, `rank`, `key`, `byKey`, `quota`, `load`, `healthy`, `canCreate` are the
fields of the gateway's tables. `trying` and `attempted` are local variables of
`_create_session` across its await, `call` of `_close_session`, `due` of
`recover_expired_sessions`. Until the maintenance loop awaits, no other task runs
(`LoopFree`). `ReapStaleWorker` and `Purge` treat one rank and one record at a time
where the code treats all of them in a row; this allows more interleavings than the
code, which is on the safe side for what passes. Leases and heartbeats run out at any
moment.

### OperationPlane

Gateway side: `reg` and `regEffect` are the operation records, `waiters` and `holder` the
session lock, `pending` the futures, `gwEpisode` and `gwSeq` what the session record
knows, `known` whether there is a record still: `Purge` forgets a closed one, and a result
for it is `FinishForgotten`. Between them `commands` (bounded), `controls` and `results`. Worker side: `run`
and `stage` are the active request, `wEpisode`, `wLast` its checks against late
commands. `Call` covers a first call and a retry with the same id; `Timeout` may strike
at any moment; `Drain` gives a result to its future or to `_absorb_late_result`.
`StepFails` is a core call that raises, before or after the simulator has moved.
`steps` and `accepted` are history.

### InferenceService

`call` is where each submit is, `channel` and `responses` the bounded channels, `queue`
and `ripe` the scheduler's queue and who has waited `max_wait_ms`, `slots` the semaphore,
`batches` those in flight with the version they began with. `loop` and `wake` are the
batch loop and its event: the loop is cut at its awaits, where it computes whether to
sleep and for how long. A response for a full queue is dropped (`dropped`). The buckets are
the one `queue` split by key: `Bucket` is a bucket in the order `_selectable` sorts it,
`QueueWithout` what `next_batch` leaves, in the order of arrival.

## 3. Runs

| Run | Distinct states | Instance | Properties |
|---|---|---|---|
| `Queue` | 105,094 | a worker, a recoverer, the supervisor, one job, two tokens, one crash | `Inductive` (with `SuccessHasResult` and, until a live holder loses the lock, `Mutex`, `OneTerminal`, `AckedIsTerminal` as parts), `NoReplay`, `LossNeedsCrash`, `ScanComplete`, `ImplementsLifecycle`, `EventuallyClosed` |
| `Rollout` | 1,072,978 | two rollouts, two attempts, all outcomes, one kill | `LedgerInv` (`AttemptsInOrder`, `CompleteIsComplete`), `IngestLosesNothing`, `Terminates` |
| `Promotion` | 357,342 | seven manifests, three candidates, one kill or operator race, one authorization | `CandidateInv` (`OneInTrial`, `RoundsBounded`), `PromotedEarned`, `HandoffBound`, `RejectedIsFinal`, `Ends` |
| `PromotionSpent` | about 10,000 | two clusters, no fault | `SpentRoundsMoveOn`: **violated** |
| `PoolSafety` | 387,410 | four sessions, a pool of one to three slots, two builds | `PoolInv` (`OneLiveCore`, `PendingCounted`), `HealthySlots` |
| `Lockstep` | 163,449 | two lanes, two chunk lengths, failing core calls | `GroupInv` (`NoFalseEnd`, `OneGroup`), `FrameRefreshed`, `EndIsTold`, `Resolved` |
| `Gateway` | 133,584 | two sessions, one key, two ranks, two calls and the maintenance loop | `SessionInv` (`LoadCoversSessions`), `OneSessionPerKey`, `ClosingEnds` |
| `Operations` | 358,068 | two resets and an episode, retries, timeouts, cancels, failing core calls, a close and a purge | `WorkerInv` (`OwnEpisode`), `AtMostOnce`, `HonestRegistry` (`CancelIsFinal`), `NeverBack`, `Settled` |
| `Inference` | 160,803 | three requests, full channels, quotas, a weight update | `SchedulerInv` (`SlotsConserved`, `QuotaExact`, `NoLostWakeUp`), `OneVersion`, `Answered` |
| `Writes` | 998,244 | two clients, lost, repeated and late requests, a restart | `TypeOK`, `AtMostOnce`, `InOrder`, `ImplementsServer` |
| `Farm` | 102,117 | two workers, a direct client, one slot, a limit of one or two, a crash | `FarmInv` (`BrokerAlone`), `BoundKeepsLease`, `Served` |
| `Provider` | 158,023 | three callers, samples below and above the estimates, failures, degradation, a crash | `AdmissionInv` (`BudgetKept`), `Admitted` |

An invariant whose name ends in `Inv` is the conjunction of the module's type invariant
and the parts named in brackets, each defined and explained by itself. What each property says
is written above it in its module.

The violation is described under `findings` in `PROJECT.json`: a cluster's last round
can be spent inside PROPOSE (feature screen, shadow replay, operator); the next stage
then asks for DIAGNOSE to try the second cluster, and the table of transitions does not
let PROPOSE go there, so each later poll raises. The tests cover this path with one
cluster only, where the answer is COMPLETE.

**Further disagreements.** These follow from the same models, the one about `state.json`
apart, and are not kept as runs; where a sentence is quoted, the item is its negation.

Queue and rollout phase:

* The claim lock does not exclude after one crash inside it (`queue.py:101-107`): of two
  waiters that saw the dead holder's directory, the second renames away the fresh one of
  the first. Then a worker and a recovery publish to different buckets (TLC finds it with
  the instance of `Queue` when `OneTerminal` is asked for without its condition), or two
  workers claim one job one after the other (`ClaimedOnce`, with two workers), against
  "one terminal commit point" (`queue.py:160`) and "serialization for atomic claims"
  (`queue.py:85`). A critical section over 120 s does the same without a crash
  (`SlowSpec`). `Inductive`, `NoReplay` and `ImplementsLifecycle` therefore speak of runs
  in which no live holder has lost the lock, and `LossNeedsCrash` says when that may be.
* The blocked verdict mixes an ingest from before and counts from after a job closed
  (`supervisor.py:73`): a campaign stops although a result waits, against "further polling
  can never make progress" (`supervisor.py:76`).
* A kill between the attempt artifact and its row (`campaign.py:243`): the attempt never
  counts and its job stays known, so the campaign polls for ever, against "Run the
  recoverable rollout-evolution state machine until a terminal result"
  (`run_campaign.py:3`). `Unrecordable` names these jobs; `Terminates` and
  `IngestLosesNothing` hold for everything else.
* A kill inside an append leaves the ledger's lock directory, which `directory_lock` has no
  way to recover (`jsonio.py:89`): every later ingest raises after 30 s, against the same
  sentence. `Terminates` excepts it (`LockLeft`).
* `ingest_queue_results` drops a record the store refuses (`campaign.py:271`), against
  "all other mismatches are fail-closed and visible to the caller" (`campaign.py:273`).

Pools and lockstep:

* `_ensure_pool` retires an unhealthy pool without looking at `pending_bindings`
  (`env_worker.py:2103`): a binding in its cold create keeps a slot index of the old pool
  and a session of the new one gets the same, against the docstring at
  `env_worker.py:2062`. `HealthySlots` therefore speaks of pools not found unhealthy.
* `shrink_idle` gives its reservation back before `remove_slot` (`env_worker.py:554`): a
  cold create of that moment makes the core larger than
  `[pool_size, effective_max_pool_size()]` (`env_worker.py:620`); and a slot index at or
  above the reserved count is then never released (`env_worker.py:567`).
* `_sync_lockstep_pool` of one operation advances the watermark of all lanes before it
  has fetched their frames (`env_worker.py:2331`): another lane's operation finds nothing
  to refresh and goes to inference with the old frame, against "rather than run
  inference on a stale frame" (`env_worker.py:2515`). `FrameRefreshed` excepts exactly
  the frames another operation is still fetching.
* `release_binding` does not wait for an operation on the slot (`env_worker.py:2123`).

Gateway:

* The result of an operation that comes after its session was closed and purged raises in
  `set_episode` before `succeed` is reached (`gateway.py:1516`): the caller is told
  UNKNOWN_SESSION and the record of a successful operation stays RUNNING for ever.
  `Settled` excepts it (`Orphaned`).
* A reset that raises after it has moved the simulator is recorded as FAILED without effect
  and in the old episode (`env_worker.py:2196`), against "Whether the environment side
  effect has occurred" (`operation_registry.py:123`). `HonestRegistry` excepts failed
  resets (`ResetFailed`).
* `reap_pending` is set and read nowhere (`gateway.py:673`): a session busy in every
  round is never reclaimed, against "closed only once the operation finishes"
  (`gateway.py:664`).
* A create that fails returns its quota, and the close of its FAILED record returns it
  again (`gateway.py:943`), against "Concurrent session limit per application"
  (`admission.py:35`).
* `purge_terminal` deletes a LOST record without giving back quota and rank load
  (`session_manager.py:648`), against "Number of admitted sessions per application"
  (`admission.py:58`).
* A binding answered after its rank was declared lost makes a READY session on an
  unhealthy rank (`session_manager.py:430`), against the invariant of
  `worker_registry.py:3`.
* `recover_expired_sessions` closes a session that was renewed while an earlier close of
  the same round was waiting (`gateway.py:671`), against "Reclaim sessions whose lease
  has already expired" (`gateway.py:662`).

Writes and farm:

* A delayed write of a released session can bind a server that was freed by a restart of
  its client's binding before its own checks refuse it (`operation_protocol.py:186`),
  against "conflicting or stale requests fail closed" (`operation_protocol.py:8`).
* A worker whose release meets a lease taken over raises, and `run_worker_pool` then
  stops all workers, against "independent workers" (`queue.py:1294`).
* The farm spares a bound server over which it has seen no lease as a direct client's
  (`serve_robocasa_farm.py:86`); a late first write of a dead worker strands the slot in
  the same way. `Served` excepts these (`Stranded`).
* Expired leases count against `maximum_active_slots` (`slot_broker.py:203`): when as many
  have expired, no acquire gets to the code that would reclaim them (`LimitSpent`).
* A worker killed inside the broker leaves its lock directory (`slot_broker.py:198`), and
  no worker acquires, renews or releases a slot again (`LockLeft`).
* The broker reads FREE and acts on it later (`slot_broker.py:221`, `226`, `237`, `259`): a
  first write of the expired lease's worker, or of a direct client, may bind the server in
  between, and the slot is then leased to another. `BoundKeepsLease` excepts exactly the
  slots bound in that gap (`slipped`); `Served` does not.
* A cache that drops the result of a reset while a copy of it is under way lets it run
  again (`CacheSize = 1` shows it; the code keeps 256, `operation_protocol.py:94`).

Provider:

* `complete` accepts any number of tokens, and `run_worker` estimates 0 (`queue.py:1233`):
  the budget is exceeded by all that such requests use. `BudgetKept` counts it as `Excess`.
* An estimate above the route's budget is compared with it nowhere: its ticket blocks
  everybody behind it until its deadline (`Oversized`).

Promotion (each leaves the campaign raising on every poll unless noted):

* a candidate refused by the recall screen after its report was written is registered on
  resume (`lifecycle.py:5171`);
* a stop between the shadow report and its precommit (`lifecycle.py:5298`);
* an early gate decision, a stop, then more arms: "recorded gate decision differs"
  (`gate_runner.py:1749`);
* an authorized threshold that lands after the decision it checked for
  (`lifecycle.py:4369` and `4477`), one that was stopped between its artifact, its row and
  the state, or arms that come in after an early decision: the gate, or every later
  diagnosis and proposal, which derive all same-seed decisions again, raise
  (`lifecycle.py:1078`);
* a provisional candidate that skips regression can never be promoted; a
  threshold-override that skips it is promoted, and the recovery of that promotion then
  refuses it (`supervisor.py:417`);
* a provisional authorization does not survive the move to a secondary cluster
  (`lifecycle.py:4114`);
* a kill inside the proposal stage, an append to the ledgers of diagnoses, gates, arms or
  promotions, or an authorization leaves its lock directory (`jsonio.py:89`), which an
  operator has to remove;
* `update_state` and `transition` read `state.json` and write it back without a lock
  (`store.py:158`): the last of the supervisor and an operator's command wins, and may put
  the phase back;
* a no-op veto that races a gate decision, and `reject_shadow_candidate` that races a
  registration, leave state and ledgers in disagreement.

`Ends` says in which of these states a campaign may stop; everywhere else it ends.

**Bounds.** The queue's interesting cases need a worker and a recovery racing on one
claim and a third process looking on, a second token (a replay), and a crash inside the
lock, after which both find it old and one takes the fresh lock of the other; the proofs
remove the bounds of all its safety properties, as those of section 4 do for the other
proved modules (of `Writes` all but a condition on the cache for `AtMostOnce`). A second
crash, which interrupts the repair of the first, was checked apart (356,656 states), and
in the same way a second kill of the rollout phase (2,298,267 states). The rollout phase
needs a second attempt and a second rollout that is not blocked. Promotion
needs a rejected candidate, its refinement and one more, because a race may use up a
number; one authorization, because that of a second candidate concerns the state of the
first in `Loads` only (an instance with one per candidate, 1,400,897 states, was checked
apart). The pool needs three sessions for a growth and a shrink to overlap, a fourth to
have all slots taken besides, and a second build. The session plane needs two closers
besides the maintenance loop, a second rank for fail-over, and two sessions of one key.
Lockstep needs a lane that is carried by the other's chunk and two lengths so that groups
differ. Operations need two resets, so that an episode can be late, and one operation
that waits for inference and steps twice. Inference needs more requests than a batch, a
session and an application takes. `Writes` has a cache as large as its writes, so no copy
outlives its cached result; with `CacheSize = 1` `AtMostOnce` fails by a late copy of a
reset, which with the code's 256 entries means a copy delayed over 256 writes. The farm
needs a worker that comes to a slot after a crash of the other, or a client beside the
leases (`MaxActors` is two of the three); with one slot a limit of two never binds and a
limit of one does. Two slots were checked apart (2,238,144 states), and the limit
(`LimitKept`) is proved. Provider needs three callers for two to wait behind a dead head.
Every `Max*` constant is such a bound, named at its declaration. Symmetry is used in
`PoolSafety` only; the other runs check liveness or are small.

**Deadlock** is checked in `Queue`, `PoolSafety`, `Lockstep` and `Gateway`. The others
really stop: a campaign ends, and the finite sets of requests, writes, jobs and calls are
used up.

**Fairness.** Queue: a live worker keeps polling, its episode ends (the watchdogs of
`SubprocessRolloutExecutor.run` bound it), time passes, a dead lock is taken away. A
waiter polls the lock every 10 ms while a worker without work sleeps 2 s, so entering
the lock is strongly fair. Restarting workers and calling `recover_abandoned` are an
operator's procedure (nothing in the repository calls it by itself): `EventuallyClosed`
holds for an operator who follows it. Campaign: `run_campaign` polls for ever, and
pending jobs are claimed and closed, which is what the queue's run shows; for
`CampaignPromotion` a poll finishes the stage it began, and no operator has to act.
Sessions: the maintenance loop runs for ever, a control message is answered or times
out, an operation ends. Operations: the loops of both programs run, the core and the
policy answer, a free lock is handed over; no client has to call, cancel or close.
Inference: the loops run, time passes, inference ends; the receive loop and the end of a
batch are strongly fair because other tasks of the same loop run in between. Lockstep:
the core lock is fair and core calls end. Farm: live processes go on, rollouts end,
leases nobody renews lapse, `/health` answers in the end; acquiring is strongly fair
because a waiter polls while others come and go. Provider: waiting callers poll, calls
end, time passes. A ledger's or the broker's lock that a dead process left is never
removed: no fairness takes it away.

## 4. Proofs

Every theorem is about the component's specification and uses none of its fairness, for
every value of its constants that satisfies the named assumptions; those of the queue are
about `SlowSpec`, which allows more than `Spec`, but for `LossTheorem`. Each proof has the same shape: an
invariant `Inductive` (`ServiceInductive`, `FarmInductive`, `AdmissionInductive`), written as a conjunction of named parts and first checked by TLC
on the instance of the module's run; one lemma per action, or per group of actions that
write the same files, that it is kept; frame lemmas for the parts an action leaves
alone; and the properties as consequences of `Inductive`, the action properties as
consequences of `Inductive` and one step.

| Module | Assumptions | Theorems |
|---|---|---|
| `SharedHostQueue` | `ProcAssumption`, `CrashAssumption`, `NoneAssumption` | `QueueInvariant`, `OneTerminalTheorem`, `NoReplayTheorem`, `ScanCompleteTheorem`, `AckedIsTerminalTheorem`, `SuccessHasResultTheorem`, `LossTheorem` (`LossNeedsCrash`), `LifecycleTheorem` (refinement), `TerminalImmutableTheorem` |
| `CampaignRollout` | `AttemptAssumption`, `OutcomeAssumption`, `CrashAssumption` | `RolloutInvariant`, `LedgerTheorem` (`LedgerInv`), `IngestTheorem` (`IngestLosesNothing`) |
| `CampaignPromotion` | `PolicyAssumption` | `PromotionInvariant`, `CandidateTheorem` (`CandidateInv`), `EarnedTheorem` (`PromotedEarned`), `HandoffTheorem` (`HandoffBound`), `FinalTheorem` (`RejectedIsFinal`) |
| `EnvPool` | `SizeAssumption`, `BuildAssumption`, `SessionAssumption`, `NoneAssumption` | `PoolInvariant`, `PoolTheorem` (`PoolInv`), `HealthyTheorem` (`HealthySlots`) |
| `LockstepPool` | `FailAssumption` | `LockstepInvariant`, `GroupTheorem` (`GroupInv`), `FrameTheorem` (`FrameRefreshed`), `EndTheorem` (`EndIsTold`) |
| `GatewaySessions` | `QuotaAssumption`, `CallAssumption`, `SessionAssumption`, `NoneAssumption` | `SessionsInvariant`, `SessionTheorem` (`SessionInv`), `KeyTheorem` (`OneSessionPerKey`) |
| `OperationPlane` | `KindAssumption`, `SizeAssumption`, `NoneAssumption` | `OperationsInvariant`, `WorkerTheorem` (`WorkerInv`), `OnceTheorem` (`AtMostOnce`), `HonestTheorem` (`HonestRegistry`), `NeverBackTheorem` (`NeverBack`) |
| `WriteProtocol` | `CacheAssumption`, `WritesAssumption`, `NoneAssumption` | `WritesInvariant`, `TypeTheorem` (`TypeOK`), `OrderTheorem` (`InOrder`), `OnceTheorem` (`AtMostOnce`, conditional), `ServerTheorem` (refinement of `SlotServer`) |
| `InferenceService` | `SizeAssumption`, `RankAssumption` | `ServiceInvariant`, `SchedulerTheorem` (`SchedulerInv`), `VersionTheorem` (`OneVersion`) |
| `EnvironmentFarm` | `ClientAssumption`, `BoundAssumption`, `NoneAssumption` | `FarmInvariant`, `FarmTheorem` (`FarmInv`, `LimitKept`), `LeaseTheorem` (`BoundKeepsLease`) |
| `ProviderAdmission` | `SizeAssumption`, `LimitAssumption` | `AdmissionInvariant`, `AdmissionTheorem` (`AdmissionInv`) |

The assumptions say that bounds are natural numbers, that sets whose elements are counted
are finite, that different roles are different processes and that `None` is none of the
values it stands beside. What each invariant adds to the properties, and why:

**SharedHostQueue.** The invariant has two halves. `Base` holds whoever is inside the
lock: `Recalled` (at its position a process remembers a job, a token that owns it, and for
a success a result file), `Directory` (claim and terminal files carry the token that owns
the job, no enqueued job is in no bucket), and `ScanAhead`, which is what makes the
lock-free scan work: jobs move only forwards through the order in which the buckets are
listed, so a job the scan has not collected is on a path still to be read or in a bucket
still to be listed. `Exclusive` holds until a live holder loses the lock: `Mutex` (a
process inside a critical section holds the lock), `Memory` (between check and publish the
job has no terminal, between scan and rename it is pending), `Unclaimed` (a pending job was
never claimed), and the properties that rest on them. `NoReplay` then follows because
`Enqueue` needs a complete scan. The refinement maps a job to the first of completed,
failed, pending, running that holds it; only `Enqueue`, `ClaimRename` and `CommitPublish`
move a job, as `Submit`, `Claim` and `Close`. `TerminalImmutable` needs no invariant.
`LossTheorem` needs, of `Spec` alone, that without a crash no waiter has seen an old lock
(`CrashFirst`).

**CampaignRollout.** That attempts are consecutive follows from what the next one is
computed from: each enqueued attempt is `Preceded` by recorded infrastructure failures,
and a set of attempts closed downwards is counted by the number of the next one
(`PrefixCount`). A pass that was killed leaves an artifact without its
row (`Torn`), or a ledger's lock (`Orphaned`); `PassSound` and `InHand` say what a later
pass may rely on nevertheless.

**CampaignPromotion.** `Numbered` and `Tried` carry the argument. The number of the next
candidate is counted from two files, so a rejection of an unregistered candidate that
races its registration shifts it; still only the next number, or the candidate in hand,
can have been proposed and be in neither file. Every registered candidate but the last
was rejected, the last too whenever one more is proposed, so all candidates of a cluster
but the new one count as its rejected rounds, and `RoundsSpent` bounds them. `InOrder`
gives the decisions that can be on file in each gate phase; from it nothing is recorded
for a rejected candidate (`FinalTheorem`) and nothing rejected reaches `promote`.
`Vetoing` says that a veto under way either finds its candidate waiting for its first
gate with the supervisor idle, or finds a decision, and then changes nothing. `Promoted`
follows the one promotion through the handoff's writes and their repetition after a stop.

**EnvPool.** `Locked` and `Tabled` give one live core, `Counted` the counters. Ownership
(`Owned`) is conditional: as long as no pool was found unhealthy, every slot index of the
core is in one place, warm, active, with a cold create that has just added it, or with
`shrink_idle` (`OnePlace`), and nobody holds a pool that is not in the table (`Current`).
Without the condition it is false (section 3, further disagreements). Which warm slot is
taken (the largest) needs that bounded sets of naturals have a maximum, which is proved
from the well-foundedness of the order.

**LockstepPool.** `Grouped` says that open and fired groups partition the waiting chunks;
`Accounted` that a running slot without its latest frame is known to somebody: the
watermark, an operation that reads it again, or an error. `Synced` is the same for an
operation that goes on to inference, and gives `FrameRefreshed`.

**GatewaySessions.** The load of a rank is not exact in the code: a session purged as LOST
keeps its place. `Counts` puts it between the sessions on the rank and those on it or
ended, which is what makes each single increment and decrement provable; `Records` gives
that the index finds every record that is not closing, hence one session per key.

**OperationPlane.** `Placed`: what is in a command, the active request or a result is a
RUNNING operation, and in that one place only. `Untouched` and `Active`: what was not received has no
effect, what runs without its effect flag has none yet, and what was accepted as
cancelled will have none, failed resets excepted. `Honest` is then kept by every answer,
late or not. `Episodes`:
the gateway is never ahead of the worker and results tell episodes in their order.

**WriteProtocol.** `Follows` relates the registry to the last write applied in its
process; with it the refinement of `SlotServer` and `InOrder` hold for a cache of any
size. `AtMostOnce` does not: a write has a sequence number and a release changes the
token, but when the cache drops the result of a reset while a late second attempt of it is
still under way, the reset is applied again (TLC shows it with `CacheSize = 1`).
`OnceTheorem` therefore states `Spec /\ [][KeepsResets]_vars => AtMostOnce`, for a cache of
any size: results are evicted all the time, and `KeepsResets` only says that the one
evicted is not that of a reset with a request still outstanding in the same binding, which
with the code's 256 results (`operation_protocol.py:94`) means a copy delayed over 256
writes. Its invariant `Remembered` says that an applied request that may still arrive is in
the cache or can never be dispatched again (`Spent`).

**InferenceService.** `Placed` (a request is in the channel, in the queue or in one batch,
and nowhere twice), `Batched` (batches are finite, not empty and disjoint) and `Watermark`
(a request is taken from the channel only below the high watermark) are what
`SchedulerInv` needs to be kept: a permit that a batch gives back, and each quota it
gives back, was taken for one of its requests, because the requests of other batches are
others. The choice of a batch is a sort followed by a filling that stops at quotas.
`SortedFacts` shows that `Sorted` lists each member of a finite set once, in order;
`SelectableFacts` that the filling takes requests of its bucket, each once, and within
the quotas that are left. `OneVersion` rests on the counter a swap waits
for, `inTotal = 0`: only because it is exact (`QuotaExact`) and no batch is empty
(`Batched`) does it mean that no batch runs.

**EnvironmentFarm.** `FarmTyped`: processes, leases and handles carry the ids of their
workers. `Polling`: what is between two steps of a poll is a worker's that asks for a slot,
there is room for one more lease, and a server that has answered FREE is still free or has
`slipped`. `BrokerAlone`, the part of `FarmInv` beside the types, says that the lease file
is still as the poll has read it when the poll acts, because every writer of lease files
takes the lock, and `LimitKept` follows from counting under it. For `BoundKeepsLease` it
remains that of the steps that write lease files only the holder's `Release` is over a
server bound before the broker looked. The servers appear through `SlotServer`, which
`ServerTheorem` shows `WriteProtocol` to implement.

**ProviderAdmission.** `AdmissionInv` is inductive with the types in `Recorded`. The work
is in the sums: `SumRemove` (an element of any finite set may be taken out of a sum),
`SumAppend` and `SumTail` (a sample comes at the end and leaves at the front, its excess
with it), and `RemoveFacts` (a ticket taken out of the queue leaves the others once each
and in place). What `End` adds to the samples is at most what the lease had reserved and
the excess it adds, whatever number `complete` is told.

**Induction over data.** The library's induction theorems take an operator as a parameter,
which the provers cannot instantiate. `NatSet` states induction for a set of numbers
instead, proved from the well-foundedness of the order; with it a fact about every finite
set or every prefix is proved as "the set of sizes for which it holds is `Nat`". That a
recursively defined function exists is proved in the same way (`SumsExists`).

**Only model-checked.** All liveness properties (`EventuallyClosed`, `Terminates`, `Ends`,
`Resolved`, `ClosingEnds`, `Settled`, `Answered`, `Served`, `Admitted`): fairness and
ENABLED are beyond the prover. All other properties of passing runs are theorems, of which
`AtMostOnce` of `WriteProtocol` has the condition `KeepsResets`.

## 5. Plan

All components of the inventory have their module, and all safety properties of the runs
are proved. What is left is the liveness of section 4, and the parts listed in section 6.

## 6. Not modelled

* The model-driven stages (prompts, clustering, statistics over artifacts), the robots'
  controllers and tools, the simulators' and policies' backends, and the vendored policy
  networks: most of the repository's lines, sequential transformations of data whose
  results the models choose freely.
* The HTTP service, the command-line agent and the dashboard: encodings of calls that
  are modelled, or a single-threaded loop around a model.
* The gap between the read and the write of `state.json` (`store.py:158`): every update is
  one action of `CampaignPromotion`. An operator's command that ends in this gap of the
  supervisor's, or the other way round, takes back what the other has written.
* Of modelled components: the heldout_20 gate, `authorize_infrastructure_recovery`,
  `promote_and_complete` and two supervisors at once on one campaign; in-flight counters
  of `admission.py`, the purge of finished operations, group dispatch; two weight updates
  at once; the rotation over scheduling keys; the recoverable lock of provider admission
  (one step here); the cut of samples at `max_metric_samples`.
