-------------------------- MODULE CampaignRollout ---------------------------
(***************************************************************************)
(* The ROLLOUT phase of one campaign generation: EvolutionSupervisor.step  *)
(* (zetta/evolution/supervisor.py), the ingest and enqueue passes of       *)
(* zetta/evolution/campaign.py, the ledgers of zetta/evolution/store.py    *)
(* and the loop of scripts/evolution/run_campaign.py, over the queue as    *)
(* RolloutLifecycle describes it (SharedHostQueue implements that).        *)
(*                                                                         *)
(* One supervisor process runs step after step while the workers claim and *)
(* close jobs at any moment.  It may be killed between any two writes and  *)
(* started again; it has no memory but the files.  Job <<l, a>> is attempt *)
(* a of logical rollout l: job_id is a digest of exactly that.             *)
(***************************************************************************)
EXTENDS Naturals, FiniteSets

CONSTANTS Logicals,     \* logical ids g<generation>-rollout-<index>
          MaxAttempts,  \* manifest.max_infrastructure_attempts
          Outcomes,     \* what ingest can make of a terminal envelope
          None,
          MaxCrashes    \* bound on kills of the supervisor

ASSUME AttemptAssumption == MaxAttempts \in Nat \ {0}
ASSUME OutcomeAssumption == Outcomes \subseteq {"valid", "infra", "rejected"}
ASSUME CrashAssumption == MaxCrashes \in Nat

Jobs == Logicals \X (0 .. MaxAttempts - 1)

VARIABLES
  stage,      \* the queue, see RolloutLifecycle
  outcome,    \* what the terminal of each closed job holds, or None
  artifact,   \* jobs with attempts/<l>/attempt-<a>/record.json
  attempts,   \* jobs with a row in the attempts ledger
  canonical,  \* logicals with episodes/<l>/record.json
  episodes,   \* logicals with a row in the episodes ledger
  held,       \* ledgers whose lock directory exists
  phase,      \* state.json
  pc,         \* where the supervisor is
  listed,     \* terminal envelopes terminal_envelope_paths returned
  todo,       \* terminal envelopes of this pass not ingested yet
  cur,        \* the job being ingested
  plan,       \* jobs build_rollout_jobs returned and not enqueued yet
  enqueued,   \* whether this pass enqueued anything
  blocked,    \* logicals with an exhausted budget, as this pass saw them
  inflight,   \* whether counts() has seen a pending or running job
  crashes

vars == <<stage, outcome, artifact, attempts, canonical, episodes, held, phase,
          pc, listed, todo, cur, plan, enqueued, blocked, inflight, crashes>>
ledgers == <<artifact, attempts, canonical, episodes, held>>
pass == <<listed, plan, enqueued, blocked, inflight>>

Queue == INSTANCE RolloutLifecycle

Closed(j) == Queue!Closed(j)
\* Mutant of AttemptCount: attempt directories are counted, not ledger rows.
AttemptDirs(l) == Cardinality({a \in 0 .. MaxAttempts - 1 : <<l, a>> \in artifact})

\* len(attempts_by_logical[l])
AttemptCount(l) == Cardinality({a \in 0 .. MaxAttempts - 1 : <<l, a>> \in attempts})

Init ==
  /\ Queue!Init
  /\ outcome = [j \in Jobs |-> None]
  /\ artifact = {} /\ attempts = {} /\ canonical = {} /\ episodes = {}
  /\ held = {}
  /\ phase = "rollout" /\ pc = "step"
  /\ listed = {} /\ todo = {} /\ cur = None /\ plan = {}
  /\ enqueued = FALSE /\ blocked = {} /\ inflight = FALSE
  /\ crashes = 0

(***************************************************************************)
(* The workers (SharedHostQueue seen through RolloutLifecycle).  Which     *)
(* bucket a job ends in does not matter to ingest: it looks at the result  *)
(* payload, and a failed envelope may carry a valid record.                *)
(***************************************************************************)
WorkersAlive == pc # "exit"

Claim(j) ==
  /\ WorkersAlive
  /\ Queue!Claim(j)
  /\ UNCHANGED <<outcome, ledgers, phase, pc, todo, cur, pass, crashes>>

Close(j) ==
  /\ WorkersAlive
  /\ Queue!Close(j)
  /\ \E o \in Outcomes : outcome' = [outcome EXCEPT ![j] = o]
  /\ UNCHANGED <<ledgers, phase, pc, todo, cur, pass, crashes>>

(***************************************************************************)
(* ingest_queue_results and CampaignStore.record_episode                   *)
(***************************************************************************)
Goto(to) == pc' = to

\* EvolutionSupervisor.step in phase ROLLOUT lists the terminal envelopes.
StepStart ==
  /\ pc = "step" /\ phase = "rollout"
  /\ listed' = {j \in Jobs : Closed(j)}
  /\ todo' = listed'
  /\ Goto("ingest")
  /\ UNCHANGED <<stage, outcome, ledgers, phase, cur, plan, enqueued, blocked,
                 inflight, crashes>>

\* One envelope is read and its record built.  A record the store refuses (or
\* that does not parse) raises a ValueError that ingest drops; an
\* infra_invalid record whose artifact exists is skipped as already ingested.
Ingest(j) ==
  /\ pc = "ingest" /\ j \in todo
  /\ todo' = todo \ {j}
  /\ IF \/ outcome[j] = "rejected"
        \/ outcome[j] = "infra" /\ j \in artifact
       THEN UNCHANGED <<pc, cur>>
       ELSE Goto("artifact") /\ cur' = j
  /\ UNCHANGED <<stage, outcome, ledgers, phase, pass, crashes>>
\* Mutant of RecordArtifact: an infrastructure failure gets no ledger row.
RecordArtifactOnly ==
  /\ pc = "artifact"
  /\ artifact' = artifact \cup {cur}
  /\ Goto(IF outcome[cur] = "infra" THEN "ingest" ELSE "attempts")
  /\ UNCHANGED <<stage, outcome, attempts, canonical, episodes, held, phase,
                 todo, cur, pass, crashes>>

RecordArtifact ==
  /\ pc = "artifact"
  /\ artifact' = artifact \cup {cur}
  /\ Goto("attempts")
  /\ UNCHANGED <<stage, outcome, attempts, canonical, episodes, held, phase,
                 todo, cur, pass, crashes>>

\* AppendOnlyLedger.append takes the ledger's lock directory, writes the row
\* (one that is there already is not repeated) and removes the directory.
AppendLock ==
  /\ pc \in {"attempts", "episodes"} /\ pc \notin held
  /\ held' = held \cup {pc}
  /\ Goto(IF pc = "attempts" THEN "attempt_row" ELSE "episode_row")
  /\ UNCHANGED <<stage, outcome, artifact, attempts, canonical, episodes, phase,
                 todo, cur, pass, crashes>>

RecordAttempt ==
  /\ pc = "attempt_row"
  /\ attempts' = attempts \cup {cur}
  /\ Goto("attempt_written")
  /\ UNCHANGED <<stage, outcome, artifact, canonical, episodes, held, phase,
                 todo, cur, pass, crashes>>

RecordEpisode ==
  /\ pc = "episode_row"
  /\ episodes' = episodes \cup {cur[1]}
  /\ Goto("episode_written")
  /\ UNCHANGED <<stage, outcome, artifact, attempts, canonical, held, phase,
                 todo, cur, pass, crashes>>

AppendUnlock ==
  /\ \/ /\ pc = "attempt_written"
        /\ held' = held \ {"attempts"}
        /\ Goto(IF outcome[cur] = "infra" THEN "ingest" ELSE "canonical")
     \/ /\ pc = "episode_written"
        /\ held' = held \ {"episodes"}
        /\ Goto("ingest")
  /\ UNCHANGED <<stage, outcome, artifact, attempts, canonical, episodes, phase,
                 todo, cur, pass, crashes>>

\* The process is gone and a new one starts from the files.
StartAgain ==
  /\ pc' = "step"
  /\ listed' = {} /\ todo' = {} /\ cur' = None /\ plan' = {}
  /\ UNCHANGED <<stage, outcome, ledgers, phase, enqueued, blocked, inflight>>

\* directory_lock knows no dead holder: a lock left by a killed predecessor is
\* waited for 30 s, and the TimeoutError, which ingest does not catch, ends
\* run_campaign.
AppendTimeout ==
  /\ pc \in {"attempts", "episodes"} /\ pc \in held
  /\ StartAgain
  /\ UNCHANGED crashes

RecordCanonical ==
  /\ pc = "canonical"
  /\ canonical' = canonical \cup {cur[1]}
  /\ Goto("episodes")
  /\ UNCHANGED <<stage, outcome, artifact, attempts, episodes, held, phase,
                 todo, cur, pass, crashes>>

\* status()["episodes"]["valid"] == expected_rollouts: analyze_failures moves
\* the campaign on.
IngestDone ==
  /\ pc = "ingest" /\ todo = {}
  /\ IF episodes = Logicals
       THEN Goto("exit") /\ phase' = "cluster"
       ELSE Goto("build") /\ UNCHANGED phase
  /\ cur' = None
  /\ UNCHANGED <<stage, outcome, ledgers, todo, pass, crashes>>

(***************************************************************************)
(* enqueue_missing_rollouts                                                *)
(***************************************************************************)
\* build_rollout_jobs.  known_job_ids returns every job ever enqueued
\* (SharedHostQueue!ScanComplete), and only this process enqueues.
Build ==
  /\ pc = "build"
  /\ LET missing == {l \in Logicals : l \notin episodes}
         open    == {l \in missing : AttemptCount(l) < MaxAttempts}
     IN /\ blocked' = missing \ open
        /\ plan' = {j \in {<<l, AttemptCount(l)>> : l \in open} : stage[j] = "absent"}
        /\ enqueued' = (plan' # {})
  /\ Goto("enqueue")
  /\ UNCHANGED <<stage, outcome, ledgers, phase, listed, todo, cur, inflight,
                 crashes>>

Enqueue(j) ==
  /\ pc = "enqueue" /\ j \in plan
  /\ Queue!Submit(j)
  /\ plan' = plan \ {j}
  /\ UNCHANGED <<outcome, ledgers, phase, pc, listed, todo, cur, enqueued,
                 blocked, inflight, crashes>>

\* queue.counts() globs pending first and running after it.
CountPending ==
  /\ pc = "enqueue" /\ plan = {}
  /\ inflight' = \E j \in Jobs : stage[j] = "pending"
  /\ Goto("count")
  /\ UNCHANGED <<stage, outcome, ledgers, phase, listed, todo, cur, plan,
                 enqueued, blocked, crashes>>

CountRunning ==
  /\ pc = "count"
  /\ inflight' = (inflight \/ \E j \in Jobs : stage[j] = "running")
  /\ Goto("verdict")
  /\ UNCHANGED <<stage, outcome, ledgers, phase, listed, todo, cur, plan,
                 enqueued, blocked, crashes>>
\* Mutant of Verdict: blocked only when no logical rollout succeeded.
VerdictAllBlocked ==
  /\ pc = "verdict"
  /\ Goto(IF blocked = Logicals /\ ~enqueued /\ ~inflight THEN "exit" ELSE "step")
  /\ UNCHANGED <<stage, outcome, ledgers, phase, todo, cur, pass, crashes>>

\* rollout_blocked_on_infrastructure makes run_campaign return 4 and stop its
\* workers; waiting_for_rollouts sleeps and steps again.
Verdict ==
  /\ pc = "verdict"
  /\ Goto(IF blocked # {} /\ ~enqueued /\ ~inflight THEN "exit" ELSE "step")
  /\ UNCHANGED <<stage, outcome, ledgers, phase, todo, cur, pass, crashes>>

\* The supervisor is killed, in the middle of an append too, whose lock then
\* stays, and started again.
Crash ==
  /\ pc # "exit"
  /\ crashes < MaxCrashes
  /\ crashes' = crashes + 1
  /\ StartAgain

Supervise == \/ StepStart \/ RecordArtifact \/ AppendLock \/ RecordAttempt
             \/ RecordCanonical \/ RecordEpisode \/ AppendUnlock
             \/ AppendTimeout \/ IngestDone \/ Build \/ CountPending
             \/ CountRunning \/ Verdict
             \/ \E j \in Jobs : Ingest(j) \/ Enqueue(j)

Next == \/ Supervise
        \/ Crash
        \/ \E j \in Jobs : Claim(j) \/ Close(j)

Spec == Init /\ [][Next]_vars

\* run_campaign polls for ever; a claimed job is closed by its worker or by
\* recovery (SharedHostQueue!EventuallyClosed), a pending one is claimed.
FairSpec == /\ Spec
            /\ WF_vars(Supervise)
            /\ \A j \in Jobs : WF_vars(Claim(j)) /\ WF_vars(Close(j))

-----------------------------------------------------------------------------
\* The ledgers hold jobs and logicals, the supervisor is in step.
TypeOK ==
  /\ stage \in [Jobs -> Queue!Stages]
  /\ outcome \in [Jobs -> Outcomes \cup {None}]
  /\ artifact \subseteq Jobs /\ attempts \subseteq Jobs
  /\ canonical \subseteq Logicals /\ episodes \subseteq Logicals
  /\ held \subseteq {"attempts", "episodes"}
  /\ phase \in {"rollout", "cluster"}
  /\ pc \in {"step", "ingest", "artifact", "attempts", "attempt_row",
             "attempt_written", "canonical", "episodes", "episode_row",
             "episode_written", "build", "enqueue", "count", "verdict", "exit"}
  /\ listed \subseteq Jobs /\ todo \subseteq listed
  /\ cur \in Jobs \cup {None} /\ plan \subseteq Jobs
  /\ enqueued \in BOOLEAN /\ inflight \in BOOLEAN /\ blocked \subseteq Logicals
  /\ crashes \in 0 .. MaxCrashes

\* At most one attempt of a logical rollout is in the queue or unrecorded at a
\* time: attempt a+1 exists only when attempt a is in the attempts ledger as
\* an infrastructure failure, whatever crashed between the two.
AttemptsInOrder ==
  \A l \in Logicals : \A a \in 0 .. MaxAttempts - 1, b \in 0 .. MaxAttempts - 1 :
    a < b /\ stage[<<l, b>>] # "absent" =>
      <<l, a>> \in attempts /\ outcome[<<l, a>>] = "infra"

\* The campaign leaves the ROLLOUT phase only with a valid terminal behind
\* every logical rollout, each with its canonical record.
CompleteIsComplete ==
  phase = "cluster" =>
    /\ canonical = Logicals
    /\ \A l \in Logicals : \E a \in 0 .. MaxAttempts - 1 : outcome[<<l, a>>] = "valid"

\* Envelopes no ingest pass can ever record: the store rejects the record, or
\* a kill came between the artifact of an infrastructure failure and its row.
Unrecordable(j) ==
  /\ Closed(j) /\ j \notin attempts
  /\ \/ outcome[j] = "rejected"
     \/ outcome[j] = "infra" /\ j \in artifact /\ crashes > 0

\* When an ingest pass is over, every terminal envelope it listed has its row
\* in the attempts ledger, but for the unrecordable ones: ingest drops nothing
\* else, in whatever order the envelopes are read and the kills come
\* (campaign.py: "all other mismatches are fail-closed and visible to the
\* caller").
IngestLosesNothing ==
  pc \in {"build", "enqueue", "count", "verdict"} =>
    \A j \in listed \ attempts : Unrecordable(j)

\* A ledger whose lock directory a killed supervisor left behind.
LockLeft ==
  \/ "attempts" \in held /\ pc \notin {"attempt_row", "attempt_written"}
  \/ "episodes" \in held /\ pc \notin {"episode_row", "episode_written"}

\* run_campaign ends: it resumes until every rollout is valid or the budget of
\* the rest is spent, unless an unrecordable envelope holds a rollout for ever,
\* or a kill inside an append left its ledger locked for ever (jsonio.py:89).
Terminates ==
  <>[](pc = "exit" \/ LockLeft \/ \E j \in Jobs : Unrecordable(j))

\* What the ledgers and the queue tell each other at every moment, through kills
\* between any two writes of record_episode: one attempt at a time, and no phase
\* change without its evidence.
LedgerInv == TypeOK /\ AttemptsInOrder /\ CompleteIsComplete
=============================================================================
