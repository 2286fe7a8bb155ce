-------------------------- MODULE SharedHostQueue ---------------------------
(***************************************************************************)
(* The shared-filesystem rollout queue of one host                         *)
(* (zetta/evolution/queue.py: SharedHostQueue, run_worker,                 *)
(* SubprocessRolloutExecutor) with every process that touches its files:   *)
(*                                                                         *)
(*   Workers     run_worker: claim, execute while renewing the lease,      *)
(*               finish;                                                   *)
(*   Recoverers  recover_abandoned, run by an operator against the same    *)
(*               directory, possibly while the workers are alive;          *)
(*   one supervisor  known_job_ids followed by enqueue of what it did not  *)
(*               see (campaign.build_rollout_jobs, gate_runner), without   *)
(*               taking the claim lock.                                    *)
(*                                                                         *)
(* A critical section is split where a crash leaves a different directory: *)
(* every write, rename, link and unlink is a step of its own.              *)
(*                                                                         *)
(* Time.  The code compares wall-clock ages of a claim with two limits:    *)
(* stale_after_s (recovery may close it) and the lease (the worker may no  *)
(* longer renew or commit it).  A claim therefore carries which limits its *)
(* age has passed, and Age lets it pass them at any moment.                *)
(*                                                                         *)
(* Tokens stands for the uuid4 space: a claim takes one never used before. *)
(***************************************************************************)
EXTENDS FiniteSets, Naturals

CONSTANTS Jobs,        \* rollout jobs this host may be given
          Workers,     \* worker processes
          Recoverers,  \* processes that call recover_abandoned
          Tokens,      \* claim tokens
          None,        \* no file, no holder
          MaxCrashes   \* bound on crashes of processes (for termination)

ASSUME ProcAssumption == Workers \cap Recoverers = {}
ASSUME CrashAssumption == MaxCrashes \in Nat

VARIABLES
  pending,     \* jobs with a file in pending/
  running,     \* claim file of each token in running/, or None
  completed,   \* terminal envelope of each job in completed/, or None
  failed,      \* terminal envelope of each job in failed/, or None
  published,   \* jobs whose result_file exists
  episodes,    \* jobs whose subprocess may still be running
  lock,        \* process whose mkdir made .claim-locks/<host>.lock, or None
  sighted,     \* waiters whose last stat found the lock older than 120 s
  pc,          \* where each process is
  job,         \* the job a process works on
  tok,         \* the claim token a process works on
  res,         \* the result a process is about to commit
  scan,        \* where the supervisor is in known_job_ids
  todo,        \* paths the current glob returned and not read yet
  seen,        \* identities collected so far
  crashes,     \* crashes so far
  enqueued,    \* history: jobs ever written by enqueue
  owner,       \* history: the job each token ever claimed, or None
  acked,       \* history: the result a worker's finish returned for, by token
  late         \* history: a waiter has renamed away the lock of a live holder

files   == <<pending, running, completed, failed>>
local   == <<pc, job, tok, res>>
super   == <<scan, todo, seen, enqueued>>
history == <<owner, acked>>
steals  == <<sighted, late>>
vars == <<pending, running, completed, failed, published, episodes, lock,
          sighted, pc, job, tok, res, scan, todo, seen, crashes, enqueued,
          owner, acked, late>>

Procs     == Workers \cup Recoverers
Results   == {"success", "failure"}
Sources   == {"worker", "recovery"}
Claims    == [job : Jobs, age : {"fresh", "stale", "expired"}]
Terminals == [token : Tokens, source : Sources, result : Results]

ASSUME NoneAssumption ==
  None \notin Jobs \cup Tokens \cup Workers \cup Recoverers \cup Claims \cup Terminals

\* Positions outside and inside the claim lock, and the worker's long wait.
Outside == {"idle", "claimed", "run", "finish", "recover", "dead"}
Inside  == {"scan", "write", "rename", "return", "renew", "renewed",
            "check", "publish", "clean", "age"}

Source(p) == IF p \in Workers THEN "worker" ELSE "recovery"

\* _terminal_candidates and _find_terminal
Terminal(j)     == IF completed[j] # None THEN completed[j] ELSE failed[j]
HasTerminal(j)  == completed[j] # None \/ failed[j] # None
BothTerminal(j) == completed[j] # None /\ failed[j] # None

Init ==
  /\ pending = {} /\ published = {} /\ episodes = {} /\ enqueued = {}
  /\ running = [t \in Tokens |-> None]
  /\ completed = [j \in Jobs |-> None]
  /\ failed = [j \in Jobs |-> None]
  /\ lock = None /\ sighted = {} /\ late = FALSE
  /\ pc = [p \in Procs |-> "idle"]
  /\ job = [p \in Procs |-> None]
  /\ tok = [p \in Procs |-> None]
  /\ res = [p \in Procs |-> None]
  /\ scan = "idle" /\ todo = {} /\ seen = {}
  /\ crashes = 0
  /\ owner = [t \in Tokens |-> None]
  /\ acked = [t \in Tokens |-> None]

(***************************************************************************)
(* _queue_claim_lock: mkdir to enter, rmdir to leave.  A waiter whose mkdir *)
(* fails looks at the age of the directory (StaleStat) and, when it is over *)
(* 120 s, renames whatever directory is there by then out of the way        *)
(* (StealRename) and tries again.  Neither the rename nor the rmdir asks    *)
(* whose directory it is: of two waiters that saw a dead holder's lock, the *)
(* second may remove the fresh lock of the first.  late records that.       *)
(***************************************************************************)
Enter(p, from, to) == /\ pc[p] = from
                      /\ p \notin sighted
                      /\ lock = None
                      /\ lock' = p
                      /\ pc' = [pc EXCEPT ![p] = to]

Leave(p, to) == /\ lock' = None
                /\ pc' = [pc EXCEPT ![p] = to]

\* What a process knew is gone: the next call starts from nothing.
Forget(p) == /\ job' = [job EXCEPT ![p] = None]
             /\ tok' = [tok EXCEPT ![p] = None]
             /\ res' = [res EXCEPT ![p] = None]

Goto(p, to) == /\ pc' = [pc EXCEPT ![p] = to]
               /\ UNCHANGED lock

\* Positions from which a process enters the lock.
Waiting(p) == \/ pc[p] \in {"run", "finish", "recover"}
              \/ pc[p] = "idle" /\ p \in Workers

\* The stat of a waiter that finds the lock directory over 120 s old.
Sight(p) == /\ Waiting(p) /\ lock # None
            /\ sighted' = sighted \cup {p}
            /\ UNCHANGED <<files, local, super, history, published, episodes,
                           lock, crashes, late>>

\* Mutant of StaleStat: the age of the lock directory is not looked at.
StaleStatAny(p) == Sight(p)

\* With critical sections under 120 s only a dead holder's lock is that old.
StaleStat(p) == lock # None /\ pc[lock] \notin Inside /\ Sight(p)

\* A critical section has outlasted 120 s (in SlowSpec only).
SlowStat(p) == lock # None /\ pc[lock] \in Inside /\ Sight(p)

StealRename(p) ==
  /\ p \in sighted
  /\ sighted' = sighted \ {p}
  /\ lock' = None
  /\ late' = (late \/ (lock # None /\ pc[lock] \in Inside))
  /\ UNCHANGED <<files, local, super, history, published, episodes, crashes>>

\* An exception escapes: run_worker ends, recover_abandoned returns to its
\* caller, the context manager removes the lock directory on the way out.
Raise(p) == Leave(p, IF p \in Workers THEN "dead" ELSE "idle")

(***************************************************************************)
(* claim                                                                   *)
(***************************************************************************)
ClaimEnter(w) ==
  /\ Enter(w, "idle", "scan")
  /\ UNCHANGED <<files, job, tok, res, super, history, published, episodes, crashes, steals>>

\* Every pending job is looked up among the terminals; one that is closed is
\* unlinked.  The rotation over scheduling keys decides which of the rest is
\* taken: any may be here.
ClaimScan(w) ==
  /\ pc[w] = "scan"
  /\ IF \E j \in pending : BothTerminal(j)
       THEN /\ Raise(w)
            /\ UNCHANGED <<pending, job>>
       ELSE /\ pending' = {j \in pending : ~HasTerminal(j)}
            /\ \/ /\ pending' = {}
                  /\ Leave(w, "idle")
                  /\ UNCHANGED job
               \/ \E j \in pending' :
                    /\ job' = [job EXCEPT ![w] = j]
                    /\ Goto(w, "write")
  /\ UNCHANGED <<running, completed, failed, tok, res, super, history,
                 published, episodes, crashes, steals>>

\* atomic_write_json(source, claim, overwrite=True) replaces the pending
\* file, or makes it again if it is gone.
ClaimWrite(w) ==
  /\ pc[w] = "write"
  /\ pending' = pending \cup {job[w]}
  /\ Goto(w, "rename")
  /\ UNCHANGED <<running, completed, failed, job, tok, res, super, history,
                 published, episodes, crashes, steals>>

\* source.rename(running/claim-<token>.json): the ownership rename.
ClaimRename(w) ==
  /\ pc[w] = "rename"
  /\ IF job[w] \in pending
       THEN \E t \in Tokens :
              /\ owner[t] = None
              /\ pending' = pending \ {job[w]}
              /\ running' = [running EXCEPT ![t] = [job |-> job[w], age |-> "fresh"]]
              /\ owner' = [owner EXCEPT ![t] = job[w]]
              /\ tok' = [tok EXCEPT ![w] = t]
              /\ Goto(w, "return")
       ELSE /\ Leave(w, "idle")
            /\ UNCHANGED <<pending, running, owner, tok>>
  /\ UNCHANGED <<completed, failed, job, res, acked, super, published,
                 episodes, crashes, steals>>

\* The fairness cursor is written and the lock released.
ClaimReturn(w) ==
  /\ pc[w] = "return"
  /\ Leave(w, "claimed")
  /\ UNCHANGED <<files, job, tok, res, super, history, published, episodes, crashes, steals>>

(***************************************************************************)
(* run_worker between claim and finish                                     *)
(***************************************************************************)
\* queue.claim_token reads the claim again, without the lock: a claim that a
\* recovery has closed meanwhile is not there any more.
StartEpisode(w) ==
  /\ pc[w] = "claimed"
  /\ \/ /\ running[tok[w]] = None
        /\ Goto(w, "dead")
        /\ UNCHANGED episodes
     \/ /\ running[tok[w]] # None
        /\ Goto(w, "run")
        /\ episodes' = episodes \cup {job[w]}
  /\ UNCHANGED <<files, job, tok, res, super, history, published, crashes, steals>>

\* The subprocess (its own session, so it outlives its worker) writes its
\* result_file.
EpisodePublish(j) ==
  /\ j \in episodes
  /\ published' = published \cup {j}
  /\ UNCHANGED <<files, local, super, history, episodes, lock, crashes, steals>>
\* executor.run returns: the process ended or a watchdog (a failed heartbeat
\* included) ended it.  Success needs the result file.
EpisodeEnd(w) ==
  /\ pc[w] = "run" /\ w \notin sighted
  /\ \E r \in Results :
       /\ r = "success" => job[w] \in published
       /\ res' = [res EXCEPT ![w] = r]
  /\ episodes' = episodes \ {job[w]}
  /\ Goto(w, "finish")
  /\ UNCHANGED <<files, job, tok, super, history, published, crashes, steals>>

HeartbeatEnter(w) ==
  /\ Enter(w, "run", "renew")
  /\ UNCHANGED <<files, job, tok, res, super, history, published, episodes, crashes, steals>>

\* heartbeat refuses a claim that is gone or expired; the progress callback's
\* exception makes executor.run kill the subprocess and return a failure.
HeartbeatCheck(w) ==
  /\ pc[w] = "renew"
  /\ IF running[tok[w]] = None \/ running[tok[w]].age = "expired"
       THEN /\ res' = [res EXCEPT ![w] = "failure"]
            /\ episodes' = episodes \ {job[w]}
            /\ Leave(w, "finish")
       ELSE /\ Goto(w, "renewed")
            /\ UNCHANGED <<res, episodes>>
  /\ UNCHANGED <<files, job, tok, super, history, published, crashes, steals>>

HeartbeatWrite(w) ==
  /\ pc[w] = "renewed"
  /\ running' = [running EXCEPT ![tok[w]] = [job |-> job[w], age |-> "fresh"]]
  /\ Leave(w, "run")
  /\ UNCHANGED <<pending, completed, failed, job, tok, res, super, history,
                 published, episodes, crashes, steals>>

(***************************************************************************)
(* finish and recover_abandoned, which share _finish_locked                *)
(***************************************************************************)
FinishEnter(w) ==
  /\ Enter(w, "finish", "check")
  /\ UNCHANGED <<files, job, tok, res, super, history, published, episodes, crashes, steals>>

\* 30 s without the lock: TimeoutError ends run_worker, the claim stays.
FinishTimeout(w) ==
  /\ pc[w] = "finish" /\ w \notin sighted
  /\ lock # None
  /\ Goto(w, "dead")
  /\ UNCHANGED <<files, job, tok, res, super, history, published, episodes, crashes, steals>>

\* recover_abandoned walks a glob taken before it holds the lock: the claim
\* it is about to look at may be gone when it does.
RecoverStart(r) ==
  /\ pc[r] = "idle"
  /\ \E t \in Tokens :
       /\ running[t] # None
       /\ tok' = [tok EXCEPT ![r] = t]
  /\ Goto(r, "recover")
  /\ UNCHANGED <<files, job, res, super, history, published, episodes, crashes, steals>>

RecoverEnter(r) ==
  /\ Enter(r, "recover", "age")
  /\ UNCHANGED <<files, job, tok, res, super, history, published, episodes, crashes, steals>>
\* Mutant of RecoverCheck: an abandoned claim is queued again.
RecoverRequeues(r) ==
  /\ pc[r] = "age"
  /\ LET c == running[tok[r]] IN
       IF c = None \/ HasTerminal(c.job) \/ c.age = "fresh"
         THEN UNCHANGED <<pending, running>>
         ELSE /\ pending' = pending \cup {c.job}
              /\ running' = [running EXCEPT ![tok[r]] = None]
  /\ Leave(r, "idle")
  /\ Forget(r)
  /\ UNCHANGED <<completed, failed, super, history, published, episodes, crashes, steals>>

\* Mutant of RecoverCheck: a claim that is already closed is left where it is.
RecoverSkipsClosed(r) ==
  /\ pc[r] = "age"
  /\ LET c == running[tok[r]] IN
       IF c = None \/ HasTerminal(c.job) \/ c.age = "fresh"
         THEN Leave(r, "idle") /\ Forget(r)
         ELSE /\ job' = [job EXCEPT ![r] = c.job]
              /\ res' = [res EXCEPT ![r] = IF c.job \in published THEN "success"
                                                                   ELSE "failure"]
              /\ Goto(r, "check")
              /\ UNCHANGED tok
  /\ UNCHANGED <<files, super, history, published, episodes, crashes, steals>>

\* A claim already closed is only cleaned up; a live one is left alone; an
\* abandoned one is closed with its published result, or as a failure when
\* there is none or it does not validate.
RecoverCheck(r) ==
  /\ pc[r] = "age"
  /\ LET c == running[tok[r]] IN
     \/ /\ c # None => ~HasTerminal(c.job) /\ c.age = "fresh"
        /\ Leave(r, "idle")
        /\ Forget(r)
        /\ UNCHANGED running
     \/ /\ c # None /\ HasTerminal(c.job)
        /\ Leave(r, "idle")
        /\ running' = IF BothTerminal(c.job) \/ Terminal(c.job).token # tok[r]
                        THEN running
                        ELSE [running EXCEPT ![tok[r]] = None]
        /\ Forget(r)
     \/ /\ c # None /\ ~HasTerminal(c.job) /\ c.age # "fresh"
        /\ job' = [job EXCEPT ![r] = c.job]
        /\ \E outcome \in Results :
             /\ outcome = "success" => c.job \in published
             /\ res' = [res EXCEPT ![r] = outcome]
        /\ Goto(r, "check")
        /\ UNCHANGED <<running, tok>>
  /\ UNCHANGED <<pending, completed, failed, super, history, published,
                 episodes, crashes, steals>>

Mine(p) == [token |-> tok[p], source |-> Source(p), result |-> res[p]]
\* Mutant of CommitCheck: the terminal is looked up only where this result
\* would go.
CommitCheckOneBucket(p) ==
  /\ pc[p] = "check"
  /\ LET c == running[tok[p]]
         there == IF res[p] = "success" THEN completed[job[p]] ELSE failed[job[p]]
         expired == c # None /\ c.age = "expired" /\ Source(p) = "worker"
     IN IF expired \/ there \notin {None, Mine(p)} \/ (there = None /\ c = None)
          THEN Raise(p)
          ELSE Goto(p, IF there # None THEN "clean" ELSE "publish")
  /\ UNCHANGED <<files, job, tok, res, super, history, published, episodes,
                 crashes, steals>>

\* _finish_locked up to the publish: the lease fence, then the terminal that
\* is already there, which only an exact retry may find.
CommitCheck(p) ==
  /\ pc[p] = "check"
  /\ LET c == running[tok[p]]
         existing == HasTerminal(job[p])
         same == ~BothTerminal(job[p]) /\ Terminal(job[p]) = Mine(p)
         expired == c # None /\ c.age = "expired" /\ Source(p) = "worker"
     IN IF expired \/ (existing /\ ~same) \/ (~existing /\ c = None)
          THEN Raise(p)
          ELSE Goto(p, IF existing THEN "clean" ELSE "publish")
  /\ UNCHANGED <<files, job, tok, res, super, history, published, episodes, crashes, steals>>
\* The immutable publish, "the sole terminal commit point".  The hard link
\* refuses to replace a file; its path depends on the result.
CommitPublish(p) ==
  /\ pc[p] = "publish"
  /\ LET j == job[p] IN
     \/ /\ res[p] = "success" /\ completed[j] = None
        /\ completed' = [completed EXCEPT ![j] = Mine(p)]
        /\ Goto(p, "clean")
        /\ UNCHANGED failed
     \/ /\ res[p] = "failure" /\ failed[j] = None
        /\ failed' = [failed EXCEPT ![j] = Mine(p)]
        /\ Goto(p, "clean")
        /\ UNCHANGED completed
     \/ /\ IF res[p] = "success" THEN completed[j] # None ELSE failed[j] # None
        /\ Raise(p)
        /\ UNCHANGED <<completed, failed>>
  /\ UNCHANGED <<pending, running, job, tok, res, super, history, published,
                 episodes, crashes, steals>>

\* The running claim is removed and the call returns.
CommitClean(p) ==
  /\ pc[p] = "clean"
  /\ running' = [running EXCEPT ![tok[p]] = None]
  /\ acked' = IF p \in Workers THEN [acked EXCEPT ![tok[p]] = res[p]] ELSE acked
  /\ Leave(p, "idle")
  /\ Forget(p)
  /\ UNCHANGED <<pending, completed, failed, super, owner, published,
                 episodes, crashes, steals>>

(***************************************************************************)
(* The supervisor: known_job_ids, bucket by bucket, then enqueue           *)
(***************************************************************************)
\* The paths a glob of the bucket returns: one per job, or per token.
Paths(bucket) ==
  CASE bucket = "pending"   -> pending
    [] bucket = "running"   -> {t \in Tokens : running[t] # None}
    [] bucket = "completed" -> {j \in Jobs : completed[j] # None}
    [] bucket = "failed"    -> {j \in Jobs : failed[j] # None}
\* Mutant of After: the terminal buckets are read before running.
AfterBackwards(bucket) ==
  CASE bucket = "pending"   -> "completed"
    [] bucket = "completed" -> "failed"
    [] bucket = "failed"    -> "running"
    [] bucket = "running"   -> "enqueue"

After(bucket) ==
  CASE bucket = "pending"   -> "running"
    [] bucket = "running"   -> "completed"
    [] bucket = "completed" -> "failed"
    [] bucket = "failed"    -> "enqueue"

ScanStart ==
  /\ scan = "idle"
  /\ scan' = "pending"
  /\ todo' = Paths("pending")
  /\ seen' = {}
  /\ UNCHANGED <<files, local, history, published, episodes, lock, crashes, steals, enqueued>>

\* read_json of one path; a path that has disappeared since the glob is
\* skipped.
ScanRead ==
  /\ scan \in {"pending", "running", "completed", "failed"}
  /\ \E path \in todo :
       /\ todo' = todo \ {path}
       /\ seen' = IF path \notin Paths(scan) THEN seen
                  ELSE seen \cup {IF scan = "running" THEN running[path].job
                                                      ELSE path}
  /\ UNCHANGED <<files, local, history, published, episodes, lock, crashes, steals,
                 scan, enqueued>>

ScanNext ==
  /\ scan \in {"pending", "running", "completed", "failed"}
  /\ todo = {}
  /\ scan' = After(scan)
  /\ todo' = IF scan' = "enqueue" THEN {} ELSE Paths(scan')
  /\ UNCHANGED <<files, local, history, published, episodes, lock, crashes, steals,
                 seen, enqueued>>
\* Mutant of Enqueue: what the scan has seen is not excluded.
EnqueueAgain(j) ==
  /\ scan = "enqueue"
  /\ pending' = pending \cup {j}
  /\ enqueued' = enqueued \cup {j}
  /\ seen' = seen \cup {j}
  /\ UNCHANGED <<running, completed, failed, local, history, published,
                 episodes, lock, crashes, steals, scan, todo>>

Enqueue(j) ==
  /\ scan = "enqueue"
  /\ j \notin seen
  /\ pending' = pending \cup {j}
  /\ enqueued' = enqueued \cup {j}
  /\ seen' = seen \cup {j}
  /\ UNCHANGED <<running, completed, failed, local, history, published,
                 episodes, lock, crashes, steals, scan, todo>>

\* The pass ends, or the supervisor dies in the middle of it.
ScanEnd ==
  /\ scan # "idle"
  /\ scan' = "idle"
  /\ todo' = {}
  /\ UNCHANGED <<files, local, history, published, episodes, lock, crashes, steals,
                 seen, enqueued>>

(***************************************************************************)
(* Time and failures                                                       *)
(***************************************************************************)
Age(t) ==
  /\ running[t] # None
  /\ running[t].age # "expired"
  /\ \E a \in {"stale", "expired"} : running' = [running EXCEPT ![t].age = a]
  /\ UNCHANGED <<pending, completed, failed, local, super, history, published,
                 episodes, lock, crashes, steals>>

\* A process is killed: its files, its lock directory and its subprocess stay.
Crash(p) ==
  /\ pc[p] \notin {"dead", "idle"}
  /\ crashes < MaxCrashes
  /\ crashes' = crashes + 1
  /\ pc' = [pc EXCEPT ![p] = "dead"]
  /\ sighted' = sighted \ {p}
  /\ UNCHANGED <<files, job, tok, res, super, history, published, episodes,
                 lock, late>>

Restart(p) ==
  /\ pc[p] = "dead"
  /\ pc' = [pc EXCEPT ![p] = "idle"]
  /\ Forget(p)
  /\ UNCHANGED <<files, super, history, published, episodes, lock, crashes, steals>>

WorkerStep(w) == \/ ClaimEnter(w) \/ ClaimScan(w) \/ ClaimWrite(w)
                 \/ ClaimRename(w) \/ ClaimReturn(w) \/ StartEpisode(w)
                 \/ EpisodeEnd(w) \/ HeartbeatEnter(w) \/ HeartbeatCheck(w)
                 \/ HeartbeatWrite(w) \/ FinishEnter(w) \/ FinishTimeout(w)

RecovererStep(r) == RecoverStart(r) \/ RecoverEnter(r) \/ RecoverCheck(r)

CommitStep(p) == CommitCheck(p) \/ CommitPublish(p) \/ CommitClean(p)

SupervisorStep == \/ ScanStart \/ ScanRead \/ ScanNext \/ ScanEnd
                  \/ \E j \in Jobs : Enqueue(j)

Next == \/ \E w \in Workers : WorkerStep(w)
        \/ \E r \in Recoverers : RecovererStep(r)
        \/ \E p \in Procs : CommitStep(p) \/ Crash(p) \/ Restart(p)
        \/ \E p \in Procs : StaleStat(p) \/ StealRename(p)
        \/ SupervisorStep
        \/ \E j \in Jobs : EpisodePublish(j)
        \/ \E t \in Tokens : Age(t)

Spec == Init /\ [][Next]_vars

\* The same system when a critical section may outlast the 120 s after which
\* another process takes the lock directory away.
SlowNext == Next \/ \E p \in Procs : SlowStat(p)
SlowSpec == Init /\ [][SlowNext]_vars

(***************************************************************************)
(* Fairness.  A live worker keeps polling and its episode ends (the        *)
(* watchdogs of executor.run bound it); SF on entering the lock because    *)
(* the waiters poll every 10 ms while a worker that finds nothing sleeps   *)
(* 2 s.  Restart and recovery are the operator's procedure: no process of  *)
(* the repository calls recover_abandoned by itself.                       *)
(***************************************************************************)
Fairness ==
  /\ \A w \in Workers :
       /\ SF_vars(ClaimEnter(w)) /\ SF_vars(FinishEnter(w))
       /\ WF_vars(ClaimScan(w) \/ ClaimWrite(w) \/ ClaimRename(w) \/ ClaimReturn(w))
       /\ WF_vars(StartEpisode(w)) /\ SF_vars(EpisodeEnd(w))
       /\ WF_vars(HeartbeatCheck(w) \/ HeartbeatWrite(w))
  /\ \A r \in Recoverers :
       /\ WF_vars(RecoverStart(r)) /\ SF_vars(RecoverEnter(r)) /\ WF_vars(RecoverCheck(r))
  /\ \A p \in Procs : WF_vars(CommitStep(p)) /\ WF_vars(Restart(p))
  /\ WF_vars(\E p \in Procs : StaleStat(p) \/ StealRename(p))
  /\ \A t \in Tokens : WF_vars(Age(t))

FairSpec == Spec /\ Fairness

-----------------------------------------------------------------------------
RunningJobs == {running[t].job : t \in {u \in Tokens : running[u] # None}}

\* The files hold what enqueue, claim and _finish_locked write; a process is
\* at one of its positions.
TypeOK ==
  /\ pending \subseteq Jobs /\ published \subseteq Jobs
  /\ episodes \subseteq Jobs /\ enqueued \subseteq Jobs /\ seen \subseteq Jobs
  /\ running \in [Tokens -> Claims \cup {None}]
  /\ completed \in [Jobs -> Terminals \cup {None}]
  /\ failed \in [Jobs -> Terminals \cup {None}]
  /\ lock \in Procs \cup {None} /\ sighted \subseteq Procs /\ late \in BOOLEAN
  /\ pc \in [Procs -> Outside \cup Inside]
  /\ job \in [Procs -> Jobs \cup {None}]
  /\ tok \in [Procs -> Tokens \cup {None}]
  /\ res \in [Procs -> Results \cup {None}]
  /\ scan \in {"idle", "pending", "running", "completed", "failed", "enqueue"}
  /\ todo \subseteq Jobs \cup Tokens
  /\ crashes \in 0..MaxCrashes
  /\ owner \in [Tokens -> Jobs \cup {None}]
  /\ acked \in [Tokens -> Results \cup {None}]

\* A job never has both a completed and a failed terminal: finish commits
\* "one immutable terminal envelope" whoever races it (queue.py _find_terminal
\* calls the pair conflicting and every later call on the job raises).
OneTerminal == \A j \in Jobs : ~BothTerminal(j)

\* No two tokens ever claimed the same job.
ClaimedOnce ==
  \A t, u \in Tokens : owner[t] # None /\ owner[t] = owner[u] => t = u

\* A job is claimed once in its life, so its episode is never replayed: not
\* by a restarted worker, not after recover_abandoned, not because the
\* supervisor enqueued it a second time while it moved between buckets.  Not
\* so once a waiter has renamed away the lock of a live holder
\* (queue.py:101-107): then two claims may write and rename the same pending
\* file one after the other.
NoReplay == ~late => ClaimedOnce

\* The lock of a live holder is lost only after a process has died inside the
\* lock: with short critical sections the 120 s test of _queue_claim_lock
\* never fires otherwise.
LossNeedsCrash == late => crashes > 0

\* known_job_ids takes no lock and reads four directories one after the other
\* while jobs move between them; what it returns still contains every job
\* that was ever enqueued.
ScanComplete == scan = "enqueue" => enqueued \subseteq seen

\* When a worker's finish returns, the job's terminal is that worker's: its
\* token, its result, committed by a worker and not by recovery.
AckedIsTerminal ==
  \A t \in Tokens : acked[t] # None =>
    /\ owner[t] # None
    /\ Terminal(owner[t]) = [token |-> t, source |-> "worker", result |-> acked[t]]

\* No step replaces or removes a terminal (atomic_write_json with
\* overwrite=False publishes by hard link), whoever holds the lock.
TerminalImmutable ==
  [][\A j \in Jobs : /\ completed[j] # None => completed'[j] = completed[j]
                     /\ failed[j] # None => failed'[j] = failed[j]]_vars

\* A job recorded as completed left its result file behind: executor.run and
\* _valid_published_result both insist on it.
SuccessHasResult == \A j \in Jobs : completed[j] # None => j \in published

\* Every job enqueued is eventually closed, whatever crashed on the way, and
\* its running claim disappears; unless the lock of a live holder was lost,
\* after which two terminals or two claims of the job may stay for ever.
EventuallyClosed ==
  \A j \in Jobs :
    j \in enqueued ~> late \/ (HasTerminal(j) /\ j \notin RunningJobs)

-----------------------------------------------------------------------------
(***************************************************************************)
(* The inductive invariant behind the properties above: Base holds whoever *)
(* is inside the lock, Exclusive until the lock of a live holder is lost.  *)
(***************************************************************************)
\* What a process remembers at each of its positions, lock or no lock.
Recalled ==
  \A p \in Procs :
    /\ pc[p] \in {"write", "rename"} => job[p] \in enqueued
    /\ pc[p] \in {"recover", "age"} => tok[p] \in Tokens
    /\ pc[p] \in {"return", "claimed", "run", "renew", "renewed", "finish",
                  "check", "publish", "clean"} =>
         /\ job[p] \in Jobs /\ tok[p] \in Tokens /\ owner[tok[p]] = job[p]
    /\ pc[p] \in {"finish", "check", "publish", "clean"} =>
         /\ res[p] \in Results
         /\ res[p] = "success" => job[p] \in published
    /\ pc[p] = "clean" => HasTerminal(job[p])

\* Only enqueued jobs are in the directory, a claim or terminal file names the
\* token that owns its job, and no job is ever in no bucket.
Directory ==
  /\ pending \subseteq enqueued
  /\ \A t \in Tokens : owner[t] # None =>
       owner[t] \in enqueued /\ (running[t] # None \/ HasTerminal(owner[t]))
  /\ \A t \in Tokens : running[t] # None => owner[t] = running[t].job
  /\ \A j \in Jobs : completed[j] # None => owner[completed[j].token] = j
  /\ \A j \in Jobs : failed[j] # None => owner[failed[j].token] = j
  /\ \A j \in enqueued : j \in pending \/ \E t \in Tokens : owner[t] = j

\* A job the scan has not collected is still ahead of it: on a path it has
\* listed and not read, or in a bucket it has not listed.
ScanAhead ==
  \A j \in enqueued \ seen :
    /\ scan = "pending" =>
         j \in todo \/ HasTerminal(j) \/ \E t \in Tokens : owner[t] = j
    /\ scan = "running" =>
         HasTerminal(j) \/ \E t \in todo \cap Tokens : owner[t] = j
    /\ scan = "completed" =>
         failed[j] # None \/ (j \in todo /\ completed[j] # None)
    /\ scan = "failed" => j \in todo /\ failed[j] # None
    /\ scan # "enqueue"

Base == TypeOK /\ Recalled /\ Directory /\ ScanAhead /\ SuccessHasResult

\* The claim lock excludes.
Mutex == \A p \in Procs : pc[p] \in Inside => lock = p

\* What a process inside the lock has checked and nobody may change.
Memory ==
  \A p \in Procs :
    /\ pc[p] \in {"write", "rename"} => job[p] \in pending
    /\ pc[p] \in {"renewed", "publish"} => running[tok[p]] # None
    /\ pc[p] = "publish" => ~HasTerminal(job[p])
    /\ pc[p] = "clean" => Terminal(job[p]) = Mine(p)

\* A pending job was never claimed.
Unclaimed == \A t \in Tokens : owner[t] \notin pending

Exclusive == /\ Mutex /\ Memory /\ Unclaimed
             /\ OneTerminal /\ ClaimedOnce /\ AckedIsTerminal

\* Checked by TLC and proved inductive in SharedHostQueue_proofs.  Whoever is
\* inside the lock, every enqueued job stays in some bucket, the scan misses
\* none and a success has its result; and until the lock of a live holder is
\* lost the lock excludes, a job has one terminal and one claim, and a finish
\* that returned is that terminal.
Inductive == Base /\ (~late => Exclusive)

-----------------------------------------------------------------------------
(***************************************************************************)
(* What the directory says of a job, as RolloutLifecycle sees it.  pending *)
(* is looked at before running, so that a job queued again while it runs   *)
(* would show as a step back.                                              *)
(***************************************************************************)
StageOf(j) ==
  CASE completed[j] # None -> "completed"
    [] completed[j] = None /\ failed[j] # None -> "failed"
    [] ~HasTerminal(j) /\ j \in pending -> "pending"
    [] ~HasTerminal(j) /\ j \notin pending /\ j \in RunningJobs -> "running"
    [] OTHER -> "absent"

Lifecycle == INSTANCE RolloutLifecycle WITH stage <- [j \in Jobs |-> StageOf(j)]

stages == [j \in Jobs |-> StageOf(j)]

\* The queue implements RolloutLifecycle: submitted once, claimed once, closed
\* once, and never a step back, not even across a crash, as long as no live
\* holder loses the claim lock.
ImplementsLifecycle ==
  /\ Lifecycle!Init
  /\ [][~late' => Lifecycle!Next \/ UNCHANGED stages]_vars
=============================================================================
