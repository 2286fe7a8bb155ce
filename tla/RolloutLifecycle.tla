-------------------------- MODULE RolloutLifecycle --------------------------
(***************************************************************************)
(* What the rollout queue of zetta/evolution/queue.py promises to the      *)
(* supervisor that fills it and reads it back: a job is submitted at most  *)
(* once, is claimed by at most one worker, and closes with exactly one     *)
(* immutable terminal, "completed" or "failed".  Nothing ever moves back:  *)
(* a closed job does not reopen and a claimed job is not queued again      *)
(* (recover_abandoned closes it "without replaying its side effects").     *)
(*                                                                         *)
(* Each bucket of the queue directory is one value of stage.  The module   *)
(* says nothing of files, locks, leases or crashes: SharedHostQueue has    *)
(* those and is shown to implement this specification.                     *)
(***************************************************************************)
CONSTANT Jobs

VARIABLE stage

Stages == {"absent", "pending", "running", "completed", "failed"}

Closed(j) == stage[j] \in {"completed", "failed"}

Init == stage = [j \in Jobs |-> "absent"]

Move(j, from, to) == /\ stage[j] = from
                     /\ stage' = [stage EXCEPT ![j] = to]

Submit(j) == Move(j, "absent", "pending")

Claim(j) == Move(j, "pending", "running")

Close(j) == \E bucket \in {"completed", "failed"} : Move(j, "running", bucket)

Next == \E j \in Jobs : Submit(j) \/ Claim(j) \/ Close(j)

Spec == Init /\ [][Next]_stage
=============================================================================
