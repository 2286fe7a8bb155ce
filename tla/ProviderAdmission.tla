-------------------------- MODULE ProviderAdmission --------------------------
(***************************************************************************)
(* Admission of model-provider requests on one route: persistent FIFO      *)
(* tickets, leases with a time to live, a concurrency limit with additive  *)
(* increase and multiplicative decrease, a cooldown after failures, and    *)
(* rolling request and token budgets (zetta/evolution/                     *)
(* provider_admission.py; used by run_worker of queue.py).                 *)
(*                                                                         *)
(* Every operation is one critical section on the state file and prunes it *)
(* first, so a ticket or lease whose time is over is gone for everybody at *)
(* that moment.  Latencies are abstracted to whether they have degraded,   *)
(* and the metric windows to what they still hold.                         *)
(***************************************************************************)
EXTENDS Integers, Sequences, FiniteSets, FiniteSetsExt, SequencesExt

CONSTANTS Callers,
          Estimate,    \* [Callers -> Nat]: estimated_tokens of a caller's requests
          Samples,     \* numbers of tokens a request may report
          MinLimit, InitialLimit, MaxLimit, IncreaseStep,
          Healthy,     \* healthy_successes_to_increase
          RpmLimit, TpmLimit,
          MaxCalls,    \* bound: requests of a caller
          MaxCrashes   \* bound: callers that die

ASSUME SizeAssumption ==
  {MinLimit, InitialLimit, MaxLimit, IncreaseStep, Healthy, RpmLimit, TpmLimit, MaxCalls,
   MaxCrashes} \subseteq Nat
ASSUME LimitAssumption ==
  /\ 1 <= MinLimit /\ MinLimit <= InitialLimit /\ InitialLimit <= MaxLimit
  /\ \A c \in Callers : Estimate[c] \in Nat
  /\ Samples \subseteq Nat

VARIABLES
  pc,        \* idle, waiting, holding or dead
  waiters,   \* the tickets, oldest first
  leases,    \* callers with a lease
  limit, healthy, cooling,
  starts,    \* requests begun within the window
  tokens,    \* the samples within the window: tokens of each
  beyond,    \* history: how much of each the request had not reserved
  calls, crashes

samples == <<tokens, beyond>>
route == <<limit, healthy, cooling, starts, samples>>
admissionVars == <<pc, waiters, leases, route, calls, crashes>>

AdmissionInit ==
  /\ pc = [c \in Callers |-> "idle"]
  /\ waiters = <<>> /\ leases = {}
  /\ limit = InitialLimit /\ healthy = 0 /\ cooling = FALSE
  /\ starts = 0 /\ tokens = <<>> /\ beyond = <<>>
  /\ calls = [c \in Callers |-> 0] /\ crashes = 0

Goto(c, to) == pc' = [pc EXCEPT ![c] = to]
Ticket(c) == Contains(waiters, c)

-----------------------------------------------------------------------------
(* acquire.                                                                *)

\* A ticket is appended.
Ask(c) ==
  /\ pc[c] = "idle" /\ calls[c] < MaxCalls
  /\ calls' = [calls EXCEPT ![c] = @ + 1]
  /\ waiters' = Append(waiters, c)
  /\ Goto(c, "waiting")
  /\ UNCHANGED <<leases, route, crashes>>

Reserved == SumFunctionOnSet(Estimate, leases)
Rolling == SumFunction(tokens)

\* Mutant of WithinBudget: the tokens that running requests have reserved are not counted.
WithinBudgetOfSamples(c) == starts < RpmLimit /\ Rolling + Estimate[c] <= TpmLimit

WithinBudget(c) ==
  /\ starts < RpmLimit
  /\ Rolling + Reserved + Estimate[c] <= TpmLimit

\* A poll that finds the own ticket in front and room on the route.
Admit(c) ==
  /\ pc[c] = "waiting" /\ waiters # <<>> /\ Head(waiters) = c
  /\ Cardinality(leases) < limit /\ ~cooling /\ WithinBudget(c)
  /\ waiters' = Tail(waiters)
  /\ leases' = leases \cup {c}
  /\ starts' = starts + 1
  /\ Goto(c, "holding")
  /\ UNCHANGED <<limit, healthy, cooling, samples, calls, crashes>>

\* Cancelled, timed out or interrupted: _remove_waiter.
GiveUp(c) ==
  /\ pc[c] = "waiting"
  /\ waiters' = RemoveFirst(waiters, c)
  /\ Goto(c, "idle")
  /\ UNCHANGED <<leases, route, calls, crashes>>

-----------------------------------------------------------------------------
(* Leases: heartbeat, complete and release.  A lease that has lapsed makes *)
(* heartbeat and complete raise KeyError: the request ends unreported.     *)

Unreported(c) == Goto(c, "idle") /\ UNCHANGED <<waiters, leases, route, calls, crashes>>

\* _decrease: half the limit, not below the minimum.
Decreased(n) == IF n \div 2 < MinLimit THEN MinLimit ELSE n \div 2

\* The lease ends with a sample, of whatever the request has cost: nobody compares it
\* with what was reserved.
End(c) ==
  /\ leases' = leases \ {c}
  /\ \E n \in Samples :
       /\ tokens' = Append(tokens, n)
       /\ beyond' = Append(beyond, IF n > Estimate[c] THEN n - Estimate[c] ELSE 0)
  /\ Goto(c, "idle")
  /\ UNCHANGED <<waiters, starts, calls, crashes>>

\* A failure, and a success whose p95 latency has degraded.
Fail(c) ==
  /\ pc[c] = "holding" /\ c \in leases
  /\ End(c)
  /\ limit' = Decreased(limit) /\ cooling' = TRUE /\ healthy' = 0

\* A healthy success; enough of them raise the limit, outside the cooldown.
Succeed(c) ==
  /\ pc[c] = "holding" /\ c \in leases
  /\ End(c)
  /\ IF ~cooling /\ healthy + 1 >= Healthy /\ limit < MaxLimit
     THEN /\ limit' = IF limit + IncreaseStep > MaxLimit THEN MaxLimit ELSE limit + IncreaseStep
          /\ healthy' = 0
     ELSE /\ healthy' = IF healthy < Healthy THEN healthy + 1 ELSE healthy
          /\ UNCHANGED limit
  /\ UNCHANGED cooling

\* release without an outcome.
Release(c) ==
  /\ pc[c] = "holding" /\ c \in leases
  /\ leases' = leases \ {c}
  /\ Goto(c, "idle")
  /\ UNCHANGED <<waiters, route, calls, crashes>>

LateEnd(c) == pc[c] = "holding" /\ c \notin leases /\ Unreported(c)

-----------------------------------------------------------------------------
(* Time and crashes.                                                       *)

\* The time of a ticket is over: its caller's deadline, or waiter_ttl_s.
TicketLapse(c) ==
  /\ Ticket(c)
  /\ waiters' = RemoveFirst(waiters, c)
  /\ UNCHANGED <<pc, leases, route, calls, crashes>>

\* Mutant of LeaseLapse: only the leases of callers that are alive lapse.
LeaseLapseLive(c) ==
  /\ c \in leases /\ pc[c] # "dead"
  /\ leases' = leases \ {c}
  /\ UNCHANGED <<pc, waiters, route, calls, crashes>>

\* A lease that was not renewed within lease_ttl_s, by a dead caller or a stalled one.
LeaseLapse(c) ==
  /\ c \in leases
  /\ leases' = leases \ {c}
  /\ UNCHANGED <<pc, waiters, route, calls, crashes>>

CooldownOver ==
  /\ cooling /\ cooling' = FALSE
  /\ UNCHANGED <<pc, waiters, leases, limit, healthy, starts, samples, calls, crashes>>

\* The oldest request or sample leaves its window.
WindowMoves ==
  /\ \/ starts > 0 /\ starts' = starts - 1 /\ UNCHANGED samples
     \/ tokens # <<>> /\ tokens' = Tail(tokens) /\ beyond' = Tail(beyond) /\ UNCHANGED starts
  /\ UNCHANGED <<pc, waiters, leases, limit, healthy, cooling, calls, crashes>>

Crash(c) ==
  /\ pc[c] \in {"waiting", "holding"} /\ crashes < MaxCrashes
  /\ crashes' = crashes + 1
  /\ Goto(c, "dead")
  /\ UNCHANGED <<waiters, leases, route, calls>>

-----------------------------------------------------------------------------
AdmissionNext ==
  \/ \E c \in Callers :
       \/ Ask(c) \/ Admit(c) \/ GiveUp(c)
       \/ Fail(c) \/ Succeed(c) \/ Release(c) \/ LateEnd(c)
       \/ TicketLapse(c) \/ LeaseLapse(c) \/ Crash(c)
  \/ CooldownOver \/ WindowMoves

\* Waiting callers poll and give up when their ticket is gone, requests end, and time
\* passes: dead callers' tickets and leases lapse, cooldowns and windows end.
AdmissionFairness ==
  /\ \A c \in Callers :
       /\ WF_admissionVars(Admit(c)) /\ WF_admissionVars(GiveUp(c) /\ ~Ticket(c))
       /\ WF_admissionVars(Fail(c) \/ Succeed(c) \/ Release(c) \/ LateEnd(c))
       /\ WF_admissionVars(TicketLapse(c) /\ pc[c] = "dead")
       /\ WF_admissionVars(LeaseLapse(c) /\ pc[c] = "dead")
  /\ WF_admissionVars(CooldownOver) /\ WF_admissionVars(WindowMoves)

AdmissionSpec == AdmissionInit /\ [][AdmissionNext]_admissionVars /\ AdmissionFairness

-----------------------------------------------------------------------------
(* Properties.                                                             *)

\* Tickets and leases belong to callers that wait or run, or died doing so, each at
\* most once, and the limit stays between its bounds (complete, _decrease).
AdmissionTypeOK ==
  /\ pc \in [Callers -> {"idle", "waiting", "holding", "dead"}]
  /\ IsInjective(waiters) /\ ToSet(waiters) \subseteq {c \in Callers : pc[c] \in {"waiting", "dead"}}
  /\ leases \subseteq {c \in Callers : pc[c] \in {"holding", "dead"}}
  /\ limit \in MinLimit .. MaxLimit /\ healthy \in 0 .. Healthy /\ cooling \in BOOLEAN

Excess == SumFunction(beyond)

\* The tokens of the window and of the running requests together go beyond the route's
\* budget by no more than what the requests in the window have used beyond their
\* estimates: nothing is admitted on tokens that another request has reserved, lapsed
\* leases and requests that nobody reports included.  With run_worker's estimate of 0
\* that excess is all that was used.
BudgetKept == Rolling + Reserved <= TpmLimit + Excess

\* A ticket whose estimate no empty window has room for: it waits for its deadline, and
\* everybody behind it with it (acquire and register_route do not compare the two).
Oversized == \E c \in ToSet(waiters) : Estimate[c] > TpmLimit

\* Capacity comes back: whoever crashes, however the limit falls and whatever requests
\* report, a caller that waits is admitted, gives up or dies, or an oversized request
\* is in the queue.
Admitted == \A c \in Callers : pc[c] = "waiting" ~> pc[c] # "waiting" \/ Oversized

\* The state file of the route at every moment: tickets, leases, limit and budget,
\* whoever dies, fails or is pruned (acquire, complete, release, _prune).
AdmissionInv == AdmissionTypeOK /\ BudgetKept
=============================================================================
