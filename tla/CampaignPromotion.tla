-------------------------- MODULE CampaignPromotion --------------------------
(***************************************************************************)
(* One campaign generation after its rollouts: diagnose a failure cluster, *)
(* propose a candidate, try it in the same-seed, regression and held-out   *)
(* gates, promote it and hand over to the child generation.                *)
(* supervisor.py runs one step of this machine at a time and restarts from *)
(* the files.  state is state.json, replaced atomically; the ledgers and   *)
(* artifacts are append-only and written one after the other, so that a    *)
(* stop between two writes is a state of this module (pc is where the      *)
(* supervisor process is, "idle" between steps and after a restart).       *)
(*                                                                         *)
(* A candidate is the number of its agents/candidate-NNN directory plus 1. *)
(* What the agents, the shadow replay and the paired arms say is chosen by *)
(* the environment, once: their outputs are committed files.               *)
(***************************************************************************)
EXTENDS Integers, FiniteSets, FiniteSetsExt

CONSTANTS
  Policies,   \* the frozen manifests: targets, rounds, total, sameCap, heldCap,
              \* skip, test, defer (0 for a cap that is not explicit)
  MaxCands,   \* bound: candidates proposed
  MaxFaults,  \* bound: interrupts and kills
  MaxGrants,  \* bound: authorized thresholds, with the provisional hypothesis
  None

Cands == 1 .. MaxCands
Ranks == 0 .. 1          \* materialize_cluster_targets keeps two targets
Gates == {"same_seed", "regression", "heldout_10", "heldout_50"}
Skip  == {"none", "keep", "skip"}   \* an authorization and its skip_regression

ASSUME PolicyAssumption ==
  /\ Policies \subseteq
       [targets : 0 .. 2, rounds : Nat \ {0}, total : Nat, sameCap : Nat,
        heldCap : Nat, skip : BOOLEAN, test : BOOLEAN, defer : BOOLEAN]
  /\ {MaxCands, MaxFaults, MaxGrants} \subseteq Nat /\ None \notin Nat

VARIABLES
  policy,      \* runtime.evolution_policy of the manifest
  state,       \* state.json
  diag,        \* diagnoses ledger: the verdict on the cluster of each rank
  home,        \* rank of the diagnosis a candidate was proposed for
  verdict,     \* what the feature contract and the shadow replay say of it
  shadow,      \* its replay: none, report (no precommit), admitted, refused
  registered,  \* candidate ledger
  gates,       \* gate ledger
  arms,        \* valid episodes of the gate in progress, see Decision
  screened,    \* shadow-candidate-rejections
  vetoed,      \* operator-candidate-rejections
  override,    \* same-seed threshold authorization of each candidate
  listed,      \* those with a row in the ledger of authorizations
  drifted,     \* its evidence no longer gives the recorded same-seed decision
  falsify,     \* shadow-live-gate-authorizations
  promotions,  \* promotion ledger
  bundle, child, continuation,  \* generation bundle, child store, handoff file
  pc, work, gate, left, \* supervisor, its candidate and gate, locks left by a kill
  veto, vetoing,    \* the operator's reject_registered_noop_candidate
  grantee, granting, \* and authorize_same_seed_threshold_override
  faults

ledgers   == <<diag, home, registered, gates, promotions>>
waivers   == <<override, listed, drifted>>
artifacts == <<verdict, shadow, screened, vetoed, waivers, falsify>>
handoff   == <<bundle, child, continuation>>
authorize == <<grantee, granting>>
operator  == <<veto, vetoing, authorize>>
doing     == <<work, gate>>
vars == <<policy, state, ledgers, arms, artifacts, handoff, pc, doing, left,
          operator, faults>>

\* Directory locks, none of which has a recovery, by what they keep waiting: those
\* of the diagnoses ledger and of the artifact resolver, of the proposal stage (with
\* the candidate ledger), of the gates and promotions ledgers and of authorizations.
Locks == {"diagnosis", "proposal", "gates", "promotions", "authorize"}

GatePhases == {"same_seed_gate", "regression_gate", "heldout_gate"}

\* Analysis is over and the campaign is in CLUSTER.
Init ==
  /\ policy \in Policies
  /\ state = [phase |-> "cluster", outcome |-> "none", candidate |-> None,
              current |-> None, rank |-> 0, same |-> 0, held |-> 0,
              prov |-> "none", provRank |-> 0, bound |-> None]
  /\ diag = [r \in Ranks |-> "none"]
  /\ home = [c \in Cands |-> None] /\ verdict = [c \in Cands |-> "none"]
  /\ shadow = [c \in Cands |-> "none"]
  /\ registered = {} /\ screened = {} /\ vetoed = {} /\ falsify = {}
  /\ gates = [c \in Cands |-> [k \in Gates |-> "none"]]
  /\ override = [c \in Cands |-> "none"] /\ listed = {} /\ drifted = {}
  /\ arms = "open" /\ promotions = {}
  /\ bundle = FALSE /\ child = None /\ continuation = None
  /\ pc = "idle" /\ work = None /\ gate = None /\ left = {}
  /\ veto = None /\ vetoing = "idle" /\ grantee = None /\ granting = "none"
  /\ faults = 0

-----------------------------------------------------------------------------
(***************************************************************************)
(* What the ledgers say                                                    *)
(***************************************************************************)
GateRejected == {c \in Cands : \E k \in Gates : gates[c][k] \in {"fail", "early"}}
Rejected == GateRejected \cup screened \cup vetoed

RejectedFor(r) == {c \in Rejected : home[c] = r}

\* _operator_candidate_rejections raises when a rejected candidate was gated.
VetoesSound == \A c \in vetoed : \A k \in Gates : gates[c][k] = "none"

Allowed(source, target) ==
  CASE source = "cluster" -> target \in {"diagnose", "complete"}
    [] source = "diagnose" -> target \in {"propose", "complete"}
    [] source = "propose" -> target \in {"same_seed_gate", "complete"}
    [] source = "same_seed_gate" ->
         target \in {"diagnose", "propose", "regression_gate", "heldout_gate",
                     "promote", "complete"}
    [] source = "regression_gate" ->
         target \in {"diagnose", "propose", "heldout_gate", "promote", "complete"}
    [] source = "heldout_gate" ->
         target \in {"diagnose", "propose", "promote", "complete"}
    [] source = "promote" -> target \in {"rollout", "complete"}
    [] OTHER -> FALSE

\* _advance_after_candidate_rejection for a candidate of the cluster of rank r:
\* refine it, turn to the secondary cluster, or end.
AfterRejection(r) ==
  CASE policy.total > 0 /\ Cardinality(Rejected) >= policy.total ->
         [state EXCEPT !.phase = "complete", !.outcome = "exhausted"]
    [] ~(policy.total > 0 /\ Cardinality(Rejected) >= policy.total)
         /\ Cardinality(RejectedFor(r)) < policy.rounds ->
         [state EXCEPT !.phase = "propose", !.outcome = "refine"]
    [] OTHER ->
         IF r + 1 < policy.targets
           THEN [state EXCEPT !.phase = "diagnose", !.outcome = "secondary",
                              !.candidate = None, !.rank = r + 1]
           ELSE [state EXCEPT !.phase = "complete", !.outcome = "no_candidate",
                              !.candidate = None]

-----------------------------------------------------------------------------
(***************************************************************************)
(* run_diagnosis_stage                                                     *)
(***************************************************************************)
Idle(p) == pc = "idle" /\ state.phase = p

StartDiagnosis ==
  /\ Idle("cluster")
  /\ state' = IF policy.targets = 0
                THEN [state EXCEPT !.phase = "complete", !.outcome = "no_failures"]
                ELSE [state EXCEPT !.phase = "diagnose"]
  /\ UNCHANGED <<policy, ledgers, arms, artifacts, handoff, pc, doing, left,
                 operator, faults>>

\* load_same_seed_threshold_authorization raises between the three writes of an
\* authorization, or once a later one has taken the place in the state.
Loads(c) ==
  override[c] # "none" => c \in listed /\ (state.candidate = c => state.bound = c)

\* _completed_gate_episode_rows: the artifact index of a diagnosis or a proposal
\* derives every same-seed decision again and raises when one differs.
Reproducible ==
  \A c \in registered : gates[c].same_seed # "none" => c \notin drifted /\ Loads(c)

\* agent.diagnose and register_diagnosis; a second call returns the committed
\* output and appends nothing.
RegisterDiagnosis(v) ==
  /\ Idle("diagnose") /\ "diagnosis" \notin left /\ Reproducible
  /\ v = diag[state.rank] \/ diag[state.rank] = "none"
  /\ diag' = [diag EXCEPT ![state.rank] = v]
  /\ pc' = "route"
  /\ UNCHANGED <<policy, state, home, registered, gates, promotions, arms,
                 artifacts, handoff, doing, left, operator, faults>>

\* A conclusive diagnosis is proposed for; _route_inconclusive_diagnosis
\* defers, skips the cluster or ends.
Route ==
  /\ pc = "route"
  /\ state' =
       CASE diag[state.rank] = "conclusive" -> [state EXCEPT !.phase = "propose"]
         [] diag[state.rank] = "inconclusive" /\ ~policy.defer
              /\ state.rank + 1 < policy.targets ->
              [state EXCEPT !.rank = @ + 1, !.outcome = "skipped"]
         [] OTHER ->
              [state EXCEPT !.phase = "complete", !.candidate = None,
                            !.outcome = "no_actionable"]
  /\ pc' = "idle"
  /\ UNCHANGED <<policy, ledgers, arms, artifacts, handoff, doing, left,
                 operator, faults>>

-----------------------------------------------------------------------------
(***************************************************************************)
(* run_proposal_stage, under its directory lock                            *)
(***************************************************************************)
\* The diagnosis a proposal is made for is the last row of the ledger.
LastDiag == IF diag[1] # "none" THEN 1 ELSE 0

\* _load_provisional_authorization raises once the active cluster has changed;
\* without it the diagnosis must be conclusive.
ProvisionalBound == state.prov # "none" => state.provRank = state.rank
Usable == /\ ProvisionalBound
          /\ state.prov = "none" => diag[LastDiag] = "conclusive"
          /\ state.prov # "none" => state.provRank = LastDiag

\* _validate_shadow_live_gate_admission: the false-positive rate alone.
Admissible(c) == verdict[c] = "positives" => c \in falsify

Fresh(c) == \A k \in Gates : gates[c][k] = "none"

\* Mutant of Unadvanced: an interrupted registration is not looked for.
UnadvancedNever == FALSE

\* _recover_unadvanced_candidate finds a registered candidate without verdict.
Unadvanced == registered # {} /\ Max(registered) \notin vetoed /\ Fresh(Max(registered))

InProposal == Idle("propose") /\ "proposal" \notin left /\ VetoesSound

\* recover_registered_candidate: it may replace a candidate a gate rejected.
RecoverCandidate ==
  /\ InProposal /\ Unadvanced
  /\ LET c == Max(registered)
     IN /\ Admissible(c)
        /\ state.candidate \in {None, c} \cup GateRejected
        /\ state' = [state EXCEPT !.candidate = c]
        /\ work' = c
  /\ pc' = "enter"
  /\ UNCHANGED <<policy, ledgers, arms, artifacts, handoff, gate, left, operator,
                 faults>>

RoundsSpent ==
  \/ policy.total > 0 /\ Cardinality(Rejected) >= policy.total
  \/ Cardinality(RejectedFor(LastDiag)) >= policy.rounds

\* No round is left; the transition must be one the store allows.
GiveUp ==
  /\ InProposal /\ ~Unadvanced /\ Usable /\ RoundsSpent
  /\ Allowed("propose", AfterRejection(LastDiag).phase)
  /\ state' = [AfterRejection(LastDiag) EXCEPT !.candidate = None]
  /\ UNCHANGED <<policy, ledgers, arms, artifacts, handoff, pc, doing, left,
                 operator, faults>>

\* The index of agent_output_root: registered and screened candidates.
NextCand == Cardinality(registered) + Cardinality(screened) + 1

Verdicts == {"supported", "recall", "positives", "features"}

\* agent.propose; a second call returns the committed output.
Propose(v) ==
  /\ InProposal /\ ~Unadvanced /\ Usable /\ ~RoundsSpent /\ Reproducible
  /\ NextCand \in Cands
  /\ v = verdict[NextCand] \/ verdict[NextCand] = "none"
  /\ verdict' = [verdict EXCEPT ![NextCand] = v]
  /\ home' = [home EXCEPT ![NextCand] = LastDiag]
  /\ work' = NextCand
  /\ pc' = "proposed"
  /\ UNCHANGED <<policy, state, diag, registered, gates, promotions, arms, shadow,
                 screened, vetoed, waivers, falsify, handoff, gate, left, operator,
                 faults>>

\* A rule that uses unobserved features is rejected on the spot.
ScreenFeatures ==
  /\ pc = "proposed" /\ shadow[work] = "none" /\ verdict[work] = "features"
  /\ screened' = screened \cup {work}
  /\ pc' = "idle" /\ work' = None
  /\ UNCHANGED <<policy, state, ledgers, arms, verdict, shadow, vetoed, waivers,
                 falsify, handoff, gate, left, operator, faults>>

WriteReport ==
  /\ pc = "proposed" /\ shadow[work] = "none" /\ verdict[work] # "features"
  /\ shadow' = [shadow EXCEPT ![work] = "report"]
  /\ pc' = "precommit"
  /\ UNCHANGED <<policy, state, ledgers, arms, verdict, screened, vetoed, waivers,
                 falsify, handoff, doing, left, operator, faults>>

\* The replay is bound; insufficient recall or too many false positives raise.
Precommit ==
  /\ pc = "precommit"
  /\ shadow' = [shadow EXCEPT ![work] = IF Admissible(work) THEN "admitted" ELSE "refused"]
  /\ pc' = IF verdict[work] # "recall" /\ Admissible(work) THEN "register" ELSE "idle"
  /\ work' = IF pc' = "idle" THEN None ELSE work
  /\ UNCHANGED <<policy, state, ledgers, arms, verdict, screened, vetoed, waivers,
                 falsify, handoff, gate, left, operator, faults>>

\* A replay found on disk: without a precommit, or not admissible, it raises.
ResumeReplay ==
  /\ pc = "proposed" /\ shadow[work] # "none"
  /\ pc' = IF shadow[work] # "report" /\ Admissible(work) THEN "register" ELSE "idle"
  /\ work' = IF pc' = "idle" THEN None ELSE work
  /\ UNCHANGED <<policy, state, ledgers, arms, artifacts, handoff, gate, left,
                 operator, faults>>

\* register_candidate: the bundle and its ledger row, then the pointer.
Register ==
  /\ pc = "register"
  /\ registered' = registered \cup {work}
  /\ pc' = "point"
  /\ UNCHANGED <<policy, state, diag, home, gates, promotions, arms, artifacts,
                 handoff, doing, left, operator, faults>>

Point ==
  /\ pc = "point"
  /\ state' = [state EXCEPT !.candidate = work]
  /\ pc' = "enter"
  /\ UNCHANGED <<policy, ledgers, arms, artifacts, handoff, doing, left, operator, faults>>

EnterGate ==
  /\ pc = "enter"
  /\ state' = [state EXCEPT !.phase = "same_seed_gate"]
  /\ arms' = "open" /\ pc' = "idle" /\ work' = None
  /\ UNCHANGED <<policy, ledgers, artifacts, handoff, gate, left, operator, faults>>

-----------------------------------------------------------------------------
(***************************************************************************)
(* PairedGateRunner.run_once and record_gate_and_advance                   *)
(***************************************************************************)
GateKind ==
  CASE state.phase = "same_seed_gate" -> "same_seed"
    [] state.phase = "regression_gate" -> "regression"
    [] OTHER -> IF gates[state.candidate].heldout_10 = "unclear"
                  THEN "heldout_50" ELSE "heldout_10"

\* What the arms can still become: bad, the frozen threshold is out of reach;
\* worse, any authorized one is too; near, only a lowered one is met.
Later(k, a) ==
  CASE k = "same_seed" /\ a = "open" -> {"bad", "worse", "won", "near", "lost"}
    [] k = "same_seed" /\ a = "bad" -> {"worse", "near", "lost"}
    [] k = "regression" /\ a = "open" -> {"worse", "won", "lost"}
    [] k = "heldout_10" /\ a = "open" -> {"won", "lost", "unclear"}
    [] k = "heldout_50" /\ a = "open" -> {"won", "lost"}
    [] a = "worse" -> {"lost"}
    [] OTHER -> {}

\* An early decision stands while arms are missing.
Partial == {"bad", "worse"}

\* Workers finish arms of the gate, and the supervisor ingests them in its poll.  Arms
\* that come in after an early decision and leave the gate incomplete change what the
\* decision is derived from.
Arms(a) ==
  /\ pc = "idle" /\ state.phase \in GatePhases /\ state.candidate # None
  /\ LET early == GateKind = "same_seed" /\ gates[state.candidate].same_seed = "early"
     IN /\ a \in Later(GateKind, arms) \cup (IF early THEN {arms} \cap Partial ELSE {})
        /\ drifted' = IF early THEN drifted \cup {state.candidate} ELSE drifted
  /\ arms' = a
  /\ UNCHANGED <<policy, state, ledgers, verdict, shadow, screened, vetoed, override,
                 listed, falsify, handoff, pc, doing, left, operator, faults>>

\* evaluate_paired_gate over complete arms, or an early rejection.
Decision ==
  CASE arms = "won" -> "pass"
    [] arms = "near" -> IF override[state.candidate] # "none" THEN "pass" ELSE "fail"
    [] arms = "lost" -> "fail"
    [] arms = "unclear" -> "unclear"
    [] arms = "worse" -> "early"
    [] arms = "bad" /\ override[state.candidate] = "none" -> "early"
    [] OTHER -> "none"

Recorded == gates[state.candidate][GateKind]

\* finalize_if_complete: an early decision on record stands while arms are missing.
\* Any other is derived, under the authorization in force, and must equal a recorded
\* one (its rationale names the threshold).
Stands == Recorded = "early" /\ arms \in Partial
Derives ==
  /\ Decision # "none" /\ Recorded \in {"none", Decision}
  /\ GateKind = "same_seed" =>
       Loads(state.candidate) /\ (Recorded # "none" => state.candidate \notin drifted)

\* Mutant of RecordGate: a decision that differs from the recorded one replaces it.
RecordGateAnew ==
  /\ pc = "idle" /\ state.phase \in GatePhases /\ state.candidate # None
  /\ "gates" \notin left
  /\ Decision # "none" /\ Loads(state.candidate)
  /\ gates' = [gates EXCEPT ![state.candidate][GateKind] = Decision]
  /\ gate' = GateKind
  /\ arms' = IF Decision = "unclear" THEN "open" ELSE arms
  /\ pc' = "advance"
  /\ UNCHANGED <<policy, state, diag, home, registered, promotions, artifacts,
                 handoff, work, left, operator, faults>>

\* The decision is appended.  After an inconclusive heldout_10 the arms are the 50 of
\* the second stage.
RecordGate ==
  /\ pc = "idle" /\ state.phase \in GatePhases /\ state.candidate # None
  /\ "gates" \notin left
  /\ Stands \/ Derives
  /\ gates' = IF Stands THEN gates
                        ELSE [gates EXCEPT ![state.candidate][GateKind] = Decision]
  /\ gate' = GateKind
  /\ arms' = IF Decision = "unclear" THEN "open" ELSE arms
  /\ pc' = "advance"
  /\ UNCHANGED <<policy, state, diag, home, registered, promotions, artifacts,
                 handoff, work, left, operator, faults>>

AfterDevelopment == IF policy.test THEN "promote" ELSE "heldout_gate"

AfterSameSeedPass ==
  IF state.prov = "skip" \/ override[state.candidate] = "skip" \/ policy.skip
    THEN [state EXCEPT !.phase = AfterDevelopment]
    ELSE [state EXCEPT !.phase = "regression_gate"]

\* The state record_gate_and_advance writes for the decision d of gate k.
Advanced(k, d) ==
  CASE k = "same_seed" /\ d = "pass" -> AfterSameSeedPass
    [] k = "same_seed" /\ d # "pass" ->
         IF policy.sameCap > 0 /\ state.same + 1 >= policy.sameCap
           THEN [state EXCEPT !.phase = "complete", !.same = @ + 1, !.outcome = "capped"]
           ELSE [AfterRejection(home[state.candidate]) EXCEPT !.same = @ + 1]
    [] k = "regression" /\ d = "pass" -> [state EXCEPT !.phase = AfterDevelopment]
    [] k = "regression" /\ d # "pass" -> AfterRejection(home[state.candidate])
    [] k \notin {"same_seed", "regression"} /\ d = "pass" ->
         [state EXCEPT !.phase = "promote", !.held = @ + 1]
    [] k \notin {"same_seed", "regression"} /\ d = "unclear" -> [state EXCEPT !.held = @ + 1]
    [] OTHER ->
         IF policy.heldCap > 0 /\ state.held + 1 >= policy.heldCap
           THEN [state EXCEPT !.phase = "complete", !.held = @ + 1, !.outcome = "capped"]
           ELSE [AfterRejection(home[state.candidate]) EXCEPT !.held = @ + 1]

\* The authorizations are read after a same-seed pass, the rejection ledgers after a
\* failure; each may raise and leave the phase.
AdvanceRaises(k, d) ==
  \/ k = "same_seed" /\ d = "pass" /\ ~ProvisionalBound
  \/ k = "same_seed" /\ d = "pass" /\ state.prov # "skip" /\ ~Loads(state.candidate)
  \/ d \in {"fail", "early"} /\ ~VetoesSound
  \/ state.candidate = None

Advance ==
  /\ pc = "advance"
  /\ LET d == gates[state.candidate][gate]
     IN IF state.candidate = None \/ AdvanceRaises(gate, d)
          THEN UNCHANGED <<state, arms>>
          ELSE /\ state' = Advanced(gate, d)
               /\ arms' = IF state'.phase = state.phase THEN arms ELSE "open"
  /\ pc' = "idle" /\ gate' = None
  /\ UNCHANGED <<policy, ledgers, artifacts, handoff, work, left, operator, faults>>

-----------------------------------------------------------------------------
(***************************************************************************)
(* promote_and_spawn_generation                                            *)
(***************************************************************************)
HeldoutEvidence(c) ==
  IF policy.test THEN gates[c].heldout_10 = "none" /\ gates[c].heldout_50 = "none"
                 ELSE "pass" \in {gates[c].heldout_10, gates[c].heldout_50}

\* Mutant of Promotable: the regression gate is taken for granted.
PromotableAfterSameSeed(c) == gates[c].same_seed = "pass" /\ HeldoutEvidence(c)

\* store.promote: the waiver is the candidate the state names for a threshold
\* authorization that skips regression.
Promotable(c) ==
  /\ gates[c].same_seed = "pass"
  /\ \/ gates[c].regression = "pass" \/ policy.skip
     \/ state.bound = c /\ override[c] = "skip"
  /\ HeldoutEvidence(c)

\* _recover_or_promote checks the gates again, without the waiver.
Supported(c) ==
  /\ gates[c].same_seed = "pass"
  /\ gates[c].regression = "pass" \/ policy.skip
  /\ HeldoutEvidence(c)

Promote ==
  /\ Idle("promote") /\ promotions = {} /\ state.candidate # None
  /\ "promotions" \notin left
  /\ Promotable(state.candidate)
  /\ promotions' = {state.candidate}
  /\ pc' = "pointer"
  /\ UNCHANGED <<policy, state, diag, home, registered, gates, arms, artifacts,
                 handoff, doing, left, operator, faults>>

PromotePointer ==
  /\ pc = "pointer"
  /\ state' = [state EXCEPT !.current = state.candidate, !.candidate = None]
  /\ pc' = "bundle"
  /\ UNCHANGED <<policy, ledgers, arms, artifacts, handoff, doing, left, operator, faults>>

\* Mutant of RecoverPromotion: the state pointer is not repaired.
RecoverPromotionOnly ==
  /\ Idle("promote") /\ promotions # {}
  /\ \A c \in promotions : Supported(c)
  /\ pc' = "bundle"
  /\ UNCHANGED <<policy, state, ledgers, arms, artifacts, handoff, doing, left,
                 operator, faults>>

\* Mutant of RecoverPromotion: only a promotion whose pointer moved is resumed.
RecoverPromotionMoved ==
  /\ Idle("promote") /\ promotions # {} /\ state.candidate = None
  /\ \A c \in promotions : Supported(c)
  /\ pc' = "bundle"
  /\ UNCHANGED <<policy, state, ledgers, arms, artifacts, handoff, doing, left,
                 operator, faults>>

\* A promotion that was interrupted after its ledger row.
RecoverPromotion ==
  /\ Idle("promote") /\ promotions # {}
  /\ \A c \in promotions :
       /\ Supported(c) /\ state.candidate \in {None, c}
       /\ state' = [state EXCEPT !.current = c, !.candidate = None]
  /\ pc' = "bundle"
  /\ UNCHANGED <<policy, ledgers, arms, artifacts, handoff, doing, left, operator, faults>>

\* The generation bundle; the check of Supported stands between it and the
\* child also when promote has just run.
PromoteBundle ==
  /\ pc = "bundle"
  /\ bundle' = TRUE
  /\ pc' = IF \A c \in promotions : Supported(c) THEN "spawn" ELSE "idle"
  /\ UNCHANGED <<policy, state, ledgers, arms, artifacts, child, continuation, doing,
                 left, operator, faults>>

\* build_child_manifest, initialize and enqueue are deterministic and repeatable.
Spawn ==
  /\ pc = "spawn"
  /\ \E c \in promotions : child' = c
  /\ pc' = "continue"
  /\ UNCHANGED <<policy, state, ledgers, arms, artifacts, bundle, continuation, doing,
                 left, operator, faults>>

WriteContinuation ==
  /\ pc = "continue"
  /\ continuation' = child
  /\ pc' = "complete"
  /\ UNCHANGED <<policy, state, ledgers, arms, artifacts, bundle, child, doing, left,
                 operator, faults>>

Complete ==
  /\ pc = "complete"
  /\ state' = [state EXCEPT !.phase = "complete"]
  /\ pc' = "idle"
  /\ UNCHANGED <<policy, ledgers, arms, artifacts, handoff, doing, left, operator, faults>>

-----------------------------------------------------------------------------
(***************************************************************************)
(* The operator's commands, and faults                                     *)
(***************************************************************************)
\* Authorizations for other candidates, and the provisional one.
Granted(c) == Cardinality({x \in Cands \ {c} : override[x] # "none"})
                + IF state.prov = "none" THEN 0 ELSE 1

\* authorize_same_seed_threshold_override, under its lock, which keeps out neither the
\* supervisor nor a kill: its checks, its artifact, its ledger row, the state.  A
\* command that was stopped may be given again as it was.
GrantCheck(s) ==
  /\ granting = "none" /\ "authorize" \notin left
  /\ state.phase = "same_seed_gate" /\ state.candidate # None
  /\ gates[state.candidate].same_seed = "none"
  /\ override[state.candidate] \in {"none", s}
  /\ Granted(state.candidate) < MaxGrants
  /\ ~(state.candidate \in listed /\ state.bound = state.candidate)
  /\ grantee' = state.candidate /\ granting' = s
  /\ UNCHANGED <<policy, state, ledgers, arms, artifacts, handoff, pc, doing, left,
                 veto, vetoing, faults>>

GrantArtifact ==
  /\ granting \in {"keep", "skip"}
  /\ override' = [override EXCEPT ![grantee] = granting]
  /\ drifted' = IF override[grantee] = "none" /\ gates[grantee].same_seed # "none"
                  THEN drifted \cup {grantee} ELSE drifted
  /\ granting' = "row"
  /\ UNCHANGED <<policy, state, ledgers, arms, verdict, shadow, screened, vetoed, listed,
                 falsify, handoff, pc, doing, left, veto, vetoing, grantee, faults>>

GrantRow ==
  /\ granting = "row"
  /\ listed' = listed \cup {grantee}
  /\ granting' = "state"
  /\ UNCHANGED <<policy, state, ledgers, arms, verdict, shadow, screened, vetoed,
                 override, drifted, falsify, handoff, pc, doing, left, veto, vetoing,
                 grantee, faults>>

GrantState ==
  /\ granting = "state"
  /\ state' = [state EXCEPT !.bound = grantee]
  /\ granting' = "none" /\ grantee' = None
  /\ UNCHANGED <<policy, ledgers, arms, artifacts, handoff, pc, doing, left, veto,
                 vetoing, faults>>

\* authorize_provisional_hypothesis reopens an ungated, inconclusive generation.
AuthorizeProvisional(s) ==
  /\ state.phase = "complete" /\ state.outcome = "no_actionable" /\ pc = "idle"
  /\ state.candidate = None /\ registered = {} /\ promotions = {}
  /\ diag[LastDiag] = "inconclusive" /\ LastDiag = state.rank
  /\ state' = [state EXCEPT !.phase = "propose", !.outcome = "provisional",
                            !.prov = s, !.provRank = state.rank]
  /\ UNCHANGED <<policy, ledgers, arms, artifacts, handoff, pc, doing, left,
                 operator, faults>>

\* authorize_shadow_falsification: before the replay, or after one that was
\* refused for its false positives.  For another verdict nobody reads it.
AuthorizeFalsification(c) ==
  /\ verdict[c] = "positives"
  /\ state.phase = "propose" /\ state.prov # "none" /\ ProvisionalBound
  /\ home[c] = LastDiag /\ c \notin falsify
  /\ \/ shadow[c] = "none"
     \/ shadow[c] = "refused"
  /\ falsify' = falsify \cup {c}
  /\ UNCHANGED <<policy, state, ledgers, arms, verdict, shadow, screened, vetoed,
                 waivers, handoff, pc, doing, left, operator, faults>>

\* reject_shadow_candidate: an unregistered candidate refused for its positives.
RejectShadow(c) ==
  /\ state.phase = "propose" /\ c \notin registered \cup screened
  /\ shadow[c] = "refused"
  /\ screened' = screened \cup {c}
  /\ UNCHANGED <<policy, state, ledgers, arms, verdict, shadow, vetoed, waivers,
                 falsify, handoff, pc, doing, left, operator, faults>>

\* reject_registered_noop_candidate: its checks, its file, its transition.
VetoCheck ==
  /\ vetoing = "idle"
  /\ state.phase = "same_seed_gate" /\ state.candidate \in registered
  /\ Fresh(state.candidate)
  /\ \E c \in registered \ {state.candidate} : home[c] = home[state.candidate]
  /\ veto' = state.candidate /\ vetoing' = "write"
  /\ UNCHANGED <<policy, state, ledgers, arms, artifacts, handoff, pc, doing, left,
                 authorize, faults>>

VetoWrite ==
  /\ vetoing = "write"
  /\ vetoed' = vetoed \cup {veto}
  /\ vetoing' = "advance"
  /\ UNCHANGED <<policy, state, ledgers, arms, verdict, shadow, screened, waivers,
                 falsify, handoff, pc, doing, left, veto, authorize, faults>>

VetoAdvance ==
  /\ vetoing = "advance"
  /\ LET next == [AfterRejection(home[veto]) EXCEPT !.candidate = None]
     IN IF VetoesSound /\ Allowed(state.phase, next.phase)
          THEN state' = next /\ arms' = "open"
          ELSE UNCHANGED <<state, arms>>
  /\ vetoing' = "idle" /\ veto' = None
  /\ UNCHANGED <<policy, ledgers, artifacts, handoff, pc, doing, left, authorize, faults>>

InStage == {"proposed", "precommit", "register", "point", "enter"}

\* The lock the supervisor may hold: of the proposal stage, or of the ledger it is
\* about to append to or has just appended to.
MayHold ==
  IF pc \in InStage \/ Idle("propose") THEN {"proposal"}
  ELSE IF pc = "route" \/ Idle("diagnose") THEN {"diagnosis"}
  ELSE IF \/ pc = "advance"
          \/ /\ pc = "idle" /\ state.phase \in GatePhases /\ state.candidate # None
             /\ Stands \/ Derives
    THEN {"gates"}
  ELSE IF \/ pc = "pointer"
          \/ /\ Idle("promote") /\ promotions = {} /\ state.candidate # None
             /\ Promotable(state.candidate)
    THEN {"promotions"} ELSE {}

\* An exception or Ctrl-C, or a kill where no lock is held: locks are released on
\* the way out.
Interrupt ==
  /\ pc # "idle" /\ faults < MaxFaults
  /\ pc' = "idle" /\ work' = None /\ gate' = None /\ faults' = faults + 1
  /\ UNCHANGED <<policy, state, ledgers, arms, artifacts, handoff, left, operator>>

\* The process is killed where it holds a lock: nothing ever removes it.
Kill ==
  /\ faults < MaxFaults
  /\ \E l \in MayHold \ left : left' = left \cup {l}
  /\ pc' = "idle" /\ work' = None /\ gate' = None /\ faults' = faults + 1
  /\ UNCHANGED <<policy, state, ledgers, arms, artifacts, handoff, operator>>

\* It is killed while it appends an arm to the ledgers of the gate: their locks stay,
\* and every later poll of this gate ends with a timeout.
KillIngest ==
  /\ pc = "idle" /\ state.phase \in GatePhases /\ state.candidate # None
  /\ arms # "jammed" /\ faults < MaxFaults
  /\ arms' = "jammed" /\ faults' = faults + 1
  /\ UNCHANGED <<policy, state, ledgers, artifacts, handoff, pc, doing, left, operator>>

\* A command of the operator is stopped between two of its writes; a kill leaves the
\* lock of authorizations behind.
VetoLost ==
  /\ vetoing # "idle" /\ faults < MaxFaults
  /\ vetoing' = "idle" /\ veto' = None /\ faults' = faults + 1
  /\ UNCHANGED <<policy, state, ledgers, arms, artifacts, handoff, pc, doing, left,
                 authorize>>

GrantLost ==
  /\ granting # "none" /\ faults < MaxFaults
  /\ granting' = "none" /\ grantee' = None /\ faults' = faults + 1
  /\ left' \in {left, left \cup {"authorize"}}
  /\ UNCHANGED <<policy, state, ledgers, arms, artifacts, handoff, pc, doing, veto,
                 vetoing>>

-----------------------------------------------------------------------------
Supervise ==
  \/ StartDiagnosis \/ Route
  \/ \E v \in {"conclusive", "inconclusive"} : RegisterDiagnosis(v)
  \/ RecoverCandidate \/ GiveUp \/ ScreenFeatures \/ WriteReport \/ Precommit
  \/ ResumeReplay \/ Register \/ Point \/ EnterGate
  \/ \E v \in Verdicts : Propose(v)
  \/ RecordGate \/ Advance
  \/ Promote \/ PromotePointer \/ RecoverPromotion \/ PromoteBundle \/ Spawn
  \/ WriteContinuation \/ Complete

Work == \E a \in {"bad", "worse", "won", "near", "lost", "unclear"} : Arms(a)

Operate ==
  \/ \E s \in {"keep", "skip"} : GrantCheck(s) \/ AuthorizeProvisional(s)
  \/ GrantArtifact \/ GrantRow \/ GrantState
  \/ \E c \in Cands : AuthorizeFalsification(c) \/ RejectShadow(c)
  \/ VetoCheck \/ VetoWrite \/ VetoAdvance

Stop == Interrupt \/ Kill \/ KillIngest \/ VetoLost \/ GrantLost

Next == Supervise \/ Work \/ Operate \/ Stop

Spec == Init /\ [][Next]_vars

\* The supervisor is restarted and polls, the workers run the queued arms and
\* a command of the operator that has begun goes on.  Nothing makes an
\* operator begin one.
FairSpec == Spec /\ WF_vars(Supervise) /\ WF_vars(Work)
                 /\ WF_vars(VetoWrite \/ VetoAdvance)
                 /\ WF_vars(GrantArtifact \/ GrantRow \/ GrantState)

-----------------------------------------------------------------------------
\* The files hold what their writers put there.
TypeOK ==
  /\ policy \in Policies
  /\ state.phase \in {"cluster", "diagnose", "propose", "promote", "complete"}
                       \cup GatePhases
  /\ state.candidate \in Cands \cup {None} /\ state.current \in Cands \cup {None}
  /\ state.rank \in Ranks /\ (policy.targets > 0 => state.rank < policy.targets)
  /\ state.prov \in Skip /\ state.provRank \in Ranks
  /\ state.bound \in Cands \cup {None}
  /\ diag \in [Ranks -> {"none", "conclusive", "inconclusive"}]
  /\ home \in [Cands -> Ranks \cup {None}]
  /\ verdict \in [Cands -> Verdicts \cup {"none"}]
  /\ shadow \in [Cands -> {"none", "report", "admitted", "refused"}]
  /\ registered \subseteq Cands /\ screened \subseteq Cands /\ vetoed \subseteq registered
  /\ gates \in [Cands -> [Gates -> {"none", "pass", "fail", "early", "unclear"}]]
  /\ override \in [Cands -> Skip] /\ falsify \subseteq Cands /\ drifted \subseteq Cands
  /\ \A c \in listed : override[c] # "none"
  /\ left \subseteq Locks /\ grantee \in Cands \cup {None}
  /\ promotions \subseteq registered
  /\ bundle \in BOOLEAN /\ child \in Cands \cup {None}
  /\ continuation \in Cands \cup {None} /\ faults \in 0 .. MaxFaults

\* What reaches the promotion ledger earned it, whatever was interrupted,
\* refined, waived or authorized before: it passed same-seed and regression,
\* or a waiver of regression is on file for this very candidate, it has its
\* held-out evidence and no gate ever rejected it (store.promote: "this state
\* binding prevents a later candidate from inheriting the exception").
PromotedEarned ==
  \A c \in promotions :
    /\ gates[c].same_seed = "pass" /\ c \notin GateRejected
    /\ gates[c].regression = "pass" \/ policy.skip \/ override[c] = "skip"
    /\ policy.test \/ "pass" \in {gates[c].heldout_10, gates[c].heldout_50}

\* At most one registered candidate awaits its verdict: a registration that
\* was interrupted is taken up again and not proposed over.
OneInTrial == Cardinality(registered \ Rejected) <= 1

\* A cluster gets at most max_candidate_rounds_per_cluster candidates, however
\* each of them was rejected (_rejected_candidates_for_cluster: it "must not
\* create an unbounded PROPOSE loop").
RoundsBounded ==
  \A r \in Ranks : Cardinality({c \in Cands : home[c] = r}) <= policy.rounds

\* The handoff names the promoted bundle, which is the one the parent runs:
\* _validated_child_supervisor refuses anything else for ever.
HandoffBound ==
  continuation # None =>
    promotions = {continuation} /\ child = continuation
      /\ state.current = continuation /\ bundle

\* No later gate runs for a candidate a gate has rejected, and no recorded
\* decision changes.
RejectedIsFinal ==
  [][\A c \in Cands : gates'[c] # gates[c] =>
       /\ c \notin GateRejected
       /\ \A k \in Gates : gates[c][k] # "none" => gates'[c][k] = gates[c][k]]_vars

(***************************************************************************)
(* Where a campaign waits for an operator, or for ever.                    *)
(***************************************************************************)
\* A diagnosis or a proposal cannot index its evidence: an authorization was written
\* after the decision it should have gone before, or never finished, or arms came in
\* after an early decision.  Or a lock is left.
DiagnosisHeld == state.phase = "diagnose" /\ ("diagnosis" \in left \/ ~Reproducible)

\* The proposal stage cannot go on: a lock nobody removes, rejections that
\* contradict the gates, an authorization of another cluster, a secondary
\* cluster that PROPOSE may not turn to, a replay without precommit, or one
\* that an operator has to reject or authorize.
ProposalHeld ==
  /\ state.phase = "propose"
  /\ \/ "proposal" \in left \/ ~VetoesSound \/ ~ProvisionalBound
     \/ RoundsSpent /\ ~Allowed("propose", AfterRejection(LastDiag).phase)
     \/ ~Unadvanced /\ ~RoundsSpent /\ ~Reproducible
     \/ NextCand \in Cands /\ shadow[NextCand] = "report"
     \/ NextCand \in Cands /\ shadow[NextCand] = "refused" /\ ~Admissible(NextCand)

\* A lock of the gate or of its ledger is left.  An early decision was recorded, the
\* stop came before the transition, and the missing arms finished: "recorded gate
\* decision differs"; or an authorization was written in between, or is not bound.
\* Or the candidate was vetoed in the meantime.
GateHeld ==
  /\ state.phase \in GatePhases
  /\ \/ state.candidate = None \/ ~VetoesSound \/ "gates" \in left \/ arms = "jammed"
     \/ Recorded = "early" /\ arms \in {"near", "lost"}
     \/ /\ GateKind = "same_seed" /\ ~Stands
        /\ ~Loads(state.candidate) \/ state.candidate \in drifted

\* The regression gate was skipped under an authorization the promotion, or
\* the check after it, does not know.  Or the lock of the ledger is left.
PromotionHeld ==
  /\ state.phase = "promote"
  /\ \/ promotions = {} /\ (~Promotable(state.candidate) \/ "promotions" \in left)
     \/ \E c \in promotions : ~Supported(c)

\* Every campaign ends, or is held in one of the ways above: no interrupt,
\* rejection or refinement makes it go round for ever or stop unnoticed.
Ends == []<>(state.phase = "complete" \/ DiagnosisHeld \/ ProposalHeld \/ GateHeld
                                      \/ PromotionHeld)

\* lifecycle.py, _advance_after_candidate_rejection: "Choose refine,
\* secondary-cluster, or bounded completion after rejection."
SpentRoundsMoveOn == (state.phase = "propose" /\ RoundsSpent) ~> state.phase # "propose"

\* The candidates of a campaign, whatever is stopped between two writes: one in
\* trial, and no more than the manifest preregistered.
CandidateInv == TypeOK /\ OneInTrial /\ RoundsBounded
=============================================================================
