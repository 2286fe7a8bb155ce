---------------------- MODULE CampaignPromotion_proofs ----------------------
(***************************************************************************)
(* Every state of CampaignPromotion!Spec satisfies Inductive, for any set  *)
(* of manifests and any number of candidates and faults: one lemma per     *)
(* action or group of actions.  From it follow CandidateInv,               *)
(* PromotedEarned, HandoffBound and RejectedIsFinal.                       *)
(***************************************************************************)
EXTENDS CampaignPromotion, FiniteSetTheorems, WellFoundedInduction, TLAPS

Phases == {"cluster", "diagnose", "propose", "promote", "complete"} \cup GatePhases

Outcomes == {"none", "no_failures", "skipped", "no_actionable", "provisional", "refine",
             "exhausted", "secondary", "no_candidate", "capped"}

State ==
  [phase : Phases, outcome : Outcomes, candidate : Cands \cup {None},
   current : Cands \cup {None}, rank : Ranks, same : Nat, held : Nat, prov : Skip,
   provRank : Ranks, bound : Cands \cup {None}]

Verdict == {"none", "pass", "fail", "early", "unclear"}

Drafting == {"proposed", "precommit", "register"}
Handing  == {"pointer", "bundle", "spawn", "continue", "complete"}

\* TypeOK but for the relations that follow from the other parts; and what an
\* authorization under way is for.
Typed ==
  /\ policy \in Policies /\ state \in State
  /\ policy.targets > 0 => state.rank < policy.targets
  /\ diag \in [Ranks -> {"none", "conclusive", "inconclusive"}]
  /\ home \in [Cands -> Ranks \cup {None}]
  /\ verdict \in [Cands -> Verdicts \cup {"none"}]
  /\ shadow \in [Cands -> {"none", "report", "admitted", "refused"}]
  /\ registered \subseteq Cands /\ screened \subseteq Cands /\ vetoed \subseteq registered
  /\ gates \in [Cands -> [Gates -> Verdict]]
  /\ override \in [Cands -> Skip] /\ falsify \subseteq Cands /\ drifted \subseteq Cands
  /\ listed \subseteq Cands /\ \A c \in listed : override[c] # "none"
  /\ left \subseteq Locks
  /\ granting \in {"none", "keep", "skip", "row", "state"} /\ grantee \in Cands \cup {None}
  /\ granting # "none" => grantee # None
  /\ granting \in {"keep", "skip"} => override[grantee] \in {"none", granting}
  /\ granting \in {"row", "state"} => override[grantee] # "none"
  /\ bundle \in BOOLEAN /\ child \in Cands \cup {None}
  /\ continuation \in Cands \cup {None} /\ faults \in 0 .. MaxFaults
  /\ pc \in {"idle", "route", "point", "enter", "advance"} \cup Drafting \cup Handing
  /\ work \in Cands \cup {None} /\ gate \in Gates \cup {None}
  /\ veto \in Cands \cup {None} /\ vetoing \in {"idle", "write", "advance"}
  /\ arms \in {"open", "bad", "worse", "won", "near", "lost", "unclear", "jammed"}

\* The phase the supervisor's stage belongs to.
Where ==
  /\ pc = "route" => state.phase = "diagnose"
  /\ pc \in InStage => state.phase = "propose" /\ work # None
  /\ pc = "advance" => state.phase \in GatePhases
  /\ pc \in Handing => state.phase = "promote"

\* Candidates are numbered in the order in which they are registered or
\* screened; at most the one at work, or the next one, has only been proposed.
Numbered ==
  /\ \A c \in registered \cup screened : c < NextCand
  /\ \A c \in registered : home[c] # None
  /\ \A c \in Cands : shadow[c] # "none" => home[c] # None
  /\ \A c \in Cands : home[c] # None =>
       c \in registered \cup screened \/ c = (IF pc \in Drafting THEN work ELSE NextCand)
  /\ pc \in Drafting =>
       /\ home[work] # None /\ (work \in screened \/ work = NextCand)
       /\ \A c \in registered : c < work

\* Every registered candidate but the last was rejected; the last too, before
\* another one is proposed or diagnosed for.
Tried ==
  /\ \A c, d \in registered : c < d => c \in Rejected
  /\ \A c \in Cands \ registered : Fresh(c)
  /\ pc \in Drafting => registered \subseteq Rejected
  /\ pc \in {"point", "enter"} =>
       work \in registered /\ Fresh(work) /\ \A c \in registered : c <= work
  /\ pc = "enter" => state.candidate = work
  /\ state.phase \in {"cluster", "diagnose"} => registered \subseteq Rejected
  /\ state.phase = "propose" => \A c \in registered : c \in Rejected \/ Fresh(c)
  /\ state.phase \in GatePhases =>
       state.candidate \in registered /\ \A c \in registered : c <= state.candidate
  /\ state.phase = "promote" => state.candidate \in registered \cup {None}

\* The gates of candidate c in the order the phases run them.
InOrder(c) ==
  LET g == gates[c] IN
  /\ state.phase = "same_seed_gate" =>
       /\ g["same_seed"] # "unclear"
       /\ g["regression"] = "none" /\ g["heldout_10"] = "none" /\ g["heldout_50"] = "none"
       /\ arms # "unclear"
  /\ state.phase = "regression_gate" =>
       /\ g["same_seed"] = "pass" /\ g["regression"] # "unclear"
       /\ g["heldout_10"] = "none" /\ g["heldout_50"] = "none"
       /\ arms # "unclear"
  /\ state.phase = "heldout_gate" =>
       /\ g["same_seed"] = "pass" /\ g["regression"] \in {"none", "pass"}
       /\ g["heldout_50"] # "none" => g["heldout_10"] = "unclear"
       /\ g["heldout_50"] # "unclear"
       /\ g["heldout_10"] = "unclear" => arms # "unclear"
  /\ state.phase = "promote" => c \notin GateRejected

\* The gate whose decision the supervisor is about to act on.
Acting ==
  pc = "advance" =>
    /\ gate \in Gates
    /\ gates[state.candidate][gate] # "none"
    /\ state.phase = "same_seed_gate" => gate = "same_seed"
    /\ state.phase = "regression_gate" => gate = "regression"
    /\ state.phase = "heldout_gate" => gate \in {"heldout_10", "heldout_50"}

\* A veto under way is for a candidate that waits for its first gate, or it
\* comes too late.
Vetoing ==
  vetoing # "idle" =>
    /\ veto \in registered
    /\ Fresh(veto) => state.phase = "same_seed_gate" /\ state.candidate = veto /\ pc = "idle"
    /\ vetoing = "advance" => veto \in vetoed

\* One promotion, made in the promote phase, and how far its handoff is.
Promoted ==
  /\ promotions \subseteq registered
  /\ PromotedEarned
  /\ promotions = {} => pc \notin Handing /\ child = None /\ continuation = None
  /\ promotions # {} =>
       \E c \in Cands :
         /\ promotions = {c} /\ state.phase \in {"promote", "complete"}
         /\ pc = "pointer" => state.candidate = c
         /\ pc \in Handing \ {"pointer"} => state.current = c
         /\ pc \in {"spawn", "continue", "complete"} => bundle
         /\ pc \in {"continue", "complete"} => child = c
         /\ child # None => child = c /\ bundle /\ state.current = c
         /\ continuation # None => continuation = c /\ child = c
         /\ state.phase = "promote" => state.candidate \in {None, c}

Ordered == state.candidate # None => InOrder(state.candidate)

Inductive == /\ Typed /\ Where /\ Numbered /\ Tried /\ Ordered /\ Acting /\ Vetoing
             /\ Promoted /\ RoundsBounded

-----------------------------------------------------------------------------
(***************************************************************************)
(* What the parts need from a step that leaves their files alone.          *)
(***************************************************************************)
LEMMA Constants ==
  /\ MaxCands \in Nat /\ MaxFaults \in Nat /\ None \notin Nat /\ None \notin Cands
  /\ Cands \subseteq Nat /\ Ranks = {0, 1} /\ None \notin Ranks
  /\ policy \in Policies => /\ policy.targets \in {0, 1, 2} /\ policy.rounds \in Nat
                            /\ policy.sameCap \in Nat /\ policy.heldCap \in Nat
<1>1. MaxCands \in Nat /\ MaxFaults \in Nat /\ None \notin Nat
  BY PolicyAssumption
<1>2. Cands \subseteq Nat /\ Ranks = {0, 1}
  BY <1>1 DEF Cands, Ranks
<1>3. ASSUME policy \in Policies
      PROVE  /\ policy.targets \in {0, 1, 2} /\ policy.rounds \in Nat
             /\ policy.sameCap \in Nat /\ policy.heldCap \in Nat
  <2>1. policy \in [targets : 0 .. 2, rounds : Nat \ {0}, total : Nat, sameCap : Nat,
                    heldCap : Nat, skip : BOOLEAN, test : BOOLEAN, defer : BOOLEAN]
    BY <1>3, PolicyAssumption
  <2>2. QED
    BY <2>1
<1>4. None \notin Cands
  BY <1>1, <1>2
<1>5. None \notin Ranks
  <2>1. 0 \in Nat /\ 1 \in Nat
    OBVIOUS
  <2>2. None # 0 /\ None # 1
    BY <1>1, <2>1, Zenon
  <2>3. QED
    BY <1>2, <2>2, Zenon
<1>6. QED
  BY <1>1, <1>2, <1>3, <1>4, <1>5

\* A bounded set of naturals that is not empty has a largest element: the least
\* distance from the bound is well founded.
LEMMA MaxIn ==
  ASSUME NEW S \in SUBSET Cands, S # {}
  PROVE  Max(S) \in S /\ \A j \in S : j <= Max(S)
<1> DEFINE T == {n \in Nat : \E i \in S : i = MaxCands - n}
<1>1. MaxCands \in Nat /\ \A i \in S : i \in Nat /\ i <= MaxCands
  BY Constants DEF Cands
<1>2. T # {} /\ T \subseteq Nat
  <2>1. PICK i \in S : TRUE
    OBVIOUS
  <2>2. MaxCands - i \in T
    BY <1>1, <2>1
  <2>3. QED
    BY <2>2
<1>3. PICK n \in T : \A m \in T : ~(<<m, n>> \in OpToRel(<, Nat))
  <2> HIDE DEF T
  <2>1. QED
    BY <1>2, NatLessThanWellFounded, WFMin, Zenon
<1>4. \A m \in T : ~(m < n)
  <2>1. \A m \in T : <<m, n>> \in Nat \X Nat
    BY <1>2
  <2>2. QED
    BY <1>3, <2>1 DEF OpToRel
<1>5. PICK i \in S : i = MaxCands - n
  OBVIOUS
<1>6. \A j \in S : i >= j
  <2>1. SUFFICES ASSUME NEW j \in S PROVE i >= j
    OBVIOUS
  <2>2. MaxCands - j \in T
    BY <1>1
  <2>3. ~(MaxCands - j < n)
    BY <1>4, <2>2
  <2>4. QED
    BY <1>1, <1>5, <2>3
<1>7. Max(S) \in S /\ \A j \in S : Max(S) >= j
  BY <1>6 DEF Max
<1>8. QED
  BY <1>1, <1>7

\* Sets of candidates are finite.
LEMMA CandSets ==
  ASSUME NEW S, S \subseteq Cands
  PROVE  IsFiniteSet(S) /\ Cardinality(S) \in Nat
<1>1. IsFiniteSet(Cands)
  BY Constants, FS_Interval DEF Cands
<1>2. QED
  BY <1>1, FS_Subset, FS_CardinalityType

LEMMA NextCandType ==
  ASSUME Typed
  PROVE  NextCand \in Nat
BY CandSets DEF Typed, NextCand

\* A rejection is never taken back.
LEMMA LedgersGrow ==
  ASSUME gates' = gates, screened \subseteq screened', vetoed \subseteq vetoed'
  PROVE  /\ Rejected \subseteq Rejected' /\ GateRejected' = GateRejected
         /\ \A c : Fresh(c)' <=> Fresh(c)
BY DEF Rejected, GateRejected, Fresh

\* Nothing is proposed, registered or screened.
LEMMA NumberedFrame ==
  ASSUME Typed, Numbered, UNCHANGED <<home, registered, screened>>,
         \/ UNCHANGED shadow
         \/ \E c \in Cands : \E v : shadow' = [shadow EXCEPT ![c] = v] /\ home[c] # None,
         pc' \in Drafting => pc \in Drafting /\ work' = work
  PROVE  Numbered'
<1>1. NextCand' = NextCand
  BY DEF NextCand
<1>2. \A c \in Cands : shadow'[c] # "none" => home[c] # None
  BY DEF Numbered, Typed
<1>3. QED
  BY <1>1, <1>2 DEF Numbered

\* Nothing is registered or gated; the phase stays, ends, or is one that a
\* rejected candidate leads to.
LEMMA TriedFrame ==
  ASSUME Tried, UNCHANGED <<registered, gates>>,
         screened \subseteq screened', vetoed \subseteq vetoed',
         pc' \in Drafting => pc \in Drafting,
         pc' \in {"point", "enter"} => pc \in {"point", "enter"} /\ work' = work,
         pc' = "enter" => state'.candidate = work',
         \/ state'.phase = state.phase /\ state'.candidate = state.candidate
         \/ state'.phase = state.phase /\ state.phase \notin GatePhases \cup {"promote"}
         \/ state'.phase = "promote" /\ state.phase = "promote" /\ state'.candidate = None
         \/ state'.phase = "complete"
         \/ state'.phase \in {"diagnose", "propose"} /\ registered \subseteq Rejected
         \/ /\ state'.phase \in GatePhases \cup {"promote"} /\ state.phase \in GatePhases
            /\ state'.candidate = state.candidate
  PROVE  Tried'
<1>1. Rejected \subseteq Rejected' /\ \A c : Fresh(c)' <=> Fresh(c)
  BY LedgersGrow
<1>2. QED
  BY <1>1 DEF Tried, GatePhases

\* No veto is under way for a candidate that could still be moved.
LEMMA VetoingFrame ==
  ASSUME Vetoing, UNCHANGED <<veto, vetoing, gates>>, registered \subseteq registered',
         vetoed \subseteq vetoed',
         \/ pc # "idle"
         \/ state.phase # "same_seed_gate"
         \/ pc' = pc /\ state'.phase = state.phase /\ state'.candidate = state.candidate
  PROVE  Vetoing'
BY DEF Vetoing, Fresh

LEMMA OrderedFrame ==
  ASSUME \/ state'.phase \notin GatePhases \cup {"promote"}
         \/ state'.candidate = None
         \/ /\ Ordered /\ UNCHANGED <<gates, arms>>
            /\ state'.phase = state.phase /\ state'.candidate = state.candidate
  PROVE  Ordered'
BY DEF Ordered, InOrder, GatePhases, GateRejected

\* Before anything is promoted, and outside the handoff.
LEMMA PromotedFrame ==
  ASSUME Promoted, UNCHANGED <<promotions, policy, gates, handoff>>,
         registered \subseteq registered',
         \/ promotions = {} /\ pc' \notin Handing
         \/ /\ state'.current = state.current
            /\ \A c \in promotions : override[c] = "skip" => override'[c] = "skip"
            /\ state'.phase = state.phase /\ state'.candidate = state.candidate
            /\ pc' \in Handing => pc' = pc
  PROVE  Promoted'
<1>1. PromotedEarned'
  BY DEF Promoted, PromotedEarned, GateRejected
<1>2. promotions' \subseteq registered'
  BY DEF Promoted
<1>3. CASE promotions = {} /\ pc' \notin Handing
  BY <1>1, <1>2, <1>3 DEF Promoted, handoff
<1>4. CASE /\ state'.current = state.current
           /\ state'.phase = state.phase /\ state'.candidate = state.candidate
           /\ pc' \in Handing => pc' = pc
  BY <1>1, <1>2, <1>4 DEF Promoted, handoff, Handing
<1>5. QED
  BY <1>3, <1>4

LEMMA RoundsFrame ==
  ASSUME RoundsBounded, UNCHANGED <<home, policy>>
  PROVE  RoundsBounded'
BY DEF RoundsBounded

\* Before the promote phase nothing is promoted.
LEMMA NothingPromoted ==
  ASSUME Promoted, state.phase \notin {"promote", "complete"}
  PROVE  promotions = {}
BY DEF Promoted

-----------------------------------------------------------------------------
LEMMA Initially ==
  ASSUME Init
  PROVE  Inductive
<1> USE DEF Init
<1>1. state \in State
  BY Constants DEF State, Phases, Outcomes, Skip
<1>2. gates \in [Cands -> [Gates -> Verdict]]
  BY DEF Verdict
<1>3. Typed
  <2>1. policy.targets > 0 => state.rank < policy.targets
    BY Constants
  <2>2. diag \in [Ranks -> {"none", "conclusive", "inconclusive"}] /\ 0 \in 0 .. MaxFaults
    BY Constants
  <2>3. QED
    BY <1>1, <1>2, <2>1, <2>2 DEF Typed, Skip, Verdicts
<1>4. Where /\ Acting /\ Vetoing
  BY DEF Where, Acting, Vetoing, InStage, Handing
<1>5. Numbered
  BY DEF Numbered, Drafting
<1>6. Tried
  BY DEF Tried, Drafting, Fresh, GatePhases
<1>7. Ordered
  BY DEF Ordered
<1>8. Promoted
  BY DEF Promoted, PromotedEarned, Handing
<1>9. RoundsBounded
  <2>1. \A r \in Ranks : {c \in Cands : home[c] = r} = {}
    BY Constants
  <2>2. policy.rounds \in Nat
    BY Constants
  <2>3. \A r \in Ranks : Cardinality({c \in Cands : home[c] = r}) = 0
    BY <2>1, FS_EmptySet
  <2>4. QED
    BY <2>2, <2>3 DEF RoundsBounded
<1>10. QED
  BY <1>3, <1>4, <1>5, <1>6, <1>7, <1>8, <1>9 DEF Inductive
-----------------------------------------------------------------------------
(***************************************************************************)
(* The diagnosis, and steps that touch no candidate.                       *)
(***************************************************************************)
LEMMA StartDiagnosisStep ==
  ASSUME Inductive, StartDiagnosis
  PROVE  Inductive'
<1> USE DEF StartDiagnosis, Idle, ledgers, artifacts, waivers, handoff, doing,
            operator, authorize
<1>1. /\ Typed /\ Where /\ Numbered /\ Tried /\ Ordered /\ Acting /\ Vetoing
      /\ Promoted /\ RoundsBounded
  BY DEF Inductive
<1>2. state'.phase \in {"complete", "diagnose"}
  BY <1>1 DEF Typed, State
<1>3. Typed'
  <2>1. state' \in State /\ state'.rank = state.rank
    BY <1>1 DEF Typed, State, Phases, Outcomes
  <2>2. QED
    BY <1>1, <2>1 DEF Typed
<1>4. Where' /\ Acting'
  BY <1>1 DEF Where, Acting, InStage, Handing
<1>5. Numbered'
  BY <1>1, NumberedFrame
<1>6. registered \subseteq Rejected
  BY <1>1 DEF Tried
<1>7. Tried'
  BY <1>1, <1>2, <1>6, TriedFrame DEF Drafting
<1>8. Ordered' /\ Vetoing'
  BY <1>1, <1>2, OrderedFrame, VetoingFrame DEF GatePhases
<1>9. Promoted'
  BY <1>1, NothingPromoted, PromotedFrame DEF Handing
<1>10. QED
  BY <1>1, <1>3, <1>4, <1>5, <1>7, <1>8, <1>9, RoundsFrame DEF Inductive

LEMMA RegisterDiagnosisStep ==
  ASSUME Inductive, NEW v \in {"conclusive", "inconclusive"}, RegisterDiagnosis(v)
  PROVE  Inductive'
<1> USE DEF RegisterDiagnosis, Idle, ledgers, artifacts, waivers, handoff, doing,
            operator, authorize
<1>1. /\ Typed /\ Where /\ Numbered /\ Tried /\ Ordered /\ Acting /\ Vetoing
      /\ Promoted /\ RoundsBounded
  BY DEF Inductive
<1>2. Typed'
  <2>1. diag' \in [Ranks -> {"none", "conclusive", "inconclusive"}]
    BY <1>1 DEF Typed
  <2>2. QED
    BY <1>1, <2>1 DEF Typed
<1>3. Where' /\ Acting'
  BY <1>1 DEF Where, Acting, InStage, Handing
<1>4. Numbered' /\ Tried'
  BY <1>1, NumberedFrame, TriedFrame DEF Drafting
<1>5. Ordered' /\ Vetoing'
  BY <1>1, OrderedFrame, VetoingFrame DEF GatePhases
<1>6. Promoted'
  BY <1>1, NothingPromoted, PromotedFrame DEF Handing
<1>7. QED
  BY <1>1, <1>2, <1>3, <1>4, <1>5, <1>6, RoundsFrame DEF Inductive

LEMMA RouteStep ==
  ASSUME Inductive, Route
  PROVE  Inductive'
<1> USE DEF Route, ledgers, artifacts, waivers, handoff, doing, operator, authorize
<1>1. /\ Typed /\ Where /\ Numbered /\ Tried /\ Ordered /\ Acting /\ Vetoing
      /\ Promoted /\ RoundsBounded
  BY DEF Inductive
<1>2. state.phase = "diagnose" /\ registered \subseteq Rejected
  BY <1>1 DEF Where, Tried
<1>3. /\ state' \in State /\ state'.phase \in {"propose", "diagnose", "complete"}
      /\ policy.targets > 0 => state'.rank < policy.targets
  <2>1. state.rank \in {0, 1} /\ policy.targets \in {0, 1, 2}
    BY <1>1, Constants DEF Typed, State
  <2>2. CASE diag[state.rank] = "conclusive"
    BY <1>1, <1>2, <2>2 DEF Typed, State, Phases
  <2>3. CASE /\ diag[state.rank] = "inconclusive" /\ ~policy.defer
             /\ state.rank + 1 < policy.targets
    <3>1. state' = [state EXCEPT !.rank = @ + 1, !.outcome = "skipped"]
      BY <2>3
    <3>2. state.rank + 1 \in Ranks
      BY <2>1, <2>3, Constants
    <3>3. PICK n \in Ranks : n = state.rank + 1
      BY <3>2
    <3>4. /\ state' \in State /\ state'.phase = state.phase
          /\ state'.rank = n
      <4>1. state \in State /\ state' = [state EXCEPT !.rank = n, !.outcome = "skipped"]
        BY <1>1, <3>1, <3>3 DEF Typed
      <4>2. "skipped" \in Outcomes
        BY DEF Outcomes
      <4>3. QED
        BY <4>1, <4>2 DEF State
    <3>5. QED
      BY <1>2, <2>3, <3>3, <3>4
  <2>4. CASE /\ diag[state.rank] # "conclusive"
             /\ ~(/\ diag[state.rank] = "inconclusive" /\ ~policy.defer
                  /\ state.rank + 1 < policy.targets)
    <3>1. state' = [state EXCEPT !.phase = "complete", !.candidate = None,
                                 !.outcome = "no_actionable"]
      BY <2>4
    <3>2. QED
      BY <1>1, <3>1 DEF Typed, State, Phases, Outcomes
  <2>5. QED
    BY <2>2, <2>3, <2>4
<1>4. Typed'
  BY <1>1, <1>3 DEF Typed
<1>5. Where' /\ Acting'
  BY <1>1 DEF Where, Acting, InStage, Handing
<1>6. Numbered' /\ Tried'
  BY <1>1, <1>2, <1>3, NumberedFrame, TriedFrame DEF Drafting
<1>7. Ordered' /\ Vetoing'
  BY <1>1, <1>2, <1>3, OrderedFrame, VetoingFrame DEF GatePhases
<1>8. Promoted'
  BY <1>1, <1>2, <1>3, NothingPromoted, PromotedFrame DEF Handing
<1>9. QED
  BY <1>1, <1>4, <1>5, <1>6, <1>7, <1>8, RoundsFrame DEF Inductive

-----------------------------------------------------------------------------
(***************************************************************************)
(* The proposal stage.                                                     *)
(***************************************************************************)
\* What a rejection leads to: never a gate, and a rank the campaign has.
LEMMA AfterRejectionType ==
  ASSUME Typed, NEW r \in Ranks
  PROVE  LET s == AfterRejection(r) IN
         /\ s \in State /\ s.phase \in {"complete", "propose", "diagnose"}
         /\ s.current = state.current
         /\ policy.targets > 0 => s.rank < policy.targets
<1>1. r \in {0, 1} /\ policy.targets \in {0, 1, 2} /\ state \in State
  BY Constants DEF Typed
<1>2. \/ AfterRejection(r) = [state EXCEPT !.phase = "complete", !.outcome = "exhausted"]
      \/ AfterRejection(r) = [state EXCEPT !.phase = "propose", !.outcome = "refine"]
      \/ /\ AfterRejection(r) = [state EXCEPT !.phase = "diagnose", !.outcome = "secondary",
                                              !.candidate = None, !.rank = r + 1]
         /\ r + 1 < policy.targets
      \/ AfterRejection(r) = [state EXCEPT !.phase = "complete", !.outcome = "no_candidate",
                                           !.candidate = None]
  BY DEF AfterRejection
<1>3. CASE AfterRejection(r) = [state EXCEPT !.phase = "complete", !.outcome = "exhausted"]
  BY <1>1, <1>3 DEF Typed, State, Phases, Outcomes
<1>4. CASE AfterRejection(r) = [state EXCEPT !.phase = "propose", !.outcome = "refine"]
  BY <1>1, <1>4 DEF Typed, State, Phases, Outcomes
<1>5. CASE /\ AfterRejection(r) = [state EXCEPT !.phase = "diagnose", !.outcome = "secondary",
                                               !.candidate = None, !.rank = r + 1]
           /\ r + 1 < policy.targets
  <2>1. r + 1 \in Ranks
    BY <1>1, <1>5, Constants
  <2>2. QED
    BY <1>1, <1>5, <2>1 DEF State, Phases, Outcomes
<1>6. CASE AfterRejection(r) = [state EXCEPT !.phase = "complete", !.outcome = "no_candidate",
                                            !.candidate = None]
  BY <1>1, <1>6 DEF Typed, State, Phases, Outcomes
<1>7. QED
  BY <1>2, <1>3, <1>4, <1>5, <1>6

LEMMA LastDiagType == LastDiag \in Ranks
BY Constants DEF LastDiag

LEMMA RecoverCandidateStep ==
  ASSUME Inductive, RecoverCandidate
  PROVE  Inductive'
<1> USE DEF RecoverCandidate, InProposal, Idle, ledgers, artifacts, waivers, handoff, doing,
            operator, authorize
<1>1. /\ Typed /\ Where /\ Numbered /\ Tried /\ Ordered /\ Acting /\ Vetoing
      /\ Promoted /\ RoundsBounded
  BY DEF Inductive
<1> DEFINE c == Max(registered)
<1>2. c \in registered /\ Fresh(c) /\ \A d \in registered : d <= c
  BY <1>1, MaxIn DEF Unadvanced, Typed
<1>3. c \in Cands /\ c # None
  BY <1>1, <1>2, Constants DEF Typed
<1>4. state' = [state EXCEPT !.candidate = c] /\ work' = c
  OBVIOUS
<1> HIDE DEF c
<1>5. /\ state' \in State /\ state'.phase = "propose" /\ state'.candidate = c
      /\ state'.rank = state.rank
  BY <1>1, <1>3, <1>4 DEF Typed, State
<1>6. Typed'
  BY <1>1, <1>3, <1>4, <1>5 DEF Typed
<1>7. Where' /\ Acting'
  BY <1>3, <1>4, <1>5 DEF Where, Acting, InStage, Handing
<1>8. Numbered'
  BY <1>1, NumberedFrame DEF Drafting
<1>9. Tried'
  <2>1. Rejected \subseteq Rejected' /\ \A d : Fresh(d)' <=> Fresh(d)
    BY LedgersGrow
  <2>2. QED
    BY <1>1, <1>2, <1>4, <1>5, <2>1 DEF Tried, Drafting, GatePhases
<1>10. Ordered' /\ Vetoing'
  BY <1>1, <1>5, OrderedFrame, VetoingFrame DEF GatePhases
<1>11. Promoted'
  BY <1>1, <1>5, NothingPromoted, PromotedFrame DEF Handing
<1>12. QED
  BY <1>1, <1>6, <1>7, <1>8, <1>9, <1>10, <1>11, RoundsFrame DEF Inductive

LEMMA GiveUpStep ==
  ASSUME Inductive, GiveUp
  PROVE  Inductive'
<1> USE DEF GiveUp, InProposal, Idle, ledgers, artifacts, waivers, handoff, doing,
            operator, authorize
<1>1. /\ Typed /\ Where /\ Numbered /\ Tried /\ Ordered /\ Acting /\ Vetoing
      /\ Promoted /\ RoundsBounded
  BY DEF Inductive
<1> DEFINE s == AfterRejection(LastDiag)
<1>2. /\ s \in State /\ s.phase \in {"complete", "propose", "diagnose"}
      /\ policy.targets > 0 => s.rank < policy.targets
  BY <1>1, LastDiagType, AfterRejectionType
<1>3. Allowed("propose", s.phase) /\ state' = [s EXCEPT !.candidate = None]
  OBVIOUS
<1> HIDE DEF s
<1>4. s.phase = "complete"
  BY <1>2, <1>3 DEF Allowed
<1>5. /\ state' \in State /\ state'.phase = "complete"
      /\ policy.targets > 0 => state'.rank < policy.targets
  BY <1>2, <1>3, <1>4 DEF State
<1>6. Typed'
  BY <1>1, <1>5 DEF Typed
<1>7. Where' /\ Acting'
  BY <1>1, <1>5 DEF Where, Acting, InStage, Handing
<1>8. Numbered' /\ Tried'
  BY <1>1, <1>5, NumberedFrame, TriedFrame DEF Drafting
<1>9. Ordered' /\ Vetoing'
  BY <1>1, <1>5, OrderedFrame, VetoingFrame DEF GatePhases
<1>10. Promoted'
  BY <1>1, <1>5, NothingPromoted, PromotedFrame DEF Handing
<1>11. QED
  BY <1>1, <1>6, <1>7, <1>8, <1>9, <1>10, RoundsFrame DEF Inductive

\* When no registered candidate waits for its first gate, all are rejected.
LEMMA AllTried ==
  ASSUME Typed, Tried, state.phase = "propose", ~Unadvanced
  PROVE  registered \subseteq Rejected
<1>1. CASE registered = {}
  BY <1>1
<1>2. CASE registered # {}
  <2> DEFINE m == Max(registered)
  <2>1. m \in registered /\ \A c \in registered : c <= m
    BY <1>2, MaxIn DEF Typed
  <2>2. m \in vetoed \/ ~Fresh(m)
    BY <1>2 DEF Unadvanced
  <2> HIDE DEF m
  <2>3. m \in Rejected
    BY <2>1, <2>2 DEF Tried, Rejected
  <2>4. \A c \in registered : c = m \/ c < m
    BY <2>1, Constants DEF Typed
  <2>5. QED
    BY <2>1, <2>3, <2>4 DEF Tried
<1>3. QED
  BY <1>1, <1>2

\* A candidate more is proposed only while fewer than rounds were rejected, and
\* all that were proposed for the cluster before were.
LEMMA ProposeRounds ==
  ASSUME Typed, Numbered, RoundsBounded, registered \subseteq Rejected, pc \notin Drafting,
         ~RoundsSpent, NextCand \in Cands, policy' = policy,
         home' = [home EXCEPT ![NextCand] = LastDiag]
  PROVE  RoundsBounded'
<1> DEFINE l == LastDiag
           n == NextCand
           Of(r) == {c \in Cands : home[c] = r}
           New(r) == {c \in Cands : home'[c] = r}
<1>1. l \in Ranks /\ n \in Cands /\ home' = [home EXCEPT ![n] = l] /\ home \in [Cands -> Ranks \cup {None}]
  BY LastDiagType DEF Typed
<1>2. policy.rounds \in Nat
  BY Constants DEF Typed
<1>3. \A c \in Cands : home[c] = l => c \in RejectedFor(l) \/ c = n
  BY <1>1, Constants DEF Numbered, RejectedFor, Rejected
<1>4. RejectedFor(l) \subseteq Cands /\ ~(Cardinality(RejectedFor(l)) >= policy.rounds)
  BY DEF RejectedFor, Rejected, GateRejected, RoundsSpent, Typed
<1>5. Cardinality(New(l)) <= policy.rounds
  <2> HIDE DEF n, l
  <2>1. New(l) \subseteq RejectedFor(l) \cup {n}
    BY <1>1, <1>3
  <2>2. IsFiniteSet(RejectedFor(l)) /\ Cardinality(RejectedFor(l)) \in Nat
    BY <1>4, CandSets
  <2>3. /\ IsFiniteSet(RejectedFor(l) \cup {n})
        /\ Cardinality(RejectedFor(l) \cup {n}) <= Cardinality(RejectedFor(l)) + 1
    <3>1. /\ IsFiniteSet(RejectedFor(l) \cup {n})
          /\ \/ Cardinality(RejectedFor(l) \cup {n}) = Cardinality(RejectedFor(l))
             \/ Cardinality(RejectedFor(l) \cup {n}) = Cardinality(RejectedFor(l)) + 1
      BY <2>2, FS_AddElement, Zenon
    <3>2. QED
      BY <2>2, <3>1
  <2>4. Cardinality(New(l)) <= Cardinality(RejectedFor(l) \cup {n})
    BY <2>1, <2>3, FS_Subset
  <2>5. Cardinality(New(l)) \in Nat /\ Cardinality(RejectedFor(l) \cup {n}) \in Nat
    BY <2>3, CandSets, FS_CardinalityType
  <2> HIDE DEF New
  <2>6. QED
    BY <1>2, <1>4, <2>2, <2>3, <2>4, <2>5
<1>6. ASSUME NEW r \in Ranks, r # l
      PROVE  Cardinality(New(r)) <= policy.rounds
  <2> HIDE DEF n, l
  <2>1. New(r) \subseteq Of(r)
    BY <1>1, <1>6
  <2>2. IsFiniteSet(Of(r)) /\ Cardinality(Of(r)) \in Nat /\ Cardinality(New(r)) \in Nat
    BY CandSets
  <2>3. Cardinality(New(r)) <= Cardinality(Of(r))
    BY <2>1, <2>2, FS_Subset
  <2>4. Cardinality(Of(r)) <= policy.rounds
    BY DEF RoundsBounded
  <2> HIDE DEF New, Of
  <2>5. QED
    BY <1>2, <2>2, <2>3, <2>4
<1>7. \A r \in Ranks : Cardinality(New(r)) <= policy'.rounds
  BY <1>5, <1>6
<1>8. QED
  BY <1>7 DEF RoundsBounded

LEMMA ProposeStep ==
  ASSUME Inductive, NEW v \in Verdicts, Propose(v)
  PROVE  Inductive'
<1> USE DEF Propose, InProposal, Idle, ledgers, artifacts, waivers, handoff, doing,
            operator, authorize
<1>1. /\ Typed /\ Where /\ Numbered /\ Tried /\ Ordered /\ Acting /\ Vetoing
      /\ Promoted /\ RoundsBounded
  BY DEF Inductive
<1> DEFINE n == NextCand
<1>2. n \in Cands /\ n # None /\ work' = n /\ home' = [home EXCEPT ![n] = LastDiag]
  BY Constants
<1>3. LastDiag \in Ranks /\ LastDiag # None
  BY LastDiagType, Constants
<1>4. registered \subseteq Rejected
  BY <1>1, AllTried
<1>5. NextCand' = n
  BY DEF NextCand
<1>6. Typed'
  <2>1. verdict' \in [Cands -> Verdicts \cup {"none"}] /\ home' \in [Cands -> Ranks \cup {None}]
    BY <1>1, <1>3 DEF Typed
  <2>2. QED
    BY <1>1, <1>2, <2>1 DEF Typed, Drafting
<1>7. Where' /\ Acting'
  BY <1>1, <1>2 DEF Where, Acting, InStage, Handing
<1>8. Numbered'
  <2>1. home'[n] # None /\ \A c \in Cands : home'[c] # None => c = n \/ home[c] # None
    BY <1>1, <1>2, <1>3 DEF Typed
  <2>2. \A c \in Cands : home[c] # None => home'[c] # None
    BY <1>1, <1>2, <1>3 DEF Typed
  <2>3. \A c \in registered \cup screened : c \in Cands /\ c < n
    BY <1>1 DEF Numbered, Typed
  <2>4. \A c \in Cands : home[c] # None => c \in registered \cup screened \/ c = n
    BY <1>1 DEF Numbered, Drafting
  <2>5. /\ \A c \in registered : home[c] # None
        /\ \A c \in Cands : shadow[c] # "none" => home[c] # None
    BY <1>1 DEF Numbered
  <2> HIDE DEF n
  <2>6. QED
    BY <1>2, <1>5, <2>1, <2>2, <2>3, <2>4, <2>5 DEF Numbered, Drafting
<1>9. Tried'
  <2>1. Rejected \subseteq Rejected' /\ \A d : Fresh(d)' <=> Fresh(d)
    BY LedgersGrow
  <2>2. QED
    BY <1>1, <1>4, <2>1 DEF Tried, Drafting, GatePhases
<1>10. Ordered' /\ Vetoing'
  BY <1>1, OrderedFrame, VetoingFrame DEF GatePhases
<1>11. Promoted'
  BY <1>1, NothingPromoted, PromotedFrame DEF Handing
<1>12. RoundsBounded'
  BY <1>1, <1>4, ProposeRounds DEF Drafting
<1>13. QED
  BY <1>1, <1>6, <1>7, <1>8, <1>9, <1>10, <1>11, <1>12 DEF Inductive

\* One more candidate is screened: the one that comes next.
LEMMA OneMore ==
  ASSUME Typed, Numbered, registered' = registered, screened' = screened \cup {NextCand}
  PROVE  NextCand' = NextCand + 1
<1>1. NextCand \notin screened
  <2>1. \A c \in screened : c < NextCand
    BY DEF Numbered
  <2>2. QED
    BY <2>1, NextCandType
<1>2. IsFiniteSet(screened) /\ Cardinality(screened) \in Nat /\ Cardinality(registered) \in Nat
  BY CandSets DEF Typed
<1>3. Cardinality(screened') = Cardinality(screened) + 1
  BY <1>1, <1>2, FS_AddElement, Zenon
<1>4. QED
  BY <1>2, <1>3 DEF NextCand

\* A candidate that was proposed is screened: Numbered goes on.
LEMMA NumberedScreen ==
  ASSUME Typed, Numbered, NEW c \in Cands, home[c] # None, c \notin registered,
         screened' = screened \cup {c}, UNCHANGED <<home, registered, shadow>>,
         pc' \in Drafting => pc' = pc /\ work' = work
  PROVE  Numbered'
<1>1. NextCand \in Nat /\ \A d \in Cands : d \in Nat
  BY NextCandType, Constants
<1>2. c \in screened \/ c = NextCand
  BY DEF Numbered
<1>3. CASE c \in screened
  <2>1. screened' = screened
    BY <1>3
  <2>2. NextCand' = NextCand
    BY <2>1 DEF NextCand
  <2>3. QED
    BY <2>1, <2>2 DEF Numbered
<1>4. CASE c = NextCand
  <2>1. NextCand' = NextCand + 1
    BY <1>4, OneMore
  <2>2. \A d \in registered' \cup screened' : d < NextCand'
    BY <1>1, <1>4, <2>1 DEF Numbered, Typed
  <2>3. \A d \in Cands : home[d] # None =>
          d \in registered' \cup screened' \/ (pc \in Drafting /\ d = work)
    BY <1>4 DEF Numbered
  <2>4. pc \in Drafting => work \in screened'
    BY <1>4 DEF Numbered
  <2>5. QED
    BY <2>2, <2>3, <2>4 DEF Numbered
<1>5. QED
  BY <1>2, <1>3, <1>4

LEMMA ScreenFeaturesStep ==
  ASSUME Inductive, ScreenFeatures
  PROVE  Inductive'
<1> USE DEF ScreenFeatures, ledgers, artifacts, waivers, handoff, doing, operator, authorize
<1>1. /\ Typed /\ Where /\ Numbered /\ Tried /\ Ordered /\ Acting /\ Vetoing
      /\ Promoted /\ RoundsBounded
  BY DEF Inductive
<1>2. /\ state.phase = "propose" /\ work \in Cands /\ home[work] # None
      /\ \A c \in registered : c \in Nat /\ c < work
  BY <1>1, Constants DEF Where, InStage, Drafting, Typed, Numbered
<1>3. work \notin registered
  BY <1>2
<1>4. Typed'
  BY <1>1, <1>2 DEF Typed
<1>5. Where' /\ Acting'
  BY <1>1 DEF Where, Acting, InStage, Handing
<1>6. Numbered'
  BY <1>1, <1>2, <1>3, NumberedScreen DEF Drafting
<1>7. Tried'
  BY <1>1, TriedFrame DEF Drafting
<1>8. Ordered' /\ Vetoing'
  BY <1>1, <1>2, OrderedFrame, VetoingFrame DEF GatePhases
<1>9. Promoted'
  BY <1>1, <1>2, NothingPromoted, PromotedFrame DEF Handing
<1>10. QED
  BY <1>1, <1>4, <1>5, <1>6, <1>7, <1>8, <1>9, RoundsFrame DEF Inductive

\* The replay of the candidate at work goes on, or raises.
LEMMA ReplayStep ==
  ASSUME Inductive, WriteReport \/ Precommit \/ ResumeReplay
  PROVE  Inductive'
<1> USE DEF WriteReport, Precommit, ResumeReplay, ledgers, artifacts, waivers, handoff, doing,
            operator, authorize
<1>1. /\ Typed /\ Where /\ Numbered /\ Tried /\ Ordered /\ Acting /\ Vetoing
      /\ Promoted /\ RoundsBounded
  BY DEF Inductive
<1>2. /\ state.phase = "propose" /\ work \in Cands /\ work # None /\ home[work] # None
      /\ pc \in {"proposed", "precommit"}
  BY <1>1 DEF Where, InStage, Drafting, Typed, Numbered
<1>3. /\ pc' \in {"precommit", "register", "idle"}
      /\ pc' # "idle" => work' = work
      /\ work' \in {work, None}
  BY <1>2
<1>4. \/ shadow' = shadow
      \/ \E v \in {"report", "admitted", "refused"} : shadow' = [shadow EXCEPT ![work] = v]
  BY <1>2
<1>5. UNCHANGED <<policy, state, ledgers, arms, verdict, screened, vetoed, override, falsify,
                  handoff, gate, left, operator, faults>>
  OBVIOUS
<1> USE DEF Drafting
<1>6. Typed'
  <2>1. shadow' \in [Cands -> {"none", "report", "admitted", "refused"}]
    BY <1>1, <1>4 DEF Typed
  <2>2. QED
    BY <1>1, <1>3, <1>5, <2>1 DEF Typed
<1>7. Where' /\ Acting'
  BY <1>1, <1>2, <1>3, <1>5 DEF Where, Acting, InStage, Handing
<1>8. Numbered'
  BY <1>1, <1>2, <1>3, <1>4, <1>5, NumberedFrame
<1>9. Tried'
  BY <1>1, <1>2, <1>3, <1>5, TriedFrame
<1>10. Ordered' /\ Vetoing'
  BY <1>1, <1>2, <1>5, OrderedFrame, VetoingFrame DEF GatePhases
<1>11. Promoted'
  BY <1>1, <1>2, <1>3, <1>5, NothingPromoted, PromotedFrame DEF Handing
<1>12. QED
  BY <1>1, <1>5, <1>6, <1>7, <1>8, <1>9, <1>10, <1>11, RoundsFrame DEF Inductive

LEMMA RegisterStep ==
  ASSUME Inductive, Register
  PROVE  Inductive'
<1> USE DEF Register, ledgers, artifacts, waivers, handoff, doing, operator, authorize
<1>1. /\ Typed /\ Where /\ Numbered /\ Tried /\ Ordered /\ Acting /\ Vetoing
      /\ Promoted /\ RoundsBounded
  BY DEF Inductive
<1>2. /\ state.phase = "propose" /\ work \in Cands /\ work # None /\ home[work] # None
      /\ work \in screened \/ work = NextCand
      /\ \A c \in registered : c \in Nat /\ c < work
      /\ work \in Nat
  BY <1>1, Constants DEF Where, InStage, Drafting, Typed, Numbered
<1>3. work \notin registered
  BY <1>2
<1>4. NextCand \in Nat /\ NextCand' = NextCand + 1
  <2>1. IsFiniteSet(registered) /\ Cardinality(screened) \in Nat /\ Cardinality(registered) \in Nat
    BY <1>1, CandSets DEF Typed
  <2>2. Cardinality(registered') = Cardinality(registered) + 1
    BY <1>3, <2>1, FS_AddElement, Zenon
  <2>3. QED
    BY <2>1, <2>2 DEF NextCand
<1>5. Typed'
  BY <1>1, <1>2 DEF Typed
<1>6. Where' /\ Acting'
  BY <1>1, <1>2 DEF Where, Acting, InStage, Handing
<1>7. Numbered'
  <2>1. \A c \in registered \cup screened : c \in Nat /\ c < NextCand
    BY <1>1, Constants DEF Numbered, Typed
  <2>2. \A c \in registered' \cup screened' : c < NextCand'
    BY <1>2, <1>4, <2>1
  <2>3. \A c \in Cands : home[c] # None => c \in registered' \cup screened'
    BY <1>1, <1>2 DEF Numbered, Drafting
  <2>4. QED
    BY <1>1, <1>2, <2>2, <2>3 DEF Numbered, Drafting
<1>8. Tried'
  <2>1. Rejected \subseteq Rejected' /\ \A d : Fresh(d)' <=> Fresh(d)
    BY LedgersGrow
  <2>2. registered \subseteq Rejected /\ Fresh(work) /\ \A c \in registered' : c <= work
    BY <1>1, <1>2, <1>3 DEF Tried, Drafting
  <2>3. \A c, d \in registered' : c < d => c \in Rejected'
    BY <1>2, <2>1, <2>2
  <2>4. QED
    BY <1>1, <1>2, <2>1, <2>2, <2>3 DEF Tried, Drafting, GatePhases
<1>9. Ordered' /\ Vetoing'
  BY <1>1, <1>2, OrderedFrame, VetoingFrame DEF GatePhases
<1>10. Promoted'
  BY <1>1, <1>2, NothingPromoted, PromotedFrame DEF Handing
<1>11. QED
  BY <1>1, <1>5, <1>6, <1>7, <1>8, <1>9, <1>10, RoundsFrame DEF Inductive

LEMMA PointStep ==
  ASSUME Inductive, Point
  PROVE  Inductive'
<1> USE DEF Point, ledgers, artifacts, waivers, handoff, doing, operator, authorize
<1>1. /\ Typed /\ Where /\ Numbered /\ Tried /\ Ordered /\ Acting /\ Vetoing
      /\ Promoted /\ RoundsBounded
  BY DEF Inductive
<1>2. state.phase = "propose" /\ work \in Cands /\ work # None
  BY <1>1 DEF Where, InStage, Typed
<1>3. /\ state' \in State /\ state'.phase = "propose" /\ state'.candidate = work
      /\ state'.rank = state.rank
  BY <1>1, <1>2 DEF Typed, State
<1>4. Typed'
  BY <1>1, <1>3 DEF Typed
<1>5. Where' /\ Acting'
  BY <1>1, <1>2, <1>3 DEF Where, Acting, InStage, Handing
<1>6. Numbered'
  BY <1>1, NumberedFrame DEF Drafting
<1>7. Tried'
  BY <1>1, <1>2, <1>3, TriedFrame DEF Drafting, GatePhases
<1>8. Ordered' /\ Vetoing'
  BY <1>1, <1>2, <1>3, OrderedFrame, VetoingFrame DEF GatePhases
<1>9. Promoted'
  BY <1>1, <1>2, <1>3, NothingPromoted, PromotedFrame DEF Handing
<1>10. QED
  BY <1>1, <1>4, <1>5, <1>6, <1>7, <1>8, <1>9, RoundsFrame DEF Inductive

\* The candidate enters its first gate with no decision on file.
LEMMA EnterGateStep ==
  ASSUME Inductive, EnterGate
  PROVE  Inductive'
<1> USE DEF EnterGate, ledgers, artifacts, waivers, handoff, doing, operator, authorize
<1>1. /\ Typed /\ Where /\ Numbered /\ Tried /\ Ordered /\ Acting /\ Vetoing
      /\ Promoted /\ RoundsBounded
  BY DEF Inductive
<1>2. /\ state.phase = "propose" /\ work \in registered /\ Fresh(work)
      /\ state.candidate = work /\ \A c \in registered : c <= work
  BY <1>1 DEF Where, InStage, Tried
<1>3. /\ state' \in State /\ state'.phase = "same_seed_gate" /\ state'.candidate = work
      /\ state'.rank = state.rank
  BY <1>1, <1>2 DEF Typed, State, Phases, GatePhases
<1>4. Typed'
  BY <1>1, <1>3 DEF Typed
<1>5. Where' /\ Acting'
  BY <1>1 DEF Where, Acting, InStage, Handing
<1>6. Numbered'
  BY <1>1, NumberedFrame DEF Drafting
<1>7. Tried'
  <2>1. Rejected \subseteq Rejected' /\ \A d : Fresh(d)' <=> Fresh(d)
    BY LedgersGrow
  <2>2. QED
    BY <1>1, <1>2, <1>3, <2>1 DEF Tried, Drafting, GatePhases
<1>8. Ordered'
  BY <1>2, <1>3 DEF Ordered, InOrder, Fresh, Gates
<1>9. Vetoing'
  BY <1>1, <1>2, VetoingFrame
<1>10. Promoted'
  BY <1>1, <1>2, <1>3, NothingPromoted, PromotedFrame DEF Handing
<1>11. QED
  BY <1>1, <1>4, <1>5, <1>6, <1>7, <1>8, <1>9, <1>10, RoundsFrame DEF Inductive

-----------------------------------------------------------------------------
(***************************************************************************)
(* The gates.                                                              *)
(***************************************************************************)
LEMMA ArmsStep ==
  ASSUME Inductive, NEW a \in {"bad", "worse", "won", "near", "lost", "unclear"}, Arms(a)
  PROVE  Inductive'
<1> USE DEF Arms, ledgers, artifacts, waivers, handoff, doing, operator, authorize
<1>1. /\ Typed /\ Where /\ Numbered /\ Tried /\ Ordered /\ Acting /\ Vetoing
      /\ Promoted /\ RoundsBounded
  BY DEF Inductive
<1>2. Typed'
  <2>1. state.candidate \in Cands
    BY <1>1 DEF Typed, State
  <2>2. drifted' \subseteq Cands
    BY <1>1, <2>1 DEF Typed
  <2>3. QED
    BY <1>1, <2>2 DEF Typed
<1>3. Where'
  BY <1>1 DEF Where
<1>4. Acting'
  BY <1>1 DEF Acting
<1>5. Numbered' /\ Tried'
  <2>1. pc = "enter" => state.candidate = work
    BY <1>1 DEF Tried
  <2>2. QED
    BY <1>1, <2>1, NumberedFrame, TriedFrame
<1>6. Ordered'
  <2>1. GateKind \in {"same_seed", "regression", "heldout_50"} => a # "unclear"
    BY DEF Later, Partial
  <2>2. /\ state.phase = "same_seed_gate" => GateKind = "same_seed"
        /\ state.phase = "regression_gate" => GateKind = "regression"
        /\ state.phase = "heldout_gate" /\ gates[state.candidate]["heldout_10"] = "unclear" =>
             GateKind = "heldout_50"
    BY DEF GateKind
  <2>3. QED
    BY <1>1, <2>1, <2>2 DEF Ordered, InOrder, GatePhases
<1>7. Vetoing'
  BY <1>1, VetoingFrame
<1>8. Promoted'
  BY <1>1, PromotedFrame
<1>9. QED
  BY <1>1, <1>2, <1>3, <1>4, <1>5, <1>6, <1>7, <1>8, RoundsFrame DEF Inductive

LEMMA DecisionType ==
  ASSUME Decision # "none"
  PROVE  Decision \in {"pass", "fail", "early", "unclear"} /\ (Decision = "unclear" => arms = "unclear")
BY DEF Decision

\* The gate that runs, and what the ledger says of the other gates then.
LEMMA GateKindType ==
  ASSUME state.phase \in GatePhases
  PROVE  /\ GateKind \in Gates
         /\ state.phase = "same_seed_gate" => GateKind = "same_seed"
         /\ state.phase = "regression_gate" => GateKind = "regression"
         /\ state.phase = "heldout_gate" =>
              \/ GateKind = "heldout_50" /\ gates[state.candidate]["heldout_10"] = "unclear"
              \/ GateKind = "heldout_10" /\ gates[state.candidate]["heldout_10"] # "unclear"
BY DEF GateKind, GatePhases, Gates

\* The decision that is on file after RecordGate.
Taken == IF Stands THEN "early" ELSE Decision

LEMMA TakenType ==
  ASSUME RecordGate
  PROVE  /\ Taken \in {"pass", "fail", "early", "unclear"}
         /\ Taken = "unclear" => arms = "unclear"
         /\ arms' = IF Taken = "unclear" THEN "open" ELSE arms
         /\ Recorded \in {"none", Taken}
<1>1. CASE Stands
  <2>1. Decision # "unclear"
    BY <1>1 DEF Stands, Partial, Decision
  <2>2. QED
    BY <1>1, <2>1 DEF RecordGate, Taken, Stands
<1>2. CASE ~Stands
  <2>1. Decision # "none" /\ Recorded \in {"none", Decision}
    BY <1>2 DEF RecordGate, Derives
  <2>2. QED
    BY <1>2, <2>1, DecisionType DEF RecordGate, Taken
<1>3. QED
  BY <1>1, <1>2

\* What one recorded decision changes.
LEMMA Recording ==
  ASSUME Typed, Where, Tried, RecordGate
  PROVE  LET c == state.candidate IN
         /\ c \in registered /\ c \in Cands
         /\ gates' \in [Cands -> [Gates -> Verdict]]
         /\ gates'[c][GateKind] = Taken
         /\ \A k \in Gates : k # GateKind => gates'[c][k] = gates[c][k]
         /\ \A d \in Cands : d # c => gates'[d] = gates[d]
<1> DEFINE c == state.candidate
<1>1. c \in registered /\ c \in Cands
  BY DEF Tried, Typed, RecordGate
<1>2. GateKind \in Gates /\ Taken \in Verdict
  BY GateKindType, TakenType DEF Verdict, RecordGate
<1>3. /\ gates \in [Cands -> [Gates -> Verdict]]
      /\ \/ gates' = gates /\ gates[c][GateKind] = Taken
         \/ gates' = [gates EXCEPT ![c][GateKind] = Taken]
  BY DEF Typed, RecordGate, Taken, Stands, Recorded
<1> HIDE DEF c
<1>4. QED
  BY <1>1, <1>2, <1>3 DEF c

LEMMA RecordGateStep ==
  ASSUME Inductive, RecordGate
  PROVE  Inductive'
<1>1. /\ Typed /\ Where /\ Numbered /\ Tried /\ Ordered /\ Acting /\ Vetoing
      /\ Promoted /\ RoundsBounded
  BY DEF Inductive
<1>2. /\ pc = "idle" /\ state.phase \in GatePhases
      /\ gate' = GateKind /\ pc' = "advance"
      /\ UNCHANGED <<policy, state, diag, home, registered, promotions, artifacts,
                     handoff, work, left, operator, faults>>
  BY DEF RecordGate
<1> DEFINE c == state.candidate
<1>3. /\ c \in registered /\ c \in Cands
      /\ gates' \in [Cands -> [Gates -> Verdict]]
      /\ gates'[c][GateKind] = Taken
      /\ \A k \in Gates : k # GateKind => gates'[c][k] = gates[c][k]
      /\ \A d \in Cands : d # c => gates'[d] = gates[d]
  BY <1>1, Recording
<1>4. /\ GateKind \in Gates
      /\ state.phase = "same_seed_gate" => GateKind = "same_seed"
      /\ state.phase = "regression_gate" => GateKind = "regression"
      /\ state.phase = "heldout_gate" =>
           \/ GateKind = "heldout_50" /\ gates[c]["heldout_10"] = "unclear"
           \/ GateKind = "heldout_10" /\ gates[c]["heldout_10"] # "unclear"
  BY <1>2, GateKindType
<1>5. /\ Taken \in {"pass", "fail", "early", "unclear"} /\ (Taken = "unclear" => arms = "unclear")
      /\ arms' = IF Taken = "unclear" THEN "open" ELSE arms
      /\ gates[c][GateKind] \in {"none", Taken}
  BY TakenType DEF Recorded
<1>6. promotions = {}
  BY <1>1, <1>2, NothingPromoted DEF GatePhases
<1> USE DEF artifacts, waivers, handoff, operator, authorize
<1>7. Typed'
  BY <1>1, <1>2, <1>3, <1>4, <1>5 DEF Typed
<1>8. Where'
  BY <1>1, <1>2 DEF Where, InStage, Handing
<1>9. Numbered'
  BY <1>1, <1>2, NumberedFrame DEF Drafting
<1>10. Tried'
  <2>1. Rejected \subseteq Rejected'
    <3>1. GateRejected \subseteq GateRejected'
      <4>1. SUFFICES ASSUME NEW d \in GateRejected PROVE d \in GateRejected'
        OBVIOUS
      <4>2. PICK k \in Gates : gates[d][k] \in {"fail", "early"}
        BY DEF GateRejected
      <4>3. gates'[d][k] \in {"fail", "early"}
        <5>1. CASE d # c \/ k # GateKind
          BY <1>3, <4>2, <5>1 DEF GateRejected
        <5>2. CASE d = c /\ k = GateKind
          <6>1. gates[d][k] \in {"none", Taken}
            BY <1>5, <5>2
          <6>2. QED
            BY <1>3, <4>2, <5>2, <6>1
        <5>3. QED
          BY <5>1, <5>2
      <4>4. QED
        BY <4>2, <4>3 DEF GateRejected
    <3>2. QED
      BY <1>2, <3>1 DEF Rejected
  <2>2. \A d \in Cands : d # c => (Fresh(d)' <=> Fresh(d))
    BY <1>3 DEF Fresh
  <2> HIDE DEF c
  <2>3. QED
    BY <1>1, <1>2, <1>3, <2>1, <2>2 DEF Tried, Drafting, GatePhases, c
<1>11. Ordered'
  <2>1. InOrder(c)
    BY <1>1, <1>3, Constants DEF Ordered
  <2>2. state'.candidate = c /\ state'.phase = state.phase
    BY <1>2
  <2>3. CASE state.phase = "same_seed_gate"
    BY <1>2, <1>3, <1>4, <1>5, <2>1, <2>2, <2>3 DEF Ordered, InOrder, Gates
  <2>4. CASE state.phase = "regression_gate"
    BY <1>2, <1>3, <1>4, <1>5, <2>1, <2>2, <2>4 DEF Ordered, InOrder, Gates
  <2>5. CASE state.phase = "heldout_gate"
    BY <1>2, <1>3, <1>4, <1>5, <2>1, <2>2, <2>5 DEF Ordered, InOrder, Gates
  <2>6. QED
    BY <1>2, <2>3, <2>4, <2>5 DEF GatePhases
<1>12. Acting'
  BY <1>2, <1>3, <1>4, <1>5 DEF Acting
<1>13. Vetoing'
  <2>1. ~Fresh(c)'
    BY <1>2, <1>3, <1>4, <1>5 DEF Fresh
  <2>2. ASSUME vetoing # "idle" PROVE ~Fresh(veto)'
    <3>1. veto \in Cands /\ (veto # c => ~Fresh(veto))
      BY <1>1, <2>2 DEF Vetoing, Typed
    <3>2. QED
      BY <1>2, <1>3, <2>1, <3>1 DEF Fresh
  <2>3. QED
    BY <1>1, <1>2, <2>2 DEF Vetoing
<1>14. Promoted'
  BY <1>1, <1>2, <1>6 DEF Promoted, PromotedEarned, Handing
<1>15. QED
  BY <1>1, <1>2, <1>7, <1>8, <1>9, <1>10, <1>11, <1>12, <1>13, <1>14, RoundsFrame DEF Inductive

\* A counter of finished gates, with or without the end of the campaign.
LEMMA Counted ==
  ASSUME NEW x \in State
  PROVE  /\ LET y == [x EXCEPT !.same = @ + 1]
            IN  y \in State /\ y.phase = x.phase /\ y.rank = x.rank
         /\ LET y == [x EXCEPT !.held = @ + 1]
            IN  y \in State /\ y.phase = x.phase /\ y.rank = x.rank
         /\ LET y == [x EXCEPT !.phase = "complete", !.same = @ + 1, !.outcome = "capped"]
            IN  y \in State /\ y.phase = "complete" /\ y.rank = x.rank
         /\ LET y == [x EXCEPT !.phase = "complete", !.held = @ + 1, !.outcome = "capped"]
            IN  y \in State /\ y.phase = "complete" /\ y.rank = x.rank
         /\ LET y == [x EXCEPT !.phase = "promote", !.held = @ + 1]
            IN  /\ y \in State /\ y.phase = "promote" /\ y.rank = x.rank
                /\ y.candidate = x.candidate
<1>1. PICK m \in Nat, n \in Nat : m = x.same + 1 /\ n = x.held + 1
  BY DEF State
<1>2. "complete" \in Phases /\ "promote" \in Phases /\ "capped" \in Outcomes
  BY DEF Phases, Outcomes
<1>3. LET y == [x EXCEPT !.same = m]
      IN  y \in State /\ y.phase = x.phase /\ y.rank = x.rank
  BY <1>1 DEF State
<1>4. LET y == [x EXCEPT !.held = n]
      IN  y \in State /\ y.phase = x.phase /\ y.rank = x.rank
  BY <1>1 DEF State
<1>5. LET y == [x EXCEPT !.phase = "complete", !.same = m, !.outcome = "capped"]
      IN  y \in State /\ y.phase = "complete" /\ y.rank = x.rank
  BY <1>1, <1>2 DEF State
<1>6. LET y == [x EXCEPT !.phase = "complete", !.held = n, !.outcome = "capped"]
      IN  y \in State /\ y.phase = "complete" /\ y.rank = x.rank
  BY <1>1, <1>2 DEF State
<1>7. LET y == [x EXCEPT !.phase = "promote", !.held = n]
      IN  /\ y \in State /\ y.phase = "promote" /\ y.rank = x.rank
          /\ y.candidate = x.candidate
  BY <1>1, <1>2 DEF State
<1>8. QED
  BY <1>1, <1>3, <1>4, <1>5, <1>6, <1>7, Zenon

\* The three outcomes of a decision: the end or a refinement once the last
\* registered candidate is rejected too, the next gate, or the second stage.
LEMMA AdvancedType ==
  ASSUME Typed, Where, Numbered, Tried, Ordered, Acting, pc = "advance"
  PROVE  LET c == state.candidate
             s == Advanced(gate, gates[c][gate])
         IN /\ s \in State
            /\ policy.targets > 0 => s.rank < policy.targets
            /\ \/ s.phase = "complete"
               \/ s.phase \in {"diagnose", "propose"} /\ registered \subseteq Rejected
               \/ /\ s.phase \in {"regression_gate", "heldout_gate", "promote"}
                  /\ s.phase # state.phase
                  /\ s.candidate = c /\ gates[c][gate] = "pass"
                  /\ gate # "same_seed" => s.phase # "regression_gate"
               \/ s.phase = state.phase /\ s.candidate = c
<1> DEFINE c == state.candidate
           d == gates[c][gate]
           s == Advanced(gate, d)
           r == home[c]
<1>1. /\ state.phase \in GatePhases /\ c \in registered /\ c \in Cands /\ c # None
      /\ r \in Ranks /\ gate \in Gates /\ d \in Verdict /\ d # "none"
      /\ \A e \in registered : e <= c
  <2>1. state.phase \in GatePhases
    BY DEF Where
  <2>2. c \in registered /\ \A e \in registered : e <= c
    BY <2>1 DEF Tried
  <2>3. c \in Cands /\ c # None
    BY <2>2, Constants DEF Typed
  <2>4. home[c] # None /\ home \in [Cands -> Ranks \cup {None}]
    BY <2>2 DEF Numbered, Typed
  <2>5. gate \in Gates /\ d # "none" /\ gates \in [Cands -> [Gates -> Verdict]]
    BY DEF Acting, Typed
  <2>6. r \in Ranks
    BY <2>3, <2>4
  <2>7. d \in Verdict
    BY <2>3, <2>5
  <2>8. QED
    BY <2>1, <2>2, <2>3, <2>5, <2>6, <2>7
<1>2. InOrder(c)
  BY <1>1 DEF Ordered
<1>3. d \in {"fail", "early"} => registered \subseteq Rejected
  <2>1. d \in {"fail", "early"} => c \in Rejected
    BY <1>1 DEF Rejected, GateRejected
  <2>2. \A e \in registered : e = c \/ e < c
    <3>1. c \in Nat /\ \A e \in registered : e \in Nat /\ e <= c
      BY <1>1, Constants DEF Typed
    <3> HIDE DEF c
    <3>2. QED
      BY <3>1
  <2>3. QED
    BY <1>1, <2>1, <2>2 DEF Tried
<1>4. /\ AfterRejection(r) \in State
      /\ AfterRejection(r).phase \in {"complete", "propose", "diagnose"}
      /\ policy.targets > 0 => AfterRejection(r).rank < policy.targets
  BY <1>1, AfterRejectionType
<1>5. state \in State /\ (policy.targets > 0 => state.rank < policy.targets)
  BY DEF Typed
<1>6. AfterDevelopment \in {"promote", "heldout_gate"}
  BY DEF AfterDevelopment
<1>7. CASE gate = "same_seed"
  <2>1. state.phase = "same_seed_gate" /\ d # "unclear"
    BY <1>1, <1>2, <1>7 DEF Acting, GatePhases, InOrder
  <2>2. CASE d = "pass"
    <3>1. s = AfterSameSeedPass
      BY <1>7, <2>2 DEF Advanced
    <3>2. PICK p \in {"promote", "heldout_gate", "regression_gate"} : s = [state EXCEPT !.phase = p]
      BY <1>6, <3>1 DEF AfterSameSeedPass
    <3> HIDE DEF s
    <3>3. QED
      BY <1>5, <1>7, <2>1, <2>2, <3>2 DEF State, Phases, GatePhases, s
  <2>3. CASE d # "pass"
    <3>1. \/ s = [state EXCEPT !.phase = "complete", !.same = @ + 1, !.outcome = "capped"]
          \/ s = [AfterRejection(r) EXCEPT !.same = @ + 1]
      <4> HIDE DEF d
      <4>1. s = IF policy.sameCap > 0 /\ state.same + 1 >= policy.sameCap
                  THEN [state EXCEPT !.phase = "complete", !.same = @ + 1, !.outcome = "capped"]
                  ELSE [AfterRejection(r) EXCEPT !.same = @ + 1]
        BY <1>7, <2>1, <2>3 DEF Advanced
      <4>2. QED
        BY <4>1
    <3>2. registered \subseteq Rejected
      BY <1>1, <1>3, <2>1, <2>3 DEF Verdict
    <3> HIDE DEF s, r
    <3>3. /\ s \in State
          /\ policy.targets > 0 => s.rank < policy.targets
          /\ s.phase \in {"complete", "propose", "diagnose"}
      <4>1. CASE s = [state EXCEPT !.phase = "complete", !.same = @ + 1, !.outcome = "capped"]
        <5>1. s \in State /\ s.phase = "complete" /\ s.rank = state.rank
          BY <1>5, <4>1, Counted
        <5>2. QED
          BY <1>5, <5>1
      <4>2. CASE s = [AfterRejection(r) EXCEPT !.same = @ + 1]
        <5>1. /\ s \in State /\ s.phase = AfterRejection(r).phase
              /\ s.rank = AfterRejection(r).rank
          BY <1>4, <4>2, Counted, Zenon
        <5>2. QED
          BY <1>4, <5>1
      <4>3. QED
        BY <3>1, <4>1, <4>2
    <3>4. QED
      BY <3>2, <3>3 DEF s
  <2>4. QED
    BY <2>2, <2>3
<1>8. CASE gate = "regression"
  <2>1. state.phase = "regression_gate" /\ d # "unclear"
    BY <1>1, <1>2, <1>8 DEF Acting, GatePhases, InOrder
  <2>2. CASE d = "pass"
    <3>1. s = [state EXCEPT !.phase = AfterDevelopment]
      BY <1>8, <2>2 DEF Advanced
    <3> HIDE DEF s
    <3>2. QED
      BY <1>5, <1>6, <1>8, <2>1, <2>2, <3>1 DEF State, Phases, GatePhases, s
  <2>3. CASE d # "pass"
    <3>1. s = AfterRejection(r)
      <4> HIDE DEF d
      <4>1. QED
        BY <1>8, <2>1, <2>3 DEF Advanced
    <3>2. registered \subseteq Rejected
      BY <1>1, <1>3, <2>1, <2>3 DEF Verdict
    <3>3. QED
      BY <1>4, <3>1, <3>2
  <2>4. QED
    BY <2>2, <2>3
<1>9. CASE gate \in {"heldout_10", "heldout_50"}
  <2>1. state.phase = "heldout_gate"
    BY <1>1, <1>9 DEF Acting, GatePhases
  <2>2. CASE d = "pass"
    <3>1. s = [state EXCEPT !.phase = "promote", !.held = @ + 1]
      BY <1>9, <2>2 DEF Advanced
    <3> HIDE DEF s
    <3>2. /\ s \in State /\ s.rank = state.rank
          /\ s.phase = "promote" /\ s.candidate = c
      BY <1>5, <3>1, Counted
    <3>3. QED
      BY <1>5, <1>9, <2>1, <2>2, <3>2 DEF s
  <2>3. CASE d = "unclear"
    <3>1. s = [state EXCEPT !.held = @ + 1]
      BY <1>9, <2>3 DEF Advanced
    <3> HIDE DEF s
    <3>2. QED
      BY <1>5, <2>1, <2>3, <3>1 DEF State, s
  <2>4. CASE d \notin {"pass", "unclear"}
    <3>1. \/ s = [state EXCEPT !.phase = "complete", !.held = @ + 1, !.outcome = "capped"]
          \/ s = [AfterRejection(r) EXCEPT !.held = @ + 1]
      BY <1>9, <2>4 DEF Advanced
    <3>2. registered \subseteq Rejected
      BY <1>1, <1>3, <2>4 DEF Verdict
    <3> HIDE DEF s, r
    <3>3. /\ s \in State
          /\ policy.targets > 0 => s.rank < policy.targets
          /\ s.phase \in {"complete", "propose", "diagnose"}
      <4>1. CASE s = [state EXCEPT !.phase = "complete", !.held = @ + 1, !.outcome = "capped"]
        <5>1. s \in State /\ s.phase = "complete" /\ s.rank = state.rank
          BY <1>5, <4>1, Counted
        <5>2. QED
          BY <1>5, <5>1
      <4>2. CASE s = [AfterRejection(r) EXCEPT !.held = @ + 1]
        <5>1. /\ s \in State /\ s.phase = AfterRejection(r).phase
              /\ s.rank = AfterRejection(r).rank
          BY <1>4, <4>2, Counted, Zenon
        <5>2. QED
          BY <1>4, <5>1
      <4>3. QED
        BY <3>1, <4>1, <4>2
    <3>4. QED
      BY <3>2, <3>3 DEF s
  <2>5. QED
    BY <2>2, <2>3, <2>4
<1>10. QED
  BY <1>1, <1>7, <1>8, <1>9 DEF Gates

LEMMA AdvanceStep ==
  ASSUME Inductive, Advance
  PROVE  Inductive'
<1> USE DEF ledgers, artifacts, waivers, handoff, doing, operator, authorize
<1>1. /\ Typed /\ Where /\ Numbered /\ Tried /\ Ordered /\ Acting /\ Vetoing
      /\ Promoted /\ RoundsBounded
  BY DEF Inductive
<1> DEFINE c == state.candidate
           s == Advanced(gate, gates[c][gate])
<1>2. /\ pc = "advance" /\ pc' = "idle" /\ gate' = None
      /\ UNCHANGED <<policy, ledgers, artifacts, handoff, work, left, operator, faults>>
  BY DEF Advance
<1>3. \/ UNCHANGED <<state, arms>>
      \/ state' = s /\ arms' = IF state'.phase = state.phase THEN arms ELSE "open"
  BY DEF Advance
<1>4. /\ state.phase \in GatePhases /\ c \in registered /\ c # None /\ promotions = {}
  BY <1>1, <1>2, NothingPromoted, Constants DEF Where, Tried, Typed, GatePhases
<1>5. /\ s \in State
      /\ policy.targets > 0 => s.rank < policy.targets
      /\ \/ s.phase = "complete"
         \/ s.phase \in {"diagnose", "propose"} /\ registered \subseteq Rejected
         \/ /\ s.phase \in {"regression_gate", "heldout_gate", "promote"}
            /\ s.phase # state.phase
            /\ s.candidate = c /\ gates[c][gate] = "pass"
            /\ gate # "same_seed" => s.phase # "regression_gate"
         \/ s.phase = state.phase /\ s.candidate = c
  BY <1>1, <1>2, AdvancedType
<1> HIDE DEF s
<1>6. Typed'
  BY <1>1, <1>2, <1>3, <1>5 DEF Typed
<1>7. Where' /\ Acting' /\ Numbered'
  BY <1>1, <1>2, NumberedFrame DEF Where, Acting, InStage, Handing, Drafting
<1>8. Tried'
  BY <1>1, <1>2, <1>3, <1>4, <1>5, TriedFrame DEF Drafting, GatePhases
<1>9. Ordered'
  <2>1. CASE UNCHANGED <<state, arms>>
    BY <1>1, <1>2, <2>1, OrderedFrame
  <2>2. CASE state' = s /\ s.phase \in {"complete", "diagnose", "propose"}
    BY <2>2, OrderedFrame DEF GatePhases
  <2>3. CASE /\ state' = s /\ s.phase \in {"regression_gate", "heldout_gate", "promote"}
             /\ s.phase # state.phase
             /\ s.candidate = c /\ gates[c][gate] = "pass"
             /\ gate # "same_seed" => s.phase # "regression_gate"
    <3>1. arms' = "open"
      BY <1>3, <2>3
    <3>2. InOrder(c) /\ c \in Cands
      BY <1>1, <1>4 DEF Ordered, Typed
    <3>3. CASE state.phase = "same_seed_gate"
      <4>1. gate = "same_seed"
        BY <1>1, <1>2, <3>3 DEF Acting
      <4>2. /\ gates[c]["same_seed"] = "pass" /\ gates[c]["regression"] = "none"
            /\ gates[c]["heldout_10"] = "none" /\ gates[c]["heldout_50"] = "none"
        BY <2>3, <3>2, <3>3, <4>1 DEF InOrder
      <4>3. QED
        BY <1>2, <2>3, <3>1, <4>2 DEF Ordered, InOrder, GateRejected, Gates
    <3>4. CASE state.phase = "regression_gate"
      <4>1. gate = "regression"
        BY <1>1, <1>2, <3>4 DEF Acting
      <4>2. /\ gates[c]["same_seed"] = "pass" /\ gates[c]["regression"] = "pass"
            /\ gates[c]["heldout_10"] = "none" /\ gates[c]["heldout_50"] = "none"
        BY <2>3, <3>2, <3>4, <4>1 DEF InOrder
      <4>3. QED
        BY <1>2, <2>3, <3>1, <4>1, <4>2 DEF Ordered, InOrder, GateRejected, Gates
    <3>5. CASE state.phase = "heldout_gate"
      <4>1. gate \in {"heldout_10", "heldout_50"}
        BY <1>1, <1>2, <3>5 DEF Acting
      <4>2. /\ gates[c]["same_seed"] = "pass" /\ gates[c]["regression"] \in {"none", "pass"}
            /\ \/ gates[c]["heldout_10"] = "pass" /\ gates[c]["heldout_50"] = "none"
               \/ gates[c]["heldout_10"] = "unclear" /\ gates[c]["heldout_50"] = "pass"
        BY <2>3, <3>2, <3>5, <4>1 DEF InOrder
      <4>3. c \notin GateRejected'
        BY <1>2, <4>2 DEF GateRejected, Gates
      <4>4. state'.phase = "promote" /\ state'.candidate = c
        BY <2>3, <3>5, <4>1
      <4>5. QED
        BY <4>3, <4>4 DEF Ordered, InOrder
    <3>6. QED
      BY <1>4, <3>3, <3>4, <3>5 DEF GatePhases
  <2>4. CASE state' = s /\ s.phase = state.phase /\ s.candidate = c
    <3>1. state' = s /\ s.phase = state.phase /\ s.candidate = c /\ arms' = arms
      BY <1>3, <2>4
    <3>2. QED
      BY <1>1, <1>2, <3>1, OrderedFrame
  <2>5. QED
    BY <1>3, <1>5, <2>1, <2>2, <2>3, <2>4
<1>10. Vetoing'
  BY <1>1, <1>2, VetoingFrame
<1>11. Promoted'
  BY <1>1, <1>2, <1>3, <1>4, <1>5, PromotedFrame DEF Handing
<1>12. QED
  BY <1>1, <1>2, <1>6, <1>7, <1>8, <1>9, <1>10, <1>11, RoundsFrame DEF Inductive

-----------------------------------------------------------------------------
(***************************************************************************)
(* Promotion and handoff.                                                  *)
(***************************************************************************)
\* What a step of the handoff keeps: it touches the state's pointers, the
\* handoff files and pc, in the promote phase and outside every gate.
LEMMA HandoffFrame ==
  ASSUME Inductive, state.phase = "promote", pc \in {"idle"} \cup Handing,
         pc' \in {"idle"} \cup Handing,
         state' \in State, state'.rank = state.rank,
         state'.phase = "promote" \/ (state'.phase = "complete" /\ pc' = "idle"),
         state'.candidate \in {state.candidate, None},
         bundle' \in BOOLEAN, child' \in Cands \cup {None}, continuation' \in Cands \cup {None},
         UNCHANGED <<policy, diag, home, registered, gates, arms, artifacts, doing, left,
                     operator, faults>>
  PROVE  /\ Typed' /\ Where' /\ Numbered' /\ Tried' /\ Ordered' /\ Acting' /\ Vetoing'
         /\ RoundsBounded'
<1> USE DEF artifacts, waivers, doing, operator, authorize
<1>1. /\ Typed /\ Where /\ Numbered /\ Tried /\ Ordered /\ Acting /\ Vetoing
      /\ Promoted /\ RoundsBounded
  BY DEF Inductive
<1>2. Typed'
  BY <1>1 DEF Typed
<1>3. Where' /\ Acting'
  BY <1>1 DEF Where, Acting, InStage, Handing
<1>4. Numbered'
  BY <1>1, NumberedFrame DEF Drafting, Handing
<1>5. Tried'
  BY <1>1, TriedFrame DEF Drafting, Handing
<1>6. Ordered'
  BY <1>1, OrderedFrame DEF GatePhases
<1>7. Vetoing'
  BY <1>1, VetoingFrame
<1>8. QED
  BY <1>1, <1>2, <1>3, <1>4, <1>5, <1>6, <1>7, RoundsFrame

LEMMA PromoteStep ==
  ASSUME Inductive, Promote
  PROVE  Inductive'
<1> USE DEF Promote, Idle, handoff
<1>1. /\ Typed /\ Where /\ Numbered /\ Tried /\ Ordered /\ Acting /\ Vetoing
      /\ Promoted /\ RoundsBounded
  BY DEF Inductive
<1> DEFINE c == state.candidate
<1>2. /\ c \in registered /\ c \in Cands /\ c \notin GateRejected
  BY <1>1 DEF Tried, Typed, Ordered, InOrder
<1>3. /\ Typed' /\ Where' /\ Numbered' /\ Tried' /\ Ordered' /\ Acting' /\ Vetoing'
      /\ RoundsBounded'
  BY <1>1, HandoffFrame DEF Handing, Typed
<1>4. Promoted'
  <2>1. /\ gates[c].same_seed = "pass"
        /\ gates[c].regression = "pass" \/ policy.skip \/ override[c] = "skip"
        /\ policy.test \/ "pass" \in {gates[c].heldout_10, gates[c].heldout_50}
    BY <1>1, <1>2, Constants DEF Promoted, Promotable, HeldoutEvidence
  <2>2. promotions' = {c} /\ UNCHANGED <<policy, gates, override, state, child, continuation, bundle, registered>>
    BY DEF artifacts, waivers
  <2>3. child = None /\ continuation = None
    BY <1>1 DEF Promoted
  <2>4. PromotedEarned'
    BY <1>2, <2>1, <2>2 DEF PromotedEarned, GateRejected
  <2>5. QED
    BY <1>2, <2>2, <2>3, <2>4 DEF Promoted, Handing
<1>5. QED
  BY <1>3, <1>4 DEF Inductive

\* The promotion is on file; the handoff is carried on from it.
LEMMA CarryOn ==
  ASSUME Promoted, NEW c \in Cands, promotions = {c},
         UNCHANGED <<promotions, registered, policy, gates, override>>,
         state'.phase \in {"promote", "complete"},
         pc' # "pointer",
         pc' \in Handing => state'.current = c,
         pc' \in {"spawn", "continue", "complete"} => bundle',
         pc' \in {"continue", "complete"} => child' = c,
         child' # None => child' = c /\ bundle' /\ state'.current = c,
         continuation' # None => continuation' = c /\ child' = c,
         state'.phase = "promote" => state'.candidate \in {None, c}
  PROVE  Promoted'
<1>1. PromotedEarned'
  BY DEF Promoted, PromotedEarned, GateRejected
<1>2. QED
  BY <1>1 DEF Promoted

LEMMA PointerStep ==
  ASSUME Inductive, PromotePointer \/ RecoverPromotion
  PROVE  Inductive'
<1>1. /\ Typed /\ Where /\ Numbered /\ Tried /\ Ordered /\ Acting /\ Vetoing
      /\ Promoted /\ RoundsBounded
  BY DEF Inductive
<1>2. state.phase = "promote" /\ pc \in {"idle", "pointer"} /\ promotions # {}
  BY <1>1 DEF PromotePointer, RecoverPromotion, Idle, Where, Promoted, Handing
<1>3. PICK c \in Cands :
        /\ promotions = {c}
        /\ pc = "pointer" => state.candidate = c
        /\ child # None => child = c /\ bundle
        /\ continuation # None => continuation = c /\ child = c
  BY <1>1, <1>2 DEF Promoted
<1>4. state' = [state EXCEPT !.current = c, !.candidate = None]
  BY <1>2, <1>3 DEF PromotePointer, RecoverPromotion, Idle
<1>5. /\ pc' = "bundle"
      /\ UNCHANGED <<policy, ledgers, arms, artifacts, handoff, doing, left, operator, faults>>
  BY DEF PromotePointer, RecoverPromotion
<1> USE DEF ledgers, handoff
<1>6. /\ state' \in State /\ state'.phase = "promote" /\ state'.candidate = None
      /\ state'.current = c /\ state'.rank = state.rank
  BY <1>1, <1>2, <1>4 DEF Typed, State
<1>7. bundle \in BOOLEAN /\ child \in Cands \cup {None} /\ continuation \in Cands \cup {None}
  BY <1>1 DEF Typed
<1>8. /\ Typed' /\ Where' /\ Numbered' /\ Tried' /\ Ordered' /\ Acting' /\ Vetoing'
      /\ RoundsBounded'
  BY <1>2, <1>5, <1>6, <1>7, HandoffFrame DEF Handing
<1>9. override' = override
  BY <1>5 DEF artifacts, waivers
<1>10. Promoted'
  BY <1>1, <1>3, <1>5, <1>6, <1>9, CarryOn
<1>11. QED
  BY <1>8, <1>10 DEF Inductive

LEMMA HandoffStep ==
  ASSUME Inductive, PromoteBundle \/ Spawn \/ WriteContinuation \/ Complete
  PROVE  Inductive'
<1>1. /\ Typed /\ Where /\ Numbered /\ Tried /\ Ordered /\ Acting /\ Vetoing
      /\ Promoted /\ RoundsBounded
  BY DEF Inductive
<1>2. /\ pc \in {"bundle", "spawn", "continue", "complete"}
      /\ UNCHANGED <<policy, ledgers, arms, artifacts, doing, left, operator, faults>>
  BY DEF PromoteBundle, Spawn, WriteContinuation, Complete, handoff
<1>3. state.phase = "promote" /\ promotions # {}
  BY <1>1, <1>2 DEF Where, Promoted, Handing
<1>4. PICK c \in Cands :
        /\ promotions = {c} /\ state.current = c /\ state.candidate \in {None, c}
        /\ pc \in {"spawn", "continue", "complete"} => bundle
        /\ pc \in {"continue", "complete"} => child = c
        /\ child # None => child = c /\ bundle
        /\ continuation # None => continuation = c /\ child = c
  BY <1>1, <1>2, <1>3 DEF Promoted, Handing
<1> USE DEF ledgers, handoff
<1>5. /\ state' \in State /\ state'.rank = state.rank
      /\ state'.current = c /\ state'.candidate = state.candidate
      /\ state'.phase = "promote" \/ (state'.phase = "complete" /\ pc' = "idle")
  <2>1. CASE state' = state
    BY <1>1, <1>3, <1>4, <2>1 DEF Typed
  <2>2. CASE state' = [state EXCEPT !.phase = "complete"] /\ pc' = "idle"
    BY <1>1, <1>4, <2>2 DEF Typed, State, Phases
  <2>3. QED
    BY <2>1, <2>2 DEF PromoteBundle, Spawn, WriteContinuation, Complete
<1>6. bundle \in BOOLEAN /\ child \in Cands \cup {None} /\ continuation \in Cands \cup {None}
  BY <1>1 DEF Typed
<1>7. /\ pc' \in {"idle", "spawn", "continue", "complete"}
      /\ bundle' \in BOOLEAN /\ child' \in {child, c} /\ continuation' \in {continuation, child}
  BY <1>4, <1>6 DEF PromoteBundle, Spawn, WriteContinuation, Complete
<1>8. /\ pc' \in {"spawn", "continue", "complete"} => bundle'
      /\ pc' \in {"continue", "complete"} => child' = c
      /\ child' # None => child' = c /\ bundle'
      /\ continuation' # None => continuation' = c /\ child' = c
  <2>1. CASE PromoteBundle
    BY <1>4, <2>1 DEF PromoteBundle
  <2>2. CASE Spawn
    BY <1>4, <2>2 DEF Spawn
  <2>3. CASE WriteContinuation
    BY <1>4, <2>3 DEF WriteContinuation
  <2>4. CASE Complete
    BY <1>4, <2>4 DEF Complete
  <2>5. QED
    BY <2>1, <2>2, <2>3, <2>4
<1>9. child' \in Cands \cup {None} /\ continuation' \in Cands \cup {None}
  BY <1>6, <1>7
<1>10. /\ Typed' /\ Where' /\ Numbered' /\ Tried' /\ Ordered' /\ Acting' /\ Vetoing'
       /\ RoundsBounded'
  BY <1>2, <1>3, <1>5, <1>7, <1>9, HandoffFrame DEF Handing
<1>11. override' = override
  BY <1>2 DEF artifacts, waivers
<1>12. Promoted'
  BY <1>1, <1>2, <1>4, <1>5, <1>7, <1>8, <1>11, CarryOn
<1>13. QED
  BY <1>10, <1>12 DEF Inductive

-----------------------------------------------------------------------------
(***************************************************************************)
(* The operator's commands.                                                *)
(***************************************************************************)
\* An authorization under way: it replaces none that is different, and touches
\* nothing else but the pointer in the state.
LEMMA GrantStep ==
  ASSUME Inductive,
         (\E x \in {"keep", "skip"} : GrantCheck(x)) \/ GrantArtifact \/ GrantRow \/ GrantState
  PROVE  Inductive'
<1> USE DEF ledgers, handoff, doing
<1>1. /\ Typed /\ Where /\ Numbered /\ Tried /\ Ordered /\ Acting /\ Vetoing
      /\ Promoted /\ RoundsBounded
  BY DEF Inductive
<1>2. UNCHANGED <<policy, ledgers, arms, verdict, shadow, screened, vetoed, falsify,
                  handoff, pc, doing, left, veto, vetoing, faults>>
  BY DEF GrantCheck, GrantArtifact, GrantRow, GrantState, artifacts, waivers
<1>3. /\ state' \in State /\ state'.rank = state.rank /\ state'.phase = state.phase
      /\ state'.candidate = state.candidate /\ state'.current = state.current
  <2>1. CASE state' = state
    BY <1>1, <2>1 DEF Typed
  <2>2. CASE GrantState
    BY <1>1, <2>2 DEF GrantState, Typed, State
  <2>3. QED
    BY <2>1, <2>2 DEF GrantCheck, GrantArtifact, GrantRow
<1> DEFINE Kept ==
      /\ override' \in [Cands -> Skip] /\ drifted' \subseteq Cands
      /\ listed' \subseteq Cands /\ \A c \in listed' : override'[c] # "none"
      /\ \A c \in Cands : override[c] = "skip" => override'[c] = "skip"
      /\ granting' \in {"none", "keep", "skip", "row", "state"} /\ grantee' \in Cands \cup {None}
      /\ granting' # "none" => grantee' # None
      /\ granting' \in {"keep", "skip"} => override'[grantee'] \in {"none", granting'}
      /\ granting' \in {"row", "state"} => override'[grantee'] # "none"
<1>4. Kept
  <2>1. ASSUME NEW x \in {"keep", "skip"}, GrantCheck(x)
        PROVE  Kept
    <3>1. state.candidate \in Cands /\ state.candidate # None
      BY <1>1, <2>1, Constants DEF GrantCheck, Typed, State
    <3>2. QED
      BY <1>1, <2>1, <3>1 DEF GrantCheck, Typed, artifacts, waivers
  <2>2. CASE GrantArtifact
    <3>1. grantee \in Cands /\ override[grantee] \in {"none", granting}
      BY <1>1, <2>2 DEF GrantArtifact, Typed
    <3>2. /\ override' = [override EXCEPT ![grantee] = granting] /\ listed' = listed
          /\ drifted' \subseteq drifted \cup {grantee}
          /\ granting' = "row" /\ grantee' = grantee /\ granting \in {"keep", "skip"}
      BY <2>2 DEF GrantArtifact
    <3>3. QED
      BY <1>1, <3>1, <3>2 DEF Typed, Skip
  <2>3. CASE GrantRow
    BY <1>1, <2>3 DEF GrantRow, Typed
  <2>4. CASE GrantState
    BY <1>1, <2>4 DEF GrantState, Typed, artifacts, waivers
  <2>5. QED
    BY <2>1, <2>2, <2>3, <2>4
<1>5. Typed'
  BY <1>1, <1>2, <1>3, <1>4 DEF Typed
<1>6. Where'
  BY <1>1, <1>2, <1>3 DEF Where
<1>7. Acting'
  BY <1>1, <1>2, <1>3 DEF Acting
<1>8. Numbered' /\ Tried'
  <2>1. pc = "enter" => state.candidate = work
    BY <1>1 DEF Tried
  <2>2. QED
    BY <1>1, <1>2, <1>3, <2>1, NumberedFrame, TriedFrame
<1>9. Ordered' /\ Vetoing'
  BY <1>1, <1>2, <1>3, OrderedFrame, VetoingFrame
<1>10. Promoted'
  <2>1. \A c \in promotions : override[c] = "skip" => override'[c] = "skip"
    BY <1>1, <1>4 DEF Promoted, Typed
  <2>2. QED
    BY <1>1, <1>2, <1>3, <2>1, PromotedFrame
<1>11. QED
  BY <1>1, <1>2, <1>5, <1>6, <1>7, <1>8, <1>9, <1>10, RoundsFrame DEF Inductive

LEMMA AuthorizeProvisionalStep ==
  ASSUME Inductive, NEW x \in {"keep", "skip"}, AuthorizeProvisional(x)
  PROVE  Inductive'
<1> USE DEF AuthorizeProvisional, ledgers, artifacts, waivers, handoff, doing,
            operator, authorize
<1>1. /\ Typed /\ Where /\ Numbered /\ Tried /\ Ordered /\ Acting /\ Vetoing
      /\ Promoted /\ RoundsBounded
  BY DEF Inductive
<1>2. /\ state' \in State /\ state'.rank = state.rank /\ state'.phase = "propose"
  <2>1. state \in State /\ state.rank \in Ranks
    BY <1>1 DEF Typed, State
  <2>2. "propose" \in Phases /\ "provisional" \in Outcomes /\ x \in Skip
    BY DEF Phases, Outcomes, Skip
  <2>3. QED
    BY <2>1, <2>2 DEF State
<1>3. Typed'
  BY <1>1, <1>2 DEF Typed
<1>4. Where' /\ Acting'
  BY <1>1 DEF Where, Acting, InStage, Handing
<1>5. Numbered' /\ Tried'
  BY <1>1, <1>2, NumberedFrame, TriedFrame DEF Drafting
<1>6. Ordered' /\ Vetoing'
  BY <1>1, <1>2, OrderedFrame, VetoingFrame DEF GatePhases
<1>7. Promoted'
  BY <1>1, <1>2, PromotedFrame DEF Handing
<1>8. QED
  BY <1>1, <1>3, <1>4, <1>5, <1>6, <1>7, RoundsFrame DEF Inductive

LEMMA AuthorizeFalsificationStep ==
  ASSUME Inductive, NEW c \in Cands, AuthorizeFalsification(c)
  PROVE  Inductive'
<1> USE DEF AuthorizeFalsification, ledgers, waivers, handoff, doing, operator, authorize
<1>1. /\ Typed /\ Where /\ Numbered /\ Tried /\ Ordered /\ Acting /\ Vetoing
      /\ Promoted /\ RoundsBounded
  BY DEF Inductive
<1>2. Typed'
  BY <1>1 DEF Typed
<1>3. Where'
  BY <1>1 DEF Where
<1>4. Acting'
  BY <1>1 DEF Acting
<1>5. Numbered' /\ Tried'
  <2>1. pc = "enter" => state.candidate = work
    BY <1>1 DEF Tried
  <2>2. QED
    BY <1>1, <2>1, NumberedFrame, TriedFrame
<1>6. Ordered' /\ Vetoing' /\ Promoted'
  BY <1>1, OrderedFrame, VetoingFrame, PromotedFrame
<1>7. QED
  BY <1>1, <1>2, <1>3, <1>4, <1>5, <1>6, RoundsFrame DEF Inductive

\* Only the candidate that comes next can be rejected for its replay, also
\* while the supervisor is at work on it.
LEMMA RejectShadowStep ==
  ASSUME Inductive, NEW c \in Cands, RejectShadow(c)
  PROVE  Inductive'
<1> USE DEF RejectShadow, ledgers, waivers, handoff, doing, operator, authorize
<1>1. /\ Typed /\ Where /\ Numbered /\ Tried /\ Ordered /\ Acting /\ Vetoing
      /\ Promoted /\ RoundsBounded
  BY DEF Inductive
<1>2. home[c] # None
  BY <1>1 DEF Numbered
<1>3. Typed'
  BY <1>1 DEF Typed
<1>4. Where'
  BY <1>1 DEF Where
<1>5. Acting'
  BY <1>1 DEF Acting
<1>6. Numbered'
  BY <1>1, <1>2, NumberedScreen
<1>7. Tried'
  <2>1. pc = "enter" => state.candidate = work
    BY <1>1 DEF Tried
  <2>2. QED
    BY <1>1, <2>1, TriedFrame
<1>8. Ordered' /\ Vetoing' /\ Promoted'
  BY <1>1, OrderedFrame, VetoingFrame, PromotedFrame
<1>9. QED
  BY <1>1, <1>3, <1>4, <1>5, <1>6, <1>7, <1>8, RoundsFrame DEF Inductive

LEMMA VetoCheckStep ==
  ASSUME Inductive, VetoCheck
  PROVE  Inductive'
<1> USE DEF VetoCheck, ledgers, artifacts, waivers, handoff, doing, authorize
<1>1. /\ Typed /\ Where /\ Numbered /\ Tried /\ Ordered /\ Acting /\ Vetoing
      /\ Promoted /\ RoundsBounded
  BY DEF Inductive
<1>2. pc = "idle"
  <2>1. pc # "advance"
    BY <1>1 DEF Acting, Fresh
  <2>2. QED
    BY <1>1, <2>1 DEF Typed, Where, InStage, Drafting, Handing
<1>3. Typed'
  BY <1>1 DEF Typed
<1>4. Where' /\ Acting'
  BY <1>2 DEF Where, Acting, InStage, Handing
<1>5. Numbered' /\ Tried'
  BY <1>1, <1>2, NumberedFrame, TriedFrame
<1>6. Ordered' /\ Promoted'
  BY <1>1, OrderedFrame, PromotedFrame
<1>7. Vetoing'
  BY <1>1, <1>2 DEF Vetoing
<1>8. QED
  BY <1>1, <1>3, <1>4, <1>5, <1>6, <1>7, RoundsFrame DEF Inductive

LEMMA VetoWriteStep ==
  ASSUME Inductive, VetoWrite
  PROVE  Inductive'
<1> USE DEF VetoWrite, ledgers, waivers, handoff, doing, authorize
<1>1. /\ Typed /\ Where /\ Numbered /\ Tried /\ Ordered /\ Acting /\ Vetoing
      /\ Promoted /\ RoundsBounded
  BY DEF Inductive
<1>2. veto \in registered
  BY <1>1 DEF Vetoing
<1>3. Typed'
  BY <1>1, <1>2 DEF Typed
<1>4. Where'
  BY <1>1 DEF Where
<1>5. Acting'
  BY <1>1 DEF Acting
<1>6. Numbered'
  BY <1>1, NumberedFrame
<1>7. Tried'
  <2>1. pc = "enter" => state.candidate = work
    BY <1>1 DEF Tried
  <2>2. QED
    BY <1>1, <2>1, TriedFrame
<1>8. Ordered' /\ Promoted'
  BY <1>1, OrderedFrame, PromotedFrame
<1>9. Vetoing'
  BY <1>1, <1>2 DEF Vetoing, Fresh
<1>10. QED
  BY <1>1, <1>3, <1>4, <1>5, <1>6, <1>7, <1>8, <1>9, RoundsFrame DEF Inductive

\* A veto that gets through finds its candidate still waiting for the gate.
LEMMA VetoAdvanceStep ==
  ASSUME Inductive, VetoAdvance
  PROVE  Inductive'
<1> USE DEF ledgers, artifacts, waivers, handoff, doing, authorize
<1>1. /\ Typed /\ Where /\ Numbered /\ Tried /\ Ordered /\ Acting /\ Vetoing
      /\ Promoted /\ RoundsBounded
  BY DEF Inductive
<1> DEFINE A == AfterRejection(home[veto])
           s == [A EXCEPT !.candidate = None]
<1>2. /\ vetoing = "advance" /\ vetoing' = "idle" /\ veto' = None
      /\ UNCHANGED <<policy, ledgers, artifacts, handoff, pc, doing, left, authorize, faults>>
  BY DEF VetoAdvance
<1>3. veto \in registered /\ veto \in vetoed /\ veto \in Cands
  BY <1>1, <1>2 DEF Vetoing, Typed
<1>4. Vetoing'
  BY <1>2 DEF Vetoing
<1>5. CASE UNCHANGED <<state, arms>>
  <2>1. Typed'
    BY <1>1, <1>2, <1>5 DEF Typed
  <2>2. Where'
    BY <1>1, <1>2, <1>5 DEF Where
  <2>3. Acting'
    BY <1>1, <1>2, <1>5 DEF Acting
  <2>4. pc = "enter" => state.candidate = work
    BY <1>1 DEF Tried
  <2>5. Numbered' /\ Tried'
    BY <1>1, <1>2, <1>5, <2>4, NumberedFrame, TriedFrame
  <2>6. Ordered' /\ Promoted'
    BY <1>1, <1>2, <1>5, OrderedFrame, PromotedFrame
  <2>7. QED
    BY <1>1, <1>2, <1>4, <2>1, <2>2, <2>3, <2>5, <2>6, RoundsFrame DEF Inductive
<1>6. CASE VetoesSound /\ state' = s /\ arms' = "open"
  <2>1. Fresh(veto)
    BY <1>3, <1>6 DEF VetoesSound, Fresh
  <2>2. state.phase = "same_seed_gate" /\ state.candidate = veto /\ pc = "idle"
    BY <1>1, <1>2, <2>1 DEF Vetoing
  <2>3. promotions = {}
    BY <1>1, <2>2, NothingPromoted
  <2>4. registered \subseteq Rejected
    <3>1. \A c \in registered : c = veto \/ c < veto
      <4>1. veto \in Nat /\ \A c \in registered : c \in Nat /\ c <= veto
        BY <1>1, <1>3, <2>2, Constants DEF Typed, Tried, GatePhases
      <4>2. QED
        BY <4>1
    <3>2. QED
      BY <1>1, <1>3, <3>1 DEF Tried, Rejected
  <2>5. /\ A \in State /\ A.phase \in {"complete", "propose", "diagnose"}
        /\ policy.targets > 0 => A.rank < policy.targets
    <3>1. home[veto] \in Ranks
      BY <1>1, <1>3 DEF Typed, Numbered
    <3>2. QED
      BY <1>1, <3>1, AfterRejectionType
  <2> HIDE DEF A
  <2>6. /\ state' \in State /\ state'.phase \in {"complete", "propose", "diagnose"}
        /\ policy.targets > 0 => state'.rank < policy.targets
    BY <1>6, <2>5 DEF State
  <2>7. Typed'
    BY <1>1, <1>2, <1>6, <2>6 DEF Typed
  <2>8. Where' /\ Acting'
    BY <1>2, <2>2 DEF Where, Acting, InStage, Handing
  <2>9. Numbered' /\ Tried'
    BY <1>1, <1>2, <2>2, <2>4, <2>6, NumberedFrame, TriedFrame DEF Drafting
  <2>10. Ordered'
    BY <2>6, OrderedFrame DEF GatePhases
  <2>11. Promoted'
    BY <1>1, <1>2, <2>2, <2>3, <2>6, PromotedFrame DEF Handing
  <2>12. QED
    BY <1>1, <1>2, <1>4, <2>7, <2>8, <2>9, <2>10, <2>11, RoundsFrame DEF Inductive
<1>7. QED
  BY <1>5, <1>6 DEF VetoAdvance

-----------------------------------------------------------------------------
(***************************************************************************)
(* Faults.                                                                 *)
(***************************************************************************)
LEMMA FaultStep ==
  ASSUME Inductive, Stop
  PROVE  Inductive'
<1> USE DEF ledgers, artifacts, waivers, handoff, doing, operator, authorize
<1>1. /\ Typed /\ Where /\ Numbered /\ Tried /\ Ordered /\ Acting /\ Vetoing
      /\ Promoted /\ RoundsBounded
  BY DEF Inductive
<1>2. faults \in 0 .. MaxFaults /\ faults < MaxFaults /\ faults' = faults + 1
  BY <1>1 DEF Typed, Stop, Interrupt, Kill, KillIngest, VetoLost, GrantLost
<1>3. faults' \in 0 .. MaxFaults
  BY <1>2, Constants
<1>4. left' \subseteq Locks /\ UNCHANGED <<policy, state, ledgers, artifacts, handoff>>
  BY <1>1 DEF Stop, Interrupt, Kill, KillIngest, VetoLost, GrantLost, Typed, Locks, MayHold
<1>5. pc = "enter" => state.candidate = work
  BY <1>1 DEF Tried
<1>6. CASE Interrupt \/ Kill
  <2>1. pc' = "idle" /\ work' = None /\ gate' = None /\ UNCHANGED <<arms, operator>>
    BY <1>6 DEF Interrupt, Kill
  <2>2. Typed'
    BY <1>1, <1>3, <1>4, <2>1 DEF Typed
  <2>3. Where' /\ Acting'
    BY <2>1 DEF Where, Acting, InStage, Handing
  <2>4. Numbered' /\ Tried'
    BY <1>1, <1>4, <2>1, NumberedFrame, TriedFrame DEF Drafting
  <2>5. Ordered' /\ Vetoing' /\ Promoted'
    BY <1>1, <1>4, <2>1, OrderedFrame, VetoingFrame, PromotedFrame DEF Handing
  <2>6. QED
    BY <1>1, <1>4, <2>1, <2>2, <2>3, <2>4, <2>5, RoundsFrame DEF Inductive
<1>7. CASE KillIngest
  <2>1. pc = "idle" /\ arms' = "jammed" /\ UNCHANGED <<pc, doing, operator>>
    BY <1>7 DEF KillIngest
  <2>2. Typed'
    BY <1>1, <1>3, <1>4, <2>1 DEF Typed
  <2>3. Where'
    BY <1>1, <1>4, <2>1 DEF Where
  <2>4. Acting'
    BY <2>1 DEF Acting
  <2>5. Numbered' /\ Tried'
    BY <1>1, <1>4, <1>5, <2>1, NumberedFrame, TriedFrame
  <2>6. Ordered'
    BY <1>1, <1>4, <2>1 DEF Ordered, InOrder, GateRejected
  <2>7. Vetoing' /\ Promoted'
    BY <1>1, <1>4, <2>1, VetoingFrame, PromotedFrame
  <2>8. QED
    BY <1>1, <1>4, <2>1, <2>2, <2>3, <2>4, <2>5, <2>6, <2>7, RoundsFrame DEF Inductive
<1>8. CASE VetoLost \/ GrantLost
  <2>1. /\ \/ UNCHANGED <<veto, vetoing>>
           \/ vetoing' = "idle" /\ veto' = None
        /\ \/ UNCHANGED authorize
           \/ granting' = "none" /\ grantee' = None
        /\ UNCHANGED <<arms, pc, doing>>
    BY <1>8 DEF VetoLost, GrantLost
  <2>2. Typed'
    BY <1>1, <1>3, <1>4, <2>1 DEF Typed
  <2>3. Where'
    BY <1>1, <1>4, <2>1 DEF Where
  <2>4. Acting' /\ Vetoing'
    BY <1>1, <1>4, <2>1 DEF Acting, Vetoing, Fresh
  <2>5. Numbered' /\ Tried'
    BY <1>1, <1>4, <1>5, <2>1, NumberedFrame, TriedFrame
  <2>6. Ordered' /\ Promoted'
    BY <1>1, <1>4, <2>1, OrderedFrame, PromotedFrame
  <2>7. QED
    BY <1>1, <1>4, <2>1, <2>2, <2>3, <2>4, <2>5, <2>6, RoundsFrame DEF Inductive
<1>9. QED
  BY <1>6, <1>7, <1>8 DEF Stop

-----------------------------------------------------------------------------
(***************************************************************************)
(* The theorems.                                                           *)
(***************************************************************************)
LEMMA Unmoved ==
  ASSUME Inductive, UNCHANGED vars
  PROVE  Inductive'
<1> USE DEF vars, ledgers, artifacts, waivers, handoff, doing, operator, authorize
<1>1. /\ Typed /\ Where /\ Numbered /\ Tried /\ Ordered /\ Acting /\ Vetoing
      /\ Promoted /\ RoundsBounded
  BY DEF Inductive
<1>2. Typed'
  BY <1>1 DEF Typed
<1>3. Where'
  BY <1>1 DEF Where
<1>4. Acting'
  BY <1>1 DEF Acting
<1>5. pc = "enter" => state.candidate = work
  BY <1>1 DEF Tried
<1>6. Numbered' /\ Tried'
  BY <1>1, <1>5, NumberedFrame, TriedFrame
<1>7. Ordered' /\ Vetoing' /\ Promoted'
  BY <1>1, OrderedFrame, VetoingFrame, PromotedFrame
<1>8. QED
  BY <1>1, <1>2, <1>3, <1>4, <1>6, <1>7, RoundsFrame DEF Inductive

\* Every step keeps the inductive invariant.
LEMMA Steps ==
  ASSUME Inductive, [Next]_vars
  PROVE  Inductive'
<1>1. CASE Supervise
  BY <1>1, StartDiagnosisStep, RouteStep, RegisterDiagnosisStep, RecoverCandidateStep,
     GiveUpStep, ScreenFeaturesStep, ReplayStep, RegisterStep, PointStep, EnterGateStep,
     ProposeStep, RecordGateStep, AdvanceStep, PromoteStep, PointerStep, HandoffStep
  DEF Supervise
<1>2. CASE Work
  BY <1>2, ArmsStep DEF Work
<1>3. CASE Operate
  BY <1>3, GrantStep, AuthorizeProvisionalStep, AuthorizeFalsificationStep,
     RejectShadowStep, VetoCheckStep, VetoWriteStep, VetoAdvanceStep
  DEF Operate
<1>4. CASE Stop
  BY <1>4, FaultStep
<1>5. CASE UNCHANGED vars
  BY <1>5, Unmoved
<1>6. QED
  BY <1>1, <1>2, <1>3, <1>4, <1>5 DEF Next

\* The inductive invariant holds in every state of a campaign, whatever the
\* supervisor, the operator and the faults interleave between two writes.
THEOREM PromotionInvariant == Spec => []Inductive
<1>1. Init => Inductive
  BY Initially
<1>2. Inductive /\ [Next]_vars => Inductive'
  BY Steps
<1>3. QED
  BY <1>1, <1>2, PTL DEF Spec

\* The files keep their types, one candidate at most is in trial, and a cluster
\* never gets more candidates than max_candidate_rounds_per_cluster
\* (run_proposal_stage, _recover_unadvanced_candidate).
THEOREM CandidateTheorem == Spec => []CandidateInv
<1>1. Inductive => CandidateInv
  <2>1. SUFFICES ASSUME Inductive PROVE CandidateInv
    OBVIOUS
  <2>2. Typed /\ Tried /\ Promoted /\ RoundsBounded
    BY <2>1 DEF Inductive
  <2>3. TypeOK
    BY <2>2 DEF Typed, State, Phases, Verdict, Promoted, TypeOK
  <2>4. OneInTrial
    <3> DEFINE R == registered \ Rejected
    <3>1. R \subseteq Cands /\ Cardinality(R) \in Nat
      BY <2>2, CandSets DEF Typed
    <3>2. CASE R = {}
      BY <3>2, FS_EmptySet DEF OneInTrial
    <3>3. CASE R # {}
      <4>1. PICK c \in R : TRUE
        BY <3>3
      <4>2. \A d \in R : d = c
        <5>1. \A d \in R : d \in Nat /\ c \in Nat /\ ~(c < d) /\ ~(d < c)
          BY <2>2, <4>1, Constants DEF Typed, Tried
        <5>2. QED
          BY <5>1
      <4>3. R = {c}
        BY <4>1, <4>2
      <4>4. Cardinality({c}) = 1
        BY FS_Singleton
      <4>5. QED
        BY <4>3, <4>4 DEF OneInTrial
    <3>4. QED
      BY <3>2, <3>3
  <2>5. QED
    BY <2>2, <2>3, <2>4 DEF CandidateInv
<1>2. QED
  BY <1>1, PromotionInvariant, PTL

\* What is promoted passed its gates, with a waiver of regression only if one is
\* on file for this very candidate, and no gate ever rejected it
\* (store.promote, promote_and_spawn_generation).
THEOREM EarnedTheorem == Spec => []PromotedEarned
<1>1. Inductive => PromotedEarned
  BY DEF Inductive, Promoted
<1>2. QED
  BY <1>1, PromotionInvariant, PTL

\* A handoff file names the promoted candidate, its child generation and the
\* bundle the parent runs (_recover_or_promote, _validated_child_supervisor).
THEOREM HandoffTheorem == Spec => []HandoffBound
<1>1. Inductive => HandoffBound
  BY DEF Inductive, Promoted, HandoffBound
<1>2. QED
  BY <1>1, PromotionInvariant, PTL

\* No gate decision is recorded for a candidate that a gate has rejected, and
\* none that is on file changes (finalize_if_complete, record_gate_and_advance).
THEOREM FinalTheorem == Spec => RejectedIsFinal
<1> DEFINE Final ==
      \A c \in Cands : gates'[c] # gates[c] =>
        /\ c \notin GateRejected
        /\ \A k \in Gates : gates[c][k] # "none" => gates'[c][k] = gates[c][k]
<1>1. ASSUME Inductive, RecordGate
      PROVE  Final
  <2> DEFINE c == state.candidate
  <2>1. Typed /\ Where /\ Tried /\ Ordered
    BY <1>1 DEF Inductive
  <2>2. /\ c \in registered /\ c \in Cands
        /\ gates'[c][GateKind] = Taken
        /\ \A k \in Gates : k # GateKind => gates'[c][k] = gates[c][k]
        /\ \A d \in Cands : d # c => gates'[d] = gates[d]
        /\ gates' \in [Cands -> [Gates -> Verdict]]
    BY <1>1, <2>1, Recording
  <2>3. /\ state.phase \in GatePhases
        /\ gates[c][GateKind] \in {"none", Taken}
    BY <1>1, TakenType DEF RecordGate, Recorded
  <2>4. /\ GateKind \in Gates
        /\ state.phase = "same_seed_gate" => GateKind = "same_seed"
        /\ state.phase = "regression_gate" => GateKind = "regression"
        /\ state.phase = "heldout_gate" =>
             \/ GateKind = "heldout_50" /\ gates[c]["heldout_10"] = "unclear"
             \/ GateKind = "heldout_10" /\ gates[c]["heldout_10"] # "unclear"
    BY <2>3, GateKindType
  <2>5. InOrder(c)
    BY <2>1, <2>2, Constants DEF Ordered
  <2>6. CASE gates[c][GateKind] = "none"
    <3>1. c \notin GateRejected
      <4>1. \A k \in Gates : gates[c][k] \in {"none", "pass", "unclear"}
        <5>1. CASE state.phase = "same_seed_gate"
          BY <2>4, <2>5, <2>6, <5>1 DEF InOrder, Gates
        <5>2. CASE state.phase = "regression_gate"
          BY <2>4, <2>5, <2>6, <5>2 DEF InOrder, Gates
        <5>3. CASE state.phase = "heldout_gate"
          BY <2>4, <2>5, <2>6, <5>3 DEF InOrder, Gates
        <5>4. QED
          BY <2>3, <5>1, <5>2, <5>3 DEF GatePhases
      <4>2. QED
        BY <4>1 DEF GateRejected
    <3>2. QED
      BY <2>2, <2>6, <3>1
  <2>7. CASE gates[c][GateKind] # "none"
    <3>1. \A k \in Gates : gates'[c][k] = gates[c][k]
      BY <2>2, <2>3, <2>7
    <3>2. gates'[c] \in [Gates -> Verdict] /\ gates[c] \in [Gates -> Verdict]
      BY <2>1, <2>2 DEF Typed
    <3>3. gates'[c] = gates[c]
      BY <3>1, <3>2
    <3>4. QED
      BY <2>2, <3>3
  <2>8. QED
    BY <2>6, <2>7
<1>2. ASSUME Next, ~RecordGate
      PROVE  gates' = gates
  <2> USE DEF ledgers
  <2>1. CASE Supervise
    BY <1>2, <2>1 DEF Supervise, StartDiagnosis, Route, RegisterDiagnosis, RecoverCandidate,
       GiveUp, ScreenFeatures, WriteReport, Precommit, ResumeReplay, Register, Point,
       EnterGate, Propose, Advance, Promote, PromotePointer, RecoverPromotion,
       PromoteBundle, Spawn, WriteContinuation, Complete
  <2>2. CASE Work
    BY <2>2 DEF Work, Arms
  <2>3. CASE Operate
    BY <2>3 DEF Operate, GrantCheck, GrantArtifact, GrantRow, GrantState, AuthorizeProvisional,
       AuthorizeFalsification,
       RejectShadow, VetoCheck, VetoWrite, VetoAdvance
  <2>4. CASE Stop
    BY <2>4 DEF Stop, Interrupt, Kill, KillIngest, VetoLost, GrantLost
  <2>5. QED
    BY <1>2, <2>1, <2>2, <2>3, <2>4 DEF Next
<1>3. Inductive /\ [Next]_vars => [Final]_vars
  BY <1>1, <1>2
<1>4. QED
  BY <1>3, PromotionInvariant, PTL DEF Spec, RejectedIsFinal

=============================================================================
