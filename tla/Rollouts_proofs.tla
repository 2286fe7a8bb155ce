-------------------------- MODULE Rollouts_proofs ---------------------------
(***************************************************************************)
(* The rollout phase of the campaign, and the inference service its        *)
(* rollouts run on: two specifications that share no variable.             *)
(*                                                                         *)
(* Every state of CampaignRollout!Spec satisfies Inductive, for any number *)
(* of logical rollouts, attempts and kills: one lemma per action.  From it *)
(* follow LedgerInv and IngestLosesNothing.                                *)
(*                                                                         *)
(* Every state of InferenceService!ServiceSpec satisfies ServiceInductive, *)
(* for any requests, priorities, limits and quotas.  From it follow        *)
(* SchedulerInv and OneVersion.  The batches are chosen by sorts and       *)
(* prefixes of any length, so this part starts with an induction principle *)
(* and what the sorts return.                                              *)
(***************************************************************************)
EXTENDS CampaignRollout, InferenceService, FiniteSetTheorems, TLAPS

Appending == {"attempts", "attempt_row", "attempt_written"}
Publishing == {"canonical", "episodes", "episode_row", "episode_written"}
Recording == {"artifact"} \cup Appending \cup Publishing

\* The attempts before j are recorded infrastructure failures.
Preceded(j) ==
  \A a \in 0 .. MaxAttempts - 1 :
    a < j[2] => <<j[1], a>> \in attempts /\ outcome[<<j[1], a>>] = "infra"

\* A closed job has an outcome, and a row of the attempts ledger is about a
\* closed job whose record the store took.
Rows ==
  /\ \A j \in Jobs : Closed(j) => outcome[j] \in Outcomes
  /\ \A j \in attempts : Closed(j) /\ outcome[j] \in {"infra", "valid"}

\* An episode has its canonical record and a valid attempt, and the campaign
\* leaves the phase with all of them.
Evidence ==
  /\ \A l \in episodes :
       /\ l \in canonical
       /\ \E a \in 0 .. MaxAttempts - 1 :
            <<l, a>> \in attempts /\ outcome[<<l, a>>] = "valid"
  /\ phase = "cluster" => episodes = Logicals

\* What record_episode has in hand: a listed envelope that the store takes;
\* once past the attempts ledger, a valid one.
InHand ==
  pc \in Recording =>
    /\ cur \in listed /\ outcome[cur] \in {"infra", "valid"}
    /\ pc \in Publishing => cur \in attempts /\ outcome[cur] = "valid"
    /\ pc = "attempt_written" => cur \in attempts
    /\ pc \in Publishing \ {"canonical"} => cur[1] \in canonical
    /\ pc = "episode_written" => cur[1] \in episodes

\* An envelope that the pass is done with: a valid one has its episode, and any
\* other its row, or it is unrecordable.
Handled(j) ==
  /\ outcome[j] = "valid" => j[1] \in episodes
  /\ j \in attempts \/ Unrecordable(j)

\* A pass lists closed jobs only, every recorded one among them, and is done
\* with those it has looked at but for the one in hand.
PassSound ==
  pc \notin {"step", "exit"} =>
    /\ \A j \in listed : Closed(j)
    /\ attempts \subseteq listed
    /\ \A j \in listed \ todo : Handled(j) \/ (pc \in Recording /\ cur = j)
    /\ pc \notin Recording \cup {"ingest"} => todo = {}

\* An artifact without its row is in hand, or was left behind by a kill.
Torn ==
  \A j \in artifact \ attempts :
    crashes > 0 \/ (pc \in {"attempts", "attempt_row"} /\ cur = j)

\* A lock directory nobody is inside of was left by a kill.
Orphaned == LockLeft => crashes > 0

\* What is going to be enqueued was never enqueued and is the next attempt.
Planned == pc = "enqueue" => \A j \in plan : stage[j] = "absent" /\ Preceded(j)

InOrder == \A j \in Jobs : stage[j] # "absent" => Preceded(j)

Inductive ==
  /\ TypeOK /\ InOrder /\ Rows /\ Evidence /\ InHand /\ PassSound /\ Torn /\ Planned
  /\ Orphaned

-----------------------------------------------------------------------------
\* A set of attempts that with each attempt holds all earlier ones is counted by
\* the number of the next attempt.
LEMMA PrefixCount ==
  ASSUME NEW S \in SUBSET (0 .. MaxAttempts - 1),
         \A b \in S : \A a \in 0 .. MaxAttempts - 1 : a < b => a \in S
  PROVE  /\ Cardinality(S) \in 0 .. MaxAttempts
         /\ S = 0 .. Cardinality(S) - 1
<1> DEFINE n == Cardinality(S)
<1>1. IsFiniteSet(0 .. MaxAttempts - 1) /\ Cardinality(0 .. MaxAttempts - 1) = MaxAttempts
  BY AttemptAssumption, FS_Interval
<1>2. IsFiniteSet(S) /\ n \in Nat /\ n <= MaxAttempts
  BY <1>1, FS_Subset, FS_CardinalityType
<1>3. S \subseteq 0 .. n - 1
  <2> SUFFICES ASSUME NEW x \in S, x >= n PROVE FALSE
    BY <1>2, AttemptAssumption
  <2>1. 0 .. x \subseteq S
    BY AttemptAssumption
  <2>2. Cardinality(0 .. x) = x + 1
    BY AttemptAssumption, FS_Interval
  <2>3. Cardinality(0 .. x) <= n
    BY <2>1, <1>2, FS_Subset
  <2>4. QED
    BY <2>2, <2>3, <1>2, AttemptAssumption
<1>4. IsFiniteSet(0 .. n - 1) /\ Cardinality(0 .. n - 1) = n
  <2> HIDE DEF n
  <2>1. PICK b \in Int : b = n - 1
    BY <1>2
  <2>2. IsFiniteSet(0 .. b) /\ Cardinality(0 .. b) = IF 0 > b THEN 0 ELSE b - 0 + 1
    BY FS_Interval
  <2>3. QED
    BY <1>2, <2>1, <2>2
<1>5. S = 0 .. n - 1
  BY <1>3, <1>4, FS_Subset
<1>6. QED
  BY <1>2, <1>5, AttemptAssumption

\* When nothing valid is recorded for a logical rollout, the attempt that
\* build_rollout_jobs counts to is preceded by recorded failures.
LEMMA NextAttempt ==
  ASSUME Inductive, NEW l \in Logicals,
         \A a \in 0 .. MaxAttempts - 1 :
           <<l, a>> \in attempts => outcome[<<l, a>>] = "infra"
  PROVE  AttemptCount(l) \in 0 .. MaxAttempts /\ Preceded(<<l, AttemptCount(l)>>)
<1> DEFINE S == {a \in 0 .. MaxAttempts - 1 : <<l, a>> \in attempts}
<1>1. ASSUME NEW b \in S, NEW a \in 0 .. MaxAttempts - 1, a < b
      PROVE  a \in S
  <2>1. <<l, b>> \in Jobs /\ stage[<<l, b>>] # "absent"
    BY DEF Jobs, Inductive, Rows, Closed, Queue!Closed
  <2>2. QED
    BY <2>1, <1>1 DEF Inductive, InOrder, Preceded
<1>2. Cardinality(S) \in 0 .. MaxAttempts /\ S = 0 .. Cardinality(S) - 1
  BY <1>1, PrefixCount
<1>3. AttemptCount(l) = Cardinality(S)
  BY DEF AttemptCount
<1> HIDE DEF S
<1>4. ASSUME NEW a \in 0 .. MaxAttempts - 1, a < AttemptCount(l)
      PROVE  <<l, a>> \in attempts
  BY <1>2, <1>3, <1>4, AttemptAssumption DEF S
<1>5. QED
  BY <1>2, <1>3, <1>4 DEF Preceded

-----------------------------------------------------------------------------
\* Nothing is listed, recorded or planned at the start.
LEMMA InitInductive == Init => Inductive
<1> SUFFICES ASSUME Init PROVE Inductive
  OBVIOUS
<1> USE AttemptAssumption, OutcomeAssumption, CrashAssumption DEF Init, Queue!Init
<1>1. TypeOK
  <2>1. stage \in [Jobs -> Queue!Stages]
    BY DEF Queue!Stages
  <2>2. outcome \in [Jobs -> Outcomes \cup {None}]
    OBVIOUS
  <2>3. enqueued \in BOOLEAN /\ inflight \in BOOLEAN
    OBVIOUS
  <2>4. crashes \in 0 .. MaxCrashes
    OBVIOUS
  <2>5. QED
    BY <2>1, <2>2, <2>3, <2>4, Zenon DEF TypeOK
<1>2. InOrder /\ Planned /\ Rows
  BY DEF InOrder, Planned, Rows, Closed, Queue!Closed
<1>3. Evidence /\ InHand /\ PassSound /\ Torn /\ Orphaned
  BY DEF Evidence, InHand, Recording, Appending, Publishing, PassSound, Torn, Orphaned, LockLeft
<1>4. QED
  BY <1>1, <1>2, <1>3 DEF Inductive

\* A step that changes nothing.
LEMMA StutterStep ==
  ASSUME Inductive, UNCHANGED vars
  PROVE  Inductive'
<1> USE AttemptAssumption, OutcomeAssumption, CrashAssumption
    DEF Inductive, TypeOK, vars, Jobs, Recording, Appending, Publishing, Closed, Queue!Closed, Queue!Stages
<1>1. TypeOK'
  BY DEF TypeOK
<1>2. InOrder' /\ Planned'
  BY DEF InOrder, Planned, Preceded
<1>3. Rows' /\ Evidence'
  BY DEF Rows, Evidence
<1>4. InHand' /\ Torn'
  BY DEF InHand, Torn
<1>5. Orphaned'
  BY DEF Orphaned, LockLeft, Torn
<1>6. PassSound'
  BY DEF PassSound, Handled, Unrecordable, InHand, Torn, Rows
<1>7. QED
  BY <1>1, <1>2, <1>3, <1>4, <1>5, <1>6 DEF Inductive

\* A worker claims a job.
LEMMA ClaimStep ==
  ASSUME Inductive, NEW k \in Jobs, Claim(k)
  PROVE  Inductive'
<1> USE AttemptAssumption, OutcomeAssumption, CrashAssumption
    DEF Inductive, TypeOK, Claim, Queue!Claim, Queue!Move, ledgers, pass, Recording, Appending, Publishing, Closed, Queue!Closed, Queue!Stages
<1>1. TypeOK'
  BY DEF TypeOK
<1>2. InOrder' /\ Planned'
  BY DEF InOrder, Planned, Preceded
<1>3. Rows' /\ Evidence'
  BY DEF Rows, Evidence
<1>4. InHand' /\ Torn'
  BY DEF InHand, Torn
<1>5. Orphaned'
  BY DEF Orphaned, LockLeft, Torn
<1>6. PassSound'
  BY DEF PassSound, Handled, Unrecordable, InHand, Torn, Rows
<1>7. QED
  BY <1>1, <1>2, <1>3, <1>4, <1>5, <1>6 DEF Inductive

\* A running job is closed: it has no row yet and is not listed.
LEMMA CloseStep ==
  ASSUME Inductive, NEW k \in Jobs, Close(k)
  PROVE  Inductive'
<1> USE AttemptAssumption, OutcomeAssumption, CrashAssumption
    DEF Inductive, TypeOK, Close, Queue!Close, Queue!Move, ledgers, pass, Recording, Appending, Publishing, Closed, Queue!Closed, Queue!Stages
<1>1. TypeOK'
  BY DEF TypeOK
<1>2. InOrder' /\ Planned'
  BY DEF InOrder, Planned, Preceded, Rows
<1>3. Rows' /\ Evidence'
  BY DEF Rows, Evidence
<1>4. InHand' /\ Torn'
  BY DEF InHand, Torn, Rows, PassSound
<1>5. Orphaned'
  BY DEF Orphaned, LockLeft, Torn
<1>6. PassSound'
  BY DEF PassSound, Handled, Unrecordable, InHand, Torn, Rows
<1>7. QED
  BY <1>1, <1>2, <1>3, <1>4, <1>5, <1>6 DEF Inductive

\* A pass begins: every recorded job is closed, so it is listed.
LEMMA StepStartStep ==
  ASSUME Inductive, StepStart
  PROVE  Inductive'
<1> USE AttemptAssumption, OutcomeAssumption, CrashAssumption
    DEF Inductive, TypeOK, StepStart, Goto, ledgers, Recording, Appending, Publishing, Closed, Queue!Closed, Queue!Stages
<1>1. TypeOK'
  BY DEF TypeOK
<1>2. InOrder' /\ Planned'
  BY DEF InOrder, Planned, Preceded
<1>3. Rows' /\ Evidence'
  BY DEF Rows, Evidence
<1>4. InHand' /\ Torn'
  BY DEF InHand, Torn
<1>5. Orphaned'
  BY DEF Orphaned, LockLeft, Torn
<1>6. PassSound'
  BY DEF PassSound, Handled, Unrecordable, InHand, Torn, Rows
<1>7. QED
  BY <1>1, <1>2, <1>3, <1>4, <1>5, <1>6 DEF Inductive

\* An envelope is looked at: skipped ones are unrecordable or recorded.
LEMMA IngestStep ==
  ASSUME Inductive, NEW k \in Jobs, Ingest(k)
  PROVE  Inductive'
<1> USE AttemptAssumption, OutcomeAssumption, CrashAssumption
    DEF Inductive, TypeOK, Ingest, Goto, ledgers, pass, Recording, Appending, Publishing, Closed, Queue!Closed, Queue!Stages
<1>1. TypeOK'
  BY DEF TypeOK
<1>2. InOrder' /\ Planned'
  BY DEF InOrder, Planned, Preceded
<1>3. Rows' /\ Evidence'
  BY DEF Rows, Evidence
<1>4. InHand' /\ Torn'
  BY DEF InHand, Torn, Rows, PassSound
<1>5. Orphaned'
  BY DEF Orphaned, LockLeft, Torn
<1>6. PassSound'
  BY DEF PassSound, Handled, Unrecordable, InHand, Torn, Rows
<1>7. QED
  BY <1>1, <1>2, <1>3, <1>4, <1>5, <1>6 DEF Inductive

\* The artifact of the envelope in hand.
LEMMA RecordArtifactStep ==
  ASSUME Inductive, RecordArtifact
  PROVE  Inductive'
<1> USE AttemptAssumption, OutcomeAssumption, CrashAssumption
    DEF Inductive, TypeOK, RecordArtifact, Goto, pass, Jobs, Recording, Appending, Publishing, Closed, Queue!Closed, Queue!Stages
<1>1. TypeOK'
  BY DEF TypeOK, InHand
<1>2. InOrder' /\ Planned'
  BY DEF InOrder, Planned, Preceded
<1>3. Rows' /\ Evidence'
  BY DEF Rows, Evidence
<1>4. InHand' /\ Torn'
  BY DEF InHand, Torn
<1>5. Orphaned'
  BY DEF Orphaned, LockLeft, Torn
<1>6. PassSound'
  BY DEF PassSound, Handled, Unrecordable, InHand, Torn, Rows
<1>7. QED
  BY <1>1, <1>2, <1>3, <1>4, <1>5, <1>6 DEF Inductive

\* Its row in the attempts ledger.
LEMMA RecordAttemptStep ==
  ASSUME Inductive, RecordAttempt
  PROVE  Inductive'
<1> USE AttemptAssumption, OutcomeAssumption, CrashAssumption
    DEF Inductive, TypeOK, RecordAttempt, Goto, pass, Jobs, Recording, Appending, Publishing, Closed, Queue!Closed, Queue!Stages
<1>1. TypeOK'
  BY DEF TypeOK, InHand
<1>2. InOrder' /\ Planned'
  BY DEF InOrder, Planned, Preceded
<1>3. Rows' /\ Evidence'
  BY DEF Rows, Evidence, InHand, PassSound
<1>4. InHand' /\ Torn'
  BY DEF InHand, Torn
<1>5. Orphaned'
  BY DEF Orphaned, LockLeft, Torn
<1>6. PassSound'
  BY DEF PassSound, Handled, Unrecordable, InHand, Torn, Rows
<1>7. QED
  BY <1>1, <1>2, <1>3, <1>4, <1>5, <1>6 DEF Inductive

\* append takes the lock of the ledger.
LEMMA AppendLockStep ==
  ASSUME Inductive, AppendLock
  PROVE  Inductive'
<1> USE AttemptAssumption, OutcomeAssumption, CrashAssumption
    DEF Inductive, TypeOK, AppendLock, Goto, pass, Jobs, Recording, Appending, Publishing, Closed, Queue!Closed, Queue!Stages
<1>1. TypeOK'
  BY DEF TypeOK, InHand
<1>2. InOrder' /\ Planned'
  BY DEF InOrder, Planned, Preceded
<1>3. Rows' /\ Evidence'
  BY DEF Rows, Evidence
<1>4. InHand' /\ Torn'
  BY DEF InHand, Torn, Orphaned, LockLeft
<1>5. Orphaned'
  BY DEF Orphaned, LockLeft
<1>6. PassSound'
  BY DEF PassSound, Handled, Unrecordable, InHand, Torn, Rows
<1>7. QED
  BY <1>1, <1>2, <1>3, <1>4, <1>5, <1>6 DEF Inductive

\* append removes the lock: what was in hand is handled or has its row.
LEMMA AppendUnlockStep ==
  ASSUME Inductive, AppendUnlock
  PROVE  Inductive'
<1> USE AttemptAssumption, OutcomeAssumption, CrashAssumption
    DEF Inductive, TypeOK, AppendUnlock, Goto, pass, Jobs, Recording, Appending, Publishing, Closed, Queue!Closed, Queue!Stages
<1>1. TypeOK'
  BY DEF TypeOK, InHand
<1>2. InOrder' /\ Planned'
  BY DEF InOrder, Planned, Preceded
<1>3. Rows' /\ Evidence'
  BY DEF Rows, Evidence
<1>4. InHand' /\ Torn'
  BY DEF InHand, Torn, Orphaned, LockLeft
<1>5. Orphaned'
  BY DEF Orphaned, LockLeft
<1>6. PassSound'
  BY DEF PassSound, Handled, Unrecordable, InHand, Torn, Rows
<1>7. QED
  BY <1>1, <1>2, <1>3, <1>4, <1>5, <1>6 DEF Inductive

\* append gives up on a lock that a kill left behind.
LEMMA AppendTimeoutStep ==
  ASSUME Inductive, AppendTimeout
  PROVE  Inductive'
<1> USE AttemptAssumption, OutcomeAssumption, CrashAssumption
    DEF Inductive, TypeOK, AppendTimeout, StartAgain, ledgers, pass, Jobs, Recording, Appending, Publishing, Closed, Queue!Closed, Queue!Stages
<1>1. TypeOK'
  BY DEF TypeOK, InHand
<1>2. InOrder' /\ Planned'
  BY DEF InOrder, Planned, Preceded
<1>3. Rows' /\ Evidence'
  BY DEF Rows, Evidence
<1>4. InHand' /\ Torn'
  BY DEF InHand, Torn, Orphaned, LockLeft
<1>5. Orphaned'
  BY DEF Orphaned, LockLeft
<1>6. PassSound'
  BY DEF PassSound, Handled, Unrecordable, InHand, Torn, Rows
<1>7. QED
  BY <1>1, <1>2, <1>3, <1>4, <1>5, <1>6 DEF Inductive

\* The canonical record of a valid episode.
LEMMA RecordCanonicalStep ==
  ASSUME Inductive, RecordCanonical
  PROVE  Inductive'
<1> USE AttemptAssumption, OutcomeAssumption, CrashAssumption
    DEF Inductive, TypeOK, RecordCanonical, Goto, pass, Jobs, Recording, Appending, Publishing, Closed, Queue!Closed, Queue!Stages
<1>1. TypeOK'
  BY DEF TypeOK, InHand
<1>2. InOrder' /\ Planned'
  BY DEF InOrder, Planned, Preceded
<1>3. Rows' /\ Evidence'
  BY DEF Rows, Evidence
<1>4. InHand' /\ Torn'
  BY DEF InHand, Torn
<1>5. Orphaned'
  BY DEF Orphaned, LockLeft, Torn
<1>6. PassSound'
  BY DEF PassSound, Handled, Unrecordable, InHand, Torn, Rows
<1>7. QED
  BY <1>1, <1>2, <1>3, <1>4, <1>5, <1>6 DEF Inductive

\* Its row in the episodes ledger.
LEMMA RecordEpisodeStep ==
  ASSUME Inductive, RecordEpisode
  PROVE  Inductive'
<1> USE AttemptAssumption, OutcomeAssumption, CrashAssumption
    DEF Inductive, TypeOK, RecordEpisode, Goto, pass, Jobs, Recording, Appending, Publishing, Closed, Queue!Closed, Queue!Stages
<1>1. TypeOK'
  BY DEF TypeOK, InHand
<1>2. InOrder' /\ Planned'
  BY DEF InOrder, Planned, Preceded
<1>3. Rows' /\ Evidence'
  BY DEF Rows, Evidence, InHand
<1>4. InHand' /\ Torn'
  BY DEF InHand, Torn
<1>5. Orphaned'
  BY DEF Orphaned, LockLeft, Torn
<1>6. PassSound'
  BY DEF PassSound, Handled, Unrecordable, InHand, Torn, Rows
<1>7. QED
  BY <1>1, <1>2, <1>3, <1>4, <1>5, <1>6 DEF Inductive

\* The pass has looked at everything it listed.
LEMMA IngestDoneStep ==
  ASSUME Inductive, IngestDone
  PROVE  Inductive'
<1> USE AttemptAssumption, OutcomeAssumption, CrashAssumption
    DEF Inductive, TypeOK, IngestDone, Goto, ledgers, pass, Recording, Appending, Publishing, Closed, Queue!Closed, Queue!Stages
<1>1. TypeOK'
  BY DEF TypeOK
<1>2. InOrder' /\ Planned'
  BY DEF InOrder, Planned, Preceded
<1>3. Rows' /\ Evidence'
  BY DEF Rows, Evidence
<1>4. InHand' /\ Torn'
  BY DEF InHand, Torn
<1>5. Orphaned'
  BY DEF Orphaned, LockLeft, Torn
<1>6. PassSound'
  BY DEF PassSound, Handled, Unrecordable, InHand, Torn, Rows
<1>7. QED
  BY <1>1, <1>2, <1>3, <1>4, <1>5, <1>6 DEF Inductive

\* The next attempts are planned.
LEMMA BuildStep ==
  ASSUME Inductive, Build
  PROVE  Inductive'
<1> USE AttemptAssumption, OutcomeAssumption, CrashAssumption
    DEF Inductive, TypeOK, Build, Goto, ledgers, Recording, Appending, Publishing, Closed, Queue!Closed, Queue!Stages
<1> DEFINE open == {l \in Logicals \ episodes : AttemptCount(l) < MaxAttempts}
<1>a. ASSUME NEW l \in open
      PROVE  <<l, AttemptCount(l)>> \in Jobs /\ Preceded(<<l, AttemptCount(l)>>)
  <2>1. ASSUME NEW a \in 0 .. MaxAttempts - 1, <<l, a>> \in attempts
        PROVE  outcome[<<l, a>>] = "infra"
    BY <2>1 DEF PassSound, Handled, Rows
  <2>2. AttemptCount(l) \in 0 .. MaxAttempts /\ Preceded(<<l, AttemptCount(l)>>)
    BY <2>1, NextAttempt
  <2>3. QED
    BY <2>2 DEF Jobs
<1>b. plan' = {j \in {<<l, AttemptCount(l)>> : l \in open} : stage[j] = "absent"}
      /\ blocked' \subseteq Logicals
  OBVIOUS
<1>1. TypeOK'
  BY <1>a, <1>b DEF TypeOK
<1>2. InOrder' /\ Planned'
  BY <1>a, <1>b DEF InOrder, Planned, Preceded
<1>3. Rows' /\ Evidence'
  BY DEF Rows, Evidence
<1>4. InHand' /\ Torn'
  BY DEF InHand, Torn
<1>5. Orphaned'
  BY DEF Orphaned, LockLeft, Torn
<1>6. PassSound'
  BY DEF PassSound, Handled, Unrecordable, InHand, Torn, Rows
<1>7. QED
  BY <1>1, <1>2, <1>3, <1>4, <1>5, <1>6 DEF Inductive

\* A planned job is enqueued.
LEMMA EnqueueStep ==
  ASSUME Inductive, NEW k \in Jobs, Enqueue(k)
  PROVE  Inductive'
<1> USE AttemptAssumption, OutcomeAssumption, CrashAssumption
    DEF Inductive, TypeOK, Enqueue, Queue!Submit, Queue!Move, ledgers, Recording, Appending, Publishing, Closed, Queue!Closed, Queue!Stages
<1>1. TypeOK'
  BY DEF TypeOK
<1>2. InOrder' /\ Planned'
  BY DEF InOrder, Planned, Preceded
<1>3. Rows' /\ Evidence'
  BY DEF Rows, Evidence
<1>4. InHand' /\ Torn'
  BY DEF InHand, Torn
<1>5. Orphaned'
  BY DEF Orphaned, LockLeft, Torn
<1>6. PassSound'
  BY DEF PassSound, Handled, Unrecordable, InHand, Torn, Rows
<1>7. QED
  BY <1>1, <1>2, <1>3, <1>4, <1>5, <1>6 DEF Inductive

\* The queue is counted, or the pass ends with its verdict.
LEMMA CountStep ==
  ASSUME Inductive, CountPending \/ CountRunning \/ Verdict
  PROVE  Inductive'
<1> USE AttemptAssumption, OutcomeAssumption, CrashAssumption
    DEF Inductive, TypeOK, CountPending, CountRunning, Verdict, Goto, ledgers, pass, Recording, Appending, Publishing, Closed, Queue!Closed, Queue!Stages
<1>1. TypeOK'
  BY DEF TypeOK
<1>2. InOrder' /\ Planned'
  <2>1. UNCHANGED <<stage, outcome, ledgers>> /\ pc' # "enqueue"
    OBVIOUS
  <2>2. InOrder'
    BY <2>1 DEF InOrder, Preceded
  <2>3. QED
    BY <2>1, <2>2 DEF Planned
<1>3. Rows' /\ Evidence'
  BY DEF Rows, Evidence
<1>4. InHand' /\ Torn'
  BY DEF InHand, Torn
<1>5. Orphaned'
  BY DEF Orphaned, LockLeft, Torn
<1>6. PassSound'
  BY DEF PassSound, Handled, Unrecordable, InHand, Torn, Rows
<1>7. QED
  BY <1>1, <1>2, <1>3, <1>4, <1>5, <1>6 DEF Inductive

\* The supervisor is killed: only the files are left.
LEMMA CrashStep ==
  ASSUME Inductive, Crash
  PROVE  Inductive'
<1> USE AttemptAssumption, OutcomeAssumption, CrashAssumption
    DEF Inductive, TypeOK, Crash, StartAgain, ledgers, Recording, Appending, Publishing, Closed, Queue!Closed, Queue!Stages
<1>1. TypeOK'
  BY DEF TypeOK
<1>2. InOrder' /\ Planned'
  BY DEF InOrder, Planned, Preceded
<1>3. Rows' /\ Evidence'
  BY DEF Rows, Evidence
<1>4. InHand' /\ Torn'
  BY DEF InHand, Torn
<1>5. Orphaned'
  BY DEF Orphaned, LockLeft, Torn
<1>6. PassSound'
  BY DEF PassSound, Handled, Unrecordable, InHand, Torn, Rows
<1>7. QED
  BY <1>1, <1>2, <1>3, <1>4, <1>5, <1>6 DEF Inductive

-----------------------------------------------------------------------------
\* The invariant holds in every state: through kills between any two writes and
\* with workers closing jobs at any moment.
THEOREM RolloutInvariant == Spec => []Inductive
<1>1. Init => Inductive
  BY InitInductive
<1>2. Inductive /\ [Next]_vars => Inductive'
  <2> SUFFICES ASSUME Inductive, [Next]_vars PROVE Inductive'
    OBVIOUS
  <2>2. ASSUME NEW j \in Jobs, Claim(j) \/ Close(j) \/ Ingest(j) \/ Enqueue(j)
        PROVE  Inductive'
    BY <2>2, ClaimStep, CloseStep, IngestStep, EnqueueStep
  <2>3. CASE RecordArtifact \/ RecordAttempt \/ RecordCanonical \/ RecordEpisode
    BY <2>3, RecordArtifactStep, RecordAttemptStep, RecordCanonicalStep, RecordEpisodeStep
  <2>4. CASE StepStart \/ IngestDone \/ Build \/ CountPending \/ CountRunning \/ Verdict
    BY <2>4, StepStartStep, IngestDoneStep, BuildStep, CountStep
  <2>5. CASE Crash
    BY <2>5, CrashStep
  <2>6. CASE AppendLock \/ AppendUnlock \/ AppendTimeout
    BY <2>6, AppendLockStep, AppendUnlockStep, AppendTimeoutStep
  <2> QED
    BY StutterStep, <2>6, <2>5, <2>4, <2>3, <2>2 DEF Next, Supervise
<1>3. QED
  BY <1>1, <1>2, PTL DEF Spec

\* One attempt of a logical rollout at a time, and no phase change without its
\* evidence, for any number of rollouts, attempts and kills (campaign.py,
\* store.py: record_episode).
THEOREM LedgerTheorem == Spec => []LedgerInv
<1>1. Inductive => LedgerInv
  <2> SUFFICES ASSUME Inductive PROVE LedgerInv
    OBVIOUS
  <2>1. AttemptsInOrder
    BY DEF Inductive, InOrder, Preceded, AttemptsInOrder, Jobs
  <2>2. CompleteIsComplete
    BY DEF Inductive, TypeOK, Evidence, CompleteIsComplete
  <2>3. QED
    BY <2>1, <2>2 DEF LedgerInv, Inductive
<1>2. QED
  BY <1>1, RolloutInvariant, PTL

\* When an ingest pass is over, what it listed is recorded or unrecordable
\* (campaign.py: ingest_queue_results).
THEOREM IngestTheorem == Spec => []IngestLosesNothing
<1>1. Inductive => IngestLosesNothing
  BY DEF Inductive, TypeOK, PassSound, Handled, Recording, Appending, Publishing, IngestLosesNothing
<1>2. QED
  BY <1>1, RolloutInvariant, PTL

-----------------------------------------------------------------------------
(* The inference service.                                                  *)

\* Induction over the naturals, as a fact about sets.
LEMMA NatSet ==
  ASSUME NEW T, T \subseteq Nat, 0 \in T, \A n \in T : n + 1 \in T
  PROVE  T = Nat
<1> SUFFICES ASSUME Nat \ T # {} PROVE FALSE
  OBVIOUS
<1> DEFINE R == OpToRel(<, Nat)
           U == Nat \ T
<1>1. PICK n \in U : \A m \in U : ~(<<m, n>> \in R)
  <2>1. U # {} /\ U \subseteq Nat /\ IsWellFoundedOn(R, Nat)
    BY NatLessThanWellFounded
  <2> HIDE DEF U, R
  <2> QED
    BY <2>1, WFMin, Zenon
<1>2. n # 0 /\ n \in Nat
  OBVIOUS
<1>3. n - 1 \in Nat /\ n - 1 < n
  BY <1>2
<1>4. n - 1 \notin U
  <2>1. \A m \in Nat : m < n => <<m, n>> \in R
    BY <1>2 DEF OpToRel
  <2> QED
    BY <1>1, <1>3, <2>1
<1> QED
  BY <1>3, <1>4

\* less orders the elements of S.
Linear(S, less) ==
  \A r, s, t \in S : /\ <<r, r>> \notin less
                     /\ <<r, s>> \in less /\ <<s, t>> \in less => <<r, t>> \in less
                     /\ r = s \/ <<r, s>> \in less \/ <<s, r>> \in less

\* Sorted lists every element of a finite set once, the least first.
LEMMA SortedFacts ==
  ASSUME NEW S, IsFiniteSet(S), NEW less, Linear(S, less)
  PROVE  /\ Cardinality(S) \in Nat
         /\ Sorted(S, less) \in [1 .. Cardinality(S) -> S]
         /\ \A r \in S : \E i \in 1 .. Cardinality(S) : Sorted(S, less)[i] = r
         /\ \A i, j \in 1 .. Cardinality(S) :
              Sorted(S, less)[i] = Sorted(S, less)[j] => i = j
<1> DEFINE n == Cardinality(S)
           Below(r) == {s \in S : <<s, r>> \in less}
           f == [r \in S |-> Cardinality(Below(r))]
<1>1. n \in Nat
  BY FS_CardinalityType
<1>2. ASSUME NEW r \in S PROVE f[r] \in 0 .. n - 1
  <2>1. IsFiniteSet(Below(r)) /\ Cardinality(Below(r)) <= n
        /\ (n = Cardinality(Below(r)) => S = Below(r))
    BY FS_Subset
  <2>2. r \notin Below(r)
    BY DEF Linear
  <2>3. Cardinality(Below(r)) \in Nat
    BY <2>1, FS_CardinalityType
  <2> QED
    BY <1>1, <2>1, <2>2, <2>3
<1>3. ASSUME NEW r \in S, NEW s \in S, <<r, s>> \in less PROVE f[r] < f[s]
  <2>1. Below(r) \subseteq Below(s) /\ r \in Below(s) /\ r \notin Below(r)
    BY <1>3 DEF Linear
  <2>2. IsFiniteSet(Below(s))
    BY FS_Subset
  <2> HIDE DEF Below
  <2>3. Cardinality(Below(r)) <= Cardinality(Below(s))
        /\ Cardinality(Below(r)) # Cardinality(Below(s))
    BY <2>1, <2>2, FS_Subset
  <2> QED
    BY <1>2, <2>3
<1>4. \A r, s \in S : f[r] = f[s] => r = s
  <2> SUFFICES ASSUME NEW r \in S, NEW s \in S, f[r] = f[s] PROVE r = s
    OBVIOUS
  <2>1. f[r] \in Nat /\ f[s] \in Nat
    BY <1>1, <1>2
  <2>2. r = s \/ <<r, s>> \in less \/ <<s, r>> \in less
    BY DEF Linear
  <2> HIDE DEF f
  <2> QED
    BY <1>3, <2>1, <2>2
<1>5. IsFiniteSet(0 .. n - 1) /\ Cardinality(0 .. n - 1) = n
  BY <1>1, FS_Interval
<1>6. f \in Injection(S, 0 .. n - 1)
  BY <1>2, <1>4 DEF Injection, IsInjective
<1>7. f \in Surjection(S, 0 .. n - 1)
  <2> HIDE DEF f
  <2> QED
    BY <1>5, <1>6, FS_Injection
<1>8. \A i \in 1 .. n : \E r \in S : f[r] = i - 1
  <2>1. \A j \in 0 .. n - 1 : \E r \in S : f[r] = j
    BY <1>7 DEF Surjection
  <2>2. \A i \in 1 .. n : i - 1 \in 0 .. n - 1
    BY <1>1
  <2> HIDE DEF f
  <2> QED
    BY <2>1, <2>2
<1> DEFINE seq == Sorted(S, less)
<1> DEFINE At(i) == CHOOSE r \in S : Cardinality({s \in S : <<s, r>> \in less}) = i - 1
<1>9. seq = [i \in 1 .. n |-> At(i)]
  BY DEF Sorted
<1>10. ASSUME NEW i \in 1 .. n PROVE seq[i] \in S /\ f[seq[i]] = i - 1
  <2>1. \E r \in S : Cardinality({s \in S : <<s, r>> \in less}) = i - 1
    BY <1>8
  <2>2. At(i) \in S /\ Cardinality({s \in S : <<s, At(i)>> \in less}) = i - 1
    BY <2>1
  <2>3. seq[i] = At(i)
    <3> HIDE DEF seq, At
    <3> QED
      BY <1>9
  <2> HIDE DEF seq, At
  <2> QED
    BY <2>2, <2>3
<1>11. seq \in [1 .. n -> S]
  <2> HIDE DEF f, n
  <2> HIDE DEF seq, At
  <2> QED
    BY <1>9, <1>10
<1>12. \A r \in S : \E i \in 1 .. n : seq[i] = r
  <2> SUFFICES ASSUME NEW r \in S PROVE \E i \in 1 .. n : seq[i] = r
    OBVIOUS
  <2>1. PICK i \in 1 .. n : i - 1 = f[r]
    <3>1. f[r] + 1 \in 1 .. n /\ (f[r] + 1) - 1 = f[r]
      BY <1>1, <1>2
    <3> QED
      BY <3>1
  <2>2. seq[i] \in S /\ f[seq[i]] = f[r]
    BY <1>10, <2>1
  <2> HIDE DEF f, seq
  <2> QED
    BY <1>4, <2>2
<1>13. \A i, j \in 1 .. n : seq[i] = seq[j] => i = j
  <2> SUFFICES ASSUME NEW i \in 1 .. n, NEW j \in 1 .. n, seq[i] = seq[j] PROVE i = j
    OBVIOUS
  <2>1. i - 1 = j - 1
    BY <1>10
  <2> QED
    BY <1>1, <2>1
<1> QED
  BY <1>1, <1>11, <1>12, <1>13

LEMMA PickedFacts ==
  ASSUME NEW k, Len(Bucket(k)) \in Nat
  PROVE  \E picked :
           /\ Selectable(k) = picked[Len(Bucket(k))]
           /\ picked[0] = <<>>
           /\ \A i \in 1 .. Len(Bucket(k)) :
                picked[i] = IF Len(picked[i - 1]) < BatchSize
                                 /\ HasQuota(Bucket(k)[i], picked[i - 1])
                            THEN Append(picked[i - 1], Bucket(k)[i])
                            ELSE picked[i - 1]
<1> DEFINE bucket == Bucket(k)
           N == Len(bucket)
           Grow(i, p) == IF Len(p) < BatchSize /\ HasQuota(bucket[i], p)
                         THEN Append(p, bucket[i]) ELSE p
           Fix(n, f) == f = [i \in 0 .. n |-> IF i = 0 THEN <<>> ELSE Grow(i, f[i - 1])]
           T == {n \in Nat : \E f : Fix(n, f)}
<1>1. 0 \in T
  <2> HIDE DEF Grow
  <2>1. Fix(0, [i \in 0 .. 0 |-> <<>>])
    OBVIOUS
  <2> QED
    BY <2>1
<1>2. ASSUME NEW n \in T PROVE n + 1 \in T
  <2> HIDE DEF Grow
  <2>1. PICK f : Fix(n, f)
    OBVIOUS
  <2> DEFINE g == [i \in 0 .. n + 1 |-> IF i = n + 1 THEN Grow(i, f[n]) ELSE f[i]]
  <2>2. \A i \in 0 .. n + 1 : g[i] = IF i = 0 THEN <<>> ELSE Grow(i, g[i - 1])
    <3> SUFFICES ASSUME NEW i \in 0 .. n + 1
                 PROVE  g[i] = IF i = 0 THEN <<>> ELSE Grow(i, g[i - 1])
      OBVIOUS
    <3>1. CASE i = n + 1
      <4>1. i - 1 = n /\ n \in 0 .. n + 1 /\ n # n + 1 /\ i # 0
        BY <3>1
      <4>2. g[n] = f[n]
        BY <4>1
      <4> QED
        BY <3>1, <4>1, <4>2
    <3>2. CASE i # n + 1
      <4>1. i \in 0 .. n /\ g[i] = f[i]
        BY <3>2
      <4>2. i # 0 => i - 1 \in 0 .. n /\ i - 1 # n + 1 /\ i - 1 \in 0 .. n + 1
        BY <4>1
      <4>3. i # 0 => g[i - 1] = f[i - 1]
        BY <4>2
      <4>4. f[i] = IF i = 0 THEN <<>> ELSE Grow(i, f[i - 1])
        BY <2>1, <4>1
      <4> HIDE DEF g
      <4> QED
        BY <4>1, <4>3, <4>4
    <3> QED
      BY <3>1, <3>2
  <2>3. g = [i \in 0 .. n + 1 |-> g[i]]
    OBVIOUS
  <2>4. Fix(n + 1, g)
    <3> HIDE DEF g
    <3> QED
      BY <2>2, <2>3
  <2> HIDE DEF g, Fix
  <2> QED
    BY <2>4
<1>3. \E f : Fix(N, f)
  <2>1. T = Nat
    <3> HIDE DEF Fix
    <3>1. T \subseteq Nat
      OBVIOUS
    <3> HIDE DEF T
    <3> QED
      BY <1>1, <1>2, <3>1, NatSet
  <2> QED
    BY <2>1
<1> DEFINE picked == CHOOSE f : Fix(N, f)
<1>4. Fix(N, picked)
  <2> HIDE DEF Fix
  <2> QED
    BY <1>3
<1>5. Selectable(k) = picked[N]
  BY DEF Selectable
<1> HIDE DEF picked
<1>6. picked[0] = <<>> /\ \A i \in 1 .. N : picked[i] = Grow(i, picked[i - 1])
  <2> HIDE DEF Grow
  <2> QED
    BY <1>4
<1> QED
  BY <1>5, <1>6

\* No element of s appears twice.
Distinct(s) == \A i, j \in DOMAIN s : s[i] = s[j] => i = j

LEMMA SeqSet ==
  ASSUME NEW S, NEW s \in Seq(S)
  PROVE  /\ IsFiniteSet(ToSet(s)) /\ ToSet(s) \subseteq S
         /\ Cardinality(ToSet(s)) <= Len(s)
         /\ Distinct(s) => Cardinality(ToSet(s)) = Len(s)
<1>1. IsFiniteSet(1 .. Len(s)) /\ Cardinality(1 .. Len(s)) = Len(s)
  <2> DEFINE n == Len(s)
  <2>1. n \in Nat /\ n \in Int /\ 1 \in Int
    OBVIOUS
  <2> HIDE DEF n
  <2>2. IsFiniteSet(1 .. n) /\ Cardinality(1 .. n) = IF 1 > n THEN 0 ELSE n - 1 + 1
    BY <2>1, FS_Interval
  <2>3. Cardinality(1 .. n) = n
    BY <2>1, <2>2
  <2> QED
    BY <2>2, <2>3 DEF n
<1>2. s \in [1 .. Len(s) -> ToSet(s)] /\ s \in Surjection(1 .. Len(s), ToSet(s))
  BY DEF ToSet, Surjection
<1>3. Distinct(s) => s \in Injection(1 .. Len(s), ToSet(s))
  BY <1>2 DEF Distinct, Injection, IsInjective
<1>4. /\ IsFiniteSet(ToSet(s)) /\ Cardinality(ToSet(s)) <= Len(s)
      /\ Cardinality(ToSet(s)) = Len(s) <=> s \in Injection(1 .. Len(s), ToSet(s))
  BY <1>1, <1>2, FS_Surjection
<1> QED
  BY <1>3, <1>4 DEF ToSet

LEMMA PosFacts ==
  ASSUME queue \in Seq(Requests), NEW r \in ToSet(queue)
  PROVE  Pos(r) \in 1 .. Len(queue) /\ queue[Pos(r)] = r /\ Rank[r] \in Nat
<1>1. \E i \in DOMAIN queue : queue[i] = r
  BY DEF ToSet
<1>2. r \in Requests
  BY DEF ToSet
<1> QED
  BY <1>1, <1>2, RankAssumption DEF Pos

LEMMA BucketFacts ==
  ASSUME queue \in Seq(Requests), NEW k
  PROVE  /\ Bucket(k) \in Seq(Requests) /\ Distinct(Bucket(k))
         /\ ToSet(Bucket(k)) \subseteq ToSet(queue)
<1> DEFINE members == {r \in ToSet(queue) : KeyOf[r] = k}
           less == {p \in members \X members : Before(p[1], p[2])}
<1>1. Bucket(k) = Sorted(members, less)
  BY DEF Bucket
<1>2. Linear(members, less)
  <2> SUFFICES ASSUME NEW r \in members, NEW s \in members, NEW t \in members
               PROVE  /\ <<r, r>> \notin less
                      /\ <<r, s>> \in less /\ <<s, t>> \in less => <<r, t>> \in less
                      /\ r = s \/ <<r, s>> \in less \/ <<s, r>> \in less
    BY DEF Linear
  <2>1. /\ Pos(r) \in Nat /\ Pos(s) \in Nat /\ Pos(t) \in Nat
        /\ Rank[r] \in Nat /\ Rank[s] \in Nat /\ Rank[t] \in Nat
        /\ Pos(r) = Pos(s) => r = s
    BY PosFacts
  <2>2. \A x, y \in members : <<x, y>> \in less <=> Before(x, y)
    OBVIOUS
  <2>3. ~Before(r, r) /\ (Before(r, s) /\ Before(s, t) => Before(r, t))
        /\ (r = s \/ Before(r, s) \/ Before(s, r))
    BY <2>1 DEF Before
  <2> HIDE DEF less
  <2> QED
    BY <2>2, <2>3
<1>3. IsFiniteSet(members) /\ members \subseteq Requests /\ members \subseteq ToSet(queue)
  BY SeqSet, FS_Subset
<1> HIDE DEF members, less
<1>4. /\ Cardinality(members) \in Nat
      /\ Sorted(members, less) \in [1 .. Cardinality(members) -> members]
      /\ \A i, j \in 1 .. Cardinality(members) :
           Sorted(members, less)[i] = Sorted(members, less)[j] => i = j
  BY <1>2, <1>3, SortedFacts
<1> QED
  BY <1>1, <1>3, <1>4 DEF Distinct, ToSet

LEMMA WithoutFacts ==
  ASSUME queue \in Seq(Requests), NEW items
  PROVE  /\ QueueWithout(items) \in Seq(Requests) /\ Distinct(QueueWithout(items))
         /\ ToSet(QueueWithout(items)) = ToSet(queue) \ ToSet(items)
<1> DEFINE rest == ToSet(queue) \ ToSet(items)
           less == {p \in rest \X rest : Pos(p[1]) < Pos(p[2])}
<1>1. QueueWithout(items) = Sorted(rest, less)
  BY DEF QueueWithout
<1>2. Linear(rest, less)
  <2> SUFFICES ASSUME NEW r \in rest, NEW s \in rest, NEW t \in rest
               PROVE  /\ <<r, r>> \notin less
                      /\ <<r, s>> \in less /\ <<s, t>> \in less => <<r, t>> \in less
                      /\ r = s \/ <<r, s>> \in less \/ <<s, r>> \in less
    BY DEF Linear
  <2>1. /\ Pos(r) \in Nat /\ Pos(s) \in Nat /\ Pos(t) \in Nat
        /\ Pos(r) = Pos(s) => r = s
    BY PosFacts
  <2>2. \A x, y \in rest : <<x, y>> \in less <=> Pos(x) < Pos(y)
    OBVIOUS
  <2> HIDE DEF less
  <2> QED
    BY <2>1, <2>2
<1>3. IsFiniteSet(rest) /\ rest \subseteq Requests
  BY SeqSet, FS_Subset
<1> HIDE DEF less, rest
<1>4. /\ Cardinality(rest) \in Nat
      /\ Sorted(rest, less) \in [1 .. Cardinality(rest) -> rest]
      /\ \A r \in rest : \E i \in 1 .. Cardinality(rest) : Sorted(rest, less)[i] = r
      /\ \A i, j \in 1 .. Cardinality(rest) : Sorted(rest, less)[i] = Sorted(rest, less)[j] => i = j
  BY <1>2, <1>3, SortedFacts
<1>5. ToSet(QueueWithout(items)) = rest
  BY <1>1, <1>4 DEF ToSet
<1>6. QueueWithout(items) \in Seq(Requests) /\ Distinct(QueueWithout(items))
  BY <1>1, <1>3, <1>4 DEF Distinct
<1> QED
  BY <1>5, <1>6 DEF rest

Count(S, f, a) == Cardinality({r \in S : f[r] = a})

LEMMA CountFacts ==
  ASSUME NEW S, IsFiniteSet(S), NEW f, NEW a
  PROVE  /\ Count(S, f, a) \in Nat
         /\ \A r : r \notin S => Count(S \cup {r}, f, a) =
                                  IF f[r] = a THEN Count(S, f, a) + 1 ELSE Count(S, f, a)
<1> DEFINE Of(U) == {x \in U : f[x] = a}
<1>1. IsFiniteSet(Of(S))
  BY FS_Subset
<1>2. Cardinality(Of(S)) \in Nat
  BY <1>1, FS_CardinalityType
<1>3. ASSUME NEW r, r \notin S
      PROVE  Cardinality(Of(S \cup {r})) =
               IF f[r] = a THEN Cardinality(Of(S)) + 1 ELSE Cardinality(Of(S))
  <2>1. CASE f[r] = a
    <3>1. Of(S \cup {r}) = Of(S) \cup {r} /\ r \notin Of(S)
      BY <1>3, <2>1
    <3>2. Cardinality(Of(S) \cup {r}) = IF r \in Of(S) THEN Cardinality(Of(S)) ELSE Cardinality(Of(S)) + 1
      <4> HIDE DEF Of
      <4> QED
        BY <1>1, FS_AddElement
    <3> HIDE DEF Of
    <3> QED
      BY <2>1, <3>1, <3>2
  <2>2. CASE f[r] # a
    <3>1. Of(S \cup {r}) = Of(S)
      BY <2>2
    <3> HIDE DEF Of
    <3> QED
      BY <2>2, <3>1
  <2> QED
    BY <2>1, <2>2
<1> QED
  BY <1>2, <1>3 DEF Count

\* Disjoint sets are counted apart.
LEMMA CountUnion ==
  ASSUME NEW S, NEW U, IsFiniteSet(S), IsFiniteSet(U), S \cap U = {}, NEW f, NEW a
  PROVE  Count(S \cup U, f, a) = Count(S, f, a) + Count(U, f, a)
<1> DEFINE Of(V) == {x \in V : f[x] = a}
<1>1. IsFiniteSet(Of(S)) /\ IsFiniteSet(Of(U))
  BY FS_Subset
<1>2. Of(S \cup U) = Of(S) \cup Of(U) /\ Of(S) \cap Of(U) = {}
  OBVIOUS
<1>3. Cardinality(Of(S)) \in Nat /\ Cardinality(Of(U)) \in Nat
  BY <1>1, FS_CardinalityType
<1>4. Cardinality(Of(S) \cup Of(U)) = Cardinality(Of(S)) + Cardinality(Of(U)) - Cardinality({})
  <2> HIDE DEF Of
  <2> QED
    BY <1>1, <1>2, FS_Union
<1>5. Cardinality(Of(S \cup U)) = Cardinality(Of(S)) + Cardinality(Of(U))
  <2>1. Cardinality({}) = 0
    BY FS_EmptySet
  <2>2. Cardinality(Of(S)) + Cardinality(Of(U)) - 0 = Cardinality(Of(S)) + Cardinality(Of(U))
    BY <1>3
  <2>3. Cardinality(Of(S \cup U)) = Cardinality(Of(S) \cup Of(U))
    BY <1>2
  <2> HIDE DEF Of
  <2> QED
    BY <1>4, <2>1, <2>2, <2>3
<1> QED
  BY <1>5 DEF Count

Within(p) ==
  /\ \A a \in Apps : inApp[a] + Count(ToSet(p), AppOf, a) <= MaxPerApp
  /\ \A s \in Sessions : inSession[s] + Count(ToSet(p), SessionOf, s) <= MaxPerSession

LEMMA AppendFacts ==
  ASSUME NEW p \in Seq(Requests), NEW r \in Requests
  PROVE  /\ Append(p, r) \in Seq(Requests) /\ ToSet(Append(p, r)) = ToSet(p) \cup {r}
         /\ Distinct(p) /\ r \notin ToSet(p) => Distinct(Append(p, r))
<1>1. /\ Len(Append(p, r)) = Len(p) + 1 /\ Append(p, r)[Len(p) + 1] = r
      /\ \A i \in 1 .. Len(p) : Append(p, r)[i] = p[i]
      /\ DOMAIN Append(p, r) = 1 .. Len(p) + 1 /\ DOMAIN p = 1 .. Len(p)
      /\ Len(p) \in Nat /\ Append(p, r) \in Seq(Requests)
  OBVIOUS
<1>2. ToSet(Append(p, r)) = ToSet(p) \cup {r}
  BY <1>1 DEF ToSet
<1>3. Distinct(p) /\ r \notin ToSet(p) => Distinct(Append(p, r))
  BY <1>1 DEF ToSet, Distinct
<1> QED
  BY <1>1, <1>2, <1>3

LEMMA GrowFacts ==
  ASSUME ServiceTypeOK, NEW p \in Seq(Requests), Within(p), NEW r \in Requests, r \notin ToSet(p),
         HasQuota(r, p)
  PROVE  Within(Append(p, r))
<1>1. IsFiniteSet(ToSet(p)) /\ ToSet(Append(p, r)) = ToSet(p) \cup {r}
  BY SeqSet, AppendFacts
<1>2. /\ inApp[AppOf[r]] + Count(ToSet(p), AppOf, AppOf[r]) < MaxPerApp
      /\ inSession[SessionOf[r]] + Count(ToSet(p), SessionOf, SessionOf[r]) < MaxPerSession
  BY DEF HasQuota, Count
<1>3. MaxPerApp \in Nat /\ MaxPerSession \in Nat
  BY SizeAssumption
<1>4. ASSUME NEW a \in Apps
      PROVE  inApp[a] + Count(ToSet(p) \cup {r}, AppOf, a) <= MaxPerApp
  <2>1. /\ inApp[a] \in Nat /\ Count(ToSet(p), AppOf, a) \in Nat
        /\ inApp[a] + Count(ToSet(p), AppOf, a) <= MaxPerApp
    BY <1>1, CountFacts DEF ServiceTypeOK, Within
  <2>2. Count(ToSet(p) \cup {r}, AppOf, a) =
          IF AppOf[r] = a THEN Count(ToSet(p), AppOf, a) + 1 ELSE Count(ToSet(p), AppOf, a)
    BY <1>1, CountFacts
  <2> QED
    BY <1>2, <1>3, <2>1, <2>2
<1>5. ASSUME NEW s \in Sessions
      PROVE  inSession[s] + Count(ToSet(p) \cup {r}, SessionOf, s) <= MaxPerSession
  <2>1. /\ inSession[s] \in Nat /\ Count(ToSet(p), SessionOf, s) \in Nat
        /\ inSession[s] + Count(ToSet(p), SessionOf, s) <= MaxPerSession
    BY <1>1, CountFacts DEF ServiceTypeOK, Within
  <2>2. Count(ToSet(p) \cup {r}, SessionOf, s) =
          IF SessionOf[r] = s THEN Count(ToSet(p), SessionOf, s) + 1 ELSE Count(ToSet(p), SessionOf, s)
    BY <1>1, CountFacts
  <2> QED
    BY <1>2, <1>3, <2>1, <2>2
<1> QED
  BY <1>1, <1>4, <1>5 DEF Within

LEMMA SelectableFacts ==
  ASSUME ServiceTypeOK, NEW k
  PROVE  /\ Selectable(k) \in Seq(Requests) /\ Distinct(Selectable(k))
         /\ ToSet(Selectable(k)) \subseteq ToSet(queue)
         /\ Within(Selectable(k))
<1> DEFINE bucket == Bucket(k)
           N == Len(bucket)
<1>1. bucket \in Seq(Requests) /\ Distinct(bucket) /\ ToSet(bucket) \subseteq ToSet(queue)
  BY BucketFacts DEF ServiceTypeOK
<1>2. N \in Nat
  BY <1>1
<1>3. PICK picked :
        /\ Selectable(k) = picked[N]
        /\ picked[0] = <<>>
        /\ \A i \in 1 .. N :
             picked[i] = IF Len(picked[i - 1]) < BatchSize /\ HasQuota(bucket[i], picked[i - 1])
                         THEN Append(picked[i - 1], bucket[i])
                         ELSE picked[i - 1]
  BY <1>2, PickedFacts
<1> HIDE DEF bucket
<1> DEFINE Good(n) == /\ picked[n] \in Seq(Requests) /\ Distinct(picked[n]) /\ Within(picked[n])
                      /\ ToSet(picked[n]) \subseteq {bucket[j] : j \in 1 .. n}
           T == {n \in Nat : n <= N => Good(n)}
<1>4. 0 \in T
  <2>1. <<>> \in Seq(Requests) /\ Distinct(<<>>) /\ ToSet(<<>>) = {}
    BY DEF Distinct, ToSet
  <2>2. \A f, a : Count({}, f, a) = 0
    BY FS_EmptySet DEF Count
  <2>3. /\ \A a \in Apps : inApp[a] \in 0 .. MaxPerApp
        /\ \A s \in Sessions : inSession[s] \in 0 .. MaxPerSession
    BY DEF ServiceTypeOK
  <2>4. MaxPerApp \in Nat /\ MaxPerSession \in Nat
    BY SizeAssumption
  <2>5. ASSUME NEW a \in Apps PROVE inApp[a] + Count(ToSet(<<>>), AppOf, a) <= MaxPerApp
    <3>1. Count(ToSet(<<>>), AppOf, a) = 0
      BY <2>1, <2>2
    <3> QED
      BY <2>3, <2>4, <3>1
  <2>6. ASSUME NEW s \in Sessions
        PROVE  inSession[s] + Count(ToSet(<<>>), SessionOf, s) <= MaxPerSession
    <3>1. Count(ToSet(<<>>), SessionOf, s) = 0
      BY <2>1, <2>2
    <3> QED
      BY <2>3, <2>4, <3>1
  <2>7. Within(<<>>)
    BY <2>5, <2>6 DEF Within
  <2> QED
    BY <1>3, <2>1, <2>7
<1>5. ASSUME NEW n \in T PROVE n + 1 \in T
  <2> SUFFICES ASSUME n + 1 <= N PROVE Good(n + 1)
    OBVIOUS
  <2>1. n \in Nat /\ n <= N /\ n + 1 \in 1 .. N /\ (n + 1) - 1 = n
    BY <1>2
  <2>2. Good(n)
    BY <2>1
  <2> DEFINE p == picked[n]
             r == bucket[n + 1]
  <2>3. picked[n + 1] = IF Len(p) < BatchSize /\ HasQuota(r, p) THEN Append(p, r) ELSE p
    BY <1>3, <2>1
  <2>4. r \in Requests
    BY <1>1, <2>1
  <2>5. r \notin ToSet(p)
    <3>1. \A j \in 1 .. n : j \in DOMAIN bucket /\ n + 1 \in DOMAIN bucket /\ j # n + 1
      BY <1>1, <1>2, <2>1
    <3> QED
      BY <1>1, <2>2, <3>1 DEF Distinct
  <2>6. {bucket[j] : j \in 1 .. n} \cup {r} \subseteq {bucket[j] : j \in 1 .. n + 1}
    <3>1. n + 1 \in 1 .. n + 1 /\ \A j \in 1 .. n : j \in 1 .. n + 1
      BY <2>1
    <3> HIDE DEF T
    <3> QED
      BY <3>1
  <2>7. CASE Len(p) < BatchSize /\ HasQuota(r, p)
    <3>1. picked[n + 1] = Append(p, r)
      BY <2>3, <2>7
    <3>2. Append(p, r) \in Seq(Requests) /\ ToSet(Append(p, r)) = ToSet(p) \cup {r}
          /\ Distinct(Append(p, r)) /\ Within(Append(p, r))
      BY <2>2, <2>4, <2>5, <2>7, AppendFacts, GrowFacts
    <3> QED
      BY <2>2, <2>6, <3>1, <3>2
  <2>8. CASE ~(Len(p) < BatchSize /\ HasQuota(r, p))
    BY <2>2, <2>3, <2>6, <2>8
  <2> QED
    BY <2>7, <2>8
<1>6. T = Nat
  <2>1. T \subseteq Nat
    OBVIOUS
  <2> HIDE DEF T
  <2> QED
    BY <1>4, <1>5, <2>1, NatSet
<1>7. Good(N)
  <2>1. N \in T /\ N <= N
    <3> HIDE DEF T
    <3> QED
      BY <1>2, <1>6
  <2> HIDE DEF Good
  <2> QED
    BY <2>1
<1>8. {bucket[j] : j \in 1 .. N} \subseteq ToSet(bucket)
  BY <1>1 DEF ToSet
<1> QED
  BY <1>1, <1>3, <1>7, <1>8

\* A request is in one place: the channel, the queue or one batch.
Placed ==
  /\ Distinct(channel) /\ Distinct(queue)
  /\ ToSet(channel) \cap ToSet(queue) = {}
  /\ (ToSet(channel) \cup ToSet(queue)) \cap InBatch = {}
  /\ \A r \in ToSet(channel) \cup ToSet(queue) \cup InBatch : call[r] # "new"

\* Batches are disjoint, and none is empty.
Batched ==
  /\ IsFiniteSet(InBatch)
  /\ \A b \in batches : b.items # <<>> /\ Distinct(b.items)
  /\ \A b, c \in batches : b # c => Members(b) \cap Members(c) = {}

\* The receive loop takes from the channel only below the high watermark.
Watermark == receiver = "get" => Len(queue) < MaxDepth

ServiceInductive == SchedulerInv /\ OneVersion /\ Placed /\ Batched /\ Watermark

LEMMA Sizes ==
  /\ BatchSize \in Nat /\ MaxConcurrent \in Nat /\ MaxDepth \in Nat /\ MaxPerApp \in Nat
  /\ MaxPerSession \in Nat /\ ChannelSize \in Nat /\ ResponseSize \in Nat /\ MaxUpdates \in Nat
  /\ MaxDepth > 0
  BY SizeAssumption, RankAssumption

LEMMA EmptyFacts ==
  /\ ToSet(<<>>) = {} /\ Distinct(<<>>) /\ Cardinality({}) = 0 /\ IsFiniteSet({})
  BY FS_EmptySet DEF ToSet, Distinct

LEMMA ServiceInitInductive == ServiceInit => ServiceInductive
<1> SUFFICES ASSUME ServiceInit PROVE ServiceInductive
  OBVIOUS
<1> USE DEF ServiceInit
<1>1. InBatch = {}
  BY DEF InBatch
<1>2. ServiceTypeOK
  <2>1. <<>> \in Seq(Requests) /\ <<>> \in Seq(Requests \X Answers) /\ Len(<<>>) = 0
    OBVIOUS
  <2>2. /\ call \in [Requests -> {"new", "waiting", "full", "cancelled"} \cup Answers]
        /\ inApp \in [Apps -> 0 .. MaxPerApp] /\ inSession \in [Sessions -> 0 .. MaxPerSession]
    BY Sizes
  <2>3. Len(<<>>) <= ChannelSize /\ Len(<<>>) <= ResponseSize /\ Len(<<>>) <= MaxDepth
        /\ MaxConcurrent \in 0 .. MaxConcurrent /\ 0 \in 0 .. MaxUpdates
    BY <2>1, Sizes
  <2> QED
    BY <2>1, <2>2, <2>3 DEF ServiceTypeOK
<1>3. SlotsConserved
  BY <1>1, Sizes, EmptyFacts DEF SlotsConserved
<1>4. QuotaExact
  BY <1>1, Sizes, EmptyFacts DEF QuotaExact
<1>5. NoLostWakeUp /\ OneVersion
  BY DEF NoLostWakeUp, OneVersion
<1>6. Placed /\ Batched /\ Watermark
  BY <1>1, EmptyFacts DEF Placed, Batched, Watermark
<1> QED
  BY <1>2, <1>3, <1>4, <1>5, <1>6 DEF ServiceInductive, SchedulerInv

\* What a step that leaves the queue, the batches and the books alone keeps.
LEMMA BooksKept ==
  ASSUME ServiceInductive, UNCHANGED <<queue, inApp, inSession, inTotal, batches, version>>,
         slots' + (IF receiver' = "get" THEN 1 ELSE 0) = slots + (IF receiver = "get" THEN 1 ELSE 0)
  PROVE  SlotsConserved' /\ QuotaExact' /\ OneVersion' /\ Batched' /\ InBatch' = InBatch
<1>1. InBatch' = InBatch
  BY DEF InBatch
<1>2. SlotsConserved'
  BY <1>1 DEF ServiceInductive, SchedulerInv, SlotsConserved
<1>3. QuotaExact' /\ OneVersion' /\ Batched'
  BY <1>1 DEF ServiceInductive, SchedulerInv, QuotaExact, OneVersion, Batched
<1> QED
  BY <1>1, <1>2, <1>3

LEMMA WakeKept ==
  ASSUME ServiceInductive, UNCHANGED <<queue, inApp, inSession, inTotal, fence, loop, wake>>
  PROVE  NoLostWakeUp'
<1>1. ASSUME NEW k PROVE Selectable(k)' = Selectable(k)
  BY DEF Selectable, Bucket, Sorted, Before, Pos, HasQuota
<1>2. SomethingSelectable' = SomethingSelectable
  BY <1>1 DEF SomethingSelectable, Fenced
<1> QED
  BY <1>2 DEF ServiceInductive, SchedulerInv, NoLostWakeUp

LEMMA SubmitStep ==
  ASSUME ServiceInductive, NEW r \in Requests, Submit(r) PROVE ServiceInductive'
<1>1. SlotsConserved' /\ QuotaExact' /\ OneVersion' /\ Batched' /\ InBatch' = InBatch
  BY BooksKept DEF Submit, schedVars, updateVars
<1>2. NoLostWakeUp'
  BY WakeKept DEF Submit, schedVars, updateVars, loopVars
<1>3. call' \in [Requests -> {"new", "waiting", "full", "cancelled"} \cup Answers]
      /\ \A q \in Requests : call'[q] # "new" <=> (q = r \/ call[q] # "new")
  BY DEF Submit, ServiceInductive, SchedulerInv, ServiceTypeOK
<1>4. channel' \in Seq(Requests) /\ Len(channel') <= ChannelSize
  <2>1. channel \in Seq(Requests) /\ Len(channel) <= ChannelSize /\ Len(channel) \in Nat
    BY DEF ServiceInductive, SchedulerInv, ServiceTypeOK
  <2>2. Append(channel, r) \in Seq(Requests) /\ Len(Append(channel, r)) = Len(channel) + 1
    BY <2>1
  <2> QED
    BY <2>1, <2>2, Sizes DEF Submit
<1>5. ServiceTypeOK'
  BY <1>3, <1>4 DEF Submit, ServiceInductive, SchedulerInv, ServiceTypeOK, schedVars, loopVars, updateVars
<1>6. r \notin ToSet(channel) \cup ToSet(queue) \cup InBatch
  BY DEF Submit, ServiceInductive, Placed
<1>7. Placed'
  <2>1. channel \in Seq(Requests) /\ queue' = queue
    BY DEF Submit, ServiceInductive, SchedulerInv, ServiceTypeOK, schedVars
  <2>2. Distinct(channel') /\ ToSet(channel') \subseteq ToSet(channel) \cup {r}
    <3>1. CASE channel' = channel
      BY <3>1 DEF ServiceInductive, Placed
    <3>2. CASE channel' = Append(channel, r)
      BY <1>6, <2>1, <3>2, AppendFacts DEF ServiceInductive, Placed
    <3> QED
      BY <3>1, <3>2 DEF Submit
  <2>3. ToSet(channel') \subseteq Requests /\ ToSet(queue) \subseteq Requests
    BY <1>5, SeqSet DEF ServiceTypeOK, ServiceInductive, SchedulerInv
  <2>4. InBatch \subseteq Requests
    BY DEF InBatch, Members, ToSet, ServiceInductive, SchedulerInv, ServiceTypeOK
  <2> QED
    BY <1>1, <1>3, <1>6, <2>1, <2>2, <2>3, <2>4 DEF ServiceInductive, Placed
<1> QED
  BY <1>1, <1>2, <1>5, <1>7 DEF ServiceInductive, SchedulerInv, Watermark, Submit, schedVars

LEMMA ClientStep ==
  ASSUME ServiceInductive, Deliver \/ \E r \in Requests : Cancel(r) PROVE ServiceInductive'
<1>1. SlotsConserved' /\ QuotaExact' /\ OneVersion' /\ Batched' /\ InBatch' = InBatch
  BY BooksKept DEF Deliver, Cancel, schedVars, updateVars
<1>2. NoLostWakeUp'
  BY WakeKept DEF Deliver, Cancel, schedVars, updateVars, loopVars
<1>3. call' \in [Requests -> {"new", "waiting", "full", "cancelled"} \cup Answers]
      /\ \A q \in Requests : call[q] # "new" => call'[q] # "new"
  <2>1. CASE Deliver
    <3>1. Head(responses) \in Requests \X Answers
      BY <2>1 DEF Deliver, ServiceInductive, SchedulerInv, ServiceTypeOK
    <3> QED
      BY <2>1, <3>1 DEF Deliver, ServiceInductive, SchedulerInv, ServiceTypeOK, Answers
  <2>2. CASE \E r \in Requests : Cancel(r)
    BY <2>2 DEF Cancel, ServiceInductive, SchedulerInv, ServiceTypeOK
  <2> QED
    BY <2>1, <2>2
<1>4. responses' \in Seq(Requests \X Answers) /\ Len(responses') <= ResponseSize
  <2>1. CASE Deliver
    BY <2>1, Sizes DEF Deliver, ServiceInductive, SchedulerInv, ServiceTypeOK
  <2>2. CASE \E r \in Requests : Cancel(r)
    BY <2>2 DEF Cancel, ServiceInductive, SchedulerInv, ServiceTypeOK
  <2> QED
    BY <2>1, <2>2
<1>5. UNCHANGED <<channel, dropped, receiver, slots, schedVars, loopVars, updateVars>>
  BY DEF Deliver, Cancel
<1>6. ServiceTypeOK'
  BY <1>3, <1>4, <1>5 DEF ServiceInductive, SchedulerInv, ServiceTypeOK, schedVars, loopVars, updateVars
<1>7. Placed'
  <2>1. ToSet(channel) \cup ToSet(queue) \cup InBatch \subseteq Requests
    BY SeqSet DEF InBatch, Members, ToSet, ServiceInductive, SchedulerInv, ServiceTypeOK
  <2> QED
    BY <1>1, <1>3, <1>5, <2>1 DEF ServiceInductive, Placed, schedVars
<1> QED
  BY <1>1, <1>2, <1>5, <1>6, <1>7 DEF ServiceInductive, SchedulerInv, Watermark, schedVars

LEMMA PermitStep ==
  ASSUME ServiceInductive, ReceiveAcquire \/ ReceiveFails PROVE ServiceInductive'
<1>1. UNCHANGED <<clientVars, schedVars, loopVars, updateVars>>
  BY DEF ReceiveAcquire, ReceiveFails
<1>2. slots \in 0 .. MaxConcurrent /\ slots + (IF receiver = "get" THEN 1 ELSE 0) <= MaxConcurrent
  <2>1. Len(queue) \in Nat /\ Cardinality(InBatch) \in Nat /\ slots \in 0 .. MaxConcurrent
    BY FS_CardinalityType DEF ServiceInductive, SchedulerInv, ServiceTypeOK, Batched
  <2> QED
    BY <2>1, Sizes DEF ServiceInductive, SchedulerInv, SlotsConserved
<1>3. /\ slots' + (IF receiver' = "get" THEN 1 ELSE 0) = slots + (IF receiver = "get" THEN 1 ELSE 0)
      /\ slots' \in 0 .. MaxConcurrent /\ receiver' \in {"acquire", "get"}
  BY <1>2, Sizes DEF ReceiveAcquire, ReceiveFails
<1>4. SlotsConserved' /\ QuotaExact' /\ OneVersion' /\ Batched' /\ InBatch' = InBatch
  BY <1>1, <1>3, BooksKept DEF schedVars, updateVars
<1>5. NoLostWakeUp'
  BY <1>1, WakeKept DEF schedVars, updateVars, loopVars
<1>6. ServiceTypeOK' /\ Placed'
  BY <1>1, <1>3, <1>4
     DEF ServiceInductive, SchedulerInv, ServiceTypeOK, Placed, clientVars, schedVars, loopVars, updateVars
<1>7. Watermark'
  BY <1>1 DEF ReceiveAcquire, ReceiveFails, Watermark, schedVars
<1> QED
  BY <1>4, <1>5, <1>6, <1>7 DEF ServiceInductive, SchedulerInv

LEMMA ReceiveStep ==
  ASSUME ServiceInductive, ReceiveGet PROVE ServiceInductive'
<1> DEFINE r == Head(channel)
<1>1. /\ channel \in Seq(Requests) /\ queue \in Seq(Requests) /\ channel # <<>>
      /\ Distinct(channel) /\ Distinct(queue)
  BY DEF ReceiveGet, ServiceInductive, SchedulerInv, ServiceTypeOK, Placed
<1>2. /\ r \in Requests /\ r \in ToSet(channel) /\ Tail(channel) \in Seq(Requests)
      /\ Len(Tail(channel)) = Len(channel) - 1 /\ Len(channel) \in Nat
      /\ Distinct(Tail(channel)) /\ ToSet(Tail(channel)) \subseteq ToSet(channel)
      /\ r \notin ToSet(Tail(channel))
  <2>1. /\ Len(channel) \in Nat \ {0} /\ Len(Tail(channel)) = Len(channel) - 1 /\ r = channel[1]
        /\ \A i \in 1 .. Len(channel) - 1 : Tail(channel)[i] = channel[i + 1]
        /\ DOMAIN channel = 1 .. Len(channel) /\ DOMAIN Tail(channel) = 1 .. Len(channel) - 1
        /\ Tail(channel) \in Seq(Requests)
    BY <1>1
  <2>2. r \in Requests /\ r \in ToSet(channel)
    BY <1>1, <2>1 DEF ToSet
  <2>3. ToSet(Tail(channel)) \subseteq ToSet(channel) /\ r \notin ToSet(Tail(channel))
    BY <1>1, <2>1 DEF ToSet, Distinct
  <2>4. Distinct(Tail(channel))
    BY <1>1, <2>1 DEF Distinct
  <2> QED
    BY <2>1, <2>2, <2>3, <2>4
<1>3. r \notin ToSet(queue) /\ r \notin InBatch
  BY <1>2 DEF ServiceInductive, Placed
<1>4. /\ queue' \in Seq(Requests) /\ ToSet(queue') = ToSet(queue) \cup {r} /\ Distinct(queue')
      /\ Len(queue') = Len(queue) + 1 /\ Len(queue) \in Nat
  <2>1. queue' = Append(queue, r)
    BY DEF ReceiveGet
  <2> HIDE DEF r
  <2> QED
    BY <1>1, <1>2, <1>3, <2>1, AppendFacts
<1>5. receiver = "get" /\ receiver' = "acquire" /\ channel' = Tail(channel) /\ wake' = TRUE
      /\ UNCHANGED <<call, responses, dropped, slots, ripe, inApp, inSession, inTotal, batches,
                     loop, updateVars>>
  BY DEF ReceiveGet
<1> HIDE DEF r
<1>6. InBatch' = InBatch
  BY <1>5 DEF InBatch
<1>7. ServiceTypeOK'
  BY <1>2, <1>4, <1>5, Sizes
     DEF ServiceInductive, SchedulerInv, ServiceTypeOK, Watermark, updateVars
<1>8. SlotsConserved' /\ QuotaExact'
  <2>1. slots \in Nat /\ Cardinality(InBatch) \in Nat
    BY FS_CardinalityType, Sizes DEF ServiceInductive, SchedulerInv, ServiceTypeOK, Batched
  <2>2. slots + 1 + Len(queue) + Cardinality(InBatch) = MaxConcurrent
    BY <1>5 DEF ServiceInductive, SchedulerInv, SlotsConserved
  <2>3. slots + 0 + (Len(queue) + 1) + Cardinality(InBatch) = MaxConcurrent
    BY <1>4, <2>1, <2>2
  <2> QED
    BY <1>4, <1>5, <1>6, <2>3 DEF SlotsConserved, QuotaExact, ServiceInductive, SchedulerInv
<1>9. NoLostWakeUp' /\ OneVersion' /\ Batched' /\ Watermark'
  BY <1>5, <1>6 DEF NoLostWakeUp, OneVersion, Batched, Watermark, ServiceInductive, updateVars
<1>10. Placed'
  BY <1>2, <1>3, <1>4, <1>5, <1>6 DEF ServiceInductive, Placed
<1> QED
  BY <1>7, <1>8, <1>9, <1>10 DEF ServiceInductive, SchedulerInv

LEMMA LoopStep ==
  ASSUME ServiceInductive, Sleep \/ WakeUp \/ \E r \in Requests : Ripen(r) PROVE ServiceInductive'
<1>1. UNCHANGED <<clientVars, receiver, slots, queue, inApp, inSession, inTotal, batches, updateVars>>
  BY DEF Sleep, WakeUp, Ripen, schedVars
<1>2. SlotsConserved' /\ QuotaExact' /\ OneVersion' /\ Batched' /\ InBatch' = InBatch
  BY <1>1, BooksKept DEF updateVars
<1>3. ASSUME NEW k PROVE Selectable(k)' = Selectable(k)
  BY <1>1 DEF Selectable, Bucket, Sorted, Before, Pos, HasQuota
<1>4. SomethingSelectable' = SomethingSelectable
  BY <1>1, <1>3 DEF SomethingSelectable, Fenced, updateVars
<1>5. NoLostWakeUp'
  BY <1>4 DEF Sleep, WakeUp, Ripen, ServiceInductive, SchedulerInv, NoLostWakeUp, loopVars
<1>6. loop' \in {"run", "wait", "timed"} /\ wake' \in BOOLEAN /\ ripe' \subseteq ToSet(queue)
  BY DEF Sleep, WakeUp, Ripen, ServiceInductive, SchedulerInv, ServiceTypeOK, loopVars, schedVars
<1>7. ServiceTypeOK' /\ Placed' /\ Watermark'
  BY <1>1, <1>2, <1>6
     DEF ServiceInductive, SchedulerInv, ServiceTypeOK, Placed, Watermark, clientVars, updateVars
<1> QED
  BY <1>2, <1>5, <1>7 DEF ServiceInductive, SchedulerInv

LEMMA UpdateStep ==
  ASSUME ServiceInductive, UpdateBegin \/ UpdateSwap \/ UpdateTimeout PROVE ServiceInductive'
<1>1. UNCHANGED <<clientVars, receiver, slots, schedVars, loop>> /\ wake' = TRUE
  BY DEF UpdateBegin, UpdateSwap, UpdateTimeout, UpdateEnds
<1>2. InBatch' = InBatch
  BY <1>1 DEF InBatch, schedVars
<1>3. version' = version \/ batches = {}
  <2>1. CASE UpdateSwap
    <3>1. Cardinality(InBatch) = 0 /\ IsFiniteSet(InBatch)
      BY <2>1 DEF UpdateSwap, ServiceInductive, SchedulerInv, QuotaExact, Batched
    <3>2. InBatch = {}
      BY <3>1, FS_EmptySet
    <3>3. ASSUME NEW b \in batches PROVE FALSE
      <4>1. b.items \in Seq(Requests) /\ b.items # <<>>
        BY DEF ServiceInductive, SchedulerInv, ServiceTypeOK, Batched
      <4>2. b.items[1] \in Members(b)
        BY <4>1 DEF Members, ToSet
      <4> QED
        BY <3>2, <4>2 DEF InBatch
    <3> QED
      BY <3>3
  <2>2. CASE UpdateBegin \/ UpdateTimeout
    BY <2>2 DEF UpdateBegin, UpdateTimeout, UpdateEnds
  <2> QED
    BY <2>1, <2>2
<1>4. /\ fence' \in BOOLEAN /\ update' \in {"idle", "drain"} /\ version' \in Nat
      /\ updates' \in 0 .. MaxUpdates
  <2>1. updates \in 0 .. MaxUpdates /\ version \in Nat
    BY DEF ServiceInductive, SchedulerInv, ServiceTypeOK
  <2>2. CASE UpdateBegin
    BY <2>1, <2>2, Sizes DEF UpdateBegin
  <2>3. CASE UpdateSwap \/ UpdateTimeout
    <3>1. version + 1 \in Nat
      BY <2>1
    <3> QED
      BY <2>1, <2>3, <3>1 DEF UpdateSwap, UpdateTimeout, UpdateEnds
  <2> QED
    BY <2>2, <2>3
<1>5. ServiceTypeOK'
  BY <1>1, <1>4 DEF ServiceInductive, SchedulerInv, ServiceTypeOK, clientVars, schedVars
<1>6. OneVersion'
  BY <1>1, <1>3 DEF ServiceInductive, OneVersion, schedVars
<1>7. SlotsConserved' /\ QuotaExact'
  BY <1>1, <1>2 DEF ServiceInductive, SchedulerInv, SlotsConserved, QuotaExact, schedVars
<1>8. NoLostWakeUp' /\ Placed' /\ Batched' /\ Watermark'
  BY <1>1, <1>2 DEF ServiceInductive, NoLostWakeUp, Placed, Batched, Watermark, clientVars, schedVars
<1> QED
  BY <1>5, <1>6, <1>7, <1>8 DEF ServiceInductive, SchedulerInv

LEMMA IssueStep ==
  ASSUME ServiceInductive, Issue PROVE ServiceInductive'
<1>1. PICK items \in Best :
        /\ batches' = batches \cup {[items |-> items, version |-> version]}
        /\ queue' = QueueWithout(items)
        /\ ripe' = ripe \ ToSet(items)
        /\ inApp' = [a \in Apps |->
               inApp[a] + Cardinality({r \in ToSet(items) : AppOf[r] = a})]
        /\ inSession' = [s \in Sessions |->
               inSession[s] + Cardinality({r \in ToSet(items) : SessionOf[r] = s})]
        /\ inTotal' = inTotal + Len(items)
  BY DEF Issue
<1>2. PICK k \in Keys : items = Selectable(k) /\ items # <<>>
  BY DEF Best, Ready
<1>3. /\ items \in Seq(Requests) /\ Distinct(items) /\ ToSet(items) \subseteq ToSet(queue)
      /\ Within(items) /\ Len(items) \in Nat
  BY <1>2, SelectableFacts DEF ServiceInductive, SchedulerInv
<1> DEFINE M == ToSet(items)
           b == [items |-> items, version |-> version]
<1>4. IsFiniteSet(M) /\ Cardinality(M) = Len(items) /\ M \subseteq Requests
  BY <1>3, SeqSet
<1>5. M \cap InBatch = {} /\ IsFiniteSet(InBatch) /\ Cardinality(InBatch) \in Nat
  BY <1>3, FS_CardinalityType DEF ServiceInductive, Placed, Batched
<1>6. InBatch' = InBatch \cup M
  <2>1. Members(b) = M
    BY DEF Members
  <2>2. InBatch' = UNION {Members(c) : c \in batches \cup {b}}
    BY <1>1 DEF InBatch, Members
  <2> HIDE DEF M, b
  <2> QED
    BY <2>1, <2>2 DEF InBatch
<1>7. /\ queue \in Seq(Requests) /\ queue' \in Seq(Requests) /\ Distinct(queue')
      /\ ToSet(queue') = ToSet(queue) \ M
  BY <1>1, WithoutFacts DEF ServiceInductive, SchedulerInv, ServiceTypeOK
<1>8. Len(queue') = Len(queue) - Len(items) /\ Len(queue) \in Nat /\ Len(queue') \in Nat
  <2>1. IsFiniteSet(ToSet(queue)) /\ Cardinality(ToSet(queue)) = Len(queue)
    BY <1>7, SeqSet DEF ServiceInductive, Placed
  <2>2. Cardinality(ToSet(queue')) = Len(queue')
    BY <1>7, SeqSet
  <2>3. ToSet(queue) \cap M = M
    BY <1>3
  <2>4. Cardinality(ToSet(queue) \ M) = Cardinality(ToSet(queue)) - Cardinality(ToSet(queue) \cap M)
    BY <2>1, FS_Difference
  <2>5. Len(queue) \in Nat /\ Len(queue') \in Nat
    BY <1>7
  <2>6. Cardinality(ToSet(queue')) = Cardinality(ToSet(queue) \ M)
    BY <1>7
  <2> HIDE DEF M
  <2>7. Len(queue') = Len(queue) - Len(items)
    BY <1>4, <2>1, <2>2, <2>3, <2>4, <2>6
  <2> QED
    BY <2>5, <2>7
<1>9. Cardinality(InBatch') = Cardinality(InBatch) + Len(items)
  <2>1. Cardinality(InBatch \cup M) = Cardinality(InBatch) + Cardinality(M) - Cardinality(InBatch \cap M)
    BY <1>4, <1>5, FS_Union
  <2>2. Cardinality(InBatch \cap M) = 0
    BY <1>5, FS_EmptySet
  <2> HIDE DEF M
  <2> QED
    BY <1>3, <1>4, <1>5, <1>6, <2>1, <2>2
<1>10. /\ UNCHANGED <<clientVars, receiver, slots, loopVars, updateVars>>
       /\ loop = "run"
  BY DEF Issue
<1> HIDE DEF M
<1>11. ASSUME NEW a \in Apps
       PROVE  /\ inApp'[a] = Cardinality({r \in InBatch' : AppOf[r] = a})
              /\ inApp'[a] \in 0 .. MaxPerApp
  <2>1. inApp'[a] = inApp[a] + Count(M, AppOf, a)
    BY <1>1 DEF Count, M
  <2>2. inApp[a] = Count(InBatch, AppOf, a) /\ inApp[a] \in Nat
    BY DEF ServiceInductive, SchedulerInv, QuotaExact, ServiceTypeOK, Count
  <2>3. Count(InBatch \cup M, AppOf, a) = Count(InBatch, AppOf, a) + Count(M, AppOf, a)
    BY <1>4, <1>5, CountUnion
  <2>4. inApp[a] + Count(M, AppOf, a) <= MaxPerApp /\ Count(M, AppOf, a) \in Nat
    BY <1>3, <1>4, CountFacts DEF Within, M
  <2>5. inApp'[a] = Count(InBatch', AppOf, a)
    BY <1>6, <2>1, <2>2, <2>3
  <2> QED
    BY <2>1, <2>2, <2>4, <2>5, Sizes DEF Count
<1>12. ASSUME NEW s \in Sessions
       PROVE  /\ inSession'[s] = Cardinality({r \in InBatch' : SessionOf[r] = s})
              /\ inSession'[s] \in 0 .. MaxPerSession
  <2>1. inSession'[s] = inSession[s] + Count(M, SessionOf, s)
    BY <1>1 DEF Count, M
  <2>2. inSession[s] = Count(InBatch, SessionOf, s) /\ inSession[s] \in Nat
    BY DEF ServiceInductive, SchedulerInv, QuotaExact, ServiceTypeOK, Count
  <2>3. Count(InBatch \cup M, SessionOf, s) = Count(InBatch, SessionOf, s) + Count(M, SessionOf, s)
    BY <1>4, <1>5, CountUnion
  <2>4. inSession[s] + Count(M, SessionOf, s) <= MaxPerSession /\ Count(M, SessionOf, s) \in Nat
    BY <1>3, <1>4, CountFacts DEF Within, M
  <2>5. inSession'[s] = Count(InBatch', SessionOf, s)
    BY <1>6, <2>1, <2>2, <2>3
  <2> QED
    BY <2>1, <2>2, <2>4, <2>5, Sizes DEF Count
<1>13. inTotal' = Cardinality(InBatch') /\ inTotal' \in Nat
  BY <1>1, <1>3, <1>5, <1>9 DEF ServiceInductive, SchedulerInv, QuotaExact
<1>14. QuotaExact'
  BY <1>11, <1>12, <1>13, Sizes DEF QuotaExact
<1>15. SlotsConserved'
  <2>1. slots \in Nat
    BY Sizes DEF ServiceInductive, SchedulerInv, ServiceTypeOK
  <2> QED
    BY <1>3, <1>5, <1>8, <1>9, <1>10, <2>1 DEF ServiceInductive, SchedulerInv, SlotsConserved
<1>16. ServiceTypeOK'
  <2>1. inApp' \in [Apps -> 0 .. MaxPerApp]
    <3>1. inApp' = [a \in Apps |-> inApp'[a]]
      BY <1>1
    <3> QED
      BY <1>11, <3>1
  <2>2. inSession' \in [Sessions -> 0 .. MaxPerSession]
    <3>1. inSession' = [s \in Sessions |-> inSession'[s]]
      BY <1>1
    <3> QED
      BY <1>12, <3>1
  <2>3. b \in [items : Seq(Requests), version : Nat]
    BY <1>3 DEF ServiceInductive, SchedulerInv, ServiceTypeOK
  <2>4. Len(queue') <= MaxDepth /\ ripe' \subseteq ToSet(queue')
    <3>1. Len(queue) <= MaxDepth /\ ripe \subseteq ToSet(queue)
      BY DEF ServiceInductive, SchedulerInv, ServiceTypeOK
    <3>2. Len(items) \in Nat /\ MaxDepth \in Nat
      BY <1>3, Sizes
    <3>3. Len(queue') <= MaxDepth
      BY <1>8, <3>1, <3>2
    <3>4. ripe' = ripe \ M
      BY <1>1 DEF M
    <3> QED
      BY <1>7, <3>1, <3>3, <3>4
  <2>5. batches' \subseteq [items : Seq(Requests), version : Nat]
    BY <1>1, <2>3 DEF ServiceInductive, SchedulerInv, ServiceTypeOK
  <2> HIDE DEF b
  <2> QED
    BY <1>7, <1>10, <1>13, <2>1, <2>2, <2>4, <2>5
       DEF ServiceInductive, SchedulerInv, ServiceTypeOK, clientVars, loopVars, updateVars
<1>17. Batched' /\ OneVersion'
  <2>1. IsFiniteSet(InBatch')
    BY <1>4, <1>5, <1>6, FS_Union
  <2>2. Members(b) = M /\ b.items = items /\ b.version = version /\ batches' = batches \cup {b}
    BY <1>1 DEF Members, M
  <2>3. \A c \in batches : Members(c) \subseteq InBatch
    BY DEF InBatch
  <2> HIDE DEF b
  <2>4. \A c, d \in batches' : c # d => Members(c) \cap Members(d) = {}
    BY <1>5, <2>2, <2>3 DEF ServiceInductive, Batched
  <2>5. \A c \in batches' : c.items # <<>> /\ Distinct(c.items) /\ c.version = version
    BY <1>2, <1>3, <2>2 DEF ServiceInductive, Batched, OneVersion
  <2>6. \A c : Members(c)' = Members(c)
    BY DEF Members
  <2> QED
    BY <1>10, <2>1, <2>4, <2>5, <2>6 DEF Batched, OneVersion, updateVars
<1>18. Placed'
  BY <1>3, <1>6, <1>7, <1>10 DEF ServiceInductive, Placed, clientVars, M
<1>19. NoLostWakeUp' /\ Watermark'
  BY <1>3, <1>8, <1>10, Sizes DEF NoLostWakeUp, Watermark, ServiceInductive, loopVars
<1> QED
  BY <1>14, <1>15, <1>16, <1>17, <1>18, <1>19 DEF ServiceInductive, SchedulerInv

LEMMA FinishStep ==
  ASSUME ServiceInductive, NEW b \in batches, NEW failed, FinishBatch(b, failed) PROVE ServiceInductive'
<1> DEFINE M == Members(b)
           L == Len(b.items)
           n == IF ResponseSize - Len(responses) < L THEN ResponseSize - Len(responses) ELSE L
           sent == SubSeq(b.items, 1, n)
           answers == [i \in DOMAIN sent |->
                         <<sent[i], IF sent[i] \in failed THEN "error" ELSE "action">>]
<1>1. /\ responses' = responses \o answers
      /\ dropped' = dropped \cup (M \ ToSet(sent))
      /\ batches' = batches \ {b}
      /\ inApp' = [a \in Apps |-> inApp[a] - Cardinality({r \in M : AppOf[r] = a})]
      /\ inSession' = [s \in Sessions |->
             inSession[s] - Cardinality({r \in M : SessionOf[r] = s})]
      /\ inTotal' = inTotal - L
      /\ slots' = slots + L
      /\ wake' = TRUE
      /\ UNCHANGED <<call, channel, receiver, queue, ripe, loop, updateVars>>
  BY DEF FinishBatch
<1>2. b.items \in Seq(Requests) /\ Distinct(b.items) /\ L \in Nat
  BY DEF ServiceInductive, SchedulerInv, ServiceTypeOK, Batched
<1>3. IsFiniteSet(M) /\ Cardinality(M) = L /\ M \subseteq Requests
  BY <1>2, SeqSet DEF Members
<1>4. responses' \in Seq(Requests \X Answers) /\ Len(responses') <= ResponseSize
  <2>1. /\ responses \in Seq(Requests \X Answers) /\ Len(responses) \in Nat
        /\ Len(responses) <= ResponseSize
    BY DEF ServiceInductive, SchedulerInv, ServiceTypeOK
  <2>2. n \in 0 .. L /\ n <= ResponseSize - Len(responses)
    BY <1>2, <2>1, Sizes
  <2>3. sent \in Seq(Requests) /\ Len(sent) = n /\ DOMAIN sent = 1 .. n
    <3> HIDE DEF n
    <3> QED
      BY <1>2, <2>2
  <2> HIDE DEF sent, n
  <2>4. answers \in Seq(Requests \X Answers) /\ Len(answers) = n
    <3>1. ASSUME NEW i \in 1 .. n
          PROVE  <<sent[i], IF sent[i] \in failed THEN "error" ELSE "action">> \in Requests \X Answers
      BY <2>3 DEF Answers
    <3>2. answers \in [1 .. n -> Requests \X Answers]
      BY <2>3, <3>1
    <3> HIDE DEF answers
    <3> QED
      BY <2>2, <3>2
  <2> HIDE DEF answers
  <2>5. responses \o answers \in Seq(Requests \X Answers)
        /\ Len(responses \o answers) = Len(responses) + n
    <3> DEFINE R == Requests \X Answers
    <3>1. responses \in Seq(R) /\ answers \in Seq(R)
      BY <2>1, <2>4
    <3> HIDE DEF R
    <3>2. responses \o answers \in Seq(R) /\ Len(responses \o answers) = Len(responses) + Len(answers)
      BY <3>1
    <3> QED
      BY <2>4, <3>2 DEF R
  <2> QED
    BY <1>1, <2>1, <2>2, <2>5, Sizes
<1> HIDE DEF answers, sent, n
<1>5. M \subseteq InBatch /\ IsFiniteSet(InBatch) /\ Cardinality(InBatch) \in Nat
  BY FS_CardinalityType DEF InBatch, ServiceInductive, Batched
<1>6. InBatch' = InBatch \ M
  <2>1. InBatch' = UNION {Members(c) : c \in batches \ {b}}
    BY <1>1 DEF InBatch, Members
  <2>2. \A c \in batches \ {b} : Members(c) \cap M = {}
    BY DEF ServiceInductive, Batched
  <2> HIDE DEF M
  <2> QED
    BY <2>1, <2>2 DEF InBatch, M
<1>7. IsFiniteSet(InBatch') /\ Cardinality(InBatch') = Cardinality(InBatch) - L
  <2>1. IsFiniteSet(InBatch \ M)
        /\ Cardinality(InBatch \ M) = Cardinality(InBatch) - Cardinality(InBatch \cap M)
    BY <1>5, FS_Difference
  <2>2. InBatch \cap M = M
    BY <1>5
  <2> HIDE DEF M, L
  <2> QED
    BY <1>3, <1>6, <2>1, <2>2
<1>8. Cardinality(InBatch') \in Nat
  BY <1>7, FS_CardinalityType
<1> HIDE DEF M, L
<1>9. InBatch = InBatch' \cup M /\ InBatch' \cap M = {}
  BY <1>5, <1>6
<1>10. ASSUME NEW a \in Apps
       PROVE  /\ inApp'[a] = Cardinality({r \in InBatch' : AppOf[r] = a})
              /\ inApp'[a] \in 0 .. MaxPerApp
  <2>1. inApp'[a] = inApp[a] - Count(M, AppOf, a)
    BY <1>1 DEF Count
  <2>2. inApp[a] = Count(InBatch, AppOf, a) /\ inApp[a] \in 0 .. MaxPerApp
    BY DEF ServiceInductive, SchedulerInv, QuotaExact, ServiceTypeOK, Count
  <2>3. Count(InBatch' \cup M, AppOf, a) = Count(InBatch', AppOf, a) + Count(M, AppOf, a)
    BY <1>3, <1>7, <1>9, CountUnion
  <2>4. Count(M, AppOf, a) \in Nat /\ Count(InBatch', AppOf, a) \in Nat
    BY <1>3, <1>7, CountFacts
  <2>5. inApp'[a] = Count(InBatch', AppOf, a) /\ inApp'[a] \in 0 .. MaxPerApp
    BY <1>9, <2>1, <2>2, <2>3, <2>4, Sizes
  <2> QED
    BY <2>5 DEF Count
<1>11. ASSUME NEW s \in Sessions
       PROVE  /\ inSession'[s] = Cardinality({r \in InBatch' : SessionOf[r] = s})
              /\ inSession'[s] \in 0 .. MaxPerSession
  <2>1. inSession'[s] = inSession[s] - Count(M, SessionOf, s)
    BY <1>1 DEF Count
  <2>2. inSession[s] = Count(InBatch, SessionOf, s) /\ inSession[s] \in 0 .. MaxPerSession
    BY DEF ServiceInductive, SchedulerInv, QuotaExact, ServiceTypeOK, Count
  <2>3. Count(InBatch' \cup M, SessionOf, s) = Count(InBatch', SessionOf, s) + Count(M, SessionOf, s)
    BY <1>3, <1>7, <1>9, CountUnion
  <2>4. Count(M, SessionOf, s) \in Nat /\ Count(InBatch', SessionOf, s) \in Nat
    BY <1>3, <1>7, CountFacts
  <2>5. inSession'[s] = Count(InBatch', SessionOf, s) /\ inSession'[s] \in 0 .. MaxPerSession
    BY <1>9, <2>1, <2>2, <2>3, <2>4, Sizes
  <2> QED
    BY <2>5 DEF Count
<1>12. inTotal' = Cardinality(InBatch') /\ inTotal' \in Nat
  BY <1>1, <1>7, <1>8 DEF ServiceInductive, SchedulerInv, QuotaExact
<1>13. QuotaExact'
  BY <1>10, <1>11, <1>12, Sizes DEF QuotaExact
<1>14. SlotsConserved' /\ slots' \in 0 .. MaxConcurrent
  <2>1. slots \in Nat /\ Len(queue) \in Nat
    BY Sizes DEF ServiceInductive, SchedulerInv, ServiceTypeOK
  <2>2. SlotsConserved'
    <3> DEFINE inGet == IF receiver = "get" THEN 1 ELSE 0
    <3>1. slots + inGet + Len(queue) + Cardinality(InBatch) = MaxConcurrent /\ inGet \in Nat
      BY DEF ServiceInductive, SchedulerInv, SlotsConserved
    <3>2. (slots + L) + inGet + Len(queue) + (Cardinality(InBatch) - L) = MaxConcurrent
      <4> HIDE DEF inGet
      <4> QED
        BY <1>2, <1>5, <2>1, <3>1
    <3> QED
      BY <1>1, <1>7, <3>2 DEF SlotsConserved
  <2>3. slots' \in Nat /\ slots' <= MaxConcurrent
    BY <1>1, <1>2, <1>8, <2>1, <2>2, Sizes DEF SlotsConserved
  <2> QED
    BY <2>2, <2>3, Sizes
<1>15. ServiceTypeOK'
  <2>1. inApp' \in [Apps -> 0 .. MaxPerApp] /\ inSession' \in [Sessions -> 0 .. MaxPerSession]
    <3>1. inApp' = [a \in Apps |-> inApp'[a]] /\ inSession' = [s \in Sessions |-> inSession'[s]]
      BY <1>1
    <3> QED
      BY <1>10, <1>11, <3>1
  <2>2. dropped' \subseteq Requests /\ batches' \subseteq [items : Seq(Requests), version : Nat]
    BY <1>1, <1>3 DEF ServiceInductive, SchedulerInv, ServiceTypeOK
  <2> QED
    BY <1>1, <1>4, <1>12, <1>14, <2>1, <2>2 DEF ServiceInductive, SchedulerInv, ServiceTypeOK, updateVars
<1>16. Batched' /\ OneVersion'
  <2>1. \A c : Members(c)' = Members(c)
    BY DEF Members
  <2> QED
    BY <1>1, <1>7, <2>1 DEF ServiceInductive, Batched, OneVersion, updateVars
<1>17. Placed' /\ NoLostWakeUp' /\ Watermark'
  BY <1>1, <1>6 DEF ServiceInductive, Placed, NoLostWakeUp, Watermark
<1> QED
  BY <1>13, <1>14, <1>15, <1>16, <1>17 DEF ServiceInductive, SchedulerInv

LEMMA ServiceNextInductive == ServiceInductive /\ [ServiceNext]_serviceVars => ServiceInductive'
<1> SUFFICES ASSUME ServiceInductive, [ServiceNext]_serviceVars PROVE ServiceInductive'
  OBVIOUS
<1>1. CASE UNCHANGED serviceVars
  <2>1. UNCHANGED <<clientVars, receiver, slots, schedVars, loopVars, updateVars>>
    BY <1>1 DEF serviceVars
  <2>2. SlotsConserved' /\ QuotaExact' /\ OneVersion' /\ Batched' /\ InBatch' = InBatch
    BY <2>1, BooksKept DEF schedVars, updateVars
  <2>3. NoLostWakeUp'
    BY <2>1, WakeKept DEF schedVars, updateVars, loopVars
  <2> QED
    BY <2>1, <2>2, <2>3
       DEF ServiceInductive, SchedulerInv, ServiceTypeOK, Placed, Watermark, clientVars, schedVars, loopVars,
           updateVars
<1>2. CASE Worker
  BY <1>2, PermitStep, ReceiveStep, LoopStep, FinishStep, UpdateStep DEF Worker
<1> QED
  BY <1>1, <1>2, SubmitStep, ClientStep, LoopStep, IssueStep DEF ServiceNext

-----------------------------------------------------------------------------
\* Every request is in one place, batches are disjoint, and what they hold is what the
\* scheduler's books and the permits say (RuntimeRolloutWorker, InferenceBatchScheduler).
THEOREM ServiceInvariant == ServiceSpec => []ServiceInductive
  BY ServiceInitInductive, ServiceNextInductive, PTL DEF ServiceSpec

\* No permit of the worker and no quota of an application or session is ever lost or
\* counted twice, and the loop never sleeps over work it could do, for any limits: what
\* receive_requests, next_batch, execute_batches and _run_batch do to the same counters.
THEOREM SchedulerTheorem == ServiceSpec => []SchedulerInv
<1>1. ServiceInductive => SchedulerInv
  BY DEF ServiceInductive
<1> QED
  BY <1>1, ServiceInvariant, PTL

\* update_weights never swaps the policy under a running batch: every batch in flight
\* has the version of the model that runs it.
THEOREM VersionTheorem == ServiceSpec => []OneVersion
<1>1. ServiceInductive => OneVersion
  BY DEF ServiceInductive
<1> QED
  BY <1>1, ServiceInvariant, PTL
=============================================================================
