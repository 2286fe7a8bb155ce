------------------------ MODULE SharedHostQueue_proofs ------------------------
(***************************************************************************)
(* Every state of SharedHostQueue!SlowSpec, and so of Spec, satisfies      *)
(* Inductive, for any number of jobs, workers, recoverers, tokens and      *)
(* crashes: one lemma per action.  In each, Base is kept whoever is inside *)
(* the lock, and Exclusive as long as no live holder loses it.  From the   *)
(* invariant follow the queue's properties, the immutability of terminals  *)
(* and the implementation of RolloutLifecycle.                             *)
(***************************************************************************)
EXTENDS SharedHostQueue, TLAPS

\* The part of Exclusive that only the files and the history decide.
Settled == Unclaimed /\ OneTerminal /\ ClaimedOnce /\ AckedIsTerminal

\* The initial directory is empty and every process is idle.
LEMMA InitInductive == Init => Inductive
<1> SUFFICES ASSUME Init PROVE Inductive
  OBVIOUS
<1> USE NoneAssumption, CrashAssumption DEF Init
<1>1. TypeOK
  <2>1. late \in BOOLEAN
    OBVIOUS
  <2>2. sighted \subseteq Procs /\ todo \subseteq Jobs \cup Tokens
    OBVIOUS
  <2> HIDE DEF Init
  <2>3. QED
    BY <2>1, <2>2 DEF Init, TypeOK, Procs, Inside, Outside
<1>2. Recalled /\ Mutex /\ Memory
  BY DEF Recalled, Mutex, Memory, Inside
<1>3. Directory /\ ScanAhead /\ SuccessHasResult
  BY DEF Directory, ScanAhead, SuccessHasResult
<1>4. Unclaimed /\ OneTerminal /\ ClaimedOnce /\ AckedIsTerminal
  BY DEF Unclaimed, OneTerminal, BothTerminal, ClaimedOnce, AckedIsTerminal
<1>5. QED
  BY <1>1, <1>2, <1>3, <1>4 DEF Inductive, Base, Exclusive

\* A step that writes no file and is not the supervisor's keeps the directory
\* and what the scan has ahead of it.
LEMMA BaseFrame ==
  ASSUME Base, UNCHANGED <<files, super, owner>>
  PROVE  Directory' /\ ScanAhead'
BY DEF Base, TypeOK, Directory, ScanAhead, HasTerminal, files, super

\* A step that writes neither file nor history keeps Settled.
LEMMA SettledFrame ==
  ASSUME Exclusive, UNCHANGED <<files, history>>
  PROVE  Settled'
<1> USE DEF Exclusive, files, history
<1>1. Unclaimed' /\ OneTerminal' /\ ClaimedOnce'
  BY DEF Unclaimed, OneTerminal, BothTerminal, ClaimedOnce
<1>2. AckedIsTerminal'
  BY DEF AckedIsTerminal, Terminal
<1>3. QED
  BY <1>1, <1>2 DEF Settled

-----------------------------------------------------------------------------
(***************************************************************************)
(* The steps that only move a process                                      *)
(***************************************************************************)

\* claim takes the lock: only the position of the worker changes.
LEMMA ClaimEnterStep ==
  ASSUME Inductive, NEW w \in Workers, ClaimEnter(w)
  PROVE  Inductive'
<1> USE NoneAssumption, ProcAssumption, CrashAssumption
    DEF Inductive, Base, TypeOK, Procs, Inside, Outside, ClaimEnter, Enter,
        files, local, super, history, steals
<1>1. TypeOK'
  BY DEF Recalled
<1>2. Recalled'
  BY DEF Recalled, HasTerminal
<1>3. Directory' /\ ScanAhead' /\ SuccessHasResult'
  BY BaseFrame DEF SuccessHasResult
<1>4. ASSUME ~late' PROVE Exclusive'
  <2>1. Exclusive
    BY <1>4
  <2>2. Mutex'
    BY <2>1 DEF Exclusive, Mutex
  <2>3. Memory'
    BY <2>1 DEF Exclusive, Mutex, Memory, Mine, Source, HasTerminal, Terminal, BothTerminal
  <2>4. Settled'
    BY <2>1, SettledFrame
  <2>5. QED
    BY <2>2, <2>3, <2>4 DEF Settled, Exclusive
<1>5. QED
  BY <1>1, <1>2, <1>3, <1>4

\* claim returns: the lock is free and the worker remembers its claim.
LEMMA ClaimReturnStep ==
  ASSUME Inductive, NEW w \in Workers, ClaimReturn(w)
  PROVE  Inductive'
<1> USE NoneAssumption, ProcAssumption, CrashAssumption
    DEF Inductive, Base, TypeOK, Procs, Inside, Outside, ClaimReturn, Leave,
        files, local, super, history, steals
<1>1. TypeOK'
  BY DEF Recalled
<1>2. Recalled'
  BY DEF Recalled, HasTerminal
<1>3. Directory' /\ ScanAhead' /\ SuccessHasResult'
  BY BaseFrame DEF SuccessHasResult
<1>4. ASSUME ~late' PROVE Exclusive'
  <2>1. Exclusive
    BY <1>4
  <2>2. Mutex'
    BY <2>1 DEF Exclusive, Mutex
  <2>3. Memory'
    BY <2>1 DEF Exclusive, Mutex, Memory, Mine, Source, HasTerminal, Terminal, BothTerminal
  <2>4. Settled'
    BY <2>1, SettledFrame
  <2>5. QED
    BY <2>2, <2>3, <2>4 DEF Settled, Exclusive
<1>5. QED
  BY <1>1, <1>2, <1>3, <1>4

\* A worker that finds its claim starts the episode, else it ends.
LEMMA StartEpisodeStep ==
  ASSUME Inductive, NEW w \in Workers, StartEpisode(w)
  PROVE  Inductive'
<1> USE NoneAssumption, ProcAssumption, CrashAssumption
    DEF Inductive, Base, TypeOK, Procs, Inside, Outside, StartEpisode, Goto,
        files, local, super, history, steals
<1>1. TypeOK'
  BY DEF Recalled
<1>2. Recalled'
  BY DEF Recalled, HasTerminal
<1>3. Directory' /\ ScanAhead' /\ SuccessHasResult'
  BY BaseFrame DEF SuccessHasResult
<1>4. ASSUME ~late' PROVE Exclusive'
  <2>1. Exclusive
    BY <1>4
  <2>2. Mutex'
    BY <2>1 DEF Exclusive, Mutex
  <2>3. Memory'
    BY <2>1 DEF Exclusive, Mutex, Memory, Mine, Source, HasTerminal, Terminal, BothTerminal
  <2>4. Settled'
    BY <2>1, SettledFrame
  <2>5. QED
    BY <2>2, <2>3, <2>4 DEF Settled, Exclusive
<1>5. QED
  BY <1>1, <1>2, <1>3, <1>4

\* A result file that appears only helps SuccessHasResult.
LEMMA EpisodePublishStep ==
  ASSUME Inductive, NEW j \in Jobs, EpisodePublish(j)
  PROVE  Inductive'
<1> USE NoneAssumption, ProcAssumption, CrashAssumption
    DEF Inductive, Base, TypeOK, Procs, Inside, Outside, EpisodePublish,
        files, local, super, history, steals
<1>1. TypeOK'
  BY DEF Recalled
<1>2. Recalled'
  BY DEF Recalled, HasTerminal
<1>3. Directory' /\ ScanAhead' /\ SuccessHasResult'
  BY BaseFrame DEF SuccessHasResult
<1>4. ASSUME ~late' PROVE Exclusive'
  <2>1. Exclusive
    BY <1>4
  <2>2. Mutex'
    BY <2>1 DEF Exclusive, Mutex
  <2>3. Memory'
    BY <2>1 DEF Exclusive, Mutex, Memory, Mine, Source, HasTerminal, Terminal, BothTerminal
  <2>4. Settled'
    BY <2>1, SettledFrame
  <2>5. QED
    BY <2>2, <2>3, <2>4 DEF Settled, Exclusive
<1>5. QED
  BY <1>1, <1>2, <1>3, <1>4

\* A success is remembered only with its result file.
LEMMA EpisodeEndStep ==
  ASSUME Inductive, NEW w \in Workers, EpisodeEnd(w)
  PROVE  Inductive'
<1> USE NoneAssumption, ProcAssumption, CrashAssumption
    DEF Inductive, Base, TypeOK, Procs, Inside, Outside, EpisodeEnd, Goto,
        files, local, super, history, steals
<1>1. TypeOK'
  BY DEF Recalled
<1>2. Recalled'
  <2> SUFFICES ASSUME NEW q \in Procs PROVE Recalled!(q)'
    BY DEF Recalled
  <2>1. CASE q = w
    BY <2>1 DEF Recalled
  <2>2. CASE q # w
    BY <2>2 DEF Recalled, HasTerminal
  <2>3. QED
    BY <2>1, <2>2
<1>3. Directory' /\ ScanAhead' /\ SuccessHasResult'
  BY BaseFrame DEF SuccessHasResult
<1>4. ASSUME ~late' PROVE Exclusive'
  <2>1. Exclusive
    BY <1>4
  <2>2. Mutex'
    BY <2>1 DEF Exclusive, Mutex
  <2>3. Memory'
    <3> SUFFICES ASSUME NEW q \in Procs PROVE Memory!(q)'
      BY DEF Memory
    <3>1. CASE q = w
      BY <2>1, <3>1 DEF Exclusive, Memory
    <3>2. CASE q # w
      BY <2>1, <3>2 DEF Exclusive, Memory, Mutex, Mine, HasTerminal, Terminal
    <3>3. QED
      BY <3>1, <3>2
  <2>4. Settled'
    BY <2>1, SettledFrame
  <2>5. QED
    BY <2>2, <2>3, <2>4 DEF Settled, Exclusive
<1>5. QED
  BY <1>1, <1>2, <1>3, <1>4

\* heartbeat takes the lock.
LEMMA HeartbeatEnterStep ==
  ASSUME Inductive, NEW w \in Workers, HeartbeatEnter(w)
  PROVE  Inductive'
<1> USE NoneAssumption, ProcAssumption, CrashAssumption
    DEF Inductive, Base, TypeOK, Procs, Inside, Outside, HeartbeatEnter, Enter,
        files, local, super, history, steals
<1>1. TypeOK'
  BY DEF Recalled
<1>2. Recalled'
  BY DEF Recalled, HasTerminal
<1>3. Directory' /\ ScanAhead' /\ SuccessHasResult'
  BY BaseFrame DEF SuccessHasResult
<1>4. ASSUME ~late' PROVE Exclusive'
  <2>1. Exclusive
    BY <1>4
  <2>2. Mutex'
    BY <2>1 DEF Exclusive, Mutex
  <2>3. Memory'
    BY <2>1 DEF Exclusive, Mutex, Memory, Mine, Source, HasTerminal, Terminal, BothTerminal
  <2>4. Settled'
    BY <2>1, SettledFrame
  <2>5. QED
    BY <2>2, <2>3, <2>4 DEF Settled, Exclusive
<1>5. QED
  BY <1>1, <1>2, <1>3, <1>4

\* heartbeat goes on only with a claim that is there.
LEMMA HeartbeatCheckStep ==
  ASSUME Inductive, NEW w \in Workers, HeartbeatCheck(w)
  PROVE  Inductive'
<1> USE NoneAssumption, ProcAssumption, CrashAssumption
    DEF Inductive, Base, TypeOK, Procs, Inside, Outside, HeartbeatCheck, Leave, Goto,
        files, local, super, history, steals
<1>1. TypeOK'
  BY DEF Recalled, Results
<1>2. Recalled'
  <2> SUFFICES ASSUME NEW q \in Procs PROVE Recalled!(q)'
    BY DEF Recalled
  <2>1. CASE q = w
    BY <2>1 DEF Recalled, Results
  <2>2. CASE q # w
    BY <2>2 DEF Recalled, HasTerminal
  <2>3. QED
    BY <2>1, <2>2
<1>3. Directory' /\ ScanAhead' /\ SuccessHasResult'
  BY BaseFrame DEF SuccessHasResult
<1>4. ASSUME ~late' PROVE Exclusive'
  <2>1. Exclusive
    BY <1>4
  <2>2. Mutex'
    BY <2>1 DEF Exclusive, Mutex
  <2>3. Memory'
    <3> SUFFICES ASSUME NEW q \in Procs PROVE Memory!(q)'
      BY DEF Memory
    <3>1. CASE q = w
      BY <2>1, <3>1 DEF Exclusive, Memory
    <3>2. CASE q # w
      BY <2>1, <3>2 DEF Exclusive, Memory, Mutex, Mine, HasTerminal, Terminal
    <3>3. QED
      BY <3>1, <3>2
  <2>4. Settled'
    BY <2>1, SettledFrame
  <2>5. QED
    BY <2>2, <2>3, <2>4 DEF Settled, Exclusive
<1>5. QED
  BY <1>1, <1>2, <1>3, <1>4

\* finish takes the lock.
LEMMA FinishEnterStep ==
  ASSUME Inductive, NEW w \in Workers, FinishEnter(w)
  PROVE  Inductive'
<1> USE NoneAssumption, ProcAssumption, CrashAssumption
    DEF Inductive, Base, TypeOK, Procs, Inside, Outside, FinishEnter, Enter,
        files, local, super, history, steals
<1>1. TypeOK'
  BY DEF Recalled
<1>2. Recalled'
  BY DEF Recalled, HasTerminal
<1>3. Directory' /\ ScanAhead' /\ SuccessHasResult'
  BY BaseFrame DEF SuccessHasResult
<1>4. ASSUME ~late' PROVE Exclusive'
  <2>1. Exclusive
    BY <1>4
  <2>2. Mutex'
    BY <2>1 DEF Exclusive, Mutex
  <2>3. Memory'
    BY <2>1 DEF Exclusive, Mutex, Memory, Mine, Source, HasTerminal, Terminal, BothTerminal
  <2>4. Settled'
    BY <2>1, SettledFrame
  <2>5. QED
    BY <2>2, <2>3, <2>4 DEF Settled, Exclusive
<1>5. QED
  BY <1>1, <1>2, <1>3, <1>4

\* finish gives up on the lock: nothing but the position changes.
LEMMA FinishTimeoutStep ==
  ASSUME Inductive, NEW w \in Workers, FinishTimeout(w)
  PROVE  Inductive'
<1> USE NoneAssumption, ProcAssumption, CrashAssumption
    DEF Inductive, Base, TypeOK, Procs, Inside, Outside, FinishTimeout, Goto,
        files, local, super, history, steals
<1>1. TypeOK'
  BY DEF Recalled
<1>2. Recalled'
  BY DEF Recalled, HasTerminal
<1>3. Directory' /\ ScanAhead' /\ SuccessHasResult'
  BY BaseFrame DEF SuccessHasResult
<1>4. ASSUME ~late' PROVE Exclusive'
  <2>1. Exclusive
    BY <1>4
  <2>2. Mutex'
    BY <2>1 DEF Exclusive, Mutex
  <2>3. Memory'
    BY <2>1 DEF Exclusive, Mutex, Memory, Mine, Source, HasTerminal, Terminal, BothTerminal
  <2>4. Settled'
    BY <2>1, SettledFrame
  <2>5. QED
    BY <2>2, <2>3, <2>4 DEF Settled, Exclusive
<1>5. QED
  BY <1>1, <1>2, <1>3, <1>4

\* recover_abandoned remembers a token it saw in running/.
LEMMA RecoverStartStep ==
  ASSUME Inductive, NEW r \in Recoverers, RecoverStart(r)
  PROVE  Inductive'
<1> USE NoneAssumption, ProcAssumption, CrashAssumption
    DEF Inductive, Base, TypeOK, Procs, Inside, Outside, RecoverStart, Goto,
        files, local, super, history, steals
<1>1. TypeOK'
  BY DEF Recalled
<1>2. Recalled'
  BY DEF Recalled, HasTerminal
<1>3. Directory' /\ ScanAhead' /\ SuccessHasResult'
  BY BaseFrame DEF SuccessHasResult
<1>4. ASSUME ~late' PROVE Exclusive'
  <2>1. Exclusive
    BY <1>4
  <2>2. Mutex'
    BY <2>1 DEF Exclusive, Mutex
  <2>3. Memory'
    BY <2>1 DEF Exclusive, Mutex, Memory, Mine, Source, HasTerminal, Terminal, BothTerminal
  <2>4. Settled'
    BY <2>1, SettledFrame
  <2>5. QED
    BY <2>2, <2>3, <2>4 DEF Settled, Exclusive
<1>5. QED
  BY <1>1, <1>2, <1>3, <1>4

\* recover_abandoned takes the lock.
LEMMA RecoverEnterStep ==
  ASSUME Inductive, NEW r \in Recoverers, RecoverEnter(r)
  PROVE  Inductive'
<1> USE NoneAssumption, ProcAssumption, CrashAssumption
    DEF Inductive, Base, TypeOK, Procs, Inside, Outside, RecoverEnter, Enter,
        files, local, super, history, steals
<1>1. TypeOK'
  BY DEF Recalled
<1>2. Recalled'
  BY DEF Recalled, HasTerminal
<1>3. Directory' /\ ScanAhead' /\ SuccessHasResult'
  BY BaseFrame DEF SuccessHasResult
<1>4. ASSUME ~late' PROVE Exclusive'
  <2>1. Exclusive
    BY <1>4
  <2>2. Mutex'
    BY <2>1 DEF Exclusive, Mutex
  <2>3. Memory'
    BY <2>1 DEF Exclusive, Mutex, Memory, Mine, Source, HasTerminal, Terminal, BothTerminal
  <2>4. Settled'
    BY <2>1, SettledFrame
  <2>5. QED
    BY <2>2, <2>3, <2>4 DEF Settled, Exclusive
<1>5. QED
  BY <1>1, <1>2, <1>3, <1>4

\* _finish_locked reaches the publish only with no terminal there.
LEMMA CommitCheckStep ==
  ASSUME Inductive, NEW p \in Procs, CommitCheck(p)
  PROVE  Inductive'
<1> USE NoneAssumption, ProcAssumption, CrashAssumption
    DEF Inductive, Base, TypeOK, Procs, Inside, Outside, CommitCheck, Raise, Leave, Goto,
        files, local, super, history, steals
<1>1. TypeOK'
  BY DEF Recalled
<1>2. Recalled'
  BY DEF Recalled, HasTerminal
<1>3. Directory' /\ ScanAhead' /\ SuccessHasResult'
  BY BaseFrame DEF SuccessHasResult
<1>4. ASSUME ~late' PROVE Exclusive'
  <2>1. Exclusive
    BY <1>4
  <2>2. Mutex'
    BY <2>1 DEF Exclusive, Mutex
  <2>3. Memory'
    BY <2>1 DEF Exclusive, Mutex, Memory, Mine, Source, HasTerminal, Terminal, BothTerminal
  <2>4. Settled'
    BY <2>1, SettledFrame
  <2>5. QED
    BY <2>2, <2>3, <2>4 DEF Settled, Exclusive
<1>5. QED
  BY <1>1, <1>2, <1>3, <1>4

\* A killed process is outside every critical section.
LEMMA CrashStep ==
  ASSUME Inductive, NEW p \in Procs, Crash(p)
  PROVE  Inductive'
<1> USE NoneAssumption, ProcAssumption, CrashAssumption
    DEF Inductive, Base, TypeOK, Procs, Inside, Outside, Crash,
        files, local, super, history, steals
<1>1. TypeOK'
  BY DEF Recalled
<1>2. Recalled'
  BY DEF Recalled, HasTerminal
<1>3. Directory' /\ ScanAhead' /\ SuccessHasResult'
  BY BaseFrame DEF SuccessHasResult
<1>4. ASSUME ~late' PROVE Exclusive'
  <2>1. Exclusive
    BY <1>4
  <2>2. Mutex'
    BY <2>1 DEF Exclusive, Mutex
  <2>3. Memory'
    BY <2>1 DEF Exclusive, Mutex, Memory, Mine, Source, HasTerminal, Terminal, BothTerminal
  <2>4. Settled'
    BY <2>1, SettledFrame
  <2>5. QED
    BY <2>2, <2>3, <2>4 DEF Settled, Exclusive
<1>5. QED
  BY <1>1, <1>2, <1>3, <1>4

\* A restarted process remembers nothing.
LEMMA RestartStep ==
  ASSUME Inductive, NEW p \in Procs, Restart(p)
  PROVE  Inductive'
<1> USE NoneAssumption, ProcAssumption, CrashAssumption
    DEF Inductive, Base, TypeOK, Procs, Inside, Outside, Restart, Forget,
        files, local, super, history, steals
<1>1. TypeOK'
  BY DEF Recalled
<1>2. Recalled'
  BY DEF Recalled, HasTerminal
<1>3. Directory' /\ ScanAhead' /\ SuccessHasResult'
  BY BaseFrame DEF SuccessHasResult
<1>4. ASSUME ~late' PROVE Exclusive'
  <2>1. Exclusive
    BY <1>4
  <2>2. Mutex'
    BY <2>1 DEF Exclusive, Mutex
  <2>3. Memory'
    BY <2>1 DEF Exclusive, Mutex, Memory, Mine, Source, HasTerminal, Terminal, BothTerminal
  <2>4. Settled'
    BY <2>1, SettledFrame
  <2>5. QED
    BY <2>2, <2>3, <2>4 DEF Settled, Exclusive
<1>5. QED
  BY <1>1, <1>2, <1>3, <1>4

\* A stat changes only what the waiter has seen.
LEMMA SightStep ==
  ASSUME Inductive, NEW p \in Procs, Sight(p)
  PROVE  Inductive'
<1> USE NoneAssumption, ProcAssumption, CrashAssumption
    DEF Inductive, Base, TypeOK, Sight, files, local, super, history
<1>1. TypeOK'
  OBVIOUS
<1>2. Recalled'
  BY DEF Recalled, HasTerminal
<1>3. Directory' /\ ScanAhead' /\ SuccessHasResult'
  BY BaseFrame DEF SuccessHasResult
<1>4. ASSUME ~late' PROVE Exclusive'
  <2>1. Exclusive
    BY <1>4
  <2>2. Mutex' /\ Memory'
    BY <2>1 DEF Exclusive, Mutex, Memory, Mine, HasTerminal, Terminal
  <2>3. QED
    BY <2>1, <2>2, SettledFrame DEF Settled, Exclusive
<1>5. QED
  BY <1>1, <1>2, <1>3, <1>4

\* The rename keeps exclusion unless it takes the lock of a live holder, and
\* then late says so.
LEMMA StealRenameStep ==
  ASSUME Inductive, NEW p \in Procs, StealRename(p)
  PROVE  Inductive'
<1> USE NoneAssumption, ProcAssumption, CrashAssumption
    DEF Inductive, Base, StealRename, files, local, super, history
<1>1. TypeOK'
  BY DEF TypeOK
<1>2. Recalled'
  BY DEF Recalled, HasTerminal
<1>3. Directory' /\ ScanAhead' /\ SuccessHasResult'
  BY BaseFrame DEF SuccessHasResult
<1>4. ASSUME ~late' PROVE Exclusive'
  <2>1. Exclusive /\ (lock = None \/ pc[lock] \notin Inside)
    BY <1>4 DEF TypeOK
  <2>2. \A q \in Procs : pc[q] \notin Inside
    BY <2>1 DEF Exclusive, Mutex, Procs
  <2>3. Mutex'
    BY <2>2 DEF Mutex
  <2>4. Memory'
    BY <2>1 DEF Exclusive, Memory, Mine, HasTerminal, Terminal
  <2>5. QED
    BY <2>1, <2>3, <2>4, SettledFrame DEF Settled, Exclusive
<1>5. QED
  BY <1>1, <1>2, <1>3, <1>4

-----------------------------------------------------------------------------
(***************************************************************************)
(* The steps that change the directory                                     *)
(***************************************************************************)

\* A closed job whose pending file is unlinked stays in its terminal bucket.
LEMMA ClaimScanStep ==
  ASSUME Inductive, NEW w \in Workers, ClaimScan(w)
  PROVE  Inductive'
<1> USE NoneAssumption, ProcAssumption, CrashAssumption
    DEF Inductive, Base, TypeOK, Procs, Inside, Outside, ClaimScan, Raise, Leave, Goto,
        files, local, super, history, steals
<1>1. TypeOK'
  BY DEF Recalled, Directory
<1>2. Recalled'
  BY DEF Recalled, Directory, HasTerminal
<1>3. Directory'
  <2>1. \A i \in Jobs : HasTerminal(i) => \E t \in Tokens : owner[t] = i
    BY DEF Directory, HasTerminal, Terminals
  <2>2. pending' \subseteq pending /\ \A i \in pending \ pending' : HasTerminal(i)
    OBVIOUS
  <2>3. QED
    BY <2>1, <2>2 DEF Directory, HasTerminal
<1>4. ScanAhead'
  BY DEF ScanAhead, Recalled, Directory, HasTerminal
<1>5. SuccessHasResult'
  BY DEF SuccessHasResult, Recalled
<1>6. ASSUME ~late' PROVE Exclusive'
  <2>1. Exclusive
    BY <1>6
  <2> USE <2>1 DEF Exclusive
  <2>2. Mutex'
    BY DEF Mutex
  <2>3. Memory'
    BY DEF Mutex, Memory, Mine, Source, HasTerminal, Terminal, BothTerminal
  <2>4. Unclaimed'
    BY DEF Unclaimed, Memory, Recalled, ScanAhead, Directory
  <2>5. OneTerminal' /\ ClaimedOnce'
    BY DEF OneTerminal, BothTerminal, ClaimedOnce, Unclaimed, Memory, HasTerminal
  <2>6. AckedIsTerminal'
    BY DEF AckedIsTerminal, HasTerminal, Terminal, Memory, Recalled, Mine, Source, OneTerminal, BothTerminal
  <2>7. QED
    BY <2>2, <2>3, <2>4, <2>5, <2>6
<1>7. QED
  BY <1>1, <1>2, <1>3, <1>4, <1>5, <1>6

\* Inside the lock the pending file of the chosen job is still there, so none
\* is made.
LEMMA ClaimWriteStep ==
  ASSUME Inductive, NEW w \in Workers, ClaimWrite(w)
  PROVE  Inductive'
<1> USE NoneAssumption, ProcAssumption, CrashAssumption
    DEF Inductive, Base, TypeOK, Procs, Inside, Outside, ClaimWrite, Goto,
        files, local, super, history, steals
<1>1. TypeOK'
  BY DEF Recalled, Directory
<1>2. Recalled'
  BY DEF Recalled, Directory, HasTerminal
<1>3. Directory'
  BY DEF Recalled, Directory, HasTerminal
<1>4. ScanAhead'
  BY DEF ScanAhead, Recalled, Directory, HasTerminal
<1>5. SuccessHasResult'
  BY DEF SuccessHasResult, Recalled
<1>6. ASSUME ~late' PROVE Exclusive'
  <2>1. Exclusive
    BY <1>6
  <2> USE <2>1 DEF Exclusive
  <2>2. Mutex'
    BY DEF Mutex
  <2>3. Memory'
    BY DEF Mutex, Memory, Mine, Source, HasTerminal, Terminal, BothTerminal
  <2>4. Unclaimed'
    BY DEF Unclaimed, Memory, Recalled, ScanAhead, Directory
  <2>5. OneTerminal' /\ ClaimedOnce'
    BY DEF OneTerminal, BothTerminal, ClaimedOnce, Unclaimed, Memory, HasTerminal
  <2>6. AckedIsTerminal'
    BY DEF AckedIsTerminal, HasTerminal, Terminal, Memory, Recalled, Mine, Source, OneTerminal, BothTerminal
  <2>7. QED
    BY <2>2, <2>3, <2>4, <2>5, <2>6
<1>7. QED
  BY <1>1, <1>2, <1>3, <1>4, <1>5, <1>6

\* The rename moves the job from pending to running under a new token.
LEMMA ClaimRenameStep ==
  ASSUME Inductive, NEW w \in Workers, ClaimRename(w)
  PROVE  Inductive'
<1> USE NoneAssumption, ProcAssumption, CrashAssumption
    DEF Inductive, Base, TypeOK, Procs, Inside, Outside, ClaimRename, Leave, Goto, Claims,
        files, local, super, history, steals
<1>1. TypeOK'
  BY DEF Recalled, Directory
<1>2. Recalled'
  BY DEF Recalled, Directory, HasTerminal
<1>3. Directory'
  <2>1. CASE job[w] \notin pending
    BY <2>1 DEF Directory, HasTerminal
  <2>2. CASE job[w] \in pending
    <3> PICK t \in Tokens : ClaimRename(w)!2!2!(t)
      BY <2>2
    <3>1. running'[t] # None /\ owner'[t] = job[w] /\ job[w] \in Jobs /\ owner[t] = None
      BY <2>2
    <3>2. QED
      BY <2>2, <3>1 DEF Directory, HasTerminal
  <2>3. QED
    BY <2>1, <2>2
<1>4. ScanAhead'
  BY DEF ScanAhead, Recalled, Directory, HasTerminal
<1>5. SuccessHasResult'
  BY DEF SuccessHasResult, Recalled
<1>6. ASSUME ~late' PROVE Exclusive'
  <2>1. Exclusive
    BY <1>6
  <2> USE <2>1 DEF Exclusive
  <2>2. Mutex'
    BY DEF Mutex
  <2>3. Memory'
    BY DEF Mutex, Memory, Mine, Source, HasTerminal, Terminal, BothTerminal
  <2>4. Unclaimed'
    BY DEF Unclaimed, Memory, Recalled, ScanAhead, Directory
  <2>5. OneTerminal' /\ ClaimedOnce'
    BY DEF OneTerminal, BothTerminal, ClaimedOnce, Unclaimed, Memory, HasTerminal
  <2>6. AckedIsTerminal'
    BY DEF AckedIsTerminal, HasTerminal, Terminal, Memory, Recalled, Mine, Source, OneTerminal, BothTerminal
  <2>7. QED
    BY <2>2, <2>3, <2>4, <2>5, <2>6
<1>7. QED
  BY <1>1, <1>2, <1>3, <1>4, <1>5, <1>6

\* The renewed claim has the job of the claim it replaces.
LEMMA HeartbeatWriteStep ==
  ASSUME Inductive, NEW w \in Workers, HeartbeatWrite(w)
  PROVE  Inductive'
<1> USE NoneAssumption, ProcAssumption, CrashAssumption
    DEF Inductive, Base, TypeOK, Procs, Inside, Outside, HeartbeatWrite, Leave, Claims,
        files, local, super, history, steals
<1>1. TypeOK'
  BY DEF Recalled, Directory
<1>2. Recalled'
  BY DEF Recalled, Directory, HasTerminal
<1>3. Directory'
  BY DEF Recalled, Directory, HasTerminal
<1>4. ScanAhead'
  BY DEF ScanAhead, Recalled, Directory, HasTerminal
<1>5. SuccessHasResult'
  BY DEF SuccessHasResult, Recalled
<1>6. ASSUME ~late' PROVE Exclusive'
  <2>1. Exclusive
    BY <1>6
  <2> USE <2>1 DEF Exclusive
  <2>2. Mutex'
    BY DEF Mutex
  <2>3. Memory'
    BY DEF Mutex, Memory, Mine, Source, HasTerminal, Terminal, BothTerminal
  <2>4. Unclaimed'
    BY DEF Unclaimed, Memory, Recalled, ScanAhead, Directory
  <2>5. OneTerminal' /\ ClaimedOnce'
    BY DEF OneTerminal, BothTerminal, ClaimedOnce, Unclaimed, Memory, HasTerminal
  <2>6. AckedIsTerminal'
    BY DEF AckedIsTerminal, HasTerminal, Terminal, Memory, Recalled, Mine, Source, OneTerminal, BothTerminal
  <2>7. QED
    BY <2>2, <2>3, <2>4, <2>5, <2>6
<1>7. QED
  BY <1>1, <1>2, <1>3, <1>4, <1>5, <1>6

\* recover_abandoned removes only the claim of a closed job.
LEMMA RecoverCheckStep ==
  ASSUME Inductive, NEW r \in Recoverers, RecoverCheck(r)
  PROVE  Inductive'
<1> USE NoneAssumption, ProcAssumption, CrashAssumption
    DEF Inductive, Base, TypeOK, Procs, Inside, Outside, RecoverCheck, Leave, Goto, Forget, Claims, Results,
        files, local, super, history, steals
<1>1. TypeOK'
  BY DEF Recalled, Directory
<1>2. Recalled'
  <2> SUFFICES ASSUME NEW q \in Procs PROVE Recalled!(q)'
    BY DEF Recalled
  <2>1. CASE q = r
    BY <2>1 DEF Recalled, Directory
  <2>2. CASE q # r
    BY <2>2 DEF Recalled, HasTerminal
  <2>3. QED
    BY <2>1, <2>2
<1>3. Directory'
  BY DEF Recalled, Directory, HasTerminal
<1>4. ScanAhead'
  BY DEF ScanAhead, Recalled, Directory, HasTerminal
<1>5. SuccessHasResult'
  BY DEF SuccessHasResult, Recalled
<1>6. ASSUME ~late' PROVE Exclusive'
  <2>1. Exclusive
    BY <1>6
  <2> USE <2>1 DEF Exclusive
  <2>2. Mutex'
    BY DEF Mutex
  <2>3. Memory'
    <3> SUFFICES ASSUME NEW q \in Procs PROVE Memory!(q)'
      BY DEF Memory
    <3>1. CASE q = r
      BY <3>1 DEF Exclusive, Memory
    <3>2. CASE q # r
      BY <3>2 DEF Exclusive, Memory, Mutex, Mine, HasTerminal, Terminal
    <3>3. QED
      BY <3>1, <3>2
  <2>4. Unclaimed'
    BY DEF Unclaimed, Memory, Recalled, ScanAhead, Directory
  <2>5. OneTerminal' /\ ClaimedOnce'
    BY DEF OneTerminal, BothTerminal, ClaimedOnce, Unclaimed, Memory, HasTerminal
  <2>6. AckedIsTerminal'
    BY DEF AckedIsTerminal, HasTerminal, Terminal, Memory, Recalled, Mine, Source, OneTerminal, BothTerminal
  <2>7. QED
    BY <2>2, <2>3, <2>4, <2>5, <2>6
<1>7. QED
  BY <1>1, <1>2, <1>3, <1>4, <1>5, <1>6

\* Inside the lock the publish finds neither bucket occupied: one terminal
\* stays one.
LEMMA CommitPublishStep ==
  ASSUME Inductive, NEW p \in Procs, CommitPublish(p)
  PROVE  Inductive'
<1> USE NoneAssumption, ProcAssumption, CrashAssumption
    DEF Inductive, Base, TypeOK, Procs, Inside, Outside, CommitPublish, Raise, Leave, Goto, Mine, Source, Sources, Terminals, Results,
        files, local, super, history, steals
<1>1. TypeOK'
  BY DEF Recalled, Directory
<1>2. Recalled'
  BY DEF Recalled, Directory, HasTerminal
<1>3. Directory'
  BY DEF Recalled, Directory, HasTerminal
<1>4. ScanAhead'
  BY DEF ScanAhead, Recalled, Directory, HasTerminal
<1>5. SuccessHasResult'
  BY DEF SuccessHasResult, Recalled
<1>6. ASSUME ~late' PROVE Exclusive'
  <2>1. Exclusive
    BY <1>6
  <2> USE <2>1 DEF Exclusive
  <2>2. Mutex'
    BY DEF Mutex
  <2>3. Memory'
    <3> SUFFICES ASSUME NEW q \in Procs PROVE Memory!(q)'
      BY DEF Memory
    <3>1. CASE q = p
      BY <3>1 DEF Exclusive, Memory, Recalled, HasTerminal, Terminal
    <3>2. CASE q # p
      BY <3>2 DEF Exclusive, Memory, Mutex, Mine, HasTerminal, Terminal
    <3>3. QED
      BY <3>1, <3>2
  <2>4. Unclaimed'
    BY DEF Unclaimed, Memory, Recalled, ScanAhead, Directory
  <2>5. OneTerminal' /\ ClaimedOnce'
    BY DEF OneTerminal, BothTerminal, ClaimedOnce, Unclaimed, Memory, HasTerminal
  <2>6. AckedIsTerminal'
    BY DEF AckedIsTerminal, HasTerminal, Terminal, Memory, Recalled, Mine, Source, OneTerminal, BothTerminal
  <2>7. QED
    BY <2>2, <2>3, <2>4, <2>5, <2>6
<1>7. QED
  BY <1>1, <1>2, <1>3, <1>4, <1>5, <1>6

\* The claim goes once its terminal is there, which is what is acknowledged.
LEMMA CommitCleanStep ==
  ASSUME Inductive, NEW p \in Procs, CommitClean(p)
  PROVE  Inductive'
<1> USE NoneAssumption, ProcAssumption, CrashAssumption
    DEF Inductive, Base, TypeOK, Procs, Inside, Outside, CommitClean, Leave, Forget,
        files, local, super, history, steals
<1>1. TypeOK'
  BY DEF Recalled, Directory
<1>2. Recalled'
  BY DEF Recalled, Directory, HasTerminal
<1>3. Directory'
  BY DEF Recalled, Directory, HasTerminal
<1>4. ScanAhead'
  BY DEF ScanAhead, Recalled, Directory, HasTerminal
<1>5. SuccessHasResult'
  BY DEF SuccessHasResult, Recalled
<1>6. ASSUME ~late' PROVE Exclusive'
  <2>1. Exclusive
    BY <1>6
  <2> USE <2>1 DEF Exclusive
  <2>2. Mutex'
    BY DEF Mutex
  <2>3. Memory'
    BY DEF Mutex, Memory, Mine, Source, HasTerminal, Terminal, BothTerminal
  <2>4. Unclaimed'
    BY DEF Unclaimed, Memory, Recalled, ScanAhead, Directory
  <2>5. OneTerminal' /\ ClaimedOnce'
    BY DEF OneTerminal, BothTerminal, ClaimedOnce, Unclaimed, Memory, HasTerminal
  <2>6. AckedIsTerminal'
    BY DEF AckedIsTerminal, HasTerminal, Terminal, Memory, Recalled, Mine, Source, OneTerminal, BothTerminal
  <2>7. QED
    BY <2>2, <2>3, <2>4, <2>5, <2>6
<1>7. QED
  BY <1>1, <1>2, <1>3, <1>4, <1>5, <1>6

-----------------------------------------------------------------------------
(***************************************************************************)
(* The supervisor's pass, and time                                         *)
(***************************************************************************)

\* A new scan has listed every pending job.
LEMMA ScanStartStep ==
  ASSUME Inductive, ScanStart
  PROVE  Inductive'
<1> USE NoneAssumption, ProcAssumption, CrashAssumption
    DEF Inductive, Base, TypeOK, Procs, Inside, Outside, ScanStart, Paths,
        files, local, super, history, steals
<1>1. TypeOK'
  BY DEF Recalled, Directory
<1>2. Recalled'
  BY DEF Recalled, Directory, HasTerminal
<1>3. Directory'
  BY DEF Recalled, Directory, HasTerminal
<1>4. ScanAhead'
  BY DEF ScanAhead, Recalled, Directory, HasTerminal
<1>5. SuccessHasResult'
  BY DEF SuccessHasResult, Recalled
<1>6. ASSUME ~late' PROVE Exclusive'
  <2>1. Exclusive
    BY <1>6
  <2> USE <2>1 DEF Exclusive
  <2>2. Mutex'
    BY DEF Mutex
  <2>3. Memory'
    BY DEF Mutex, Memory, Mine, Source, HasTerminal, Terminal, BothTerminal
  <2>4. Unclaimed'
    BY DEF Unclaimed, Memory, Recalled, ScanAhead, Directory
  <2>5. OneTerminal' /\ ClaimedOnce'
    BY DEF OneTerminal, BothTerminal, ClaimedOnce, Unclaimed, Memory, HasTerminal
  <2>6. AckedIsTerminal'
    BY DEF AckedIsTerminal, HasTerminal, Terminal, Memory, Recalled, Mine, Source, OneTerminal, BothTerminal
  <2>7. QED
    BY <2>2, <2>3, <2>4, <2>5, <2>6
<1>7. QED
  BY <1>1, <1>2, <1>3, <1>4, <1>5, <1>6

\* A listed path that has gone means its job has moved ahead of the scan.
LEMMA ScanReadStep ==
  ASSUME Inductive, ScanRead
  PROVE  Inductive'
<1> USE NoneAssumption, ProcAssumption, CrashAssumption
    DEF Inductive, Base, TypeOK, Procs, Inside, Outside, ScanRead, Paths, Claims,
        files, local, super, history, steals
<1>1. TypeOK'
  BY DEF Recalled, Directory
<1>2. Recalled'
  BY DEF Recalled, Directory, HasTerminal
<1>3. Directory'
  BY DEF Recalled, Directory, HasTerminal
<1>4. ScanAhead'
  BY DEF ScanAhead, Recalled, Directory, HasTerminal
<1>5. SuccessHasResult'
  BY DEF SuccessHasResult, Recalled
<1>6. ASSUME ~late' PROVE Exclusive'
  <2>1. Exclusive
    BY <1>6
  <2> USE <2>1 DEF Exclusive
  <2>2. Mutex'
    BY DEF Mutex
  <2>3. Memory'
    BY DEF Mutex, Memory, Mine, Source, HasTerminal, Terminal, BothTerminal
  <2>4. Unclaimed'
    BY DEF Unclaimed, Memory, Recalled, ScanAhead, Directory
  <2>5. OneTerminal' /\ ClaimedOnce'
    BY DEF OneTerminal, BothTerminal, ClaimedOnce, Unclaimed, Memory, HasTerminal
  <2>6. AckedIsTerminal'
    BY DEF AckedIsTerminal, HasTerminal, Terminal, Memory, Recalled, Mine, Source, OneTerminal, BothTerminal
  <2>7. QED
    BY <2>2, <2>3, <2>4, <2>5, <2>6
<1>7. QED
  BY <1>1, <1>2, <1>3, <1>4, <1>5, <1>6

\* A job that left a bucket is in one the scan has not listed.
LEMMA ScanNextStep ==
  ASSUME Inductive, ScanNext
  PROVE  Inductive'
<1> USE NoneAssumption, ProcAssumption, CrashAssumption
    DEF Inductive, Base, TypeOK, Procs, Inside, Outside, ScanNext, Paths, After,
        files, local, super, history, steals
<1>1. TypeOK'
  BY DEF Recalled, Directory
<1>2. Recalled'
  BY DEF Recalled, Directory, HasTerminal
<1>3. Directory'
  BY DEF Recalled, Directory, HasTerminal
<1>4. ScanAhead'
  BY DEF ScanAhead, Recalled, Directory, HasTerminal
<1>5. SuccessHasResult'
  BY DEF SuccessHasResult, Recalled
<1>6. ASSUME ~late' PROVE Exclusive'
  <2>1. Exclusive
    BY <1>6
  <2> USE <2>1 DEF Exclusive
  <2>2. Mutex'
    BY DEF Mutex
  <2>3. Memory'
    BY DEF Mutex, Memory, Mine, Source, HasTerminal, Terminal, BothTerminal
  <2>4. Unclaimed'
    BY DEF Unclaimed, Memory, Recalled, ScanAhead, Directory
  <2>5. OneTerminal' /\ ClaimedOnce'
    BY DEF OneTerminal, BothTerminal, ClaimedOnce, Unclaimed, Memory, HasTerminal
  <2>6. AckedIsTerminal'
    BY DEF AckedIsTerminal, HasTerminal, Terminal, Memory, Recalled, Mine, Source, OneTerminal, BothTerminal
  <2>7. QED
    BY <2>2, <2>3, <2>4, <2>5, <2>6
<1>7. QED
  BY <1>1, <1>2, <1>3, <1>4, <1>5, <1>6

\* A complete scan shows that the enqueued job was never claimed.
LEMMA EnqueueStep ==
  ASSUME Inductive, NEW j \in Jobs, Enqueue(j)
  PROVE  Inductive'
<1> USE NoneAssumption, ProcAssumption, CrashAssumption
    DEF Inductive, Base, TypeOK, Procs, Inside, Outside, Enqueue,
        files, local, super, history, steals
<1>1. TypeOK'
  BY DEF Recalled, Directory
<1>2. Recalled'
  BY DEF Recalled, Directory, HasTerminal
<1>3. Directory'
  BY DEF Recalled, Directory, HasTerminal
<1>4. ScanAhead'
  BY DEF ScanAhead, Recalled, Directory, HasTerminal
<1>5. SuccessHasResult'
  BY DEF SuccessHasResult, Recalled
<1>6. ASSUME ~late' PROVE Exclusive'
  <2>1. Exclusive
    BY <1>6
  <2> USE <2>1 DEF Exclusive
  <2>2. Mutex'
    BY DEF Mutex
  <2>3. Memory'
    BY DEF Mutex, Memory, Mine, Source, HasTerminal, Terminal, BothTerminal
  <2>4. Unclaimed'
    BY DEF Unclaimed, Memory, Recalled, ScanAhead, Directory
  <2>5. OneTerminal' /\ ClaimedOnce'
    BY DEF OneTerminal, BothTerminal, ClaimedOnce, Unclaimed, Memory, HasTerminal
  <2>6. AckedIsTerminal'
    BY DEF AckedIsTerminal, HasTerminal, Terminal, Memory, Recalled, Mine, Source, OneTerminal, BothTerminal
  <2>7. QED
    BY <2>2, <2>3, <2>4, <2>5, <2>6
<1>7. QED
  BY <1>1, <1>2, <1>3, <1>4, <1>5, <1>6

\* An abandoned scan promises nothing.
LEMMA ScanEndStep ==
  ASSUME Inductive, ScanEnd
  PROVE  Inductive'
<1> USE NoneAssumption, ProcAssumption, CrashAssumption
    DEF Inductive, Base, TypeOK, Procs, Inside, Outside, ScanEnd,
        files, local, super, history, steals
<1>1. TypeOK'
  BY DEF Recalled, Directory
<1>2. Recalled'
  BY DEF Recalled, Directory, HasTerminal
<1>3. Directory'
  BY DEF Recalled, Directory, HasTerminal
<1>4. ScanAhead'
  BY DEF ScanAhead, Recalled, Directory, HasTerminal
<1>5. SuccessHasResult'
  BY DEF SuccessHasResult, Recalled
<1>6. ASSUME ~late' PROVE Exclusive'
  <2>1. Exclusive
    BY <1>6
  <2> USE <2>1 DEF Exclusive
  <2>2. Mutex'
    BY DEF Mutex
  <2>3. Memory'
    BY DEF Mutex, Memory, Mine, Source, HasTerminal, Terminal, BothTerminal
  <2>4. Unclaimed'
    BY DEF Unclaimed, Memory, Recalled, ScanAhead, Directory
  <2>5. OneTerminal' /\ ClaimedOnce'
    BY DEF OneTerminal, BothTerminal, ClaimedOnce, Unclaimed, Memory, HasTerminal
  <2>6. AckedIsTerminal'
    BY DEF AckedIsTerminal, HasTerminal, Terminal, Memory, Recalled, Mine, Source, OneTerminal, BothTerminal
  <2>7. QED
    BY <2>2, <2>3, <2>4, <2>5, <2>6
<1>7. QED
  BY <1>1, <1>2, <1>3, <1>4, <1>5, <1>6

\* The age of a claim is in none of the facts but its type.
LEMMA AgeStep ==
  ASSUME Inductive, NEW t \in Tokens, Age(t)
  PROVE  Inductive'
<1> USE NoneAssumption, ProcAssumption, CrashAssumption
    DEF Inductive, Base, TypeOK, Procs, Inside, Outside, Age, Claims,
        files, local, super, history, steals
<1>1. TypeOK'
  BY DEF Recalled, Directory
<1>2. Recalled'
  BY DEF Recalled, Directory, HasTerminal
<1>3. Directory'
  BY DEF Recalled, Directory, HasTerminal
<1>4. ScanAhead'
  BY DEF ScanAhead, Recalled, Directory, HasTerminal
<1>5. SuccessHasResult'
  BY DEF SuccessHasResult, Recalled
<1>6. ASSUME ~late' PROVE Exclusive'
  <2>1. Exclusive
    BY <1>6
  <2> USE <2>1 DEF Exclusive
  <2>2. Mutex'
    BY DEF Mutex
  <2>3. Memory'
    BY DEF Mutex, Memory, Mine, Source, HasTerminal, Terminal, BothTerminal
  <2>4. Unclaimed'
    BY DEF Unclaimed, Memory, Recalled, ScanAhead, Directory
  <2>5. OneTerminal' /\ ClaimedOnce'
    BY DEF OneTerminal, BothTerminal, ClaimedOnce, Unclaimed, Memory, HasTerminal
  <2>6. AckedIsTerminal'
    BY DEF AckedIsTerminal, HasTerminal, Terminal, Memory, Recalled, Mine, Source, OneTerminal, BothTerminal
  <2>7. QED
    BY <2>2, <2>3, <2>4, <2>5, <2>6
<1>7. QED
  BY <1>1, <1>2, <1>3, <1>4, <1>5, <1>6

-----------------------------------------------------------------------------
\* Every step of a worker keeps the invariant.
LEMMA WorkerStepKeeps ==
  ASSUME Inductive, NEW w \in Workers, WorkerStep(w)
  PROVE  Inductive'
BY ClaimEnterStep, ClaimScanStep, ClaimWriteStep, ClaimRenameStep, ClaimReturnStep,
   StartEpisodeStep, EpisodeEndStep, HeartbeatEnterStep, HeartbeatCheckStep,
   HeartbeatWriteStep, FinishEnterStep, FinishTimeoutStep DEF WorkerStep

\* Every commit step, crash and restart keeps the invariant.
LEMMA ProcStepKeeps ==
  ASSUME Inductive, NEW p \in Procs, CommitStep(p) \/ Crash(p) \/ Restart(p)
  PROVE  Inductive'
BY CommitCheckStep, CommitPublishStep, CommitCleanStep, CrashStep, RestartStep
   DEF CommitStep

\* Every step of a waiter at the lock keeps the invariant, also when the lock
\* it finds old has a live holder.
LEMMA StealKeeps ==
  ASSUME Inductive, NEW p \in Procs, StaleStat(p) \/ SlowStat(p) \/ StealRename(p)
  PROVE  Inductive'
BY SightStep, StealRenameStep DEF StaleStat, SlowStat

\* Every step of recover_abandoned keeps the invariant.
LEMMA RecovererStepKeeps ==
  ASSUME Inductive, NEW r \in Recoverers, RecovererStep(r)
  PROVE  Inductive'
BY RecoverStartStep, RecoverEnterStep, RecoverCheckStep DEF RecovererStep

\* Every step of the supervisor keeps the invariant.
LEMMA SupervisorStepKeeps ==
  ASSUME Inductive, SupervisorStep
  PROVE  Inductive'
BY ScanStartStep, ScanReadStep, ScanNextStep, ScanEndStep, EnqueueStep
   DEF SupervisorStep

\* A step that changes nothing keeps the invariant.
LEMMA StutterStep ==
  ASSUME Inductive, UNCHANGED vars
  PROVE  Inductive'
<1> USE DEF Inductive, Base, vars
<1>1. TypeOK' /\ SuccessHasResult'
  BY DEF TypeOK, SuccessHasResult
<1>2. Recalled' /\ Directory' /\ ScanAhead'
  BY BaseFrame DEF Recalled, HasTerminal, files, super
<1>3. ASSUME ~late' PROVE Exclusive'
  <2>1. Exclusive
    BY <1>3
  <2>2. Mutex' /\ Memory'
    BY <2>1 DEF Exclusive, Mutex, Memory, Mine, HasTerminal, Terminal
  <2>3. QED
    BY <2>1, <2>2, SettledFrame DEF Settled, Exclusive, files, history
<1>4. QED
  BY <1>1, <1>2, <1>3

\* The invariant is inductive, slow critical sections included.
LEMMA NextInductive == Inductive /\ [SlowNext]_vars => Inductive'
<1> SUFFICES ASSUME Inductive, [SlowNext]_vars PROVE Inductive'
  OBVIOUS
<1>1. CASE \E w \in Workers : WorkerStep(w)
  BY <1>1, WorkerStepKeeps
<1>2. CASE \E r \in Recoverers : RecovererStep(r)
  BY <1>2, RecovererStepKeeps
<1>3. CASE \E p \in Procs : CommitStep(p) \/ Crash(p) \/ Restart(p)
  BY <1>3, ProcStepKeeps
<1>4. CASE \E p \in Procs : StaleStat(p) \/ SlowStat(p) \/ StealRename(p)
  BY <1>4, StealKeeps
<1>5. CASE SupervisorStep
  BY <1>5, SupervisorStepKeeps
<1>6. CASE \E j \in Jobs : EpisodePublish(j)
  BY <1>6, EpisodePublishStep
<1>7. CASE \E t \in Tokens : Age(t)
  BY <1>7, AgeStep
<1>8. CASE UNCHANGED vars
  BY <1>8, StutterStep
<1>9. QED
  BY <1>1, <1>2, <1>3, <1>4, <1>5, <1>6, <1>7, <1>8 DEF Next, SlowNext

\* The invariant holds in every state of the queue, however long its critical
\* sections take.
THEOREM QueueInvariant == SlowSpec => []Inductive
<1>1. QED
  BY InitInductive, NextInductive, PTL DEF SlowSpec

\* Short critical sections are a case of slow ones.
LEMMA SpecIsSlow == Spec => SlowSpec
<1>1. [Next]_vars => [SlowNext]_vars
  BY DEF SlowNext
<1>2. QED
  BY <1>1, PTL DEF Spec, SlowSpec

\* A job never has both a completed and a failed terminal, unless the lock of
\* a live holder was lost.
THEOREM OneTerminalTheorem == SlowSpec => [](~late => OneTerminal)
<1>1. Inductive => (~late => OneTerminal)
  BY DEF Inductive, Exclusive
<1>2. QED
  BY <1>1, QueueInvariant, PTL

\* A job is claimed once in its life, unless the lock of a live holder was
\* lost: no episode is replayed.
THEOREM NoReplayTheorem == SlowSpec => []NoReplay
<1>1. Inductive => NoReplay
  BY DEF Inductive, Exclusive, NoReplay
<1>2. QED
  BY <1>1, QueueInvariant, PTL

\* The lock-free scan of known_job_ids misses no job that was ever enqueued,
\* whoever holds the lock.
THEOREM ScanCompleteTheorem == SlowSpec => []ScanComplete
<1>1. Inductive => ScanComplete
  BY DEF Inductive, Base, ScanAhead, ScanComplete
<1>2. QED
  BY <1>1, QueueInvariant, PTL

\* A finish that returned to its worker is that job's terminal, unless the
\* lock of a live holder was lost.
THEOREM AckedIsTerminalTheorem == SlowSpec => [](~late => AckedIsTerminal)
<1>1. Inductive => (~late => AckedIsTerminal)
  BY DEF Inductive, Exclusive
<1>2. QED
  BY <1>1, QueueInvariant, PTL

\* A job in completed/ has its result file, whoever committed it and whoever
\* holds the lock.
THEOREM SuccessHasResultTheorem == SlowSpec => []SuccessHasResult
<1>1. Inductive => SuccessHasResult
  BY DEF Inductive, Base
<1>2. QED
  BY <1>1, QueueInvariant, PTL

-----------------------------------------------------------------------------
(***************************************************************************)
(* When the lock can be lost.  With short critical sections a lock whose   *)
(* holder is outside, a sighting of it and a late rename all need a crash. *)
(***************************************************************************)
CrashFirst == \/ crashes > 0
              \/ /\ ~late /\ sighted = {}
                 /\ lock # None => lock \in Procs /\ pc[lock] \in Inside

\* Nobody crashed and nobody crashes in this step: a holder leaves the lock
\* directory only by removing it, and no waiter finds it old.
LEMMA CrashFirstKept ==
  ASSUME Inductive, CrashFirst, [Next]_vars
  PROVE  CrashFirst'
<1> USE DEF Inductive, Base, TypeOK
<1>1. CASE crashes > 0
  <2>1. crashes' = crashes \/ crashes' = crashes + 1
    <3>1. ASSUME NEW w \in Workers, WorkerStep(w) PROVE crashes' = crashes
      BY <3>1 DEF WorkerStep, ClaimEnter, ClaimScan, ClaimWrite, ClaimRename,
         ClaimReturn, StartEpisode, EpisodeEnd, HeartbeatEnter, HeartbeatCheck,
         HeartbeatWrite, FinishEnter, FinishTimeout
    <3>2. ASSUME NEW r \in Recoverers, RecovererStep(r) PROVE crashes' = crashes
      BY <3>2 DEF RecovererStep, RecoverStart, RecoverEnter, RecoverCheck
    <3>3. ASSUME NEW p \in Procs, CommitStep(p) \/ Restart(p) PROVE crashes' = crashes
      BY <3>3 DEF CommitStep, CommitCheck, CommitPublish, CommitClean, Restart
    <3>4. ASSUME NEW p \in Procs, Crash(p) PROVE crashes' = crashes + 1
      BY <3>4 DEF Crash
    <3>5. ASSUME NEW p \in Procs, StaleStat(p) \/ StealRename(p) PROVE crashes' = crashes
      BY <3>5 DEF StaleStat, Sight, StealRename
    <3>6. ASSUME SupervisorStep PROVE crashes' = crashes
      BY <3>6 DEF SupervisorStep, ScanStart, ScanRead, ScanNext, ScanEnd, Enqueue
    <3>7. ASSUME NEW j \in Jobs, EpisodePublish(j) PROVE crashes' = crashes
      BY <3>7 DEF EpisodePublish
    <3>8. ASSUME NEW t \in Tokens, Age(t) PROVE crashes' = crashes
      BY <3>8 DEF Age
    <3>9. CASE UNCHANGED vars
      BY <3>9 DEF vars
    <3>10. QED
      BY <3>1, <3>2, <3>3, <3>4, <3>5, <3>6, <3>7, <3>8, <3>9 DEF Next
  <2>2. QED
    BY <1>1, <2>1, CrashAssumption DEF CrashFirst
<1>2. CASE /\ ~late /\ sighted = {}
           /\ lock # None => lock \in Procs /\ pc[lock] \in Inside
  <2> USE <1>2 DEF CrashFirst, Procs
  <2>1. ASSUME NEW w \in Workers, WorkerStep(w) PROVE CrashFirst'
    <3>1. CASE ClaimEnter(w) \/ HeartbeatEnter(w) \/ FinishEnter(w)
      BY <3>1 DEF ClaimEnter, HeartbeatEnter, FinishEnter, Enter, steals, Inside
    <3>2. CASE ClaimScan(w) \/ ClaimWrite(w) \/ ClaimRename(w) \/ ClaimReturn(w)
      BY <3>2, NoneAssumption DEF ClaimScan, ClaimWrite, ClaimRename, ClaimReturn,
         Raise, Leave, Goto, steals, Inside
    <3>3. CASE HeartbeatCheck(w) \/ HeartbeatWrite(w)
      BY <3>3 DEF HeartbeatCheck, HeartbeatWrite, Leave, Goto, steals, Inside
    <3>4. CASE StartEpisode(w) \/ EpisodeEnd(w) \/ FinishTimeout(w)
      BY <3>4 DEF StartEpisode, EpisodeEnd, FinishTimeout, Goto, steals, Inside
    <3>5. QED
      BY <2>1, <3>1, <3>2, <3>3, <3>4 DEF WorkerStep
  <2>2. ASSUME NEW r \in Recoverers, RecovererStep(r) PROVE CrashFirst'
    BY <2>2 DEF RecovererStep, RecoverStart, RecoverEnter, RecoverCheck, Enter,
       Leave, Goto, steals, Inside
  <2>3. ASSUME NEW p \in Procs, CommitStep(p) PROVE CrashFirst'
    BY <2>3 DEF CommitStep, CommitCheck, CommitPublish, CommitClean, Raise, Leave,
       Goto, steals, Inside
  <2>4. ASSUME NEW p \in Procs, Crash(p) PROVE CrashFirst'
    BY <2>4, CrashAssumption DEF Crash
  <2>5. ASSUME NEW p \in Procs, Restart(p) PROVE CrashFirst'
    BY <2>5 DEF Restart, Inside, steals
  <2>6. ASSUME NEW p \in Procs, StaleStat(p) \/ StealRename(p) PROVE CrashFirst'
    BY <2>6 DEF StaleStat, StealRename
  <2>7. ASSUME SupervisorStep PROVE CrashFirst'
    BY <2>7 DEF SupervisorStep, ScanStart, ScanRead, ScanNext, ScanEnd, Enqueue,
       local, steals
  <2>8. ASSUME NEW j \in Jobs, EpisodePublish(j) PROVE CrashFirst'
    BY <2>8 DEF EpisodePublish, local, steals
  <2>9. ASSUME NEW t \in Tokens, Age(t) PROVE CrashFirst'
    BY <2>9 DEF Age, local, steals
  <2>10. CASE UNCHANGED vars
    BY <2>10 DEF vars
  <2>11. QED
    BY <2>1, <2>2, <2>3, <2>4, <2>5, <2>6, <2>7, <2>8, <2>9, <2>10 DEF Next
<1>3. QED
  BY <1>1, <1>2 DEF CrashFirst

\* With critical sections under 120 s a live holder loses the lock only after
\* some process died: without a crash the lock excludes and all that follows
\* from it holds.
THEOREM LossTheorem == Spec => []LossNeedsCrash
<1>1. Init => CrashFirst
  BY DEF Init, CrashFirst
<1>2. CrashFirst => LossNeedsCrash
  BY DEF CrashFirst, LossNeedsCrash
<1>3. QED
  BY <1>1, <1>2, CrashFirstKept, QueueInvariant, SpecIsSlow, PTL DEF Spec

-----------------------------------------------------------------------------
(***************************************************************************)
(* Implementation of RolloutLifecycle                                      *)
(***************************************************************************)
\* What StageOf reads, without the CASE: the terminals, pending, and whether
\* some token runs the job.
LEMMA StageValues ==
  ASSUME NEW j \in Jobs
  PROVE  /\ completed[j] # None => StageOf(j) = "completed"
         /\ completed[j] = None /\ failed[j] # None => StageOf(j) = "failed"
         /\ ~HasTerminal(j) /\ j \in pending => StageOf(j) = "pending"
         /\ ~HasTerminal(j) /\ j \notin pending /\ j \in RunningJobs =>
              StageOf(j) = "running"
         /\ ~HasTerminal(j) /\ j \notin pending /\ j \notin RunningJobs =>
              StageOf(j) = "absent"
BY DEF StageOf, HasTerminal

\* A step that keeps the terminals, pending and the running jobs (of the jobs
\* that are not closed) moves no job.
LEMMA StageFrame ==
  ASSUME UNCHANGED <<completed, failed, pending>>,
         \A j \in Jobs : ~HasTerminal(j) => (j \in RunningJobs <=> j \in RunningJobs')
  PROVE  stages' = stages
<1>1. SUFFICES ASSUME NEW j \in Jobs PROVE StageOf(j)' = StageOf(j)
  BY DEF stages
<1>2. HasTerminal(j)' <=> HasTerminal(j)
  BY DEF HasTerminal
<1>3. CASE HasTerminal(j)
  BY <1>3 DEF HasTerminal, StageOf
<1>4. CASE ~HasTerminal(j)
  BY <1>2, <1>4 DEF StageOf, HasTerminal
<1>5. QED
  BY <1>3, <1>4

\* Under the invariant a pending job has no terminal, a closed or running job
\* was enqueued, and RunningJobs are the jobs of owners with a claim file.
LEMMA StageFacts ==
  ASSUME Base, Exclusive, NEW j \in Jobs
  PROVE  /\ j \in pending => ~HasTerminal(j) /\ j \notin RunningJobs
         /\ j \notin enqueued => ~HasTerminal(j) /\ j \notin pending /\ j \notin RunningJobs
         /\ j \in RunningJobs <=> \E t \in Tokens : running[t] # None /\ running[t].job = j
<1>1. j \in RunningJobs <=> \E t \in Tokens : running[t] # None /\ running[t].job = j
  BY DEF RunningJobs
<1>2. HasTerminal(j) => \E t \in Tokens : owner[t] = j
  BY NoneAssumption DEF Base, Exclusive, Unclaimed, TypeOK, Directory, HasTerminal, Terminals
<1>3. QED
  BY <1>1, <1>2, NoneAssumption DEF Base, Exclusive, Unclaimed, TypeOK, Directory, Claims

\* enqueue is Submit: the job was in no bucket.
LEMMA EnqueueSubmits ==
  ASSUME Base, Exclusive, NEW j \in Jobs, Enqueue(j)
  PROVE  Lifecycle!Next
<1>1. j \notin enqueued
  BY DEF Base, ScanAhead, Enqueue
<1>2. ~HasTerminal(j) /\ j \notin pending /\ j \notin RunningJobs
  BY <1>1, StageFacts
<1>3. stages[j] = "absent"
  BY <1>2, StageValues DEF stages
<1>4. \A i \in Jobs : StageOf(i)' = IF i = j THEN "pending" ELSE StageOf(i)
  BY <1>2 DEF Enqueue, StageOf, HasTerminal, RunningJobs
<1>5. Lifecycle!Submit(j)
  BY <1>3, <1>4 DEF stages, Lifecycle!Submit, Lifecycle!Move
<1>6. QED
  BY <1>5 DEF Lifecycle!Next

\* The ownership rename is Claim.
LEMMA ClaimRenameClaims ==
  ASSUME Base, Exclusive, NEW w \in Workers, ClaimRename(w)
  PROVE  Lifecycle!Next
<1> DEFINE j == job[w]
<1>1. j \in Jobs /\ j \in pending
  BY DEF Base, Exclusive, TypeOK, Memory, Recalled, ClaimRename, Procs
<1>2. ~HasTerminal(j) /\ j \notin RunningJobs
  BY <1>1, StageFacts
<1>3. PICK t \in Tokens : /\ owner[t] = None
                          /\ running' = [running EXCEPT ![t] = [job |-> j, age |-> "fresh"]]
  BY <1>1 DEF ClaimRename
<1>4. /\ pending' = pending \ {j}
      /\ UNCHANGED <<completed, failed>>
  BY <1>1 DEF ClaimRename
<1>5. running[t] = None
  BY <1>3, NoneAssumption DEF Base, Exclusive, Unclaimed, TypeOK, Directory, Claims
<1>6. \A i \in Jobs : i \in RunningJobs' <=> i \in RunningJobs \/ i = j
  <2>1. running'[t] # None /\ running'[t].job = j
    BY <1>1, <1>3, NoneAssumption DEF Base, Exclusive, Unclaimed, TypeOK, Claims
  <2>2. \A u \in Tokens \ {t} : running'[u] = running[u]
    BY <1>3 DEF Base, Exclusive, Unclaimed, TypeOK
  <2>3. QED
    BY <2>1, <2>2, <1>5 DEF RunningJobs
<1>7. \A i \in Jobs : StageOf(i)' = IF i = j THEN "running" ELSE StageOf(i)
  BY <1>1, <1>2, <1>4, <1>6 DEF StageOf, HasTerminal
<1>8. stages[j] = "pending"
  BY <1>1, <1>2, StageValues DEF stages
<1>9. Lifecycle!Claim(j)
  BY <1>1, <1>7, <1>8 DEF stages, Lifecycle!Claim, Lifecycle!Move
<1>10. QED
  BY <1>1, <1>9 DEF Lifecycle!Next

\* The immutable publish is Close.
LEMMA CommitPublishCloses ==
  ASSUME Base, Exclusive, NEW p \in Procs, CommitPublish(p)
  PROVE  Lifecycle!Next
<1> DEFINE j == job[p]
<1>1. /\ j \in Jobs /\ tok[p] \in Tokens /\ owner[tok[p]] = j
      /\ running[tok[p]] # None /\ ~HasTerminal(j) /\ res[p] \in Results
  BY DEF Base, Exclusive, Memory, Recalled, CommitPublish
<1>2. j \in RunningJobs /\ j \notin pending
  BY <1>1, StageFacts DEF Base, Exclusive, Unclaimed, Directory
<1>3. Mine(p) # None
  BY <1>1, NoneAssumption DEF Mine, Terminals, Source, Sources
<1>4. stages[j] = "running"
  BY <1>1, <1>2, StageValues DEF stages
<1>5. UNCHANGED <<pending, running>>
  BY DEF CommitPublish
<1>6. CASE res[p] = "success"
  <2>1. completed' = [completed EXCEPT ![j] = Mine(p)] /\ failed' = failed
    BY <1>1, <1>6 DEF CommitPublish, HasTerminal
  <2>2. \A i \in Jobs : StageOf(i)' = IF i = j THEN "completed" ELSE StageOf(i)
    BY <1>1, <1>3, <1>5, <2>1 DEF StageOf, HasTerminal, RunningJobs, Base, Exclusive, Unclaimed, TypeOK
  <2>3. Lifecycle!Close(j)
    BY <1>1, <1>4, <2>2 DEF stages, Lifecycle!Close, Lifecycle!Move
  <2>4. QED
    BY <1>1, <2>3 DEF Lifecycle!Next
<1>7. CASE res[p] = "failure"
  <2>1. failed' = [failed EXCEPT ![j] = Mine(p)] /\ completed' = completed
    BY <1>1, <1>7 DEF CommitPublish, HasTerminal
  <2>2. \A i \in Jobs : StageOf(i)' = IF i = j THEN "failed" ELSE StageOf(i)
    BY <1>1, <1>3, <1>5, <2>1 DEF StageOf, HasTerminal, RunningJobs, Base, Exclusive, Unclaimed, TypeOK
  <2>3. Lifecycle!Close(j)
    BY <1>1, <1>4, <2>2 DEF stages, Lifecycle!Close, Lifecycle!Move
  <2>4. QED
    BY <1>1, <2>3 DEF Lifecycle!Next
<1>8. QED
  BY <1>1, <1>6, <1>7 DEF Results

\* Removing the claim of a closed job moves no job.
LEMMA CleanupStutters ==
  ASSUME Base, Exclusive, NEW t \in Tokens, running' = [running EXCEPT ![t] = None],
         UNCHANGED <<completed, failed, pending>>,
         owner[t] # None => HasTerminal(owner[t])
  PROVE  stages' = stages
<1>1. \A j \in Jobs : ~HasTerminal(j) => (j \in RunningJobs <=> j \in RunningJobs')
  BY NoneAssumption DEF RunningJobs, Base, Exclusive, Unclaimed, TypeOK, Directory, Claims
<1>2. QED
  BY <1>1, StageFrame

\* Writing a claim file again with the same job moves no job.
LEMMA RewriteStutters ==
  ASSUME Base, Exclusive, NEW t \in Tokens, running[t] # None,
         NEW c \in Claims, c.job = running[t].job,
         running' = [running EXCEPT ![t] = c],
         UNCHANGED <<completed, failed, pending>>
  PROVE  stages' = stages
<1>1. \A u \in Tokens : /\ running'[u] # None <=> running[u] # None
                        /\ running[u] # None => running'[u].job = running[u].job
  BY NoneAssumption DEF Base, Exclusive, Unclaimed, TypeOK
<1>2. RunningJobs' = RunningJobs
  BY <1>1 DEF RunningJobs
<1>3. QED
  BY <1>2, StageFrame

\* A step that leaves the four buckets alone moves no job.
LEMMA FilesStutter ==
  ASSUME UNCHANGED files
  PROVE  stages' = stages
BY StageFrame DEF files, RunningJobs

\* A step of a worker is Claim or moves no job.
LEMMA WorkerImplements ==
  ASSUME Base, Exclusive, NEW w \in Workers, WorkerStep(w)
  PROVE  Lifecycle!Next \/ stages' = stages
<1>1. CASE ClaimScan(w)
  <2>1. \A j \in pending : ~HasTerminal(j)
    BY StageFacts DEF Base, Exclusive, Unclaimed, TypeOK
  <2>2. UNCHANGED files
    BY <1>1, <2>1 DEF ClaimScan, files
  <2>3. QED
    BY <2>2, FilesStutter
<1>2. CASE ClaimWrite(w)
  <2>1. job[w] \in pending
    BY <1>2 DEF Base, Exclusive, Memory, Recalled, ClaimWrite, Procs
  <2>2. UNCHANGED files
    BY <1>2, <2>1 DEF ClaimWrite, files
  <2>3. QED
    BY <2>2, FilesStutter
<1>3. CASE ClaimRename(w)
  BY <1>3, ClaimRenameClaims
<1>4. CASE HeartbeatWrite(w)
  <2>1. /\ tok[w] \in Tokens /\ running[tok[w]] # None /\ job[w] \in Jobs
        /\ running[tok[w]].job = job[w]
    BY <1>4 DEF HeartbeatWrite, Base, Exclusive, Memory, Recalled, Directory, Procs
  <2>2. [job |-> job[w], age |-> "fresh"] \in Claims
    BY <2>1 DEF Claims
  <2>3. QED
    BY <1>4, <2>1, <2>2, RewriteStutters DEF HeartbeatWrite
<1>5. CASE ClaimEnter(w) \/ ClaimReturn(w) \/ StartEpisode(w) \/ EpisodeEnd(w)
  BY <1>5, FilesStutter DEF ClaimEnter, ClaimReturn, StartEpisode, EpisodeEnd
<1>6. CASE HeartbeatEnter(w) \/ HeartbeatCheck(w) \/ FinishEnter(w) \/ FinishTimeout(w)
  BY <1>6, FilesStutter DEF HeartbeatEnter, HeartbeatCheck, FinishEnter, FinishTimeout
<1>7. QED
  BY <1>1, <1>2, <1>3, <1>4, <1>5, <1>6 DEF WorkerStep

\* A step of recover_abandoned before its commit moves no job.
LEMMA RecovererImplements ==
  ASSUME Base, Exclusive, NEW r \in Recoverers, RecovererStep(r)
  PROVE  stages' = stages
<1>1. CASE RecoverStart(r) \/ RecoverEnter(r)
  BY <1>1, FilesStutter DEF RecoverStart, RecoverEnter
<1>2. CASE RecoverCheck(r)
  <2>1. tok[r] \in Tokens
    BY <1>2 DEF RecoverCheck, Base, Exclusive, Memory, Recalled, Procs
  <2>2. UNCHANGED <<completed, failed, pending>>
    BY <1>2 DEF RecoverCheck
  <2>3. CASE running' = running
    BY <2>2, <2>3, FilesStutter DEF files
  <2>4. CASE running' # running
    <3>1. /\ running[tok[r]] # None /\ HasTerminal(running[tok[r]].job)
          /\ running' = [running EXCEPT ![tok[r]] = None]
      BY <1>2, <2>4 DEF RecoverCheck
    <3>2. HasTerminal(owner[tok[r]])
      BY <2>1, <3>1 DEF Base, Exclusive, Unclaimed, Directory
    <3>3. QED
      BY <2>1, <2>2, <3>1, <3>2, CleanupStutters
  <2>5. QED
    BY <2>3, <2>4
<1>3. QED
  BY <1>1, <1>2 DEF RecovererStep

\* A commit step is Close or moves no job; crashes move none.
LEMMA ProcImplements ==
  ASSUME Base, Exclusive, NEW p \in Procs, CommitStep(p) \/ Crash(p) \/ Restart(p)
  PROVE  Lifecycle!Next \/ stages' = stages
<1>1. CASE CommitPublish(p)
  BY <1>1, CommitPublishCloses
<1>2. CASE CommitClean(p)
  <2>1. tok[p] \in Tokens /\ HasTerminal(owner[tok[p]])
    BY <1>2 DEF CommitClean, Base, Exclusive, Memory, Recalled
  <2>2. QED
    BY <1>2, <2>1, CleanupStutters DEF CommitClean
<1>3. CASE CommitCheck(p) \/ Crash(p) \/ Restart(p)
  BY <1>3, FilesStutter DEF CommitCheck, Crash, Restart
<1>4. QED
  BY <1>1, <1>2, <1>3 DEF CommitStep

\* A step of the supervisor is Submit or moves no job.
LEMMA SupervisorImplements ==
  ASSUME Base, Exclusive, SupervisorStep
  PROVE  Lifecycle!Next \/ stages' = stages
<1>1. CASE \E j \in Jobs : Enqueue(j)
  BY <1>1, EnqueueSubmits
<1>2. CASE ScanStart \/ ScanRead \/ ScanNext \/ ScanEnd
  BY <1>2, FilesStutter DEF ScanStart, ScanRead, ScanNext, ScanEnd
<1>3. QED
  BY <1>1, <1>2 DEF SupervisorStep

\* Time moves no job.
LEMMA AgeStutters ==
  ASSUME Base, Exclusive, NEW t \in Tokens, Age(t)
  PROVE  stages' = stages
<1>1. PICK a \in {"stale", "expired"} : running' = [running EXCEPT ![t].age = a]
  BY DEF Age
<1>2. running[t] \in Claims /\ running[t] # None
  BY DEF Age, Base, Exclusive, Unclaimed, TypeOK
<1>3. PICK c \in Claims : c.job = running[t].job /\ running' = [running EXCEPT ![t] = c]
  BY <1>1, <1>2 DEF Claims, Base, Exclusive, Unclaimed, TypeOK
<1>4. QED
  BY <1>2, <1>3, RewriteStutters DEF Age

\* Only the rename of a waiter changes late.
LEMMA LateKept ==
  ASSUME [SlowNext]_vars
  PROVE  late' = late \/ \E p \in Procs : StealRename(p)
<1> USE DEF steals
<1>1. ASSUME NEW w \in Workers, WorkerStep(w) PROVE late' = late
  BY <1>1 DEF WorkerStep, ClaimEnter, ClaimScan, ClaimWrite, ClaimRename, ClaimReturn,
     StartEpisode, EpisodeEnd, HeartbeatEnter, HeartbeatCheck, HeartbeatWrite,
     FinishEnter, FinishTimeout
<1>2. ASSUME NEW r \in Recoverers, RecovererStep(r) PROVE late' = late
  BY <1>2 DEF RecovererStep, RecoverStart, RecoverEnter, RecoverCheck
<1>3. ASSUME NEW p \in Procs, CommitStep(p) \/ Crash(p) \/ Restart(p) PROVE late' = late
  BY <1>3 DEF CommitStep, CommitCheck, CommitPublish, CommitClean, Crash, Restart
<1>4. ASSUME SupervisorStep PROVE late' = late
  BY <1>4 DEF SupervisorStep, ScanStart, ScanRead, ScanNext, ScanEnd, Enqueue
<1>5. ASSUME NEW p \in Procs, StaleStat(p) \/ SlowStat(p) PROVE late' = late
  BY <1>5 DEF StaleStat, SlowStat, Sight
<1>6. ASSUME NEW j \in Jobs, EpisodePublish(j) PROVE late' = late
  BY <1>6 DEF EpisodePublish
<1>7. ASSUME NEW t \in Tokens, Age(t) PROVE late' = late
  BY <1>7 DEF Age
<1>8. CASE UNCHANGED vars
  BY <1>8 DEF vars
<1>9. QED
  BY <1>1, <1>2, <1>3, <1>4, <1>5, <1>6, <1>7, <1>8 DEF Next, SlowNext

\* Every step of the queue in which no live holder has lost the lock is a step
\* of RolloutLifecycle or moves no job.
LEMMA NextImplements ==
  ASSUME Inductive, [SlowNext]_vars, ~late'
  PROVE  Lifecycle!Next \/ UNCHANGED stages
<1>1. ~late
  <2>1. CASE \E p \in Procs : StealRename(p)
    BY <2>1 DEF StealRename, Inductive, Base, TypeOK
  <2>2. CASE late' = late
    BY <2>2
  <2>3. QED
    BY <2>1, <2>2, LateKept
<1>2. Base /\ Exclusive
  BY <1>1 DEF Inductive
<1>3. CASE \E w \in Workers : WorkerStep(w)
  BY <1>2, <1>3, WorkerImplements
<1>4. CASE \E r \in Recoverers : RecovererStep(r)
  BY <1>2, <1>4, RecovererImplements
<1>5. CASE \E p \in Procs : CommitStep(p) \/ Crash(p) \/ Restart(p)
  BY <1>2, <1>5, ProcImplements
<1>6. CASE SupervisorStep
  BY <1>2, <1>6, SupervisorImplements
<1>7. CASE \E p \in Procs : StaleStat(p) \/ SlowStat(p) \/ StealRename(p)
  BY <1>7, FilesStutter DEF StaleStat, SlowStat, Sight, StealRename
<1>8. CASE (\E j \in Jobs : EpisodePublish(j)) \/ UNCHANGED vars
  BY <1>8, FilesStutter DEF EpisodePublish, vars, files
<1>9. CASE \E t \in Tokens : Age(t)
  BY <1>2, <1>9, AgeStutters
<1>10. QED
  BY <1>3, <1>4, <1>5, <1>6, <1>7, <1>8, <1>9 DEF Next, SlowNext

\* The empty directory has every job absent.
LEMMA InitImplements == Init => Lifecycle!Init
<1> SUFFICES ASSUME Init PROVE stages = [j \in Jobs |-> "absent"]
  BY DEF Lifecycle!Init, stages
<1>1. \A j \in Jobs : ~HasTerminal(j) /\ j \notin pending /\ j \notin RunningJobs
  BY DEF Init, HasTerminal, RunningJobs
<1>2. QED
  BY <1>1, StageValues DEF stages

\* The queue implements RolloutLifecycle: with any number of workers and
\* recoverers, crashing anywhere, a job is submitted once, claimed once and
\* closed once, and never moves back, until a live holder loses the lock.
THEOREM LifecycleTheorem == SlowSpec => ImplementsLifecycle
<1>1. Inductive /\ [SlowNext]_vars =>
        [~late' => Lifecycle!Next \/ UNCHANGED stages]_vars
  BY NextImplements
<1>2. QED
  BY <1>1, InitImplements, QueueInvariant, PTL DEF SlowSpec, ImplementsLifecycle

-----------------------------------------------------------------------------
(***************************************************************************)
(* That a published terminal is never replaced rests on the hard link      *)
(* alone, so it holds whether or not the lock excludes.                    *)
(***************************************************************************)
Tables == /\ completed = [j \in Jobs |-> completed[j]]
          /\ failed = [j \in Jobs |-> failed[j]]

\* Only CommitPublish writes a terminal bucket.
LEMMA OnlyPublishWrites ==
  ASSUME [SlowNext]_vars
  PROVE  UNCHANGED <<completed, failed>> \/ \E p \in Procs : CommitPublish(p)
<1>1. ASSUME NEW w \in Workers, WorkerStep(w) PROVE UNCHANGED <<completed, failed>>
  BY <1>1 DEF WorkerStep, ClaimEnter, ClaimScan, ClaimWrite, ClaimRename, ClaimReturn,
     StartEpisode, EpisodeEnd, HeartbeatEnter, HeartbeatCheck, HeartbeatWrite,
     FinishEnter, FinishTimeout, files
<1>2. ASSUME NEW r \in Recoverers, RecovererStep(r) PROVE UNCHANGED <<completed, failed>>
  BY <1>2 DEF RecovererStep, RecoverStart, RecoverEnter, RecoverCheck, files
<1>3. ASSUME NEW p \in Procs, CommitCheck(p) \/ CommitClean(p) \/ Crash(p) \/ Restart(p)
      PROVE  UNCHANGED <<completed, failed>>
  BY <1>3 DEF CommitCheck, CommitClean, Crash, Restart, files
<1>4. ASSUME SupervisorStep PROVE UNCHANGED <<completed, failed>>
  BY <1>4 DEF SupervisorStep, ScanStart, ScanRead, ScanNext, ScanEnd, Enqueue, files
<1>5. ASSUME \/ \E p \in Procs : StaleStat(p) \/ SlowStat(p) \/ StealRename(p)
             \/ \E j \in Jobs : EpisodePublish(j)
      PROVE  UNCHANGED <<completed, failed>>
  BY <1>5 DEF StaleStat, SlowStat, Sight, StealRename, EpisodePublish, files
<1>6. ASSUME NEW t \in Tokens, Age(t) PROVE UNCHANGED <<completed, failed>>
  BY <1>6 DEF Age
<1>7. CASE UNCHANGED vars
  BY <1>7 DEF vars
<1>8. QED
  BY <1>1, <1>2, <1>3, <1>4, <1>5, <1>6, <1>7 DEF Next, SlowNext, CommitStep

\* The hard link refuses to replace a terminal, whoever holds the lock.
LEMMA PublishKeepsTerminals ==
  ASSUME Tables, [SlowNext]_vars
  PROVE  /\ Tables'
         /\ \A j \in Jobs : /\ completed[j] # None => completed'[j] = completed[j]
                            /\ failed[j] # None => failed'[j] = failed[j]
<1>1. CASE UNCHANGED <<completed, failed>>
  BY <1>1 DEF Tables
<1>2. CASE \E p \in Procs : CommitPublish(p)
  BY <1>2 DEF Tables, CommitPublish
<1>3. QED
  BY <1>1, <1>2, OnlyPublishWrites

\* No step replaces or removes a terminal, even when the claim lock is taken
\* from a live holder.
THEOREM TerminalImmutableTheorem == SlowSpec => TerminalImmutable
<1>1. Init => Tables
  BY DEF Init, Tables
<1>2. Tables /\ [SlowNext]_vars => Tables'
  BY PublishKeepsTerminals
<1>3. Tables /\ [SlowNext]_vars =>
        [\A j \in Jobs : /\ completed[j] # None => completed'[j] = completed[j]
                         /\ failed[j] # None => failed'[j] = failed[j]]_vars
  BY PublishKeepsTerminals
<1>4. QED
  BY <1>1, <1>2, <1>3, PTL DEF SlowSpec, TerminalImmutable

=============================================================================
