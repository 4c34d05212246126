-------------------------- MODULE QueueRaceProofs --------------------------
(***************************************************************************)
(* The safety properties of the earliest-start race, for any set of jobs,  *)
(* any number of candidate sites, SSH attempts and crashes.  The typing    *)
(* theorem holds for both restart commands; the others need that a dead    *)
(* race is restarted with `resume` only (the assumption ResumeOnly).       *)
(***************************************************************************)
EXTENDS QueueRace, FiniteSetTheorems, TLAPS

ResumeOnly == "run" \notin Restarts

\* Where a fallback is being raced or monitored.
RacePoints == Points \ {"down", "submit", "record", "cancelFallback"}
\* Where a trial is being watched.
WatchPoints == {"watch", "watchTrial", "dropTrial", "clearTrial", "adopt"}
\* Where a candidate is being submitted.
CandidatePoints == {"pick", "trialCheck", "trialSubmit", "trialPersist"}
\* Where the superseded fallback of an adopted trial may still be live.
SettlingPoints == {"down", "scan", "cancelOld", "cancelFallback"}

Status == facts.replacement_status
Known == {facts.job, facts.fallback_job, facts.replacement_job}

\* What the program counter says about the phase.
PhaseInv ==
  /\ pc \in {"submit", "record"} => phase = "prepared"
  /\ pc \in RacePoints \cup {"cancelFallback"} => phase \in {"submitted", "failed"}
  /\ phase = "failed" => pc \notin {"trialSubmit", "trialPersist", "cancelFallback"}

\* The local variables agree with the durable facts.
LocalInv ==
  /\ pc \in RacePoints => cur = facts.job
  /\ phase \in {"submitted", "failed"} => facts.job \in Jobs
  /\ pc \in WatchPoints => Status = "trial" /\ trial = facts.replacement_job
  /\ pc = "clearTrial" => ~Live(trial)
  /\ pc = "cancelFallback" =>
       /\ Status = "adopted" /\ ~facts.fallback_cancelled
       /\ facts.job = trial /\ facts.fallback_job = cur
  /\ (inhand # NoJob) <=> pc \in {"record", "trialPersist"}

\* When the durable facts may record a trial or an adoption.
StatusInv ==
  /\ pc \in CandidatePoints \cup {"observe", "monitor"} => Status # "trial"
  /\ phase # "submitted" => Status # "trial"
  /\ pc \in {"cancelOld", "markOld", "rearm"} => Status = "adopted"
  /\ pc \in CandidatePoints \cup {"probe"} => Status # "adopted"
  /\ Status = "trial" =>
       /\ facts.replacement_job \in Jobs
       /\ facts.fallback_job = facts.job
       /\ facts.replacement_job # facts.job
  /\ Status = "adopted" =>
       /\ facts.fallback_job \in Jobs
       /\ facts.fallback_job # facts.job

\* A superseded fallback is dead once it is marked, and past the scan.
SupersededInv ==
  Status = "adopted" =>
    /\ facts.fallback_cancelled => ~Live(facts.fallback_job)
    /\ pc \notin SettlingPoints => ~Live(facts.fallback_job)

\* Recorded jobs exist and were never lost; the job in hand is not recorded.
IdInv ==
  /\ \A j \in Known \cap Jobs : oar[j] # "absent" /\ j \notin lost
  /\ inhand \in Jobs => /\ oar[inhand] # "absent"
                        /\ inhand \notin Known \cup lost
  /\ \A j \in lost : oar[j] # "absent"

\* Between allocations nothing but a job in hand is live.
QuietInv == phase # "submitted" => LiveJobs \subseteq lost \cup {inhand}

IInv ==
  /\ TypeOK
  /\ PhaseInv
  /\ LocalInv
  /\ StatusInv
  /\ SupersededInv
  /\ IdInv
  /\ QuietInv
  /\ Accounted
-----------------------------------------------------------------------------
(* Type correctness.                                                       *)

\* Cancelling keeps the scheduler a function of the jobs into their states.
LEMMA CancelledType ==
  ASSUME oar \in [Jobs -> OarStates], NEW j
  PROVE  Cancelled(j) \in [Jobs -> OarStates]
BY DEF Cancelled, OarStates

\* Every step of the operator, the scheduler and the restarts keeps the types.
LEMMA TypeStep == TypeOK /\ [Next]_vars => TypeOK'
<1> SUFFICES ASSUME TypeOK, [Next]_vars PROVE TypeOK'
  OBVIOUS
<1> USE JobsAssumption, BoundsAssumption
        DEF TypeOK, Facts, Points, Phases, OarStates, ReplacementStatuses, Forecasts, Goto
<1>1. CASE SubmitReplied("submit", "record")
  BY <1>1 DEF SubmitReplied
<1>2. CASE SubmitReplied("trialSubmit", "trialPersist")
  BY <1>2 DEF SubmitReplied
<1>3. CASE SubmitFailed("submit", "down")
  BY <1>3 DEF SubmitFailed
<1>4. CASE SubmitFailed("trialSubmit", "pick")
  BY <1>4 DEF SubmitFailed
<1>5. CASE RecordSubmission
  BY <1>5 DEF RecordSubmission
<1>6. CASE ScanFallback
  BY <1>6 DEF ScanFallback, local, AfterAdopted, StaleFallback, StatusOf
<1>7. CASE CancelStaleFallback
  BY <1>7, CancelledType DEF CancelStaleFallback, local
<1>8. CASE MarkFallbackCancelled
  BY <1>8 DEF MarkFallbackCancelled, local, AfterAdopted
<1>9. CASE RearmFallback
  BY <1>9 DEF RearmFallback, local
<1>10. CASE ProbeSites
  BY <1>10 DEF ProbeSites, local, ExistingTrial
<1>11. CASE PickCandidate
  BY <1>11 DEF PickCandidate, local
<1>12. CASE CheckFallbackQueued
  BY <1>12 DEF CheckFallbackQueued, local
<1>13. CASE PersistTrial
  BY <1>13 DEF PersistTrial, local
<1>14. CASE WatchFallback
  BY <1>14 DEF WatchFallback, local
<1>15. CASE WatchTrial
  BY <1>15 DEF WatchTrial, local
<1>16. CASE DropTrial
  BY <1>16, CancelledType DEF DropTrial, local
<1>17. CASE ClearTrial
  BY <1>17 DEF ClearTrial, local
<1>18. CASE AdoptTrial
  BY <1>18 DEF AdoptTrial, local
<1>19. CASE CancelFallback
  BY <1>19, CancelledType DEF CancelFallback, local
<1>20. CASE ObserveFallback
  BY <1>20 DEF ObserveFallback, local, StatusOf
<1>21. CASE ClassifyTerminal
  BY <1>21 DEF ClassifyTerminal, local
<1>22. CASE DeadlinePasses
  BY <1>22 DEF DeadlinePasses
<1>23. CASE Crash
  BY <1>23 DEF Crash
<1>24. CASE \E command \in Restarts : Restart(command)
  BY <1>24 DEF Restart, Reattach
<1>25. CASE \E j \in Jobs : JobProgress(j)
  BY <1>25 DEF JobProgress, local
<1>26. CASE UNCHANGED vars \/ Finished
  BY <1>26 DEF Finished, vars, local
<1> QED
  BY <1>1, <1>2, <1>3, <1>4, <1>5, <1>6, <1>7, <1>8, <1>9, <1>10, <1>11, <1>12, <1>13, <1>14, <1>15, <1>16, <1>17, <1>18, <1>19, <1>20, <1>21, <1>22, <1>23, <1>24, <1>25, <1>26
     DEF Next, Operator, Submission, Race

\* The run starts with nothing submitted and nothing recorded.
LEMMA InitType ==
  ASSUME Init
  PROVE  TypeOK
<1>1. facts \in Facts
  BY DEF Init, Facts, ReplacementStatuses
<1>2. oar \in [Jobs -> OarStates]
  BY DEF Init, OarStates
<1>3. pending \in 0 .. MaxCandidates /\ attempt \in 1 .. Attempts /\ crashes \in 0 .. MaxCrashes
  BY BoundsAssumption DEF Init
<1> QED
  BY <1>1, <1>2, <1>3 DEF Init, TypeOK, Points, Phases

\* Typing for every restart command: the durable facts never hold anything
\* but job ids, and no local counter of the race leaves its range.
THEOREM TypeCorrect == Spec => []TypeOK
<1>1. Init => TypeOK
  BY InitType
<1> QED
  BY <1>1, TypeStep, PTL DEF Spec

-----------------------------------------------------------------------------
(* The inductive invariant.                                                *)

\* With `resume` as the only restart, every step keeps the strengthening.
LEMMA InvStep ==
  ASSUME ResumeOnly, IInv, [Next]_vars
  PROVE  IInv'
<1>0. TypeOK'
  BY TypeStep DEF IInv
<1> USE JobsAssumption
    DEF IInv, TypeOK, Facts, PhaseInv, LocalInv, StatusInv, SupersededInv, IdInv, QuietInv,
        Accounted, Recorded, Live, LiveJobs, LiveStates, Known, Status, Goto,
        RacePoints, WatchPoints, CandidatePoints, SettlingPoints, Points
<1>1. CASE SubmitReplied("submit", "record")
  <2>1. PhaseInv'
    BY <1>1 DEF SubmitReplied, Fresh
  <2>2. LocalInv'
    BY <1>1 DEF SubmitReplied, Fresh
  <2>3. StatusInv'
    BY <1>1 DEF SubmitReplied, Fresh
  <2>4. SupersededInv'
    BY <1>1 DEF SubmitReplied, Fresh
  <2>5. IdInv'
    BY <1>1 DEF SubmitReplied, Fresh
  <2>6. QuietInv'
    BY <1>1 DEF SubmitReplied, Fresh
  <2>7. Accounted'
    BY <1>1 DEF SubmitReplied, Fresh
  <2> QED
    BY <1>0, <2>1, <2>2, <2>3, <2>4, <2>5, <2>6, <2>7
<1>2. CASE SubmitReplied("trialSubmit", "trialPersist")
  <2>1. PhaseInv'
    BY <1>2 DEF SubmitReplied, Fresh
  <2>2. LocalInv'
    BY <1>2 DEF SubmitReplied, Fresh
  <2>3. StatusInv'
    BY <1>2 DEF SubmitReplied, Fresh
  <2>4. SupersededInv'
    BY <1>2 DEF SubmitReplied, Fresh
  <2>5. IdInv'
    BY <1>2 DEF SubmitReplied, Fresh
  <2>6. QuietInv'
    BY <1>2 DEF SubmitReplied, Fresh
  <2>7. Accounted'
    BY <1>2 DEF SubmitReplied, Fresh
  <2> QED
    BY <1>0, <2>1, <2>2, <2>3, <2>4, <2>5, <2>6, <2>7
<1>3. CASE SubmitFailed("submit", "down")
  <2>1. PhaseInv'
    BY <1>3 DEF SubmitFailed, Fresh
  <2>2. LocalInv'
    BY <1>3 DEF SubmitFailed, Fresh
  <2>3. StatusInv'
    BY <1>3 DEF SubmitFailed, Fresh
  <2>4. SupersededInv'
    BY <1>3 DEF SubmitFailed, Fresh
  <2>5. IdInv'
    BY <1>3 DEF SubmitFailed, Fresh
  <2>6. QuietInv'
    BY <1>3 DEF SubmitFailed, Fresh
  <2>7. Accounted'
    BY <1>3 DEF SubmitFailed, Fresh
  <2> QED
    BY <1>0, <2>1, <2>2, <2>3, <2>4, <2>5, <2>6, <2>7
<1>4. CASE SubmitFailed("trialSubmit", "pick")
  <2>1. PhaseInv'
    BY <1>4 DEF SubmitFailed, Fresh
  <2>2. LocalInv'
    BY <1>4 DEF SubmitFailed, Fresh
  <2>3. StatusInv'
    BY <1>4 DEF SubmitFailed, Fresh
  <2>4. SupersededInv'
    BY <1>4 DEF SubmitFailed, Fresh
  <2>5. IdInv'
    BY <1>4 DEF SubmitFailed, Fresh
  <2>6. QuietInv'
    BY <1>4 DEF SubmitFailed, Fresh
  <2>7. Accounted'
    BY <1>4 DEF SubmitFailed, Fresh
  <2> QED
    BY <1>0, <2>1, <2>2, <2>3, <2>4, <2>5, <2>6, <2>7
<1>5. CASE RecordSubmission
  <2>1. PhaseInv'
    BY <1>5 DEF RecordSubmission
  <2>2. LocalInv'
    BY <1>5 DEF RecordSubmission
  <2>3. StatusInv'
    BY <1>5 DEF RecordSubmission
  <2>4. SupersededInv'
    BY <1>5 DEF RecordSubmission
  <2>5. IdInv'
    BY <1>5 DEF RecordSubmission
  <2>6. QuietInv'
    BY <1>5 DEF RecordSubmission
  <2>7. Accounted'
    BY <1>5 DEF RecordSubmission
  <2> QED
    BY <1>0, <2>1, <2>2, <2>3, <2>4, <2>5, <2>6, <2>7
<1>6. CASE ScanFallback
  <2>1. PhaseInv'
    BY <1>6 DEF ScanFallback, local, AfterAdopted, StaleFallback, StatusOf
  <2>2. LocalInv'
    BY <1>6 DEF ScanFallback, local, AfterAdopted, StaleFallback, StatusOf
  <2>3. StatusInv'
    BY <1>6 DEF ScanFallback, local, AfterAdopted, StaleFallback, StatusOf
  <2>4. SupersededInv'
    BY <1>6 DEF ScanFallback, local, AfterAdopted, StaleFallback, StatusOf
  <2>5. IdInv'
    BY <1>6 DEF ScanFallback, local, AfterAdopted, StaleFallback, StatusOf
  <2>6. QuietInv'
    BY <1>6 DEF ScanFallback, local, AfterAdopted, StaleFallback, StatusOf
  <2>7. Accounted'
    BY <1>6 DEF ScanFallback, local, AfterAdopted, StaleFallback, StatusOf
  <2> QED
    BY <1>0, <2>1, <2>2, <2>3, <2>4, <2>5, <2>6, <2>7
<1>7. CASE CancelStaleFallback
  <2>1. PhaseInv'
    BY <1>7 DEF CancelStaleFallback, local, Cancelled
  <2>2. LocalInv'
    BY <1>7 DEF CancelStaleFallback, local, Cancelled
  <2>3. StatusInv'
    BY <1>7 DEF CancelStaleFallback, local, Cancelled
  <2>4. SupersededInv'
    BY <1>7 DEF CancelStaleFallback, local, Cancelled
  <2>5. IdInv'
    BY <1>7 DEF CancelStaleFallback, local, Cancelled
  <2>6. QuietInv'
    BY <1>7 DEF CancelStaleFallback, local, Cancelled
  <2>7. Accounted'
    BY <1>7 DEF CancelStaleFallback, local, Cancelled
  <2> QED
    BY <1>0, <2>1, <2>2, <2>3, <2>4, <2>5, <2>6, <2>7
<1>8. CASE MarkFallbackCancelled
  <2>1. PhaseInv'
    BY <1>8 DEF MarkFallbackCancelled, local, AfterAdopted
  <2>2. LocalInv'
    BY <1>8 DEF MarkFallbackCancelled, local, AfterAdopted
  <2>3. StatusInv'
    BY <1>8 DEF MarkFallbackCancelled, local, AfterAdopted
  <2>4. SupersededInv'
    BY <1>8 DEF MarkFallbackCancelled, local, AfterAdopted
  <2>5. IdInv'
    BY <1>8 DEF MarkFallbackCancelled, local, AfterAdopted
  <2>6. QuietInv'
    BY <1>8 DEF MarkFallbackCancelled, local, AfterAdopted
  <2>7. Accounted'
    BY <1>8 DEF MarkFallbackCancelled, local, AfterAdopted
  <2> QED
    BY <1>0, <2>1, <2>2, <2>3, <2>4, <2>5, <2>6, <2>7
<1>9. CASE RearmFallback
  <2>1. PhaseInv'
    BY <1>9 DEF RearmFallback, local
  <2>2. LocalInv'
    BY <1>9 DEF RearmFallback, local
  <2>3. StatusInv'
    BY <1>9 DEF RearmFallback, local
  <2>4. SupersededInv'
    BY <1>9 DEF RearmFallback, local
  <2>5. IdInv'
    BY <1>9 DEF RearmFallback, local
  <2>6. QuietInv'
    BY <1>9 DEF RearmFallback, local
  <2>7. Accounted'
    BY <1>9 DEF RearmFallback, local
  <2> QED
    BY <1>0, <2>1, <2>2, <2>3, <2>4, <2>5, <2>6, <2>7
<1>10. CASE ProbeSites
  <2>1. PhaseInv'
    BY <1>10 DEF ProbeSites, local, ExistingTrial
  <2>2. LocalInv'
    BY <1>10 DEF ProbeSites, local, ExistingTrial
  <2>3. StatusInv'
    BY <1>10 DEF ProbeSites, local, ExistingTrial
  <2>4. SupersededInv'
    BY <1>10 DEF ProbeSites, local, ExistingTrial
  <2>5. IdInv'
    BY <1>10 DEF ProbeSites, local, ExistingTrial
  <2>6. QuietInv'
    BY <1>10 DEF ProbeSites, local, ExistingTrial
  <2>7. Accounted'
    BY <1>10 DEF ProbeSites, local, ExistingTrial
  <2> QED
    BY <1>0, <2>1, <2>2, <2>3, <2>4, <2>5, <2>6, <2>7
<1>11. CASE PickCandidate
  <2>1. PhaseInv'
    BY <1>11 DEF PickCandidate, local
  <2>2. LocalInv'
    BY <1>11 DEF PickCandidate, local
  <2>3. StatusInv'
    BY <1>11 DEF PickCandidate, local
  <2>4. SupersededInv'
    BY <1>11 DEF PickCandidate, local
  <2>5. IdInv'
    BY <1>11 DEF PickCandidate, local
  <2>6. QuietInv'
    BY <1>11 DEF PickCandidate, local
  <2>7. Accounted'
    BY <1>11 DEF PickCandidate, local
  <2> QED
    BY <1>0, <2>1, <2>2, <2>3, <2>4, <2>5, <2>6, <2>7
<1>12. CASE CheckFallbackQueued
  <2>1. PhaseInv'
    BY <1>12 DEF CheckFallbackQueued, local
  <2>2. LocalInv'
    BY <1>12 DEF CheckFallbackQueued, local
  <2>3. StatusInv'
    BY <1>12 DEF CheckFallbackQueued, local
  <2>4. SupersededInv'
    BY <1>12 DEF CheckFallbackQueued, local
  <2>5. IdInv'
    BY <1>12 DEF CheckFallbackQueued, local
  <2>6. QuietInv'
    BY <1>12 DEF CheckFallbackQueued, local
  <2>7. Accounted'
    BY <1>12 DEF CheckFallbackQueued, local
  <2> QED
    BY <1>0, <2>1, <2>2, <2>3, <2>4, <2>5, <2>6, <2>7
<1>13. CASE PersistTrial
  <2>1. PhaseInv'
    BY <1>13 DEF PersistTrial, local
  <2>2. LocalInv'
    BY <1>13 DEF PersistTrial, local
  <2>3. StatusInv'
    BY <1>13 DEF PersistTrial, local
  <2>4. SupersededInv'
    BY <1>13 DEF PersistTrial, local
  <2>5. IdInv'
    BY <1>13 DEF PersistTrial, local
  <2>6. QuietInv'
    BY <1>13 DEF PersistTrial, local
  <2>7. Accounted'
    BY <1>13 DEF PersistTrial, local
  <2> QED
    BY <1>0, <2>1, <2>2, <2>3, <2>4, <2>5, <2>6, <2>7
<1>14. CASE WatchFallback
  <2>1. PhaseInv'
    BY <1>14 DEF WatchFallback, local
  <2>2. LocalInv'
    BY <1>14 DEF WatchFallback, local
  <2>3. StatusInv'
    BY <1>14 DEF WatchFallback, local
  <2>4. SupersededInv'
    BY <1>14 DEF WatchFallback, local
  <2>5. IdInv'
    BY <1>14 DEF WatchFallback, local
  <2>6. QuietInv'
    BY <1>14 DEF WatchFallback, local
  <2>7. Accounted'
    BY <1>14 DEF WatchFallback, local
  <2> QED
    BY <1>0, <2>1, <2>2, <2>3, <2>4, <2>5, <2>6, <2>7
<1>15. CASE WatchTrial
  <2>1. PhaseInv'
    BY <1>15 DEF WatchTrial, local
  <2>2. LocalInv'
    BY <1>15 DEF WatchTrial, local
  <2>3. StatusInv'
    BY <1>15 DEF WatchTrial, local
  <2>4. SupersededInv'
    BY <1>15 DEF WatchTrial, local
  <2>5. IdInv'
    BY <1>15 DEF WatchTrial, local
  <2>6. QuietInv'
    BY <1>15 DEF WatchTrial, local
  <2>7. Accounted'
    BY <1>15 DEF WatchTrial, local
  <2> QED
    BY <1>0, <2>1, <2>2, <2>3, <2>4, <2>5, <2>6, <2>7
<1>16. CASE DropTrial
  <2>1. PhaseInv'
    BY <1>16 DEF DropTrial, local, Cancelled
  <2>2. LocalInv'
    BY <1>16 DEF DropTrial, local, Cancelled
  <2>3. StatusInv'
    BY <1>16 DEF DropTrial, local, Cancelled
  <2>4. SupersededInv'
    BY <1>16 DEF DropTrial, local, Cancelled
  <2>5. IdInv'
    BY <1>16 DEF DropTrial, local, Cancelled
  <2>6. QuietInv'
    BY <1>16 DEF DropTrial, local, Cancelled
  <2>7. Accounted'
    BY <1>16 DEF DropTrial, local, Cancelled
  <2> QED
    BY <1>0, <2>1, <2>2, <2>3, <2>4, <2>5, <2>6, <2>7
<1>17. CASE ClearTrial
  <2>1. PhaseInv'
    BY <1>17 DEF ClearTrial, local
  <2>2. LocalInv'
    BY <1>17 DEF ClearTrial, local
  <2>3. StatusInv'
    BY <1>17 DEF ClearTrial, local
  <2>4. SupersededInv'
    BY <1>17 DEF ClearTrial, local
  <2>5. IdInv'
    BY <1>17 DEF ClearTrial, local
  <2>6. QuietInv'
    BY <1>17 DEF ClearTrial, local
  <2>7. Accounted'
    BY <1>17 DEF ClearTrial, local
  <2> QED
    BY <1>0, <2>1, <2>2, <2>3, <2>4, <2>5, <2>6, <2>7
<1>18. CASE AdoptTrial
  <2>1. PhaseInv'
    BY <1>18 DEF AdoptTrial, local
  <2>2. LocalInv'
    BY <1>18 DEF AdoptTrial, local
  <2>3. StatusInv'
    BY <1>18 DEF AdoptTrial, local
  <2>4. SupersededInv'
    BY <1>18 DEF AdoptTrial, local
  <2>5. IdInv'
    BY <1>18 DEF AdoptTrial, local
  <2>6. QuietInv'
    BY <1>18 DEF AdoptTrial, local
  <2>7. Accounted'
    BY <1>18 DEF AdoptTrial, local
  <2> QED
    BY <1>0, <2>1, <2>2, <2>3, <2>4, <2>5, <2>6, <2>7
<1>19. CASE CancelFallback
  <2>1. PhaseInv'
    BY <1>19 DEF CancelFallback, local, Cancelled
  <2>2. LocalInv'
    BY <1>19 DEF CancelFallback, local, Cancelled
  <2>3. StatusInv'
    BY <1>19 DEF CancelFallback, local, Cancelled
  <2>4. SupersededInv'
    BY <1>19 DEF CancelFallback, local, Cancelled
  <2>5. IdInv'
    BY <1>19 DEF CancelFallback, local, Cancelled
  <2>6. QuietInv'
    BY <1>19 DEF CancelFallback, local, Cancelled
  <2>7. Accounted'
    BY <1>19 DEF CancelFallback, local, Cancelled
  <2> QED
    BY <1>0, <2>1, <2>2, <2>3, <2>4, <2>5, <2>6, <2>7
<1>20. CASE ObserveFallback
  <2>1. PhaseInv'
    BY <1>20 DEF ObserveFallback, local, StatusOf
  <2>2. LocalInv'
    BY <1>20 DEF ObserveFallback, local, StatusOf
  <2>3. StatusInv'
    BY <1>20 DEF ObserveFallback, local, StatusOf
  <2>4. SupersededInv'
    BY <1>20 DEF ObserveFallback, local, StatusOf
  <2>5. IdInv'
    BY <1>20 DEF ObserveFallback, local, StatusOf
  <2>6. QuietInv'
    BY <1>20 DEF ObserveFallback, local, StatusOf
  <2>7. Accounted'
    BY <1>20 DEF ObserveFallback, local, StatusOf
  <2> QED
    BY <1>0, <2>1, <2>2, <2>3, <2>4, <2>5, <2>6, <2>7
<1>21. CASE ClassifyTerminal
  <2>1. PhaseInv'
    BY <1>21 DEF ClassifyTerminal, local
  <2>2. LocalInv'
    BY <1>21 DEF ClassifyTerminal, local
  <2>3. StatusInv'
    BY <1>21 DEF ClassifyTerminal, local
  <2>4. SupersededInv'
    BY <1>21 DEF ClassifyTerminal, local
  <2>5. IdInv'
    BY <1>21 DEF ClassifyTerminal, local
  <2>6. QuietInv'
    BY <1>21 DEF ClassifyTerminal, local
  <2>7. Accounted'
    BY <1>21 DEF ClassifyTerminal, local
  <2> QED
    BY <1>0, <2>1, <2>2, <2>3, <2>4, <2>5, <2>6, <2>7
<1>22. CASE DeadlinePasses
  <2>1. PhaseInv'
    BY <1>22 DEF DeadlinePasses
  <2>2. LocalInv'
    BY <1>22 DEF DeadlinePasses
  <2>3. StatusInv'
    BY <1>22 DEF DeadlinePasses
  <2>4. SupersededInv'
    BY <1>22 DEF DeadlinePasses
  <2>5. IdInv'
    BY <1>22 DEF DeadlinePasses
  <2>6. QuietInv'
    BY <1>22 DEF DeadlinePasses
  <2>7. Accounted'
    BY <1>22 DEF DeadlinePasses
  <2> QED
    BY <1>0, <2>1, <2>2, <2>3, <2>4, <2>5, <2>6, <2>7
<1>23. CASE Crash
  <2>1. PhaseInv'
    BY <1>23 DEF Crash
  <2>2. LocalInv'
    BY <1>23 DEF Crash
  <2>3. StatusInv'
    BY <1>23 DEF Crash
  <2>4. SupersededInv'
    BY <1>23 DEF Crash
  <2>5. IdInv'
    BY <1>23 DEF Crash
  <2>6. QuietInv'
    BY <1>23 DEF Crash
  <2>7. Accounted'
    BY <1>23 DEF Crash
  <2> QED
    BY <1>0, <2>1, <2>2, <2>3, <2>4, <2>5, <2>6, <2>7
<1>24. CASE \E command \in Restarts : Restart(command)
  <2>0. Restart("resume")
    BY <1>24, RestartsAssumption DEF ResumeOnly
  <2>1. PhaseInv'
    BY <2>0 DEF Restart, Reattach
  <2>2. LocalInv'
    BY <2>0 DEF Restart, Reattach
  <2>3. StatusInv'
    BY <2>0 DEF Restart, Reattach
  <2>4. SupersededInv'
    BY <2>0 DEF Restart, Reattach
  <2>5. IdInv'
    BY <2>0 DEF Restart, Reattach
  <2>6. QuietInv'
    BY <2>0 DEF Restart, Reattach
  <2>7. Accounted'
    BY <2>0 DEF Restart, Reattach
  <2> QED
    BY <1>0, <2>1, <2>2, <2>3, <2>4, <2>5, <2>6, <2>7
<1>25. CASE \E j \in Jobs : JobProgress(j)
  <2>1. PhaseInv'
    BY <1>25 DEF JobProgress, local
  <2>2. LocalInv'
    BY <1>25 DEF JobProgress, local
  <2>3. StatusInv'
    BY <1>25 DEF JobProgress, local
  <2>4. SupersededInv'
    BY <1>25 DEF JobProgress, local
  <2>5. IdInv'
    BY <1>25 DEF JobProgress, local
  <2>6. QuietInv'
    BY <1>25 DEF JobProgress, local
  <2>7. Accounted'
    BY <1>25 DEF JobProgress, local
  <2> QED
    BY <1>0, <2>1, <2>2, <2>3, <2>4, <2>5, <2>6, <2>7
<1>26. CASE UNCHANGED vars \/ Finished
  <2>1. PhaseInv'
    BY <1>26 DEF Finished, vars, local
  <2>2. LocalInv'
    BY <1>26 DEF Finished, vars, local
  <2>3. StatusInv'
    BY <1>26 DEF Finished, vars, local
  <2>4. SupersededInv'
    BY <1>26 DEF Finished, vars, local
  <2>5. IdInv'
    BY <1>26 DEF Finished, vars, local
  <2>6. QuietInv'
    BY <1>26 DEF Finished, vars, local
  <2>7. Accounted'
    BY <1>26 DEF Finished, vars, local
  <2> QED
    BY <1>0, <2>1, <2>2, <2>3, <2>4, <2>5, <2>6, <2>7
<1> QED
  BY <1>1, <1>2, <1>3, <1>4, <1>5, <1>6, <1>7, <1>8, <1>9, <1>10, <1>11, <1>12, <1>13, <1>14, <1>15, <1>16, <1>17, <1>18, <1>19, <1>20, <1>21, <1>22, <1>23, <1>24, <1>25, <1>26
     DEF Next, Operator, Submission, Race

\* The strengthening holds in every reachable state of a race that is only
\* ever restarted with `resume`.
THEOREM Invariant == ResumeOnly => (Spec => []IInv)
<1> SUFFICES ASSUME ResumeOnly PROVE Spec => []IInv
  OBVIOUS
<1>1. ASSUME Init PROVE IInv
  <2>1. TypeOK
    BY <1>1, InitType
  <2>2. LiveJobs = {}
    BY <1>1 DEF Init, LiveJobs, LiveStates
  <2>3. PhaseInv /\ LocalInv /\ StatusInv
    BY <1>1, JobsAssumption
       DEF Init, PhaseInv, LocalInv, StatusInv, Status, RacePoints, WatchPoints, CandidatePoints, Points
  <2>4. SupersededInv /\ IdInv /\ QuietInv /\ Accounted
    BY <1>1, <2>2, JobsAssumption
       DEF Init, SupersededInv, IdInv, QuietInv, Accounted, Status, Known
  <2> QED
    BY <2>1, <2>3, <2>4 DEF IInv
<1>2. IInv /\ [Next]_vars => IInv'
  BY InvStep
<1> QED
  BY <1>1, <1>2, PTL DEF Spec

\* No live allocation is orphaned: each one is lost in transit, in hand, or
\* found by the next `resume` in the durable facts.
THEOREM NoOrphan == ResumeOnly => (Spec => []Accounted)
BY Invariant, PTL DEF IInv

\* A completed or failed run leaves neither its trial nor its fallback behind.
THEOREM NothingLeftBehind == ResumeOnly => (Spec => []NothingLiveWhenDone)
<1>1. IInv => NothingLiveWhenDone
  BY JobsAssumption
     DEF IInv, TypeOK, PhaseInv, LocalInv, QuietInv, NothingLiveWhenDone, LiveJobs, RacePoints, Points
<1> QED
  BY <1>1, Invariant, PTL

\* At most one fallback and one trial are live, over any crashes and restarts.
THEOREM AtMostOnePair == ResumeOnly => (Spec => []OneFallbackOneTrial)
<1>1. ASSUME IInv PROVE OneFallbackOneTrial
  <2>1. PICK a, b : LiveJobs \ lost \subseteq {a, b}
    <3>1. CASE phase # "submitted"
      BY <1>1, <3>1 DEF IInv, QuietInv
    <3>2. CASE phase = "submitted" /\ inhand # NoJob
      <4>1. Status \notin {"trial", "adopted"}
        BY <1>1, <3>2 DEF IInv, PhaseInv, LocalInv, StatusInv, CandidatePoints
      <4>2. LiveJobs \ lost \subseteq {facts.job, inhand}
        BY <1>1, <4>1 DEF IInv, Accounted, Recorded, Status
      <4> QED
        BY <4>2
    <3>3. CASE inhand = NoJob /\ Status = "trial"
      <4>1. LiveJobs \ lost \subseteq {facts.job, facts.replacement_job}
        BY <1>1, <3>3, JobsAssumption DEF IInv, Accounted, Recorded, Status, LiveJobs
      <4> QED
        BY <4>1
    <3>4. CASE inhand = NoJob /\ Status # "trial"
      <4>1. LiveJobs \ lost \subseteq {facts.job, facts.fallback_job}
        BY <1>1, <3>4, JobsAssumption DEF IInv, Accounted, Recorded, Status, LiveJobs
      <4> QED
        BY <4>1
    <3> QED
      BY <3>1, <3>2, <3>3, <3>4
  <2>2. IsFiniteSet({a, b}) /\ Cardinality({a, b}) <= 2
    <3>1. IsFiniteSet({a}) /\ Cardinality({a}) = 1
      BY FS_Singleton
    <3>2. IsFiniteSet({a} \cup {b}) /\ Cardinality({a} \cup {b}) <= 2
      BY <3>1, FS_AddElement
    <3>3. {a} \cup {b} = {a, b}
      OBVIOUS
    <3> QED
      BY <3>2, <3>3
  <2>3. Cardinality(LiveJobs \ lost) <= Cardinality({a, b})
    BY <2>1, <2>2, FS_Subset
  <2>4. IsFiniteSet(LiveJobs \ lost)
    BY <2>1, <2>2, FS_Subset
  <2> QED
    BY <2>2, <2>3, <2>4, FS_CardinalityType DEF OneFallbackOneTrial
<1> QED
  BY <1>1, Invariant, PTL

\* No step of the operator cancels the allocation the durable state names.
THEOREM RecordedNeverCancelled == ResumeOnly => (Spec => NeverCancelRecorded)
<1> DEFINE Keeps == pc' # pc /\ facts.job # NoJob => oar'[facts.job] = oar[facts.job]
<1>1. ASSUME IInv, [Next]_vars PROVE [Keeps]_vars
  <2> SUFFICES ASSUME pc' # pc, facts.job # NoJob, Next
               PROVE  oar'[facts.job] = oar[facts.job]
    BY <1>1 DEF vars
  <2>1. facts.job \in Jobs /\ oar \in [Jobs -> OarStates] /\ oar[facts.job] # "absent"
    BY <1>1 DEF IInv, TypeOK, Facts, IdInv, Known
  <2>2. CASE Submission
    BY <2>1, <2>2 DEF Submission, SubmitReplied, SubmitFailed, Fresh
  <2>3. CASE CancelStaleFallback
    BY <1>1, <2>1, <2>3 DEF CancelStaleFallback, Cancelled, IInv, StatusInv, Status
  <2>4. CASE DropTrial
    BY <1>1, <2>1, <2>4 DEF DropTrial, Cancelled, IInv, LocalInv, StatusInv, Status, WatchPoints
  <2>5. CASE CancelFallback
    BY <1>1, <2>1, <2>5 DEF CancelFallback, Cancelled, IInv, LocalInv, StatusInv, Status
  <2>6. CASE \E j \in Jobs : JobProgress(j)
    BY <2>6 DEF JobProgress
  <2>7. CASE UNCHANGED oar
    BY <2>7
  <2> QED
    BY <2>2, <2>3, <2>4, <2>5, <2>6, <2>7
       DEF Next, Operator, Race, RecordSubmission, ScanFallback, MarkFallbackCancelled,
           RearmFallback, ProbeSites, PickCandidate, CheckFallbackQueued, PersistTrial,
           WatchFallback, WatchTrial, ClearTrial, AdoptTrial, ObserveFallback,
           ClassifyTerminal, DeadlinePasses, Crash, Restart,
           Finished, vars
<1>2. IInv /\ [Next]_vars => [Keeps]_vars
  BY <1>1
<1> QED
  BY <1>2, Invariant, PTL DEF NeverCancelRecorded, Spec
=============================================================================
