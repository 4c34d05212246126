------------------------- MODULE RunLifecycleProofs -------------------------
(***************************************************************************)
(* The production run with any number of shards, batches, jobs, crashes    *)
(* and commands: types, what COMPLETE means, the order of the stages, one  *)
(* live job, no live job abandoned, no root in use removed.                *)
(***************************************************************************)
EXTENDS RunLifecycle, TLAPS

-----------------------------------------------------------------------------
(* The inductive invariant.                                                *)

\* Points of the process: with a job id it has not recorded, with a job it watches,
\* with one it saw end, and on the way to a submission.
Held == {"record", "buildRecord", "finalRecord"}
Watching == {"monitor", "attach", "classify", "allocationEnded", "publish", "validate"}
Over == {"classify", "allocationEnded", "publish", "validate"}
Submitting == {"submit", "destination", "record"}
FinalPoints == {"finalSubmit", "finalRecord", "finalWait", "recoverFinal", "afterFinal",
                "afterRecovery", "splitFinish"}
\* The phases of a run with a recorded allocation, and the jobs that facts name.
Open == {"submitted", "queued", "running"}
Named == {facts.job, facts.final, facts.build, facts.splitOut}

\* The id in the hand of the process is new, and is of the kind it is about to record.
HandInv ==
  /\ (inhand # NoJob) <=> (pc \in Held)
  /\ pc \in Held => inhand \in (DOMAIN jobs) \ (orphans \cup Named)
  /\ pc = "record" => jobs[inhand].kind = want /\ jobs[inhand].lane = CurrentLane
  /\ pc = "buildRecord" => jobs[inhand].kind = "build"
  /\ pc = "finalRecord" => jobs[inhand].kind = "final"

\* Facts name jobs of the right kind; every live job is named, in hand or orphaned.
KnownInv ==
  /\ Named \subseteq (DOMAIN jobs \ orphans) \cup {NoJob}
  /\ \A j \in DOMAIN jobs \ orphans : Live(j) => j \in Named \cup {inhand}
  /\ facts.job # NoJob => jobs[facts.job].kind \in {"split", "label"}
  /\ facts.final # NoJob => jobs[facts.final].kind = "final"
  /\ facts.splitOut # NoJob => jobs[facts.splitOut].kind = "final" /\ ~Live(facts.splitOut)
  /\ facts.build # NoJob => jobs[facts.build].kind = "build"

\* What the phase says of the jobs that facts name.
PhaseInv ==
  /\ phase \in Open \cup {"failed", "checkpointed", "finalizing"} => facts.job # NoJob
  /\ phase = "failed" => facts.failed = facts.job
  /\ phase \in Open \cup {"failed"} => jobs[facts.job].kind = facts.active
  /\ phase \in {"checkpointed", "finalizing"} => facts.active = "split"
  /\ phase = "finalizing" => facts.final # NoJob
  /\ Live(facts.job) => phase \in Open
  /\ Live(facts.final) => phase = "finalizing"

\* What the point of the process says of the phase, the component and the job.
PointInv ==
  /\ pc \in Watching =>
       /\ cur = facts.job /\ phase \in Open \cup {"failed", "checkpointed"}
       /\ phase # "checkpointed" => want = facts.active
       /\ phase = "failed" => flow = "classify" /\ ~looping
  /\ pc \in Over => ~Live(cur)
  /\ pc \in {"publish", "validate"} => want = "label"
  /\ pc \in Submitting => want \in {"split", "label"}
  /\ pc \in {"labelInput", "buildSubmit", "buildRecord", "buildWait", "reopen"} => want = "label"
  /\ pc = "reopen" => facts.active = "label" 
  /\ pc \in {"record", "buildSubmit", "buildRecord", "destination"} => phase = "remote_prepared"
  /\ pc \in {"finalSubmit", "finalRecord"} => phase = "checkpointed"
  /\ pc = "finalWait" => phase = "finalizing"
  /\ pc = "recoverFinal" => phase \in {"checkpointed", "finalizing"}
  /\ pc \in {"afterFinal", "afterRecovery", "splitFinish", "reopen", "verify"} => phase = "validated"
  /\ pc = "finish" => phase = "verifying"
  /\ pc = "markComplete" => phase = "complete"
  /\ pc = "markFailed" => phase = "failed"
  /\ pc \in {"prepare", "dispatch", "labelInput", "buildWait", "submit"} => phase \notin Open

\* Where the code takes the split for complete, every shard has its checkpoint.
CheckpointsInv ==
  /\ phase \in {"checkpointed", "finalizing"} => splitLeft = 0
  /\ \A j \in DOMAIN jobs :
       jobs[j].kind = "final" \/ (jobs[j].kind = "split" /\ jobs[j].exit = "ok") => splitLeft = 0

BuildPoints == {"buildSubmit", "buildRecord", "buildWait"}
\* Before the split output is recorded nothing of the labeling exists.
AfterSplitInv ==
  /\ pc \in {"afterFinal", "afterRecovery"} => facts.splitOut # NoJob
  /\ config.stage = "all" /\ facts.splitOut = NoJob =>
       /\ facts.active # "label" /\ facts.build = NoJob
       /\ \A j \in DOMAIN jobs : jobs[j].kind \notin {"label", "build"}
       /\ pc \notin BuildPoints
       /\ pc \in Submitting => want = "split"

\* A label run never splits.
LabelOnlyInv ==
  config.stage = "label" =>
    /\ facts.active # "split" /\ facts.splitOut = NoJob /\ facts.final = NoJob
    /\ phase \notin {"checkpointed", "finalizing"} /\ pc \notin FinalPoints
    /\ \A j \in DOMAIN jobs : jobs[j].kind \in {"label", "build"}
    /\ pc \in Submitting => want = "label"

OrderInv == CheckpointsInv /\ AfterSplitInv /\ LabelOnlyInv

\* A live build has not delivered its server, and runs next to no other job, except
\* when the run splits again or a build of a dead process is in the way.
BuildInv ==
  /\ pc \in {"buildSubmit", "buildRecord"} => ~Live(facts.build)
  /\ config.stage = "all" /\ pc \in Submitting /\ want = "split" /\ facts.build # NoJob =>
       facts.active = "split"
  /\ config.stage # "split" /\ ~Orphaned("build") =>
       /\ Live(facts.build) => ~server /\ (phase = "remote_prepared" \/ facts.active = "split")
       /\ pc = "buildSubmit" \/ (pc = "buildRecord" /\ Live(inhand)) => ~server
       /\ pc \in Submitting /\ want = "label" => ~Live(facts.build)

SmokeEnded == \E j \in DOMAIN jobs : jobs[j].kind = "label" /\ jobs[j].lane = "smoke" /\ ~Live(j)
\* The recorded lane is that of the label job; production waits for the smoke.
LaneInv ==
  config.v2 =>
    /\ phase \in Open \cup {"failed"} /\ facts.active = "label" =>
         facts.lane = jobs[facts.job].lane
    /\ config.smoke =>
         \/ SmokeEnded
         \/ /\ facts.lane # "production" /\ pc # "reopen"
            /\ \A j \in DOMAIN jobs : jobs[j].kind = "label" => jobs[j].lane = "smoke"

\* No job was given a target larger than the recorded one.
TargetInv == facts.target \in Positive /\ \A j \in DOMAIN jobs : jobs[j].target \in 1 .. facts.target

\* Releases and manifests are of targets the run has recorded, and of labels that exist.
ManifestInv ==
  /\ hub.label <= facts.target
  /\ \A l \in Lanes : /\ label[l].manifest <= facts.target
                      /\ label[l].manifest > 0 => label[l].done > 0

\* A split run has no labels, and its release is out before it is complete.
SplitRunInv ==
  config.stage = "split" =>
    /\ label = FreshLabel
    /\ pc \notin {"publish", "validate", "verify", "finish", "reopen"} /\ phase # "verifying"
    /\ phase = "complete" \/ pc = "splitFinish" => hub.split

\* A labeling run is finalized with the manifest of its lane, then released, then
\* marked.
Released == config.v2 \/ ~config.smoke => hub.label > 0
PublishedInv ==
  config.stage # "split" =>
    /\ pc # "splitFinish"
    /\ pc \in {"publish", "validate"} => label[CurrentLane].manifest > 0
    /\ pc = "validate" /\ Publishes => hub.label > 0
    /\ pc \in {"verify", "finish", "markComplete"} \/ marker = "complete" =>
         label["production"].manifest > 0
    /\ phase = "complete" \/ pc \in {"verify", "finish", "markComplete"} => Released

LabelInv == TargetInv /\ ManifestInv /\ SplitRunInv /\ PublishedInv

\* The total of the recorded split output.  Every label job was given a target that
\* covers it, so that a manifest, whoever left it, stands for all of its rows.
TheGoal(lane) ==
  IF lane = "production" /\ config.v2 /\ facts.splitOut # NoJob
    THEN Batches * jobs[facts.splitOut].target ELSE Batches
TotalInv ==
  config.stage = "all" /\ ~Orphaned("label") =>
    /\ pc \in Submitting /\ want = "split" => facts.active # "label"
    /\ \A j \in DOMAIN jobs : jobs[j].kind = "label" =>
         /\ facts.active = "label" \/ (pc = "record" /\ j = inhand)
         /\ jobs[facts.splitOut].target <= jobs[j].target
    /\ \A l \in Lanes : label[l].manifest > 0 =>
         /\ label[l].done = label[l].total /\ label[l].total = TheGoal(l)
         /\ \E j \in DOMAIN jobs : jobs[j].kind = "label"

\* The root of a label run is marked terminal only when the run is, or else keeps the
\* labels that protect it.
RootInv ==
  config.stage = "label" =>
    /\ marker = "complete" => phase = "complete"
    /\ marker = "failed" => phase = "failed" \/ label["production"].done > 0

IInv ==
  /\ TypeOK /\ HandInv /\ KnownInv /\ PhaseInv /\ PointInv /\ OrderInv /\ BuildInv
  /\ LaneInv /\ LabelInv /\ TotalInv /\ RootInv

-----------------------------------------------------------------------------
(* Constants and helpers.                                                  *)

\* The sizes of this run's instance.
LEMMA Sizes ==
  ASSUME TypeOK
  PROVE  /\ Shards \in Positive /\ Batches \in Positive /\ MaxTarget \in Positive
         /\ MaxJobs \in Nat /\ MaxCrashes \in Nat
BY ConfigsAssumption, BoundsAssumption
   DEF TypeOK, Shards, Batches, MaxTarget, MaxJobs, MaxCrashes, Positive

\* The configuration of a run, and with it every size, never changes.
Fixed ==
  /\ config' = config
  /\ Shards' = Shards /\ Batches' = Batches /\ MaxTarget' = MaxTarget
  /\ MaxJobs' = MaxJobs /\ MaxCrashes' = MaxCrashes /\ Commands' = Commands
  /\ JobIds' = JobIds /\ Targeted' = Targeted /\ Job' = Job

\* No step changes the configuration.
LEMMA ConfigFixed == [Next]_vars => Fixed
<1>1. [Next]_vars => config' = config
  BY DEF Next, vars, others, Process, Prepare, Dispatch, LabelInput, BuildSubmit, BuildRecord,
         BuildWait, Submit, RecordSubmission, Monitor, RunLoopTurn, AttachJob, Classify,
         MarkFailed, PrepareDestination, PublishLabel, ValidateLabel, ReopenForProduction,
         Verify, Finish, MarkComplete, FinalSubmit, FinalRecord, FinalWait, RecoverFinal,
         AfterFinal, SplitFinish, Crash, RunCommand, ResumeCommand, SupervisorTurn, JobRuns,
         JobStarts, SplitJobEnds, FinalJobEnds, BuildJobEnds, LabelJobEnds, JobAborted,
         JobForgotten
<1> QED
  BY <1>1 DEF Fixed, Shards, Batches, MaxTarget, MaxJobs, MaxCrashes, Commands, JobIds,
              Targeted, Job

\* The components of a job.
LEMMA JobTyped ==
  ASSUME TypeOK, NEW j \in DOMAIN jobs
  PROVE  /\ jobs[j] \in Job /\ j \in 1 .. Len(jobs) /\ j # NoJob /\ j \in JobIds
         /\ jobs[j].kind \in Kinds /\ jobs[j].lane \in Lanes /\ jobs[j].target \in Targeted
         /\ jobs[j].state \in JobStates /\ jobs[j].exit \in Exits /\ jobs[j].ran \in BOOLEAN
<1>1. jobs[j] \in Job /\ j \in 1 .. Len(jobs) /\ Len(jobs) \in 0 .. MaxJobs
  BY DEF TypeOK, JobIds
<1>2. jobs[j] \in [kind : Kinds, lane : Lanes, target : 0 .. MaxTarget, state : JobStates,
                   exit : Exits, ran : BOOLEAN]
  BY <1>1 DEF Job
<1>3. MaxJobs \in Nat
  BY Sizes
<1> QED
  BY <1>1, <1>2, <1>3 DEF NoJob, JobIds, Targeted

\* No job is numbered 0.
LEMMA NoJobIsNone == TypeOK => NoJob \notin DOMAIN jobs /\ ~Live(NoJob)
BY JobTyped DEF Live

-----------------------------------------------------------------------------
(* What a step may do to the jobs.                                         *)

\* The jobs are the same ones, and none is live again.
Aged ==
  /\ jobs' \in Seq(Job) /\ Len(jobs') = Len(jobs) /\ DOMAIN jobs' = DOMAIN jobs
  /\ \A j \in DOMAIN jobs :
       /\ jobs'[j].kind = jobs[j].kind /\ jobs'[j].lane = jobs[j].lane
       /\ jobs'[j].target = jobs[j].target
       /\ jobs'[j].state \in LiveStates => jobs[j].state \in LiveStates

\* No exit file appears.
Silent == Aged /\ \A j \in DOMAIN jobs : jobs'[j].exit \in {jobs[j].exit, "none"}

\* A job more, queued and in the hand of the process that submitted it.
Added(kind, lane) ==
  /\ jobs' \in Seq(Job) /\ Len(jobs') \in JobIds
  /\ inhand' = Len(jobs) + 1 /\ inhand' \notin DOMAIN jobs /\ inhand' # NoJob
  /\ DOMAIN jobs' = DOMAIN jobs \cup {inhand'}
  /\ \A j \in DOMAIN jobs : jobs'[j] = jobs[j]
  /\ jobs'[inhand'].kind = kind /\ jobs'[inhand'].lane = lane
  /\ jobs'[inhand'].target = facts.target /\ jobs'[inhand'].state = "queued"
  /\ jobs'[inhand'].exit = "none"

\* A step that leaves the jobs alone is silent.
LEMMA Unaged == ASSUME TypeOK, UNCHANGED jobs PROVE Silent
BY DEF TypeOK, Silent, Aged

\* Jobs that are rewritten one by one stay a sequence of jobs.
LEMMA Rewritten ==
  ASSUME TypeOK, NEW new, DOMAIN new = DOMAIN jobs, new = [j \in DOMAIN jobs |-> new[j]],
         \A j \in DOMAIN jobs : new[j] \in Job
  PROVE  new \in Seq(Job) /\ Len(new) = Len(jobs)
<1>1. DOMAIN jobs = 1 .. Len(jobs) /\ Len(jobs) \in Nat
  BY DEF TypeOK
<1>2. new \in [1 .. Len(jobs) -> Job]
  BY <1>1
<1> QED
  BY <1>1, <1>2

\* An oarsub that returns adds one queued job.
LEMMA SubmittedAdds ==
  ASSUME TypeOK, NEW kind \in Kinds, NEW lane \in Lanes, Submitted(kind, lane)
  PROVE  Added(kind, lane)
<1> DEFINE new == [kind |-> kind, lane |-> lane, target |-> facts.target,
                   state |-> "queued", exit |-> "none", ran |-> FALSE]
<1>1. new \in Job
  BY DEF TypeOK, Job, JobStates, LiveStates, Exits, Targeted
<1>2. jobs' = Append(jobs, new) /\ inhand' = Len(jobs) + 1 /\ Len(jobs) < MaxJobs
  BY DEF Submitted
<1>3. jobs \in Seq(Job) /\ DOMAIN jobs = 1 .. Len(jobs) /\ Len(jobs) \in Nat
  BY DEF TypeOK
<1>4. jobs' \in Seq(Job) /\ Len(jobs') = Len(jobs) + 1
  BY <1>1, <1>2, <1>3
<1>5. DOMAIN jobs' = 1 .. Len(jobs) + 1
  BY <1>4
<1>6. DOMAIN jobs' = DOMAIN jobs \cup {inhand'} /\ inhand' \notin DOMAIN jobs /\ inhand' # NoJob
  BY <1>2, <1>3, <1>5 DEF NoJob
<1>7. jobs'[inhand'] = new /\ \A j \in DOMAIN jobs : jobs'[j] = jobs[j]
  BY <1>1, <1>2, <1>3
<1>8. Len(jobs') \in JobIds
  BY <1>2, <1>3, <1>4, Sizes DEF JobIds
<1> QED
  BY <1>2, <1>4, <1>6, <1>7, <1>8 DEF Added

\* Evidence that nobody names any more is dropped without a trace in live jobs.
LEMMA DropSilent == ASSUME TypeOK, NEW j, Drop(j) PROVE Silent
<1>1. CASE j \in DOMAIN jobs /\ ~Live(j)
  <2> DEFINE new == [jobs EXCEPT ![j].state = "gone", ![j].exit = "none", ![j].ran = TRUE]
  <2>1. jobs' = new
    BY <1>1 DEF Drop
  <2>2. \A i \in DOMAIN jobs \ {j} : new[i] = jobs[i]
    OBVIOUS
  <2>3. new[j] = [jobs[j] EXCEPT !.state = "gone", !.exit = "none", !.ran = TRUE]
    BY <1>1
  <2>4. new[j] \in Job /\ new[j].kind = jobs[j].kind /\ new[j].lane = jobs[j].lane
          /\ new[j].target = jobs[j].target /\ new[j].state = "gone" /\ new[j].exit = "none"
    BY <1>1, <2>3, JobTyped DEF Job, JobStates, Exits
  <2>5. \A i \in DOMAIN jobs : new[i] \in Job
    BY <2>2, <2>4, JobTyped
  <2>6. new \in Seq(Job) /\ Len(new) = Len(jobs) /\ DOMAIN new = DOMAIN jobs
    BY <2>5, Rewritten
  <2> QED
    BY <2>1, <2>2, <2>4, <2>6 DEF Silent, Aged, LiveStates
<1>2. CASE UNCHANGED jobs
  BY <1>2, Unaged
<1> QED
  BY <1>1, <1>2 DEF Drop

\* The cleanup of a root removes exit files and log directories, no job.
LEMMA ReclaimSilent == ASSUME TypeOK, ReclaimRoots PROVE Silent
<1>1. CASE jobs' = [j \in DOMAIN jobs |-> [jobs[j] EXCEPT !.exit = "none", !.ran = FALSE]]
  <2>1. \A j \in DOMAIN jobs :
           /\ jobs'[j] \in Job /\ jobs'[j].kind = jobs[j].kind /\ jobs'[j].lane = jobs[j].lane
           /\ jobs'[j].target = jobs[j].target /\ jobs'[j].state = jobs[j].state
           /\ jobs'[j].exit = "none"
    BY <1>1, JobTyped DEF Job, Exits
  <2>2. jobs' \in Seq(Job) /\ Len(jobs') = Len(jobs) /\ DOMAIN jobs' = DOMAIN jobs
    BY <1>1, <2>1, Rewritten
  <2> QED
    BY <2>1, <2>2 DEF Silent, Aged
<1>2. CASE UNCHANGED jobs
  BY <1>2, Unaged
<1> QED
  BY <1>1, <1>2 DEF ReclaimRoots

\* What OAR and the payload of job j do.
Oar(j) == JobRuns(j) \/ JobAborted(j) \/ JobForgotten(j)
Other(j) == \A i \in DOMAIN jobs \ {j} : jobs'[i] = jobs[i]

\* One job gets another state, exit file and log directory.
Restate(j, state, exit, ran) ==
  jobs' = [jobs EXCEPT ![j] = [@ EXCEPT !.state = state, !.exit = exit, !.ran = ran]]

\* A job that gets another state ages, and no other job changes.
LEMMA Restated ==
  ASSUME TypeOK, NEW j \in DOMAIN jobs, NEW state \in JobStates, NEW exit \in Exits,
         NEW ran \in BOOLEAN, state \in LiveStates => jobs[j].state \in LiveStates,
         Restate(j, state, exit, ran)
  PROVE  /\ Aged /\ Other(j)
         /\ jobs'[j].state = state /\ jobs'[j].exit = exit
<1> USE DEF Restate
<1>1. Other(j)
  BY DEF Other
<1>2. jobs'[j] = [jobs[j] EXCEPT !.state = state, !.exit = exit, !.ran = ran]
  OBVIOUS
<1>3. /\ jobs'[j] \in Job /\ jobs'[j].kind = jobs[j].kind /\ jobs'[j].lane = jobs[j].lane
      /\ jobs'[j].target = jobs[j].target /\ jobs'[j].state = state /\ jobs'[j].exit = exit
  BY <1>2, JobTyped DEF Job
<1>4. \A i \in DOMAIN jobs : jobs'[i] \in Job
  BY <1>1, <1>3, JobTyped DEF Other
<1>5. jobs' \in Seq(Job) /\ Len(jobs') = Len(jobs) /\ DOMAIN jobs' = DOMAIN jobs
  BY <1>4, Rewritten
<1> QED
  BY <1>1, <1>3, <1>5 DEF Aged, Other

\* A payload that ends leaves its exit file.
LEMMA EndsAges ==
  ASSUME TypeOK, NEW j \in DOMAIN jobs, NEW exit \in Exits, Ends(j, exit)
  PROVE  /\ Aged /\ Other(j) /\ jobs[j].state = "running"
         /\ jobs'[j].state \in {"ended", "error"} /\ jobs'[j].exit = exit
<1>1. PICK state \in {"ended", "error"} :
         jobs' = [jobs EXCEPT ![j].state = state, ![j].exit = exit]
  BY DEF Ends
<1>2. Restate(j, state, exit, jobs[j].ran)
  BY <1>1, JobTyped DEF Job, Restate
<1>3. state \in JobStates /\ state \notin LiveStates /\ jobs[j].ran \in BOOLEAN
  BY JobTyped DEF JobStates, LiveStates
<1>4. jobs[j].state = "running"
  BY DEF Ends
<1> QED
  BY <1>2, <1>3, <1>4, Restated

\* The labels that an allocation leaves: a counter no smaller than before and at
\* most its goal, and a manifest only when it has reached that goal.
Labels(j) ==
  LET lane == jobs[j].lane
      goal == Goal(lane, jobs[j].target) IN
  /\ config.stage # "split"
  /\ \A l \in Lanes \ {lane} : label'[l] = label[l]
  /\ label' \in [Lanes -> [done : Nat, total : Nat, manifest : Nat]]
  /\ label'[lane].done \in label[lane].done .. goal /\ label'[lane].total = goal
  /\ \/ label'[lane].manifest = label[lane].manifest
     \/ label'[lane].manifest = jobs[j].target /\ label'[lane].done = goal
  /\ \/ hub' = hub
     \/ hub' = [hub EXCEPT !.label = jobs[j].target]

\* Steps of job j change its state and the evidence of its own kind only.
LEMMA OarStep ==
  ASSUME TypeOK, facts.splitOut \in DOMAIN jobs \cup {NoJob}, NEW j \in DOMAIN jobs, Oar(j)
  PROVE  /\ Aged /\ Other(j)
         /\ UNCHANGED <<durable, marker, pc, local, others>>
         /\ splitLeft' \in 0 .. splitLeft
         /\ jobs[j].kind = "split" /\ jobs'[j].exit = "ok" =>
              splitLeft' = 0 \/ jobs[j].exit = "ok"
         /\ outputs' \in {outputs, outputs \cup {j}}
         /\ \/ server' = server
            \/ server' = TRUE /\ jobs[j].kind = "build" /\ Live(j) /\ jobs'[j].state \notin LiveStates
         /\ \/ UNCHANGED <<label, hub>>
            \/ /\ Labels(j) /\ jobs[j].kind = "label" /\ Live(j)
               /\ jobs'[j].state \notin LiveStates
<1> USE DEF root, durable, local, others
<1>1. CASE JobStarts(j)
  <2>1. Restate(j, "running", jobs[j].exit, TRUE)
    BY <1>1, JobTyped DEF JobStarts, Job, Restate
  <2>2. jobs[j].state \in LiveStates /\ "running" \in JobStates /\ jobs[j].exit \in Exits
    BY <1>1, JobTyped DEF JobStarts, JobStates, LiveStates
  <2>3. Aged /\ Other(j) /\ jobs'[j].exit = jobs[j].exit
    BY <2>1, <2>2, Restated
  <2> QED
    BY <1>1, <2>3 DEF JobStarts, TypeOK
<1>2. CASE JobAborted(j)
  <2>1. PICK exit \in {"none", "cancelled"} :
           jobs' = [jobs EXCEPT ![j].state = "error", ![j].exit = exit]
    BY <1>2 DEF JobAborted
  <2>2. Restate(j, "error", exit, jobs[j].ran)
    BY <2>1, JobTyped DEF Job, Restate
  <2>3. /\ "error" \in JobStates /\ "error" \notin LiveStates /\ exit \in Exits
        /\ jobs[j].ran \in BOOLEAN
    BY JobTyped DEF JobStates, LiveStates, Exits
  <2>4. Aged /\ Other(j) /\ jobs'[j].exit = exit
    BY <2>2, <2>3, Restated
  <2> QED
    BY <1>2, <2>4 DEF JobAborted, TypeOK
<1>3. CASE JobForgotten(j)
  <2>1. Restate(j, "gone", jobs[j].exit, jobs[j].ran)
    BY <1>3, JobTyped DEF JobForgotten, Job, Restate
  <2>2. /\ "gone" \in JobStates /\ "gone" \notin LiveStates /\ jobs[j].exit \in Exits
        /\ jobs[j].ran \in BOOLEAN
    BY JobTyped DEF JobStates, LiveStates
  <2>3. Aged /\ Other(j) /\ jobs'[j].exit = jobs[j].exit
    BY <2>1, <2>2, Restated
  <2> QED
    BY <1>3, <2>3 DEF JobForgotten, TypeOK
<1>4. CASE SplitJobEnds(j)
  <2>1. PICK exit \in Exits : (exit = "ok" => splitLeft' = 0) /\ Ends(j, exit)
    BY <1>4 DEF SplitJobEnds
  <2> QED
    BY <1>4, <2>1, EndsAges DEF SplitJobEnds
<1>5. CASE FinalJobEnds(j)
  <2>1. PICK exit \in {"none", "bad", "ok"} : Ends(j, exit)
    BY <1>5 DEF FinalJobEnds
  <2>2. Aged /\ Other(j)
    BY <2>1, EndsAges DEF Exits
  <2> QED
    BY <1>5, <2>2 DEF FinalJobEnds, TypeOK
<1>6. CASE BuildJobEnds(j)
  <2>1. PICK exit \in {"ok", "bad"} : Ends(j, exit) /\ server' = (server \/ exit = "ok")
    BY <1>6 DEF BuildJobEnds
  <2>2. /\ Aged /\ Other(j) /\ jobs[j].state = "running"
        /\ jobs'[j].state \in {"ended", "error"}
    BY <2>1, EndsAges DEF Exits
  <2>3. server' = server \/ server' = TRUE
    BY <2>1 DEF TypeOK
  <2> QED
    BY <1>6, <2>2, <2>3 DEF BuildJobEnds, TypeOK, Live, LiveStates
<1>7. CASE LabelJobEnds(j)
  <2> DEFINE lane == jobs[j].lane
             goal == Goal(lane, jobs[j].target)
             publishing == lane = "production" /\ (config.v2 \/ ~config.smoke)
  <2>1. CASE Ends(j, "bad") /\ UNCHANGED <<label, hub>>
    <3>1. Aged /\ Other(j)
      BY <2>1, EndsAges DEF Exits
    <3> QED
      BY <1>7, <2>1, <3>1 DEF LabelJobEnds, TypeOK
  <2>2. ASSUME NEW done \in label[lane].done .. goal, NEW finalized \in BOOLEAN,
               config.stage # "split", finalized => done = goal,
               label' = [label EXCEPT ![lane] =
                 [done |-> done, total |-> goal,
                  manifest |-> IF finalized THEN jobs[j].target ELSE @.manifest]],
               hub' \in {hub} \cup
                 (IF finalized /\ publishing THEN {[hub EXCEPT !.label = jobs[j].target]} ELSE {}),
               NEW exit \in {"none", "ok", "bad"}, Ends(j, exit)
        PROVE  /\ Aged /\ Other(j) /\ Labels(j) /\ Live(j)
               /\ jobs'[j].state \notin LiveStates
    <3>1. /\ Aged /\ Other(j) /\ jobs[j].state = "running"
          /\ jobs'[j].state \in {"ended", "error"}
      BY <2>2, EndsAges DEF Exits
    <3>2. lane \in Lanes /\ jobs[j].target \in Nat /\ goal \in Nat
      <4>1. jobs[j].target \in Nat /\ Batches \in Nat /\ lane \in Lanes
        BY JobTyped, Sizes DEF Targeted, Positive
      <4>2. facts.splitOut # NoJob => jobs[facts.splitOut].target \in Nat
        BY JobTyped DEF Targeted
      <4> QED
        BY <4>1, <4>2 DEF Goal
    <3>3. hub' = hub \/ hub' = [hub EXCEPT !.label = jobs[j].target]
      BY <2>2
    <3>4. /\ \A l \in Lanes : /\ label[l].done \in Nat /\ label[l].total \in Nat
                             /\ label[l].manifest \in Nat
                             /\ label[l] = [done |-> label[l].done, total |-> label[l].total,
                                            manifest |-> label[l].manifest]
          /\ DOMAIN label = Lanes /\ label = [l \in Lanes |-> label[l]]
      BY DEF TypeOK, Targeted
    <3>5. done \in Nat
      BY <2>2, <3>2, <3>4
    <3>6. /\ label'[lane].done = done /\ label'[lane].total = goal
          /\ label'[lane].manifest =
               IF finalized THEN jobs[j].target ELSE label[lane].manifest
          /\ \A l \in Lanes \ {lane} : label'[l] = label[l]
      BY <2>2, <3>2, <3>4
    <3>7. label' \in [Lanes -> [done : Nat, total : Nat, manifest : Nat]]
      BY <2>2, <3>2, <3>4, <3>5
    <3>8. Labels(j)
      BY <2>2, <3>3, <3>6, <3>7 DEF Labels
    <3> QED
      BY <2>2, <3>1, <3>8 DEF Live, LiveStates
  <2>3. /\ Aged /\ Other(j)
        /\ \/ UNCHANGED <<label, hub>>
           \/ Labels(j) /\ Live(j) /\ jobs'[j].state \notin LiveStates
    BY <1>7, <2>1, <2>2, Zenon DEF LabelJobEnds
  <2>4. /\ UNCHANGED <<durable, splitLeft, outputs, server, marker, pc, local, others>>
        /\ jobs[j].kind = "label"
    BY <1>7 DEF LabelJobEnds
  <2> QED
    BY <2>3, <2>4 DEF TypeOK
<1> QED
  BY <1>1, <1>2, <1>3, <1>4, <1>5, <1>6, <1>7 DEF Oar, JobRuns

\* The split output is that of a job of the run.
LEMMA SplitOutKnown == KnownInv => facts.splitOut \in DOMAIN jobs \cup {NoJob}
BY DEF KnownInv, Named

\* The lane of the next label submission is a lane.
LEMMA LaneTyped == TypeOK => CurrentLane \in Lanes
BY ConfigsAssumption DEF TypeOK, CurrentLane, Lanes

\* Steps that leave the jobs alone.
Quiet ==
  \/ Prepare \/ Dispatch \/ LabelInput \/ BuildWait \/ Monitor \/ RunLoopTurn \/ AttachJob
  \/ Classify \/ MarkFailed \/ PrepareDestination \/ PublishLabel \/ ValidateLabel
  \/ ReopenForProduction \/ Verify \/ Finish \/ MarkComplete
  \/ FinalWait \/ RecoverFinal \/ AfterFinal \/ SplitFinish
  \/ Crash \/ ResumeCommand \/ SupervisorTurn \/ UNCHANGED vars

\* Steps that create a job.
Submits(kind, lane) ==
  \/ BuildSubmit /\ kind = "build" /\ lane = "production"
  \/ FinalSubmit /\ kind = "final" /\ lane = "production"
  \/ Submit /\ kind = want /\ lane = CurrentLane /\ phase = "remote_prepared" /\ want # "all"

\* No step forgets a job or changes what it is for; the process and its commands
\* make no exit file, and a new job is queued.
LEMMA JobsStep ==
  ASSUME IInv, [Next]_vars
  PROVE  \/ Silent /\ inhand' \in {inhand, NoJob}
         \/ \E j \in DOMAIN jobs : Oar(j) /\ Aged /\ UNCHANGED inhand
         \/ \E kind \in Kinds, lane \in Lanes : Submits(kind, lane) /\ Added(kind, lane)
<1> USE DEF IInv, local, root, remote
<1>1. CASE Quiet
  <2>1. UNCHANGED jobs /\ inhand' \in {inhand, NoJob}
    BY <1>1 DEF Quiet, vars, Prepare, Dispatch, LabelInput, BuildWait, Monitor, RunLoopTurn,
                AttachJob, Classify, MarkFailed, PrepareDestination, PublishLabel,
                ValidateLabel, ReopenForProduction, Verify, Finish, MarkComplete, FinalWait,
                RecoverFinal, AfterFinal, SplitFinish, Crash, ResumeCommand, SupervisorTurn,
                Resume
  <2> QED
    BY <2>1, Unaged
<1>2. CASE RunCommand
  <2>1. CASE UNCHANGED jobs
    BY <1>2, <2>1, Unaged DEF RunCommand
  <2>2. CASE ReclaimRoots
    BY <1>2, <2>2, ReclaimSilent DEF RunCommand
  <2> QED
    BY <1>2, <2>1, <2>2 DEF RunCommand
<1>3. CASE RecordSubmission \/ BuildRecord \/ FinalRecord
  BY <1>3, DropSilent DEF RecordSubmission, BuildRecord, FinalRecord
<1>4. CASE BuildSubmit \/ FinalSubmit \/ Submit
  <2>1. CASE UNCHANGED <<jobs, inhand>>
    BY <2>1, Unaged
  <2>2. CASE BuildSubmit /\ Submitted("build", "production")
    BY <2>2, SubmittedAdds DEF Submits, Kinds, Lanes
  <2>3. CASE FinalSubmit /\ Submitted("final", "production")
    BY <2>3, SubmittedAdds DEF Submits, Kinds, Lanes
  <2>4. CASE Submit /\ Submitted(want, CurrentLane) /\ phase = "remote_prepared"
    <3>1. want \in Kinds /\ want # "all" /\ CurrentLane \in Lanes
      BY <2>4, LaneTyped DEF Submit, PointInv, Submitting, Kinds
    <3> QED
      BY <2>4, <3>1, SubmittedAdds DEF Submits
  <2> QED
    BY <1>4, <2>1, <2>2, <2>3, <2>4 DEF BuildSubmit, FinalSubmit, Submit, Refused
<1>5. ASSUME NEW j \in DOMAIN jobs, Oar(j)
      PROVE  Aged /\ UNCHANGED inhand
  BY <1>5, OarStep, SplitOutKnown
<1> QED
  BY <1>1, <1>2, <1>3, <1>4, <1>5 DEF Next, Process, Quiet, Oar

\* In particular the jobs grow.
Grown ==
  /\ jobs' \in Seq(Job) /\ Len(jobs') \in JobIds /\ DOMAIN jobs \subseteq DOMAIN jobs'
  /\ \A j \in DOMAIN jobs :
       /\ jobs'[j].kind = jobs[j].kind /\ jobs'[j].lane = jobs[j].lane
       /\ jobs'[j].target = jobs[j].target
       /\ jobs'[j].state \in LiveStates => jobs[j].state \in LiveStates

\* Every step lets the jobs grow.
LEMMA JobsGrow == ASSUME IInv, [Next]_vars PROVE Grown
<1> USE DEF IInv, Grown
<1>1. CASE Aged
  BY <1>1 DEF Aged, TypeOK
<1>2. ASSUME NEW kind, NEW lane, Added(kind, lane) PROVE Grown
  BY <1>2 DEF Added
<1> QED
  BY <1>1, <1>2, JobsStep DEF Silent

-----------------------------------------------------------------------------
(* Types.                                                                  *)

\* Multiplication by a number of batches is monotone.
LEMMA TimesMono ==
  ASSUME NEW b \in Nat, NEW m \in Nat, NEW n \in Nat, m <= n
  PROVE  b * m \in Nat /\ b * m <= b * n
OBVIOUS

\* A lane never has more batches than the largest target asks for.
LEMMA GoalBound ==
  ASSUME TypeOK, facts.splitOut \in DOMAIN jobs \cup {NoJob}, NEW lane, NEW target \in Targeted
  PROVE  Goal(lane, target) \in 0 .. Batches * MaxTarget
<1>1. Batches \in Nat /\ MaxTarget \in Nat /\ 1 <= MaxTarget
  BY Sizes DEF Positive
<1>2. facts.splitOut # NoJob => jobs[facts.splitOut].target \in 0 .. MaxTarget
  BY JobTyped DEF Targeted
<1>3. \A n \in 0 .. MaxTarget : Batches * n \in 0 .. Batches * MaxTarget
  BY <1>1, TimesMono
<1>4. Batches \in 0 .. Batches * MaxTarget
  <2>1. Batches * 1 = Batches
    BY <1>1
  <2> QED
    BY <1>1, <1>3, <2>1
<1> QED
  BY <1>2, <1>3, <1>4 DEF Goal, Targeted

\* The parts of TypeOK.
DurableTyped ==
  /\ phase \in Phases
  /\ facts \in [job : JobIds, active : {"none", "split", "label"}, lane : Lanes \cup {"none"},
                failed : JobIds, recovered : JobIds, splitOut : JobIds, final : JobIds,
                build : JobIds, target : Targeted]
LocalTyped ==
  /\ pc \in Points
  /\ flow \in {"run", "classify"} /\ looping \in BOOLEAN /\ want \in Stages
  /\ cur \in JobIds /\ inhand \in JobIds
  /\ supervisor \in {"unused", "on", "off"}
  /\ crashes \in 0 .. MaxCrashes
RootTyped ==
  /\ hub \in [split : BOOLEAN, label : Targeted]
  /\ splitLeft \in 0 .. Shards
  /\ label \in [Lanes -> [done : 0 .. Batches * MaxTarget, total : 0 .. Batches * MaxTarget,
                          manifest : Targeted]]
  /\ server \in BOOLEAN
  /\ marker \in {"none", "active", "complete", "failed"}
JobsTyped ==
  /\ jobs \in Seq(Job) /\ Len(jobs) \in JobIds
  /\ outputs \subseteq DOMAIN jobs
  /\ orphans \subseteq DOMAIN jobs

\* The type invariant, variable group by variable group.
LEMMA TypeParts ==
  TypeOK <=> config \in Configs /\ DurableTyped /\ LocalTyped /\ RootTyped /\ JobsTyped
BY DEF TypeOK, DurableTyped, LocalTyped, RootTyped, JobsTyped

\* Preparation goes through the phases before the first submission.
LEMMA PreparationPhases ==
  ASSUME NEW p \in DOMAIN Preparation
  PROVE  /\ p \in {"created", "inputs_resolved", "site_selected", "storage_ready"}
         /\ Preparation[p] \in {"inputs_resolved", "site_selected", "storage_ready",
                                "remote_prepared"}
         /\ Preparation[p] = "remote_prepared" <=> p = "storage_ready"
<1>1. p \in {"created", "inputs_resolved", "site_selected", "storage_ready"}
  BY DEF Preparation
<1>2. CASE p = "created"
  BY <1>2 DEF Preparation
<1>3. CASE p = "inputs_resolved"
  BY <1>3 DEF Preparation
<1>4. CASE p = "site_selected"
  BY <1>4 DEF Preparation
<1>5. CASE p = "storage_ready"
  BY <1>5 DEF Preparation
<1> QED
  BY <1>1, <1>2, <1>3, <1>4, <1>5

\* What both `resume` and a turn of the supervisor do to a stopped run.
Resumes(target) ==
  /\ pc = "down" /\ target \in facts.target .. MaxTarget
  /\ phase' = Synced(target) /\ facts' = [facts EXCEPT !.target = target]
  /\ Resume(Synced(target))
  /\ UNCHANGED <<config, supervisor, orphans, crashes>>

\* What `resume` and the supervisor change.
LEMMA ResumeStep ==
  ASSUME TypeOK, ResumeCommand \/ SupervisorTurn
  PROVE  \/ \E target \in facts.target .. MaxTarget : Resumes(target)
         \/ pc = "down" /\ UNCHANGED <<durable, pc, local, remote, config, orphans, crashes>>
              /\ supervisor' = "off"
<1>1. facts.target \in Nat /\ facts.target <= MaxTarget /\ MaxTarget \in Nat
  BY Sizes DEF TypeOK, Targeted, Positive
<1>2. facts.target \in facts.target .. MaxTarget
  BY <1>1
<1>3. CASE ResumeCommand
  BY <1>2, <1>3 DEF ResumeCommand, Targets, SyncTarget, Resumes, others
<1>4. CASE SupervisorTurn
  <2>1. CASE supervisor' = "off" /\ UNCHANGED <<pc, local, remote>>
    BY <1>4, <2>1 DEF SupervisorTurn
  <2>2. CASE Resume(phase) /\ UNCHANGED supervisor
    <3>1. Synced(facts.target) = phase /\ facts = [facts EXCEPT !.target = facts.target]
      BY <1>1 DEF Synced, TypeOK
    <3> QED
      BY <1>2, <1>4, <2>2, <3>1 DEF SupervisorTurn, Resumes, durable
  <2> QED
    BY <1>4, <2>1, <2>2 DEF SupervisorTurn
<1> QED
  BY <1>3, <1>4

\* The job to reattach to is a job id.
LEMMA CandidateTyped == TypeOK => \A ph : Candidate(ph) \in JobIds
BY Sizes DEF TypeOK, Candidate, JobIds, NoJob

\* Phase and facts keep their types.
LEMMA DurableTypedStep ==
  ASSUME IInv, [Next]_vars
  PROVE  DurableTyped'
<1> USE DEF IInv, durable, Goto
<1>1. DurableTyped /\ LocalTyped /\ Fixed
  BY TypeParts, ConfigFixed
<1>2. NoJob \in JobIds
  BY Sizes DEF JobIds, NoJob
<1> USE <1>1 DEF DurableTyped, Phases, Fixed
<1>3. ASSUME UNCHANGED durable PROVE DurableTyped'
  BY <1>3
<1>4. CASE LabelInput \/ BuildWait \/ AttachJob \/ MarkFailed \/ PrepareDestination
             \/ PublishLabel \/ MarkComplete \/ Crash \/ BuildSubmit \/ FinalSubmit \/ Submit
  BY <1>3, <1>4
     DEF LabelInput, BuildWait, AttachJob, MarkFailed, PrepareDestination, PublishLabel,
         MarkComplete, Crash, BuildSubmit, FinalSubmit, Submit
<1>5. CASE Prepare
  BY <1>5, PreparationPhases DEF Prepare
<1>6. CASE Dispatch \/ Monitor \/ RunLoopTurn \/ Verify \/ Finish \/ SplitFinish
  BY <1>6 DEF Dispatch, Monitor, RunLoopTurn, Verify, Finish, SplitFinish
<1>7. CASE Classify
  BY <1>7 DEF Classify, Recovery, LocalTyped
<1>8. CASE ValidateLabel
  BY <1>8 DEF ValidateLabel, Recovery, LocalTyped
<1>9. CASE ReopenForProduction
  BY <1>9 DEF ReopenForProduction, Lanes
<1>10. CASE FinalWait \/ RecoverFinal
  BY <1>10 DEF FinalWait, RecoverFinal, ValidateFinal
<1>11. CASE AfterFinal
  BY <1>11 DEF AfterFinal, Lanes
<1>12. CASE BuildRecord
  BY <1>12 DEF BuildRecord, LocalTyped
<1>13. CASE FinalRecord
  BY <1>13 DEF FinalRecord, LocalTyped
<1>14. CASE RecordSubmission
  <2>1. want \in {"split", "label"} /\ CurrentLane \in Lanes
    BY <1>14, LaneTyped DEF RecordSubmission, PointInv, Submitting
  <2> QED
    BY <1>14, <2>1 DEF RecordSubmission, LocalTyped
<1>15. ASSUME NEW target \in Targets, SyncTarget(target) PROVE DurableTyped'
  <2>1. target \in Targeted
    BY Sizes DEF Targets, Targeted, Positive
  <2> QED
    BY <1>15, <2>1 DEF SyncTarget, Synced
<1>16. CASE RunCommand
  BY <1>15, <1>16 DEF RunCommand
<1>17. CASE ResumeCommand
  BY <1>15, <1>17 DEF ResumeCommand
<1>18. CASE SupervisorTurn
  BY <1>3, <1>18 DEF SupervisorTurn
<1>19. ASSUME NEW j \in DOMAIN jobs, Oar(j) PROVE DurableTyped'
  BY <1>3, <1>19, OarStep, SplitOutKnown
<1>20. CASE UNCHANGED vars
  BY <1>3, <1>20 DEF vars
<1> QED
  BY <1>4, <1>5, <1>6, <1>7, <1>8, <1>9, <1>10, <1>11, <1>12, <1>13, <1>14, <1>16, <1>17,
     <1>18, <1>19, <1>20 DEF Next, Process, Oar

\* The variables of the process keep their types.
LEMMA LocalTypedStep ==
  ASSUME IInv, [Next]_vars
  PROVE  LocalTyped'
<1> USE DEF IInv, local, others, Goto
<1>1. DurableTyped /\ LocalTyped /\ Fixed /\ config \in Configs
  BY TypeParts, ConfigFixed
<1>2. NoJob \in JobIds /\ MaxCrashes \in Nat /\ facts.job \in JobIds
  BY <1>1, Sizes DEF JobIds, NoJob, DurableTyped
<1> USE <1>1, <1>2 DEF LocalTyped, Points, Fixed, Stages
<1>3. ASSUME UNCHANGED <<pc, local, others>> PROVE LocalTyped'
  BY <1>3
<1>4. CASE Prepare \/ LabelInput \/ BuildWait \/ AttachJob \/ MarkFailed \/ PrepareDestination
             \/ PublishLabel \/ MarkComplete \/ ReopenForProduction \/ Verify \/ Finish
             \/ SplitFinish \/ Monitor \/ RunLoopTurn \/ ValidateLabel \/ FinalWait \/ RecoverFinal
  BY <1>4
     DEF Prepare, LabelInput, BuildWait, AttachJob, MarkFailed, PrepareDestination,
         PublishLabel, MarkComplete, ReopenForProduction, Verify, Finish, SplitFinish,
         Monitor, RunLoopTurn, ValidateLabel, FinalWait, RecoverFinal, ValidateFinal
<1>5. CASE Classify
  BY <1>5 DEF Classify
<1>6. CASE Dispatch \/ AfterFinal
  BY <1>6 DEF Dispatch, AfterFinal
<1>7. CASE Crash
  BY <1>7 DEF Crash
<1>8. CASE RecordSubmission \/ BuildRecord \/ FinalRecord
  BY <1>8 DEF RecordSubmission, BuildRecord, FinalRecord
<1>9. CASE BuildSubmit \/ FinalSubmit \/ Submit
  <2>1. inhand' \in JobIds
    <3>1. Submitted("build", "production") \/ Submitted("final", "production")
            \/ Submitted(want, CurrentLane) \/ UNCHANGED inhand
      BY <1>9 DEF BuildSubmit, FinalSubmit, Submit, Refused
    <3>2. Len(jobs) \in Nat /\ MaxJobs \in Nat
      BY Sizes DEF TypeOK
    <3> QED
      BY <3>1, <3>2 DEF Submitted, JobIds
  <2> QED
    BY <1>9, <2>1 DEF BuildSubmit, FinalSubmit, Submit, Refused
<1>10. ASSUME NEW ph, Attach(ph) PROVE cur' \in JobIds /\ want' \in Stages /\ pc' = "attach"
  <2>1. facts.active # "none" => facts.active \in Stages
    BY DEF DurableTyped
  <2>2. config.stage \in Stages
    BY ConfigsAssumption
  <2> QED
    BY <1>10, <2>1, <2>2, CandidateTyped DEF Attach
<1>11. CASE RunCommand
  BY <1>10, <1>11 DEF RunCommand
<1>12. ASSUME NEW ph, Resume(ph)
       PROVE  /\ pc' \in Points /\ flow' \in {"run", "classify"} /\ looping' \in BOOLEAN
              /\ want' \in Stages /\ cur' \in JobIds /\ inhand' \in JobIds
  BY <1>10, <1>12 DEF Resume
<1>13. CASE ResumeCommand \/ SupervisorTurn
  <2>1. /\ pc' \in Points /\ flow' \in {"run", "classify"} /\ looping' \in BOOLEAN
        /\ want' \in Stages /\ cur' \in JobIds /\ inhand' \in JobIds
    BY <1>12, <1>13 DEF ResumeCommand, SupervisorTurn
  <2> QED
    BY <1>13, <2>1 DEF ResumeCommand, SupervisorTurn
<1>14. ASSUME NEW j \in DOMAIN jobs, Oar(j) PROVE LocalTyped'
  BY <1>3, <1>14, OarStep, SplitOutKnown
<1>15. CASE UNCHANGED vars
  BY <1>3, <1>15 DEF vars
<1> QED
  BY <1>4, <1>5, <1>6, <1>7, <1>8, <1>9, <1>11, <1>13, <1>14, <1>15 DEF Next, Process, Oar

\* The jobs keep their types.
LEMMA JobsTypedStep ==
  ASSUME IInv, [Next]_vars
  PROVE  JobsTyped'
<1> USE DEF IInv, root, remote, others
<1>1. JobsTyped /\ Fixed /\ jobs' \in Seq(Job) /\ Len(jobs') \in JobIds
        /\ DOMAIN jobs \subseteq DOMAIN jobs'
  BY TypeParts, ConfigFixed, JobsGrow DEF Grown
<1> USE <1>1 DEF JobsTyped, Fixed
<1>2. outputs' \subseteq DOMAIN jobs
  <2>1. CASE Process \/ Crash \/ ResumeCommand \/ SupervisorTurn \/ UNCHANGED vars
    <3>1. UNCHANGED outputs
      BY <2>1
         DEF Process, vars, Prepare, Dispatch, LabelInput, BuildSubmit, BuildRecord, BuildWait,
             Submit, RecordSubmission, Monitor, RunLoopTurn, AttachJob, Classify, MarkFailed,
             PrepareDestination, PublishLabel, ValidateLabel, ReopenForProduction, Verify,
             Finish, MarkComplete, FinalSubmit, FinalRecord, FinalWait, RecoverFinal,
             AfterFinal, SplitFinish, Crash, ResumeCommand, SupervisorTurn, Resume
    <3> QED
      BY <3>1
  <2>2. CASE RunCommand
    BY <2>2 DEF RunCommand, ReclaimRoots
  <2>3. ASSUME NEW j \in DOMAIN jobs, Oar(j) PROVE outputs' \subseteq DOMAIN jobs
    BY <2>3, OarStep, SplitOutKnown
  <2> QED
    BY <2>1, <2>2, <2>3 DEF Next, Oar
<1>3. orphans' \subseteq DOMAIN jobs
  <2>1. CASE Crash
    BY <2>1 DEF Crash, HandInv
  <2>2. CASE ~Crash
    <3>1. CASE Process \/ RunCommand \/ ResumeCommand \/ SupervisorTurn \/ UNCHANGED vars
      BY <3>1
         DEF Process, vars, Prepare, Dispatch, LabelInput, BuildSubmit, BuildRecord, BuildWait,
             Submit, RecordSubmission, Monitor, RunLoopTurn, AttachJob, Classify, MarkFailed,
             PrepareDestination, PublishLabel, ValidateLabel, ReopenForProduction, Verify,
             Finish, MarkComplete, FinalSubmit, FinalRecord, FinalWait, RecoverFinal,
             AfterFinal, SplitFinish, RunCommand, ResumeCommand, SupervisorTurn
    <3>2. ASSUME NEW j \in DOMAIN jobs, Oar(j) PROVE UNCHANGED orphans
      BY <3>2, OarStep, SplitOutKnown
    <3> QED
      BY <2>2, <3>1, <3>2 DEF Next, Oar
  <2> QED
    BY <2>1, <2>2
<1> QED
  BY <1>2, <1>3

\* The remote evidence keeps its types.
LEMMA RootTypedStep ==
  ASSUME IInv, [Next]_vars
  PROVE  RootTyped'
<1> USE DEF IInv, root, remote
<1>1. DurableTyped /\ RootTyped /\ Fixed
  BY TypeParts, ConfigFixed
<1>2. /\ Shards \in Nat /\ Batches \in Nat /\ MaxTarget \in Nat /\ 1 <= MaxTarget
      /\ Batches \in 0 .. Batches * MaxTarget
  <2>1. /\ Shards \in Nat /\ Batches \in Nat /\ MaxTarget \in Nat /\ 1 <= MaxTarget
    BY Sizes DEF Positive
  <2>2. Batches * 1 = Batches /\ Batches * 1 <= Batches * MaxTarget
          /\ Batches * MaxTarget \in Nat
    BY <2>1, TimesMono
  <2> QED
    BY <2>1, <2>2
<1>3. FreshLabel \in [Lanes -> [done : 0 .. Batches * MaxTarget, total : 0 .. Batches * MaxTarget,
                                manifest : Targeted]]
  BY <1>2 DEF FreshLabel, Targeted
<1> USE <1>1 DEF RootTyped, Fixed
<1>4. ASSUME UNCHANGED <<hub, splitLeft, label, server>>,
             marker' \in {marker, "active", "complete", "failed"}
      PROVE  RootTyped'
  BY <1>4
<1>5. CASE Process /\ ~PublishLabel /\ ~AfterFinal
  BY <1>4, <1>5
     DEF Process, Prepare, Dispatch, LabelInput, BuildSubmit, BuildRecord, BuildWait,
         Submit, RecordSubmission, Monitor, RunLoopTurn, AttachJob, Classify, MarkFailed,
         PrepareDestination, ValidateLabel, ReopenForProduction, Verify,
         Finish, MarkComplete, FinalSubmit, FinalRecord, FinalWait, RecoverFinal, SplitFinish
<1>6. CASE PublishLabel
  <2>1. label[CurrentLane].manifest \in Targeted
    BY LaneTyped
  <2> QED
    BY <1>6, <2>1 DEF PublishLabel
<1>7. CASE AfterFinal
  BY <1>7 DEF AfterFinal
<1>8. CASE Crash \/ ResumeCommand \/ SupervisorTurn \/ UNCHANGED vars
  BY <1>4, <1>8 DEF Crash, ResumeCommand, SupervisorTurn, Resume, vars
<1>9. CASE RunCommand
  BY <1>3, <1>4, <1>9 DEF RunCommand, ReclaimRoots
<1>10. ASSUME NEW j \in DOMAIN jobs, Oar(j) PROVE RootTyped'
  <2>1. splitLeft' \in 0 .. Shards /\ server' \in BOOLEAN /\ UNCHANGED marker
    <3>1. /\ splitLeft' \in 0 .. splitLeft /\ UNCHANGED marker
          /\ server' = server \/ server' = TRUE
      BY <1>10, OarStep, SplitOutKnown
    <3>2. splitLeft' \in 0 .. Shards
      BY <1>2, <3>1
    <3>3. server' \in BOOLEAN
      BY <3>1
    <3> QED
      BY <3>1, <3>2, <3>3
  <2>2. CASE UNCHANGED <<label, hub>>
    BY <2>1, <2>2
  <2>3. CASE Labels(j)
    <3> DEFINE lane == jobs[j].lane
               goal == Goal(lane, jobs[j].target)
    <3>1. lane \in Lanes /\ jobs[j].target \in Targeted
      BY JobTyped
    <3>2. goal \in 0 .. Batches * MaxTarget
      BY <3>1, GoalBound, SplitOutKnown
    <3>3. hub' \in [split : BOOLEAN, label : Targeted]
      BY <2>3, <3>1 DEF Labels
    <3>4. /\ label'[lane] \in [done : Nat, total : Nat, manifest : Nat]
          /\ label'[lane].done \in 0 .. Batches * MaxTarget
          /\ label'[lane].total \in 0 .. Batches * MaxTarget
          /\ label'[lane].manifest \in Targeted
      <4>0. Batches * MaxTarget \in Nat
        BY <1>2, TimesMono
      <4>1. label[lane].done \in Nat /\ label[lane].manifest \in Targeted
        BY <1>2, <3>1
      <4>2. label' \in [Lanes -> [done : Nat, total : Nat, manifest : Nat]]
        BY <2>3 DEF Labels
      <4>3. /\ label'[lane].done \in label[lane].done .. goal /\ label'[lane].total = goal
            /\ label'[lane].manifest \in {label[lane].manifest, jobs[j].target}
        BY <2>3 DEF Labels
      <4> QED
        BY <3>1, <3>2, <4>0, <4>1, <4>2, <4>3
    <3>5. \A l \in Lanes \ {lane} : label'[l] = label[l]
      BY <2>3 DEF Labels
    <3>6. label' = [l \in Lanes |-> label'[l]]
      BY <2>3 DEF Labels
    <3>7. label'[lane] \in [done : 0 .. Batches * MaxTarget, total : 0 .. Batches * MaxTarget,
                            manifest : Targeted]
      BY <3>4
    <3>8. label' \in [Lanes -> [done : 0 .. Batches * MaxTarget,
                                total : 0 .. Batches * MaxTarget, manifest : Targeted]]
      BY <3>5, <3>6, <3>7
    <3> QED
      BY <2>1, <3>3, <3>8
  <2> QED
    BY <1>10, <2>2, <2>3, OarStep, SplitOutKnown
<1> QED
  BY <1>5, <1>6, <1>7, <1>8, <1>9, <1>10 DEF Next, Oar

\* Every step preserves the types.
LEMMA TypeStep == IInv /\ [Next]_vars => TypeOK'
<1> SUFFICES ASSUME IInv, [Next]_vars PROVE TypeOK'
  OBVIOUS
<1>1. TypeOK /\ config' = config
  BY ConfigFixed DEF Fixed, IInv
<1>2. DurableTyped' /\ LocalTyped' /\ RootTyped' /\ JobsTyped'
  BY DurableTypedStep, LocalTypedStep, RootTypedStep, JobsTypedStep
<1>3. config' \in Configs
  BY <1>1 DEF TypeOK
<1> QED
  BY <1>2, <1>3 DEF TypeOK, DurableTyped, LocalTyped, RootTyped, JobsTyped

-----------------------------------------------------------------------------
(* The job in hand.                                                        *)

\* Every step preserves HandInv.
LEMMA HandStep == IInv /\ [Next]_vars => HandInv'
<1> SUFFICES ASSUME IInv, [Next]_vars PROVE HandInv'
  OBVIOUS
<1> USE DEF IInv, HandInv, Held, Goto, durable, local, others, remote
<1>1. ASSUME inhand' = NoJob, pc' \notin Held PROVE HandInv'
  BY <1>1
<1>2. CASE pc \notin Held /\ inhand' = inhand /\ pc' \notin Held
  BY <1>1, <1>2
<1>3. CASE Process /\ ~BuildSubmit /\ ~FinalSubmit /\ ~Submit
  <2>1. pc' \notin Held /\ (inhand' = NoJob \/ (pc \notin Held /\ inhand' = inhand))
    <3>1. CASE BuildRecord \/ RecordSubmission \/ FinalRecord
      BY <3>1 DEF BuildRecord, RecordSubmission, FinalRecord
    <3>2. CASE Prepare \/ Dispatch \/ LabelInput \/ BuildWait \/ Monitor \/ RunLoopTurn
                 \/ AttachJob
      BY <3>2 DEF Prepare, Dispatch, LabelInput, BuildWait, Monitor, RunLoopTurn, AttachJob
    <3>3. CASE Classify
      BY <3>3 DEF Classify
    <3>4. CASE MarkFailed \/ PrepareDestination \/ PublishLabel \/ ValidateLabel
                 \/ ReopenForProduction \/ Verify \/ Finish \/ MarkComplete
      BY <3>4 DEF MarkFailed, PrepareDestination, PublishLabel, ValidateLabel,
                  ReopenForProduction, Verify, Finish, MarkComplete
    <3>5. CASE FinalWait \/ RecoverFinal \/ AfterFinal \/ SplitFinish
      BY <3>5 DEF FinalWait, RecoverFinal, AfterFinal, SplitFinish, ValidateFinal
    <3> QED
      BY <1>3, <3>1, <3>2, <3>3, <3>4, <3>5 DEF Process
  <2> QED
    BY <1>1, <1>2, <2>1
<1>4. CASE Crash \/ RunCommand \/ ResumeCommand \/ SupervisorTurn
  <2>1. ASSUME NEW ph, Attach(ph) PROVE pc' = "attach"
    BY <2>1 DEF Attach
  <2>2. ASSUME NEW ph, Resume(ph) PROVE pc' \notin Held /\ inhand' = inhand
    BY <2>1, <2>2 DEF Resume
  <2>3. pc' \notin Held /\ (inhand' = NoJob \/ (pc \notin Held /\ inhand' = inhand))
    BY <1>4, <2>1, <2>2 DEF Crash, RunCommand, ResumeCommand, SupervisorTurn
  <2> QED
    BY <1>1, <1>2, <2>3
<1>5. CASE BuildSubmit \/ FinalSubmit \/ Submit
  <2>1. CASE pc' \notin Held
    BY <1>2, <1>5, <2>1 DEF BuildSubmit, FinalSubmit, Submit, Submitted, Refused
  <2>2. CASE pc' \in Held
    <3>1. /\ UNCHANGED <<facts, want, orphans, config>>
          /\ \/ BuildSubmit /\ Added("build", "production") /\ pc' = "buildRecord"
             \/ FinalSubmit /\ Added("final", "production") /\ pc' = "finalRecord"
             \/ Submit /\ Added(want, CurrentLane) /\ pc' = "record"
      <4>1. want \in {"split", "label"} \/ ~Submit
        BY DEF Submit, PointInv, Submitting
      <4>2. CurrentLane \in Lanes
        BY LaneTyped
      <4> QED
        BY <1>5, <2>2, <4>1, <4>2, SubmittedAdds
           DEF BuildSubmit, FinalSubmit, Submit, Refused, Kinds, Lanes
    <3>2. Named' = Named /\ CurrentLane' = CurrentLane
      BY <3>1 DEF Named, CurrentLane
    <3>3. /\ inhand' \in DOMAIN jobs' /\ inhand' \notin DOMAIN jobs /\ inhand' # NoJob
      BY <3>1 DEF Added
    <3>4. orphans' \subseteq DOMAIN jobs /\ Named' \subseteq DOMAIN jobs \cup {NoJob}
      BY <3>1, <3>2 DEF TypeOK, KnownInv
    <3> QED
      BY <3>1, <3>2, <3>3, <3>4 DEF Added
  <2> QED
    BY <2>1, <2>2
<1>6. ASSUME NEW j \in DOMAIN jobs, Oar(j) PROVE HandInv'
  <2>1. Aged /\ UNCHANGED <<durable, pc, local, others>>
    BY <1>6, OarStep, SplitOutKnown
  <2>2. Named' = Named /\ CurrentLane' = CurrentLane /\ DOMAIN jobs' = DOMAIN jobs
    BY <2>1 DEF Named, CurrentLane, Aged
  <2> QED
    BY <2>1, <2>2 DEF Aged
<1>7. CASE UNCHANGED vars
  BY <1>7 DEF vars, Named, CurrentLane
<1> QED
  BY <1>3, <1>4, <1>5, <1>6, <1>7 DEF Next, Process, Oar

-----------------------------------------------------------------------------
(* What the facts name.                                                    *)

SameNames ==
  /\ facts'.job = facts.job /\ facts'.final = facts.final
  /\ facts'.build = facts.build /\ facts'.splitOut = facts.splitOut

\* The steps that record a job, that validate a finalization, that take a new job
\* in hand, and the crash that loses it; any other step keeps names and hand.
LEMMA NamesStep ==
  ASSUME IInv, [Next]_vars
  PROVE  \/ SameNames /\ Silent /\ UNCHANGED <<inhand, orphans>>
         \/ \E j \in DOMAIN jobs : SameNames /\ Oar(j) /\ Aged /\ UNCHANGED <<inhand, orphans>>
         \/ Crash /\ SameNames /\ UNCHANGED jobs
         \/ \E kind \in Kinds, lane \in Lanes :
              Submits(kind, lane) /\ Added(kind, lane) /\ SameNames /\ UNCHANGED <<facts, orphans>>
         \/ /\ RecordSubmission /\ facts'.job = inhand /\ facts'.final = facts.final
            /\ facts'.build = facts.build /\ facts'.splitOut = facts.splitOut
            /\ Silent /\ UNCHANGED orphans
         \/ /\ FinalRecord /\ facts'.final = inhand /\ facts'.job = facts.job
            /\ facts'.build = facts.build /\ facts'.splitOut = facts.splitOut
            /\ Silent /\ UNCHANGED orphans
         \/ /\ BuildRecord /\ facts'.build = inhand /\ facts'.job = facts.job
            /\ facts'.final = facts.final /\ facts'.splitOut = facts.splitOut
            /\ Silent /\ UNCHANGED orphans
         \/ /\ FinalWait \/ RecoverFinal
            /\ ~Live(facts.final) /\ facts.final # NoJob
            /\ facts'.splitOut = facts.final /\ facts'.job = facts.job
            /\ facts'.build = facts.build /\ facts'.final = facts.final
            /\ UNCHANGED <<jobs, inhand, orphans>>
<1> DEFINE Keeps == SameNames /\ Silent /\ UNCHANGED <<inhand, orphans>>
<1>0. TypeOK /\ DurableTyped
  BY TypeParts DEF IInv
<1> USE DEF durable, local, others, remote, root
<1>a. ASSUME UNCHANGED jobs PROVE Silent
  BY <1>0, <1>a, Unaged
<1>1. CASE Prepare \/ Dispatch \/ LabelInput \/ BuildWait \/ Monitor \/ RunLoopTurn \/ AttachJob
             \/ MarkFailed \/ PrepareDestination \/ PublishLabel \/ Verify \/ Finish
             \/ MarkComplete \/ SplitFinish
  <2>1. UNCHANGED <<facts, jobs, inhand, orphans>>
    BY <1>1 DEF Prepare, Dispatch, LabelInput, BuildWait, Monitor, RunLoopTurn, AttachJob,
                MarkFailed, PrepareDestination, PublishLabel, Verify, Finish, MarkComplete,
                SplitFinish
  <2> QED
    BY <1>a, <2>1 DEF SameNames
<1>2. CASE Classify \/ ValidateLabel \/ ReopenForProduction \/ AfterFinal
  <2>1. SameNames
    BY <1>0, <1>2 DEF Classify, Recovery, ValidateLabel, ReopenForProduction, AfterFinal,
                      DurableTyped, SameNames
  <2>2. UNCHANGED <<jobs, inhand, orphans>>
    BY <1>2 DEF Classify, ValidateLabel, ReopenForProduction, AfterFinal
  <2> QED
    BY <1>a, <2>1, <2>2
<1>3. CASE Crash
  BY <1>3 DEF Crash, SameNames
<1>4. CASE RunCommand \/ ResumeCommand \/ SupervisorTurn
  <2>1. ASSUME NEW target, SyncTarget(target) PROVE SameNames
    BY <1>0, <2>1 DEF SyncTarget, DurableTyped, SameNames
  <2>2. SameNames
    BY <1>4, <2>1 DEF RunCommand, ResumeCommand, SupervisorTurn, SameNames
  <2>3. UNCHANGED <<inhand, orphans>>
    BY <1>4 DEF RunCommand, ResumeCommand, SupervisorTurn, Resume
  <2>4. UNCHANGED jobs \/ ReclaimRoots
    BY <1>4 DEF RunCommand, ResumeCommand, SupervisorTurn, Resume
  <2>5. Silent
    BY <1>0, <1>a, <2>4, ReclaimSilent
  <2> QED
    BY <2>2, <2>3, <2>5
<1>5. CASE RecordSubmission
  <2>1. /\ facts'.job = inhand /\ facts'.final = facts.final
        /\ facts'.build = facts.build /\ facts'.splitOut = facts.splitOut
    BY <1>0, <1>5 DEF RecordSubmission, DurableTyped
  <2> QED
    BY <1>0, <1>5, <2>1, DropSilent DEF RecordSubmission
<1>6. CASE FinalRecord
  <2>1. /\ facts'.final = inhand /\ facts'.job = facts.job
        /\ facts'.build = facts.build /\ facts'.splitOut = facts.splitOut
    BY <1>0, <1>6 DEF FinalRecord, DurableTyped
  <2> QED
    BY <1>0, <1>6, <2>1, DropSilent DEF FinalRecord
<1>7. CASE BuildRecord
  <2>1. /\ facts'.build = inhand /\ facts'.job = facts.job
        /\ facts'.final = facts.final /\ facts'.splitOut = facts.splitOut
    BY <1>0, <1>7 DEF BuildRecord, DurableTyped
  <2> QED
    BY <1>0, <1>7, <2>1, DropSilent DEF BuildRecord
<1>8. CASE FinalWait \/ RecoverFinal
  <2>1. UNCHANGED <<jobs, inhand, orphans>>
    BY <1>8 DEF FinalWait, RecoverFinal
  <2>2. CASE UNCHANGED facts
    BY <1>a, <2>1, <2>2 DEF SameNames
  <2>3. CASE facts' # facts
    <3>1. phase = "finalizing" /\ ~Live(facts.final)
      BY <1>8, <2>3 DEF FinalWait, RecoverFinal, IInv, PointInv
    <3>2. facts' = [facts EXCEPT !.splitOut = facts.final]
      BY <1>8, <2>3 DEF FinalWait, RecoverFinal, ValidateFinal
    <3>3. /\ facts'.splitOut = facts.final /\ facts'.job = facts.job
          /\ facts'.build = facts.build /\ facts'.final = facts.final
      BY <1>0, <3>2 DEF DurableTyped
    <3> QED
      BY <1>8, <2>1, <3>1, <3>3 DEF IInv, PhaseInv
  <2> QED
    BY <2>2, <2>3
<1>9. CASE BuildSubmit \/ FinalSubmit \/ Submit
  <2>1. UNCHANGED <<facts, orphans>>
    BY <1>9 DEF BuildSubmit, FinalSubmit, Submit
  <2>2. CASE UNCHANGED <<jobs, inhand>>
    BY <1>a, <2>1, <2>2 DEF SameNames
  <2>3. CASE ~UNCHANGED <<jobs, inhand>>
    <3>1. \/ BuildSubmit /\ Submitted("build", "production")
          \/ FinalSubmit /\ Submitted("final", "production")
          \/ Submit /\ Submitted(want, CurrentLane) /\ phase = "remote_prepared"
      BY <1>9, <2>3 DEF BuildSubmit, FinalSubmit, Submit, Refused
    <3>2. Submit => want \in {"split", "label"}
      BY DEF Submit, IInv, PointInv, Submitting
    <3>3. \E kind \in Kinds, lane \in Lanes : Submits(kind, lane) /\ Added(kind, lane)
      BY <1>0, <3>1, <3>2, LaneTyped, SubmittedAdds DEF Submits, Kinds, Lanes
    <3> QED
      BY <2>1, <3>3 DEF SameNames
  <2> QED
    BY <2>2, <2>3
<1>10. ASSUME NEW j \in DOMAIN jobs, Oar(j)
       PROVE  SameNames /\ Oar(j) /\ Aged /\ UNCHANGED <<inhand, orphans>>
  BY <1>0, <1>10, OarStep, SplitOutKnown DEF SameNames, IInv
<1>11. CASE UNCHANGED vars
  BY <1>a, <1>11 DEF vars, SameNames
<1> QED
  BY <1>1, <1>2, <1>3, <1>4, <1>5, <1>6, <1>7, <1>8, <1>9, <1>10, <1>11
     DEF Next, Process, Oar

\* Every step preserves KnownInv: no live job is lost.
LEMMA KnownStep == IInv /\ [Next]_vars => KnownInv'
<1> SUFFICES ASSUME IInv, [Next]_vars PROVE KnownInv'
  OBVIOUS
<1>0. TypeOK /\ HandInv /\ KnownInv /\ PhaseInv /\ PointInv /\ BuildInv
        /\ NoJob \notin DOMAIN jobs
  BY NoJobIsNone DEF IInv
<1> USE DEF Named, SameNames
<1>1. ASSUME SameNames, Aged, UNCHANGED <<inhand, orphans>> PROVE KnownInv'
  BY <1>0, <1>1 DEF KnownInv, Aged, Live
<1>2. CASE Crash /\ SameNames /\ UNCHANGED jobs
  <2>1. orphans' = orphans \cup {inhand} \/ (inhand = NoJob /\ orphans' = orphans)
    BY <1>2 DEF Crash
  <2>2. inhand \notin Named \/ inhand = NoJob
    BY <1>0 DEF HandInv
  <2> QED
    BY <1>0, <1>2, <2>1, <2>2 DEF KnownInv, Live
<1>3. ASSUME NEW kind, NEW lane, Added(kind, lane), SameNames, UNCHANGED orphans,
             Submits(kind, lane)
      PROVE  KnownInv'
  <2>1. inhand = NoJob
    BY <1>0, <1>3 DEF Submits, BuildSubmit, FinalSubmit, Submit, HandInv, Held
  <2> QED
    BY <1>0, <1>3, <2>1 DEF KnownInv, Added, Live
<1>4. CASE /\ RecordSubmission /\ facts'.job = inhand /\ facts'.final = facts.final
           /\ facts'.build = facts.build /\ facts'.splitOut = facts.splitOut
           /\ Silent /\ UNCHANGED orphans
  <2>1. /\ inhand \in DOMAIN jobs \ orphans /\ jobs[inhand].kind \in {"split", "label"}
        /\ ~Live(facts.job)
    BY <1>0, <1>4 DEF RecordSubmission, HandInv, Held, PhaseInv, PointInv, Submitting, Open
  <2> QED
    BY <1>0, <1>4, <2>1 DEF KnownInv, Silent, Aged, Live
<1>5. CASE /\ FinalRecord /\ facts'.final = inhand /\ facts'.job = facts.job
           /\ facts'.build = facts.build /\ facts'.splitOut = facts.splitOut
           /\ Silent /\ UNCHANGED orphans
  <2>1. /\ inhand \in DOMAIN jobs \ orphans /\ jobs[inhand].kind = "final"
        /\ ~Live(facts.final)
    BY <1>0, <1>5 DEF FinalRecord, HandInv, Held, PhaseInv, PointInv
  <2> QED
    BY <1>0, <1>5, <2>1 DEF KnownInv, Silent, Aged, Live
<1>6. CASE /\ BuildRecord /\ facts'.build = inhand /\ facts'.job = facts.job
           /\ facts'.final = facts.final /\ facts'.splitOut = facts.splitOut
           /\ Silent /\ UNCHANGED orphans
  <2>1. /\ inhand \in DOMAIN jobs \ orphans /\ jobs[inhand].kind = "build"
        /\ ~Live(facts.build)
    BY <1>0, <1>6 DEF BuildRecord, HandInv, Held, BuildInv
  <2> QED
    BY <1>0, <1>6, <2>1 DEF KnownInv, Silent, Aged, Live
<1>7. CASE /\ ~Live(facts.final) /\ facts.final # NoJob
           /\ facts'.splitOut = facts.final /\ facts'.job = facts.job
           /\ facts'.build = facts.build /\ facts'.final = facts.final
           /\ UNCHANGED <<jobs, inhand, orphans>>
  BY <1>0, <1>7 DEF KnownInv, Live
<1> QED
  BY <1>1, <1>2, <1>3, <1>4, <1>5, <1>6, <1>7, NamesStep DEF Silent

-----------------------------------------------------------------------------
(* The phase.                                                              *)

\* A step that changes neither the phase nor what it speaks of.
LEMMA PhaseKept ==
  ASSUME IInv, Grown, SameNames, UNCHANGED <<phase, facts.active>>,
         phase = "failed" => facts'.failed = facts.failed
  PROVE  PhaseInv'
<1>1. facts.job \in DOMAIN jobs \cup {NoJob} /\ facts.final \in DOMAIN jobs \cup {NoJob}
  BY DEF IInv, KnownInv, Named
<1>2. (Live(facts.job)' => Live(facts.job)) /\ (Live(facts.final)' => Live(facts.final))
  <2>1. Len(jobs') \in Nat /\ NoJob \notin DOMAIN jobs'
    BY Sizes DEF Grown, JobIds, NoJob, IInv
  <2> QED
    BY <1>1, <2>1 DEF Live, Grown, SameNames
<1>3. facts.job # NoJob => jobs'[facts.job].kind = jobs[facts.job].kind
  BY <1>1 DEF Grown
<1> QED
  BY <1>1, <1>2, <1>3 DEF PhaseInv, SameNames, IInv

\* A step into a phase without a job, when no job is left.
LEMMA PhaseClosed ==
  ASSUME IInv, Grown, facts'.job = facts.job, facts'.final = facts.final,
         ~Live(facts.job), ~Live(facts.final),
         phase' \notin Open \cup {"failed", "checkpointed", "finalizing"}
  PROVE  PhaseInv'
<1>1. facts.job \in DOMAIN jobs \cup {NoJob} /\ facts.final \in DOMAIN jobs \cup {NoJob}
  BY DEF IInv, KnownInv, Named
<1>2. NoJob \notin DOMAIN jobs'
  BY Sizes DEF Grown, JobIds, NoJob, IInv
<1>3. ~Live(facts.job)' /\ ~Live(facts.final)'
  BY <1>1, <1>2 DEF Live, Grown
<1> QED
  BY <1>3 DEF PhaseInv

\* Every step preserves PhaseInv.
LEMMA PhaseStep == IInv /\ [Next]_vars => PhaseInv'
<1> SUFFICES ASSUME IInv, [Next]_vars PROVE PhaseInv'
  OBVIOUS
<1>0. /\ TypeOK /\ DurableTyped /\ HandInv /\ KnownInv /\ PhaseInv /\ PointInv /\ Grown
      /\ NoJob \notin DOMAIN jobs
  BY TypeParts, JobsGrow, NoJobIsNone DEF IInv
<1> USE DEF durable, local, others, remote, root
<1>1. CASE Dispatch \/ BuildWait \/ AttachJob \/ MarkFailed \/ PrepareDestination
             \/ PublishLabel \/ MarkComplete \/ Crash \/ BuildSubmit \/ FinalSubmit \/ Submit
             \/ UNCHANGED vars \/ \E j \in DOMAIN jobs : Oar(j)
  <2>1. UNCHANGED durable
    BY <1>0, <1>1, OarStep, SplitOutKnown
       DEF Dispatch, BuildWait, AttachJob, MarkFailed, PrepareDestination, PublishLabel,
           MarkComplete, Crash, BuildSubmit, FinalSubmit, Submit, vars
  <2> QED
    BY <1>0, <2>1, PhaseKept DEF SameNames
<1>2. CASE Prepare \/ LabelInput \/ Verify \/ Finish \/ SplitFinish
  <2>1. UNCHANGED facts
    BY <1>2 DEF Prepare, LabelInput, Verify, Finish, SplitFinish
  <2>2. CASE UNCHANGED phase
    BY <1>0, <2>1, <2>2, PhaseKept DEF SameNames
  <2>3. CASE phase' # phase
    <3>1. phase \notin Open \cup {"finalizing"}
            /\ phase' \notin Open \cup {"failed", "checkpointed", "finalizing"}
      BY <1>0, <1>2, <2>3, PreparationPhases
         DEF Prepare, LabelInput, Verify, Finish, SplitFinish, PointInv, Open
    <3> QED
      BY <1>0, <2>1, <3>1, PhaseClosed DEF PhaseInv, SameNames
  <2> QED
    BY <2>2, <2>3
<1>3. CASE ReopenForProduction \/ AfterFinal
  <2>1. phase = "validated"
    BY <1>0, <1>3 DEF ReopenForProduction, AfterFinal, PointInv
  <2>2. SameNames /\ phase' \in {"validated", "remote_prepared"}
    BY <1>0, <1>3, <2>1 DEF ReopenForProduction, AfterFinal, SameNames, DurableTyped
  <2> QED
    BY <1>0, <2>1, <2>2, PhaseClosed DEF PhaseInv, Open, SameNames
<1>4. CASE Monitor
  <2>1. UNCHANGED facts /\ (UNCHANGED phase \/ (phase \in Open /\ phase' \in Open))
    BY <1>4 DEF Monitor, Open
  <2>2. CASE UNCHANGED phase
    BY <1>0, <2>1, <2>2, PhaseKept DEF SameNames
  <2>3. CASE phase \in Open /\ phase' \in Open
    <3>1. UNCHANGED jobs
      BY <1>4 DEF Monitor
    <3> QED
      BY <1>0, <2>1, <2>3, <3>1 DEF PhaseInv, Open, Live
  <2> QED
    BY <2>1, <2>2, <2>3
<1>5. CASE RunLoopTurn \/ Classify \/ ValidateLabel
  <2>1. /\ cur = facts.job /\ phase \in Open \cup {"failed", "checkpointed"}
        /\ phase # "checkpointed" => want = facts.active
        /\ ~Live(facts.job) /\ facts.job # NoJob
    BY <1>0, <1>5 DEF RunLoopTurn, Classify, ValidateLabel, PointInv, PhaseInv, Watching, Over
  <2>2. SameNames /\ UNCHANGED <<jobs, facts.active>>
    <3>1. CASE RunLoopTurn
      BY <3>1 DEF RunLoopTurn, SameNames
    <3>2. CASE Classify
      BY <1>0, <3>2 DEF Classify, Recovery, SameNames, DurableTyped
    <3>3. CASE ValidateLabel
      BY <1>0, <3>3 DEF ValidateLabel, Recovery, SameNames, DurableTyped
    <3> QED
      BY <1>5, <3>1, <3>2, <3>3
  <2>3. CASE UNCHANGED durable
    BY <1>0, <2>2, <2>3, PhaseKept
  <2>4. CASE ~UNCHANGED durable
    <3>1. phase \in {"queued", "running", "failed"} /\ ~Live(facts.final)
      BY <1>0, <1>5, <2>4 DEF RunLoopTurn, Classify, ValidateLabel, Classifiable, PhaseInv
    <3>2. CASE phase' \in {"remote_prepared", "validated"}
      BY <1>0, <2>1, <2>2, <3>1, <3>2, PhaseClosed DEF Open, SameNames
    <3>3. CASE phase' = "failed"
      <4>1. Classify /\ facts'.failed = cur
        BY <1>0, <1>5, <2>4, <3>3 DEF RunLoopTurn, Classify, ValidateLabel, DurableTyped
      <4> QED
        BY <1>0, <2>1, <2>2, <3>1, <3>3, <4>1 DEF PhaseInv, SameNames, Live, Open
    <3>4. CASE phase' = "checkpointed"
      <4>1. want # "label"
        BY <1>5, <2>4, <3>1, <3>4 DEF RunLoopTurn, Classify, ValidateLabel
      <4>2. facts.active = "split"
        BY <1>0, <2>1, <3>1, <4>1 DEF KnownInv, PhaseInv, Open
      <4> QED
        BY <1>0, <2>1, <2>2, <3>1, <3>4, <4>2 DEF PhaseInv, SameNames, Live, Open
    <3> QED
      BY <1>5, <2>4, <3>1, <3>2, <3>3, <3>4 DEF RunLoopTurn, Classify, ValidateLabel
  <2> QED
    BY <2>3, <2>4
<1>6. CASE RecordSubmission
  <2>1. /\ phase = "remote_prepared" /\ inhand \in DOMAIN jobs /\ jobs[inhand].kind = want
    BY <1>0, <1>6 DEF RecordSubmission, PointInv, HandInv, Held
  <2>2. /\ facts'.job = inhand /\ facts'.active = want /\ facts'.final = facts.final
        /\ phase' = "submitted"
    BY <1>0, <1>6 DEF RecordSubmission, DurableTyped
  <2>3. ~Live(facts.final)
    BY <1>0, <2>1 DEF PhaseInv
  <2>4. ~Live(facts.final)'
    <3>1. facts.final \in DOMAIN jobs \cup {NoJob} /\ NoJob \notin DOMAIN jobs'
      BY <1>0, Sizes DEF KnownInv, Named, Grown, JobIds, NoJob
    <3> QED
      BY <1>0, <2>2, <2>3, <3>1 DEF Live, Grown
  <2>5. jobs'[inhand].kind = want /\ inhand # NoJob
    BY <1>0, <2>1 DEF Grown
  <2> QED
    BY <2>2, <2>4, <2>5 DEF PhaseInv, Open
<1>7. CASE FinalRecord
  <2>1. /\ phase = "checkpointed" /\ inhand \in DOMAIN jobs
    BY <1>0, <1>7 DEF FinalRecord, PointInv, HandInv, Held
  <2>2. /\ facts'.job = facts.job /\ facts'.active = facts.active /\ facts'.final = inhand
        /\ phase' = "finalizing"
    BY <1>0, <1>7 DEF FinalRecord, DurableTyped
  <2>3. ~Live(facts.job) /\ facts.job # NoJob /\ facts.active = "split"
    BY <1>0, <2>1 DEF PhaseInv, Open
  <2>4. ~Live(facts.job)'
    <3>1. facts.job \in DOMAIN jobs
      BY <1>0, <2>3 DEF KnownInv, Named
    <3> QED
      BY <1>0, <2>2, <2>3, <3>1 DEF Live, Grown
  <2> QED
    BY <1>0, <2>1, <2>2, <2>3, <2>4 DEF PhaseInv, Open
<1>8. CASE BuildRecord
  <2>1. /\ facts'.job = facts.job /\ facts'.active = facts.active /\ facts'.final = facts.final
        /\ phase' = phase /\ facts'.failed = facts.failed
    BY <1>0, <1>8 DEF BuildRecord, DurableTyped
  <2>2. phase = "remote_prepared" /\ ~Live(facts.job) /\ ~Live(facts.final)
    BY <1>0, <1>8 DEF BuildRecord, PointInv, PhaseInv, Open
  <2> QED
    BY <1>0, <2>1, <2>2, PhaseClosed DEF Open
<1>9. CASE FinalWait \/ RecoverFinal
  <2>1. CASE UNCHANGED durable
    BY <1>0, <2>1, PhaseKept DEF SameNames
  <2>2. CASE ~UNCHANGED durable
    <3>1. phase = "finalizing" /\ ~Live(facts.final) /\ ~Live(facts.job)
      BY <1>0, <1>9, <2>2 DEF FinalWait, RecoverFinal, PointInv, PhaseInv, Open
    <3>2. facts'.job = facts.job /\ facts'.final = facts.final /\ facts'.active = facts.active
            /\ UNCHANGED jobs
      BY <1>0, <1>9 DEF FinalWait, RecoverFinal, ValidateFinal, DurableTyped
    <3>3. CASE phase' = "validated"
      BY <1>0, <3>1, <3>2, <3>3, PhaseClosed DEF Open
    <3>4. CASE phase' = "checkpointed"
      BY <1>0, <3>1, <3>2, <3>4 DEF PhaseInv, Open, Live
    <3> QED
      BY <1>9, <2>2, <3>3, <3>4 DEF FinalWait, RecoverFinal, ValidateFinal
  <2> QED
    BY <2>1, <2>2
<1>10. CASE RunCommand \/ ResumeCommand \/ SupervisorTurn
  <2>1. CASE UNCHANGED durable
    BY <1>0, <2>1, PhaseKept DEF SameNames
  <2>2. ASSUME NEW target, SyncTarget(target) PROVE PhaseInv'
    <3>1. SameNames /\ facts'.active = facts.active /\ facts'.failed = facts.failed
      BY <1>0, <2>2 DEF SyncTarget, SameNames, DurableTyped
    <3>2. CASE UNCHANGED phase
      BY <1>0, <3>1, <3>2, PhaseKept
    <3>3. CASE phase = "complete" /\ phase' = "remote_prepared"
      BY <1>0, <3>1, <3>3, PhaseClosed DEF PhaseInv, Open, SameNames
    <3> QED
      BY <2>2, <3>2, <3>3 DEF SyncTarget, Synced
  <2> QED
    BY <1>10, <2>1, <2>2 DEF RunCommand, ResumeCommand, SupervisorTurn
<1> QED
  BY <1>1, <1>2, <1>3, <1>4, <1>5, <1>6, <1>7, <1>8, <1>9, <1>10 DEF Next, Process, Oar

-----------------------------------------------------------------------------
(* The points of the process.                                              *)

\* Reattaching to the candidate of a phase is a legal point.
LEMMA AttachPoint ==
  ASSUME IInv, NEW ph, Attach(ph), Candidate(ph) # NoJob, flow' = "classify", looping' = FALSE,
         phase' = ph, facts'.job = facts.job, facts'.active = facts.active,
         ph = phase \/ ph = "remote_prepared"
  PROVE  PointInv'
<1>1. phase \in Open \cup {"failed"} /\ ph = phase /\ cur' = facts.job
  BY DEF Attach, Candidate, IInv, PhaseInv, Open
<1>2. want' = facts.active
  <2>1. facts.active # "none"
    BY <1>1, NoJobIsNone DEF IInv, PhaseInv, KnownInv, Open
  <2> QED
    BY <2>1 DEF Attach
<1>3. pc' = "attach"
  BY DEF Attach, Goto
<1> QED
  BY <1>1, <1>2, <1>3 DEF PointInv, Watching, Over, Submitting

\* Every step preserves PointInv.
LEMMA PointStep == IInv /\ [Next]_vars => PointInv'
<1> SUFFICES ASSUME IInv, [Next]_vars PROVE PointInv'
  OBVIOUS
<1>0. /\ TypeOK /\ DurableTyped /\ HandInv /\ KnownInv /\ PhaseInv /\ PointInv
      /\ NoJob \notin DOMAIN jobs
  BY TypeParts, NoJobIsNone DEF IInv
<1> DEFINE Stops == pc' = "down"
<1> USE DEF durable, local, others, remote, root, Goto, Watching, Over, Submitting
<1>1. CASE Stops
  BY <1>1 DEF PointInv
<1>2. CASE Prepare
  BY <1>0, <1>2, PreparationPhases DEF Prepare, PointInv, Open
<1>3. CASE Dispatch
  BY <1>0, <1>3 DEF Dispatch, PointInv, Open
<1>4. CASE LabelInput
  <2>1. want = "label" /\ want' = want /\ phase \notin Open
    BY <1>0, <1>4 DEF LabelInput, PointInv
  <2>2. phase' \notin Open
    BY <1>4, <2>1 DEF LabelInput, Open
  <2>3. \/ pc' \in {"down", "submit", "buildWait"}
        \/ pc' = "buildSubmit" /\ phase' = "remote_prepared"
    BY <1>4 DEF LabelInput
  <2> QED
    BY <2>1, <2>2, <2>3 DEF PointInv, Open
<1>5. CASE BuildSubmit \/ BuildRecord \/ BuildWait
  <2>1. pc \in {"buildSubmit", "buildRecord", "buildWait"} /\ want' = want /\ phase' = phase
        /\ pc' \in {"down", "buildRecord", "buildWait", "submit"}
        /\ (pc' = "buildRecord" => phase = "remote_prepared")
    BY <1>0, <1>5 DEF BuildSubmit, BuildRecord, BuildWait, Refused, PointInv
  <2> QED
    BY <1>0, <2>1 DEF PointInv, Open
<1>6. CASE Submit
  <2>1. phase \notin Open /\ want' = want /\ phase' = phase /\ UNCHANGED facts
    BY <1>0, <1>6 DEF Submit, PointInv
  <2>2. \/ Stops
        \/ pc' = "record" /\ phase = "remote_prepared"
        \/ pc' = "monitor" /\ cur' = facts.job /\ phase = "checkpointed"
    BY <1>6, <2>1 DEF Submit, Refused, Attachable, Open
  <2> QED
    BY <1>0, <1>1, <1>6, <2>1, <2>2 DEF Submit, PointInv
<1>7. CASE RecordSubmission
  <2>1. /\ facts'.job = inhand /\ facts'.active = want /\ cur' = inhand /\ want' = want
        /\ phase' = "submitted" /\ pc' \in {"monitor", "attach"}
    BY <1>0, <1>7 DEF RecordSubmission, DurableTyped
  <2> QED
    BY <2>1 DEF PointInv, Open
<1>8. CASE Monitor \/ RunLoopTurn \/ AttachJob
  <2>1. /\ cur = facts.job /\ phase \in Open \cup {"failed", "checkpointed"}
        /\ phase # "checkpointed" => want = facts.active
        /\ phase = "failed" => flow = "classify" /\ ~looping
    BY <1>0, <1>8 DEF Monitor, RunLoopTurn, AttachJob, PointInv
  <2>2. UNCHANGED <<facts, jobs, want, cur, flow, looping>> /\ Live(cur)' = Live(cur)
    BY <1>8 DEF Monitor, RunLoopTurn, AttachJob, Live
  <2>3. \/ Stops
        \/ pc' = "monitor" /\ (UNCHANGED phase \/ (phase' \in {"queued", "running"} /\ phase \in Open))
        \/ pc' \in {"classify", "allocationEnded"} /\ UNCHANGED phase /\ ~Live(cur)
        \/ pc' = "finalSubmit" /\ phase' = "checkpointed"
        \/ pc' = "submit" /\ phase' = "remote_prepared" /\ want \in {"split", "label"}
        \/ pc' = "publish" /\ want = "label" /\ UNCHANGED phase /\ ~Live(cur)
    <3>1. CASE Monitor
      BY <3>1 DEF Monitor, Open
    <3>2. CASE RunLoopTurn
      BY <1>0, <3>2 DEF RunLoopTurn, PointInv
    <3>3. CASE AttachJob
      BY <3>3 DEF AttachJob
    <3> QED
      BY <1>8, <3>1, <3>2, <3>3
  <2> QED
    BY <1>1, <2>1, <2>2, <2>3 DEF PointInv, Open
<1>9. CASE Classify
  <2>1. /\ cur = facts.job /\ phase \in Open \cup {"failed", "checkpointed"} /\ ~Live(cur)
        /\ phase # "checkpointed" => want = facts.active
        /\ phase = "failed" => flow = "classify" /\ ~looping
    BY <1>0, <1>9 DEF Classify, PointInv
  <2>2. phase # "checkpointed" => want \in {"split", "label"}
    BY <1>0, <2>1 DEF PhaseInv, KnownInv, Open
  <2>3. UNCHANGED <<jobs, cur, want, flow>>
    BY <1>9 DEF Classify
  <2>4. \/ Stops
        \/ pc' = "markFailed" /\ phase' = "failed"
        \/ Classifiable /\ pc' \in {"submit", "destination"} /\ phase' = "remote_prepared"
        \/ pc' = "finalSubmit" /\ phase' = "checkpointed"
        \/ pc' = "publish" /\ want = "label" /\ UNCHANGED <<durable, looping>>
    BY <1>9 DEF Classify
  <2>5. CASE pc' = "publish" /\ want = "label" /\ UNCHANGED <<durable, looping>>
    <3>1. cur \in DOMAIN jobs /\ ~Live(cur)'
      BY <1>0, <2>1, <2>3 DEF PhaseInv, KnownInv, Named, Live
    <3> QED
      BY <2>1, <2>3, <2>5, <3>1 DEF PointInv
  <2> QED
    BY <1>0, <1>1, <2>1, <2>2, <2>3, <2>4, <2>5 DEF PointInv, Classifiable, Open
<1>10. CASE MarkFailed \/ MarkComplete
  BY <1>1, <1>10 DEF MarkFailed, MarkComplete
<1>11. CASE PrepareDestination
  BY <1>0, <1>11 DEF PrepareDestination, PointInv, Open
<1>12. CASE PublishLabel
  <2>1. UNCHANGED <<durable, jobs, flow, looping, want, cur>> /\ pc = "publish" /\ pc' = "validate"
    BY <1>12 DEF PublishLabel
  <2> QED
    BY <1>0, <2>1 DEF PointInv, Live
<1>13. CASE ValidateLabel
  <2>1. /\ cur = facts.job /\ want = "label"
        /\ phase # "checkpointed" => want = facts.active
    BY <1>0, <1>13 DEF ValidateLabel, PointInv
  <2>2. \/ Stops
        \/ /\ pc' \in {"reopen", "verify"} /\ phase' = "validated" /\ want' = want
           /\ facts'.active = "label"
    BY <1>0, <1>13, <2>1 DEF ValidateLabel, Classifiable, Recovery, DurableTyped
  <2> QED
    BY <1>1, <2>1, <2>2 DEF PointInv
<1>14. CASE ReopenForProduction
  BY <1>0, <1>1, <1>14 DEF ReopenForProduction, PointInv, Open
<1>15. CASE Verify \/ Finish \/ SplitFinish
  BY <1>0, <1>15 DEF Verify, Finish, SplitFinish, PointInv
<1>16. CASE FinalSubmit \/ FinalRecord
  BY <1>0, <1>1, <1>16 DEF FinalSubmit, FinalRecord, Refused, PointInv
<1>17. CASE FinalWait \/ RecoverFinal
  BY <1>0, <1>1, <1>17 DEF FinalWait, RecoverFinal, ValidateFinal, PointInv
<1>18. CASE AfterFinal
  BY <1>0, <1>18 DEF AfterFinal, PointInv, Open
<1>19. CASE Crash
  BY <1>1, <1>19 DEF Crash
<1>20. ASSUME NEW target, SyncTarget(target)
       PROVE  /\ phase' = Synced(target) /\ facts'.job = facts.job /\ facts'.active = facts.active
              /\ Synced(target) = phase \/ Synced(target) = "remote_prepared"
  BY <1>0, <1>20 DEF SyncTarget, Synced, DurableTyped
<1>21. CASE RunCommand
  <2>1. PICK target \in Targets :
          /\ SyncTarget(target)
          /\ \/ Candidate(Synced(target)) # NoJob /\ flow' = "classify" /\ Attach(Synced(target))
             \/ Candidate(Synced(target)) = NoJob /\ pc' = "prepare"
    BY <1>21 DEF RunCommand
  <2>2. looping' = FALSE
    BY <1>21 DEF RunCommand
  <2>3. CASE Candidate(Synced(target)) # NoJob /\ flow' = "classify" /\ Attach(Synced(target))
    BY <1>20, <2>1, <2>2, <2>3, AttachPoint
  <2>4. CASE Candidate(Synced(target)) = NoJob /\ pc' = "prepare"
    BY <1>0, <1>20, <2>1, <2>4 DEF Candidate, PhaseInv, PointInv, Open
  <2> QED
    BY <2>1, <2>3, <2>4
<1>22. CASE ResumeCommand \/ SupervisorTurn
  <2>1. CASE UNCHANGED pc
    BY <1>1, <1>22, <2>1 DEF ResumeCommand, SupervisorTurn
  <2>2. ASSUME NEW target \in facts.target .. MaxTarget, Resumes(target) PROVE PointInv'
    <3> DEFINE ph == Synced(target)
    <3>1. /\ phase' = ph /\ facts'.job = facts.job /\ facts'.active = facts.active
          /\ ph = phase \/ ph = "remote_prepared"
      BY <1>20, <2>2 DEF Resumes, SyncTarget
    <3>2. looping' = FALSE /\ flow' = "classify" /\ Resume(ph)
      BY <2>2 DEF Resumes, Resume
    <3>3. CASE Candidate(ph) # NoJob /\ Attach(ph)
      BY <3>1, <3>2, <3>3, AttachPoint
    <3>4. CASE ph \in {"checkpointed", "finalizing"} /\ pc' = "recoverFinal"
      BY <3>1, <3>4 DEF PointInv
    <3>5. CASE /\ ph = "remote_prepared"
               /\ \/ want' = "split" /\ pc' = "submit"
                  \/ want' = "label" /\ pc' = "labelInput"
      BY <3>1, <3>5 DEF PointInv, Open
    <3> QED
      BY <1>1, <3>2, <3>3, <3>4, <3>5 DEF Resume
  <2> QED
    BY <1>0, <1>22, <2>1, <2>2, ResumeStep
<1>23. ASSUME NEW j \in DOMAIN jobs, Oar(j) PROVE PointInv'
  <2>1. Aged /\ UNCHANGED <<durable, pc, flow, looping, want, cur>>
    BY <1>0, <1>23, OarStep, SplitOutKnown
  <2>2. Live(cur)' => Live(cur)
    BY <2>1 DEF Aged, Live
  <2> QED
    BY <1>0, <2>1, <2>2 DEF PointInv
<1>24. CASE UNCHANGED vars
  BY <1>0, <1>24 DEF vars, PointInv, Live
<1> QED
  BY <1>2, <1>3, <1>4, <1>5, <1>6, <1>7, <1>8, <1>9, <1>10, <1>11, <1>12, <1>13, <1>14,
     <1>15, <1>16, <1>17, <1>18, <1>19, <1>21, <1>22, <1>23, <1>24
     DEF Next, Process, Oar

-----------------------------------------------------------------------------
(* The order of the stages.                                                *)

\* While an allocation is looked at in a phase that can be classified, `want` is
\* the kind of that allocation.
LEMMA Looking ==
  ASSUME IInv, pc \in Watching, phase # "checkpointed"
  PROVE  /\ cur = facts.job /\ cur \in DOMAIN jobs
         /\ want = facts.active /\ jobs[cur].kind = want /\ want \in {"split", "label"}
<1>1. cur = facts.job /\ phase \in Open \cup {"failed"} /\ want = facts.active
  BY DEF IInv, PointInv
<1> QED
  BY <1>1 DEF IInv, PhaseInv, KnownInv, Named, Open

\* The steps that take the split for complete, and what they have seen.
LEMMA SplitSeenDone ==
  ASSUME IInv, RunLoopTurn \/ Classify, phase' = "checkpointed", phase # "checkpointed"
  PROVE  want = "split" /\ splitLeft = 0
<1> USE DEF Watching, durable
<1>1. pc \in Watching
  BY DEF RunLoopTurn, Classify
<1>2. CASE RunLoopTurn
  <2>1. want = "split" /\ jobs[cur].exit = "ok"
    BY <1>2 DEF RunLoopTurn
  <2> QED
    BY <1>1, <2>1, Looking DEF IInv, OrderInv, CheckpointsInv
<1>3. CASE Classify
  <2>1. Class(cur) = "COMPLETE" /\ want # "label"
    BY <1>3 DEF Classify
  <2>2. SplitClass(cur) = "COMPLETE" /\ want = "split"
    BY <1>1, <2>1, Looking DEF Class
  <2> QED
    BY <2>2 DEF SplitClass
<1> QED
  BY <1>2, <1>3

\* Checkpoints are only ever added.
LEMMA SplitShrinks ==
  ASSUME IInv, [Next]_vars
  PROVE  splitLeft = 0 => splitLeft' = 0
<1> USE DEF remote, root
<1>1. CASE Process \/ Crash \/ RunCommand \/ ResumeCommand \/ SupervisorTurn \/ UNCHANGED vars
  BY <1>1
     DEF Process, vars, Prepare, Dispatch, LabelInput, BuildSubmit, BuildRecord, BuildWait,
         Submit, RecordSubmission, Monitor, RunLoopTurn, AttachJob, Classify, MarkFailed,
         PrepareDestination, PublishLabel, ValidateLabel, ReopenForProduction, Verify,
         Finish, MarkComplete, FinalSubmit, FinalRecord, FinalWait, RecoverFinal,
         AfterFinal, SplitFinish, Crash, RunCommand, ResumeCommand, SupervisorTurn, Resume
<1>2. ASSUME NEW j \in DOMAIN jobs, Oar(j), splitLeft = 0 PROVE splitLeft' = 0
  <2>1. splitLeft' \in 0 .. splitLeft
    BY <1>2, OarStep, SplitOutKnown DEF IInv
  <2> QED
    BY <1>2, <2>1
<1> QED
  BY <1>1, <1>2 DEF Next, Oar

\* Every step preserves CheckpointsInv.
LEMMA CheckpointsStep == IInv /\ [Next]_vars => CheckpointsInv'
<1> SUFFICES ASSUME IInv, [Next]_vars PROVE CheckpointsInv'
  OBVIOUS
<1>0. TypeOK /\ HandInv /\ KnownInv /\ PhaseInv /\ PointInv /\ CheckpointsInv
        /\ (splitLeft = 0 => splitLeft' = 0)
  BY SplitShrinks DEF IInv, OrderInv
<1> USE DEF durable, local, others, remote, root, Goto
<1>1. phase' \in {"checkpointed", "finalizing"} => splitLeft' = 0
  <2> SUFFICES ASSUME phase' \in {"checkpointed", "finalizing"}, phase' # phase,
                      phase \notin {"checkpointed", "finalizing"}
               PROVE  splitLeft' = 0
    BY <1>0 DEF CheckpointsInv
  <2>1. CASE RunLoopTurn \/ Classify
    <3>1. phase' = "checkpointed"
      BY <2>1 DEF RunLoopTurn, Classify
    <3> QED
      BY <1>0, <2>1, <3>1, SplitSeenDone
  <2>2. ASSUME NEW j \in DOMAIN jobs, Oar(j) PROVE FALSE
    BY <1>0, <2>2, OarStep, SplitOutKnown
  <2>3. CASE RunCommand \/ ResumeCommand \/ SupervisorTurn
    BY <2>3 DEF RunCommand, ResumeCommand, SupervisorTurn, SyncTarget, Synced
  <2>4. CASE Process /\ ~RunLoopTurn /\ ~Classify
    <3>1. CASE Prepare
      BY <3>1, PreparationPhases DEF Prepare
    <3>2. CASE ~Prepare
      BY <1>0, <2>4, <3>2
         DEF Process, Dispatch, LabelInput, BuildSubmit, BuildRecord, BuildWait,
             Submit, RecordSubmission, Monitor, AttachJob, MarkFailed, PrepareDestination,
             PublishLabel, ValidateLabel, ReopenForProduction, Verify, Finish, MarkComplete,
             FinalSubmit, FinalRecord, FinalWait, RecoverFinal, ValidateFinal, AfterFinal,
             SplitFinish, PointInv
    <3> QED
      BY <3>1, <3>2
  <2>5. CASE Crash \/ UNCHANGED vars
    BY <2>5 DEF Crash, vars
  <2> QED
    BY <2>1, <2>2, <2>3, <2>4, <2>5 DEF Next, Process, Oar
<1>2. ASSUME NEW j \in DOMAIN jobs',
             jobs'[j].kind = "final" \/ (jobs'[j].kind = "split" /\ jobs'[j].exit = "ok")
      PROVE  splitLeft' = 0
  <2>1. CASE Silent
    BY <1>0, <1>2, <2>1 DEF CheckpointsInv, Silent, Aged
  <2>2. ASSUME NEW i \in DOMAIN jobs, Oar(i) PROVE splitLeft' = 0
    <3>1. /\ Aged /\ Other(i)
          /\ (jobs[i].kind = "split" /\ jobs'[i].exit = "ok" =>
                splitLeft' = 0 \/ jobs[i].exit = "ok")
      BY <1>0, <2>2, OarStep, SplitOutKnown
    <3> QED
      BY <1>0, <1>2, <2>2, <3>1 DEF CheckpointsInv, Aged, Other
  <2>3. ASSUME NEW kind \in Kinds, NEW lane \in Lanes, Submits(kind, lane), Added(kind, lane)
        PROVE  splitLeft' = 0
    <3>1. CASE j \in DOMAIN jobs
      BY <1>0, <1>2, <2>3, <3>1 DEF CheckpointsInv, Added
    <3>2. CASE j = inhand'
      <4>1. kind = "final" /\ FinalSubmit
        BY <1>0, <1>2, <2>3, <3>2 DEF Added, Submits, Submit, PointInv, Submitting
      <4> QED
        BY <1>0, <4>1 DEF FinalSubmit, PointInv, CheckpointsInv
    <3> QED
      BY <2>3, <3>1, <3>2 DEF Added
  <2> QED
    BY <2>1, <2>2, <2>3, JobsStep
<1> QED
  BY <1>1, <1>2 DEF CheckpointsInv

\* Once the split is finalized it stays so.
LEMMA SplitOutKept ==
  ASSUME IInv, [Next]_vars
  PROVE  /\ facts.splitOut # NoJob => facts'.splitOut # NoJob
         /\ facts'.splitOut # facts.splitOut =>
              /\ FinalWait \/ RecoverFinal
              /\ phase = "finalizing" /\ facts'.splitOut = facts.final /\ facts.final # NoJob
<1>0. DurableTyped
  BY TypeParts DEF IInv
<1>1. ASSUME facts'.splitOut # facts.splitOut, FinalWait \/ RecoverFinal
      PROVE  phase = "finalizing"
  BY <1>0, <1>1 DEF FinalWait, RecoverFinal, durable, IInv, PointInv
<1> QED
  BY <1>1, NamesStep DEF SameNames

\* The recorded component changes when a submission is recorded and when labeling
\* is about to start.
LEMMA ActiveStep ==
  ASSUME IInv, [Next]_vars
  PROVE  \/ facts'.active = facts.active
         \/ RecordSubmission /\ facts'.active = want
         \/ pc = "reopen" /\ ReopenForProduction /\ facts'.active = "label"
         \/ pc \in {"afterFinal", "afterRecovery"} /\ AfterFinal /\ facts'.active = "label"
              /\ config.stage # "split"
<1>0. DurableTyped
  BY TypeParts DEF IInv
<1> USE DEF durable, local, others, remote, root
<1>1. CASE Process /\ ~RecordSubmission /\ ~ReopenForProduction /\ ~AfterFinal
  <2>1. CASE Classify \/ ValidateLabel
    BY <1>0, <2>1 DEF Classify, ValidateLabel, Recovery, DurableTyped
  <2>2. CASE BuildRecord \/ FinalRecord \/ FinalWait \/ RecoverFinal
    BY <1>0, <2>2 DEF BuildRecord, FinalRecord, FinalWait, RecoverFinal, ValidateFinal,
                      DurableTyped
  <2>3. CASE UNCHANGED facts
    BY <2>3
  <2> QED
    BY <1>1, <2>1, <2>2, <2>3
       DEF Process, Prepare, Dispatch, LabelInput, BuildSubmit, BuildWait, Submit, Monitor,
           RunLoopTurn, AttachJob, MarkFailed, PrepareDestination, PublishLabel, Verify,
           Finish, MarkComplete, FinalSubmit, SplitFinish
<1>2. CASE RecordSubmission
  BY <1>0, <1>2 DEF RecordSubmission, DurableTyped
<1>3. CASE ReopenForProduction
  BY <1>0, <1>3 DEF ReopenForProduction, DurableTyped
<1>4. CASE AfterFinal
  BY <1>0, <1>4 DEF AfterFinal, DurableTyped
<1>5. CASE Crash \/ UNCHANGED vars
  BY <1>5 DEF Crash, vars
<1>6. ASSUME NEW target, SyncTarget(target) PROVE facts'.active = facts.active
  BY <1>0, <1>6 DEF SyncTarget, DurableTyped
<1>7. CASE RunCommand \/ ResumeCommand \/ SupervisorTurn
  BY <1>6, <1>7 DEF RunCommand, ResumeCommand, SupervisorTurn
<1>8. ASSUME NEW j \in DOMAIN jobs, Oar(j) PROVE UNCHANGED facts
  BY <1>8, OarStep, SplitOutKnown DEF IInv
<1> QED
  BY <1>1, <1>2, <1>3, <1>4, <1>5, <1>7, <1>8 DEF Next, Process, Oar

\* How the process comes to submit a component.
LEMMA SubmittingStep ==
  ASSUME IInv, [Next]_vars, pc' \in Submitting
  PROVE  \/ pc \in Submitting /\ want' = want
         \/ pc = "dispatch" /\ config.stage # "label" /\ want' = "split" /\ facts.splitOut = NoJob
              /\ UNCHANGED <<durable, remote>>
         \/ pc = "down" /\ facts.active = "split" /\ want' = "split" /\ phase' = "remote_prepared"
         \/ pc = "labelInput" /\ ~InputMissing /\ server /\ want' = "label" /\ UNCHANGED <<facts, remote>>
         \/ pc = "buildWait" /\ want' = "label" /\ ~Live(facts.build) /\ UNCHANGED <<durable, remote>>
         \/ pc = "reopen" /\ want' = "label" /\ UNCHANGED remote
         \/ /\ pc \in {"classify", "allocationEnded"} /\ phase \in Open \cup {"failed"}
            /\ want' = want /\ want = facts.active /\ UNCHANGED remote
            /\ facts' \in {facts, Recovery(facts)}
<1>0. PointInv
  BY DEF IInv
<1> USE DEF durable, local, others, remote, root, Goto, Submitting
<1>1. CASE Dispatch \/ BuildWait \/ Submit \/ PrepareDestination \/ ReopenForProduction
  BY <1>0, <1>1 DEF Dispatch, BuildWait, Submit, PrepareDestination,
                    ReopenForProduction, PointInv, Refused
<1>2. CASE RunLoopTurn \/ Classify
  <2>1. /\ pc \in {"classify", "allocationEnded"} /\ phase \in Open \cup {"failed"}
        /\ want' = want /\ UNCHANGED remote /\ facts' \in {facts, Recovery(facts)}
    BY <1>2 DEF RunLoopTurn, Classify, Classifiable, Open
  <2>2. want = facts.active
    BY <1>0, <2>1 DEF PointInv, Watching, Open
  <2> QED
    BY <2>1, <2>2
<1>3. CASE LabelInput
  <2>1. pc = "labelInput" /\ ~InputMissing /\ UNCHANGED <<facts, remote, want>>
    BY <1>3 DEF LabelInput
  <2>2. want' = "label"
    BY <1>0, <2>1 DEF PointInv
  <2>3. server
    BY <1>3 DEF LabelInput
  <2> QED
    BY <2>1, <2>2, <2>3
<1>8. ASSUME Process, ~Dispatch, ~LabelInput, ~BuildWait, ~Submit, ~PrepareDestination,
             ~ReopenForProduction, ~RunLoopTurn, ~Classify
      PROVE  FALSE
  BY <1>8
     DEF Process, Prepare, BuildSubmit, BuildRecord, RecordSubmission, Monitor, AttachJob,
         MarkFailed, PublishLabel, ValidateLabel, Verify, Finish, MarkComplete, FinalSubmit,
         FinalRecord, FinalWait, RecoverFinal, ValidateFinal, AfterFinal, SplitFinish, Refused
<1>4. CASE Crash \/ RunCommand
  BY <1>4 DEF Crash, RunCommand, Attach
<1>5. CASE ResumeCommand \/ SupervisorTurn
  <2>1. PICK target : Resumes(target)
    BY <1>5, ResumeStep DEF IInv
  <2>2. facts'.active = facts.active /\ pc = "down" /\ phase' = Synced(target)
    BY <2>1, TypeParts DEF Resumes, IInv, DurableTyped
  <2> QED
    BY <2>1, <2>2 DEF Resumes, Resume, Attach
<1>6. ASSUME NEW j \in DOMAIN jobs, Oar(j) PROVE UNCHANGED <<pc, want>>
  BY <1>6, OarStep, SplitOutKnown DEF IInv
<1>7. CASE UNCHANGED vars
  BY <1>7 DEF vars
<1> QED
  BY <1>1, <1>2, <1>3, <1>4, <1>5, <1>6, <1>7, <1>8 DEF Next, Oar

\* Every step preserves AfterSplitInv.
LEMMA AfterSplitStep == IInv /\ [Next]_vars => AfterSplitInv'
<1> SUFFICES ASSUME IInv, [Next]_vars PROVE AfterSplitInv'
  OBVIOUS
<1>0. /\ TypeOK /\ HandInv /\ KnownInv /\ PhaseInv /\ PointInv /\ AfterSplitInv
      /\ config' = config
  BY ConfigFixed DEF IInv, OrderInv, Fixed
<1> USE DEF durable, local, others, remote, root, Goto
<1>1. pc' \in {"afterFinal", "afterRecovery"} => facts'.splitOut # NoJob
  <2> SUFFICES ASSUME pc' \in {"afterFinal", "afterRecovery"} PROVE facts'.splitOut # NoJob
    OBVIOUS
  <2>1. CASE pc' = pc
    BY <1>0, <2>1, SplitOutKept DEF AfterSplitInv
  <2>2. CASE pc' # pc
    <3>1. FinalWait \/ RecoverFinal
      <4>1. ASSUME Process, ~FinalWait, ~RecoverFinal PROVE FALSE
        BY <1>0, <2>2, <4>1
           DEF Process, Prepare, Dispatch, LabelInput, BuildSubmit, BuildRecord, BuildWait,
               Submit, RecordSubmission, Monitor, RunLoopTurn, AttachJob, Classify, MarkFailed,
               PrepareDestination, PublishLabel, ValidateLabel, ReopenForProduction, Verify,
               Finish, MarkComplete, FinalSubmit, FinalRecord, AfterFinal, SplitFinish, Refused
      <4>2. ASSUME Crash \/ RunCommand \/ ResumeCommand \/ SupervisorTurn PROVE FALSE
        BY <2>2, <4>2 DEF Crash, RunCommand, ResumeCommand, SupervisorTurn, Resume, Attach
      <4>3. ASSUME NEW j \in DOMAIN jobs, Oar(j) PROVE FALSE
        BY <1>0, <2>2, <4>3, OarStep, SplitOutKnown
      <4> QED
        BY <2>2, <4>1, <4>2, <4>3 DEF Next, Oar, vars
    <3>2. facts' = [facts EXCEPT !.splitOut = facts.final] /\ phase = "finalizing"
      BY <1>0, <2>2, <3>1 DEF FinalWait, RecoverFinal, ValidateFinal, PointInv
    <3>3. DurableTyped
      BY <1>0, TypeParts
    <3> QED
      BY <1>0, <3>2, <3>3 DEF PhaseInv, DurableTyped
  <2> QED
    BY <2>1, <2>2
<1> SUFFICES ASSUME config.stage = "all", facts'.splitOut = NoJob
             PROVE  /\ facts'.active # "label" /\ facts'.build = NoJob
                    /\ \A j \in DOMAIN jobs' : jobs'[j].kind \notin {"label", "build"}
                    /\ pc' \notin BuildPoints
                    /\ pc' \in Submitting => want' = "split"
  BY <1>0, <1>1 DEF AfterSplitInv
<1>2. /\ facts.splitOut = NoJob /\ facts.active # "label" /\ facts.build = NoJob
      /\ \A j \in DOMAIN jobs : jobs[j].kind \notin {"label", "build"}
      /\ pc \notin BuildPoints /\ pc \notin {"afterFinal", "afterRecovery"}
      /\ pc \in Submitting => want = "split"
  BY <1>0, SplitOutKept DEF AfterSplitInv
<1>3. InputMissing /\ pc # "reopen"
  BY <1>0, <1>2, NoJobIsNone DEF InputMissing, TypeOK, PointInv
<1>4. facts'.active # "label"
  BY <1>2, <1>3, ActiveStep DEF RecordSubmission, Submitting
<1>5. facts'.build = NoJob
  BY <1>2, NamesStep DEF SameNames, BuildRecord, BuildPoints
<1>6. \A j \in DOMAIN jobs' : jobs'[j].kind \notin {"label", "build"}
  <2>1. ASSUME NEW kind \in Kinds, NEW lane \in Lanes, Submits(kind, lane), Added(kind, lane)
        PROVE  \A j \in DOMAIN jobs' : jobs'[j].kind \notin {"label", "build"}
    <3>1. kind \notin {"label", "build"}
      BY <1>2, <2>1 DEF Submits, BuildSubmit, Submit, BuildPoints, Submitting
    <3> QED
      BY <1>2, <2>1, <3>1 DEF Added
  <2>2. CASE Aged
    BY <1>2, <2>2 DEF Aged
  <2> QED
    BY <2>1, <2>2, JobsStep DEF Silent
<1>7. pc' \notin BuildPoints
  <2>1. ASSUME Process PROVE pc' \notin BuildPoints
    BY <1>0, <1>2, <1>3, <2>1
       DEF Process, Prepare, Dispatch, LabelInput, BuildSubmit, BuildRecord, BuildWait,
           Submit, RecordSubmission, Monitor, RunLoopTurn, AttachJob, Classify, MarkFailed,
           PrepareDestination, PublishLabel, ValidateLabel, ReopenForProduction, Verify,
           Finish, MarkComplete, FinalSubmit, FinalRecord, FinalWait, RecoverFinal,
           ValidateFinal, AfterFinal, SplitFinish, Refused, BuildPoints
  <2>2. CASE Crash \/ RunCommand \/ ResumeCommand \/ SupervisorTurn \/ UNCHANGED vars
    BY <1>2, <2>2 DEF Crash, RunCommand, ResumeCommand, SupervisorTurn, Resume, Attach, vars,
                      BuildPoints
  <2>3. ASSUME NEW j \in DOMAIN jobs, Oar(j) PROVE UNCHANGED pc
    BY <1>0, <2>3, OarStep, SplitOutKnown
  <2> QED
    BY <1>2, <2>1, <2>2, <2>3 DEF Next, Oar
<1>8. ASSUME pc' \in Submitting PROVE want' = "split"
  <2>1. want = facts.active /\ phase \in Open \cup {"failed"} => want = "split"
    BY <1>0, <1>2 DEF PhaseInv, KnownInv, Open
  <2> QED
    BY <1>2, <1>3, <1>8, <2>1, SubmittingStep DEF BuildPoints
<1> QED
  BY <1>4, <1>5, <1>6, <1>7, <1>8

\* A label run has no split, at any point.
LEMMA LabelOnlyStep == IInv /\ [Next]_vars => LabelOnlyInv'
<1> SUFFICES ASSUME IInv, [Next]_vars, config.stage = "label"
             PROVE  /\ facts'.active # "split" /\ facts'.splitOut = NoJob /\ facts'.final = NoJob
                    /\ phase' \notin {"checkpointed", "finalizing"} /\ pc' \notin FinalPoints
                    /\ \A j \in DOMAIN jobs' : jobs'[j].kind \in {"label", "build"}
                    /\ pc' \in Submitting => want' = "label"
  BY ConfigFixed DEF LabelOnlyInv, Fixed
<1>0. /\ TypeOK /\ HandInv /\ KnownInv /\ PhaseInv /\ PointInv
      /\ facts.active # "split" /\ facts.splitOut = NoJob /\ facts.final = NoJob
      /\ phase \notin {"checkpointed", "finalizing"} /\ pc \notin FinalPoints
      /\ \A j \in DOMAIN jobs : jobs[j].kind \in {"label", "build"}
      /\ pc \in Submitting => want = "label"
  BY DEF IInv, OrderInv, LabelOnlyInv
<1> USE DEF durable, local, others, remote, root, Goto
<1>1. facts'.active # "split"
  BY <1>0, ActiveStep DEF RecordSubmission, Submitting
<1>2. facts'.splitOut = NoJob
  BY <1>0, SplitOutKept
<1>3. facts'.final = NoJob
  BY <1>0, NamesStep DEF SameNames, FinalRecord, FinalPoints
<1>4. pc \in Watching => want = "label"
  BY <1>0, Looking
<1>5. phase' \notin {"checkpointed", "finalizing"} /\ pc' \notin FinalPoints
  <2>1. CASE Prepare
    BY <1>0, <2>1, PreparationPhases DEF Prepare, FinalPoints
  <2>2. CASE RunLoopTurn \/ Classify
    BY <1>0, <1>4, <2>2 DEF RunLoopTurn, Classify, Watching, FinalPoints
  <2>3. CASE Process /\ ~Prepare /\ ~RunLoopTurn /\ ~Classify
    BY <1>0, <2>3
       DEF Process, Dispatch, LabelInput, BuildSubmit, BuildRecord, BuildWait, Submit,
           RecordSubmission, Monitor, AttachJob, MarkFailed, PrepareDestination, PublishLabel,
           ValidateLabel, ReopenForProduction, Verify, Finish, MarkComplete, FinalSubmit,
           FinalRecord, FinalWait, RecoverFinal, AfterFinal, SplitFinish, Refused, FinalPoints
  <2>4. CASE Crash \/ RunCommand
    BY <1>0, <2>4 DEF Crash, RunCommand, Attach, SyncTarget, Synced, FinalPoints
  <2>5. CASE ResumeCommand \/ SupervisorTurn
    <3>1. ASSUME NEW target, Resumes(target)
          PROVE  phase' \notin {"checkpointed", "finalizing"} /\ pc' \notin FinalPoints
      BY <1>0, <3>1 DEF Resumes, Resume, Attach, Synced, FinalPoints
    <3> QED
      BY <1>0, <2>5, <3>1, ResumeStep
  <2>6. ASSUME NEW j \in DOMAIN jobs, Oar(j) PROVE UNCHANGED <<pc, phase>>
    BY <1>0, <2>6, OarStep, SplitOutKnown
  <2>7. CASE UNCHANGED vars
    BY <1>0, <2>7 DEF vars
  <2> QED
    BY <1>0, <2>1, <2>2, <2>3, <2>4, <2>5, <2>6, <2>7 DEF Next, Oar
<1>6. \A j \in DOMAIN jobs' : jobs'[j].kind \in {"label", "build"}
  <2>1. ASSUME NEW kind \in Kinds, NEW lane \in Lanes, Submits(kind, lane), Added(kind, lane)
        PROVE  \A j \in DOMAIN jobs' : jobs'[j].kind \in {"label", "build"}
    <3>1. kind \in {"label", "build"}
      BY <1>0, <2>1 DEF Submits, FinalSubmit, Submit, FinalPoints, Submitting
    <3> QED
      BY <1>0, <2>1, <3>1 DEF Added
  <2>2. CASE Aged
    BY <1>0, <2>2 DEF Aged
  <2> QED
    BY <2>1, <2>2, JobsStep DEF Silent
<1>7. pc' \in Submitting => want' = "label"
  BY <1>0, <1>4, SubmittingStep DEF Watching
<1> QED
  BY <1>1, <1>2, <1>3, <1>5, <1>6, <1>7

-----------------------------------------------------------------------------
(* The llama-server build.                                                 *)

\* An orphan stays one, and jobs that ended stay ended.
LEMMA OrphansGrow ==
  ASSUME IInv, [Next]_vars
  PROVE  /\ orphans \subseteq orphans'
         /\ \A kind : Orphaned(kind) => Orphaned(kind)'
         /\ \A j \in DOMAIN jobs \cup {NoJob} : Live(j)' => Live(j)
         /\ Crash \/ UNCHANGED orphans
<1>0. Grown /\ orphans \subseteq DOMAIN jobs /\ NoJob \notin DOMAIN jobs /\ MaxJobs \in Nat
  BY JobsGrow, NoJobIsNone, Sizes DEF IInv, TypeOK
<1>1. orphans \subseteq orphans' /\ (Crash \/ UNCHANGED orphans)
  BY NamesStep DEF Crash, others
<1>2. \A j \in orphans : jobs'[j].kind = jobs[j].kind
  BY <1>0 DEF Grown
<1>3. NoJob \notin DOMAIN jobs'
  BY <1>0 DEF Grown, JobIds, NoJob
<1> QED
  BY <1>0, <1>1, <1>2, <1>3 DEF Orphaned, Live, Grown

\* Only a running build installs the server.
LEMMA ServerStep ==
  ASSUME IInv, [Next]_vars, ~server, server'
  PROVE  \E j \in DOMAIN jobs : /\ jobs[j].kind = "build" /\ Live(j) /\ ~Live(j)'
                                /\ UNCHANGED <<durable, pc, local, others>>
<1> USE DEF remote, root
<1>1. ASSUME Process \/ Crash \/ ResumeCommand \/ SupervisorTurn \/ UNCHANGED vars PROVE FALSE
  BY <1>1
     DEF Process, vars, Prepare, Dispatch, LabelInput, BuildSubmit, BuildRecord, BuildWait,
         Submit, RecordSubmission, Monitor, RunLoopTurn, AttachJob, Classify, MarkFailed,
         PrepareDestination, PublishLabel, ValidateLabel, ReopenForProduction, Verify,
         Finish, MarkComplete, FinalSubmit, FinalRecord, FinalWait, RecoverFinal,
         AfterFinal, SplitFinish, Crash, ResumeCommand, SupervisorTurn, Resume
<1>2. ASSUME RunCommand PROVE FALSE
  BY <1>2 DEF RunCommand, ReclaimRoots
<1>3. ASSUME NEW j \in DOMAIN jobs, Oar(j)
      PROVE  /\ jobs[j].kind = "build" /\ Live(j) /\ ~Live(j)'
             /\ UNCHANGED <<durable, pc, local, others>>
  BY <1>3, OarStep, SplitOutKnown DEF IInv, Live
<1> QED
  BY <1>1, <1>2, <1>3 DEF Next, Oar

\* A live build is the recorded one, the one in hand, or an orphan.
LEMMA LiveBuild ==
  ASSUME IInv, NEW j \in DOMAIN jobs, Live(j), jobs[j].kind = "build", ~Orphaned("build")
  PROVE  j = facts.build \/ (pc = "buildRecord" /\ j = inhand)
<1>1. j \in Named \cup {inhand}
  BY DEF Orphaned, IInv, KnownInv
<1>2. CASE j \in Named
  BY <1>2, NoJobIsNone DEF Named, IInv, KnownInv
<1>3. CASE j = inhand
  BY <1>3, NoJobIsNone DEF IInv, HandInv, Held, PointInv, Submitting
<1> QED
  BY <1>1, <1>2, <1>3

\* A prepared run leaves that phase by a submission.
LEMMA PreparedLeft ==
  ASSUME IInv, [Next]_vars, phase = "remote_prepared", phase' # phase
  PROVE  RecordSubmission
<1>0. PointInv
  BY DEF IInv
<1> USE DEF durable
<1>1. ASSUME Process, ~RecordSubmission PROVE FALSE
  <2>1. ~Prepare
    BY PreparationPhases DEF Prepare
  <2>2. ~FinalRecord /\ ~FinalWait /\ ~RecoverFinal
    BY <1>0 DEF FinalRecord, FinalWait, RecoverFinal, PointInv
  <2>3. ~Monitor /\ ~RunLoopTurn /\ ~Classify /\ ~ValidateLabel
    BY <1>0 DEF Monitor, RunLoopTurn, Classify, ValidateLabel, PointInv, Watching, Open
  <2>4. ~Verify /\ ~Finish /\ ~SplitFinish /\ ~ReopenForProduction /\ ~AfterFinal /\ ~Dispatch
    BY <1>0 DEF Verify, Finish, SplitFinish, ReopenForProduction, AfterFinal, Dispatch, PointInv
  <2> QED
    BY <1>1, <2>1, <2>2, <2>3, <2>4
       DEF Process, LabelInput, BuildSubmit, BuildRecord, BuildWait, Submit, AttachJob,
           MarkFailed, PrepareDestination, PublishLabel, MarkComplete, FinalSubmit
<1>2. ASSUME Crash \/ RunCommand \/ ResumeCommand \/ SupervisorTurn \/ UNCHANGED vars PROVE FALSE
  BY <1>2 DEF Crash, RunCommand, ResumeCommand, SupervisorTurn, SyncTarget, Synced, vars
<1>3. ASSUME NEW j \in DOMAIN jobs, Oar(j) PROVE FALSE
  BY <1>3, OarStep, SplitOutKnown DEF IInv
<1> QED
  BY <1>1, <1>2, <1>3 DEF Next, Oar

\* How the process comes to the points of ensure_llama_server.
LEMMA BuildPointStep ==
  ASSUME IInv, [Next]_vars
  PROVE  /\ pc' = "buildSubmit" =>
              \/ pc = "buildSubmit"
              \/ LabelInput /\ ~server /\ ~Live(facts.build) /\ UNCHANGED <<facts, jobs, server>>
         /\ pc' = "buildRecord" => pc = "buildRecord" \/ (pc = "buildSubmit" /\ BuildSubmit)
<1> USE DEF durable, remote, root, local, Goto
<1>1. CASE LabelInput \/ BuildSubmit
  BY <1>1 DEF LabelInput, BuildSubmit, Refused
<1>2. CASE Process /\ ~LabelInput /\ ~BuildSubmit
  <2>1. pc' # "buildRecord" /\ (pc' = "buildSubmit" => pc = "buildSubmit")
    BY <1>2
       DEF Process, Prepare, Dispatch, BuildRecord, BuildWait,
           Submit, RecordSubmission, Monitor, RunLoopTurn, AttachJob, Classify, MarkFailed,
           PrepareDestination, PublishLabel, ValidateLabel, ReopenForProduction, Verify,
           Finish, MarkComplete, FinalSubmit, FinalRecord, FinalWait, RecoverFinal,
           ValidateFinal, AfterFinal, SplitFinish, Refused
  <2> QED
    BY <2>1
<1>3. CASE Crash \/ RunCommand \/ ResumeCommand \/ SupervisorTurn \/ UNCHANGED vars
  BY <1>3 DEF Crash, RunCommand, ResumeCommand, SupervisorTurn, Resume, Attach, vars
<1>4. ASSUME NEW j \in DOMAIN jobs, Oar(j) PROVE UNCHANGED pc
  BY <1>4, OarStep, SplitOutKnown DEF IInv
<1> QED
  BY <1>1, <1>2, <1>3, <1>4 DEF Next, Oar

\* Every step preserves BuildInv.
LEMMA BuildStep == IInv /\ [Next]_vars => BuildInv'
<1> SUFFICES ASSUME IInv, [Next]_vars PROVE BuildInv'
  OBVIOUS
<1>0. /\ TypeOK /\ HandInv /\ KnownInv /\ PhaseInv /\ PointInv /\ BuildInv
      /\ AfterSplitInv /\ LabelOnlyInv /\ config' = config
  BY ConfigFixed DEF IInv, OrderInv, Fixed
<1> USE DEF durable, local, others, remote, root
<1>1. facts.build \in DOMAIN jobs \cup {NoJob} /\ ~Live(NoJob)
  BY <1>0, NoJobIsNone DEF KnownInv, Named
<1>2. \/ facts'.build = facts.build
      \/ BuildRecord /\ facts'.build = inhand /\ pc = "buildRecord"
  BY NamesStep DEF SameNames, BuildRecord
<1>3. facts'.build = facts.build => (Live(facts.build)' => Live(facts.build))
  BY <1>1, OrphansGrow DEF Live
<1>4. pc' \in {"buildSubmit", "buildRecord"} => ~Live(facts.build)'
  <2>1. ASSUME pc' \in {"buildSubmit", "buildRecord"}
        PROVE  ~Live(facts.build) /\ ~BuildRecord
    BY <1>0, <2>1, BuildPointStep DEF BuildInv, BuildRecord, LabelInput, Goto
  <2> QED
    BY <1>2, <1>3, <2>1
<1>5. ASSUME config.stage = "all", pc' \in Submitting, want' = "split", facts'.build # NoJob
      PROVE  facts'.active = "split"
  <2>1. facts.build # NoJob
    BY <1>2, <1>5 DEF BuildRecord, Goto, Submitting
  <2>2. facts.splitOut # NoJob
    BY <1>0, <1>5, <2>1 DEF AfterSplitInv
  <2>3. facts.active = "split"
    BY <1>0, <1>5, <2>1, <2>2, SubmittingStep DEF BuildInv
  <2>4. facts'.active \in {facts.active, "split"} \/ pc \in {"reopen", "afterFinal", "afterRecovery"}
    BY <1>5, ActiveStep DEF RecordSubmission, Goto, Submitting
  <2> QED
    BY <1>0, <1>5, <2>3, <2>4, SubmittingStep DEF Submitting, PointInv
<1> SUFFICES ASSUME config.stage # "split", ~Orphaned("build")'
             PROVE  /\ Live(facts.build)' =>
                         ~server' /\ (phase' = "remote_prepared" \/ facts'.active = "split")
                    /\ pc' = "buildSubmit" \/ (pc' = "buildRecord" /\ Live(inhand)') => ~server'
                    /\ pc' \in Submitting /\ want' = "label" => ~Live(facts.build)'
  BY <1>0, <1>4, <1>5 DEF BuildInv
<1>6. /\ ~Orphaned("build")
      /\ Live(facts.build) => ~server /\ (phase = "remote_prepared" \/ facts.active = "split")
      /\ pc = "buildSubmit" \/ (pc = "buildRecord" /\ Live(inhand)) => ~server
      /\ pc \in Submitting /\ want = "label" => ~Live(facts.build)
  BY <1>0, OrphansGrow DEF BuildInv
<1>7. ASSUME Live(facts.build)' PROVE ~server'
  <2>1. CASE BuildRecord /\ facts'.build = inhand /\ pc = "buildRecord"
    <3>1. inhand \in DOMAIN jobs
      BY <1>0, <2>1 DEF HandInv, Held
    <3>2. Live(inhand)
      BY <1>7, <2>1, <3>1, OrphansGrow DEF Live
    <3> QED
      BY <1>6, <2>1, <3>2 DEF BuildRecord
  <2>2. CASE facts'.build = facts.build
    <3>1. Live(facts.build) /\ ~server
      BY <1>3, <1>6, <1>7, <2>2
    <3>2. ASSUME server' PROVE FALSE
      <4>1. PICK j \in DOMAIN jobs : /\ jobs[j].kind = "build" /\ Live(j) /\ ~Live(j)'
                                     /\ UNCHANGED <<durable, pc, local, others>>
        BY <3>1, <3>2, ServerStep
      <4>2. j = facts.build \/ (pc = "buildRecord" /\ j = inhand)
        BY <1>6, <4>1, LiveBuild
      <4>3. j = facts.build
        BY <1>0, <3>1, <4>2 DEF BuildInv
      <4> QED
        BY <1>7, <4>1, <4>3 DEF Live
    <3> QED
      BY <3>2
  <2> QED
    BY <1>2, <2>1, <2>2
<1>8. ASSUME Live(facts.build)' PROVE phase' = "remote_prepared" \/ facts'.active = "split"
  <2>1. CASE BuildRecord
    BY <1>0, <2>1 DEF BuildRecord, PointInv
  <2>2. CASE ~BuildRecord
    <3>1. Live(facts.build) /\ (phase = "remote_prepared" \/ facts.active = "split")
      BY <1>2, <1>3, <1>6, <1>8, <2>2
    <3>2. CASE RecordSubmission
      <4>1. want \in {"split", "label"} /\ pc \in Submitting
        BY <1>0, <3>2 DEF RecordSubmission, PointInv, Submitting
      <4>2. want = "split"
        BY <1>6, <3>1, <4>1
      <4>3. DurableTyped
        BY <1>0, TypeParts
      <4> QED
        BY <3>2, <4>2, <4>3 DEF RecordSubmission, DurableTyped
    <3>3. CASE ~RecordSubmission /\ phase = "remote_prepared"
      BY <3>3, PreparedLeft
    <3>4. CASE ~RecordSubmission /\ facts.active = "split"
      <4>1. CASE AfterFinal /\ config.stage # "split"
        BY <4>1 DEF AfterFinal
      <4>2. CASE ReopenForProduction
        BY <4>2 DEF ReopenForProduction
      <4> QED
        BY <3>4, <4>1, <4>2, ActiveStep
    <3> QED
      BY <3>1, <3>2, <3>3, <3>4
  <2> QED
    BY <2>1, <2>2
<1>9. ASSUME pc' = "buildSubmit" \/ (pc' = "buildRecord" /\ Live(inhand)') PROVE ~server'
  <2>1. CASE LabelInput /\ ~server /\ UNCHANGED server
    BY <2>1
  <2>2. CASE BuildSubmit
    BY <1>6, <2>2 DEF BuildSubmit
  <2>3. CASE pc' = pc /\ ~BuildSubmit
    <3>1. UNCHANGED inhand
      <4>1. ~RecordSubmission /\ ~FinalRecord /\ ~BuildRecord /\ ~Crash
        BY <1>9, <2>3 DEF RecordSubmission, FinalRecord, BuildRecord, Crash, Goto
      <4>2. ASSUME NEW kind, NEW lane, Submits(kind, lane) PROVE FALSE
        BY <1>9, <2>3, <4>2 DEF Submits, Submit, FinalSubmit
      <4> QED
        BY <4>1, <4>2, NamesStep
    <3>2. pc = "buildRecord" => inhand \in DOMAIN jobs
      BY <1>0 DEF HandInv, Held
    <3>3. ~server
      BY <1>6, <1>9, <2>3, <3>1, <3>2, OrphansGrow DEF Live
    <3>4. ASSUME server' PROVE FALSE
      <4>1. PICK j \in DOMAIN jobs : /\ jobs[j].kind = "build" /\ Live(j) /\ ~Live(j)'
                                     /\ UNCHANGED <<durable, pc, local, others>>
        BY <3>3, <3>4, ServerStep
      <4>2. j = facts.build \/ (pc = "buildRecord" /\ j = inhand)
        BY <1>6, <4>1, LiveBuild
      <4>3. pc = "buildRecord" /\ j = inhand
        BY <1>0, <1>9, <2>3, <4>1, <4>2 DEF BuildInv
      <4> QED
        BY <1>9, <2>3, <4>1, <4>3 DEF Live
    <3> QED
      BY <3>4
  <2> QED
    BY <1>9, <2>1, <2>2, <2>3, BuildPointStep
<1>10. ASSUME pc' \in Submitting, want' = "label" PROVE ~Live(facts.build)'
  <2>1. facts'.build = facts.build
    BY <1>2, <1>10 DEF BuildRecord, Goto, Submitting
  <2>2. ~Live(facts.build)
    BY <1>0, <1>6, <1>10, SubmittingStep DEF PointInv, Open
  <2> QED
    BY <1>3, <2>1, <2>2
<1> QED
  BY <1>7, <1>8, <1>9, <1>10

-----------------------------------------------------------------------------
(* The lanes.                                                              *)

\* The recorded lane changes with a label submission and when labeling reopens.
LEMMA LaneFact ==
  ASSUME IInv, [Next]_vars
  PROVE  \/ facts'.lane = facts.lane
         \/ RecordSubmission /\ want = "label" /\ facts'.lane = CurrentLane
         \/ ReopenForProduction
         \/ AfterFinal /\ phase' = "remote_prepared"
              /\ facts'.lane = IF config.smoke THEN "smoke" ELSE "production"
<1>0. DurableTyped
  BY TypeParts DEF IInv
<1> USE DEF durable, local, others, remote, root
<1>1. CASE Process /\ ~RecordSubmission /\ ~ReopenForProduction /\ ~AfterFinal
  <2>1. CASE Classify \/ ValidateLabel
    BY <1>0, <2>1 DEF Classify, ValidateLabel, Recovery, DurableTyped
  <2>2. CASE BuildRecord \/ FinalRecord \/ FinalWait \/ RecoverFinal
    BY <1>0, <2>2 DEF BuildRecord, FinalRecord, FinalWait, RecoverFinal, ValidateFinal,
                      DurableTyped
  <2>3. CASE UNCHANGED facts
    BY <2>3
  <2> QED
    BY <1>1, <2>1, <2>2, <2>3
       DEF Process, Prepare, Dispatch, LabelInput, BuildSubmit, BuildWait, Submit, Monitor,
           RunLoopTurn, AttachJob, MarkFailed, PrepareDestination, PublishLabel, Verify,
           Finish, MarkComplete, FinalSubmit, SplitFinish
<1>2. CASE RecordSubmission
  BY <1>0, <1>2 DEF RecordSubmission, DurableTyped
<1>3. CASE ReopenForProduction
  BY <1>3
<1>4. CASE AfterFinal
  BY <1>0, <1>4 DEF AfterFinal, DurableTyped
<1>5. CASE Crash \/ UNCHANGED vars
  BY <1>5 DEF Crash, vars
<1>6. ASSUME NEW target, SyncTarget(target) PROVE facts'.lane = facts.lane
  BY <1>0, <1>6 DEF SyncTarget, DurableTyped
<1>7. CASE RunCommand \/ ResumeCommand \/ SupervisorTurn
  BY <1>6, <1>7 DEF RunCommand, ResumeCommand, SupervisorTurn
<1>8. ASSUME NEW j \in DOMAIN jobs, Oar(j) PROVE UNCHANGED facts
  BY <1>8, OarStep, SplitOutKnown DEF IInv
<1> QED
  BY <1>1, <1>2, <1>3, <1>4, <1>5, <1>7, <1>8 DEF Next, Process, Oar

\* A run has a job under OAR, or the evidence of its failure, only from its
\* submission on.
LEMMA OpenEntered ==
  ASSUME IInv, [Next]_vars, phase' \in Open \cup {"failed"}, phase \notin Open \cup {"failed"}
  PROVE  RecordSubmission
<1> USE DEF durable, Open
<1>1. ASSUME Prepare PROVE FALSE
  BY <1>1, PreparationPhases DEF Prepare
<1>2. ASSUME Process, ~RecordSubmission, ~Prepare PROVE FALSE
  BY <1>2
     DEF Process, Dispatch, LabelInput, BuildSubmit, BuildRecord, BuildWait, Submit, Monitor,
         RunLoopTurn, AttachJob, Classify, Classifiable, MarkFailed, PrepareDestination,
         PublishLabel, ValidateLabel, ReopenForProduction, Verify, Finish, MarkComplete,
         FinalSubmit, FinalRecord, FinalWait, RecoverFinal, ValidateFinal, AfterFinal,
         SplitFinish
<1>3. ASSUME Crash \/ RunCommand \/ ResumeCommand \/ SupervisorTurn \/ UNCHANGED vars PROVE FALSE
  BY <1>3 DEF Crash, RunCommand, ResumeCommand, SupervisorTurn, SyncTarget, Synced, vars
<1>4. ASSUME NEW j \in DOMAIN jobs, Oar(j) PROVE FALSE
  BY <1>4, OarStep, SplitOutKnown DEF IInv
<1> QED
  BY <1>1, <1>2, <1>3, <1>4 DEF Next, Oar

\* The process reaches the reopening for production from a validation.
LEMMA ReopenEntered ==
  ASSUME IInv, [Next]_vars, pc' = "reopen", pc # "reopen"
  PROVE  ValidateLabel /\ SmokeLane /\ Classifiable
<1> USE DEF durable, remote, local, Goto
<1>1. ASSUME Process, ~ValidateLabel PROVE FALSE
  BY <1>1
     DEF Process, Prepare, Dispatch, LabelInput, BuildSubmit, BuildRecord, BuildWait, Submit,
         RecordSubmission, Monitor, RunLoopTurn, AttachJob, Classify, MarkFailed,
         PrepareDestination, PublishLabel, ReopenForProduction, Verify, Finish, MarkComplete,
         FinalSubmit, FinalRecord, FinalWait, RecoverFinal, ValidateFinal, AfterFinal,
         SplitFinish, Refused
<1>2. ASSUME Crash \/ RunCommand \/ ResumeCommand \/ SupervisorTurn \/ UNCHANGED vars PROVE FALSE
  BY <1>2 DEF Crash, RunCommand, ResumeCommand, SupervisorTurn, Resume, Attach, vars
<1>3. ASSUME NEW j \in DOMAIN jobs, Oar(j) PROVE FALSE
  BY <1>3, OarStep, SplitOutKnown DEF IInv
<1> QED
  BY <1>1, <1>2, <1>3 DEF Next, Oar, ValidateLabel

\* Every step preserves LaneInv.
LEMMA LaneStep == IInv /\ [Next]_vars => LaneInv'
<1> SUFFICES ASSUME IInv, [Next]_vars, config.v2
             PROVE  /\ phase' \in Open \cup {"failed"} /\ facts'.active = "label" =>
                         facts'.lane = jobs'[facts'.job].lane
                    /\ config.smoke =>
                         \/ SmokeEnded'
                         \/ /\ facts'.lane # "production" /\ pc' # "reopen"
                            /\ \A j \in DOMAIN jobs' :
                                 jobs'[j].kind = "label" => jobs'[j].lane = "smoke"
  BY ConfigFixed DEF LaneInv, Fixed
<1>0. /\ TypeOK /\ DurableTyped /\ HandInv /\ KnownInv /\ PhaseInv /\ PointInv /\ LaneInv
      /\ Grown /\ config' = config
  BY TypeParts, JobsGrow, ConfigFixed DEF IInv, Fixed
<1>1. ASSUME phase' \in Open \cup {"failed"}, facts'.active = "label"
      PROVE  facts'.lane = jobs'[facts'.job].lane
  <2>1. CASE RecordSubmission
    <3>1. want = "label" /\ facts'.job = inhand /\ facts'.lane = CurrentLane
      BY <1>0, <1>1, <2>1 DEF RecordSubmission, DurableTyped
    <3>2. inhand \in DOMAIN jobs /\ jobs[inhand].lane = CurrentLane
      BY <1>0, <2>1 DEF RecordSubmission, HandInv, Held
    <3> QED
      BY <1>0, <3>1, <3>2 DEF Grown
  <2>2. CASE ~RecordSubmission
    <3>1. phase \in Open \cup {"failed"}
      BY <1>1, <2>2, OpenEntered
    <3>2. ~ReopenForProduction /\ ~AfterFinal
      BY <1>0, <3>1 DEF ReopenForProduction, AfterFinal, PointInv, Open
    <3>3. facts'.active = facts.active /\ facts'.lane = facts.lane
      BY <2>2, <3>2, ActiveStep, LaneFact
    <3>4. facts'.job = facts.job
      BY <2>2, NamesStep DEF SameNames
    <3>5. facts.job \in DOMAIN jobs
      BY <1>0, <3>1 DEF PhaseInv, KnownInv, Named
    <3> QED
      BY <1>0, <1>1, <3>1, <3>3, <3>4, <3>5 DEF LaneInv, Grown
  <2> QED
    BY <2>1, <2>2
<1>2. ASSUME SmokeEnded PROVE SmokeEnded'
  <2>1. PICK j \in DOMAIN jobs : jobs[j].kind = "label" /\ jobs[j].lane = "smoke" /\ ~Live(j)
    BY <1>2 DEF SmokeEnded
  <2>2. j \in DOMAIN jobs' /\ jobs'[j].kind = "label" /\ jobs'[j].lane = "smoke" /\ ~Live(j)'
    BY <1>0, <2>1 DEF Grown, Live
  <2> QED
    BY <2>2 DEF SmokeEnded
<1>3. ASSUME config.smoke, ~SmokeEnded'
      PROVE  /\ facts'.lane # "production" /\ pc' # "reopen"
             /\ \A j \in DOMAIN jobs' : jobs'[j].kind = "label" => jobs'[j].lane = "smoke"
  <2>1. /\ facts.lane # "production" /\ pc # "reopen"
        /\ \A j \in DOMAIN jobs : jobs[j].kind = "label" => jobs[j].lane = "smoke"
    BY <1>0, <1>2, <1>3 DEF LaneInv
  <2>2. CurrentLane = "smoke"
    BY <1>0, <1>3, <2>1 DEF CurrentLane, DurableTyped, Lanes
  <2>3. facts'.lane # "production"
    BY <1>3, <2>1, <2>2, LaneFact DEF ReopenForProduction
  <2>4. ASSUME pc' = "reopen" PROVE FALSE
    <3>1. ValidateLabel /\ Classifiable
      BY <2>1, <2>4, ReopenEntered
    <3>2. /\ cur = facts.job /\ want = "label" /\ phase \in Open \cup {"failed"} /\ ~Live(cur)
          /\ cur \in DOMAIN jobs /\ want = facts.active /\ jobs[cur].kind = want
      BY <1>0, <3>1, Looking DEF ValidateLabel, Classifiable, PointInv, Watching, Over, Open
    <3>3. jobs[cur].lane = "smoke"
      BY <2>1, <3>2
    <3>4. SmokeEnded
      BY <3>2, <3>3 DEF SmokeEnded
    <3> QED
      BY <1>2, <1>3, <3>4
  <2>5. \A j \in DOMAIN jobs' : jobs'[j].kind = "label" => jobs'[j].lane = "smoke"
    <3>1. ASSUME NEW kind \in Kinds, NEW lane \in Lanes, Submits(kind, lane), Added(kind, lane)
          PROVE  \A j \in DOMAIN jobs' : jobs'[j].kind = "label" => jobs'[j].lane = "smoke"
      BY <2>1, <2>2, <3>1 DEF Added, Submits
    <3>2. CASE Aged
      BY <2>1, <3>2 DEF Aged
    <3> QED
      BY <3>1, <3>2, JobsStep DEF Silent
  <2> QED
    BY <2>1, <2>3, <2>4, <2>5
<1> QED
  BY <1>1, <1>2, <1>3

-----------------------------------------------------------------------------
(* What is labelled and published.                                         *)

\* The recorded target never falls, and is raised by a command only.
LEMMA TargetGrows ==
  ASSUME IInv, [Next]_vars
  PROVE  /\ facts'.target \in Nat /\ facts.target <= facts'.target
         /\ facts'.target # facts.target => pc = "down"
<1>0. DurableTyped /\ MaxTarget \in Positive
  BY TypeParts, Sizes DEF IInv
<1>1. facts.target \in Nat /\ facts.target <= MaxTarget /\ MaxTarget \in Nat
  BY <1>0 DEF DurableTyped, Targeted, Positive
<1> USE DEF durable, local, others, remote, root
<1>2. CASE Process /\ ~RecordSubmission /\ ~ReopenForProduction /\ ~AfterFinal
  <2>1. CASE Classify \/ ValidateLabel
    BY <1>0, <1>1, <2>1 DEF Classify, ValidateLabel, Recovery, DurableTyped
  <2>2. CASE BuildRecord \/ FinalRecord \/ FinalWait \/ RecoverFinal
    BY <1>0, <1>1, <2>2 DEF BuildRecord, FinalRecord, FinalWait, RecoverFinal, ValidateFinal,
                      DurableTyped
  <2>3. CASE UNCHANGED facts
    BY <1>1, <2>3
  <2> QED
    BY <1>2, <2>1, <2>2, <2>3
       DEF Process, Prepare, Dispatch, LabelInput, BuildSubmit, BuildWait, Submit, Monitor,
           RunLoopTurn, AttachJob, MarkFailed, PrepareDestination, PublishLabel, Verify,
           Finish, MarkComplete, FinalSubmit, SplitFinish
<1>3. CASE RecordSubmission \/ ReopenForProduction \/ AfterFinal
  <2>1. ASSUME RecordSubmission PROVE facts'.target = facts.target
    BY <1>0, <2>1 DEF RecordSubmission, DurableTyped
  <2>2. ASSUME ReopenForProduction PROVE facts'.target = facts.target
    BY <1>0, <2>2 DEF ReopenForProduction, DurableTyped
  <2>3. ASSUME AfterFinal PROVE facts'.target = facts.target
    BY <1>0, <2>3 DEF AfterFinal, DurableTyped
  <2> QED
    BY <1>1, <1>3, <2>1, <2>2, <2>3
<1>4. CASE Crash \/ UNCHANGED vars
  BY <1>1, <1>4 DEF Crash, vars
<1>5. ASSUME NEW target \in facts.target .. MaxTarget, SyncTarget(target)
      PROVE  facts'.target \in Nat /\ facts.target <= facts'.target
  BY <1>0, <1>1, <1>5 DEF SyncTarget, DurableTyped
<1>6. Targets \subseteq facts.target .. MaxTarget
  BY <1>1 DEF Targets
<1>7. CASE RunCommand \/ ResumeCommand
  BY <1>5, <1>6, <1>7 DEF RunCommand, ResumeCommand
<1>8. CASE SupervisorTurn
  BY <1>1, <1>8 DEF SupervisorTurn
<1>9. ASSUME NEW j \in DOMAIN jobs, Oar(j) PROVE UNCHANGED facts
  BY <1>9, OarStep, SplitOutKnown DEF IInv
<1> QED
  BY <1>1, <1>2, <1>3, <1>4, <1>7, <1>8, <1>9 DEF Next, Process, Oar

\* Who changes labels and releases.
LEMMA EvidenceStep ==
  ASSUME IInv, [Next]_vars
  PROVE  \/ UNCHANGED <<label, hub>>
         \/ /\ RunCommand /\ UNCHANGED hub /\ label' = FreshLabel /\ marker' = "none"
            /\ pc' = "prepare" /\ Removable
         \/ PublishLabel /\ UNCHANGED label
         \/ /\ AfterFinal /\ config.stage = "split" /\ UNCHANGED label
            /\ hub' = [hub EXCEPT !.split = TRUE]
         \/ \E j \in DOMAIN jobs :
              /\ Oar(j) /\ Labels(j) /\ jobs[j].kind = "label" /\ Live(j) /\ ~Live(j)'
              /\ Aged /\ UNCHANGED <<durable, marker, pc, local, others>>
<1> USE DEF remote, root
<1>1. CASE Process /\ ~PublishLabel /\ ~AfterFinal
  BY <1>1
     DEF Process, Prepare, Dispatch, LabelInput, BuildSubmit, BuildRecord, BuildWait,
         Submit, RecordSubmission, Monitor, RunLoopTurn, AttachJob, Classify, MarkFailed,
         PrepareDestination, ValidateLabel, ReopenForProduction, Verify,
         Finish, MarkComplete, FinalSubmit, FinalRecord, FinalWait, RecoverFinal, SplitFinish
<1>2. CASE PublishLabel \/ AfterFinal
  BY <1>2 DEF PublishLabel, AfterFinal
<1>3. CASE Crash \/ ResumeCommand \/ SupervisorTurn \/ UNCHANGED vars
  BY <1>3 DEF Crash, ResumeCommand, SupervisorTurn, Resume, vars
<1>4. CASE RunCommand
  BY <1>4 DEF RunCommand, ReclaimRoots, Goto
<1>5. ASSUME NEW j \in DOMAIN jobs, Oar(j), ~UNCHANGED <<label, hub>>
      PROVE  /\ Labels(j) /\ jobs[j].kind = "label" /\ Live(j) /\ ~Live(j)'
             /\ Aged /\ UNCHANGED <<durable, marker, pc, local, others>>
  BY <1>5, OarStep, SplitOutKnown DEF IInv, Live
<1> QED
  BY <1>1, <1>2, <1>3, <1>4, <1>5 DEF Next, Oar

\* The labels an allocation leaves have a positive goal.
LEMMA GoalPositive ==
  ASSUME IInv, NEW j \in DOMAIN jobs, NEW lane
  PROVE  Goal(lane, jobs[j].target) \in Nat \ {0}
<1>1. Batches \in Nat /\ Batches >= 1
  BY Sizes DEF IInv, Positive
<1>2. /\ jobs[j].target \in Nat /\ jobs[j].target >= 1
      /\ facts.splitOut # NoJob =>
           jobs[facts.splitOut].target \in Nat /\ jobs[facts.splitOut].target >= 1
  BY SplitOutKnown DEF IInv, LabelInv, TargetInv, Positive
<1>3. \A n \in Nat : n >= 1 => Batches * n \in Nat /\ Batches * n >= 1
  <2> TAKE n \in Nat
  <2> HAVE n >= 1
  <2>1. Batches * 1 <= Batches * n /\ Batches * n \in Nat /\ Batches * 1 = Batches
    BY <1>1, TimesMono
  <2> QED
    BY <1>1, <2>1
<1> QED
  BY <1>1, <1>2, <1>3 DEF Goal

\* Every step preserves TargetInv.
LEMMA TargetStep == IInv /\ [Next]_vars => TargetInv'
<1> SUFFICES ASSUME IInv, [Next]_vars PROVE TargetInv'
  OBVIOUS
<1>0. /\ facts.target \in Nat /\ facts.target >= 1
      /\ \A j \in DOMAIN jobs : jobs[j].target \in 1 .. facts.target
      /\ facts'.target \in Nat /\ facts.target <= facts'.target
  BY TargetGrows DEF IInv, LabelInv, TargetInv, Positive
<1>1. ASSUME NEW kind \in Kinds, NEW lane \in Lanes, Submits(kind, lane), Added(kind, lane)
      PROVE  \A j \in DOMAIN jobs' : jobs'[j].target \in 1 .. facts.target
  <2> TAKE j \in DOMAIN jobs'
  <2>1. CASE j \in DOMAIN jobs
    BY <1>0, <1>1, <2>1 DEF Added
  <2>2. CASE j = inhand'
    BY <1>0, <1>1, <2>2 DEF Added
  <2> QED
    BY <1>1, <2>1, <2>2 DEF Added
<1>2. ASSUME Aged PROVE \A j \in DOMAIN jobs' : jobs'[j].target \in 1 .. facts.target
  <2> TAKE j \in DOMAIN jobs'
  <2>1. j \in DOMAIN jobs /\ jobs'[j].target = jobs[j].target
    BY <1>2 DEF Aged
  <2> QED
    BY <1>0, <2>1
<1>3. \A j \in DOMAIN jobs' : jobs'[j].target \in 1 .. facts.target
  BY <1>1, <1>2, JobsStep DEF Silent
<1> QED
  BY <1>0, <1>3 DEF TargetInv, Positive

\* Every step preserves ManifestInv.
LEMMA ManifestStep == IInv /\ [Next]_vars => ManifestInv'
<1> SUFFICES ASSUME IInv, [Next]_vars PROVE ManifestInv'
  OBVIOUS
<1>0. /\ TypeOK /\ ManifestInv /\ facts.target \in Nat
      /\ facts'.target \in Nat /\ facts.target <= facts'.target
      /\ hub.label \in Nat /\ \A l \in Lanes : label[l].manifest \in Nat /\ label[l].done \in Nat
  <2>1. Batches * MaxTarget \in Nat
    BY Sizes, TimesMono DEF IInv, Positive
  <2> QED
    BY <2>1, TargetGrows DEF IInv, LabelInv, TypeOK, Targeted
<1>1. CASE UNCHANGED <<label, hub>>
  BY <1>0, <1>1 DEF ManifestInv
<1>2. CASE UNCHANGED hub /\ label' = FreshLabel
  BY <1>0, <1>2 DEF ManifestInv, FreshLabel
<1>3. CASE PublishLabel /\ UNCHANGED label
  <2>1. CurrentLane \in Lanes
    BY <1>0, LaneTyped
  <2>2. hub'.label \in {hub.label, label[CurrentLane].manifest}
    BY <1>0, <1>3 DEF PublishLabel, TypeOK
  <2> QED
    BY <1>0, <1>3, <2>1, <2>2 DEF ManifestInv
<1>4. CASE AfterFinal /\ UNCHANGED label /\ hub' = [hub EXCEPT !.split = TRUE]
  BY <1>0, <1>4 DEF ManifestInv, TypeOK
<1>5. ASSUME NEW j \in DOMAIN jobs, Labels(j) PROVE ManifestInv'
  <2> DEFINE lane == jobs[j].lane
             goal == Goal(lane, jobs[j].target)
  <2>1. jobs[j].target \in Nat /\ jobs[j].target <= facts.target /\ lane \in Lanes
          /\ goal \in Nat /\ goal >= 1
    <3>1. lane \in Lanes
      BY <1>0, JobTyped
    <3>2. TargetInv
      BY DEF IInv, LabelInv
    <3>3. jobs[j].target \in Nat /\ jobs[j].target <= facts.target
      BY <1>0, <3>2 DEF TargetInv
    <3>4. goal \in Nat \ {0}
      BY GoalPositive
    <3> QED
      BY <3>1, <3>3, <3>4
  <2>2. hub'.label \in {hub.label, jobs[j].target}
    BY <1>0, <1>5 DEF Labels, TypeOK
  <2>3. /\ label'[lane].done \in label[lane].done .. goal
        /\ \A l \in Lanes \ {lane} : label'[l] = label[l]
        /\ \/ label'[lane].manifest = label[lane].manifest
           \/ label'[lane].manifest = jobs[j].target /\ label'[lane].done = goal
    BY <1>5 DEF Labels
  <2> QED
    BY <1>0, <2>1, <2>2, <2>3 DEF ManifestInv
<1> QED
  BY <1>1, <1>2, <1>3, <1>4, <1>5, EvidenceStep

\* Manifests and releases stay, except that the cleanup of `run` removes a root.
LEMMA EvidenceKept ==
  ASSUME IInv, [Next]_vars
  PROVE  /\ \/ RunCommand /\ marker' = "none" /\ pc' = "prepare" /\ Removable
              /\ label' = FreshLabel
            \/ \A l \in Lanes : label[l].manifest > 0 => label'[l].manifest > 0
         /\ config.stage # "split" /\ hub.label > 0 => hub'.label > 0
<1>0. /\ TypeOK /\ LabelInv /\ CurrentLane \in Lanes
      /\ \A j \in DOMAIN jobs : jobs[j].target \in Nat /\ jobs[j].target > 0
  BY LaneTyped DEF IInv, LabelInv, TargetInv, Positive
<1>1. CASE UNCHANGED <<label, hub>>
  BY <1>1
<1>2. CASE UNCHANGED hub /\ RunCommand /\ marker' = "none" /\ pc' = "prepare" /\ Removable
             /\ label' = FreshLabel
  BY <1>2
<1>3. CASE PublishLabel /\ UNCHANGED label
  <2>1. config.stage # "split" => label[CurrentLane].manifest > 0
    BY <1>0, <1>3 DEF PublishLabel, LabelInv, PublishedInv
  <2>2. hub'.label \in {hub.label, label[CurrentLane].manifest}
    BY <1>0, <1>3 DEF PublishLabel, TypeOK
  <2> QED
    BY <1>3, <2>1, <2>2
<1>4. CASE UNCHANGED label /\ hub' = [hub EXCEPT !.split = TRUE]
  BY <1>0, <1>4 DEF TypeOK
<1>5. ASSUME NEW j \in DOMAIN jobs, Labels(j)
      PROVE  /\ \A l \in Lanes : label[l].manifest > 0 => label'[l].manifest > 0
             /\ hub.label > 0 => hub'.label > 0
  <2>1. hub'.label \in {hub.label, jobs[j].target}
    BY <1>0, <1>5 DEF Labels, TypeOK
  <2>2. \A l \in Lanes : label'[l].manifest \in {label[l].manifest, jobs[j].target}
    BY <1>5 DEF Labels
  <2> QED
    BY <1>0, <2>1, <2>2
<1> QED
  BY <1>1, <1>2, <1>3, <1>4, <1>5, EvidenceStep

EndPoints == {"publish", "validate", "verify", "finish", "markComplete", "splitFinish"}

\* How the process gets to the end of a run.
LEMMA EndEntered ==
  ASSUME IInv, [Next]_vars, pc' \in EndPoints, pc' # pc
  PROVE  \/ /\ pc' = "publish" /\ want = "label" /\ ManifestPresent
            /\ RunLoopTurn \/ Classify
            /\ UNCHANGED <<durable, remote, local, others>>
         \/ pc' = "validate" /\ PublishLabel
         \/ pc' = "verify" /\ ValidateLabel /\ Classifiable /\ ~SmokeLane
         \/ pc' = "finish" /\ Verify
         \/ pc' = "markComplete" /\ (Finish \/ SplitFinish)
         \/ pc' = "splitFinish" /\ AfterFinal /\ config.stage = "split" /\ hub'.split
<1>0. TypeOK
  BY DEF IInv
<1> USE DEF durable, remote, local, Goto, EndPoints
<1>1. CASE Classify
  <2>1. pc' = "publish" /\ Class(cur) = "COMPLETE" /\ want = "label" /\ UNCHANGED <<durable, looping>>
    BY <1>1 DEF Classify
  <2>2. ManifestPresent
    BY <2>1 DEF Class, LabelClass
  <2> QED
    BY <1>1, <2>1, <2>2 DEF Classify
<1>2. CASE RunLoopTurn
  BY <1>2 DEF RunLoopTurn
<1>3. CASE PublishLabel \/ ValidateLabel \/ Verify \/ Finish \/ SplitFinish
  BY <1>3 DEF PublishLabel, ValidateLabel, Verify, Finish, SplitFinish
<1>4. CASE AfterFinal
  BY <1>0, <1>4 DEF AfterFinal, TypeOK
<1>5. ASSUME Process, ~Classify, ~RunLoopTurn, ~PublishLabel, ~ValidateLabel, ~Verify, ~Finish,
             ~SplitFinish, ~AfterFinal
      PROVE  FALSE
  BY <1>5
     DEF Process, Prepare, Dispatch, LabelInput, BuildSubmit, BuildRecord, BuildWait, Submit,
         RecordSubmission, Monitor, AttachJob, MarkFailed, PrepareDestination,
         ReopenForProduction, MarkComplete, FinalSubmit, FinalRecord, FinalWait,
         RecoverFinal, ValidateFinal, Refused
<1>6. ASSUME Crash \/ RunCommand \/ ResumeCommand \/ SupervisorTurn \/ UNCHANGED vars PROVE FALSE
  BY <1>6 DEF Crash, RunCommand, ResumeCommand, SupervisorTurn, Resume, Attach, vars
<1>7. ASSUME NEW j \in DOMAIN jobs, Oar(j) PROVE FALSE
  BY <1>7, OarStep, SplitOutKnown DEF IInv
<1> QED
  BY <1>1, <1>2, <1>3, <1>4, <1>5, <1>6, <1>7 DEF Next, Oar

\* While the process is there only OAR and the payloads move.
LEMMA EndStays ==
  ASSUME IInv, [Next]_vars, pc' \in EndPoints, pc' = pc
  PROVE  UNCHANGED <<durable, marker, local, others>>
<1> USE DEF durable, remote, root, local, Goto, EndPoints
<1>1. ASSUME Process PROVE FALSE
  BY <1>1
     DEF Process, Prepare, Dispatch, LabelInput, BuildSubmit, BuildRecord, BuildWait, Submit,
         RecordSubmission, Monitor, RunLoopTurn, AttachJob, Classify, MarkFailed,
         PrepareDestination, PublishLabel, ValidateLabel, ReopenForProduction, Verify, Finish,
         MarkComplete, FinalSubmit, FinalRecord, FinalWait, RecoverFinal, AfterFinal,
         SplitFinish
<1>2. ASSUME Crash \/ RunCommand \/ ResumeCommand \/ SupervisorTurn PROVE FALSE
  BY <1>2 DEF Crash, RunCommand, ResumeCommand, SupervisorTurn
<1>3. CASE UNCHANGED vars
  BY <1>3 DEF vars
<1>4. ASSUME NEW j \in DOMAIN jobs, Oar(j) PROVE UNCHANGED <<durable, marker, local, others>>
  BY <1>4, OarStep, SplitOutKnown DEF IInv
<1> QED
  BY <1>1, <1>2, <1>3, <1>4 DEF Next, Oar

\* How the phase gets to the end of a run.
LEMMA EndPhase ==
  ASSUME IInv, [Next]_vars, phase' \in {"verifying", "complete"}, phase' # phase
  PROVE  \/ phase' = "verifying" /\ Verify
         \/ phase' = "complete" /\ (Finish \/ SplitFinish)
<1> USE DEF durable
<1>1. ASSUME Prepare PROVE FALSE
  BY <1>1, PreparationPhases DEF Prepare
<1>2. CASE Process /\ ~Prepare
  BY <1>2
     DEF Process, Dispatch, LabelInput, BuildSubmit, BuildRecord, BuildWait, Submit, Monitor,
         RecordSubmission, RunLoopTurn, AttachJob, Classify, MarkFailed, PrepareDestination,
         PublishLabel, ValidateLabel, ReopenForProduction, Verify, Finish, MarkComplete,
         FinalSubmit, FinalRecord, FinalWait, RecoverFinal, ValidateFinal, AfterFinal,
         SplitFinish
<1>3. ASSUME Crash \/ RunCommand \/ ResumeCommand \/ SupervisorTurn \/ UNCHANGED vars PROVE FALSE
  BY <1>3 DEF Crash, RunCommand, ResumeCommand, SupervisorTurn, SyncTarget, Synced, vars
<1>4. ASSUME NEW j \in DOMAIN jobs, Oar(j) PROVE FALSE
  BY <1>4, OarStep, SplitOutKnown DEF IInv
<1> QED
  BY <1>1, <1>2, <1>3, <1>4 DEF Next, Oar

\* Who marks the remote root.
LEMMA MarkerStep ==
  ASSUME IInv, [Next]_vars
  PROVE  \/ marker' \in {marker, "active", "none"}
         \/ MarkFailed /\ marker' = "failed"
         \/ MarkComplete /\ marker' = "complete"
<1> USE DEF remote, root
<1>1. CASE Process /\ ~MarkFailed /\ ~MarkComplete
  BY <1>1
     DEF Process, Prepare, Dispatch, LabelInput, BuildSubmit, BuildRecord, BuildWait, Submit,
         RecordSubmission, Monitor, RunLoopTurn, AttachJob, Classify,
         PrepareDestination, PublishLabel, ValidateLabel, ReopenForProduction, Verify, Finish,
         FinalSubmit, FinalRecord, FinalWait, RecoverFinal, AfterFinal, SplitFinish
<1>2. CASE MarkFailed \/ MarkComplete
  BY <1>2 DEF MarkFailed, MarkComplete
<1>3. CASE Crash \/ RunCommand \/ ResumeCommand \/ SupervisorTurn \/ UNCHANGED vars
  BY <1>3 DEF Crash, RunCommand, ReclaimRoots, ResumeCommand, SupervisorTurn, Resume, vars
<1>4. ASSUME NEW j \in DOMAIN jobs, Oar(j) PROVE UNCHANGED marker
  BY <1>4, OarStep, SplitOutKnown DEF IInv
<1> QED
  BY <1>1, <1>2, <1>3, <1>4 DEF Next, Oar

\* A split run labels nothing.
LEMMA SplitRunStep == IInv /\ [Next]_vars => SplitRunInv'
<1> SUFFICES ASSUME IInv, [Next]_vars, config.stage = "split"
             PROVE  /\ label' = FreshLabel'
                    /\ pc' \notin {"publish", "validate", "verify", "finish", "reopen"}
                    /\ phase' # "verifying"
                    /\ phase' = "complete" \/ pc' = "splitFinish" => hub'.split
  BY ConfigFixed DEF SplitRunInv, Fixed
<1>0. /\ TypeOK /\ PointInv /\ SplitRunInv /\ CurrentLane \in Lanes /\ FreshLabel' = FreshLabel
  BY LaneTyped, ConfigFixed DEF IInv, LabelInv, Fixed, FreshLabel
<1>1. label' = FreshLabel
  BY <1>0, EvidenceStep DEF SplitRunInv, Labels
<1>2. ~ManifestPresent
  BY <1>0 DEF SplitRunInv, FreshLabel, ManifestPresent
<1>3. pc' \notin {"publish", "validate", "verify", "finish"}
  BY <1>0, <1>2, EndEntered
     DEF EndPoints, SplitRunInv, PublishLabel, ValidateLabel, Verify
<1>4. pc' # "reopen"
  BY <1>0, ReopenEntered DEF SplitRunInv, ValidateLabel
<1>5. phase' # "verifying"
  BY <1>0, EndPhase DEF SplitRunInv, Verify
<1>6. hub.split => hub'.split
  <2>1. ASSUME NEW n, hub' = [hub EXCEPT !.label = n], hub.split PROVE hub'.split
    BY <1>0, <2>1 DEF TypeOK
  <2>2. ASSUME PublishLabel PROVE FALSE
    BY <1>0, <2>2 DEF SplitRunInv, PublishLabel
  <2>3. ASSUME hub' = [hub EXCEPT !.split = TRUE] PROVE hub'.split
    BY <1>0, <2>3 DEF TypeOK
  <2> QED
    BY <2>1, <2>2, <2>3, EvidenceStep DEF Labels
<1>7. ASSUME phase' = "complete" \/ pc' = "splitFinish" PROVE hub'.split
  <2>1. CASE pc' = "splitFinish" /\ pc # "splitFinish"
    BY <2>1, EndEntered DEF EndPoints
  <2>2. CASE phase' = "complete" /\ phase # "complete"
    BY <1>0, <1>6, <2>2, EndPhase DEF SplitRunInv, Finish, SplitFinish
  <2> QED
    BY <1>0, <1>6, <1>7, <2>1, <2>2 DEF SplitRunInv
<1> QED
  BY <1>0, <1>1, <1>3, <1>4, <1>5, <1>7

\* The lane of a run that is not its smoke.
LEMMA ProductionLane == TypeOK /\ ~SmokeLane => CurrentLane = "production"
BY LaneTyped DEF SmokeLane, CurrentLane, Lanes

\* A labeling run is finalized from a manifest, and then it is published.
LEMMA PublishedStep == IInv /\ [Next]_vars => PublishedInv'
<1> SUFFICES ASSUME IInv, [Next]_vars, config.stage # "split"
             PROVE  /\ pc' # "splitFinish"
                    /\ pc' \in {"publish", "validate"} => label'[CurrentLane'].manifest > 0
                    /\ pc' = "validate" /\ Publishes' => hub'.label > 0
                    /\ pc' \in {"verify", "finish", "markComplete"} \/ marker' = "complete" =>
                         label'["production"].manifest > 0
                    /\ phase' = "complete" \/ pc' \in {"verify", "finish", "markComplete"} => Released'
  BY ConfigFixed DEF PublishedInv, Fixed
<1>0. /\ TypeOK /\ PointInv /\ PublishedInv /\ CurrentLane \in Lanes /\ config' = config
      /\ "production" \in Lanes
  BY LaneTyped, ConfigFixed DEF IInv, LabelInv, Fixed, Lanes
<1>1. hub.label > 0 => hub'.label > 0
  BY EvidenceKept
<1>2. Released => Released'
  BY <1>0, <1>1 DEF Released
<1>3. pc' # "splitFinish"
  BY <1>0, EndEntered DEF EndPoints, PublishedInv
<1>4. ASSUME pc' \in {"publish", "validate"}
      PROVE  /\ label'[CurrentLane'].manifest > 0
             /\ pc' = "validate" /\ Publishes' => hub'.label > 0
  <2>1. UNCHANGED <<facts, config>>
    BY <1>0, <1>4, EndStays, EndEntered
       DEF EndPoints, PublishLabel, durable, others
  <2>2. CurrentLane' = CurrentLane /\ Publishes' = Publishes
    BY <2>1 DEF CurrentLane, Publishes, SmokeLane
  <2>3. CASE pc' = pc
    BY <1>0, <1>1, <1>4, <2>2, <2>3, EvidenceKept DEF PublishedInv
  <2>4. CASE pc' # pc /\ pc' = "publish"
    BY <2>2, <2>4, EndEntered DEF EndPoints, ManifestPresent, remote, root
  <2>5. CASE pc' # pc /\ pc' = "validate"
    <3>1. PublishLabel /\ pc = "publish" /\ UNCHANGED label
      BY <2>5, EndEntered DEF EndPoints, PublishLabel, root
    <3>2. label[CurrentLane].manifest > 0
      BY <1>0, <3>1 DEF PublishedInv
    <3>3. Publishes => hub'.label = label[CurrentLane].manifest
      BY <1>0, <3>1 DEF PublishLabel, TypeOK
    <3> QED
      BY <2>2, <2>5, <3>1, <3>2, <3>3
  <2> QED
    BY <1>4, <2>3, <2>4, <2>5
<1>5. ASSUME pc' \in {"verify", "finish", "markComplete"}
      PROVE  label'["production"].manifest > 0 /\ Released'
  <2>1. CASE pc' = pc \/ pc' = "finish" \/ (pc' = "markComplete" /\ Finish)
    <3>1. pc \in {"verify", "finish", "markComplete"}
      BY <1>5, <2>1, EndEntered DEF EndPoints, Verify, Finish
    <3>2. pc' # "prepare" /\ label["production"].manifest > 0 /\ Released
      BY <1>0, <1>5, <3>1 DEF PublishedInv
    <3> QED
      BY <1>0, <1>2, <3>2, EvidenceKept
  <2>2. CASE pc' = "verify" /\ pc # "verify"
    <3>1. pc = "validate" /\ ~SmokeLane /\ UNCHANGED <<label, hub>>
      BY <2>2, EndEntered DEF EndPoints, ValidateLabel, remote, root
    <3>2. label["production"].manifest > 0
      BY <1>0, <3>1, ProductionLane DEF PublishedInv
    <3>3. Released
      BY <1>0, <3>1 DEF PublishedInv, Publishes, Released
    <3> QED
      BY <1>2, <3>1, <3>2, <3>3
  <2>3. ASSUME SplitFinish PROVE FALSE
    BY <1>0, <2>3 DEF SplitFinish, PublishedInv
  <2> QED
    BY <1>5, <2>1, <2>2, <2>3, EndEntered DEF EndPoints
<1>6. ASSUME marker' = "complete" PROVE label'["production"].manifest > 0
  <2>1. marker = "complete" \/ (MarkComplete /\ pc = "markComplete")
    BY <1>6, MarkerStep DEF MarkComplete
  <2>2. label["production"].manifest > 0
    BY <1>0, <2>1 DEF PublishedInv
  <2> QED
    BY <1>0, <1>6, <2>2, EvidenceKept
<1>7. ASSUME phase' = "complete" PROVE Released'
  <2>1. phase = "complete" \/ pc \in {"finish", "splitFinish"}
    BY <1>7, EndPhase DEF Finish, SplitFinish
  <2> QED
    BY <1>0, <1>2, <2>1 DEF PublishedInv
<1> QED
  BY <1>3, <1>4, <1>5, <1>6, <1>7

-----------------------------------------------------------------------------
(* The root of a label run.                                                *)

\* Without a sampling target to raise, a complete label run stays complete.
LEMMA CompleteStays ==
  ASSUME IInv, [Next]_vars, config.stage = "label", phase = "complete"
  PROVE  phase' = "complete"
<1>0. PointInv /\ LabelOnlyInv /\ DurableTyped /\ ~config.v2 /\ TypeOK
  BY TypeParts, ConfigsAssumption DEF IInv, OrderInv, TypeOK
<1> USE DEF durable
<1>1. CASE Prepare
  BY <1>1, PreparationPhases DEF Prepare, Preparation
<1>2. CASE Process /\ ~Prepare
  BY <1>0, <1>2
     DEF Process, Dispatch, LabelInput, BuildSubmit, BuildRecord, BuildWait, Submit, Monitor,
         RecordSubmission, RunLoopTurn, AttachJob, Classify, Classifiable, MarkFailed,
         PrepareDestination, PublishLabel, ValidateLabel, ReopenForProduction, Verify, Finish,
         MarkComplete, FinalSubmit, FinalRecord, FinalWait, RecoverFinal, ValidateFinal,
         AfterFinal, SplitFinish, PointInv
<1>3. CASE RunCommand \/ ResumeCommand
  <2>1. \A target \in Targets : Synced(target) = phase
    BY <1>0 DEF Targets, Synced, DurableTyped, Targeted
  <2> QED
    BY <1>3, <2>1 DEF RunCommand, ResumeCommand, SyncTarget
<1>4. CASE Crash \/ SupervisorTurn \/ UNCHANGED vars
  BY <1>4 DEF Crash, SupervisorTurn, vars
<1>5. ASSUME NEW j \in DOMAIN jobs, Oar(j) PROVE UNCHANGED phase
  BY <1>5, OarStep, SplitOutKnown DEF IInv
<1> QED
  BY <1>1, <1>2, <1>3, <1>4, <1>5 DEF Next, Oar

\* A failed label run goes on only from labels.
LEMMA FailedLeft ==
  ASSUME IInv, [Next]_vars, config.stage = "label", phase = "failed", phase' # "failed"
  PROVE  label["production"].done > 0 /\ UNCHANGED label
<1>0. /\ TypeOK /\ PointInv /\ LabelOnlyInv /\ PhaseInv /\ ~config.v2
      /\ CurrentLane = "production" /\ "production" \in Lanes
  BY ConfigsAssumption DEF IInv, OrderInv, TypeOK, CurrentLane, Lanes
<1>1. pc \in Watching => want = "label"
  BY <1>0, Looking DEF LabelOnlyInv
<1> USE DEF durable, remote, root
<1>2. CASE Classify
  <2>1. Class(cur) = "CONTINUE" /\ want = "label"
    BY <1>1, <1>2 DEF Classify, Watching
  <2>2. 0 < label["production"].done
    BY <1>0, <2>1 DEF Class, LabelClass
  <2>3. label["production"].done \in Nat
    BY <1>0 DEF TypeOK
  <2> QED
    BY <1>2, <2>2, <2>3 DEF Classify
<1>3. CASE ValidateLabel
  <2>1. label["production"].manifest > 0
    BY <1>0, <1>3 DEF ValidateLabel, IInv, LabelInv, PublishedInv
  <2> QED
    BY <1>0, <1>3, <2>1 DEF ValidateLabel, IInv, LabelInv, ManifestInv
<1>4. ASSUME Prepare PROVE FALSE
  BY <1>4, PreparationPhases DEF Prepare, Preparation
<1>5. ASSUME Process, ~Prepare, ~Classify, ~ValidateLabel PROVE FALSE
  BY <1>0, <1>5
     DEF Process, Dispatch, LabelInput, BuildSubmit, BuildRecord, BuildWait, Submit, Monitor,
         RecordSubmission, RunLoopTurn, AttachJob, MarkFailed, PrepareDestination,
         PublishLabel, ReopenForProduction, Verify, Finish, MarkComplete, FinalSubmit,
         FinalRecord, FinalWait, RecoverFinal, ValidateFinal, AfterFinal, SplitFinish, PointInv
<1>6. ASSUME Crash \/ RunCommand \/ ResumeCommand \/ SupervisorTurn \/ UNCHANGED vars PROVE FALSE
  BY <1>6 DEF Crash, RunCommand, ResumeCommand, SupervisorTurn, SyncTarget, Synced, vars
<1>7. ASSUME NEW j \in DOMAIN jobs, Oar(j) PROVE FALSE
  BY <1>7, OarStep, SplitOutKnown DEF IInv
<1> QED
  BY <1>2, <1>3, <1>4, <1>5, <1>6, <1>7 DEF Next, Oar

\* Every step preserves RootInv.
LEMMA RootStep == IInv /\ [Next]_vars => RootInv'
<1> SUFFICES ASSUME IInv, [Next]_vars, config.stage = "label"
             PROVE  /\ marker' = "complete" => phase' = "complete"
                    /\ marker' = "failed" => phase' = "failed" \/ label'["production"].done > 0
  BY ConfigFixed DEF RootInv, Fixed
<1>0. TypeOK /\ PointInv /\ RootInv /\ "production" \in Lanes
  BY DEF IInv, Lanes
<1>1. ASSUME marker' = "complete" PROVE phase' = "complete"
  <2>1. phase = "complete"
    BY <1>0, <1>1, MarkerStep DEF MarkComplete, PointInv, RootInv
  <2> QED
    BY <2>1, CompleteStays
<1>2. ASSUME marker' = "failed" PROVE phase' = "failed" \/ label'["production"].done > 0
  <2>1. CASE MarkFailed
    BY <1>0, <2>1 DEF MarkFailed, PointInv, durable
  <2>2. CASE phase = "failed" /\ phase' # "failed"
    BY <2>2, FailedLeft
  <2>3. CASE label["production"].done > 0
    <3>1. label["production"].done \in Nat
      BY <1>0 DEF TypeOK
    <3>2. ASSUME NEW j \in DOMAIN jobs, Labels(j)
          PROVE  label'["production"].done > 0
      <4>1. label'["production"].done \in Nat /\ label["production"].done <= label'["production"].done
        <5>1. label["production"] = label'["production"]
                \/ (jobs[j].lane = "production" /\ label'[jobs[j].lane].done >= label[jobs[j].lane].done)
          BY <1>0, <3>2 DEF Labels
        <5>2. label'["production"].done \in Nat
          BY <1>0, <3>2 DEF Labels
        <5> QED
          BY <3>1, <5>1, <5>2
      <4> QED
        BY <2>3, <3>1, <4>1
    <3> QED
      BY <1>2, <2>3, <3>2, EvidenceStep
         DEF PublishLabel, root
  <2>4. marker = "failed" \/ MarkFailed
    BY <1>2, MarkerStep
  <2> QED
    BY <1>0, <2>1, <2>2, <2>3, <2>4 DEF RootInv
<1> QED
  BY <1>1, <1>2

-----------------------------------------------------------------------------
(* The total of a run through all stages.                                  *)

\* From the submission of a job to the record of it.
LEMMA RecordStep ==
  ASSUME IInv, [Next]_vars, pc = "record"
  PROVE  RecordSubmission \/ Crash \/ (pc' = "record" /\ UNCHANGED <<durable, inhand>>)
<1> USE DEF durable, remote, local
<1>1. ASSUME Process, ~RecordSubmission PROVE FALSE
  BY <1>1
     DEF Process, Prepare, Dispatch, LabelInput, BuildSubmit, BuildRecord, BuildWait, Submit,
         Monitor, RunLoopTurn, AttachJob, Classify, MarkFailed, PrepareDestination,
         PublishLabel, ValidateLabel, ReopenForProduction, Verify, Finish, MarkComplete,
         FinalSubmit, FinalRecord, FinalWait, RecoverFinal, AfterFinal, SplitFinish
<1>2. ASSUME RunCommand \/ ResumeCommand \/ SupervisorTurn PROVE FALSE
  BY <1>2 DEF RunCommand, ResumeCommand, SupervisorTurn
<1>3. CASE UNCHANGED vars
  BY <1>3 DEF vars
<1>4. ASSUME NEW j \in DOMAIN jobs, Oar(j) PROVE UNCHANGED <<durable, pc, local>>
  BY <1>4, OarStep, SplitOutKnown DEF IInv
<1> QED
  BY <1>1, <1>2, <1>3, <1>4 DEF Next, Oar

\* The process submits the split only while labels are not the recorded component.
LEMMA SubmittingSplit ==
  ASSUME IInv, [Next]_vars, config.stage = "all", ~Orphaned("label"), pc' \in Submitting,
         want' = "split"
  PROVE  facts'.active # "label"
<1>0. DurableTyped /\ AfterSplitInv /\ TotalInv /\ PointInv
  BY TypeParts DEF IInv, OrderInv
<1>1. facts'.active = facts.active
  <2>1. ~RecordSubmission /\ ~(AfterFinal /\ config.stage # "split")
    BY DEF RecordSubmission, AfterFinal, Goto, Submitting
  <2>2. ~ReopenForProduction
    BY <1>0 DEF ReopenForProduction, local, PointInv
  <2> QED
    BY <2>1, <2>2, ActiveStep
<1>2. facts.active # "label"
  BY <1>0, SubmittingStep DEF AfterSplitInv, TotalInv
<1> QED
  BY <1>1, <1>2

\* As long as labels may be written the split output stays the recorded one.
LEMMA GoalKept ==
  ASSUME IInv, [Next]_vars, config.stage = "all", ~Orphaned("label"),
         \E j \in DOMAIN jobs : jobs[j].kind = "label"
  PROVE  /\ facts.splitOut \in DOMAIN jobs /\ facts'.splitOut = facts.splitOut
         /\ jobs'[facts.splitOut].target = jobs[facts.splitOut].target
         /\ \A l : TheGoal(l)' = TheGoal(l)
<1>0. /\ TotalInv /\ AfterSplitInv /\ KnownInv /\ PhaseInv /\ PointInv /\ Grown
      /\ Batches' = Batches /\ config' = config
  BY JobsGrow, ConfigFixed DEF IInv, OrderInv, Fixed
<1>1. facts.splitOut # NoJob
  BY <1>0 DEF AfterSplitInv
<1>2. facts.splitOut \in DOMAIN jobs
  BY <1>0, <1>1, SplitOutKnown
<1>3. facts'.splitOut = facts.splitOut
  <2>1. ASSUME FinalWait \/ RecoverFinal, phase = "finalizing" PROVE FALSE
    <3>1. facts.active = "split" /\ pc # "record"
      BY <1>0, <2>1 DEF PhaseInv, FinalWait, RecoverFinal
    <3> QED
      BY <1>0, <3>1 DEF TotalInv
  <2> QED
    BY <2>1, SplitOutKept
<1>4. jobs'[facts.splitOut].target = jobs[facts.splitOut].target
  BY <1>0, <1>2 DEF Grown
<1> QED
  BY <1>0, <1>2, <1>3, <1>4 DEF TheGoal

\* A label job is submitted for a target no smaller than that of the split output.
LEMMA LabelSubmission ==
  ASSUME IInv, config.stage = "all", NEW kind, NEW lane, Submits(kind, lane), Added(kind, lane),
         kind = "label"
  PROVE  /\ pc' = "record" /\ UNCHANGED facts
         /\ facts.splitOut \in DOMAIN jobs /\ jobs[facts.splitOut].target <= facts.target
<1>1. Submit /\ want = "label" /\ pc = "submit" /\ phase = "remote_prepared"
  BY DEF Submits, Submit
<1>2. pc' = "record" /\ UNCHANGED facts
  BY <1>1 DEF Submit, Refused, Added, Goto, durable, Attachable
<1>3. facts.splitOut # NoJob
  BY <1>1 DEF IInv, OrderInv, AfterSplitInv, Submitting
<1>4. facts.splitOut \in DOMAIN jobs
  BY <1>3, SplitOutKnown DEF IInv
<1>5. jobs[facts.splitOut].target \in 1 .. facts.target
  BY <1>4 DEF IInv, LabelInv, TargetInv
<1>6. facts.target \in Nat
  BY DEF IInv, LabelInv, TargetInv, Positive
<1> QED
  BY <1>2, <1>4, <1>5, <1>6

\* An allocation of the production lane aims at the whole split output.
LEMMA GoalIsTheGoal ==
  ASSUME IInv, config.stage = "all", ~Orphaned("label"), NEW j \in DOMAIN jobs,
         jobs[j].kind = "label"
  PROVE  \A l : Goal(l, jobs[j].target) = TheGoal(l)
<1>1. /\ facts.splitOut \in DOMAIN jobs
      /\ jobs[facts.splitOut].target <= jobs[j].target
  BY SplitOutKnown DEF IInv, OrderInv, AfterSplitInv, TotalInv
<1>2. jobs[facts.splitOut].target \in Nat /\ jobs[j].target \in Nat
  BY <1>1, JobTyped, Sizes DEF IInv, Targeted
<1> QED
  BY <1>1, <1>2 DEF Goal, TheGoal

\* Every step preserves TotalInv.
LEMMA TotalStep == IInv /\ [Next]_vars => TotalInv'
<1> SUFFICES ASSUME IInv, [Next]_vars, config.stage = "all", ~Orphaned("label")'
             PROVE  /\ pc' \in Submitting /\ want' = "split" => facts'.active # "label"
                    /\ \A j \in DOMAIN jobs' : jobs'[j].kind = "label" =>
                         /\ facts'.active = "label" \/ (pc' = "record" /\ j = inhand')
                         /\ jobs'[facts'.splitOut].target <= jobs'[j].target
                    /\ \A l \in Lanes : label'[l].manifest > 0 =>
                         /\ label'[l].done = label'[l].total /\ label'[l].total = TheGoal(l)'
                         /\ \E j \in DOMAIN jobs' : jobs'[j].kind = "label"
  BY ConfigFixed DEF TotalInv, Fixed
<1>0. /\ TypeOK /\ DurableTyped /\ HandInv /\ TotalInv /\ PointInv /\ Grown /\ ~Orphaned("label")
  BY TypeParts, JobsGrow, OrphansGrow DEF IInv
<1>1. pc' \in Submitting /\ want' = "split" => facts'.active # "label"
  BY <1>0, SubmittingSplit
<1>2. ASSUME NEW j \in DOMAIN jobs, jobs[j].kind = "label"
      PROVE  /\ facts'.active = "label" \/ (pc' = "record" /\ j = inhand')
             /\ jobs'[facts'.splitOut].target <= jobs'[j].target
  <2>1. jobs[facts.splitOut].target <= jobs[j].target /\ jobs'[j].target = jobs[j].target
    BY <1>0, <1>2 DEF TotalInv, Grown
  <2>2. jobs'[facts'.splitOut].target = jobs[facts.splitOut].target
    BY <1>0, <1>2, GoalKept
  <2>3. CASE facts.active = "label"
    <3>1. ASSUME RecordSubmission PROVE want = "label"
      BY <1>0, <2>3, <3>1 DEF RecordSubmission, TotalInv, PointInv, Submitting
    <3> QED
      BY <2>1, <2>2, <2>3, <3>1, ActiveStep
  <2>4. CASE pc = "record" /\ j = inhand
    <3>1. CASE RecordSubmission
      BY <1>0, <1>2, <2>1, <2>2, <2>4, <3>1 DEF RecordSubmission, DurableTyped, HandInv
    <3>2. ASSUME Crash PROVE FALSE
      <4>1. j \in orphans' /\ UNCHANGED jobs
        BY <1>0, <2>4, <3>2 DEF Crash, HandInv, Held, remote
      <4> QED
        BY <1>2, <4>1 DEF Orphaned
    <3>3. CASE pc' = "record" /\ inhand' = inhand
      BY <2>1, <2>2, <2>4, <3>3
    <3> QED
      BY <2>4, <3>1, <3>2, <3>3, RecordStep
  <2> QED
    BY <1>0, <1>2, <2>3, <2>4 DEF TotalInv
<1>3. ASSUME NEW j \in DOMAIN jobs', jobs'[j].kind = "label"
      PROVE  /\ facts'.active = "label" \/ (pc' = "record" /\ j = inhand')
             /\ jobs'[facts'.splitOut].target <= jobs'[j].target
  <2>1. CASE j \in DOMAIN jobs
    BY <1>0, <1>2, <1>3, <2>1 DEF Grown
  <2>2. ASSUME NEW kind \in Kinds, NEW lane \in Lanes, Submits(kind, lane), Added(kind, lane),
               j = inhand'
        PROVE  /\ pc' = "record" /\ jobs'[facts'.splitOut].target <= jobs'[j].target
    <3>1. kind = "label" /\ jobs'[j].target = facts.target
      BY <1>3, <2>2 DEF Added
    <3>2. /\ pc' = "record" /\ facts'.splitOut = facts.splitOut
          /\ facts.splitOut \in DOMAIN jobs /\ jobs[facts.splitOut].target <= facts.target
      BY <2>2, <3>1, LabelSubmission
    <3>3. jobs'[facts.splitOut].target = jobs[facts.splitOut].target
      BY <2>2, <3>2 DEF Added
    <3> QED
      BY <3>1, <3>2, <3>3
  <2>3. CASE Aged
    BY <1>3, <2>1, <2>3 DEF Aged
  <2> QED
    BY <2>1, <2>2, <2>3, <1>3, JobsStep DEF Silent, Added
<1>4. ASSUME NEW l \in Lanes, label'[l].manifest > 0
      PROVE  /\ label'[l].done = label'[l].total /\ label'[l].total = TheGoal(l)'
             /\ \E j \in DOMAIN jobs' : jobs'[j].kind = "label"
  <2>1. ASSUME \E j \in DOMAIN jobs : jobs[j].kind = "label"
        PROVE  TheGoal(l)' = TheGoal(l) /\ \E j \in DOMAIN jobs' : jobs'[j].kind = "label"
    BY <1>0, <2>1, GoalKept DEF Grown
  <2>2. CASE UNCHANGED label
    BY <1>0, <1>4, <2>1, <2>2 DEF TotalInv
  <2>3. CASE label' = FreshLabel
    BY <1>4, <2>3 DEF FreshLabel
  <2>4. ASSUME NEW j \in DOMAIN jobs, Labels(j), jobs[j].kind = "label"
        PROVE  label'[l].done = label'[l].total /\ label'[l].total = TheGoal(l)
    <3> DEFINE lane == jobs[j].lane
               goal == Goal(lane, jobs[j].target)
    <3>1. CASE l # lane
      BY <1>0, <1>4, <2>4, <3>1 DEF TotalInv, Labels
    <3>2. CASE l = lane
      <4>1. goal = TheGoal(l) /\ goal \in Nat
        BY <1>0, <2>4, <3>2, GoalIsTheGoal, GoalPositive
      <4>2. /\ label'[l].total = goal /\ label'[l].done \in label[l].done .. goal
            /\ \/ label'[l].manifest = label[l].manifest
               \/ label'[l].done = goal
        BY <2>4, <3>2 DEF Labels
      <4>3. CASE label'[l].manifest = label[l].manifest
        <5>1. label[l].done = goal
          BY <1>0, <1>4, <4>1, <4>3 DEF TotalInv
        <5> QED
          BY <4>1, <4>2, <5>1
      <4> QED
        BY <4>1, <4>2, <4>3
    <3> QED
      BY <3>1, <3>2
  <2> QED
    BY <2>1, <2>2, <2>3, <2>4, EvidenceStep DEF root
<1> QED
  BY <1>1, <1>3, <1>4

-----------------------------------------------------------------------------
(* The theorems.                                                           *)

\* A new run has no job and no evidence.
LEMMA Initially == Init => IInv
<1> SUFFICES ASSUME Init PROVE IInv
  OBVIOUS
<1>1. /\ Shards \in Positive /\ Batches \in Positive /\ MaxTarget \in Positive
      /\ MaxJobs \in Nat /\ MaxCrashes \in Nat
  BY ConfigsAssumption, BoundsAssumption
     DEF Init, Shards, Batches, MaxTarget, MaxJobs, MaxCrashes, Positive
<1>2. /\ config \in Configs /\ config.stage \in Stages /\ config.v2 \in BOOLEAN
      /\ config.smoke \in BOOLEAN
  BY ConfigsAssumption DEF Init
<1>3. jobs = <<>> /\ jobs \in Seq(Job) /\ Len(jobs) = 0 /\ DOMAIN jobs = {}
  BY DEF Init
<1>4. \A j : ~Live(j)
  BY <1>3 DEF Live
<1>5. /\ facts.job = NoJob /\ facts.active = "none" /\ facts.lane = "none"
      /\ facts.splitOut = NoJob /\ facts.final = NoJob /\ facts.build = NoJob
      /\ facts.target = 1 /\ phase = "created" /\ pc = "prepare" /\ inhand = NoJob
      /\ orphans = {} /\ marker = "none" /\ label = FreshLabel /\ hub.label = 0
  BY DEF Init
<1>6. TypeOK
  <2>0. NoJob \in JobIds /\ 0 \in Targeted /\ 1 \in Targeted /\ Shards \in 0 .. Shards
    BY <1>1 DEF JobIds, NoJob, Targeted, Positive
  <2>1. DurableTyped
    <3>1. facts = [job |-> NoJob, active |-> "none", lane |-> "none", failed |-> NoJob,
                   recovered |-> NoJob, splitOut |-> NoJob, final |-> NoJob, build |-> NoJob,
                   target |-> 1]
      BY DEF Init
    <3>2. phase \in Phases
      BY <1>5 DEF Phases
    <3> QED
      BY <2>0, <3>1, <3>2 DEF DurableTyped
  <2>2. LocalTyped
    <3>1. pc \in Points /\ flow \in {"run", "classify"} /\ looping \in BOOLEAN /\ want \in Stages
      BY DEF Init, Points, Stages
    <3>2. supervisor \in {"unused", "on", "off"}
      BY DEF Init
    <3>3. cur \in JobIds /\ inhand \in JobIds /\ crashes \in 0 .. MaxCrashes
      BY <1>1, <2>0 DEF Init
    <3> QED
      BY <3>1, <3>2, <3>3 DEF LocalTyped
  <2>3. label \in [Lanes -> [done : 0 .. Batches * MaxTarget, total : 0 .. Batches * MaxTarget,
                             manifest : Targeted]]
    <3>1. Batches \in 0 .. Batches * MaxTarget /\ 0 \in 0 .. Batches * MaxTarget
      <4>1. Batches * 1 <= Batches * MaxTarget /\ Batches * MaxTarget \in Nat
        BY <1>1, TimesMono DEF Positive
      <4> QED
        BY <1>1, <4>1 DEF Positive
    <3> QED
      BY <1>1, <1>5, <3>1 DEF FreshLabel, Targeted, Positive
  <2>4. /\ hub \in [split : BOOLEAN, label : Targeted] /\ splitLeft \in 0 .. Shards
        /\ outputs = {} /\ server \in BOOLEAN /\ marker \in {"none", "active", "complete", "failed"}
    BY <2>0 DEF Init
  <2>5. Len(jobs) \in JobIds
    BY <1>1, <1>3 DEF JobIds
  <2> QED
    BY <1>2, <1>3, <1>5, <2>1, <2>2, <2>3, <2>4, <2>5 DEF TypeOK, DurableTyped, LocalTyped
<1>7. ~Orphaned("label") /\ \A l \in Lanes : label[l].manifest = 0 /\ label[l].done = 0
  BY <1>5 DEF Orphaned, FreshLabel
<1>8. HandInv /\ KnownInv
  BY <1>3, <1>4, <1>5 DEF HandInv, Held, KnownInv, Named
<1>9. PhaseInv /\ PointInv
  BY <1>4, <1>5 DEF PhaseInv, PointInv, Open, Watching, Over, Submitting
<1>10. OrderInv
  BY <1>3, <1>5
     DEF OrderInv, CheckpointsInv, AfterSplitInv, LabelOnlyInv, BuildPoints, Submitting, FinalPoints
<1>11. BuildInv /\ LaneInv
  BY <1>3, <1>4, <1>5 DEF BuildInv, LaneInv, Submitting, Open
<1>12. LabelInv
  <2>1. TargetInv /\ ManifestInv
    BY <1>3, <1>5, <1>7 DEF TargetInv, ManifestInv, Positive
  <2>2. SplitRunInv /\ PublishedInv
    BY <1>5 DEF SplitRunInv, PublishedInv
  <2> QED
    BY <2>1, <2>2 DEF LabelInv
<1>13. TotalInv /\ RootInv
  BY <1>3, <1>5, <1>7 DEF TotalInv, RootInv, Submitting
<1> QED
  BY <1>6, <1>8, <1>9, <1>10, <1>11, <1>12, <1>13 DEF IInv

\* The invariant is inductive.
LEMMA Inductive == IInv /\ [Next]_vars => IInv'
<1> SUFFICES ASSUME IInv, [Next]_vars PROVE IInv'
  OBVIOUS
<1>1. OrderInv'
  BY CheckpointsStep, AfterSplitStep, LabelOnlyStep DEF OrderInv
<1>2. LabelInv'
  BY TargetStep, ManifestStep, SplitRunStep, PublishedStep DEF LabelInv
<1> QED
  BY <1>1, <1>2, TypeStep, HandStep, KnownStep, PhaseStep, PointStep, BuildStep, LaneStep,
     TotalStep, RootStep
     DEF IInv

\* The invariant holds in every state of a run, of any size.
THEOREM Invariance == Spec => []IInv
BY Initially, Inductive, PTL DEF Spec

\* Every variable keeps its type: in particular each fact that names a job names
\* one that exists, and the evidence stays within what the payloads can write.
THEOREM Typing == Spec => []TypeOK
<1>1. IInv => TypeOK
  BY DEF IInv
<1> QED
  BY <1>1, Invariance, PTL

\* COMPLETE means published, of a target the run recorded, and labelled to the
\* total (apply_classification, finalize_split_checkpointed).
THEOREM CompleteIsDone == Spec => []CompleteMeansDone
<1>1. ASSUME IInv PROVE CompletePublished
  <2>1. hub.label \in Nat /\ facts.target \in Nat
    BY <1>1 DEF IInv, LabelInv, TargetInv, Positive, TypeOK, Targeted
  <2>2. config.stage = "split" /\ phase = "complete" => hub.split
    BY <1>1 DEF IInv, LabelInv, SplitRunInv
  <2>3. config.stage # "split" /\ phase = "complete" =>
          ((config.v2 \/ ~config.smoke) => hub.label > 0)
    BY <1>1 DEF IInv, LabelInv, PublishedInv, Released
  <2>4. hub.label <= facts.target
    BY <1>1 DEF IInv, LabelInv, ManifestInv
  <2> QED
    BY <2>1, <2>2, <2>3, <2>4 DEF CompletePublished
<1>2. IInv => CompleteAtTotal
  BY DEF IInv, LabelInv, PublishedInv, TotalInv, CompleteAtTotal, Lanes
<1> QED
  BY <1>1, <1>2, Invariance, PTL DEF CompleteMeansDone

\* Whatever restarts the process, no finalization starts before all shards are
\* checkpointed, no labeling before the split output, no production labels before
\* the smoke has ended (_run, resume_run, apply_classification).
THEOREM InOrder == Spec => []StagesInOrder
<1>1. IInv => FinalAfterAllShards
  BY DEF IInv, OrderInv, CheckpointsInv, FinalAfterAllShards
<1>2. ASSUME IInv PROVE LabelAfterSplit
  <2>1. SUFFICES ASSUME config.stage = "all", NEW j \in DOMAIN jobs, jobs[j].kind = "label"
                 PROVE  /\ splitLeft = 0 /\ facts.splitOut # NoJob
                        /\ jobs[facts.splitOut].kind = "final"
    BY DEF LabelAfterSplit
  <2>2. facts.splitOut # NoJob
    BY <1>2, <2>1 DEF IInv, OrderInv, AfterSplitInv
  <2>3. facts.splitOut \in DOMAIN jobs /\ jobs[facts.splitOut].kind = "final"
    BY <1>2, <2>2, SplitOutKnown DEF IInv, KnownInv
  <2> QED
    BY <1>2, <2>2, <2>3 DEF IInv, OrderInv, CheckpointsInv
<1>3. IInv => ProductionAfterSmoke
  BY DEF IInv, LaneInv, SmokeEnded, ProductionAfterSmoke
<1> QED
  BY <1>1, <1>2, <1>3, Invariance, PTL DEF StagesInOrder

\* The pairs of live jobs that OneLiveJob allows.
Tolerated(i, j) ==
  \/ SplitsAgain /\ {jobs[i].kind, jobs[j].kind} \in {{"build", "split"}, {"build", "final"}}
  \/ Orphaned("build") /\ {jobs[i].kind, jobs[j].kind} = {"build", "label"}

\* A live allocation next to a live build, and a submission next to one.
LEMMA NextToBuild ==
  ASSUME IInv, config.stage # "split", Live(facts.build)
  PROVE  /\ Live(facts.job) => Tolerated(facts.job, facts.build)
         /\ Live(facts.final) => Tolerated(facts.final, facts.build)
         /\ pc \in Held => Tolerated(inhand, facts.build)
<1>0. /\ TypeOK /\ HandInv /\ KnownInv /\ PhaseInv /\ PointInv /\ AfterSplitInv
      /\ LabelOnlyInv /\ BuildInv /\ NoJob \notin DOMAIN jobs /\ config.stage \in Stages
  BY NoJobIsNone, ConfigsAssumption DEF IInv, OrderInv, TypeOK
<1>1. facts.build # NoJob /\ jobs[facts.build].kind = "build"
  BY <1>0 DEF KnownInv, Live
<1>2. facts.active = "split" => SplitsAgain
  BY <1>0, <1>1 DEF LabelOnlyInv, AfterSplitInv, SplitsAgain, Stages
<1>3. ASSUME Live(facts.job) PROVE Tolerated(facts.job, facts.build)
  <2>1. phase \in Open /\ jobs[facts.job].kind = facts.active
    BY <1>0, <1>3 DEF PhaseInv
  <2>2. facts.active \in {"split", "label"}
    BY <1>0, <1>3, <2>1 DEF KnownInv, Live
  <2>3. facts.active = "label" => Orphaned("build")
    BY <1>0, <2>1 DEF BuildInv, Open
  <2> QED
    BY <1>1, <1>2, <2>1, <2>2, <2>3 DEF Tolerated
<1>4. ASSUME Live(facts.final) PROVE Tolerated(facts.final, facts.build)
  <2>1. facts.active = "split" /\ jobs[facts.final].kind = "final"
    BY <1>0, <1>4 DEF PhaseInv, KnownInv, Live
  <2> QED
    BY <1>1, <1>2, <2>1 DEF Tolerated
<1>5. ASSUME pc = "record" PROVE Tolerated(inhand, facts.build)
  <2>1. pc \in Submitting /\ want \in {"split", "label"} /\ jobs[inhand].kind = want
    BY <1>0, <1>5 DEF PointInv, HandInv, Submitting
  <2>2. want = "split" => facts.active = "split"
    BY <1>0, <1>1, <2>1 DEF LabelOnlyInv, BuildInv, Stages
  <2>3. want = "label" => Orphaned("build")
    BY <1>0, <2>1 DEF BuildInv
  <2> QED
    BY <1>1, <1>2, <2>1, <2>2, <2>3 DEF Tolerated
<1>6. ASSUME pc = "finalRecord" PROVE Tolerated(inhand, facts.build)
  <2>1. facts.active = "split" /\ jobs[inhand].kind = "final"
    BY <1>0, <1>6 DEF PhaseInv, PointInv, HandInv
  <2> QED
    BY <1>1, <1>2, <2>1 DEF Tolerated
<1>7. pc # "buildRecord"
  BY <1>0 DEF BuildInv
<1> QED
  BY <1>3, <1>4, <1>5, <1>6, <1>7 DEF Held

\* A run that labels never has two live jobs that it knows of, except that it may
\* split again next to a build, or label next to a build it has been given twice
\* (Controller.submit, ensure_llama_server, resume_run).
THEOREM AtMostOneLive == Spec => []OneLiveJob
<1>1. ASSUME IInv, config.stage # "split", NEW i \in LiveJobs \ orphans,
             NEW j \in LiveJobs \ orphans, i # j
      PROVE  Tolerated(i, j)
  <2>0. /\ TypeOK /\ HandInv /\ KnownInv /\ PhaseInv /\ PointInv /\ NoJob \notin DOMAIN jobs
    BY <1>1, NoJobIsNone DEF IInv
  <2>1. /\ i \in {facts.job, facts.final, facts.build, inhand} /\ Live(i)
        /\ j \in {facts.job, facts.final, facts.build, inhand} /\ Live(j)
    BY <1>1, <2>0 DEF LiveJobs, KnownInv, Named, Live
  <2>2. ~(Live(facts.job) /\ Live(facts.final))
    BY <2>0 DEF PhaseInv, Open
  <2>3. Live(inhand) => pc \in Held /\ ~Live(facts.job) /\ ~Live(facts.final)
    BY <2>0 DEF HandInv, Held, PhaseInv, PointInv, Open, Live
  <2>4. facts.build \in {i, j} /\ Live(facts.build)
    BY <1>1, <2>1, <2>2, <2>3
  <2>5. Tolerated(i, j) \/ Tolerated(j, i)
    BY <1>1, <2>1, <2>3, <2>4, NextToBuild
  <2> QED
    BY <2>5 DEF Tolerated
<1>2. IInv => OneLiveJob
  BY <1>1 DEF OneLiveJob, Tolerated
<1> QED
  BY <1>2, Invariance, PTL

\* The cleanup of terminal roots never takes the root of a label run that is
\* still in progress (_reclaim_terminal_managed_storage).
THEOREM RootKept == Spec => []ActiveRootKept
<1>1. IInv => ActiveRootKept
  BY DEF IInv, RootInv, ActiveRootKept, Removable, Lanes
<1> QED
  BY <1>1, Invariance, PTL

\* No path of run, resume or continuation loses track of a live allocation.
THEOREM LiveKept == Spec => NeverAbandonLive
<1>1. ASSUME IInv, [Next]_vars
      PROVE  /\ facts'.job # facts.job => ~Live(facts.job)
             /\ facts'.final # facts.final => ~Live(facts.final)
             /\ facts'.build # facts.build => ~Live(facts.build)
  <2>0. PhaseInv /\ PointInv /\ BuildInv
    BY <1>1 DEF IInv
  <2>1. RecordSubmission => ~Live(facts.job)
    BY <2>0 DEF RecordSubmission, PointInv, PhaseInv, Open
  <2>2. FinalRecord => ~Live(facts.final)
    BY <2>0 DEF FinalRecord, PointInv, PhaseInv
  <2>3. BuildRecord => ~Live(facts.build)
    BY <2>0 DEF BuildRecord, BuildInv
  <2> QED
    BY <1>1, <2>1, <2>2, <2>3, NamesStep DEF SameNames
<1> QED
  BY <1>1, Invariance, PTL DEF NeverAbandonLive, Spec

=============================================================================
