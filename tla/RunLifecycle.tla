---------------------------- MODULE RunLifecycle ----------------------------
(***************************************************************************)
(* One production run of the Grid'5000 operator, from `run` to COMPLETE.   *)
(*                                                                         *)
(* A local process (`run` or `resume`) moves the durable phase of the run  *)
(* while OAR jobs split sentences, finalize the split, build llama-server  *)
(* and label.  The process can die between any two remote calls or durable *)
(* writes; what it does next time depends only on the durable state and on *)
(* the evidence the jobs left on the remote disk.  A detached supervisor   *)
(* may restart it.  Sources: operator/cli.py (_run), resume.py,            *)
(* continuation.py, classification.py, recovery.py, controller.py,         *)
(* split_finalization.py, llama_server.py, remote_preparation.py,          *)
(* sampling.py, storage.py, supervisor.py.                                 *)
(*                                                                         *)
(* Simplifications.  Each durable transition is one step (StateStore shows *)
(* why).  One local process at a time, one site: the earliest-start race   *)
(* is QueueRace and does not change the phase.  Remote evidence is counts  *)
(* of shards and label batches, the manifest and the exit files; those of  *)
(* an ended job that no fact names any more are dropped.  A call that      *)
(* raises ends the process with the phase unchanged, as Crash does.        *)
(***************************************************************************)
EXTENDS Naturals, Sequences, FiniteSets

CONSTANTS
  Configs,     \* run configurations: records [stage, v2, smoke]
  Bounds       \* for each, the size of the instance: records
               \*   [shards, batches, target, jobs, crashes, commands], the
               \*   last what restarts it: "run", "resume", "supervisor"

Stages == {"split", "label", "all"}
Positive == Nat \ {0}

\* _run refuses a V2 label-only run.
ASSUME ConfigsAssumption ==
  /\ Configs \subseteq [stage : Stages, v2 : BOOLEAN, smoke : BOOLEAN]
  /\ \A c \in Configs : ~(c.v2 /\ c.stage = "label")
ASSUME BoundsAssumption ==
  Bounds \in [Configs -> [shards : Positive, batches : Positive, target : Positive,
                          jobs : Nat, crashes : Nat,
                          commands : SUBSET {"run", "resume", "supervisor"}]]

VARIABLES
  config,     \* the run's immutable configuration
  phase,      \* durable RunPhase
  facts,      \* durable facts
  jobs,       \* every OAR job created for the run, by job id
  hub,        \* what is published: the split release, the target of the label release
  splitLeft,  \* input shards without a checkpoint verified on the Hub
  label,      \* remote root, per lane: progress.json counters and the manifest's target
  outputs,    \* remote root: finalization jobs whose output is there
  server,     \* remote root: the llama-server binary is installed
  marker,     \* remote root: status in .operator-managed.json, "none" without a root
  pc,         \* where the local process is; "down" when there is none
  flow,       \* "run": the loops of _run; "classify": classify_or_continue
  looping,    \* inside the continuation loop of classify_or_continue
  want,       \* the component being submitted or classified
  cur,        \* the job being monitored
  inhand,     \* a job id returned by oarsub and not yet recorded
  supervisor, \* "unused", "on" or "off"
  orphans,    \* history: jobs whose id died with the process
  crashes     \* history

\* The bounds of this run's configuration.
Shards == Bounds[config].shards       \* input shards to split
Batches == Bounds[config].batches     \* label batches per unit of sampling target
MaxTarget == Bounds[config].target    \* largest sampling target a command asks for
MaxJobs == Bounds[config].jobs        \* OAR jobs the model creates
MaxCrashes == Bounds[config].crashes  \* times the local process dies
Commands == Bounds[config].commands
AllJobIds == UNION {1 .. Bounds[c].jobs : c \in Configs}

durable == <<phase, facts>>
root == <<label, outputs, server, marker>>
remote == <<jobs, hub, splitLeft, root>>
local == <<flow, looping, want, cur, inhand>>
others == <<config, supervisor, orphans, crashes>>
vars == <<durable, remote, pc, local, others>>

Phases == {"created", "inputs_resolved", "site_selected", "storage_ready",
           "remote_prepared", "submitted", "queued", "running", "checkpointed",
           "finalizing", "validated", "verifying", "complete", "failed"}
Kinds == {"split", "final", "build", "label"}
Lanes == {"smoke", "production"}
LiveStates == {"queued", "running"}
JobStates == LiveStates \cup {"ended", "error", "gone"}
\* Exit file of the payload; "cancelled": no file, and OAR's message says so.
Exits == {"none", "cancelled", "ok", "interrupted", "bad"}
Job == [kind : Kinds, lane : Lanes, target : 0 .. MaxTarget, state : JobStates,
        exit : Exits, ran : BOOLEAN]
Points == {"down", "prepare", "dispatch", "labelInput", "buildSubmit", "buildRecord",
           "buildWait", "submit", "record", "monitor", "attach", "classify", "markFailed",
           "destination", "allocationEnded", "publish", "validate", "verify", "finish",
           "markComplete", "reopen", "finalSubmit", "finalRecord", "finalWait",
           "recoverFinal", "afterFinal", "afterRecovery", "splitFinish"}

NoJob == 0
Live(j) == j \in DOMAIN jobs /\ jobs[j].state \in LiveStates
Goto(p) == pc' = p

\* _lane: the recorded lane, else smoke for a positive row limit.
CurrentLane ==
  IF ~config.v2 THEN "production"
  ELSE IF facts.lane # "none" THEN facts.lane
  ELSE IF config.smoke THEN "smoke" ELSE "production"

\* A lane's batches.  Production takes `target` rows of the label input, which is
\* the output of the recorded finalization and holds the sample of the target
\* that finalization was given; a smoke is bounded by its row limit.
Goal(lane, target) ==
  IF lane = "production" /\ config.v2 /\ facts.splitOut # NoJob
    THEN Batches * (IF target < jobs[facts.splitOut].target THEN target
                    ELSE jobs[facts.splitOut].target)
    ELSE Batches

FreshLabel == [l \in Lanes |-> [done |-> 0, total |-> Batches, manifest |-> 0]]

Init ==
  /\ config \in Configs
  /\ phase = "created"
  /\ facts = [job |-> NoJob, active |-> "none", lane |-> "none", failed |-> NoJob,
              recovered |-> NoJob, splitOut |-> NoJob, final |-> NoJob, build |-> NoJob,
              target |-> 1]
  /\ jobs = <<>> /\ hub = [split |-> FALSE, label |-> 0]
  /\ splitLeft = Shards
  /\ label = FreshLabel /\ outputs = {} /\ server = FALSE /\ marker = "none"
  /\ pc = "prepare" /\ flow = "run" /\ looping = FALSE
  /\ want = "split" /\ cur = NoJob /\ inhand = NoJob
  /\ supervisor = IF "supervisor" \in Commands THEN "on" ELSE "unused"
  /\ orphans = {} /\ crashes = 0

-----------------------------------------------------------------------------
(* OAR and the payloads it runs, seen through the evidence they leave.     *)

JobStarts(j) ==
  /\ jobs[j].state = "queued"
  /\ jobs' = [jobs EXCEPT ![j].state = "running", ![j].ran = TRUE]
  /\ UNCHANGED <<durable, hub, splitLeft, root, pc, local, others>>

\* OAR drops a job that never ran: its log directory does not exist.
JobAborted(j) ==
  /\ jobs[j].state = "queued"
  /\ \E exit \in {"none", "cancelled"} :
       jobs' = [jobs EXCEPT ![j].state = "error", ![j].exit = exit]
  /\ UNCHANGED <<durable, hub, splitLeft, root, pc, local, others>>

\* A job the run will ask about again.
Watched(j) == j \in {cur, facts.job, facts.failed, facts.final, facts.build}

\* oarstat no longer knows the job (exit status 6): JobState.MISSING.
JobForgotten(j) ==
  /\ jobs[j].state \in {"ended", "error"} /\ Watched(j)
  /\ jobs' = [jobs EXCEPT ![j].state = "gone"]
  /\ UNCHANGED <<durable, hub, splitLeft, root, pc, local, others>>

Ends(j, exit) ==
  /\ jobs[j].state = "running"
  /\ \E state \in {"ended", "error"} :
       jobs' = [jobs EXCEPT ![j].state = state, ![j].exit = exit]

\* Some shards more; exit 130 is a graceful stop before the walltime.
SplitJobEnds(j) ==
  /\ jobs[j].kind = "split"
  /\ splitLeft' \in 0 .. splitLeft
  /\ \E exit \in Exits : (exit = "ok" => splitLeft' = 0) /\ Ends(j, exit)
  /\ UNCHANGED <<durable, hub, root, pc, local, others>>

FinalJobEnds(j) ==
  /\ jobs[j].kind = "final"
  /\ \E exit \in {"none", "bad", "ok"} :
       /\ exit = "ok" => splitLeft = 0
       /\ Ends(j, exit)
       /\ outputs' = IF exit = "ok" THEN outputs \cup {j} ELSE outputs
  /\ UNCHANGED <<durable, hub, splitLeft, label, server, marker, pc, local, others>>

BuildJobEnds(j) ==
  /\ jobs[j].kind = "build"
  /\ \E exit \in {"ok", "bad"} : Ends(j, exit) /\ server' = (server \/ exit = "ok")
  /\ UNCHANGED <<durable, hub, splitLeft, label, outputs, marker, pc, local, others>>

\* Some batches more.  An interrupted payload exits 0; one that reaches its
\* total writes the manifest, then publishes unless it is a smoke.
LabelJobEnds(j) ==
  LET lane == jobs[j].lane
      goal == Goal(lane, jobs[j].target)
      publishing == lane = "production" /\ (config.v2 \/ ~config.smoke) IN
  /\ jobs[j].kind = "label"
  /\ \/ \E done \in label[lane].done .. goal, finalized \in BOOLEAN :
          /\ config.stage # "split"
          /\ finalized => done = goal
          /\ label' = [label EXCEPT ![lane] =
               [done |-> done, total |-> goal,
                manifest |-> IF finalized THEN jobs[j].target ELSE @.manifest]]
          /\ hub' \in {hub} \cup
               (IF finalized /\ publishing THEN {[hub EXCEPT !.label = jobs[j].target]} ELSE {})
          /\ \E exit \in {"none", "ok", "bad"} : Ends(j, exit)
     \/ \* the server, the model or the input is unusable; a split run stages no input
        Ends(j, "bad") /\ UNCHANGED <<label, hub>>
  /\ UNCHANGED <<durable, splitLeft, outputs, server, marker, pc, local, others>>

JobRuns(j) ==
  JobStarts(j) \/ SplitJobEnds(j) \/ LabelJobEnds(j) \/ FinalJobEnds(j) \/ BuildJobEnds(j)

-----------------------------------------------------------------------------
(* Commands.                                                               *)

\* sync_sampling_target: a larger target reopens a complete run.
Synced(target) == IF phase = "complete" /\ facts.target < target THEN "remote_prepared" ELSE phase
SyncTarget(target) ==
  /\ phase' = Synced(target)
  /\ facts' = [facts EXCEPT !.target = target]
Targets == IF config.v2 THEN facts.target .. MaxTarget ELSE {facts.target}

\* Mutant: a queued allocation is no candidate.
CandidateNotQueued(ph) ==
  IF ph \in {"submitted", "running"} THEN facts.job
  ELSE IF ph = "failed" /\ facts.recovered # facts.failed THEN facts.failed
  ELSE NoJob

\* reattach_decision
Candidate(ph) ==
  IF ph \in {"submitted", "queued", "running"} THEN facts.job
  ELSE IF ph = "failed" /\ facts.recovered # facts.failed THEN facts.failed
  ELSE NoJob

Attach(ph) ==
  /\ cur' = Candidate(ph)
  /\ want' = IF facts.active = "none" THEN config.stage ELSE facts.active
  /\ Goto("attach")

\* Mutant: failed roots are removed with their resumable files.
RemovableWithCheckpoints == marker \in {"complete", "failed"}

\* cleanup_managed_runs: a complete root, or a failed one without resumable files.
Removable ==
  \/ marker = "complete"
  \/ marker = "failed" /\ \A l \in Lanes : label[l].done = 0

\* _reclaim_terminal_managed_storage protects no root, not even this run's.
ReclaimRoots ==
  IF Removable
    THEN /\ label' = FreshLabel /\ outputs' = {} /\ server' = FALSE /\ marker' = "none"
         /\ jobs' = [j \in DOMAIN jobs |-> [jobs[j] EXCEPT !.exit = "none", !.ran = FALSE]]
    ELSE UNCHANGED <<jobs, root>>

RunCommand ==
  /\ pc = "down" /\ "run" \in Commands
  /\ looping' = FALSE
  /\ \E target \in Targets :
       /\ SyncTarget(target)
       /\ \/ /\ Candidate(Synced(target)) # NoJob
             /\ flow' = "classify" /\ Attach(Synced(target))
             /\ UNCHANGED <<jobs, root>>
          \/ /\ Candidate(Synced(target)) = NoJob
             /\ flow' = "run" /\ Goto("prepare") /\ UNCHANGED <<want, cur>>
             /\ ReclaimRoots
  /\ UNCHANGED <<hub, splitLeft, inhand, others>>

\* resume_run; a prepared run is staged again, which marks its root active.
Resume(ph) ==
  /\ looping' = FALSE
  /\ flow' = "classify"
  /\ marker' = IF ph = "remote_prepared" THEN "active" ELSE marker
  /\ \/ ph \in {"checkpointed", "finalizing"} /\ Goto("recoverFinal") /\ UNCHANGED <<want, cur>>
     \/ Candidate(ph) # NoJob /\ Attach(ph)
     \/ /\ ph = "remote_prepared"
        /\ \/ facts.active = "split" /\ want' = "split" /\ Goto("submit")
           \/ facts.active # "split" /\ want' = "label" /\ Goto("labelInput")
        /\ UNCHANGED cur
     \/ \* nothing to reattach
        /\ ph \notin {"checkpointed", "finalizing", "remote_prepared"} /\ Candidate(ph) = NoJob
        /\ Goto("down") /\ UNCHANGED <<want, cur>>
  /\ UNCHANGED <<jobs, hub, splitLeft, label, outputs, server, inhand>>

ResumeCommand ==
  /\ pc = "down" /\ "resume" \in Commands
  /\ \E target \in Targets : SyncTarget(target) /\ Resume(Synced(target))
  /\ UNCHANGED others

\* _RESUMABLE_PHASES
Resumable == {"remote_prepared", "submitted", "queued", "running", "checkpointed",
              "validated", "finalizing", "verifying"}

\* supervise, after its child (`run` first, `resume` later) has exited
SupervisorTurn ==
  /\ pc = "down" /\ supervisor = "on"
  /\ IF phase = "complete" \/ (config.stage = "split" /\ phase = "checkpointed") \/ phase \notin Resumable
       THEN supervisor' = "off" /\ UNCHANGED <<pc, local, remote>>
       ELSE Resume(phase) /\ UNCHANGED supervisor
  /\ UNCHANGED <<durable, config, orphans, crashes>>

-----------------------------------------------------------------------------
(* Controller.prepare and the dispatch of _run.                            *)

Preparation == [created |-> "inputs_resolved", inputs_resolved |-> "site_selected",
                site_selected |-> "storage_ready", storage_ready |-> "remote_prepared"]

Prepare ==
  /\ pc = "prepare"
  /\ IF phase \in DOMAIN Preparation
       THEN /\ phase' = Preparation[phase] /\ UNCHANGED pc
            /\ marker' = IF phase = "storage_ready" THEN "active" ELSE marker
       ELSE Goto("dispatch") /\ UNCHANGED <<phase, marker>>
  /\ UNCHANGED <<facts, jobs, hub, splitLeft, label, outputs, server, local, others>>

Dispatch ==
  /\ pc = "dispatch"
  /\ \/ /\ config.stage # "label" /\ facts.splitOut = NoJob
        /\ want' = "split" /\ Goto("submit")
     \/ /\ config.stage = "label" \/ (config.stage = "all" /\ facts.splitOut # NoJob)
        /\ want' = "label" /\ Goto("labelInput")
     \/ /\ config.stage = "split" /\ facts.splitOut # NoJob
        /\ Goto("down") /\ UNCHANGED want
  /\ UNCHANGED <<durable, remote, flow, looping, cur, inhand, others>>

-----------------------------------------------------------------------------
(* Label input and ensure_llama_server.                                    *)

\* Without its split output a stage-all or V2 continuation is refused.
InputMissing == (config.stage = "all" \/ config.v2) /\ facts.splitOut \notin outputs

\* prepare_label_assets fetches what is missing and says whether the compiled
\* server is there; a run that died with its split validated then goes back to
\* a prepared one.  Without a server, ensure_llama_server reattaches to its
\* build or submits one.
LabelInput ==
  /\ pc = "labelInput"
  /\ \/ InputMissing /\ Goto("down") /\ UNCHANGED phase
     \/ /\ ~InputMissing
        /\ phase' = IF config.stage = "all" /\ phase = "validated" THEN "remote_prepared" ELSE phase
        /\ \/ server /\ Goto("submit")
           \/ ~server /\ Live(facts.build) /\ Goto("buildWait")
           \/ /\ ~server /\ ~Live(facts.build)
              /\ Goto(IF phase' = "remote_prepared" THEN "buildSubmit" ELSE "down")
  /\ UNCHANGED <<facts, remote, local, others>>

Submitted(kind, lane) ==
  /\ Len(jobs) < MaxJobs
  /\ jobs' = Append(jobs, [kind |-> kind, lane |-> lane, target |-> facts.target,
                           state |-> "queued", exit |-> "none", ran |-> FALSE])
  /\ inhand' = Len(jobs) + 1

\* A preflight or oarsub is refused: policy, quota, SSH, allocation bound.
Refused == Goto("down") /\ UNCHANGED <<jobs, inhand>>

BuildSubmit ==
  /\ pc = "buildSubmit"
  /\ \/ Submitted("build", "production") /\ Goto("buildRecord")
     \/ Refused
  /\ UNCHANGED <<durable, hub, splitLeft, root, flow, looping, want, cur, others>>

\* The evidence of an ended job that facts are about to stop naming.
Drop(j) ==
  jobs' = IF j \in DOMAIN jobs /\ ~Live(j)
            THEN [jobs EXCEPT ![j].state = "gone", ![j].exit = "none", ![j].ran = TRUE]
            ELSE jobs

BuildRecord ==
  /\ pc = "buildRecord"
  /\ Drop(facts.build)
  /\ facts' = [facts EXCEPT !.build = inhand]
  /\ inhand' = NoJob
  /\ Goto("buildWait")
  /\ UNCHANGED <<phase, hub, splitLeft, root, flow, looping, want, cur, others>>

\* Mutant: the build job is not awaited.
BuildWaitSkipped ==
  /\ pc = "buildWait"
  /\ Goto("submit")
  /\ UNCHANGED <<durable, remote, local, others>>

BuildWait ==
  /\ pc = "buildWait"
  /\ ~Live(facts.build)
  /\ Goto(IF jobs[facts.build].state = "ended" /\ server THEN "submit" ELSE "down")
  /\ UNCHANGED <<durable, remote, local, others>>

-----------------------------------------------------------------------------
(* Controller.submit and Controller.monitor.                               *)

Attachable == {"submitted", "queued", "running", "checkpointed"}

Submit ==
  /\ pc = "submit"
  /\ \/ /\ phase = "remote_prepared"
        /\ \/ Submitted(want, CurrentLane) /\ Goto("record")
           \/ Refused
        /\ UNCHANGED cur
     \/ /\ phase \in Attachable
        /\ cur' = facts.job /\ Goto("monitor") /\ UNCHANGED <<jobs, inhand>>
     \/ phase \notin {"remote_prepared"} \cup Attachable /\ Refused /\ UNCHANGED cur
  /\ UNCHANGED <<durable, hub, splitLeft, root, flow, looping, want, others>>

\* Mutant: the stage of the run is recorded, not the submitted component.
RecordSubmissionOfStage ==
  /\ pc = "record"
  /\ Drop(facts.job)
  /\ phase' = "submitted"
  /\ facts' = [facts EXCEPT !.job = inhand, !.active = config.stage,
                            !.lane = IF config.v2 /\ want = "label" THEN CurrentLane ELSE @]
  /\ cur' = inhand
  /\ inhand' = NoJob
  /\ Goto(IF flow = "run" \/ looping THEN "monitor" ELSE "attach")
  /\ UNCHANGED <<hub, splitLeft, root, flow, looping, want, others>>

\* resume_run hands the new job to classify_or_continue, which asks OAR first.
RecordSubmission ==
  /\ pc = "record"
  /\ Drop(facts.job)
  /\ phase' = "submitted"
  /\ facts' = [facts EXCEPT !.job = inhand, !.active = want,
                            !.lane = IF config.v2 /\ want = "label" THEN CurrentLane ELSE @]
  /\ cur' = inhand
  /\ inhand' = NoJob
  /\ Goto(IF flow = "run" \/ looping THEN "monitor" ELSE "attach")
  /\ UNCHANGED <<hub, splitLeft, root, flow, looping, want, others>>

\* Mutant: a job that is not queued any more counts as ended.
MonitorEager ==
  /\ pc = "monitor"
  /\ \/ phase = "submitted" /\ phase' = "queued" /\ UNCHANGED pc
     \/ phase = "queued" /\ jobs[cur].state = "running" /\ phase' = "running" /\ UNCHANGED pc
     \/ /\ phase # "submitted" /\ jobs[cur].state # "queued"
        /\ Goto(IF flow = "run" THEN "allocationEnded"
                ELSE IF jobs[cur].state = "gone" THEN "down" ELSE "classify")
        /\ UNCHANGED phase
  /\ UNCHANGED <<facts, remote, local, others>>

\* One turn of the polling loop; in classify_or_continue a job that OAR lost
\* while it was watched is an error (_is_terminal_allocation).
Monitor ==
  /\ pc = "monitor"
  /\ \/ phase = "submitted" /\ phase' = "queued" /\ UNCHANGED pc
     \/ phase = "queued" /\ jobs[cur].state = "running" /\ phase' = "running" /\ UNCHANGED pc
     \/ /\ phase # "submitted" /\ ~Live(cur)
        /\ Goto(IF flow = "run" THEN "allocationEnded"
                ELSE IF jobs[cur].state = "gone" THEN "down" ELSE "classify")
        /\ UNCHANGED phase
  /\ UNCHANGED <<facts, remote, local, others>>

-----------------------------------------------------------------------------
(* The loops of _run after an allocation has ended.                        *)

ManifestPresent == label[CurrentLane].manifest > 0

RunLoopTurn ==
  LET ended == jobs[cur].state = "ended"
      exit == jobs[cur].exit
      open == phase \in {"queued", "running"}
      splitDone == want = "split" /\ ended /\ exit = "ok" /\ open
      continues == /\ ended /\ open
                   /\ \/ want = "split" /\ exit = "interrupted"
                      \/ want = "label" /\ exit = "ok" /\ ~ManifestPresent
      labelDone == want = "label" /\ ended /\ exit = "ok" /\ ManifestPresent IN
  /\ pc = "allocationEnded"
  /\ \/ splitDone /\ phase' = "checkpointed" /\ Goto("finalSubmit")
     \/ continues /\ phase' = "remote_prepared" /\ Goto("submit")
     \/ labelDone /\ Goto("publish") /\ UNCHANGED phase
     \/ ~splitDone /\ ~continues /\ ~labelDone /\ Goto("down") /\ UNCHANGED phase
  /\ UNCHANGED <<facts, remote, local, others>>

-----------------------------------------------------------------------------
(* classify_or_continue.                                                   *)

\* A lost job without a log directory is never resubmitted.
AttachJob ==
  /\ pc = "attach"
  /\ Goto(IF Live(cur) THEN "monitor"
          ELSE IF jobs[cur].state = "gone" /\ ~jobs[cur].ran THEN "down" ELSE "classify")
  /\ UNCHANGED <<durable, remote, local, others>>

\* Mutant: a graceful stop counts as the end of the split.
SplitClassLenient(j) ==
  IF splitLeft = 0 \/ jobs[j].exit = "interrupted" THEN IF jobs[j].exit = "bad" THEN "FAILED" ELSE "COMPLETE"
  ELSE IF splitLeft < Shards THEN "CONTINUE"
  ELSE "FAILED"

\* classify_split_terminal
SplitClass(j) ==
  IF splitLeft = 0 THEN IF jobs[j].exit = "bad" THEN "FAILED" ELSE "COMPLETE"
  ELSE IF splitLeft < Shards THEN "CONTINUE"
  ELSE IF jobs[j].exit = "cancelled" /\ jobs[j].state # "gone" THEN "CANCELLED"
  ELSE "FAILED"

\* recorded_job.classify_terminal
LabelClass(j) ==
  LET progress == label[CurrentLane] IN
  IF jobs[j].exit = "bad" THEN "FAILED"
  ELSE IF ManifestPresent THEN "COMPLETE"
  ELSE IF 0 < progress.done /\ progress.done < progress.total THEN "CONTINUE"
  ELSE IF jobs[j].state = "gone" /\ progress.done = 0 THEN "RAISES"
  ELSE "FAILED"

Class(j) == IF want = "label" THEN LabelClass(j) ELSE SplitClass(j)

\* transition_terminal accepts these phases; any other raises.
Classifiable == phase \in {"queued", "running", "failed"}

Recovery(f) == IF phase = "failed" THEN [f EXCEPT !.recovered = cur] ELSE f

Classify ==
  LET class == Class(cur) IN
  /\ pc = "classify"
  /\ \/ /\ class = "FAILED" /\ Classifiable
        /\ phase' = "failed" /\ facts' = [facts EXCEPT !.failed = cur]
        /\ Goto("markFailed") /\ UNCHANGED looping
     \/ /\ class = "CONTINUE" /\ Classifiable
        /\ phase' = "remote_prepared" /\ facts' = Recovery(facts)
        /\ looping' = TRUE /\ Goto(IF looping THEN "submit" ELSE "destination")
     \/ /\ class = "COMPLETE" /\ want # "label" /\ Classifiable
        /\ phase' = "checkpointed" /\ facts' = Recovery(facts)
        /\ Goto(IF looping THEN "down" ELSE "finalSubmit") /\ UNCHANGED looping
     \/ /\ class = "COMPLETE" /\ want = "label"
        /\ Goto("publish") /\ UNCHANGED <<durable, looping>>
     \/ /\ \/ class \in {"CANCELLED", "RAISES"}
           \/ ~Classifiable /\ ~(class = "COMPLETE" /\ want = "label")
        /\ Goto("down") /\ UNCHANGED <<durable, looping>>
  /\ UNCHANGED <<remote, flow, want, cur, inhand, others>>

\* mark_remote_status, then RuntimeError
MarkFailed ==
  /\ pc = "markFailed"
  /\ marker' = "failed"
  /\ Goto("down")
  /\ UNCHANGED <<durable, jobs, hub, splitLeft, label, outputs, server, local, others>>

\* prepare_destination: the checkout is staged again before the new allocation.
PrepareDestination ==
  /\ pc = "destination"
  /\ marker' = "active"
  /\ Goto("submit")
  /\ UNCHANGED <<durable, jobs, hub, splitLeft, label, outputs, server, local, others>>

-----------------------------------------------------------------------------
(* apply_classification of a complete label allocation.                    *)

SmokeLane == config.v2 /\ CurrentLane = "smoke"
\* Mutant: only worldwide runs publish.
PublishesWorldwide == config.v2 /\ ~SmokeLane

Publishes == IF config.v2 THEN ~SmokeLane ELSE ~config.smoke

\* The commit the job reported, or publish_label of the output directory.
PublishLabel ==
  /\ pc = "publish"
  /\ hub' = IF Publishes THEN [hub EXCEPT !.label = label[CurrentLane].manifest] ELSE hub
  /\ Goto("validate")
  /\ UNCHANGED <<durable, jobs, splitLeft, root, local, others>>

ValidateLabel ==
  /\ pc = "validate"
  /\ IF Classifiable
       THEN /\ phase' = "validated"
            /\ facts' = Recovery(facts)
            /\ Goto(IF SmokeLane THEN "reopen" ELSE "verify")
       ELSE Goto("down") /\ UNCHANGED durable
  /\ UNCHANGED <<remote, local, others>>

\* _run goes on to production; classify_or_continue returns.
ReopenForProduction ==
  /\ pc = "reopen"
  /\ phase' = "remote_prepared"
  /\ facts' = [facts EXCEPT !.active = "label", !.lane = "production"]
  /\ Goto(IF flow = "run" THEN "submit" ELSE "down")
  /\ UNCHANGED <<remote, local, others>>

Verify ==
  /\ pc = "verify"
  /\ phase' = "verifying"
  /\ Goto("finish")
  /\ UNCHANGED <<facts, remote, local, others>>

Finish ==
  /\ pc = "finish"
  /\ phase' = "complete"
  /\ Goto("markComplete")
  /\ UNCHANGED <<facts, remote, local, others>>

MarkComplete ==
  /\ pc = "markComplete"
  /\ marker' = "complete"
  /\ Goto("down")
  /\ UNCHANGED <<durable, jobs, hub, splitLeft, label, outputs, server, local, others>>

-----------------------------------------------------------------------------
(* finalize_split_checkpointed and resume_split_finalization.              *)

FinalSubmit ==
  /\ pc = "finalSubmit"
  /\ \/ Submitted("final", "production") /\ Goto("finalRecord")
     \/ Refused
  /\ UNCHANGED <<durable, hub, splitLeft, root, flow, looping, want, cur, others>>

FinalRecord ==
  /\ pc = "finalRecord"
  /\ Drop(facts.final)
  /\ phase' = "finalizing"
  /\ facts' = [facts EXCEPT !.final = inhand]
  /\ inhand' = NoJob
  /\ Goto("finalWait")
  /\ UNCHANGED <<hub, splitLeft, root, flow, looping, want, cur, others>>

ValidateFinal(next) ==
  /\ phase' = "validated"
  /\ facts' = [facts EXCEPT !.splitOut = facts.final]
  /\ Goto(next)

FinalWait ==
  /\ pc = "finalWait"
  /\ ~Live(facts.final)
  /\ IF jobs[facts.final].state = "ended" /\ jobs[facts.final].exit = "ok"
       THEN ValidateFinal("afterFinal")
       ELSE Goto("down") /\ UNCHANGED durable
  /\ UNCHANGED <<remote, local, others>>

\* An unreadable exit file counts as a failed allocation.
RecoverFinal ==
  /\ pc = "recoverFinal"
  /\ \/ /\ phase = "checkpointed"
        /\ marker' = "active"
        /\ Goto("finalSubmit") /\ UNCHANGED durable
     \/ /\ phase = "finalizing" /\ ~Live(facts.final)
        /\ jobs[facts.final].exit = "ok"
        /\ ValidateFinal("afterRecovery") /\ UNCHANGED marker
     \/ /\ phase = "finalizing" /\ ~Live(facts.final)
        /\ phase' = "checkpointed" /\ UNCHANGED <<facts, pc, marker>>
  /\ UNCHANGED <<jobs, hub, splitLeft, label, outputs, server, local, others>>

\* A split run publishes; any other reopens for labeling.
AfterFinal ==
  /\ pc \in {"afterFinal", "afterRecovery"}
  /\ IF config.stage = "split"
       THEN /\ hub' = [hub EXCEPT !.split = TRUE]
            /\ Goto("splitFinish") /\ UNCHANGED <<durable, want, marker>>
       ELSE /\ phase' = "remote_prepared"
            /\ facts' = [facts EXCEPT !.active = "label",
                           !.lane = IF config.v2 /\ pc = "afterFinal"
                                      THEN (IF config.smoke THEN "smoke" ELSE "production") ELSE @]
            /\ marker' = IF flow = "classify" THEN "active" ELSE marker
            /\ want' = "label" /\ Goto("labelInput") /\ UNCHANGED hub
  /\ UNCHANGED <<jobs, splitLeft, label, outputs, server, flow, looping, cur, inhand, others>>

SplitFinish ==
  /\ pc = "splitFinish"
  /\ phase' = "complete"
  /\ Goto("markComplete")
  /\ UNCHANGED <<facts, remote, local, others>>

-----------------------------------------------------------------------------
Crash ==
  /\ pc # "down"
  /\ crashes < MaxCrashes
  /\ crashes' = crashes + 1
  /\ orphans' = IF inhand = NoJob THEN orphans ELSE orphans \cup {inhand}
  /\ inhand' = NoJob
  /\ Goto("down")
  /\ UNCHANGED <<durable, remote, flow, looping, want, cur, config, supervisor>>

Process ==
  \/ Prepare \/ Dispatch \/ LabelInput \/ BuildSubmit \/ BuildRecord \/ BuildWait
  \/ Submit \/ RecordSubmission \/ Monitor \/ RunLoopTurn \/ AttachJob \/ Classify
  \/ MarkFailed \/ PrepareDestination \/ PublishLabel \/ ValidateLabel
  \/ ReopenForProduction \/ Verify \/ Finish \/ MarkComplete
  \/ FinalSubmit \/ FinalRecord \/ FinalWait \/ RecoverFinal \/ AfterFinal \/ SplitFinish

Next ==
  \/ Process
  \/ Crash
  \/ RunCommand
  \/ ResumeCommand
  \/ SupervisorTurn
  \/ \E j \in DOMAIN jobs : JobRuns(j) \/ JobAborted(j) \/ JobForgotten(j)

Spec == Init /\ [][Next]_vars

\* OAR starts what is queued and ends it at its walltime; the process is not
\* suspended for ever; the supervisor sleeps and loops.
Fairness ==
  /\ WF_vars(Process)
  /\ WF_vars(SupervisorTurn)
  /\ \A j \in AllJobIds : WF_vars(j \in DOMAIN jobs /\ JobRuns(j))

FairSpec == Spec /\ Fairness

-----------------------------------------------------------------------------
(* Properties.                                                             *)

JobIds == 0 .. MaxJobs
Targeted == 0 .. MaxTarget

\* The phase is a RunPhase, facts name jobs that exist, and the evidence on
\* the remote root stays within what the payloads can write.
TypeOK ==
  /\ config \in Configs
  /\ phase \in Phases
  /\ facts \in [job : JobIds, active : {"none", "split", "label"}, lane : Lanes \cup {"none"},
                failed : JobIds, recovered : JobIds, splitOut : JobIds, final : JobIds,
                build : JobIds, target : Targeted]
  /\ jobs \in Seq(Job) /\ Len(jobs) \in JobIds
  /\ hub \in [split : BOOLEAN, label : Targeted]
  /\ splitLeft \in 0 .. Shards
  /\ label \in [Lanes -> [done : 0 .. Batches * MaxTarget, total : 0 .. Batches * MaxTarget,
                          manifest : Targeted]]
  /\ outputs \subseteq DOMAIN jobs
  /\ server \in BOOLEAN
  /\ marker \in {"none", "active", "complete", "failed"}
  /\ pc \in Points
  /\ flow \in {"run", "classify"} /\ looping \in BOOLEAN /\ want \in Stages
  /\ cur \in JobIds /\ inhand \in JobIds
  /\ supervisor \in {"unused", "on", "off"}
  /\ orphans \subseteq DOMAIN jobs
  /\ crashes \in 0 .. MaxCrashes

\* COMPLETE means published: a split run has its split release on the Hub,
\* a labeling run labels of a target it recorded, unless it is a regional
\* smoke (apply_classification, finalize_split_checkpointed).
CompletePublished ==
  phase = "complete" =>
    IF config.stage = "split" THEN hub.split
    ELSE (config.v2 \/ ~config.smoke) => hub.label \in 1 .. facts.target

\* A job of this kind was submitted by a process that died before recording it.
Orphaned(kind) == \E o \in orphans : jobs[o].kind = kind

\* A run is finalized only by an allocation that reaches completed == total:
\* although _run and classify_terminal take the presence of a manifest for that,
\* and a raised target leaves the manifest of the smaller one in place.  An
\* unrecorded label job breaks the promise: the split may then be finalized
\* again, for a larger target, next to the manifest that job left.
CompleteAtTotal ==
  phase = "complete" /\ marker = "complete" /\ config.stage = "all" /\ ~Orphaned("label") =>
    label["production"].done = label["production"].total

\* Labeling of a stage-all run never starts before the split has been
\* finalized by a job that ended well, whatever restarted the process.
LabelAfterSplit ==
  config.stage = "all" /\ (\E j \in DOMAIN jobs : jobs[j].kind = "label") =>
    /\ splitLeft = 0
    /\ facts.splitOut # NoJob /\ jobs[facts.splitOut].kind = "final"

\* The production lane of a V2 smoke run is labelled only after its smoke
\* has been finalized (apply_classification reopens for production).
ProductionAfterSmoke ==
  config.v2 /\ config.smoke /\ (\E j \in DOMAIN jobs : jobs[j].kind = "label" /\ jobs[j].lane = "production") =>
    \E j \in DOMAIN jobs : jobs[j].kind = "label" /\ jobs[j].lane = "smoke" /\ ~Live(j)

\* A finalization job exists only when every shard has a verified checkpoint.
FinalAfterAllShards ==
  (\E j \in DOMAIN jobs : jobs[j].kind = "final") => splitLeft = 0

\* The stages of a run happen in order, whatever restarted the process and
\* whatever ended in between: no finalization before every shard has its
\* checkpoint, no labels before the split output of a job that ended well, no
\* production labels before the smoke ended.
StagesInOrder == FinalAfterAllShards /\ LabelAfterSplit /\ ProductionAfterSmoke

\* A run that says COMPLETE has published what it was asked for and, when it went
\* through all stages, labelled every row of the input it was given.
CompleteMeansDone == CompletePublished /\ CompleteAtTotal

LiveJobs == {j \in DOMAIN jobs : Live(j)}

\* A prepared run whose split is finalized and whose recorded component still is
\* the split, because _run did not record the other one: resume_run splits and
\* finalizes it again, even next to the build that _run has started for its labels.
SplitsAgain == config.stage = "all" /\ facts.splitOut # NoJob /\ facts.active = "split"

\* Apart from jobs whose id died with the process, a run that labels never
\* has two live jobs, of whatever kind, through any sequence of crashes,
\* resumes, continuations, builds and finalizations, but in two cases: it
\* splits again, or the build of a dead process has provided the server that
\* the recorded one is still building.  (A split run can: the label branch of
\* resume_run may leave it a build job.)
OneLiveJob ==
  config.stage # "split" =>
    \A i, j \in LiveJobs \ orphans : i # j =>
      \/ SplitsAgain /\ {jobs[i].kind, jobs[j].kind} \in {{"build", "split"}, {"build", "final"}}
      \/ Orphaned("build") /\ {jobs[i].kind, jobs[j].kind} = {"build", "label"}

\* A fact that names a job is replaced only when that job is no longer live:
\* no path of run, resume or continuation loses track of a live allocation.
NeverAbandonLive ==
  [][/\ facts'.job # facts.job => ~Live(facts.job)
     /\ facts'.final # facts.final => ~Live(facts.final)
     /\ facts'.build # facts.build => ~Live(facts.build)]_vars

\* The storage cleanup that every `run` of the account performs would not
\* remove the root of a label run that is still in progress.
ActiveRootKept == config.stage = "label" /\ Removable => phase \in {"failed", "complete"}

\* Evidence of job j that classify_or_continue refuses to act on.
Unclassifiable(j) ==
  \/ jobs[j].state = "gone" /\ ~jobs[j].ran
  \/ jobs[j].state \in {"ended", "error", "gone"}
       /\ (IF facts.active = "label" THEN LabelClass(j) ELSE SplitClass(j)) \in {"CANCELLED", "RAISES"}

\* Under a supervisor, an allocation that has ended is classified: the run
\* moves on, unless the evidence is of the kind the code refuses to act on.
EndedIsClassified ==
  (supervisor = "on" /\ phase \in {"queued", "running"} /\ ~Live(facts.job))
    ~> (phase \notin {"queued", "running"} \/ Unclassifiable(facts.job))

\* Under a supervisor, a finalization that was lost, killed or failed is
\* recovered: FINALIZING is left.
FinalizationIsLeft == (supervisor = "on" /\ phase = "finalizing") ~> phase # "finalizing"

\* Under a supervisor the run moves on: an ended allocation is classified and a
\* finalization is left, through crashes of the local process and lost jobs.
SupervisedProgress == EndedIsClassified /\ FinalizationIsLeft

(* What the documentation says, and the code does not do.                  *)

\* The supervisor "keeps going until the run reaches its terminal state":
\* it does not stay for ever in a phase it retries.
ValidatedIsLeft ==
  (supervisor = "on" /\ phase \in {"validated", "verifying"}) ~> phase \notin {"validated", "verifying"}

\* "Increase `--sampling-target` on `run` or `resume RUN_ID` to extend the same
\* sample [...] so the next run adds rows": a complete worldwide run has labelled
\* the rows of the target it records (sync_sampling_target, prepare_v2_input).
TargetLabelled ==
  phase = "complete" /\ marker = "complete" /\ config.v2 =>
    label["production"].done = Batches * facts.target

=============================================================================
