------------------------------ MODULE QueueRace ------------------------------
(***************************************************************************)
(* The earliest-start race of the Grid'5000 operator.                      *)
(*                                                                         *)
(* A run owns one recorded OAR allocation.  While it waits in the queue,   *)
(* the operator keeps it as the fallback and tries to start a short trial  *)
(* elsewhere: at most one trial at a time, recorded in the durable facts,  *)
(* adopted once it is observed Running, abandoned otherwise                *)
(* (operator/earliest_start.py; cli._optimize_queued_start and             *)
(* cli._race_queued_start).  The process driving the race may die between  *)
(* any two remote calls or durable writes; a later `resume` (or `run`)     *)
(* carries on from the durable facts alone.                                *)
(*                                                                         *)
(* Simplifications.  An allocation is one element of Jobs (the code's pair *)
(* site, job id).  Which sites are probed is abstracted to how many        *)
(* candidates a scan yields.  An OAR forecast is near (within ten          *)
(* minutes), far (beyond, or stale) or none.  A remote call that raises    *)
(* outside a submission ends the process: that is Crash.                   *)
(***************************************************************************)
EXTENDS Naturals, FiniteSets

CONSTANTS
  Jobs,          \* OAR allocations that can ever be created
  NoJob,         \* the absent value of a recorded job id
  MaxCandidates, \* idle compatible sites one scan can yield
  Attempts,      \* SshClient attempts for one remote command
  RepliesLost,   \* whether an oarsub may take effect and its reply be lost
  MaxCrashes,    \* how often the local process dies
  Restarts       \* the commands used to restart: "resume", "run"

ASSUME JobsAssumption == NoJob \notin Jobs
ASSUME BoundsAssumption ==
  /\ MaxCandidates \in Nat
  /\ Attempts \in Nat \ {0}
  /\ MaxCrashes \in Nat
  /\ RepliesLost \in BOOLEAN
ASSUME RestartsAssumption == Restarts \subseteq {"resume", "run"}

VARIABLES
  oar,      \* scheduler's view: the OAR state of every job
  phase,    \* durable phase of the run, SUBMITTED/QUEUED/RUNNING merged
  facts,    \* durable facts the race reads and writes
  pc,       \* where the local operator process is; "down" when there is none
  cur,      \* local: the fallback allocation being raced or monitored
  inhand,   \* local: a job id returned by oarsub and not yet persisted
  trial,    \* local: the trial being watched
  seen,     \* local: the fallback status read at the start of a scan
  pending,  \* local: candidates not yet tried in this scan
  attempt,  \* local: SSH attempt of the submission under way
  after,    \* local: where attempt_immediate_replacement goes after a trial
  expired,  \* local: the trial's deadline has passed
  lost,     \* history: jobs created whose id never reached the operator's state
  crashes   \* history: how many crashes so far

local == <<cur, inhand, trial, seen, pending, attempt, after, expired>>
vars == <<oar, phase, facts, pc, local, lost, crashes>>

OarStates == {"absent", "queued", "running", "finishing", "ended"}
LiveStates == {"queued", "running", "finishing"}
Forecasts == {"near", "far", "none"}
NotQueued == "notqueued"
Phases == {"prepared", "submitted", "complete", "failed"}
ReplacementStatuses == {"unset", "trial", "adopted", "inactive"}
Points == {"down", "submit", "record", "scan", "cancelOld", "markOld", "rearm",
           "probe", "pick", "trialCheck", "trialSubmit", "trialPersist",
           "watch", "watchTrial", "dropTrial", "clearTrial", "adopt",
           "cancelFallback", "observe", "monitor"}

\* is_live_state
Live(j) == j \in Jobs /\ oar[j] \in LiveStates
LiveJobs == {j \in Jobs : oar[j] \in LiveStates}

Goto(p) == pc' = p

Init ==
  /\ oar = [j \in Jobs |-> "absent"]
  /\ phase = "prepared"
  /\ facts = [job |-> NoJob, replacement_status |-> "unset",
              fallback_job |-> NoJob, fallback_cancelled |-> FALSE,
              replacement_job |-> NoJob]
  /\ pc = "submit"
  /\ cur = NoJob /\ inhand = NoJob /\ trial = NoJob
  /\ seen = NotQueued /\ pending = 0 /\ attempt = 1
  /\ after = "observe" /\ expired = FALSE
  /\ lost = {} /\ crashes = 0

-----------------------------------------------------------------------------
(* The scheduler, external to the program.                                 *)

JobProgress(j) ==
  /\ \/ oar[j] = "queued" /\ oar' = [oar EXCEPT ![j] = "running"]
     \/ oar[j] = "running" /\ oar' = [oar EXCEPT ![j] = "finishing"]
     \/ oar[j] \in LiveStates /\ oar' = [oar EXCEPT ![j] = "ended"]
  /\ UNCHANGED <<phase, facts, pc, local, lost, crashes>>

\* OarClient.status: a queued job reports a forecast, any other its state.
StatusOf(j) == IF oar[j] = "queued" THEN Forecasts ELSE {NotQueued}

\* OarClient.cancel: oardel ends a live job and changes nothing otherwise.
Cancelled(j) == [oar EXCEPT ![j] = IF @ \in LiveStates THEN "ended" ELSE @]

-----------------------------------------------------------------------------
(* OarClient.submit over SshClient.run.  oarsub is retried after a timeout *)
(* or a dropped connection, whether or not the lost attempt created a job. *)

Fresh(j) == oar[j] = "absent"

SubmitReplied(at, to) ==
  /\ pc = at
  /\ \E j \in Jobs :
       /\ Fresh(j)
       /\ oar' = [oar EXCEPT ![j] = "queued"]
       /\ inhand' = j
  /\ attempt' = 1
  /\ Goto(to)
  /\ UNCHANGED <<phase, facts, cur, trial, seen, pending, after, expired, lost, crashes>>

\* One failed attempt.  A timeout or a dropped connection is retried up to
\* Attempts; the last one, a refusal or an unreadable reply is raised.
SubmitFailed(at, raised) ==
  /\ pc = at
  /\ \/ UNCHANGED <<oar, lost>>
     \/ \E j \in Jobs :
          /\ RepliesLost
          /\ Fresh(j)
          /\ oar' = [oar EXCEPT ![j] = "queued"]
          /\ lost' = lost \cup {j}
  /\ \/ attempt < Attempts /\ attempt' = attempt + 1 /\ UNCHANGED pc
     \/ attempt' = 1 /\ Goto(raised)
  /\ UNCHANGED <<phase, facts, cur, inhand, trial, seen, pending, after, expired, crashes>>

-----------------------------------------------------------------------------
(* Controller.submit of the next allocation, and the durable record.  Every *)
(* caller races the new allocation except the label loop of `run` for      *)
(* stage all, which monitors it directly.                                  *)

RecordSubmission ==
  /\ pc = "record"
  /\ phase' = "submitted"
  /\ facts' = [facts EXCEPT !.job = inhand]
  /\ cur' = inhand
  /\ inhand' = NoJob
  /\ \/ Goto("scan")
     \/ Goto("monitor")
  /\ UNCHANGED <<oar, trial, seen, pending, attempt, after, expired, lost, crashes>>

-----------------------------------------------------------------------------
(* _optimize_queued_start: settle what an earlier race left behind, decide *)
(* whether to look for a replacement, and probe the sites.                 *)

StaleFallback ==
  /\ facts.replacement_status = "adopted"
  /\ facts.fallback_job # NoJob
  /\ facts.fallback_job # cur
  /\ ~facts.fallback_cancelled

AfterAdopted == IF seen' = NotQueued THEN "observe" ELSE "rearm"

\* Mutant: a restarted race forgets the fallback it still has to cancel.
ScanFallbackForgetful ==
  /\ pc = "scan"
  /\ seen' \in StatusOf(cur)
  /\ IF facts.replacement_status # "adopted" THEN Goto("probe") ELSE Goto(AfterAdopted)
  /\ UNCHANGED <<oar, phase, facts, cur, inhand, trial, pending, attempt, after, expired, lost, crashes>>

ScanFallback ==
  /\ pc = "scan"
  /\ seen' \in StatusOf(cur)
  /\ IF facts.replacement_status # "adopted" THEN Goto("probe")
     ELSE IF StaleFallback THEN Goto("cancelOld")
     ELSE Goto(AfterAdopted)
  /\ UNCHANGED <<oar, phase, facts, cur, inhand, trial, pending, attempt, after, expired, lost, crashes>>

CancelStaleFallback ==
  /\ pc = "cancelOld"
  /\ oar' = Cancelled(facts.fallback_job)
  /\ Goto("markOld")
  /\ UNCHANGED <<phase, facts, local, lost, crashes>>

MarkFallbackCancelled ==
  /\ pc = "markOld"
  /\ facts' = [facts EXCEPT !.fallback_cancelled = TRUE]
  /\ seen' = seen
  /\ Goto(AfterAdopted)
  /\ UNCHANGED <<oar, phase, cur, inhand, trial, pending, attempt, after, expired, lost, crashes>>

\* An adopted run whose allocation queues again becomes the next fallback.
RearmFallback ==
  /\ pc = "rearm"
  /\ facts' = [facts EXCEPT !.fallback_job = cur, !.fallback_cancelled = FALSE,
                            !.replacement_status = "inactive"]
  /\ Goto("probe")
  /\ UNCHANGED <<oar, phase, local, lost, crashes>>

\* Mutant: a restarted race does not look for the trial of the previous one.
ExistingTrialIgnored == FALSE

ExistingTrial == facts.replacement_status = "trial"

ProbeSites ==
  /\ pc = "probe"
  /\ IF ~ExistingTrial /\ seen \notin {"far", "none"}
       THEN /\ Goto("observe")
            /\ UNCHANGED <<pending, trial, expired>>
       ELSE /\ pending' \in 0 .. MaxCandidates
            /\ IF ExistingTrial
                 THEN /\ trial' = facts.replacement_job
                      /\ expired' \in BOOLEAN
                      /\ Goto("watch")
                 ELSE /\ Goto(IF pending' = 0 THEN "observe" ELSE "pick")
                      /\ UNCHANGED <<trial, expired>>
  /\ UNCHANGED <<oar, phase, facts, cur, inhand, seen, attempt, after, lost, crashes>>

-----------------------------------------------------------------------------
(* attempt_immediate_replacement.                                          *)

\* Mutant: the candidate list is popped without asking whether it is empty.
PickCandidateUnguarded ==
  /\ pc = "pick"
  /\ pending' = pending - 1
  /\ Goto(IF oar[cur] = "running" THEN "observe" ELSE "trialCheck")
  /\ UNCHANGED <<oar, phase, facts, cur, inhand, trial, seen, attempt, after, expired, lost, crashes>>

PickCandidate ==
  /\ pc = "pick"
  /\ IF pending = 0
       THEN Goto("observe") /\ UNCHANGED pending
       ELSE /\ pending' = pending - 1
            /\ Goto(IF oar[cur] = "running" THEN "observe" ELSE "trialCheck")
  /\ UNCHANGED <<oar, phase, facts, cur, inhand, trial, seen, attempt, after, expired, lost, crashes>>

\* prepare(candidate) may raise; submit(candidate) refuses a fallback that left the queue.
CheckFallbackQueued ==
  /\ pc = "trialCheck"
  /\ \/ oar[cur] = "queued" /\ Goto("trialSubmit")
     \/ Goto("pick")
  /\ UNCHANGED <<oar, phase, facts, local, lost, crashes>>

PersistTrial ==
  /\ pc = "trialPersist"
  /\ facts' = [facts EXCEPT !.fallback_job = cur, !.fallback_cancelled = FALSE,
                            !.replacement_job = inhand, !.replacement_status = "trial"]
  /\ trial' = inhand
  /\ inhand' = NoJob
  /\ expired' = FALSE
  /\ Goto("watch")
  /\ UNCHANGED <<oar, phase, cur, seen, pending, attempt, after, lost, crashes>>

\* Mutant: the fallback started first and the trial is left alone.
WatchFallbackLeaves ==
  /\ pc = "watch"
  /\ IF oar[cur] = "running" THEN Goto("observe") ELSE Goto("watchTrial")
  /\ UNCHANGED <<oar, phase, facts, cur, inhand, trial, seen, pending, attempt, after, expired, lost, crashes>>

\* The fallback started first: the trial is cancelled and the race is over.
WatchFallback ==
  /\ pc = "watch"
  /\ IF oar[cur] = "running"
       THEN Goto("dropTrial") /\ after' = "observe"
       ELSE Goto("watchTrial") /\ UNCHANGED after
  /\ UNCHANGED <<oar, phase, facts, cur, inhand, trial, seen, pending, attempt, expired, lost, crashes>>

WatchTrial ==
  /\ pc = "watchTrial"
  /\ \/ oar[trial] = "running" /\ Goto("adopt") /\ UNCHANGED after
     \/ \* forecast_exceeds_immediate_window
        oar[trial] = "queued" /\ Goto("dropTrial") /\ after' = "pick"
     \/ oar[trial] = "ended" /\ Goto("clearTrial") /\ after' = "pick"
     \/ /\ oar[trial] \in {"queued", "finishing"}
        /\ IF expired THEN Goto("dropTrial") /\ after' = "pick"
                      ELSE Goto("watch") /\ UNCHANGED after
  /\ UNCHANGED <<oar, phase, facts, cur, inhand, trial, seen, pending, attempt, expired, lost, crashes>>

DeadlinePasses ==
  /\ pc \in {"watch", "watchTrial"}
  /\ ~expired
  /\ expired' = TRUE
  /\ UNCHANGED <<oar, phase, facts, pc, cur, inhand, trial, seen, pending, attempt, after, lost, crashes>>

DropTrial ==
  /\ pc = "dropTrial"
  /\ oar' = Cancelled(trial)
  /\ Goto("clearTrial")
  /\ UNCHANGED <<phase, facts, local, lost, crashes>>

ClearTrial ==
  /\ pc = "clearTrial"
  /\ facts' = [facts EXCEPT !.replacement_job = trial, !.replacement_status = "inactive"]
  /\ Goto(after)
  /\ UNCHANGED <<oar, phase, local, lost, crashes>>

\* Mutant: the fallback is recorded as cancelled before it is.
AdoptTrialEarlyMark ==
  /\ pc = "adopt"
  /\ facts' = [facts EXCEPT !.job = trial, !.replacement_status = "adopted",
                            !.fallback_cancelled = TRUE]
  /\ Goto("cancelFallback")
  /\ UNCHANGED <<oar, phase, local, lost, crashes>>

\* Mutant: the fallback is cancelled before the trial is made durable.
AdoptTrialUnrecorded ==
  /\ pc = "adopt"
  /\ facts' = [facts EXCEPT !.fallback_cancelled = FALSE]
  /\ Goto("cancelFallback")
  /\ UNCHANGED <<oar, phase, local, lost, crashes>>

AdoptTrial ==
  /\ pc = "adopt"
  /\ facts' = [facts EXCEPT !.job = trial, !.replacement_status = "adopted",
                            !.fallback_cancelled = FALSE]
  /\ Goto("cancelFallback")
  /\ UNCHANGED <<oar, phase, local, lost, crashes>>

CancelFallback ==
  /\ pc = "cancelFallback"
  /\ oar' = Cancelled(cur)
  /\ cur' = trial
  /\ Goto("monitor")
  /\ UNCHANGED <<phase, facts, inhand, trial, seen, pending, attempt, after, expired, lost, crashes>>

-----------------------------------------------------------------------------
(* race_queued_replacements: rescan until the fallback leaves the queue or *)
(* its forecast is near.                                                   *)

ObserveFallback ==
  /\ pc = "observe"
  /\ \E s \in StatusOf(cur) :
       Goto(IF s \in {"far", "none"} THEN "scan" ELSE "monitor")
  /\ UNCHANGED <<oar, phase, facts, local, lost, crashes>>

-----------------------------------------------------------------------------
(* The rest of the run around the race: classify_or_continue monitors the  *)
(* allocation and, from its artifacts, submits the next one, completes the *)
(* run, records a failure or raises with the phase unchanged.              *)

ClassifyTerminal ==
  /\ pc = "monitor"
  /\ oar[cur] = "ended"
  /\ \/ phase' = "prepared" /\ Goto("submit")
     \/ phase' = "complete" /\ Goto("down")
     \/ phase' = "failed" /\ Goto("down")
     \/ UNCHANGED phase /\ Goto("down")
  /\ UNCHANGED <<oar, facts, local, lost, crashes>>

Crash ==
  /\ pc # "down"
  /\ crashes < MaxCrashes
  /\ crashes' = crashes + 1
  /\ Goto("down")
  /\ lost' = IF inhand = NoJob THEN lost ELSE lost \cup {inhand}
  /\ inhand' = NoJob
  /\ UNCHANGED <<oar, phase, facts, cur, trial, seen, pending, attempt, after, expired>>

\* resume_run races a reattached allocation; _run classifies it directly.
Reattach(command) == IF command = "resume" THEN "scan" ELSE "monitor"

Restart(command) ==
  /\ pc = "down"
  /\ \/ phase = "prepared" /\ Goto("submit") /\ UNCHANGED cur
     \/ /\ phase \in {"submitted", "failed"}
        /\ cur' = facts.job
        /\ Goto(Reattach(command))
  /\ attempt' = 1
  /\ UNCHANGED <<oar, phase, facts, inhand, trial, seen, pending, after, expired, lost, crashes>>

Finished ==
  /\ phase = "complete"
  /\ pc = "down"
  /\ UNCHANGED vars

-----------------------------------------------------------------------------
Submission ==
  \/ SubmitReplied("submit", "record")
  \/ SubmitFailed("submit", "down")
  \/ SubmitReplied("trialSubmit", "trialPersist")
  \/ SubmitFailed("trialSubmit", "pick")

Race ==
  \/ ScanFallback \/ CancelStaleFallback \/ MarkFallbackCancelled
  \/ RearmFallback \/ ProbeSites \/ PickCandidate \/ CheckFallbackQueued
  \/ PersistTrial \/ WatchFallback \/ WatchTrial \/ DropTrial \/ ClearTrial
  \/ AdoptTrial \/ CancelFallback \/ ObserveFallback

Operator == Submission \/ RecordSubmission \/ Race \/ ClassifyTerminal

Next ==
  \/ Operator
  \/ DeadlinePasses
  \/ Crash
  \/ \E command \in Restarts : Restart(command)
  \/ \E j \in Jobs : JobProgress(j)
  \/ Finished

Spec == Init /\ [][Next]_vars

\* The process keeps going, a trial's clock runs, and a dead process is
\* restarted with `resume` (by the user or by the detached supervisor).
Fairness ==
  /\ WF_vars(Operator)
  /\ WF_vars(DeadlinePasses)
  /\ WF_vars("resume" \in Restarts /\ Restart("resume"))

FairSpec == Spec /\ Fairness

-----------------------------------------------------------------------------
(* Properties.                                                             *)

Facts == [job : Jobs \cup {NoJob}, replacement_status : ReplacementStatuses,
          fallback_job : Jobs \cup {NoJob}, fallback_cancelled : BOOLEAN,
          replacement_job : Jobs \cup {NoJob}]

\* Every variable has its type: the durable facts hold job ids or nothing,
\* and the local variables of the race stay within their bounds.
TypeOK ==
  /\ oar \in [Jobs -> OarStates]
  /\ phase \in Phases
  /\ facts \in Facts
  /\ pc \in Points
  /\ cur \in Jobs \cup {NoJob}
  /\ inhand \in Jobs \cup {NoJob}
  /\ trial \in Jobs \cup {NoJob}
  /\ seen \in Forecasts \cup {NotQueued}
  /\ pending \in 0 .. MaxCandidates
  /\ attempt \in 1 .. Attempts
  /\ after \in {"observe", "pick"}
  /\ expired \in BOOLEAN
  /\ lost \subseteq Jobs
  /\ crashes \in 0 .. MaxCrashes

\* The durable facts from which a restart can still reach job j.
Recorded(j) ==
  \/ j = facts.job
  \/ j = facts.replacement_job /\ facts.replacement_status = "trial"
  \/ /\ j = facts.fallback_job
     /\ facts.replacement_status = "adopted"
     /\ ~facts.fallback_cancelled

\* No live allocation is ever orphaned by the race: wherever the process
\* dies, each live job whose id reached the operator is one a later `resume`
\* finds in the durable facts and decides about (_optimize_queued_start).
Accounted ==
  \A j \in LiveJobs : j \in lost \/ j = inhand \/ Recorded(j)

\* "never retains more than one fallback plus one trial"
\* (docs/reference/grid5000-operator.md): across crashes and restarts, at
\* most two of the jobs whose ids reached the operator are live at once.
OneFallbackOneTrial == Cardinality(LiveJobs \ lost) <= 2

\* Cancelling never hits the allocation the durable state points at: a step
\* of the operator leaves the scheduler state of facts.job alone, in every
\* order of adoption, cancellation, crash and restart.
NeverCancelRecorded ==
  [][pc' # pc /\ facts.job # NoJob => oar'[facts.job] = oar[facts.job]]_vars

\* A run that completed or failed leaves nothing in the scheduler: neither a
\* trial it did not decide about nor a fallback it superseded.
NothingLiveWhenDone ==
  phase \in {"complete", "failed"} => LiveJobs \subseteq lost

\* A superseded fallback is eventually released, crashes notwithstanding.
FallbackReleased ==
  \A j \in Jobs :
    (/\ facts.replacement_status = "adopted"
     /\ facts.fallback_job = j
     /\ facts.job # j
     /\ Live(j)) ~> ~Live(j)

\* Every recorded trial is eventually adopted or abandoned.
TrialDecided ==
  (facts.replacement_status = "trial") ~> (facts.replacement_status # "trial")

\* The race settles: neither a superseded fallback nor an undecided trial is left
\* behind for good, wherever the process dies and is resumed.
RaceSettles == FallbackReleased /\ TrialDecided
=============================================================================
