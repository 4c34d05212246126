------------------------------ MODULE LabelRun ------------------------------
(***************************************************************************)
(* The labeling job of a run: scripts/grid5000/run_*_labeling.sh calls     *)
(* "label", "finalize" and, in the production lane, "publish"              *)
(* (labeling/cli.py).  The label process writes one checkpoint per batch   *)
(* in its work directory; a Hub mirror and a Trackio logger, each with a   *)
(* thread and an outbox of marker files, follow it.  Allocations are       *)
(* stopped by a signal, killed, and started again until the release is     *)
(* public.                                                                 *)
(*                                                                         *)
(* Simplifications.  A label is known by its row, and the rows of a        *)
(* selection are 1, 2, ... in its order, so a larger target extends a      *)
(* smaller one (Sampling).  A table is the set of its rows.  The run lock  *)
(* admits one allocation at a time.  All allocations have the same input   *)
(* file, so a larger target is the script called again with a larger       *)
(* SAMPLING_TARGET (the operator hands the old sample to it instead:       *)
(* RunLifecycle, TargetLabelled).                                          *)
(***************************************************************************)
EXTENDS SequencesExt, FiniteSetsExt

CONSTANTS
  Plans,        \* records [release, smoke, rows, sinks]: the runs considered
  Targets,      \* the targets a worldwide run may be raised to
  BatchSize, MaxAttempts, None,
  MaxKills, MaxFaults, MaxStops

ASSUME LabelAssumption ==
  /\ BatchSize \in Nat \ {0} /\ MaxAttempts \in Nat
  /\ {MaxKills, MaxFaults, MaxStops} \subseteq Nat
  /\ Targets \subseteq Nat
\* Only a worldwide run has a smoke lane.
ASSUME PlansAssumption ==
  /\ Plans \subseteq [release : {"v1", "v2"}, smoke : Nat, rows : Nat,
                      sinks : SUBSET {"hub", "trackio"}]
  /\ \A p \in Plans : p.release = "v1" => p.smoke = 0
\* A missing output is not an output of all rows.
Sizes == Targets \cup {p.rows : p \in Plans} \cup {p.smoke : p \in Plans}
ASSUME NoneAssumption == \A n \in Sizes : None # 1 .. n

VARIABLES
  plan,     \* the run: "v1" or "v2", rows of the smoke lane (0: none), and
            \* the outboxes it asks for: a subset of {"hub", "trackio"}
  target,   \* sampling_target, or the rows of a v1 input
  open,     \* the lane that the operator submits
  disk,     \* per lane, the work and output directories
  remote,   \* per outbox, what the Hub tree or the Trackio run holds
  release,  \* the rows of the published release
  job,      \* the running allocation
  budget    \* kills, faults and stop signals left

vars == <<plan, target, open, disk, remote, release, job, budget>>

Lanes == {"smoke", "production"}
Sinks == plan.sinks
Empty == [k \in {} |-> <<>>]
NoFiles ==
  [tables |-> <<>>, metas |-> {}, temp |-> FALSE, progress |-> 0,
   pending |-> [k \in Sinks |-> {}], uploaded |-> [k \in Sinks |-> {}],
   output |-> None, backup |-> None]
Idle == [pc |-> "down", lane |-> "smoke", target |-> 0, stop |-> FALSE, ok |-> TRUE,
         batch |-> {}, queue |-> [k \in Sinks |-> {}],
         worker |-> [k \in Sinks |-> <<"idle", 0>>]]

Init ==
  /\ plan \in Plans
  /\ target = plan.rows
  /\ open = IF plan.smoke = 0 THEN "production" ELSE "smoke"
  /\ disk = [l \in Lanes |-> NoFiles]
  /\ remote = [k \in Sinks |-> Empty]
  /\ release = {}
  /\ job = Idle
  /\ budget = [kills |-> MaxKills, faults |-> MaxFaults, stops |-> MaxStops]

At(point) == job.pc = point
Goto(point) == job' = [job EXCEPT !.pc = point]
Mine == disk[job.lane]
Put(files) == disk' = [disk EXCEPT ![job.lane] = files]
Fault == budget.faults > 0 /\ budget' = [budget EXCEPT !.faults = @ - 1]

\* The rows that a lane labels: row_limit or the target.
Selection(lane, n) == IF lane = "smoke" THEN 1 .. plan.smoke ELSE 1 .. n

-----------------------------------------------------------------------------
(* Checkpoints: batch-NNNNNN.parquet and .json, numbered from 0; the table *)
(* of batch i is tables[i + 1].                                            *)

\* _batch_indexes: complete pairs and nothing else.
Loadable(files) ==
  /\ ~files.temp
  /\ files.metas = {i - 1 : i \in DOMAIN files.tables}

\* load_all: the rows of the complete batches, none of them twice.
Complete(files) == {i \in DOMAIN files.tables : i - 1 \in files.metas}
Labelled(files) == UNION {files.tables[i] : i \in Complete(files)}
NoRepeats(files) ==
  \A i, j \in Complete(files) : i # j => files.tables[i] \cap files.tables[j] = {}

\* The rows of the selection that have no label, and the first of them.
Pending(files) == Selection(job.lane, job.target) \ Labelled(files)
FirstOf(rows) == {r \in rows : Cardinality({s \in rows : s < r}) < BatchSize}
\* Mutant: the labelled rows are not left out.
NextBatchUnfiltered(files) == FirstOf(Selection(job.lane, job.target))
NextBatch(files) == FirstOf(Pending(files))

-----------------------------------------------------------------------------
(* The operator and the scheduler.                                         *)

\* A worldwide run is resumed with a larger target.
Extend(t) ==
  /\ plan.release = "v2" /\ t > target
  /\ target' = t
  /\ UNCHANGED <<plan, open, disk, remote, release, job, budget>>

\* The wrapper takes the run lock; mirror and logger enqueue what an earlier
\* allocation left, except markers that are known to be uploaded.
StartJob ==
  /\ At("down") /\ release # 1 .. target
  /\ LET left == [k \in Sinks |-> disk[open].pending[k] \ disk[open].uploaded[k]]
     IN /\ job' = [Idle EXCEPT !.pc = "load", !.lane = open, !.target = target, !.queue = left]
        /\ disk' = [disk EXCEPT ![open].pending = left]
  /\ UNCHANGED <<plan, target, open, remote, release, budget>>

\* SIGINT or SIGTERM: StopController notes it.
Signal ==
  /\ job.pc \in {"load", "next", "generate", "table", "meta", "progress", "enqueue"}
  /\ budget.stops > 0 /\ ~job.stop
  /\ job' = [job EXCEPT !.stop = TRUE]
  /\ budget' = [budget EXCEPT !.stops = @ - 1]
  /\ UNCHANGED <<plan, target, open, disk, remote, release>>

\* SIGKILL after the grace period, walltime, node failure: threads included.  Without
\* an exit code, classify_terminal takes a lane with an output for complete.
Kill ==
  /\ ~At("down") /\ budget.kills > 0
  /\ budget' = [budget EXCEPT !.kills = @ - 1]
  /\ job' = Idle
  /\ open' = IF Mine.output # None THEN "production" ELSE open
  /\ UNCHANGED <<plan, target, disk, remote, release>>

-----------------------------------------------------------------------------
(* label                                                                   *)

\* An exception ends the process and leaves the run to the next allocation.
Fails == job' = [job EXCEPT !.pc = "close", !.ok = FALSE]

\* completed_ids: the checkpoints load and belong to the input.
LoadCheckpoints ==
  /\ At("load")
  /\ IF /\ Loadable(Mine) /\ NoRepeats(Mine)
        /\ Labelled(Mine) \subseteq Selection(job.lane, job.target)
       THEN Goto("next")
       ELSE Fails
  /\ UNCHANGED <<plan, target, open, disk, remote, release, budget>>

\* progress.json counts what the process has completed.
Counted(files) == [files EXCEPT !.progress = Cardinality(Labelled(files))]

\* The stop request is honoured between batches only.  A v2 run counts once more
\* when it leaves the loop.
NextStep ==
  /\ At("next")
  /\ IF Pending(Mine) = {} \/ job.stop
       THEN /\ job' = [job EXCEPT !.pc = "close", !.ok = Pending(Mine) = {}]
            /\ IF plan.release = "v2" THEN Put(Counted(Mine)) ELSE UNCHANGED disk
       ELSE /\ job' = [job EXCEPT !.pc = "generate", !.batch = NextBatch(Mine)]
            /\ UNCHANGED disk
  /\ UNCHANGED <<plan, target, open, remote, release, budget>>

\* What parse_label_response makes of an answer: a label, evidence that is not
\* in the sentence, or nothing usable.
Answers == {"valid", "evidence", "invalid"}
\* _clear_invalid_evidence: only the evidence was wrong.
Cleared(answer) == answer = "evidence"
\* BoundedRepair.call: the first valid answer of 1 + MaxAttempts, or the last
\* one without its evidence.
Repaired(answers) ==
  \/ \E k \in DOMAIN answers : answers[k] = "valid"
  \/ Cleared(answers[MaxAttempts])

\* One row without a label fails its batch and the process.
GenerateLabels ==
  /\ At("generate") /\ plan.release = "v1"
  /\ \E repaired \in {Repaired(a) : a \in [0 .. MaxAttempts -> Answers]} :
       IF repaired
         THEN Goto("table") /\ Put([Mine EXCEPT !.temp = TRUE]) /\ UNCHANGED budget
         ELSE Fails /\ Fault /\ UNCHANGED disk
  /\ UNCHANGED <<plan, target, open, remote, release>>

\* v2 asks once per row; an answer without both token scores fails the batch.
GenerateScores ==
  /\ At("generate") /\ plan.release = "v2"
  /\ \/ Goto("table") /\ Put([Mine EXCEPT !.temp = TRUE]) /\ UNCHANGED budget
     \/ Fails /\ Fault /\ UNCHANGED disk
  /\ UNCHANGED <<plan, target, open, remote, release>>

\* The number of the next batch (batch_index).
BatchIndex(files) == Cardinality(files.metas)

\* write_batch refuses an index that exists; the table is renamed into place.
InstallTable ==
  /\ At("table")
  /\ IF BatchIndex(Mine) < Len(Mine.tables)
       THEN Fails /\ Put([Mine EXCEPT !.temp = FALSE])
       ELSE /\ Goto("meta")
            /\ Put([Mine EXCEPT !.temp = FALSE, !.tables = Append(@, job.batch)])
  /\ UNCHANGED <<plan, target, open, remote, release, budget>>

InstallMeta ==
  /\ At("meta")
  /\ Goto("progress")
  /\ Put([Mine EXCEPT !.metas = @ \cup {BatchIndex(Mine)}])
  /\ UNCHANGED <<plan, target, open, remote, release, budget>>

\* An exception in write_batch.  If the description was not written the table
\* is taken back.  An fsync of the directory that fails after a rename leaves
\* half a batch: the table alone, or the description alone.
WriteBatchFails ==
  /\ At("meta") /\ Fault /\ Fails
  /\ \/ Put([Mine EXCEPT !.tables = Front(@)])
     \/ UNCHANGED disk
     \/ Put([Mine EXCEPT !.tables = Front(@), !.metas = @ \cup {BatchIndex(Mine)}])
  /\ UNCHANGED <<plan, target, open, remote, release>>

WriteProgress ==
  /\ At("progress")
  /\ Goto("enqueue")
  /\ Put(Counted(Mine))
  /\ UNCHANGED <<plan, target, open, remote, release, budget>>

\* enqueue of mirror and logger: a marker file, then the queue.
Marked(i) ==
  LET fresh == {k \in Sinks : i \notin Mine.pending[k] \cup Mine.uploaded[k]}
      With(f) == [k \in Sinks |-> IF k \in fresh THEN f[k] \cup {i} ELSE f[k]]
  IN /\ Put([Mine EXCEPT !.pending = With(Mine.pending)])
     /\ job' = [job EXCEPT !.pc = "next", !.queue = With(job.queue)]

\* Mutant: the marker of the batch to come.
EnqueueAhead ==
  /\ At("enqueue") /\ Marked(BatchIndex(Mine))
  /\ UNCHANGED <<plan, target, open, remote, release, budget>>

Enqueue ==
  /\ At("enqueue") /\ Marked(BatchIndex(Mine) - 1)
  /\ UNCHANGED <<plan, target, open, remote, release, budget>>

\* close drains the queues for 30 seconds at most; what is left stays pending.
\* The script finalizes only after a label command that was not interrupted.
Close ==
  /\ At("close")
  /\ job' = IF job.ok THEN [Idle EXCEPT !.pc = "finalize", !.lane = job.lane, !.target = job.target]
            ELSE Idle
  /\ UNCHANGED <<plan, target, open, disk, remote, release, budget>>

\* The drained logger cannot finish its Trackio run: "label" fails although
\* all rows may be labelled.
FinishFails ==
  /\ At("close") /\ Fault
  /\ "trackio" \in Sinks /\ Mine.pending["trackio"] = {} /\ Mine.uploaded["trackio"] # {}
  /\ job' = Idle
  /\ UNCHANGED <<plan, target, open, disk, remote, release>>

-----------------------------------------------------------------------------
(* The threads of the mirror and the logger.                               *)

Stage(k) == job.worker[k][1]
Item(k) == job.worker[k][2]
Worker(k, stage, i) == [job EXCEPT !.worker[k] = <<stage, i>>]

\* The path or step an item is written to: the mirror's namespace is the run,
\* Trackio has a run per lane.
Key(k, lane, i) == IF k = "hub" THEN <<"run", i>> ELSE <<lane, i>>

\* A commit replaces the files of one path.
Written(tree, path, table) ==
  [p \in DOMAIN tree \cup {path} |-> IF p = path THEN table ELSE tree[p]]

\* Mutant: the marker is moved before the commit.
SendMarked(k) ==
  /\ Stage(k) = "idle" /\ job.queue[k] # {}
  /\ LET i == Min(job.queue[k])
     IN /\ job' = [Worker(k, "sent", i) EXCEPT !.queue[k] = @ \ {i}]
        /\ Put([Mine EXCEPT !.uploaded[k] = @ \cup {i}])
  /\ UNCHANGED <<plan, target, open, remote, release, budget>>

\* _upload_marker: the files as they were enqueued, in one commit.
Send(k) ==
  /\ Stage(k) = "idle" /\ job.queue[k] # {}
  /\ LET i == Min(job.queue[k])
     IN /\ job' = [Worker(k, "sent", i) EXCEPT !.queue[k] = @ \ {i}]
        /\ remote' = [remote EXCEPT ![k] = Written(@, Key(k, job.lane, i), Mine.tables[i + 1])]
  /\ UNCHANGED <<plan, target, open, disk, release, budget>>

\* The upload fails: the marker waits for the next allocation.
SendFails(k) ==
  /\ Stage(k) = "idle" /\ job.queue[k] # {} /\ Fault
  /\ job' = [job EXCEPT !.queue[k] = @ \ {Min(@)}]
  /\ UNCHANGED <<plan, target, open, disk, remote, release>>

MarkUploaded(k) ==
  /\ Stage(k) = "sent"
  /\ job' = Worker(k, "marked", Item(k))
  /\ Put([Mine EXCEPT !.uploaded[k] = @ \cup {Item(k)}])
  /\ UNCHANGED <<plan, target, open, remote, release, budget>>

DropMarker(k) ==
  /\ Stage(k) = "marked"
  /\ job' = Worker(k, "idle", 0)
  /\ Put([Mine EXCEPT !.pending[k] = @ \ {Item(k)}])
  /\ UNCHANGED <<plan, target, open, remote, release, budget>>

-----------------------------------------------------------------------------
(* finalize and publish                                                    *)

\* Exactly one label per row of the selection.
OneEach ==
  /\ Loadable(Mine) /\ NoRepeats(Mine)
  /\ Labelled(Mine) = Selection(job.lane, job.target)

\* finalize_labeled_dataset refuses an existing output.  The staged directory
\* is renamed into place.
FinalizeV1 ==
  /\ At("finalize") /\ plan.release = "v1"
  /\ IF OneEach /\ Mine.output = None
       THEN Goto("publish") /\ Put([Mine EXCEPT !.output = Labelled(Mine)])
       ELSE job' = Idle /\ UNCHANGED disk
  /\ UNCHANGED <<plan, target, open, remote, release, budget>>

\* Mutant: v2 refuses it too.
FinalizeV2Refusing ==
  /\ At("finalize") /\ plan.release = "v2"
  /\ IF OneEach /\ Mine.output = None THEN Goto("install") ELSE job' = Idle
  /\ UNCHANGED <<plan, target, open, disk, remote, release, budget>>

\* finalize_v2_dataset replaces one.
FinalizeV2 ==
  /\ At("finalize") /\ plan.release = "v2"
  /\ IF OneEach THEN Goto("install") ELSE job' = Idle
  /\ UNCHANGED <<plan, target, open, disk, remote, release, budget>>

\* Mutant: the previous output is deleted, not moved.
SetAsideDeleted ==
  /\ At("install") /\ Mine.output # None
  /\ Put([Mine EXCEPT !.output = None])
  /\ UNCHANGED <<plan, target, open, remote, release, job, budget>>

SetAside ==
  /\ At("install") /\ Mine.output # None
  /\ Put([Mine EXCEPT !.output = None, !.backup = Mine.output])
  /\ UNCHANGED <<plan, target, open, remote, release, job, budget>>

\* The staged directory is renamed into place, ...
InstallOutput ==
  /\ At("install") /\ Mine.output = None
  /\ Goto("remove")
  /\ Put([Mine EXCEPT !.output = Labelled(Mine)])
  /\ UNCHANGED <<plan, target, open, remote, release, budget>>

\* ... the backup is removed ...
RemoveBackup ==
  /\ At("remove")
  /\ Goto("validate")
  /\ Put([Mine EXCEPT !.backup = None])
  /\ UNCHANGED <<plan, target, open, remote, release, budget>>

\* validate_labeled_publication, validate_v2_publication: the closed layout
\* of a finalization, its hashes and its counts.
Valid(output) == output # None

\* ... and the output is validated in its place.  The smoke lane ends here: the operator
\* saves its output and opens the production lane.
ValidateOutput ==
  /\ At("validate") /\ Valid(Mine.output)
  /\ IF job.lane = "production" THEN Goto("publish") ELSE job' = Idle
  /\ open' = "production"
  /\ UNCHANGED <<plan, target, disk, remote, release, budget>>

\* A rename, the removal or the validation fails, and so does the job, whose exit code
\* counts more than an output.
FinalizeFails ==
  /\ job.pc \in {"finalize", "install", "remove", "validate"} /\ Fault
  /\ job' = Idle
  /\ UNCHANGED <<plan, target, open, disk, remote, release>>

\* Mutant: the rows at hand are published, finalized or not.
PublishEarly ==
  /\ job.pc \in {"finalize", "publish"} /\ job.lane = "production"
  /\ release' = Selection(job.lane, target)
  /\ Goto("readback")
  /\ UNCHANGED <<plan, target, open, disk, remote, budget>>

\* publish_labeled_dataset: one commit, then the read-back.
Publish ==
  /\ At("publish") /\ Valid(Mine.output)
  /\ release' = Mine.output
  /\ Goto("readback")
  /\ UNCHANGED <<plan, target, open, disk, remote, budget>>

PublishFails ==
  /\ job.pc \in {"publish", "readback"} /\ Fault
  /\ job' = Idle
  /\ UNCHANGED <<plan, target, open, disk, remote, release>>

ReadBack ==
  /\ At("readback") /\ Valid(release)
  /\ job' = Idle
  /\ UNCHANGED <<plan, target, open, disk, remote, release, budget>>

-----------------------------------------------------------------------------
Main ==
  \/ LoadCheckpoints \/ NextStep \/ GenerateLabels \/ GenerateScores \/ InstallTable \/ InstallMeta
  \/ WriteProgress \/ Enqueue \/ Close
  \/ FinalizeV1 \/ FinalizeV2 \/ SetAside \/ InstallOutput \/ RemoveBackup
  \/ ValidateOutput \/ Publish \/ ReadBack

Threads == \E k \in Sinks : Send(k) \/ MarkUploaded(k) \/ DropMarker(k)

Done == At("down") /\ release = 1 .. target /\ UNCHANGED vars

Next ==
  \/ \E t \in Targets : Extend(t)
  \/ StartJob \/ Signal \/ Kill
  \/ Main \/ WriteBatchFails \/ FinishFails \/ FinalizeFails \/ PublishFails
  \/ Threads \/ \E k \in Sinks : SendFails(k)
  \/ Done

Spec == Init /\ [][Next]_vars
\* Allocations are submitted until the release is public, and a running one
\* goes on; faults, kills and stop signals are finitely many.
FairSpec == Spec /\ WF_vars(StartJob) /\ WF_vars(Main)

-----------------------------------------------------------------------------
(* Properties.                                                             *)

\* One type invariant for the whole state.
TypeOK ==
  /\ plan \in Plans /\ target \in Targets \cup {plan.rows}
  /\ \A l \in Lanes :
       /\ disk[l].metas \subseteq 0 .. Len(disk[l].tables)
       /\ \A k \in Sinks : disk[l].pending[k] \cup disk[l].uploaded[k] \subseteq disk[l].metas
       /\ \A i \in DOMAIN disk[l].tables : Cardinality(disk[l].tables[i]) \in 1 .. BatchSize
  /\ {open, job.lane} \subseteq Lanes /\ {job.stop, job.ok} \subseteq BOOLEAN
  /\ \A k \in Sinks : Stage(k) \in {"idle", "sent", "marked"}
  /\ release \subseteq 1 .. target

\* However often the label process is stopped, killed and started again, no
\* row is labelled in two batches, and progress.json never counts a row whose
\* batch is not complete (runner.run, write_batch, write_progress).
LabelledOnce ==
  \A l \in Lanes :
    /\ NoRepeats(disk[l])
    /\ disk[l].progress <= Cardinality(Labelled(disk[l]))

\* A marker that says "uploaded" is true: the Hub tree, or the Trackio run,
\* has this batch of the production lane, and not the batch of the smoke lane
\* that has the same number and, on the Hub, the same path (_upload_marker).
UploadedIsRemote ==
  \A k \in Sinks : \A i \in disk["production"].uploaded[k] :
    LET key == Key(k, "production", i)
    IN key \in DOMAIN remote[k] /\ remote[k][key] = disk["production"].tables[i + 1]

\* A finalized output survives the finalization that replaces it: at every
\* step it is in its place, set aside, or contained in its successor.
Kept(files) == IF files.output # None THEN files.output ELSE files.backup
OutputKept ==
  [][\A l \in Lanes : Kept(disk[l]) # None =>
       Kept(disk'[l]) # None /\ Kept(disk[l]) \subseteq Kept(disk'[l])]_vars

\* The job implements the abstract book: rows are labelled in order and batch
\* by batch, a label is never taken back, and the public release only grows
\* and has nothing but labelled rows.
Book == INSTANCE LabelBook WITH
  goal <- target, done <- Labelled(disk["production"]), released <- Cardinality(release)
BookSpec == Book!Spec

\* Two states no allocation leaves.  A process killed inside write_batch, or
\* an fsync that fails in it, leaves half a batch or a temporary file, which
\* every later load_all refuses; a v1 output that is installed and, after a
\* kill or a failed commit, not published makes every later
\* finalize_labeled_dataset refuse.
Disturbed == budget.kills < MaxKills \/ budget.faults < MaxFaults
Wedged == At("down") /\ Disturbed /\ \E l \in Lanes : ~Loadable(disk[l])
Refused ==
  /\ At("down") /\ Disturbed /\ plan.release = "v1"
  /\ disk["production"].output # None /\ release # 1 .. target

\* Unless it reaches one of these, a run is published with all rows of its
\* target, stopped, killed, faulty and extended as it may be.
RunPublished == []<>(release = 1 .. target \/ Wedged \/ Refused)
=============================================================================
