# TLA+ models of osm-polygon-wikidata-sentence-relevance

The program builds a dataset of Wikipedia sentences about OSM polygons and
labels them with a local language model.  The work runs as short allocations on
Grid'5000 (an OAR cluster behind SSH); a local *operator* drives one *run*
across many allocations, sites, crashes and restarts.  This directory models
the parts of the program whose correctness depends on order, failure and
concurrency, checks them with TLC on small instances, and proves the most
important results with TLAPS for every instance.

Paths below are relative to `src/osm_polygon_sentence_relevance/` unless they
start with `scripts/` or `docs/`.

## 1. Inventory

| Component | State it keeps | Operations | Talks to | What makes it correct |
|---|---|---|---|---|
| Durable run state (`operator/state.py`) | `state.json`, `events.jsonl`, `state.lock` | `load_or_create`, `transition` (compare-and-set on the phase), `append_event` | every operator command | no torn file, no lost acknowledged update, lock always released |
| Run lifecycle (`operator/cli.py`, `controller.py`, `resume.py`, `continuation.py`, `classification.py`, `recovery.py`, `split_finalization.py`, `llama_server.py`) | phase and facts; remote root: checkpoints, progress, manifest, exit files, marker | `run`, `resume`, prepare, submit, monitor, classify, publish, finalize | state, OAR, Hub, remote root | COMPLETE means published; stages in order; no live job abandoned; a failure recovered once |
| Earliest-start race (`operator/earliest_start.py`, `cli._optimize_queued_start`) | facts `replacement_*`, `fallback_*` | scan, submit trial, watch, adopt, cancel | OAR at several sites | one fallback plus one trial; the recorded job is never cancelled; no orphan |
| Detached supervisor (`operator/supervisor.py`) | pid file, log | resume until a terminal phase | `resume` | it makes progress and stops only where the run stops |
| OAR and SSH clients (`operator/oar.py`, `ssh.py`, `job_monitor.py`) | none | submit, status, cancel, with retries | cluster | a retry must not repeat an effect |
| Managed storage (`operator/storage.py`, `quota.py`) | `.operator-managed.json` markers | cleanup of terminal roots | remote root | never removes a root that is needed |
| Checkpoint relay (`operator/relay*.py`, `resume_bundle.py`, `split_relay.py`) | bundle in transit | pull, verify, install | two sites | installs only a complete, verified bundle |
| Sites (`operator/sites*.py`, `site_discovery.py`) | none | ranking of sites | APIs | deterministic, only compatible sites |
| Shard checkpoints (`application/_checkpoint/`) | partial batches, progress, active and staged shard directories, lock | create, append batch, publish, quarantine | streaming driver | a published shard is complete; progress never names a missing batch |
| Streaming driver (`scripts/streaming/`) | ledger of shards offloaded to the Hub | shard loop, offload, finalization | checkpoints, Hub | a shard is deleted locally only when verified on the Hub |
| Streaming finalization (`scripts/streaming/*finalization.py`, `finalized_offload.py`) | `state.json`, SQLite ledger, materialized cache, artifacts on the staging branch | stage, plan, retain, compact, materialize, write | checkpoints, Hub, operator | killed anywhere, it delivers the table of one pass over everything |
| Resumable sampling (`labeling/v2_*sampling.py`) | offsets, candidates and counters of the ledger | sample, extend | streaming finalization, labeling | a larger target extends the smaller one |
| Labeling runner (`labeling/runner.py`, `checkpoint*.py`, `repair.py`, `v2_*`, `cli.py`) | two files per batch, `progress.json`, outbox markers of the Hub mirror and of Trackio | batch loop, mirror, repair, stop, finalize, publish | llama-server, Hub, Trackio | every row labelled once and in order; a marker "uploaded" is true |
| Sentence finalization, joins, ingestion (`sentences/`, `joins/`, `ingestion/`) | none | pure table transformations | pipeline | every sentence of a polygon once, counted as often as it stands |
| Build command (`application/cli.py`, `pipeline.py`, `_checkpoint/inventory.py`) | inventory, heartbeat, checkpoints, quarantine | reconcile, recover, reuse, segment, publish | input root, Hub, export | the export is what the inventory hashed |
| Export and publication (`output/`, `publishing/`, `labeling/publication.py`) | staged directory, backup, Hub commit | stage, swap, commit | Hub | all or nothing; the old output survives |
| Cards, plots, contracts | none | rendering, schemas | | (not modelled) |

What is hard here:

* **Crash between an effect and its record.** Every remote effect (`oarsub`,
  `oardel`, a Hub commit) precedes the durable fact that names it, and the
  process can die in between.
* **Restart from facts alone.** `run`, `resume` and the supervisor rebuild the
  whole situation from `state.json` and remote evidence, by different paths.
* **Stale evidence.** A manifest, a status, an expected phase or a forecast read
  earlier is used later.
* **Retries.** `SshClient` repeats commands whose reply was lost.
* **Boundaries of allocations.** A job can end at every point of its payload, in
  any OAR state, and OAR can forget it.
* **Threads and outboxes.** The Hub mirror and the Trackio logger follow the
  label process with marker files, after a restart from the markers alone.
* **Inputs that move.** Targets are raised, inputs and code change between two
  runs, and local inputs during one, while checkpoints of the past are reused.
* **Liveness.** The supervisor has to reach a terminal phase from every state a
  dead process leaves behind.

`PROJECT.json` lists the hazards one by one, each at its line.

## 2. Modules

| Module | Models | Kind |
|---|---|---|
| `QueueRace` | the earliest-start race and the run around it | specification |
| `QueueRaceProofs` | inductive invariant and six theorems | proofs |
| `StateStore` | `operator/state.py` at system-call granularity | specification |
| `RunRegister` | what `StateStore` promises: an atomic compare-and-set register and log | abstract specification |
| `StateStoreProofs` | types, durability, and that `StateStore` implements `RunRegister` | proofs |
| `RunLifecycle` | one run from `run` to COMPLETE, with jobs, evidence, crashes, restarts, supervisor | specification |
| `RunLifecycleProofs` | inductive invariant and seven theorems | proofs |
| `ShardStream` | the streaming build of shards: download, partial batches, publication, upload, eviction, ledger | specification |
| `ShardStreamProofs` | types, the ledger, the eviction, counted batches, resumable leftovers | proofs |
| `Sorting` | a set as a sorted sequence | operators |
| `SentenceTable` | `sentences/finalization.py`: sentences, neighbours, counts, report | operators |
| `Sampling` | `labeling/v2_sampling.py`: schedule, order and selection | operators |
| `SampleLedger` | streaming finalization and resumable sampling | specification, extends the two above |
| `SentenceTableProofs` | what sorting and finalization compute, and that finalizing shard by shard is finalizing the whole | lemmas |
| `SampleLedgerProofs` | types and inductive invariants: the ledger covers the best rows, the samples of a run are nested, each is the one of a single pass | proofs |
| `Joins` | `joins/` and segmentation of a shard's tables into occurrences | operators |
| `Build` | the build command with inventory, checkpoints, export and publication | specification, extends `Joins` and `SentenceTable` |
| `BuildProofs` | types, what becomes of checkpoints, the swap of the output, what an export is made of, what its rows count and that they validate | proofs |
| `LabelRun` | the labeling job with its lanes, outboxes, finalization and publication | specification |
| `LabelRunProofs` | inductive invariant, four safety theorems, and that `LabelRun` implements `LabelBook` | proofs |
| `LabelBook` | what `LabelRun` promises: rows labelled once and in order, releases that grow | abstract specification |
| `MCQueueRace`, `MCRunLifecycle`, `MCShardStream`, `MCSampleLedger`, `MCLabelRun`, `MCBuild` | model values, inputs, bounds | instances |

How they fit together.  `StateStore` implements `RunRegister`, by a check and by
a proof; that is why `RunLifecycle` and `QueueRace` may treat a durable
transition as one step.  `RunLifecycle` leaves the race out because adoption
changes which job is recorded, not the phase; `QueueRace` keeps only as much of
the lifecycle as creates and ends allocations.  The payloads that
`RunLifecycle` sees only by the evidence they leave are the other
specifications: `ShardStream` (split), `SampleLedger` (finalization), `LabelRun`
(label).  Each starts where the one before ends: the whole checkpoints of
`ShardStream` are the input of `SampleLedger`, whose `SamplesNested` is the
reason why a larger target only extends the rows of `LabelRun`, which implements
`LabelBook`, by a check and by a proof.  `Build` is the same computation as one command over a local or a
Hub input.

### QueueRace

State: `oar` is the scheduler; `phase` and `facts` are durable (SUBMITTED,
QUEUED and RUNNING are merged, the race does not tell them apart); `pc` and the
other lower-case variables are the local variables of
`_optimize_queued_start`, `attempt_immediate_replacement` and
`race_queued_replacements`; `lost` and `crashes` are history.  Each action is
the code between two remote calls or durable writes:

| Action | Code |
|---|---|
| `SubmitReplied`, `SubmitFailed` | `OarClient.submit` under `SshClient._run_with_retries` |
| `RecordSubmission` | the transition in `Controller.submit` |
| `ScanFallback`, `CancelStaleFallback`, `MarkFallbackCancelled`, `RearmFallback`, `ProbeSites` | `cli._optimize_queued_start`, before the candidates |
| `PickCandidate`, `CheckFallbackQueued`, `PersistTrial` | one candidate of `attempt_immediate_replacement` |
| `WatchFallback`, `WatchTrial`, `DeadlinePasses`, `DropTrial`, `ClearTrial`, `AdoptTrial`, `CancelFallback` | its polling loop and the callbacks |
| `ObserveFallback` | the rescan loop `race_queued_replacements` |
| `ClassifyTerminal` | `classify_or_continue`, abstracted to its four outcomes |
| `Crash`, `Restart` | death of the process; `resume` (races again) or `run` (does not) |

### StateStore and RunRegister

Two files, their temporary files, what of them is on disk (`stable`, `flushed`,
`solid`), the flock, and per process a program counter inside
`load_or_create`, `transition` or `append_event`.  Facts are one unique token
per operation, so a lost update is a missing token.  `RunRegister` is the state and
the log with no files and no lock: a client asks (`asked`, the arguments of its call),
and one step compares the phase it expects with the register's and changes it.  `SystemCallFails` is any
`OSError` or Ctrl-C in the try block, `KillProcess` a SIGKILL, `PowerLoss` a
power failure (an unsynchronised rename is kept or undone, and a kept one of
unsynchronised bytes is torn).

### RunLifecycle

State: the durable phase and facts, the list of jobs with their OAR state and
exit file, the Hub, and the remote root (shards left, label progress and
manifest per lane, finalization outputs, llama-server, marker).  One `pc` walks
through `_run`, `resume_run`, `classify_or_continue`, `apply_classification`
and `finalize_split_checkpointed`; a call that raises goes to `down` with the
phase unchanged.  `SplitJobEnds`, `FinalJobEnds`, `BuildJobEnds` and
`LabelJobEnds` are the payload scripts, by the evidence they leave.
`SupervisorTurn` is one turn of `supervise`.  `Classify` and the operators
`SplitClass` and `LabelClass` keep every branch of the classification tables.

### ShardStream

State: the work directory (`inbox`, `partial`, `active`, `ledger`), which
outlives allocations; the Hub's staging branch; the nonblocking flock; per
driver a program counter and the local variables of `process_shard` and
`process_single_shard`.  A checkpoint is the set of input files it was computed
from and the batches it holds; a partial directory is what `progress.json`
says, the batch files present, and whether there is a temporary file.  `Sizes`
gives the number of section batches that a shard yields from each set of its
input files; it is any positive number (a shard without sections is left out).

| Action | Code |
|---|---|
| `Start`, `PickShard` | `main`, `StreamDriver.__init__` |
| `InspectRemote` | the head of `process_shard` |
| `PrepareInbox`, `CleanInbox`, `BeginFetch`, `EndFetch`, `FetchFails` | `_download_shard`, `download_many` with one thread per file |
| `DiscoverShard` | `discover_shards` on the inbox |
| `AcquireLock`, `ReuseActive`, `HashSources`, `LoadPartial`, `CreatePartial`, `SegmentBatch`, `PublishShard`, `ValidatePublished`, `DiscardPartial` | `process_single_shard` |
| `InstallBatch`, `BeginProgress`, `InstallProgress`, `SyncProgress`, `ProgressFails` | `append_partial_batch`, `_write_progress` and the two atomic writers |
| `CheckActive`, `Upload` | `load_shard_checkpoint`, `upload_and_verify` |
| `EvictInbox`, `EvictActive`, `EvictPartial` | `_evict_local_shard_state`, each directory entry by entry |
| `RecordVerified`, `Fail` | `_write_state` on the normal and on the exceptional path |
| `CallFails`, `Kill` | an exception inside the try block; the end of the process |

Two drivers can overlap because a run whose job id was lost is submitted again
(see `QueueRace` and `RunLifecycle`), and only `process_single_shard` is under
the lock.

### SampleLedger, Sampling and SentenceTable

State: the input (`world`: the sentence occurrences of each shard, the cell and
area bucket of each polygon), the artifacts staged on the Hub, `state.json`, the
SQLite ledger `db` (strata, offsets, candidates and counters), the materialized
cache, the running allocation, and the outputs delivered and accepted.  A SQLite
transaction is one step, and a kill falls between any two.

| Action | Code |
|---|---|
| `RaiseTarget` | `sync_sampling_target` of the operator |
| `StartJob`, `Persist`, `AcceptOutput` | the job script with `_finalize_persist.sh`, and `finalize_split_checkpointed`, which takes the first output |
| `StreamShards` | `finalize_streamed_run`, the run without a target |
| `OpenState`, `OpenLedger`, `CheckTarget`, `WriteState` | the head of `select_v2_shards_resumable`, including what it refuses |
| `StageShard`, `Upload` | `finalize_v2_resumable.materialize`, `FinalizedArtifactOffloader` |
| `PlanShard`, `BuildPlan`, `LoadHeaps`, `RetainBatch`, `FinishRetaining`, `Compact` | `_PersistentPlanner`, `_build_plan`, `_retain_shard` |
| `MaterializeShard`, `DescribeCache`, `WriteSelected` | `_materialize_heaps`, `_write_materialized_rows`, `_write_selected` |

`Sampling` and `SentenceTable` are pure: the weighted schedule and the selection
of `select_v2_rows`, and the duplicates, representative, neighbours and counts of
`finalize_sentence_dataset`.  They are at once parts of the model (each shard is
finalized with them) and the reference it is compared with (all occurrences in
one table).

That the two can agree is a contract of the input, not a fact of the code
(scripts/streaming/finalization.py:8-12): the id of every polygon begins with the key of
its shard, and the shards come in the order of their keys.  `Namespaced` states
what follows of it, that the polygons of an earlier shard come before those of a
later one.  `finalize_streamed_run` verifies the prefix and the order while it writes;
the sampling path relies on the same contract without a check of its own.  (Keys
sort like the ids that begin with them as long as no key is a proper prefix of
another, which the "-latest" at the end of every extract's name prevents.)

### LabelRun and LabelBook

State, per lane: the tables (sets of rows) and metadata files of the batches, `progress.json`,
the markers pending and uploaded of each outbox, the output and its backup; what
the Hub tree and the Trackio run hold; the public release; the running
allocation with its two threads; budgets for kills, faults and stop signals.

| Action | Code |
|---|---|
| `StartJob`, `LoadCheckpoints`, `Fails` | `label` in `labeling/cli.py`, its stores, threads and error exit |
| `GenerateLabels`, `GenerateScores` | `LabelingRunner.run` with `BoundedRepair`; `V2LogitRunner.run` |
| `InstallTable`, `InstallMeta`, `WriteBatchFails`, `WriteProgress`, `Enqueue` | `write_batch`, `write_progress`, `CheckpointMirror.enqueue` |
| `Send`, `SendFails`, `MarkUploaded`, `DropMarker`, `Close`, `FinishFails` | the worker threads of the mirror and of the logger |
| `FinalizeV1`, `FinalizeV2`, `SetAside`, `InstallOutput`, `RemoveBackup`, `ValidateOutput`, `FinalizeFails` | `finalize_labeled_dataset`, `finalize_v2_dataset` up to the validation it returns |
| `Publish`, `PublishFails`, `ReadBack` | `publish_labeled_dataset` |
| `Signal`, `Kill`, `Extend` | `StopController`, the walltime, a larger target |

`open` is the lane that the operator submits (`label_lane` of the facts).  It goes
from smoke to production when the smoke allocation is classified as complete
(`apply_classification`): it validated its output, or it was killed with the output in
place and left no exit code.  A finalization that fails after the rename
(`FinalizeFails`) leaves an exit code and the smoke lane open, with its output there:
the next allocation sets it aside.

`LabelBook` has three variables and three actions: the target grows, the next
one to `BatchSize` rows are labelled, a release contains labelled rows only and
never shrinks.

### Build and Joins

`Tables` gives the rows of every version of every shard, small relations with
the cases that matter: a document linked to two polygons, a Wikivoyage pair that
arrives later and leaves again, the older column layout, orphans.  `Joins` computes their
sentence occurrences or finds them unsound.  State of `Build`: the input and the
code of the next command, checkpoints, quarantine, `inventory.json`, heartbeat,
the output with backup and leftovers, the published dataset, and the running
command.  `job.paired` is what the command keeps of the paths `discover_shards`
found: the shards with a Wikivoyage pair.  Of the others it hashes, joins and
verifies the core files only (`Seen`), whatever joins later, and it aborts when a
file it found is gone (`Readable`).

| Action | Code |
|---|---|
| `Start`, `Discover`, `Hash`, `Reconcile`, `Recover`, `Recovered`, `Retire` | the head of `_run_pipeline_locked` and `inventory.py` |
| `Reuse`, `Requeue`, `Segment`, `VerifyAndPublish`, `Publish`, `WriteInventory`, `Collect` | its shard loop and `storage.py` |
| `Export`, `Refuse`, `MoveAside`, `Install`, `DropBackup`, `KeepBackup`, `InstallFails`, `DropFails` | `export_finalized_dataset` and `atomic.py` |
| `Finish`, `PublishExport`, `AnswerLost` | `main`, `publish_export_directory` |
| `Kill`, `Damage`, `ChangeInput`, `ChangeCode` | the environment |

Assumed: different shards hold different polygons.  Where two shards share a
polygon and a document, the previous and next sentence of a row could be its own
twin.

## 3. Runs

| Run | Result | Question |
|---|---|---|
| `QueueRace_resume` | pass | two crashes anywhere, lost replies and retries, restart by `resume`: safety of the race and its liveness |
| `QueueRace_run` | violation | is the documented "one fallback plus one trial" kept when `run` restarts the process? |
| `StateStore_durable` | pass | two processes, a kill, a power failure: durability, refinement of `RunRegister`, lock release |
| `RunLifecycle_safety` | pass | every kind of run, `run` and `resume`, crashes: what COMPLETE means, the order of the stages, live jobs, roots |
| `RunLifecycle_supervised` | pass | with the supervisor: ended allocations are classified, FINALIZING is left |
| `RunLifecycle_validated` | violation | is every phase the supervisor retries eventually left? |
| `RunLifecycle_grown_target` | violation | has a completed run labelled the target it was last given? |
| `ShardStream_resume` | pass | overlapping allocations, kills and failing calls anywhere: ledger, leftovers, eviction, every shard recorded |
| `ShardStream_inputs` | violation | does every uploaded checkpoint come from all the inputs of its shard? |
| `SampleLedger_resume` | pass | kills anywhere and a target raised at any time: is the output the sample of one pass, and is it accepted? |
| `LabelRun_resume` | pass | stops, kills, faults, a raised target: every row once, honest markers, output kept, refinement of `LabelBook`, publication |
| `Build_resume` | pass | changing inputs and code, kills, I/O errors, damage: is the export what its inventory hashed, and is it reached? |

**Bounds.** `QueueRace_resume` has three jobs: a fallback, a trial, and one
more, so that a third live allocation, a second race after an adoption, and a
retried `oarsub` each happen; two crashes allow a crash during the recovery from
a crash; two attempts are one retry.  The theorems remove these bounds.
`StateStore_durable` has two processes, because every conflict is between two,
and two tokens, so that an update can be lost or reordered; one kill and one
power failure combine with each other and with every system-call failure (which
is unbounded); the theorems remove these bounds too.  `RunLifecycle` bounds each
kind of run separately (`Bounds`): two shards and two batches make "some but not
all" possible; two to five jobs allow an interrupted allocation and its
continuation, or the whole chain split, finalize, build, label, label of a
worldwide run; one crash per regional run is placed at every step, while calls
that raise (which also end the process) are unbounded.  A target of two is what
raising the sampling target needs.  `ShardStream_resume` has two drivers and one
overlapping start, two shards of which one has a Wikivoyage pair (three batches
with it, two without it; the other has one), so that a shard is resumed before,
between and after its batches, and two faults, an overlap being one of them, so that a recovery can
itself be killed; the second shard is what the ledger and the order of shards
need.  `SampleLedger_resume` has 16 inputs over two shards and four polygons
(documents shared by shards, repeated sentences, a polygon without a cell, large
and small areas), a target that cuts through them raised to one that still does
and to one beyond all rows, retention batches of two rows, so that a kill leaves
half a shard retained, and two kills.  `LabelRun_resume` has batches of two rows
of three, so that the last one is short and a raised target does not append to a
full batch; a v1 run with Trackio and a worldwide run with a smoke lane and the
Hub mirror (an outbox does not see the other); one kill, one fault and one stop
signal, in any combination.  `Build_resume` has a shard of three versions, the second
with the Wikivoyage pair, and one of two, two changes and one mishap: a change
between a kill and the next command, two changes around one, or a pair that joins
and leaves under a command.

**Deadlock** is checked where the system has no reason to stop.  The two
supervised runs switch the check off: a supervisor that has left, or a model
that has used up its jobs, may stop.

**Fairness.** `QueueRace`: weak fairness of the process (it is a loop of remote
calls with timeouts), of a trial's clock, and of a restart with `resume`, which
the user or the detached supervisor performs; none of the scheduler, which may
keep a job queued for ever.  `StateStore`: a process inside an operation goes
on; nobody has to start one.  `RunLifecycle`: the process and the supervisor's
loop go on, and OAR starts a queued job and ends it at its walltime.  Nothing
is assumed about how a job ends.  `ShardStream`: an allocation goes on until it
ends or is killed, and another one follows; faults are finitely many.
`SampleLedger`: the operator submits and accepts, and an allocation ends
(`AllocationsEnd`).  `LabelRun`: allocations are submitted until the release is
public and the label process goes on; nothing is assumed of the two threads,
which `close` stops waiting for after 30 seconds.  `Build`: a started command goes on and the
command is repeated; the strong fairness of `MoveAside` says that the repetition
does not leave out `--overwrite` for ever.

### Properties

*QueueRace.*  `Accounted`: a live job whose id reached the operator is in hand
or named by facts a `resume` acts on.  `OneFallbackOneTrial`: at most two of
them are live.  `NothingLiveWhenDone`: COMPLETE or FAILED leaves none.
`NeverCancelRecorded`: no step of the operator changes the scheduler state of
the recorded job.  `RaceSettles`: a superseded fallback is cancelled, a trial is
adopted or dropped, in the end.

*StateStore.*  `AckedSurvive`: an acknowledged transition or event is in the
files, and on the disk.  `RegisterSpec`: the two files are the atomic register.
`LockReleased`: the lock is never held for ever.

*RunLifecycle.*  `CompleteMeansDone`: COMPLETE implies that everything the stage
owes is published, with all rows of the recorded sample in a full run (unless a
label job whose id was lost, with an older target, left its manifest).
`StagesInOrder`: labels after a whole split, production after
the smoke lane, finalization after all shards.  `OneLiveJob`: two known jobs are
never live together, except a build next to a repeated split (`SplitsAgain`) or
next to a label job when the id of another build was lost.  `ActiveRootKept`
(no cleanup removes a root in use), `NeverAbandonLive` (a live job stays the
recorded one).  `SupervisedProgress`: an ended allocation is classified and
FINALIZING is left.  It excepts evidence the code deliberately refuses to act on
(`Unclassifiable`): a forgotten job that never ran, a cancelled allocation, a
forgotten job without progress.

*ShardStream.*  `LedgerOnHub`: the Hub never holds half a checkpoint, and the
ledger, which lets later allocations skip the question to the Hub, never names a
shard the Hub lacks.  `PartialResumable`: whenever the lock is free, the
leftovers of an unfinished shard can be loaded.  `EvictedOnlyWhenUploaded`,
`NeverRepeatBatch`: what a step never does.  `ShardRecorded`: every shard is
recorded for good in the end.  Section 5 says which leftovers these except.  All
are checked for two overlapping allocations; with three that have found different
inputs TLC breaks the ledger, the leftovers and the counted batches (section 5).

*SampleLedger.*  `LedgerCoversBest`: the candidates in the ledger include the
best rows among those its counters call scanned, and nothing else.
`SampleIsReference`: what is delivered is what one in-memory pass selects, and
the report counts it.  `SamplesNested`: of two outputs one is the beginning of
the other.  `SampleAccepted`: an output is accepted in the end, except after a
kill between the creation of the ledger and of `state.json`.

*LabelRun.*  `LabelledOnce`: no row is in two batches, and progress does not run
ahead.  `UploadedIsRemote`: an outbox marker tells the truth.  `OutputKept`: a
finalized output is never lost while another one replaces it.  `BookSpec`: the
job implements `LabelBook`.  `RunPublished`: the target is released again and
again, except in the two states `Wedged` and `Refused` of section 5.

*Build.*  `ExportIsInventory`: the export is made of the files its inventory
hashed and of no others, all segmented by the code it names.  `ExportIsFaithful`:
what is exported or published has the sentences of those files, each once per
polygon and counted as often as it stands there (`Stands` counts without the
join), and passes the validation that follows, although that one counts rows in
a different way.
`OutputKept`: through the swap and every kill in it the last export exists.
`CheckpointsKept`: no published checkpoint is lost, or set aside when usable.
`RunExports`: a repeated build exports the current input.

Each property of a passing run has a mutant in `PROJECT.json`: an operator of
the same module, marked *Mutant*, that changes one definition the way a
plausible bug would and makes the property fail.

## 4. Proofs

`QueueRaceProofs` proves, for every set of jobs, every number of candidates,
attempts and crashes, with or without lost replies:

* `TypeCorrect`: `Spec => []TypeOK`;
* `NoOrphan`: `Spec => []Accounted`;
* `AtMostOnePair`: `Spec => []OneFallbackOneTrial`;
* `NothingLeftBehind`: `Spec => []NothingLiveWhenDone`;
* `RecordedNeverCancelled`: `Spec => NeverCancelRecorded`.

All but the first assume `ResumeOnly` (`run` is not among the restarts); the run
`QueueRace_run` shows that the assumption is needed.

None of these properties is inductive: `Accounted` says nothing about which job
`cur`, `trial` and the facts name at each point of the process, so a state in
which `cancelFallback` is about to cancel an unrelated job satisfies it.  The
inductive invariant (theorem `Invariant`) adds, per value of `pc`, what is live
and what the facts name: before a submission nothing known is live; while a
trial is watched the facts name both jobs and they differ; between `AdoptTrial`
and `CancelFallback` the facts name the fallback as not yet cancelled; and, when
the process is down, the facts are in one of the shapes a restart can settle.
TLC checks it as well as the provers do.  The proof has one step per action.

`StateStoreProofs` proves, for every set of processes, phases and tokens and any
number of kills, failing calls and power failures:

* `StoreTypes`: `Spec => []TypeOK`;
* `StoreDurable`: `Spec => []AckedSurvive`;
* `StoreImplementsRegister`: `Spec => RegisterSpec`, the refinement.

They rest on the assumptions `PhasesAssumption`, `FileAssumption` and the other
`ASSUME`s of `StateStore` (a missing and a torn file are not contents) and on
the inductive invariant `IInv` (theorem `StoreInvariant`): every file is whole,
now and after a power failure; a process inside the critical section holds the
lock; the next content was built from the current files, and a transition's from
the phase its caller expects; the temporary file
holds it, and its bytes are durable, before the rename; what is durable is part
of what is visible; an operation's token is visible before the directory is
synchronised and durable before the call returns.  The lock carries the
refinement: without it the content in a temporary file could be older than the
file it replaces.

`RunLifecycleProofs` proves, for every set of configurations and any numbers of
shards, batches, targets, jobs, crashes and commands:

* `Typing`: `Spec => []TypeOK`;
* `CompleteIsDone`: `Spec => []CompleteMeansDone`;
* `InOrder`: `Spec => []StagesInOrder`;
* `AtMostOneLive`: `Spec => []OneLiveJob`;
* `RootKept`: `Spec => []ActiveRootKept`;
* `LiveKept`: `Spec => NeverAbandonLive`.

The assumptions are `ConfigsAssumption` (what the command line admits as a
configuration) and `BoundsAssumption` (the bounds are numbers).  None of the five
invariants is inductive: each says what holds of phases, jobs and evidence, and
nothing of where the process is between reading the one and writing the other.
`IInv` (theorem `Invariance`) adds, part by part:

* `HandInv`, `KnownInv`: a submitted job is in hand exactly between `oarsub` and
  its record, and every live job is named by the facts, in hand, or lost by a
  crash (`orphans`).  `OneLiveJob` and `ActiveRootKept` come from this;
* `PhaseInv`, `PointInv`: what the phase and the point of the process say of the
  recorded job, such as that the monitored job is the recorded one and that a job
  is classified only when it has ended;
* `OrderInv`: before the split output is recorded there is no label, no build
  and no server, and CHECKPOINTED means that no shard is left;
* `BuildInv`: a build is submitted when none is live and no server is there;
* `LaneInv`: the production lane is reached only when the smoke lane has ended;
* `LabelInv`, `TotalInv`: manifests and releases are of targets the run has
  recorded; in a full run every label job was given a target that covers the
  recorded sample, so whichever manifest completes the run stands for all of it;
* `RootInv`: when a root carries a terminal marker, the phase is terminal or
  labels exist, so that no cleanup by `run` takes the root of a live job.

`LiveKept` needs the guard of the finalization watch (`FinalWait` leaves only an
ended job) and that adoption of a new job happens only after the old one ended.
Without the exception of `SplitsAgain` the prover stops at the second submission
of the split, which is how the disagreement listed in section 5 was found.

`ShardStreamProofs` proves, for every number of shards, any number of batches
of each, any allocations, overlaps and faults, and whatever inputs the shards
have:

* `StreamTypes`: `Spec => []TypeOK`, which includes that no allocation counts
  batches beyond its inputs; the invariant `TypeInv` adds where in
  `process_shard` a driver has a shard, has found inputs, and may still add a
  batch, and that no `progress.json` counts beyond its manifest;
* `StreamLedger`: `Spec /\ Conditions => []LedgerOnHub`;
* `StreamEviction`: `Spec /\ Conditions => EvictedOnlyWhenUploaded`;
* `StreamNoRepeat`: `Spec /\ Conditions => NeverRepeatBatch`;
* `StreamResumable`: `Spec /\ Conditions => []PartialResumable`,

where `Conditions` stands for `[]AtMostTwoRun \/ []InputsFound`: no three allocations
run at a time, or every allocation finds all the inputs of its shard, the "six
required Parquet inputs" of docs/guides/grid5000.md:144-146.  Neither restricts
the shards, the batches or the faults.  The first is what `QueueRace` proves of
the allocations whose ids the operator knows; the second is what the run
`ShardStream_inputs` violates.  One of the two is needed (section 5).

The invariant `HubInv` behind the last four says what an allocation *knows* at
each point: that it publishes with all batches of its inputs segmented, and that
it evicts and records only what the Hub has; that a local checkpoint is whole, or
half removed with the Hub holding the whole one; and (`UploadsOK`) that whoever is
about to upload a shard that is on the Hub by now has a local checkpoint of the
same inputs, so that an upload of the half completes the whole one rather than
damages it.  The last survives a publication only if nobody publishes other
inputs next to such an upload (`Calm`).  With two allocations that is so because
the one that is about to upload and the one that did are both past the
publication (`Alone`); with all inputs found, because there is only one manifest
(`SameInputs`).

For `StreamNoRepeat` three more facts are needed: only the owner of the lock is
inside `process_single_shard` (`HolderInv`); while it segments it has counted at
least as many batches as `progress.json` counts (`CountInv`); and a partial
directory is discarded or evicted only when the shard is whole locally or on the
Hub (`DiscardInv`), so that no allocation starts the shard again.

`PartialResumable` speaks of the moments in which the lock is free.  What makes
it true is the order of the writes inside `process_single_shard`, so `ResumeInv`
says for each point of the lock's owner what the directory looks like: a manifest
and a `progress.json`, batch files numbered without a gap, and `progress.json`
counting all of them or, between the rename of a batch and its own, all but the
last.  Nobody else changes the directory of an unfinished shard
(`ElsewhereStays`), and a directory that a fault of section 5 left is remembered
in `mangled` for good (`MangledGrows`).

`BuildProofs` proves, for every set of shards and versions and any number of
changes and mishaps:

* `BuildTypes`: `Spec => []TypeOK`;
* `BuildCheckpointsKept`: `Spec => CheckpointsKept`;
* `BuildOutputKept`: `Spec => []OutputKept`;
* `BuildExportSourced`: `Spec => []ExportIsInventory`;
* `BuildExportFaithful`: `Spec => []ExportIsFaithful`.

`OutputKept` is not inductive: it does not say that the output directory is
empty between the two renames of `install_atomic`, nor that what the backup is
removed for is the new export; and `CheckpointsKept` needs that a shard is
retired only when the command found no file of it, and that what a command
publishes was read from the files it hashed.  `IInv` (theorem `BuildInvariant`)
adds these per value of `job.pc`.  `ExportIsInventory` needs `SourceInv` besides:
what the command has collected are the parts of exactly the shards found and done
(`PartsInv`), and a checkpoint is made of the version its manifest hashed.  The
last is the point of `_verify_pre_publish_manifest`: a shard is read after it was
hashed and before it is verified, and replaced files do not come back, so if the
command sees at the verification what it hashed, it saw the same in between
(`ReadInv`, `VerifiedVersion`); a local input that changes meanwhile makes the
command fail, unless only a Wikivoyage pair joins that it does not read.

`ExportIsFaithful` is about the state only in that nothing is checkpointed,
collected, exported or published whose tables the join refuses (`SoundInv`, checked
by TLC before it was proved).  The rest is about data, for any tables that pass the
checks of the join (`Sound`).  Left side: `Stands` counts places in the sections that
a link or a QID ties to the polygon.  Right side: the join makes sections, the
segmenter occurrences, the finalization rows.  They meet in a bijection between the
occurrences of a sentence in a section and its places there (`SectionsCount`), which
needs that section ids are unique and that numbering the kept segments loses none
(`SegmentsList`).  Every section the join pairs with the polygon is one of those
counted and the other way round, once, whatever the layout of the links (`JoinedIs`,
`CountIs`); Wikipedia and Wikivoyage occurrences never coincide.  With
`NamespaceAssumption` a sentence's group in the whole table is that of its shard
(`GroupIs`), each occurrence has a place of its own there (`TableTyped`), and its row
counts the group (`RowsCount`).  For the validation, the scan's state after each row
is the count over the rows so far (`CountedNext`, `ScannedIs`), and the finalized table
is strictly sorted with distinct ids (`ConsistentRows`), so the two ways of counting
agree.

The assumptions are on the input.  `TablesAssumption`: shards are numbered, so that
the lowest of those to do exists.  `InputsAssumption`: every version of a shard has
finite tables whose columns have the types of `contracts/schemas/input.py`.
`NamespaceAssumption`: no polygon id is in two shards.  The build takes that as given;
streaming finalization refuses a shard with an id that does not begin with the
shard's key.  `VersionsAssumption`: a version number stands for the files of a shard,
the files without a pair are a version too, and files that were replaced do not come
back; for files that go and come back between the two hashes the code would not
notice that others were read.

`LabelRunProofs` proves, for every set of plans and targets, every batch size and
number of repair attempts, and any number of kills, faults and stop signals:

* `Typing`: `Spec => []TypeOK`;
* `Once`: `Spec => []LabelledOnce`;
* `HonestMarkers`: `Spec => []UploadedIsRemote`;
* `OutputSafe`: `Spec => OutputKept`;
* `BookImplemented`: `Spec => BookSpec`, the refinement of `LabelBook`.

The assumptions are `LabelAssumption` (the bounds are numbers), `PlansAssumption`
(only a worldwide run has a smoke lane: `run_worldwide_labeling.sh` is the only
script with lanes)
and `NoneAssumption` (a missing output is not a set of rows).  `LabelledOnce` is not
inductive: it does not say that the rows labelled so far are the *first* rows of
the selection, which is why the next batch cannot meet an old one, nor that a
process that reaches `write_batch` was refused before if an earlier one left half a
batch.  `IInv` (theorem `Invariance`) says so, part by part:

* `FilesInv`: in each lane at most one batch is not whole (the table without its
  description or the reverse), the labelled rows are `1 .. m`, and markers and
  outputs are of whole batches and labelled rows;
* `JobInv`: from `load` on all batches are whole but the one being written, the
  batch in hand continues the labelled rows within the selection, a `FinalizeV2`
  that reached the installation saw all rows of its target, the output it installed
  has them, and an output about to be published is that of the allocation's target;
* `TargetInv`: the allocation's target is one the run was given, never above the
  run's, and the release has all rows of such a target, never above the
  allocation's: a release cannot shrink;
* `SmokeInv`: the lane that runs is the open one, and nothing of the production lane
  exists before it is opened, so that the paths the two lanes share are overwritten in
  one direction only;
* `ThreadInv`: queues and workers have markers of whole batches, a commit that is
  about to be reported took place, and no thread outlives the label process.

A batch that was mirrored is never written again because whole batches stay, with
their tables, in every step (lemma `AllGrow`).  `OutputKept` needs that a
finalization that replaces an output saw all rows of its lane, and `BookSpec` that
only the rename of a description changes the labelled rows (`SameLabels`).

`SampleLedgerProofs` proves, for every set of inputs and targets, every batch
size and any number of kills, with the target raised at any time:

* `LedgerComplete`: `Spec => []LedgerCoversBest`;
* `Nested`: `Spec => []SamplesNested`;
* `SameAsOnePass`: `Spec => []SampleIsReference`;
* `Typing`: `Spec => []TypeOK`.

The assumptions are `BatchAssumption`, `KillsAssumption` and `TargetsAssumption` (a batch
has a row, a target is positive), `NoneAssumption` (a missing file is no number and no
ledger) and `WorldsAssumption`: the shards are finite and `Namespaced`, segmentation gave
each sentence of a section a place of its own, every polygon has its metadata, and no
two polygons and no two cells have the same SHA-256.  Ranks of sentences may collide; the
position in the table decides then, as in the code.

`LedgerCoversBest` speaks of a ledger whose shards are all planned and says nothing
of the process.  The inductive invariant `IInv` adds: what is staged for a shard is
its finalized table (`HubInv`), and a planned shard is staged (`LedgerInv`), so that
the rows behind the offsets do not change between allocations; before `state.json`
and the plan exist nothing is retained (`FreshInv`), which is where the order of
`clear_candidates` and `_atomic_json` counts; an allocation that plans has the
target of `state.json` (`TargetInv`, `PlanInv`); and while it retains, the heaps in
memory are exactly the best of what was scanned, all of them in the ledger
(`HeapInv`).

The step of a batch rests on two facts about the best rows of a set, those with
fewer rows ahead in their stratum than its quota: a row that is among the best of a
set is so in every part (`BestOfPart`), and a part that has the best of a set has
the same best (`BestKept`).  The second is what lets an allocation rebuild its
heaps from the candidates alone, and drop a row for good.  Its proof takes the
first row ahead that is missing (`FirstOfPart`) and needs the order of the rows to
be strict, hence each row to have a position: a sorted sequence lists its set once
(`Listed`), the weighted schedule has a turn for every polygon, so that the polygon
order has every located one, and a finalized shard has the rows of its occurrences
(`FinalizedLists`).

`Nested` compares outputs that different allocations delivered, with kills and a
raised target in between.  Its invariant `OInv`, on top of `IInv`, says that every
output is a function of the rows and of its own target (`Delivers`: `Sample`, or
`Whole` for a run that does not sample); the nesting then is a fact about two
samples of one table (`SampleBegins`).  It has to follow the rows through the
ledger and the cache:

* a retained shard was scanned to its end (`RetainedInv`), so when the ledger is
  compacted the heaps are the best of all rows, the rows that the target selects
  (`SelectedInv`, lemma `AllScanned`);
* a cached table has rows that the target of `state.json` selects (`CacheInv`).
  It may have been written by a killed allocation for a smaller target; it stays
  within the selection because quotas only grow with the target (`PlansGrow`,
  `ChosenGrows`), and therefore a table with as many rows as there are candidates
  is the table of the candidates, which is all that `_load_materialized_rows`
  compares before it matches them by position;
* when the last shard is materialized every candidate has its own row (`RowsInv`),
  and the queue of a stratum has at each turn of the schedule the row with that
  many rows of its stratum before it (`QueueRow`), whatever the target.

`SampleBegins` rests on the schedule: a larger target's begins with the turns of
a smaller one's (`ScheduleBegins`), and a schedule that has a turn of a stratum has
the earlier ones (`ScheduleFromFirst`), so a turn is always within the quota.

`SameAsOnePass` compares that output with `Reference`: the table of all occurrences is
finalized at once and `select_v2_rows` selects from it in memory.  It takes two
steps.  First, about the data (`SentenceTableProofs`): a sentence has all its occurrences
in one shard and its neighbours in the same section, so the groups and rows of the
whole are those of the shards (`SplitGroups`, `SplitRow`, `SplitRows`); a row's place in
the whole is its place in its shard after the rows of the shards before
(`Concatenated`), and the shards' tables one after the other are the table of the whole
(`TablesJoin`); the reports add up to its report (`TotalsAdd`), duplicates across
sources included.  Here `Namespaced` is needed twice: polygons of different shards
differ, and come in the order of the shards.  Second, about the ledger: shards are
planned from the first on, and each offset is the number of rows of the shards
before (`OffsetInv`), so that with every shard planned the rows behind the ledger
are the finalized table of everything (`RowsWhole`), and the row of each turn of the
schedule is the one `select_v2_rows` would take (`SampleSelected`).  The invariant `EInv`
adds to `OffsetInv` what `Typing` needs besides: no counter passes the end of its shard
(`KeptInv`), targets, heaps and pointers stay in range (`RangeInv`), and an output has the
report of all shards and is recorded only when it was delivered (`ReportInv`).

Three facts about what a recursion computes are proved from a smallest counterexample:
what `FlattenSeq` joins (`TablesConcatenate`), what `SumFunction` adds up (`Summed`), and
what the streaming scan of a table has counted after each row (`ScannedIs`).

Only model-checked: liveness (fairness and `ENABLED` are beyond the prover) and the
properties the code violates.  Every invariant and every action property of the passing
runs is a theorem.

## 5. Disagreements between the code and its documents

Four are runs with a counterexample:

1. `QueueRace_run`: `_run` (cli.py:1120-1135) hands a reattached allocation to
   `classify_or_continue` without the race, so a recorded trial is neither
   adopted nor cancelled, and a later race adds a third live allocation;
   docs/reference/grid5000-operator.md:80-81.
2. `RunLifecycle_validated`: the supervisor retries VALIDATED and VERIFYING, for
   which `resume_run` has no branch (resume.py:342-348);
   docs/guides/grid5000.md:21-22.
3. `RunLifecycle_grown_target`: the label input of a worldwide run is the output
   of the finalization recorded once (staging.py:283-286, resume.py:288-299,
   cli.py:1300-1316), sampled for the target of that time, and
   labeling/cli.py:583-588 selects at most its rows: a raised target adds
   nothing, although the run completes with it;
   docs/reference/labeling.md:67-70.
4. `ShardStream_inputs`: `_download_shard` reuses any inbox `discover_shards`
   accepts (driver.py:491-496), and a shard without the Wikivoyage pair is
   accepted (ingestion/discovery.py:97-105) even when the shard has one; a kill
   during the parallel download can leave exactly that;
   docs/guides/grid5000.md:144-146.

Further ones that the models contain and that the properties above exclude
explicitly (`lost`, `orphans`, `Unclassifiable`, `Refused`, `mangled`,
`Orphaned`, `Wedged`, `SplitsAgain`, the stage restrictions):

* a process that dies between a trial's `oarsub` (earliest_start.py:198) and
  `persist_trial` (cli.py:909-929) orphans the trial;
  docs/reference/grid5000-operator.md:81 says Ctrl-C leaves both ids durable;
* `SshClient._run_with_retries` (ssh.py:591-661) repeats an `oarsub` whose reply
  was lost; same document, lines 80-81;
* a process that dies between `oarsub` and the transition to SUBMITTED
  (controller.py:161-185) makes the next `resume` submit again, against the
  docstring "Submit exactly once from REMOTE_PREPARED.";
* a job that ends while the phase is SUBMITTED is never classified, every
  terminal transition expecting QUEUED, RUNNING or FAILED (recovery.py:20);
* `run` reclaims its own complete root (cli.py:1066-1081) against
  docs/guides/grid5000.md:62-65;
* `resume` of a prepared, never submitted split run takes the label branch
  (resume.py:279-287);
* after a crash at VALIDATED `_run` moves a full run to REMOTE_PREPARED while
  `active_stage` is still "split" (cli.py:1324-1329), and the next `resume`
  submits the split again although its output is recorded (resume.py:278-286),
  even next to a live llama-server build;
  docs/architecture/packages/operator.md:5-6 says that it "resumes durable remote
  work without duplicating jobs"; `SplitsAgain`;
* a label job whose id was lost before a target was raised can leave a manifest
  of the smaller target, with which the run completes; `CompleteAtTotal`
  excepts it;
* a failed split recovered to CHECKPOINTED leaves its root marked "failed";
* a split that completes inside the continuation loop returns in CHECKPOINTED
  without submitting the finalization (continuation.py:425), and `supervise`
  stops there for a split run;
* a kill between `mkdir` and the first `progress.json` (partial.py:221-237)
  leaves a directory that `load_partial_state` refuses in every later
  allocation, against docs/reference/cli.md:139-141 ("the next allocation resumes
  at the next validated section batch"); `Refused` in `ShardStream`;
* when the directory fsync fails after `progress.json` was replaced, the except
  clause of `append_partial_batch` (partial.py:281-283) removes a batch that
  `progress.json` already counts, with the same result; `mangled`;
* three allocations of one stage that overlap outside the lock, one of which has
  found fewer inputs than the others, can commit what is left of a half-removed
  checkpoint over a whole one of another manifest: the Hub then holds half a
  checkpoint, and a recorded shard is segmented again.  With a third driver and a
  second overlap TLC breaks `LedgerOnHub`, `PartialResumable` and `NeverRepeatBatch`;
  it finds no such run against `EvictedOnlyWhenUploaded` with two faults, but the
  proof of that one needs the same condition (section 4);
* a partial directory computed from other inputs than the ones staged is refused,
  not discarded; since `main` processes shards in order, one refused shard keeps
  every later shard from being processed;
* a kill between the creation of the SQLite ledger and the first `state.json`
  (v2_resumable_sampling.py:861) makes every later allocation refuse the ledger,
  against the resumability docs/architecture/packages/labeling.md:35 promises;
  `Orphaned` in `SampleLedger`;
* a kill inside `write_batch` leaves a file that `_batch_indexes`
  (checkpoint.py:122) refuses in every later allocation; `Wedged` in `LabelRun`;
* a V1 output that is installed but not published makes every later
  finalization refuse (finalization.py:618); `Refused` in `LabelRun`;
* `finalize_v2_dataset` replaces an existing output without validating it
  (v2_finalization.py:513-517), against docs/reference/labeling.md:78-80;
* the checkpoint mirror of the smoke and of the production lane write the same
  paths of the same Hub tree (run_worldwide_labeling.sh:79, whose comment keeps the
  lane out on purpose), although docs/guides/grid5000.md:367-370 says that "the two
  lanes use distinct work, output, Trackio-run, and Hub-checkpoint namespaces" and
  names `.pipeline/checkpoints/<run-id>/<lane>`;
  `UploadedIsRemote` says that the production lane's batches are the ones that stay;
* a build killed after it replaced the checkpoint of a changed shard and before
  it wrote `inventory.json` segments that shard again, against
  docs/reference/cli.md:49; excepted in `CheckpointsKept`;
* an existing output without `--overwrite` is refused only after all the work,
  and with `--overwrite` an empty local input root exports an empty dataset.

Outside the models, met while reading: the label relay builds its expectation
without the release lane (`_run_identity_from_mapping` in relay.py), so its
identity never matches the checkpoint's, although
docs/reference/grid5000-operator.md:34 says that labeling relays its batches;
and without tmux nothing prevents a second detached supervisor of the same run
(supervisor.py:160).

## 6. Not modelled

* The checkpoint relay between sites: it copies validated files into fresh
  directories; `RunLifecycle` stays on one site.
* Site discovery and ranking, parsing of configuration, OAR output, quota and
  API answers: no state; `QueueRace` allows every ranking, `Configs` of
  `RunLifecycle` keeps the part of a configuration that changes control.
* Path, ownership and symbolic-link checks: they refuse and change nothing.
* Cards, figures, analytics and Arrow schemas: rendering of finished tables.
* The neural segmentation and the language model: a section is the sequence of
  its sentences, a label is known by its row.
* tmux, log streaming, staging and temporary directories with fresh names, the
  disk ceiling and the import of resume bundles of the streaming driver, the
  counts of the segmentation report, and a publication outside the work-directory
  lock while another build swaps the same output.

## 7. Plan

Done: `QueueRace`, `StateStore`, `RunRegister`, `RunLifecycle`, `ShardStream`,
`SampleLedger` with `Sampling` and `SentenceTable`, `LabelRun` with `LabelBook`,
`Build` with `Joins`; the proofs of the race, of the store and its refinement, of
every safety property of the run lifecycle, of the stream and of the labeling job
with its refinement, of the build with the data its export holds, and of the sampling
ledger and its samples.

Left, in this order:

1. The relay, once its identity check can succeed: pull, verify and install of a
   bundle on a second site, composed with `RunLifecycle`.
2. Site ranking and quota parsing against reference definitions.
