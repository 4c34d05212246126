----------------------------- MODULE ShardStream -----------------------------
(***************************************************************************)
(* The streaming build: one allocation after another turns input shards    *)
(* into segmented checkpoints on the Hub.                                  *)
(*                                                                         *)
(* For each shard the driver (scripts/streaming/driver.py) asks the Hub,   *)
(* downloads the inputs into an inbox, segments them batch by batch into a *)
(* partial directory (application/_checkpoint/partial.py, driven by        *)
(* pipeline.process_single_shard), publishes the whole shard by renaming a *)
(* staging directory (storage.py), uploads it (offload.py), removes the    *)
(* local copies and records the shard in state.json.  The work directory   *)
(* outlives the allocation, which can be killed anywhere; an allocation    *)
(* whose job id was lost may still run when its successor starts, and only *)
(* process_single_shard takes the lock (locking.py).                       *)
(*                                                                         *)
(* Simplifications.  The four mandatory inputs of a shard are one file,    *)
(* "core".  Contents are abstracted to the set of files they were computed *)
(* from, which also fixes the number of section batches: revision, commit, *)
(* model and batch size are the same in every allocation of a run.  No     *)
(* shard is without sections.  Staging and quarantine directories have     *)
(* unique names and are never read again.                                  *)
(* Power failures are left to StateStore: the files are written the same   *)
(* way.                                                                    *)
(***************************************************************************)
EXTENDS Naturals, FiniteSets, FiniteSetsExt

CONSTANTS
  Drivers,      \* allocations of the run that can exist at the same time
  NoDriver,     \* nobody holds the lock
  Shards,       \* input shards, numbered in the order of their keys
  Voyage,       \* the shards that have a Wikivoyage pair
  Sizes,        \* per shard, the section batches that a set of its files yields
  None,         \* a file or directory that does not exist
  MaxFaults,    \* kills, failing calls and overlaps, together
  MaxOverlaps   \* allocations started while another one runs

ASSUME DriversAssumption == NoDriver \notin Drivers
ASSUME ShardsAssumption == Shards \subseteq Nat /\ IsFiniteSet(Shards) /\ Voyage \subseteq Shards
ASSUME FaultsAssumption == MaxFaults \in Nat /\ MaxOverlaps \in Nat

VARIABLES
  inbox,     \* per shard, the input files staged locally
  partial,   \* per shard, the partial directory
  active,    \* per shard, the published local checkpoint
  hub,       \* per shard, the checkpoint on the staging branch
  ledger,    \* verified_checkpoints of state.json
  lock,      \* the holder of shards/.lock
  pc,        \* where each driver is
  loc,       \* the local variables of each driver
  mangled,   \* history: shards whose last counted batch was removed again
  faults, overlaps  \* history

work == <<inbox, partial, active, ledger>>
history == <<mangled, faults, overlaps>>
vars == <<work, hub, lock, pc, loc, history>>

Files == {"core", "docs", "secs"}
Pair == {"docs", "secs"}
Required(s) == IF s \in Voyage THEN Files ELSE {"core"}

\* discover_shards: every mandatory table, and both or none of the pair.
Discoverable(files) == "core" \in files /\ (Pair \subseteq files \/ Pair \cap files = {})

ASSUME SizesAssumption == Sizes \in [Shards -> [SUBSET Files -> Nat \ {0}]]
Total(s, manifest) == Sizes[s][manifest]
Copies == [manifest : SUBSET Files, batches : SUBSET Nat]
Counts == [manifest : SUBSET Files, n : Nat]
Records == [progress : Counts \cup {None}, files : SUBSET Nat, tmp : BOOLEAN]
ASSUME NoneAssumption == None \notin Copies \cup Counts \cup Records
Checkpoint(manifest, batches) == [manifest |-> manifest, batches |-> batches]
Whole(s, c) == c # None /\ c.batches = 1 .. Total(s, c.manifest)

\* A partial directory: what progress.json says, the batch files and whether
\* there are temporary files.
EmptyDir == [progress |-> None, files |-> {}, tmp |-> FALSE]
Dir(s) == IF partial[s] = None THEN EmptyDir ELSE partial[s]
Progress(manifest, n) == [manifest |-> manifest, n |-> n]

Outside == {"down", "pick", "inspect", "inbox", "clean", "fetch"}
Locked == {"reuse", "hash", "load", "create", "advance", "install", "sync", "segment",
           "batch", "publish", "validate", "discard"}
Final == {"evictInbox", "evictActive", "evictPartial", "record"}
Points == Outside \cup Locked \cup Final \cup {"discover", "lock", "check", "upload", "fail"}

FreshLocal == [shard |-> None, found |-> {}, n |-> 0, todo |-> {}, busy |-> {},
               failed |-> FALSE, verified |-> {}]

Init ==
  /\ inbox = [s \in Shards |-> {}]
  /\ partial = [s \in Shards |-> None]
  /\ active = [s \in Shards |-> None]
  /\ hub = [s \in Shards |-> None]
  /\ ledger = {}
  /\ lock = NoDriver
  /\ pc = [d \in Drivers |-> "down"]
  /\ loc = [d \in Drivers |-> FreshLocal]
  /\ mangled = {} /\ faults = 0 /\ overlaps = 0

At(d, point) == pc[d] = point
Goto(d, point) == pc' = [pc EXCEPT ![d] = point]
Shard(d) == loc[d].shard

\* An exception inside the try block of process_shard; the lock is released
\* by the finally clause of process_single_shard.
Raise(d) ==
  /\ Goto(d, "fail")
  /\ lock' = IF lock = d THEN NoDriver ELSE lock

-----------------------------------------------------------------------------
(* main and the head of process_shard.                                     *)

\* The constructor of the driver reads the ledger, once.
Start(d) ==
  /\ At(d, "down")
  /\ \/ (\A e \in Drivers : At(e, "down")) /\ UNCHANGED <<overlaps, faults>>
     \/ /\ overlaps < MaxOverlaps /\ overlaps' = overlaps + 1
        /\ faults < MaxFaults /\ faults' = faults + 1
  /\ loc' = [loc EXCEPT ![d] = [FreshLocal EXCEPT !.verified = ledger]]
  /\ Goto(d, "pick")
  /\ UNCHANGED <<work, hub, lock, mangled>>

\* Pending shards in the order of their keys.
PickShard(d) ==
  /\ At(d, "pick")
  /\ IF loc[d].verified = Shards
       THEN loc' = [loc EXCEPT ![d] = FreshLocal] /\ Goto(d, "down")
       ELSE /\ loc' = [loc EXCEPT ![d] = [FreshLocal EXCEPT !.verified = loc[d].verified,
                         !.shard = Min(Shards \ loc[d].verified)]]
            /\ Goto(d, "inspect")
  /\ UNCHANGED <<work, hub, lock, history>>

\* inspect_remote_checkpoint: what is on the Hub and valid is reused.
InspectRemote(d) ==
  /\ At(d, "inspect")
  /\ Goto(d, IF hub[Shard(d)] = None THEN "inbox"
             ELSE IF Whole(Shard(d), hub[Shard(d)]) THEN "evictInbox" ELSE "down")
  /\ UNCHANGED <<work, hub, lock, loc, history>>

\* _download_shard: an inbox that can be discovered is reused, any other is
\* removed and downloaded again.
PrepareInbox(d) ==
  /\ At(d, "inbox")
  /\ Goto(d, IF Discoverable(inbox[Shard(d)]) THEN "discover" ELSE "clean")
  /\ UNCHANGED <<work, hub, lock, loc, history>>

\* shutil.rmtree of an inbox, file by file.
RemoveInbox(d, at, next) ==
  /\ At(d, at)
  /\ \E rest \in SUBSET inbox[Shard(d)] :
       /\ inbox' = [inbox EXCEPT ![Shard(d)] = rest]
       /\ IF rest = {} THEN Goto(d, next) ELSE UNCHANGED pc
  /\ UNCHANGED <<partial, active, hub, ledger, lock, history>>

CleanInbox(d) ==
  /\ RemoveInbox(d, "clean", "fetch")
  /\ loc' = [loc EXCEPT ![d].todo = Required(Shard(d))]

\* download_many: one thread per file unlinks the old file, then fetches it.
BeginFetch(d, f) ==
  /\ At(d, "fetch") /\ f \in loc[d].todo
  /\ inbox' = [inbox EXCEPT ![Shard(d)] = @ \ {f}]
  /\ loc' = [loc EXCEPT ![d].todo = @ \ {f}, ![d].busy = @ \cup {f}]
  /\ UNCHANGED <<partial, active, hub, ledger, lock, pc, history>>

\* The executor waits for every thread; any failure then ends the process,
\* outside the try block.
JoinThreads(d, f, failed) ==
  IF loc[d].todo # {} \/ loc[d].busy # {f}
    THEN loc' = [loc EXCEPT ![d].busy = @ \ {f}, ![d].failed = failed] /\ UNCHANGED pc
    ELSE /\ loc' = [loc EXCEPT ![d] = IF failed THEN FreshLocal ELSE [@ EXCEPT !.busy = {}]]
         /\ Goto(d, IF failed THEN "down" ELSE "discover")

EndFetch(d, f) ==
  /\ At(d, "fetch") /\ f \in loc[d].busy
  /\ inbox' = [inbox EXCEPT ![Shard(d)] = @ \cup {f}]
  /\ JoinThreads(d, f, loc[d].failed)
  /\ UNCHANGED <<partial, active, hub, ledger, lock, history>>

FetchFails(d, f) ==
  /\ At(d, "fetch") /\ f \in loc[d].busy
  /\ faults < MaxFaults /\ faults' = faults + 1
  /\ inbox' = [inbox EXCEPT ![Shard(d)] = @ \ {f}]
  /\ JoinThreads(d, f, TRUE)
  /\ UNCHANGED <<partial, active, hub, ledger, lock, mangled, overlaps>>

DiscoverShard(d) ==
  /\ At(d, "discover")
  /\ \/ /\ Discoverable(inbox[Shard(d)])
        /\ loc' = [loc EXCEPT ![d].found = inbox[Shard(d)]]
        /\ Goto(d, "lock") /\ UNCHANGED lock
     \/ ~Discoverable(inbox[Shard(d)]) /\ Raise(d) /\ UNCHANGED loc
  /\ UNCHANGED <<work, hub, history>>

-----------------------------------------------------------------------------
(* process_single_shard, under the work-directory lock.                    *)

AcquireLock(d) ==
  /\ At(d, "lock")
  /\ \/ lock = NoDriver /\ lock' = d /\ Goto(d, "reuse")
     \/ lock # NoDriver /\ Raise(d)
  /\ UNCHANGED <<work, hub, loc, history>>

\* A valid active checkpoint is reused; an invalid one is quarantined.
ReuseActive(d) ==
  /\ At(d, "reuse")
  /\ IF Whole(Shard(d), active[Shard(d)])
       THEN Goto(d, "check") /\ lock' = NoDriver /\ UNCHANGED active
       ELSE /\ active' = [active EXCEPT ![Shard(d)] = None]
            /\ Goto(d, "hash") /\ UNCHANGED lock
  /\ UNCHANGED <<inbox, partial, hub, ledger, loc, history>>

\* compute_shard_source_manifest and the join read every discovered file.
HashSources(d) ==
  /\ At(d, "hash")
  /\ \/ loc[d].found \subseteq inbox[Shard(d)] /\ Goto(d, "load") /\ UNCHANGED lock
     \/ ~(loc[d].found \subseteq inbox[Shard(d)]) /\ Raise(d)
  /\ UNCHANGED <<work, hub, loc, history>>

\* load_partial_state drops temporary files and the one batch that a kill
\* before the progress update leaves behind, and refuses anything else.
Extra(dir) == dir.files \ (1 .. dir.progress.n)
Identified(dir, manifest) == dir.progress # None /\ dir.progress.manifest = manifest

\* Mutant: the unreferenced batch is refused like any other entry.
LoadableStrict(dir, manifest) ==
  /\ Identified(dir, manifest)
  /\ dir.files = 1 .. dir.progress.n

Loadable(dir, manifest) ==
  /\ Identified(dir, manifest)
  /\ 1 .. dir.progress.n \subseteq dir.files
  /\ Extra(dir) \in {{}, {dir.progress.n + 1}}

\* Mutant: a directory with an unreferenced batch is started over.
LoadPartialAnew(d) ==
  LET s == Shard(d)  dir == partial[s] IN
  /\ At(d, "load")
  /\ IF dir # None /\ Loadable(dir, loc[d].found) /\ Extra(dir) = {}
       THEN Goto(d, "segment") /\ UNCHANGED partial
              /\ loc' = [loc EXCEPT ![d].n = dir.progress.n]
       ELSE Goto(d, "create") /\ UNCHANGED loc
              /\ partial' = [partial EXCEPT ![s] = None]
  /\ UNCHANGED <<inbox, active, hub, ledger, lock, history>>

LoadPartial(d) ==
  LET s == Shard(d)  dir == partial[s] IN
  /\ At(d, "load")
  /\ \/ dir = None /\ Goto(d, "create") /\ UNCHANGED <<partial, lock, loc>>
     \/ /\ dir # None /\ Loadable(dir, loc[d].found)
        /\ partial' = [partial EXCEPT ![s].files = 1 .. dir.progress.n, ![s].tmp = FALSE]
        /\ loc' = [loc EXCEPT ![d].n = dir.progress.n]
        /\ Goto(d, "segment") /\ UNCHANGED lock
     \/ /\ dir # None /\ ~Loadable(dir, loc[d].found)
        /\ partial' = IF Identified(dir, loc[d].found)
                        THEN [partial EXCEPT ![s].tmp = FALSE] ELSE partial
        /\ Raise(d) /\ UNCHANGED loc
  /\ UNCHANGED <<inbox, active, hub, ledger, history>>

\* create_partial_state makes the directory, then writes progress.json.
CreatePartial(d) ==
  /\ At(d, "create")
  /\ \/ /\ partial[Shard(d)] = None
        /\ partial' = [partial EXCEPT ![Shard(d)] = EmptyDir]
        /\ Goto(d, "advance") /\ UNCHANGED lock
     \/ partial[Shard(d)] # None /\ Raise(d) /\ UNCHANGED partial
  /\ UNCHANGED <<inbox, active, hub, ledger, loc, history>>

\* Both atomic writers begin with a temporary file, in a directory that they
\* create when it is missing.
OpenTemporary(d, next) ==
  /\ partial' = [partial EXCEPT ![Shard(d)] = [Dir(Shard(d)) EXCEPT !.tmp = TRUE]]
  /\ Goto(d, next)

\* Mutant: one batch too many.
SegmentedLate(d) == loc[d].n > Total(Shard(d), loc[d].found)

Segmented(d) == loc[d].n = Total(Shard(d), loc[d].found)

\* iter_segmented_batches yields the next batch; its name must be free.
SegmentBatch(d) ==
  /\ At(d, "segment")
  /\ \/ Segmented(d) /\ Goto(d, "publish") /\ UNCHANGED <<partial, lock>>
     \/ ~Segmented(d) /\ loc[d].n + 1 \in Dir(Shard(d)).files /\ Raise(d) /\ UNCHANGED partial
     \/ ~Segmented(d) /\ loc[d].n + 1 \notin Dir(Shard(d)).files
          /\ OpenTemporary(d, "batch") /\ UNCHANGED lock
  /\ UNCHANGED <<inbox, active, hub, ledger, loc, history>>

\* Mutant: progress.json counts the batch before the batch is in place.
InstallBatchAhead(d) ==
  /\ At(d, "batch")
  /\ partial' = [partial EXCEPT ![Shard(d)] =
       [Dir(Shard(d)) EXCEPT !.progress = Progress(loc[d].found, loc[d].n + 1)]]
  /\ loc' = [loc EXCEPT ![d].n = @ + 1]
  /\ Goto(d, "advance")
  /\ UNCHANGED <<inbox, active, hub, ledger, lock, history>>

\* os.replace of the batch, which fails when an overlapping allocation has
\* removed the directory.
InstallBatch(d) ==
  /\ At(d, "batch")
  /\ \/ /\ Dir(Shard(d)).tmp
        /\ partial' = [partial EXCEPT ![Shard(d)].tmp = FALSE,
                                      ![Shard(d)].files = @ \cup {loc[d].n + 1}]
        /\ loc' = [loc EXCEPT ![d].n = @ + 1]
        /\ Goto(d, "advance") /\ UNCHANGED lock
     \/ ~Dir(Shard(d)).tmp /\ Raise(d) /\ UNCHANGED <<partial, loc>>
  /\ UNCHANGED <<inbox, active, hub, ledger, history>>

\* _write_progress
BeginProgress(d) ==
  /\ At(d, "advance")
  /\ OpenTemporary(d, "install")
  /\ UNCHANGED <<inbox, active, hub, ledger, lock, loc, history>>

\* The except clause of append_partial_batch removes the new batch, also
\* when progress.json counts it already.
WithoutLast(d) ==
  /\ partial' = IF partial[Shard(d)] = None THEN partial
                 ELSE [partial EXCEPT ![Shard(d)].tmp = FALSE,
                                      ![Shard(d)].files = @ \ {loc[d].n}]
  /\ mangled' = IF At(d, "sync") /\ loc[d].n > 0 THEN mangled \cup {Shard(d)} ELSE mangled
  /\ Raise(d)

InstallProgress(d) ==
  /\ At(d, "install")
  /\ \/ /\ Dir(Shard(d)).tmp
        /\ partial' = [partial EXCEPT ![Shard(d)].tmp = FALSE,
                                      ![Shard(d)].progress = Progress(loc[d].found, loc[d].n)]
        /\ Goto(d, "sync") /\ UNCHANGED <<lock, mangled>>
     \/ ~Dir(Shard(d)).tmp /\ WithoutLast(d)
  /\ UNCHANGED <<inbox, active, hub, ledger, loc, faults, overlaps>>

\* _fsync_dir_strict of the partial directory
SyncProgress(d) ==
  /\ At(d, "sync")
  /\ Goto(d, "segment")
  /\ UNCHANGED <<work, hub, lock, loc, history>>

ProgressFails(d) ==
  /\ pc[d] \in {"install", "sync"}
  /\ faults < MaxFaults /\ faults' = faults + 1
  /\ WithoutLast(d)
  /\ UNCHANGED <<inbox, active, hub, ledger, loc, overlaps>>

\* read_partial_table, _verify_pre_publish_manifest and the rename of
\* publish_shard_checkpoint, which refuses an existing active directory.
PublishShard(d) ==
  LET s == Shard(d)
      fine == /\ 1 .. loc[d].n \subseteq Dir(s).files
              /\ loc[d].found \subseteq inbox[s]
              /\ active[s] = None IN
  /\ At(d, "publish")
  /\ \/ /\ fine
        /\ active' = [active EXCEPT ![s] = Checkpoint(loc[d].found, 1 .. loc[d].n)]
        /\ Goto(d, "validate") /\ UNCHANGED lock
     \/ ~fine /\ Raise(d) /\ UNCHANGED active
  /\ UNCHANGED <<inbox, partial, hub, ledger, loc, history>>

\* load_shard_checkpoint, with the verified manifest
ValidatePublished(d) ==
  /\ At(d, "validate")
  /\ \/ Whole(Shard(d), active[Shard(d)]) /\ Goto(d, "discard") /\ UNCHANGED lock
     \/ ~Whole(Shard(d), active[Shard(d)]) /\ Raise(d)
  /\ UNCHANGED <<work, hub, loc, history>>

\* shutil.rmtree of a partial directory, entry by entry.
Shrunk(dir) ==
  {None} \cup {[progress |-> p, files |-> fs, tmp |-> t] :
                 p \in {dir.progress, None}, fs \in SUBSET dir.files, t \in {dir.tmp, FALSE}}

RemovePartial(d, at, next) ==
  /\ At(d, at)
  /\ partial' \in {[partial EXCEPT ![Shard(d)] = rest] : rest \in Shrunk(Dir(Shard(d)))}
  /\ IF partial'[Shard(d)] = None THEN Goto(d, next) ELSE UNCHANGED pc

DiscardPartial(d) ==
  /\ RemovePartial(d, "discard", "check")
  /\ lock' = IF partial'[Shard(d)] = None THEN NoDriver ELSE lock
  /\ UNCHANGED <<inbox, active, hub, ledger, loc, history>>

-----------------------------------------------------------------------------
(* The rest of process_shard, outside the lock.                            *)

\* Mutant: a locally valid checkpoint is as good as an uploaded one.
CheckActiveLocal(d) ==
  /\ At(d, "check")
  /\ \/ Whole(Shard(d), active[Shard(d)]) /\ Goto(d, "evictInbox") /\ UNCHANGED lock
     \/ ~Whole(Shard(d), active[Shard(d)]) /\ Raise(d)
  /\ UNCHANGED <<work, hub, loc, history>>

\* load_shard_checkpoint, then the checks that open upload_and_verify.
CheckActive(d) ==
  /\ At(d, "check")
  /\ \/ /\ Whole(Shard(d), active[Shard(d)])
        /\ hub[Shard(d)] = None \/ Whole(Shard(d), hub[Shard(d)])
        /\ Goto(d, IF hub[Shard(d)] = None THEN "upload" ELSE "evictInbox")
        /\ UNCHANGED lock
     \/ /\ ~Whole(Shard(d), active[Shard(d)]) \/ ~(hub[Shard(d)] = None \/ Whole(Shard(d), hub[Shard(d)]))
        /\ Raise(d)
  /\ UNCHANGED <<work, hub, loc, history>>

\* upload_folder: one commit of what the directory holds; files that are
\* already on the branch and not in the directory stay.
Committed(s) ==
  IF hub[s] # None /\ hub[s].manifest = active[s].manifest
    THEN [active[s] EXCEPT !.batches = @ \cup hub[s].batches] ELSE active[s]

\* The commit is read back; a reply can be lost after the commit was made.
Upload(d) ==
  LET s == Shard(d) IN
  /\ At(d, "upload")
  /\ \/ /\ active[s] # None
        /\ hub' = [hub EXCEPT ![s] = Committed(s)]
        /\ \/ Whole(s, hub'[s]) /\ Goto(d, "evictInbox") /\ UNCHANGED <<lock, faults>>
           \/ ~Whole(s, hub'[s]) /\ Raise(d) /\ UNCHANGED faults
           \/ faults < MaxFaults /\ faults' = faults + 1 /\ Raise(d)
     \/ active[s] = None /\ Raise(d) /\ UNCHANGED <<hub, faults>>
  /\ UNCHANGED <<work, loc, mangled, overlaps>>

\* _evict_local_shard_state: inbox, active and partial, in this order.
EvictInbox(d) == RemoveInbox(d, "evictInbox", "evictActive") /\ UNCHANGED loc

EvictActive(d) ==
  LET s == Shard(d) IN
  /\ At(d, "evictActive")
  /\ \/ Whole(s, active[s]) /\ active' = [active EXCEPT ![s].batches = {}] /\ UNCHANGED pc
     \/ active' = [active EXCEPT ![s] = None] /\ Goto(d, "evictPartial")
  /\ UNCHANGED <<inbox, partial, hub, ledger, lock, loc, history>>

EvictPartial(d) ==
  /\ RemovePartial(d, "evictPartial", "record")
  /\ UNCHANGED <<inbox, active, hub, ledger, lock, loc, history>>

\* _write_state merges the shard into the ledger this process has read.
RecordVerified(d) ==
  /\ At(d, "record")
  /\ ledger' = loc[d].verified \cup {Shard(d)}
  /\ loc' = [loc EXCEPT ![d].verified = ledger']
  /\ Goto(d, "pick")
  /\ UNCHANGED <<inbox, partial, active, hub, lock, history>>

\* Mutant: the failing shard is recorded with the others.
FailRecording(d) ==
  /\ At(d, "fail")
  /\ ledger' = loc[d].verified \cup {Shard(d)}
  /\ loc' = [loc EXCEPT ![d] = FreshLocal]
  /\ Goto(d, "down")
  /\ UNCHANGED <<inbox, partial, active, hub, lock, history>>

\* The except clause writes the ledger back and the process ends.
Fail(d) ==
  /\ At(d, "fail")
  /\ ledger' = loc[d].verified
  /\ loc' = [loc EXCEPT ![d] = FreshLocal]
  /\ Goto(d, "down")
  /\ UNCHANGED <<inbox, partial, active, hub, lock, history>>

-----------------------------------------------------------------------------
\* A segmenter, disk or Hub error inside the try block of process_shard; a
\* checkpoint found on the Hub is dealt with before it.
CallFails(d) ==
  /\ pc[d] \notin Outside \cup {"install", "sync", "fail"}
  /\ pc[d] \in Final => loc[d].found # {}
  /\ faults < MaxFaults /\ faults' = faults + 1
  /\ partial' = IF At(d, "batch") /\ partial[Shard(d)] # None
                   THEN [partial EXCEPT ![Shard(d)].tmp = FALSE] ELSE partial
  /\ Raise(d)
  /\ UNCHANGED <<inbox, active, ledger, hub, loc, mangled, overlaps>>

\* The walltime, Ctrl-C or an error before the try block; the kernel drops
\* the lock.
Kill(d) ==
  /\ ~At(d, "down")
  /\ faults < MaxFaults /\ faults' = faults + 1
  /\ lock' = IF lock = d THEN NoDriver ELSE lock
  /\ loc' = [loc EXCEPT ![d] = FreshLocal]
  /\ Goto(d, "down")
  /\ UNCHANGED <<work, hub, mangled, overlaps>>

Step(d) ==
  \/ PickShard(d) \/ InspectRemote(d) \/ PrepareInbox(d) \/ CleanInbox(d)
  \/ \E f \in Files : BeginFetch(d, f) \/ EndFetch(d, f)
  \/ DiscoverShard(d) \/ AcquireLock(d) \/ ReuseActive(d) \/ HashSources(d)
  \/ LoadPartial(d) \/ CreatePartial(d) \/ SegmentBatch(d) \/ InstallBatch(d)
  \/ BeginProgress(d) \/ InstallProgress(d) \/ SyncProgress(d) \/ PublishShard(d) \/ ValidatePublished(d)
  \/ DiscardPartial(d) \/ CheckActive(d) \/ Upload(d) \/ EvictInbox(d)
  \/ EvictActive(d) \/ EvictPartial(d) \/ RecordVerified(d) \/ Fail(d)

Fault(d) ==
  \/ \E f \in Files : FetchFails(d, f)
  \/ ProgressFails(d) \/ CallFails(d) \/ Kill(d)

Next == \E d \in Drivers : Start(d) \/ Step(d) \/ Fault(d)

Spec == Init /\ [][Next]_vars

\* An allocation goes on until it ends, and as long as shards are missing
\* the operator submits another one.
FairSpec ==
  /\ Spec
  /\ \A d \in Drivers : WF_vars(Step(d))
  /\ WF_vars(\E d \in Drivers : Start(d))

-----------------------------------------------------------------------------
(* Properties.                                                             *)

Checkpoints == Copies \cup {None}
Partials == Records \cup {None}
Locals ==
  [shard : Shards \cup {None}, found : SUBSET Files, n : Nat,
   todo : SUBSET Files, busy : SUBSET Files, failed : BOOLEAN, verified : SUBSET Shards]

\* Every variable has its type, and a driver counts no batch beyond its
\* shard.
TypeOK ==
  /\ inbox \in [Shards -> SUBSET Files]
  /\ partial \in [Shards -> Partials]
  /\ active \in [Shards -> Checkpoints] /\ hub \in [Shards -> Checkpoints]
  /\ ledger \subseteq Shards
  /\ lock \in Drivers \cup {NoDriver}
  /\ pc \in [Drivers -> Points]
  /\ loc \in [Drivers -> Locals]
  /\ \A d \in Drivers : loc[d].n > 0 => loc[d].n <= Total(Shard(d), loc[d].found)
  /\ mangled \subseteq Shards
  /\ faults \in 0 .. MaxFaults /\ overlaps \in 0 .. MaxOverlaps

\* The Hub holds whole checkpoints only, every batch of the inputs a checkpoint
\* names, and state.json never claims a shard the Hub does not have: a later
\* allocation may skip what the ledger names without asking the Hub, whatever
\* was killed and whichever of two allocations uploaded meanwhile.  (Three that
\* overlap, and have found different inputs, can break it: one commits the
\* half-removed checkpoint of one manifest over the whole one of another.)
LedgerOnHub ==
  /\ \A s \in Shards : hub[s] # None => Whole(s, hub[s])
  /\ \A s \in ledger : hub[s] # None

\* "Failures abort with both the inbox and the active slot preserved"
\* (scripts/streaming/driver.py): a valid local checkpoint is taken away only
\* when the Hub has the shard.  Like LedgerOnHub, for at most two allocations at
\* a time or for allocations that have all found the same inputs.
EvictedOnlyWhenUploaded ==
  [][\A s \in Shards : Whole(s, active[s]) /\ ~Whole(s, active'[s]) => Whole(s, hub[s])]_vars

\* Segmented batches that the progress file counts are never segmented again
\* until the whole shard exists ("it does not repeat completed batches",
\* docs/reference/cli.md).
Counted(dir) == IF dir = None \/ dir.progress = None THEN 0 ELSE dir.progress.n
Finished(s) == Whole(s, active[s]) \/ Whole(s, hub[s])
NeverRepeatBatch ==
  [][\A s \in Shards : ~Finished(s) => Counted(partial'[s]) >= Counted(partial[s])]_vars

\* Whenever nobody holds the lock, what is left of an unfinished shard can be
\* resumed with the inputs it was computed from: wherever the kill fell, the
\* batches that progress.json counts are there and at most the next one is
\* not counted.  The exceptions are a directory that never got its first
\* progress.json, and a batch removed because the directory could not be
\* synchronised after progress.json had been replaced.
PartialResumable ==
  \A s \in Shards \ mangled :
    lock = NoDriver /\ ~Finished(s) /\ partial[s] # None =>
      partial[s].progress = None \/ Loadable(partial[s], partial[s].progress.manifest)

\* A partial directory that load_partial_state refuses for good: killed
\* before its first progress.json, damaged by the failed synchronisation, or
\* computed from other inputs than the ones in the inbox.
Refused(s) ==
  /\ partial[s] # None
  /\ s \in mangled \/ ~Identified(partial[s], inbox[s])

\* Every shard is uploaded and recorded for good through kills, failing calls
\* and overlapping allocations, unless its partial directory is refused or,
\* main being sequential, that of an earlier shard.
ShardRecorded ==
  \A s \in Shards : \/ <>[](s \in ledger)
                    \/ \E r \in Shards : r <= s /\ <>[]Refused(r)

(* What the documentation says, and the code does not do.                  *)

\* "downloads at most one shard's six required Parquet inputs, processes it,
\* uploads ..." (docs/guides/grid5000.md): an uploaded checkpoint comes from
\* all the inputs of its shard.
AllInputsUploaded == \A s \in Shards : hub[s] # None => hub[s].manifest = Required(s)
=============================================================================
