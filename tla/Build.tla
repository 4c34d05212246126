------------------------------- MODULE Build --------------------------------
(***************************************************************************)
(* The build command (application/cli.py, application/pipeline.py and the  *)
(* shard checkpoints and export they use): the shards of an input root are *)
(* joined and segmented one by one under a persistent work directory, and  *)
(* the finalized dataset replaces the output directory.  The command is    *)
(* killed or fails at any step and is run again, while the input and the   *)
(* code move on between the runs and, for a local input, during a run.     *)
(*                                                                         *)
(* A shard's input is a version number, and Tables gives the rows of each  *)
(* version.  A command reads the files that it discovered: of a shard      *)
(* without its Wikivoyage pair it reads the core, whatever joins later.    *)
(* The work-directory lock lets one command in: a second one is refused    *)
(* and changes nothing, so there is one command here.  Staging and         *)
(* temporary directories that a kill leaves behind have fresh names and    *)
(* nobody reads them.                                                      *)
(***************************************************************************)
EXTENDS Joins, SentenceTable

CONSTANTS
  Tables,       \* for each shard, the sequence of its input versions
  MaxChanges,   \* changes of the input and of the code
  MaxMishaps,   \* kills, I/O errors and damaged files
  None,
  Malformed     \* an inventory that does not parse

Shards == DOMAIN Tables

ASSUME TablesAssumption == Shards \subseteq Nat /\ IsFiniteSet(Shards)
ASSUME InputsAssumption ==
  \A s \in Shards :
    Tables[s] \in Seq(ShardType) /\ \A v \in DOMAIN Tables[s] : Finite(Tables[s][v])
\* The ids of a shard's polygons begin with its key: the build takes that as given,
\* and the streaming finalization checks it (_verify_shard_namespace).
ASSUME NamespaceAssumption ==
  \A r, s \in Shards : r # s =>
    \A u \in DOMAIN Tables[r], v \in DOMAIN Tables[s] :
      \A p \in Tables[r][u].polygons, q \in Tables[s][v].polygons : p.id # q.id
\* The core of a version, as a command sees it that discovered no pair.
WithoutVoyage(t) ==
  [t EXCEPT !.files = @ \ VoyageTables, !.voyageDocuments = {}, !.voyageSections = {}]
Core(s, v) == CHOOSE u \in DOMAIN Tables[s] : Tables[s][u] = WithoutVoyage(Tables[s][v])

\* Versions differ, the core of each is one of them, and files that were
\* replaced do not come back.
ASSUME VersionsAssumption ==
  \A s \in Shards :
    /\ Tables[s] # <<>>
    /\ \A u, v \in DOMAIN Tables[s] : Tables[s][u] = Tables[s][v] => u = v
    /\ \A v \in DOMAIN Tables[s] :
         \E u \in DOMAIN Tables[s] : Tables[s][u] = WithoutVoyage(Tables[s][v])
    /\ \A u, v, w \in DOMAIN Tables[s] :
         u <= v /\ v <= w /\ Core(s, u) = Core(s, w) => Core(s, v) = Core(s, u)
ASSUME BoundsAssumption == MaxChanges \in Nat /\ MaxMishaps \in Nat

Lowest(S) == CHOOSE s \in S : \A r \in S : s <= r   \* shards run in key order

VARIABLES
  hub,          \* is the input a Hub snapshot, which never changes under a run?
  version,      \* version of each shard in the input
  here,         \* shards that are in the input
  code,         \* the source commit, model and revision the command is given
  active,       \* shards/active: the checkpoint of each shard, or None
  damaged,      \* active checkpoints that fail their checksum
  quarantine,   \* shards/quarantine
  inventory,    \* inventory.json: None, Malformed or a version for each shard
  heartbeat,    \* heartbeat.json
  output,       \* the output directory
  leftover,     \* .backup_* directories that no command owns
  served,       \* the export that was installed last
  published,    \* the three root files of the published dataset
  job,          \* the running command
  changes, mishaps

workDir == <<active, damaged, quarantine, inventory, heartbeat>>
outputs == <<output, leftover, served, published>>
input == <<hub, version, here, code>>
budgets == <<changes, mishaps>>
vars == <<input, workDir, outputs, job, budgets>>

\* The shards and versions that can be joined and segmented.
Checkpointable ==
  UNION {{<<s, v>> : v \in {v \in DOMAIN Tables[s] : Segmentable(Tables[s][v])}} :
           s \in Shards}

NoManifest == [s \in Shards |-> 0]
NoParts == [s \in Shards |-> None]
Idle == [pc |-> "idle", todo |-> {}, paired |-> {}, current |-> NoManifest,
         verdict |-> [s \in Shards |-> "none"], read |-> 0, parts |-> NoParts,
         done |-> 0, backup |-> None]

Init ==
  /\ hub \in BOOLEAN
  /\ version = [s \in Shards |-> 1] /\ here = Shards /\ code = 1
  /\ active = NoParts /\ damaged = {} /\ quarantine = {}
  /\ inventory = None /\ heartbeat = None
  /\ output = None /\ leftover = {} /\ served = None /\ published = None
  /\ job = Idle /\ changes = 0 /\ mishaps = 0

Go(pc) == job' = [job EXCEPT !.pc = pc]
Give(pc, S) == job' = [job EXCEPT !.pc = pc, !.todo = S]
Abort == job' = Idle
Kept == UNCHANGED <<input, budgets>>
-----------------------------------------------------------------------------
(***************************************************************************)
(* Checkpoints.                                                            *)
(***************************************************************************)
\* load_shard_checkpoint succeeds for these source files and this code.
Loads(s, manifest) ==
  /\ active[s] # None /\ s \notin damaged
  /\ active[s].code = code
  /\ active[s].manifest = manifest[s]

\* Mutant: the checkpoint is deleted.
SetAsideDeleted(s) ==
  /\ active' = [active EXCEPT ![s] = None]
  /\ damaged' = damaged \ {s}
  /\ UNCHANGED quarantine

\* quarantine_shard_checkpoint: a rename; nothing happens without a checkpoint.
SetAside(s) ==
  /\ quarantine' = quarantine \cup
       (IF active[s] = None THEN {} ELSE {active[s]})
  /\ active' = [active EXCEPT ![s] = None]
  /\ damaged' = damaged \ {s}

\* reconcile_inventory
Verdict(prior, current, s) ==
  CASE prior[s] = 0 /\ current[s] # 0 -> "added"
    [] prior[s] # 0 /\ current[s] = 0 -> "removed"
    [] prior[s] # 0 /\ current[s] # prior[s] -> "changed"
    [] prior[s] # 0 /\ current[s] = prior[s] -> "unchanged"
    [] OTHER -> "none"

In(verdict) == {s \in Shards : job.verdict[s] = verdict}
Found == {s \in Shards : job.current[s] # 0}
-----------------------------------------------------------------------------
(***************************************************************************)
(* The command.                                                            *)
(***************************************************************************)
\* main, run_pipeline: validate the arguments and take the lock.  Whether the
\* command has --overwrite and --publish-dataset-id is chosen where it matters.
Start ==
  /\ job.pc = "idle"
  /\ Go("discover")
  /\ Kept /\ UNCHANGED <<workDir, outputs>>

\* acquire_dataset_snapshot refuses an empty snapshot, discover_shards an
\* incomplete shard; a local input may be empty.
Discover ==
  /\ job.pc = "discover"
  /\ IF (\A s \in here : Complete(Tables[s][version[s]])) /\ (hub => here # {})
     THEN job' = [job EXCEPT !.pc = "hash", !.todo = here,
                    !.paired = {s \in here : HasVoyage(Tables[s][version[s]])}]
     ELSE Abort
  /\ Kept /\ UNCHANGED <<workDir, outputs>>

\* The files that discover_shards found are there, and what they hold by now.
Readable(s) ==
  /\ s \in here
  /\ CoreTables \subseteq Tables[s][version[s]].files
  /\ s \in job.paired => VoyageTables \subseteq Tables[s][version[s]].files
View(s, v) == IF s \in job.paired THEN v ELSE Core(s, v)
Seen(s) == View(s, version[s])

\* compute_run_inventory: one shard after the other; a vanished file aborts.
Hash ==
  /\ job.pc = "hash" /\ job.todo # {}
  /\ LET s == Lowest(job.todo)
     IN IF Readable(s)
        THEN job' = [job EXCEPT !.current[s] = Seen(s), !.todo = @ \ {s}]
        ELSE Abort
  /\ Kept /\ UNCHANGED <<workDir, outputs>>

\* load_run_inventory_quarantine_first, then reconcile_inventory.
Reconcile ==
  /\ job.pc = "hash" /\ job.todo = {}
  /\ inventory' = IF inventory = Malformed THEN None ELSE inventory
  /\ LET prior == IF inventory \in {None, Malformed} THEN NoManifest ELSE inventory
         verdict == [s \in Shards |-> Verdict(prior, job.current, s)]
     IN job' = [job EXCEPT !.pc = "recover", !.verdict = verdict,
                  !.todo = {s \in Shards : verdict[s] = "added" /\ active[s] # None}]
  /\ Kept /\ UNCHANGED <<active, damaged, quarantine, heartbeat, outputs>>

\* 5b: a checkpoint the inventory does not know is reused if it is the
\* checkpoint of the current files, and set aside otherwise.
Recover ==
  /\ job.pc = "recover" /\ job.todo # {}
  /\ LET s == Lowest(job.todo)
     IN IF Loads(s, job.current)
        THEN /\ job' = [job EXCEPT !.todo = @ \ {s}, !.verdict[s] = "unchanged"]
             /\ UNCHANGED <<active, damaged, quarantine>>
        ELSE /\ SetAside(s)
             /\ job' = [job EXCEPT !.todo = @ \ {s}, !.verdict[s] = "none"]
  /\ Kept /\ UNCHANGED <<inventory, heartbeat, outputs>>

Recovered ==
  /\ job.pc = "recover" /\ job.todo = {}
  /\ Give("remove", In("removed"))
  /\ Kept /\ UNCHANGED <<workDir, outputs>>

\* The checkpoints of shards that left the input, then the first heartbeat.
Retire ==
  /\ job.pc = "remove" /\ job.todo # {}
  /\ SetAside(Lowest(job.todo))
  /\ job' = [job EXCEPT !.todo = @ \ {Lowest(job.todo)}]
  /\ Kept /\ UNCHANGED <<inventory, heartbeat, outputs>>

Beat(stage) == heartbeat' = [stage |-> stage, completed |-> job.done]

Retired ==
  /\ job.pc = "remove" /\ job.todo = {}
  /\ Give("shard", Found)
  /\ Beat("processing")
  /\ Kept /\ UNCHANGED <<active, damaged, quarantine, inventory, outputs>>

\* The shard is done: its table is collected and the heartbeat moves on.
Collect(s, part) ==
  /\ heartbeat' = [stage |-> "processing", completed |-> job.done + 1]
  /\ job' = [job EXCEPT !.pc = "shard", !.todo = @ \ {s}, !.parts[s] = part,
                        !.done = @ + 1, !.read = 0]

AtShard(s) == job.pc = "shard" /\ job.todo # {} /\ s = Lowest(job.todo)
\* What a checkpoint stands for, and what a run exports of a shard.
Part(c) == [version |-> c.version, code |-> c.code]

\* 6a: an unchanged shard whose checkpoint loads.
Reuse(s) ==
  /\ AtShard(s)
  /\ job.verdict[s] = "unchanged" /\ Loads(s, job.current)
  /\ Collect(s, Part(active[s]))
  /\ Kept /\ UNCHANGED <<active, damaged, quarantine, inventory, outputs>>

\* Mutant: the old checkpoint stays in its slot.
RequeueInPlace(s) ==
  /\ AtShard(s)
  /\ \/ job.verdict[s] = "unchanged" /\ ~Loads(s, job.current)
     \/ job.verdict[s] = "changed"
  /\ job' = [job EXCEPT !.verdict[s] = "added"]
  /\ Kept /\ UNCHANGED <<workDir, outputs>>

\* 6a, 6b: an unchanged checkpoint that does not load and the checkpoint of a
\* changed shard are set aside before the shard is segmented again.
Requeue(s) ==
  /\ AtShard(s)
  /\ \/ job.verdict[s] = "unchanged" /\ ~Loads(s, job.current)
     \/ job.verdict[s] = "changed"
  /\ SetAside(s)
  /\ job' = [job EXCEPT !.verdict[s] = "added"]
  /\ Kept /\ UNCHANGED <<inventory, heartbeat, outputs>>

\* 6c: join and segment the files as they are now.
Segment(s) ==
  /\ AtShard(s)
  /\ job.verdict[s] \in {"added", "none"}
  /\ IF Readable(s) /\ <<s, Seen(s)>> \in Checkpointable
     THEN job' = [job EXCEPT !.pc = "verify", !.read = Seen(s)]
     ELSE Abort
  /\ Kept /\ UNCHANGED <<workDir, outputs>>

Checkpoint(s) ==
  [shard |-> s, manifest |-> job.current[s], version |-> job.read, code |-> code]

\* publish_shard_checkpoint: a rename that refuses to replace a checkpoint.
Publish(s) ==
  /\ active[s] = None
  /\ active' = [active EXCEPT ![s] = Checkpoint(s)]
  /\ Collect(s, Part(Checkpoint(s)))
  /\ UNCHANGED <<damaged, quarantine, inventory>>

\* Mutant: published as read, whatever the files are by now.
PublishUnverified ==
  /\ job.pc = "verify"
  /\ LET s == Lowest(job.todo)
     IN IF active[s] = None THEN Publish(s) ELSE Abort /\ UNCHANGED workDir
  /\ Kept /\ UNCHANGED outputs

\* _verify_pre_publish_manifest, then the publication.  The staged files are
\* validated in place first, so what is renamed into the slot is whole.
VerifyAndPublish ==
  /\ job.pc = "verify"
  /\ LET s == Lowest(job.todo)
     IN IF Readable(s) /\ Seen(s) = job.current[s] /\ active[s] = None
        THEN Publish(s) ELSE Abort /\ UNCHANGED workDir
  /\ Kept /\ UNCHANGED outputs

\* 7: the inventory is written once every shard has its checkpoint.
WriteInventory ==
  /\ job.pc = "shard" /\ job.todo = {}
  /\ inventory' = job.current
  /\ Go("export")
  /\ Kept /\ UNCHANGED <<active, damaged, quarantine, heartbeat, outputs>>
-----------------------------------------------------------------------------
(***************************************************************************)
(* Finalization and export.                                                *)
(***************************************************************************)
\* finalize_sentence_dataset of the concatenated tables of a choice of versions,
\* with 0 for a shard that is not in it.
VersionChoices ==
  {m \in [Shards -> UNION {0 .. Len(Tables[s]) : s \in Shards}] :
     \A s \in Shards : m[s] <= Len(Tables[s])}
RowsOf ==
  [m \in VersionChoices |->
     Finalized(UNION {Occurrences(Tables[s][m[s]]) : s \in {s \in Shards : m[s] # 0}})]

\* The rows of an export.
Versions(e) ==
  [s \in Shards |-> IF e.parts[s] = None THEN 0 ELSE e.parts[s].version]
Rows(e) == RowsOf[Versions(e)]

\* compute_statistics counts over the whole table.
CountsBy(rows, column) ==
  [v \in {rows[i][column] : i \in DOMAIN rows} |->
     Cardinality({i \in DOMAIN rows : rows[i][column] = v})]
Statistics(rows) ==
  [rows |-> Len(rows), ids |-> Cardinality({rows[i].id : i \in DOMAIN rows}),
   polygons |-> Cardinality({rows[i].polygon : i \in DOMAIN rows}),
   sources |-> CountsBy(rows, "source")]

\* compute_parquet_statistics reads the rows one by one, with the distinct
\* values in a database, and fails where the order breaks.
Scanned(rows) ==
  LET scan[i \in 0 .. Len(rows)] ==
        IF i = 0
        THEN [sorted |-> TRUE, rows |-> 0, ids |-> {}, polygons |-> {},
              sources |-> [v \in {} |-> 0]]
        ELSE LET acc == scan[i - 1]
                 r == rows[i]
             IN [sorted |-> acc.sorted
                   /\ (i > 1 => Lexicographic(rows[i - 1].id, r.id)),
                 rows |-> acc.rows + 1, ids |-> acc.ids \cup {r.id},
                 polygons |-> acc.polygons \cup {r.polygon},
                 sources |-> [v \in DOMAIN acc.sources \cup {r.source} |->
                   (IF v \in DOMAIN acc.sources THEN acc.sources[v] ELSE 0)
                     + (IF v = r.source THEN 1 ELSE 0)]]
  IN scan[Len(rows)]

\* validate_export_directory: the manifest's statistics are those of the rows.
Consistent(rows) ==
  LET scan == Scanned(rows)
  IN /\ scan.sorted /\ Cardinality(scan.ids) = scan.rows
     /\ [rows |-> scan.rows, ids |-> Cardinality(scan.ids),
         polygons |-> Cardinality(scan.polygons), sources |-> scan.sources]
          = Statistics(rows)
Valid == {m \in VersionChoices : Consistent(RowsOf[m])}
Validates(e) == Versions(e) \in Valid

\* What export_finalized_dataset is given: the collected tables, and one revision
\* and one version for all rows.
Export == [inventory |-> job.current, code |-> code, parts |-> job.parts]

\* export_finalized_dataset: without --overwrite an output in the way stops it,
\* after all the work.
Refuse ==
  /\ job.pc = "export" /\ output # None
  /\ Abort
  /\ Kept /\ UNCHANGED <<workDir, outputs>>

\* Mutant: the old output is removed, not renamed.
MoveAsideRemoved ==
  /\ job.pc = "export" /\ Go("install")
  /\ output' = None
  /\ Kept /\ UNCHANGED <<workDir, leftover, served, published>>

\* install_atomic: the old output is renamed aside, then the new one in place.
MoveAside ==
  /\ job.pc = "export"
  /\ job' = [job EXCEPT !.pc = "install", !.backup = output]
  /\ output' = None
  /\ Kept /\ UNCHANGED <<workDir, leftover, served, published>>

Install ==
  /\ job.pc = "install"
  /\ output' = Export /\ served' = Export
  /\ Go(IF job.backup = None THEN "completed" ELSE "drop")
  /\ Kept /\ UNCHANGED <<workDir, leftover, published>>

\* Mutant: the backup stays the command's.
DropBackupForgotten ==
  /\ job.pc = "drop" /\ Go("completed")
  /\ Kept /\ UNCHANGED <<workDir, outputs>>

\* remove_backup
DropBackup ==
  /\ job.pc = "drop"
  /\ job' = [job EXCEPT !.pc = "completed", !.backup = None]
  /\ Kept /\ UNCHANGED <<workDir, outputs>>

\* The last heartbeat; the lock is released and main publishes, if asked to.
Finish ==
  /\ job.pc = "completed"
  /\ Beat("completed")
  /\ Go("publish") \/ Abort
  /\ Kept /\ UNCHANGED <<active, damaged, quarantine, inventory, outputs>>

\* publish_export_directory: one commit of the validated files.
PublishExport ==
  /\ job.pc = "publish"
  /\ published' = IF output # None /\ Validates(output) THEN output ELSE published
  /\ Abort
  /\ Kept /\ UNCHANGED <<workDir, output, leftover, served>>
-----------------------------------------------------------------------------
(***************************************************************************)
(* Mishaps, and the world around the command.                              *)
(***************************************************************************)
Mishap == mishaps < MaxMishaps /\ mishaps' = mishaps + 1

KeepBackup == leftover' = leftover \cup ({job.backup} \ {None})

\* A kill at any step, or an exception at a step that cleans nothing up.
Kill ==
  /\ Mishap /\ job.pc # "idle"
  /\ KeepBackup /\ Abort
  /\ UNCHANGED <<input, workDir, output, served, published, changes>>

\* The rename into place fails: the old output is put back, and if that fails
\* too its backup stays.
InstallFails ==
  /\ Mishap /\ job.pc = "install"
  /\ \/ output' = job.backup /\ UNCHANGED leftover
     \/ KeepBackup /\ UNCHANGED output
  /\ Abort
  /\ UNCHANGED <<input, workDir, served, published, changes>>

\* Removing the backup fails: the command fails after its new output is in
\* place, and cleanup_on_failure tries to remove the backup once more.
DropFails ==
  /\ Mishap /\ job.pc = "drop"
  /\ KeepBackup \/ UNCHANGED leftover
  /\ Abort
  /\ UNCHANGED <<input, workDir, output, served, published, changes>>

\* The commit is made and its answer is lost.
AnswerLost ==
  /\ Mishap /\ job.pc = "publish"
  /\ output # None /\ Validates(output)
  /\ published' = output
  /\ Abort
  /\ UNCHANGED <<input, workDir, output, leftover, served, changes>>

\* A file of the work directory is damaged while no command runs.
Damage ==
  /\ Mishap /\ job.pc = "idle"
  /\ \/ /\ \E s \in Shards \ damaged :
            active[s] # None /\ damaged' = damaged \cup {s}
        /\ UNCHANGED inventory
     \/ /\ inventory \notin {None, Malformed} /\ inventory' = Malformed
        /\ UNCHANGED damaged
  /\ UNCHANGED <<input, active, quarantine, heartbeat, outputs, job, changes>>

\* The input moves on: new files for a shard, a shard that leaves or joins.
\* A Hub input is another snapshot, at another path, with another revision.
ChangeInput ==
  /\ changes < MaxChanges /\ changes' = changes + 1
  /\ hub => job.pc = "idle"
  /\ \E s \in Shards :
       \/ /\ version[s] < Len(Tables[s]) /\ s \in here
          /\ version' = [version EXCEPT ![s] = @ + 1] /\ UNCHANGED here
       \/ /\ here' = IF s \in here THEN here \ {s} ELSE here \cup {s}
          /\ UNCHANGED version
  /\ code' = IF hub THEN code + 1 ELSE code
  /\ UNCHANGED <<hub, workDir, outputs, job, mishaps>>

\* The operator moves to another commit, model, batch size or revision.
ChangeCode ==
  /\ changes < MaxChanges /\ changes' = changes + 1
  /\ job.pc = "idle"
  /\ code' = code + 1
  /\ UNCHANGED <<hub, version, here, workDir, outputs, job, mishaps>>
-----------------------------------------------------------------------------
Main ==
  \/ Discover \/ Hash \/ Reconcile \/ Recover \/ Recovered \/ Retire \/ Retired
  \/ \E s \in Shards : Reuse(s) \/ Requeue(s) \/ Segment(s)
  \/ VerifyAndPublish \/ WriteInventory
  \/ Refuse \/ MoveAside \/ Install \/ DropBackup \/ Finish \/ PublishExport

World == Start \/ Kill \/ InstallFails \/ DropFails \/ AnswerLost \/ Damage
           \/ ChangeInput \/ ChangeCode

Next == Main \/ World

Spec == Init /\ [][Next]_vars

\* A started command goes on, and the operator repeats it, not forever without
\* --overwrite.
Fairness == WF_vars(Start) /\ WF_vars(Main) /\ SF_vars(MoveAside)

FairSpec == Spec /\ Fairness
-----------------------------------------------------------------------------
(***************************************************************************)
(* Properties.                                                             *)
(***************************************************************************)
Manifests == [Shards -> Nat]
Parts == [version : Nat \ {0}, code : Nat]
Exports == [inventory : Manifests, code : Nat, parts : [Shards -> Parts \cup {None}]]
Checkpoints ==
  [shard : Shards, manifest : Nat \ {0}, version : Nat \ {0}, code : Nat]

\* The type invariant: checkpoints lie in their own slot, only a checkpoint is
\* damaged, and a command owns a backup only between its two renames and the
\* removal.
TypeOK ==
  /\ version \in [Shards -> Nat \ {0}] /\ here \subseteq Shards
  /\ \A s \in Shards : active[s] # None => active[s] \in Checkpoints /\ active[s].shard = s
  /\ damaged \subseteq {s \in Shards : active[s] # None}
  /\ quarantine \subseteq Checkpoints
  /\ inventory \in {None, Malformed} \/ inventory \in Manifests
  /\ heartbeat # None => heartbeat.stage \in {"processing", "completed"}
  /\ {output, served, published} \subseteq Exports \cup {None}
  /\ leftover \subseteq Exports
  /\ job.backup # None => job.pc \in {"install", "drop"}
  /\ changes \in 0 .. MaxChanges /\ mishaps \in 0 .. MaxMishaps

\* How often a sentence stands in the sections tied to a polygon: by a link to
\* their document, or by the QID of their Wikivoyage document.
Stands(t, polygon, text) ==
  LET Linked(s) ==
        \E d \in t.documents, l \in t.links :
          /\ d.id = s.document /\ l.polygon = polygon
          /\ IF t.layout = "document_id"
             THEN l.project = "wikipedia" /\ l.key = d.id ELSE l.key = d.article
      SameQid(s) ==
        \E d \in t.voyageDocuments, p \in t.polygons :
          d.id = s.document /\ p.id = polygon /\ p.qids = d.qids
      At(sections) ==
        UNION {{<<s.id, i>> : i \in {i \in DOMAIN s.text : s.text[i] = text}} :
                 s \in sections}
  IN Cardinality(At({s \in t.sections : Linked(s)}))
       + (IF HasVoyage(t) THEN Cardinality(At({s \in t.voyageSections : SameQid(s)}))
          ELSE 0)

Texts(t) == (UNION {Range(s.text) : s \in t.sections \cup t.voyageSections}) \ {0}

\* The rows made of these versions count every sentence as often as it stands.
Faithful(m) ==
  \A s \in {s \in Shards : m[s] # 0} :
    LET t == Tables[s][m[s]]
        rows == Range(RowsOf[m])
    IN \A p \in t.polygons, w \in Texts(t) :
         {r.count : r \in {r \in rows : r.id = <<p.id, w>>}}
           = {Stands(t, p.id, w)} \ {0}

\* What an export says of itself: for every shard of its inventory the version
\* that was hashed, segmented by the code it names, and nothing of other shards.
Sourced(e) ==
  \A s \in Shards :
    e.parts[s] = IF e.inventory[s] = 0 THEN None
                 ELSE [version |-> e.inventory[s], code |-> e.code]

\* The output is made of the files its inventory hashed and of no others, all
\* segmented by the code it names.  Checkpoints of earlier runs, files that
\* change while they are read and shards that come and go make this hard
\* (docs/reference/cli.md, --work-dir).
ExportIsInventory == output # None => Sourced(output)

\* Whatever the build exports or publishes holds the sentences of its files, each
\* once per polygon and counted as often as it stands there, and passes the
\* build's own validation: the streaming scan finds the rows strictly sorted, and
\* counts what the exporter counted over the whole table.
ExportIsFaithful ==
  \A e \in {output, published} \ {None} : Faithful(Versions(e)) /\ Consistent(Rows(e))

\* The last installed export is in the output directory or in a backup, at
\* every step of the swap and after every kill in it.
OutputKept ==
  served # None => served \in {output, job.backup} \cup leftover

\* A published checkpoint is never lost: it leaves its slot for the quarantine and
\* stays there.  And no run sets aside one it could have used, except where
\* inventory.json still names other files for the shard: a run killed after it
\* replaced the checkpoint of a changed shard leaves that state.
CheckpointsKept ==
  [][/\ quarantine \subseteq quarantine'
     /\ \A s \in Shards :
          (active[s] # None /\ active'[s] # active[s]) =>
            /\ active[s] \in quarantine'
            /\ Loads(s, job.current) => job.verdict[s] = "changed"]_vars

\* An input that can be built, shard by shard.
Buildable ==
  /\ \A s \in here : <<s, version[s]>> \in Checkpointable
  /\ hub => here # {}

Exported ==
  /\ output # None /\ output.code = code
  /\ output.inventory = [s \in Shards |-> IF s \in here THEN version[s] ELSE 0]

\* A build that is repeated with --overwrite exports the current input, again
\* and again, whatever killed runs left behind.
RunExports == []<>(Buildable => Exported)
=============================================================================
