---------------------------- MODULE SampleLedger ----------------------------
(***************************************************************************)
(* The streaming finalization: CPU allocations turn the segmented shards   *)
(* of a run into the labeling input.                                       *)
(*                                                                         *)
(* A worldwide V2 run finalizes each shard, stages the result on the Hub   *)
(* and samples over all of them through a SQLite ledger on the persistent  *)
(* run root (scripts/streaming/v2_finalization.py,                         *)
(* labeling/v2_resumable_sampling.py), so that a later allocation goes on  *)
(* where one was killed.  A run without a target streams every shard       *)
(* through allocation scratch and keeps nothing                            *)
(* (scripts/streaming/finalization.py).  The operator takes the output of  *)
(* the first allocation that ends with exit code 0.                        *)
(*                                                                         *)
(* Simplifications.  The segmented shards are complete and do not change   *)
(* (ShardStream); one allocation runs at a time.  A SQLite transaction is  *)
(* one step, and so is an atomic replacement of a file.  Rows are numbered *)
(* over all shards from 1; a retention batch is BatchSize rows.  A polygon *)
(* is of one shard, so the uniqueness index of the sentence ids never      *)
(* refuses a row.                                                          *)
(***************************************************************************)
EXTENDS SentenceTable, Sampling

CONSTANTS
  Worlds,      \* the inputs: records [occs, place, target]
  Targets,     \* the sampling targets the operator may raise the run to
  BatchSize,   \* rows of a retention batch
  None,        \* a file that does not exist
  MaxKills     \* allocations that are killed

ASSUME BatchAssumption == BatchSize \in Nat \ {0}
ASSUME KillsAssumption == MaxKills \in Nat
ASSUME TargetsAssumption == Targets \subseteq Nat \ {0}

\* The ledger of an input.
LedgerType(w) ==
  [offset : [DOMAIN w.occs -> Nat \cup {None}], kept : [DOMAIN w.occs -> Nat],
   retained : SUBSET DOMAIN w.occs, cand : SUBSET Int]
ASSUME NoneAssumption == None \notin Nat /\ \A w \in Worlds : None \notin LedgerType(w)

WorldOK(w) ==
  /\ w.target \in Nat
  /\ w.occs \in Seq(SUBSET OccurrenceType) /\ Namespaced(w.occs)
  /\ \A s \in DOMAIN w.occs : IsFiniteSet(w.occs[s]) /\ Placed(w.occs[s])
  /\ \A s \in DOMAIN w.occs : \A o \in w.occs[s] :
       o.polygon \in DOMAIN w.place /\ SentenceRank[SentenceId(o)] \in Nat
  /\ RanksDiffer(w.place)

\* An occurrence has a place of its own in its section, the metadata of every polygon is
\* there, and no two polygons or cells have the same rank.  A polygon is of one shard.
ASSUME WorldsAssumption == \A w \in Worlds : WorldOK(w)

VARIABLES
  world,      \* the input of the run: occurrences per shard, place of each polygon
  budget,     \* the sampling_target fact of the operator's run state; 0 for none
  hub,        \* per shard, the finalized artifact on the staging branch
  state,      \* the target in state.json
  db,         \* the SQLite ledger
  cache,      \* per shard, the materialized rows and the file that describes them
  job,        \* the running allocation
  delivered,  \* outputs renamed into place under the log root
  accepted,   \* the output the operator recorded
  kills       \* history

durable == <<hub, state, db, cache>>
vars == <<world, budget, durable, job, delivered, accepted, kills>>

Shards == DOMAIN world.occs
Sampled == world.target # 0

Points == {"down", "open", "stream", "ledger", "state", "grow", "plan", "commit", "build",
           "retain", "compact", "rows", "meta", "write", "persist", "exit"}
NoPlan == [position |-> <<>>, schedule |-> <<>>, quota |-> <<>>]
NoJob == [pc |-> "down", target |-> 0, plan |-> NoPlan, heap |-> {}, shard |-> 1,
          rows |-> {}, out |-> None]
NoCache == [table |-> None, meta |-> None]

\* A ledger as CREATE TABLE leaves it.
EmptyLedger == [offset |-> [s \in Shards |-> None], kept |-> [s \in Shards |-> 0],
                retained |-> {}, cand |-> {}]

Init ==
  /\ world \in Worlds
  /\ budget = world.target
  /\ hub = [s \in Shards |-> None]
  /\ state = None /\ db = None
  /\ cache = [s \in Shards |-> NoCache]
  /\ job = NoJob
  /\ delivered = {} /\ accepted = None /\ kills = 0

At(point) == job.pc = point
Goto(point) == job' = [job EXCEPT !.pc = point]

-----------------------------------------------------------------------------
(* The rows behind the ledger.                                             *)

Planned == {s \in Shards : db.offset[s] # None}
Numbers(s) == {db.offset[s] + i : i \in 1 .. Len(hub[s])}
Counted == UNION {Numbers(s) : s \in Planned}
ShardOf(k) == CHOOSE s \in Planned : k \in Numbers(s)
PlannedRows == [k \in Counted |-> hub[ShardOf(k)][k - db.offset[ShardOf(k)]]]
Located(rows, S) == S \cap Eligible(rows, world.place)

\* The first rows of S in each stratum of a plan, as many as its quota.
Best(rows, plan, S) ==
  {i \in S : LET cell == CellOf(rows, world.place, i)
                 before == {j \in S : /\ CellOf(rows, world.place, j) = cell
                                      /\ RowBefore(rows, plan.position, j, i)}
             IN cell \in DOMAIN plan.quota /\ Cardinality(before) < plan.quota[cell]}

-----------------------------------------------------------------------------
(* The operator and the scheduler.                                         *)

\* sync_sampling_target: a target only grows.
RaiseTarget(t) ==
  /\ Sampled /\ accepted = None
  /\ t > budget
  /\ budget' = t
  /\ UNCHANGED <<world, durable, job, delivered, accepted, kills>>

\* split_finalization_submission: an allocation with the recorded target and
\* fresh scratch.
StartJob ==
  /\ At("down") /\ accepted = None
  /\ job' = [NoJob EXCEPT !.pc = IF Sampled THEN "open" ELSE "stream", !.target = budget]
  /\ UNCHANGED <<world, budget, durable, delivered, accepted, kills>>

\* finalize_split_checkpointed: the exit code is 0, the job id is recorded.
AcceptOutput ==
  /\ At("exit")
  /\ accepted' = job.out
  /\ job' = NoJob
  /\ UNCHANGED <<world, budget, durable, delivered, kills>>

\* The allocation is killed, or a call fails and the wrapper exits non-zero.
Kill ==
  /\ ~At("down") /\ kills < MaxKills
  /\ kills' = kills + 1
  /\ job' = NoJob
  /\ UNCHANGED <<world, budget, durable, delivered, accepted>>

-----------------------------------------------------------------------------
(* Without a target: finalize_streamed_run, all of it in scratch.          *)

Output(rows) ==
  [target |-> job.target, rows |-> rows,
   total |-> TotalReport([s \in Shards |-> Report(world.occs[s])])]

StreamShards ==
  /\ At("stream")
  /\ LET rows == FlattenSeq([s \in Shards |-> Finalized(world.occs[s])])
     IN job' = [job EXCEPT !.pc = "persist", !.out = Output([i \in DOMAIN rows |-> rows[i].id])]
  /\ UNCHANGED <<world, budget, durable, delivered, accepted, kills>>

-----------------------------------------------------------------------------
(* select_v2_shards_resumable: the state file and the ledger.              *)

\* Mutant: a state file of the same target is refused.
OpenStateStrict ==
  /\ At("open")
  /\ IF \/ state = None /\ db # None
        \/ state # None /\ job.target <= state
       THEN job' = NoJob
       ELSE Goto("ledger")
  /\ UNCHANGED <<world, budget, durable, delivered, accepted, kills>>

\* A ledger without its state file is refused, and so is a smaller target.
OpenState ==
  /\ At("open")
  /\ IF \/ state = None /\ db # None
        \/ state # None /\ job.target < state
       THEN job' = NoJob
       ELSE Goto("ledger")
  /\ UNCHANGED <<world, budget, durable, delivered, accepted, kills>>

\* _PersistentPlanner.__init__
OpenLedger ==
  /\ At("ledger")
  /\ db' = IF db = None THEN EmptyLedger ELSE db
  /\ Goto("state")
  /\ UNCHANGED <<world, budget, hub, state, cache, delivered, accepted, kills>>

\* Mutant: a larger target goes on from the rows already retained.
ClearedNothing(l) == l

\* clear_candidates
Cleared(l) == [l EXCEPT !.cand = {}, !.retained = {}, !.kept = [s \in Shards |-> 0]]

\* The ledger is cleared for a larger target only.
CheckTarget ==
  /\ At("state")
  /\ IF state # None /\ job.target = state
       THEN Goto("plan") /\ UNCHANGED db
       ELSE /\ db' = IF state = None THEN db ELSE Cleared(db)
            /\ Goto("grow")
  /\ UNCHANGED <<world, budget, hub, state, cache, delivered, accepted, kills>>

WriteState ==
  /\ At("grow")
  /\ state' = job.target
  /\ Goto("plan")
  /\ UNCHANGED <<world, budget, hub, db, cache, delivered, accepted, kills>>

-----------------------------------------------------------------------------
(* Planning: every shard is read once, in one transaction.                 *)

Unplanned == Shards \ Planned

\* inspect: a verified artifact of the shard is on the staging branch.
Staged(s) == hub[s] # None

\* upload_and_verify: table and metadata go up in one commit.
Upload(s, table) == hub' = [hub EXCEPT ![s] = table]

\* materialize: a staged artifact is used again, otherwise the shard is
\* finalized, enriched and uploaded.
StageShard ==
  /\ At("plan") /\ Unplanned # {}
  /\ LET s == Min(Unplanned)
     IN IF Staged(s) THEN UNCHANGED hub ELSE Upload(s, Finalized(world.occs[s]))
  /\ Goto("commit")
  /\ UNCHANGED <<world, budget, state, db, cache, delivered, accepted, kills>>

\* observe for each batch, then finish_planning_shard.
PlanShard ==
  /\ At("commit")
  /\ LET s == Min(Unplanned)
     IN db' = [db EXCEPT !.offset[s] = Cardinality(Counted)]
  /\ Goto("plan")
  /\ UNCHANGED <<world, budget, hub, state, cache, delivered, accepted, kills>>

\* _build_plan
Plan(rows, target) ==
  LET sizes == StratumSizes(rows, world.place)
      schedule == Schedule(sizes, target)
  IN [position |-> Position(PolygonOrder(Seen(rows, world.place))),
      schedule |-> schedule,
      quota |-> [c \in {turn[1] : turn \in ToSet(schedule)} |->
                  Cardinality({turn \in ToSet(schedule) : turn[1] = c})]]

BuildPlan ==
  /\ At("plan") /\ Unplanned = {}
  /\ \E rows \in {PlannedRows} :
       job' = [job EXCEPT !.pc = "build", !.plan = Plan(rows, job.target)]
  /\ UNCHANGED <<world, budget, durable, delivered, accepted, kills>>

-----------------------------------------------------------------------------
(* Retention: the best rows of each stratum, one transaction per batch.    *)

\* _heaps_from_database and compact_candidates.
LoadHeaps ==
  /\ At("build")
  /\ \E rows \in {PlannedRows} :
       LET best == Best(rows, job.plan, db.cand)
       IN /\ job' = [job EXCEPT !.pc = "retain", !.heap = best]
          /\ db' = [db EXCEPT !.cand = best]
  /\ UNCHANGED <<world, budget, hub, state, cache, delivered, accepted, kills>>

Unretained == Shards \ db.retained
\* Mutant: the end of the shard does not end its last batch.
BatchEndUnbounded(s) == db.kept[s] + BatchSize

BatchEnd(s) == Min({db.kept[s] + BatchSize, Len(hub[s])})
Batch(rows, s) == Located(rows, {db.offset[s] + i : i \in (db.kept[s] + 1) .. BatchEnd(s)})

\* The rows that entered their heap when the scan came to them.
Entered(rows, batch) ==
  {i \in batch : i \in Best(rows, job.plan, job.heap \cup {j \in batch : j <= i})}

\* Rows that leave a heap are deleted before the batch is inserted, so a row
\* that enters and leaves within one batch stays in the ledger.
Ledgered(cand, heap, entered) == (cand \ (job.heap \ heap)) \cup entered

RetainBatch ==
  /\ At("retain") /\ Unretained # {}
  /\ \E s \in {Min(Unretained)}, rows \in {PlannedRows} : \E batch \in {Batch(rows, s)} :
       LET heap == Best(rows, job.plan, job.heap \cup batch)
           entered == Entered(rows, batch)
       IN /\ db.kept[s] < Len(hub[s])
          /\ entered \cap db.cand \subseteq job.heap \ heap  \* the primary key
          /\ job' = [job EXCEPT !.heap = heap]
          /\ db' = [db EXCEPT !.cand = Ledgered(db.cand, heap, entered),
                              !.kept[s] = BatchEnd(s)]
  /\ UNCHANGED <<world, budget, hub, state, cache, delivered, accepted, kills>>

\* finish_retaining_shard
FinishRetaining ==
  /\ At("retain") /\ Unretained # {}
  /\ LET s == Min(Unretained)
     IN /\ db.kept[s] = Len(hub[s])
        /\ db' = [db EXCEPT !.retained = db.retained \cup {s}]
  /\ UNCHANGED <<world, budget, hub, state, cache, job, delivered, accepted, kills>>

Compact ==
  /\ At("retain") /\ Unretained = {}
  /\ db' = [db EXCEPT !.cand = job.heap]
  /\ Goto("rows")
  /\ UNCHANGED <<world, budget, hub, state, cache, delivered, accepted, kills>>

-----------------------------------------------------------------------------
(* Materialization: the rows of the candidates, shard by shard.            *)

Numbered(S) == SortedBy(S, LAMBDA a, b : a < b)
\* Mutant: the candidates come in heap order, the worst first.
MatchedUnsorted(locators, table) ==
  {<<Numbered(locators)[Cardinality(locators) + 1 - k], Numbered(table)[k]>> :
     k \in 1 .. Cardinality(locators)}

\* zip(locators, table): the k-th candidate gets the k-th row.
Matched(locators, table) ==
  {<<Numbered(locators)[k], Numbered(table)[k]>> : k \in 1 .. Cardinality(locators)}

\* _load_materialized_rows
Cached(s, locators) ==
  /\ locators # {} /\ cache[s].table # None
  /\ cache[s].meta = locators
  /\ Cardinality(cache[s].table) = Cardinality(locators)

MaterializeShard ==
  /\ At("rows") /\ job.shard \in Shards
  /\ LET s == job.shard
         locators == db.cand \cap Numbers(s)
     IN IF Cached(s, locators) \/ locators = {}
          THEN /\ job' = [job EXCEPT !.shard = s + 1,
                            !.rows = job.rows \cup IF locators = {} THEN {}
                                                   ELSE Matched(locators, cache[s].table)]
               /\ UNCHANGED cache
          ELSE /\ cache' = [cache EXCEPT ![s].table = locators]
               /\ job' = [job EXCEPT !.pc = "meta",
                            !.rows = job.rows \cup Matched(locators, locators)]
  /\ UNCHANGED <<world, budget, hub, state, db, delivered, accepted, kills>>

\* _write_materialized_rows: the description follows the table.
DescribeCache ==
  /\ At("meta")
  /\ LET s == job.shard
     IN cache' = [cache EXCEPT ![s].meta = db.cand \cap Numbers(s)]
  /\ job' = [job EXCEPT !.pc = "rows", !.shard = job.shard + 1]
  /\ UNCHANGED <<world, budget, hub, state, db, delivered, accepted, kills>>

\* _write_selected: each turn of the schedule takes the next row of its heap.
WriteSelected ==
  /\ At("rows") /\ job.shard \notin Shards
  /\ \E rows \in {PlannedRows} :
       LET inCell(c) == {i \in db.cand : CellOf(rows, world.place, i) = c}
           queue == [c \in DOMAIN job.plan.quota |->
                      InOrder(rows, job.plan.position, inCell(c))]
           row(i) == rows[(CHOOSE z \in job.rows : z[1] = i)[2]]
           taken == Dealt(job.plan.schedule, queue)
       IN job' = [job EXCEPT !.pc = "persist",
                    !.out = Output([k \in DOMAIN taken |-> row(taken[k]).id])]
  /\ UNCHANGED <<world, budget, durable, delivered, accepted, kills>>

\* finalize_persist_artifacts: copied beside the target, renamed into place.
Persist ==
  /\ At("persist")
  /\ delivered' = delivered \cup {job.out}
  /\ Goto("exit")
  /\ UNCHANGED <<world, budget, durable, accepted, kills>>

-----------------------------------------------------------------------------
JobStep ==
  \/ StreamShards \/ OpenState \/ OpenLedger \/ CheckTarget \/ WriteState
  \/ StageShard \/ PlanShard \/ BuildPlan \/ LoadHeaps \/ RetainBatch \/ FinishRetaining
  \/ Compact \/ MaterializeShard \/ DescribeCache \/ WriteSelected \/ Persist

Done == accepted # None /\ At("down") /\ UNCHANGED vars

Next ==
  \/ \E t \in Targets : RaiseTarget(t)
  \/ StartJob \/ AcceptOutput \/ Kill
  \/ JobStep
  \/ Done

Spec == Init /\ [][Next]_vars
\* The operator submits and accepts, and an allocation ends: it has a walltime,
\* and every step of it is bounded work.  Kills are finitely many.
AllocationsEnd == []<>(At("down") \/ At("exit"))
FairSpec == Spec /\ WF_vars(StartJob) /\ WF_vars(AcceptOutput) /\ AllocationsEnd

-----------------------------------------------------------------------------
(* Properties.                                                             *)

Everything == UNION {world.occs[s] : s \in Shards}
Rows == 1 .. Cardinality(Everything)
OutputType == [target : Nat, rows : Seq(Nat \X Nat),
               total : [input : Nat, output : Nat, removed : Nat, crossSource : Nat]]

\* The ledger's offsets and counters stay within the shards they describe.
TypeOK ==
  /\ budget \in {world.target} \cup Targets
  /\ state \in {None, world.target} \cup Targets
  /\ \A s \in Shards : hub[s] = None \/ Len(hub[s]) \in Nat
  /\ db # None =>
       /\ db.retained \subseteq Planned /\ db.cand \subseteq Rows
       /\ \A s \in Planned : db.offset[s] \in 0 .. Cardinality(Everything) /\ db.kept[s] \in 0 .. Len(hub[s])
  /\ \A s \in Shards : cache[s].table = None \/ cache[s].table \subseteq Rows
  /\ job.pc \in Points /\ job.heap \subseteq Rows /\ job.shard \in 1 .. (Cardinality(Shards) + 1)
  /\ job.out = None \/ job.out \in OutputType
  /\ accepted = None \/ accepted \in delivered
  /\ kills \in 0 .. MaxKills

\* The rows that the counters of the ledger say were scanned.
Scanned(rows) ==
  Located(rows, UNION {{db.offset[s] + i : i \in 1 .. db.kept[s]} : s \in Shards})

\* Wherever an allocation was killed, the candidates in the ledger include the
\* best rows, for the target of state.json, among those the counters say were
\* scanned, and no row that was not scanned (_retain_shard writes rows and
\* counter in one transaction; clear_candidates precedes the new target).
LedgerCoversBest ==
  db # None /\ state # None /\ Unplanned = {} =>
    \E rows \in {PlannedRows} : \E scanned \in {Scanned(rows)}, plan \in {Plan(rows, state)} :
      Best(rows, plan, scanned) \subseteq db.cand /\ db.cand \subseteq scanned

\* What select_v2_rows would choose from one table of all occurrences, or that
\* whole table.
Reference(target) ==
  LET chosen(rows) == IF Sampled THEN Selected(rows, world.place, target)
                      ELSE [k \in DOMAIN rows |-> k]
      Ids(rows, indexes) == [k \in DOMAIN indexes |-> rows[indexes[k]].id]
  IN UNION {{Ids(rows, chosen(rows))} : rows \in {Finalized(Everything)}}

\* Through any kills and raised targets, the table an allocation delivers is the
\* one a single in-memory pass over all occurrences selects, and its report
\* counts them all: finalizing shard by shard loses no cross-polygon order and
\* no duplicate (finalize_streamed_run, finalize_v2_resumable).
SampleIsReference ==
  At("exit") => Reference(job.target) = {job.out.rows} /\ job.out.total = Report(Everything)

\* Of two outputs of a run, the one of the smaller target is the beginning of
\* the other ("the smaller selection is always contained in the larger one").
SamplesNested ==
  \A a, b \in delivered : a.target <= b.target => IsPrefix(a.rows, b.rows)

\* A ledger whose allocation died before the first state.json.
Orphaned == db # None /\ state = None

\* Finitely many kills do not keep the finalization from being accepted, unless
\* one of them fell between the creation of the ledger and of state.json.
SampleAccepted == <>(accepted # None \/ (Orphaned /\ At("down")))
=============================================================================
