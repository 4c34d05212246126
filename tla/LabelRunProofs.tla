--------------------------- MODULE LabelRunProofs ---------------------------
(***************************************************************************)
(* The labeling job with any plans, targets, batch sizes and numbers of    *)
(* kills, faults and stop signals: types, every row labelled once, honest  *)
(* markers, the output that is kept, and the refinement of LabelBook.      *)
(***************************************************************************)
EXTENDS LabelRun, FiniteSetTheorems, WellFoundedInduction, TLAPS

-----------------------------------------------------------------------------
(* The inductive invariant.                                                *)

Stages == {"idle", "sent", "marked"}
Labeling == {"load", "next", "generate", "table", "meta", "progress", "enqueue", "close"}
Points == Labeling \cup {"down", "finalize", "install", "remove", "validate", "publish",
    "readback"}
Outputs == {None} \cup SUBSET Nat
Markers == [Sinks -> SUBSET Nat]

Files ==
  [tables : Seq(SUBSET Nat), metas : SUBSET Nat, temp : BOOLEAN, progress : Nat,
   pending : Markers, uploaded : Markers, output : Outputs, backup : Outputs]
Jobs ==
  [pc : Points, lane : Lanes, target : Nat, stop : BOOLEAN, ok : BOOLEAN,
   batch : SUBSET Nat, queue : Markers, worker : [Sinks -> Stages \X Nat]]

TypeInv ==
  /\ plan \in Plans /\ target \in Nat /\ open \in Lanes
  /\ disk \in [Lanes -> Files] /\ job \in Jobs
  /\ remote = [k \in Sinks |-> remote[k]] /\ release \in SUBSET Nat
  /\ budget \in [kills : Nat, faults : Nat, stops : Nat]

\* The batches of which table and description are there.
Stored(files) == {i \in files.metas : i + 1 \in DOMAIN files.tables}

\* The files of a lane.  At most one batch is not whole: its table is there and its
\* description is not, or the other way round.  The rows are labelled in their order, and
\* markers and outputs are of labelled rows.
FilesInv(files) ==
  /\ files.metas \in {0 .. Len(files.tables) + d : d \in {-2, -1, 0}}
  /\ \E m \in Nat : Labelled(files) = 1 .. m /\ files.progress <= m
  /\ NoRepeats(files)
  /\ \A i \in DOMAIN files.tables : Cardinality(files.tables[i]) \in 1 .. BatchSize
  /\ \A k \in Sinks : files.pending[k] \cup files.uploaded[k] \subseteq Stored(files)
  /\ \A output \in {files.output, files.backup} \ {None} : output \subseteq Labelled(files)
DiskInv == \A l \in Lanes : FilesInv(disk[l])

\* The rows of the running lane, its files with n whole batches, and its next batch.
Goal == IF job.lane = "smoke" THEN plan.smoke ELSE job.target
Whole(files) == files.metas = 0 .. Len(files.tables) - 1
BatchNext ==
  \E m \in Nat, k \in 1 .. BatchSize :
    Labelled(Mine) = 1 .. m /\ job.batch = (m + 1) .. (m + k) /\ m + k <= Goal

\* What the label process knows at each point.
JobInv ==
  /\ job.pc \in {"next", "generate", "table", "progress", "enqueue"} => Whole(Mine)
  /\ job.pc \in {"generate", "table", "meta"} => BatchNext
  /\ job.pc = "meta" =>
       /\ Mine.tables # <<>> /\ Mine.metas = 0 .. Len(Mine.tables) - 2
       /\ Mine.tables[Len(Mine.tables)] = job.batch
  /\ job.pc \in {"progress", "enqueue"} => Mine.tables # <<>>
  /\ job.pc \in {"next", "progress", "enqueue"} => Labelled(Mine) \subseteq 1 .. Goal
  /\ job.pc = "install" => Labelled(Mine) = 1 .. Goal
  /\ job.pc \in {"remove", "validate"} => Mine.output = 1 .. Goal
  /\ job.pc \in {"publish", "readback"} =>
       job.lane = "production" /\ Mine.output = 1 .. job.target

\* The target of a running allocation is one the run was given, and the release has all
\* rows of such a target.
TargetInv ==
  /\ target \in Targets \cup {plan.rows}
  /\ ~At("down") =>
       job.target \in Targets \cup {plan.rows} /\ job.target \in 1 .. target
  /\ \E r \in 0 .. target :
       release = 1 .. r /\ (~At("down") => r <= job.target)

\* The lane that runs is the one that is open, and nothing of the production lane exists
\* before it is.
SmokeInv ==
  /\ ~At("down") => job.lane = open
  /\ open = "smoke" => disk["production"] = NoFiles
  /\ plan.smoke = 0 => open = "production"

\* Queues and threads have stored batches, and a commit that is reported took place.
OnRemote(k, i) ==
  LET key == Key(k, "production", i)
  IN key \in DOMAIN remote[k] /\ remote[k][key] = disk["production"].tables[i + 1]
ThreadInv ==
  \A k \in Sinks :
    /\ job.queue[k] \subseteq Stored(Mine)
    /\ Stage(k) # "idle" =>
         Item(k) \in Stored(Mine) /\ (job.lane = "production" => OnRemote(k, Item(k)))
    /\ job.pc \notin Labeling => job.queue[k] = {} /\ job.worker[k] = <<"idle", 0>>

IInv == TypeInv /\ DiskInv /\ JobInv /\ TargetInv /\ SmokeInv /\ ThreadInv /\ UploadedIsRemote

-----------------------------------------------------------------------------
(* Types.                                                                  *)

\* The sets of files and jobs depend on nothing but the plan.
LEMMA SameTypes ==
  ASSUME UNCHANGED plan
  PROVE  Sinks' = Sinks /\ Markers' = Markers /\ Files' = Files /\ Jobs' = Jobs
<1>1. Sinks' = Sinks
  BY DEF Sinks
<1>2. Markers' = Markers
  BY <1>1 DEF Markers
<1> QED
  BY <1>1, <1>2 DEF Files, Jobs, Outputs

\* What the conjuncts of the type invariant need of a step that leaves the plan alone.
StepTypes ==
  /\ UNCHANGED plan /\ target' \in Nat /\ open' \in Lanes
  /\ disk' \in [Lanes -> Files] /\ job' \in Jobs
  /\ remote' = [k \in Sinks |-> remote'[k]] /\ release' \in SUBSET Nat
  /\ budget' \in [kills : Nat, faults : Nat, stops : Nat]
LEMMA TypesStep == TypeInv /\ StepTypes => TypeInv'
  BY SameTypes DEF TypeInv, StepTypes

\* Files put in place of those of the running lane, and a budget with one fault less.
LEMMA PutTypes ==
  ASSUME TypeInv, NEW files \in Files, Put(files)
  PROVE  disk' \in [Lanes -> Files]
  BY DEF TypeInv, Put, Jobs
LEMMA FaultTypes ==
  TypeInv /\ Fault => budget' \in [kills : Nat, faults : Nat, stops : Nat]
  BY DEF TypeInv, Fault
LEMMA MineType == TypeInv => Mine \in Files
  BY DEF TypeInv, Mine, Jobs

\* A job at another point, a job that failed, and no job.
LEMMA IdleType == Idle \in Jobs
  BY DEF Idle, Jobs, Points, Lanes, Markers, Stages
LEMMA GotoType ==
  ASSUME TypeInv, NEW point \in Points, Goto(point)
  PROVE  job' \in Jobs
  BY DEF TypeInv, Goto, Jobs
LEMMA FailsType == TypeInv /\ Fails => job' \in Jobs
  BY DEF TypeInv, Fails, Jobs, Points, Labeling

\* Rows, counts and markers are of the types they should be.
LEMMA RowTypes ==
  ASSUME NEW files \in Files
  PROVE  Labelled(files) \in SUBSET Nat /\ Len(files.tables) \in Nat
<1>1. files.tables \in Seq(SUBSET Nat)
  BY DEF Files
<1>2. \A i \in Complete(files) : files.tables[i] \in SUBSET Nat
  BY <1>1 DEF Complete
<1> QED
  BY <1>1, <1>2 DEF Labelled

LEMMA SelectionType ==
  ASSUME TypeInv
  PROVE  /\ Goal \in Nat /\ Selection(job.lane, job.target) = 1 .. Goal
         /\ Pending(Mine) \in SUBSET Nat /\ NextBatch(Mine) \in SUBSET Nat
<1>1. plan.smoke \in Nat /\ job.target \in Nat
  BY PlansAssumption DEF TypeInv, Jobs
<1> QED
  BY <1>1 DEF Goal, Selection, Pending, NextBatch, FirstOf

LEMMA InitTypes == Init => TypeInv
<1> SUFFICES ASSUME Init PROVE TypeInv
  OBVIOUS
<1>1. plan \in Plans /\ target \in Nat /\ open \in Lanes
  BY PlansAssumption DEF Init, Lanes
<1>2. NoFiles \in Files
  BY DEF NoFiles, Files, Markers, Outputs
<1>3. disk \in [Lanes -> Files]
  BY <1>2 DEF Init
<1>4. job \in Jobs
  BY IdleType DEF Init
<1>5. remote = [k \in Sinks |-> remote[k]] /\ release \in SUBSET Nat
  BY DEF Init
<1>6. budget \in [kills : Nat, faults : Nat, stops : Nat]
  BY LabelAssumption DEF Init
<1> QED
  BY <1>1, <1>3, <1>4, <1>5, <1>6 DEF TypeInv

\* The operator, the scheduler and the first steps of the process.
LEMMA BeginTypes ==
  TypeInv /\ ((\E t \in Targets : Extend(t)) \/ StartJob \/ Signal \/ Kill) => StepTypes
<1> SUFFICES ASSUME TypeInv, (\E t \in Targets : Extend(t)) \/ StartJob \/ Signal \/ Kill
             PROVE  StepTypes
  OBVIOUS
<1> USE DEF StepTypes
<1>1. CASE \E t \in Targets : Extend(t)
  BY <1>1, LabelAssumption DEF TypeInv, Extend
<1>2. CASE StartJob
  <2> DEFINE left == [k \in Sinks |-> disk[open].pending[k] \ disk[open].uploaded[k]]
  <2>1. open \in Lanes /\ disk[open] \in Files
    BY DEF Lanes, TypeInv
  <2>2. left \in Markers
    BY <2>1 DEF Markers, Files
  <2>3. /\ job' = [Idle EXCEPT !.pc = "load", !.lane = open, !.target = target, !.queue = left]
        /\ disk' = [disk EXCEPT ![open].pending = left]
    BY <1>2 DEF StartJob
  <2>4. job' \in Jobs
    <3> HIDE DEF left
    <3> QED
      BY <2>1, <2>2, <2>3, IdleType DEF TypeInv, Jobs, Points, Labeling
  <2>5. disk' \in [Lanes -> Files]
    <3> HIDE DEF left
    <3> QED
      BY <2>1, <2>2, <2>3 DEF TypeInv, Files
  <2>6. UNCHANGED <<plan, target, open, remote, release, budget>>
    BY <1>2 DEF StartJob
  <2> HIDE DEF left
  <2> QED
    BY <2>4, <2>5, <2>6 DEF TypeInv
<1>3. CASE Signal
  <2>1. job' \in Jobs
    BY <1>3 DEF TypeInv, Signal, Jobs
  <2>2. budget' \in [kills : Nat, faults : Nat, stops : Nat]
    BY <1>3 DEF TypeInv, Signal
  <2> QED
    BY <1>3, <2>1, <2>2 DEF TypeInv, Signal
<1>4. CASE Kill
  BY <1>4, IdleType DEF TypeInv, Kill, Lanes
<1> QED
  BY <1>1, <1>2, <1>3, <1>4

\* progress.json counts the labelled rows.
LEMMA CountTypes ==
  ASSUME TypeInv, DiskInv
  PROVE  /\ Counted(Mine) \in Files
         /\ \A m \in Nat : Labelled(Mine) = 1 .. m => Counted(Mine).progress = m
<1>1. Mine \in Files /\ FilesInv(Mine)
  BY MineType DEF TypeInv, DiskInv, Mine, Jobs
<1>2. \A m \in Nat : Cardinality(1 .. m) = m
  BY FS_Interval
<1>3. Cardinality(Labelled(Mine)) \in Nat
  BY <1>1, <1>2 DEF FilesInv
<1>4. Counted(Mine) \in Files
  BY <1>1, <1>3 DEF Counted, Files
<1>5. Counted(Mine).progress = Cardinality(Labelled(Mine))
  BY <1>1 DEF Counted, Files
<1> QED
  BY <1>2, <1>4, <1>5

LEMMA LabelTypes ==
  TypeInv /\ DiskInv /\ (LoadCheckpoints \/ NextStep \/ GenerateLabels \/ GenerateScores) =>
    StepTypes
<1> SUFFICES ASSUME TypeInv, DiskInv,
                    LoadCheckpoints \/ NextStep \/ GenerateLabels \/ GenerateScores
             PROVE  StepTypes
  OBVIOUS
<1> USE DEF StepTypes
<1>1. CASE LoadCheckpoints
  <2>1. Goto("next") \/ Fails
    BY <1>1 DEF LoadCheckpoints
  <2> QED
    BY <1>1, <2>1, GotoType, FailsType DEF TypeInv, LoadCheckpoints, Points, Labeling
<1>2. CASE NextStep
  <2>1. disk' \in [Lanes -> Files]
    BY <1>2, CountTypes, PutTypes DEF NextStep, TypeInv
  <2>2. job' \in Jobs
    <3>1. NextBatch(Mine) \in SUBSET Nat
      BY SelectionType
    <3>2. \/ job' = [job EXCEPT !.pc = "close", !.ok = Pending(Mine) = {}]
          \/ job' = [job EXCEPT !.pc = "generate", !.batch = NextBatch(Mine)]
      BY <1>2 DEF NextStep
    <3>3. (Pending(Mine) = {}) \in BOOLEAN
      OBVIOUS
    <3> QED
      BY <3>1, <3>2, <3>3 DEF TypeInv, Jobs, Points, Labeling
  <2> QED
    BY <1>2, <2>1, <2>2 DEF TypeInv, NextStep
<1>3. CASE GenerateLabels \/ GenerateScores
  <2>1. \/ Goto("table") /\ Put([Mine EXCEPT !.temp = TRUE]) /\ UNCHANGED budget
        \/ Fails /\ Fault /\ UNCHANGED disk
    BY <1>3 DEF GenerateLabels, GenerateScores
  <2>2. [Mine EXCEPT !.temp = TRUE] \in Files
    BY MineType DEF Files
  <2>3. job' \in Jobs /\ disk' \in [Lanes -> Files]
    BY <2>1, <2>2, GotoType, FailsType, PutTypes DEF TypeInv, Points, Labeling
  <2>4. budget' \in [kills : Nat, faults : Nat, stops : Nat]
    BY <2>1, FaultTypes DEF TypeInv
  <2> QED
    BY <1>3, <2>3, <2>4 DEF TypeInv, GenerateLabels, GenerateScores
<1> QED
  BY <1>1, <1>2, <1>3

\* The number of the next batch, and a table more or less.
LEMMA Indexes ==
  ASSUME NEW files \in Files
  PROVE  /\ Len(files.tables) \in Nat
         /\ files.tables # <<>> => Len(files.tables) >= 1
         /\ Whole(files) => BatchIndex(files) = Len(files.tables)
         /\ files.tables # <<>> /\ files.metas = 0 .. Len(files.tables) - 2 =>
              BatchIndex(files) = Len(files.tables) - 1
<1> DEFINE n == Len(files.tables)
<1>1. n \in Nat /\ (files.tables # <<>> => n >= 1)
  BY DEF Files
<1>2. Cardinality(0 .. n - 1) = n
  BY <1>1, FS_Interval
<1>3. n >= 1 => Cardinality(0 .. n - 2) = n - 1
  BY <1>1, FS_Interval
<1> QED
  BY <1>1, <1>2, <1>3 DEF Whole, BatchIndex

LEMMA TableTypes ==
  ASSUME NEW files \in Files, NEW rows \in SUBSET Nat
  PROVE  /\ Append(files.tables, rows) \in Seq(SUBSET Nat)
         /\ Front(files.tables) \in Seq(SUBSET Nat)
<1>1. files.tables \in Seq(SUBSET Nat)
  BY DEF Files
<1> QED
  BY <1>1 DEF Front

LEMMA BatchTypes ==
  TypeInv /\ DiskInv /\ JobInv
    /\ (InstallTable \/ InstallMeta \/ WriteBatchFails \/ WriteProgress \/ Enqueue) => StepTypes
<1> SUFFICES ASSUME TypeInv, DiskInv, JobInv,
                    InstallTable \/ InstallMeta \/ WriteBatchFails \/ WriteProgress \/ Enqueue
             PROVE  StepTypes
  OBVIOUS
<1> USE DEF StepTypes
<1>m. Mine \in Files /\ job.batch \in SUBSET Nat
  BY MineType DEF TypeInv, Jobs
<1>c. BatchIndex(Mine) \in Nat
  <2>1. Mine.metas \in {0 .. Len(Mine.tables) + d : d \in {-2, -1, 0}} /\ Len(Mine.tables) \in Nat
    BY <1>m, RowTypes DEF DiskInv, FilesInv, Mine, TypeInv, Jobs
  <2>2. IsFiniteSet(Mine.metas)
    <3>1. PICK k \in Int : Mine.metas = 0 .. k
      BY <2>1
    <3>2. IsFiniteSet(0 .. k)
      BY ONLY k \in Int, 0 \in Int, FS_Interval
    <3> QED
      BY ONLY <3>1, <3>2
  <2> QED
    BY <2>2, FS_CardinalityType DEF BatchIndex
<1>1. CASE InstallTable
  <2>1. [Mine EXCEPT !.temp = FALSE] \in Files
    BY <1>m DEF Files
  <2>2. [Mine EXCEPT !.temp = FALSE, !.tables = Append(@, job.batch)] \in Files
    BY <1>m, TableTypes DEF Files
  <2>3. job' \in Jobs
    BY <1>1, GotoType, FailsType DEF InstallTable, Points, Labeling
  <2>4. disk' \in [Lanes -> Files]
    BY <1>1, <2>1, <2>2, PutTypes DEF InstallTable
  <2> QED
    BY <1>1, <2>3, <2>4 DEF TypeInv, InstallTable
<1>2. CASE InstallMeta
  <2>1. [Mine EXCEPT !.metas = @ \cup {BatchIndex(Mine)}] \in Files
    BY <1>m, <1>c DEF Files
  <2> QED
    BY <1>2, <2>1, PutTypes, GotoType DEF TypeInv, InstallMeta, Points, Labeling
<1>3. CASE WriteBatchFails
  <2>1. [Mine EXCEPT !.tables = Front(@)] \in Files
    BY <1>m, TableTypes DEF Files
  <2>2. [Mine EXCEPT !.tables = Front(@), !.metas = @ \cup {BatchIndex(Mine)}] \in Files
    BY <1>m, <1>c, TableTypes DEF Files
  <2>3. disk' \in [Lanes -> Files]
    BY <1>3, <2>1, <2>2, PutTypes DEF WriteBatchFails, TypeInv
  <2> QED
    BY <1>3, <2>3, FailsType, FaultTypes DEF TypeInv, WriteBatchFails
<1>4. CASE WriteProgress
  BY <1>4, CountTypes, PutTypes, GotoType DEF TypeInv, WriteProgress, Points, Labeling
<1>5. CASE Enqueue
  <2> DEFINE i == BatchIndex(Mine) - 1
             fresh == {k \in Sinks : i \notin Mine.pending[k] \cup Mine.uploaded[k]}
             With(f) == [k \in Sinks |-> IF k \in fresh THEN f[k] \cup {i} ELSE f[k]]
  <2>1. Put([Mine EXCEPT !.pending = With(Mine.pending)])
        /\ job' = [job EXCEPT !.pc = "next", !.queue = With(job.queue)]
    BY <1>5 DEF Enqueue, Marked
  <2>2. i \in Nat
    BY <1>5, <1>m, Indexes DEF Enqueue, At, JobInv
  <2>3. With(Mine.pending) \in Markers
    BY <1>m, <2>2 DEF Files, Markers
  <2>4. With(job.queue) \in Markers
    BY <2>2 DEF TypeInv, Jobs, Markers
  <2> HIDE DEF With
  <2>5. [Mine EXCEPT !.pending = With(Mine.pending)] \in Files
    BY <1>m, <2>3 DEF Files
  <2>6. disk' \in [Lanes -> Files]
    BY <2>1, <2>5, PutTypes
  <2>7. job' \in Jobs
    BY <2>1, <2>4 DEF TypeInv, Jobs, Points, Labeling
  <2>8. UNCHANGED <<plan, target, open, remote, release, budget>>
    BY <1>5 DEF Enqueue
  <2> QED
    BY <2>6, <2>7, <2>8 DEF TypeInv
<1> QED
  BY <1>1, <1>2, <1>3, <1>4, <1>5

\* The head of a queue is one of its markers.
Less == {ss \in Nat \X Nat : ss[1] < ss[2]}
LEMMA MinInside ==
  ASSUME NEW T \in SUBSET Nat, T # {}
  PROVE  Min(T) \in T
<1>1. \E x \in T : \A y \in T : ~ (<<y, x>> \in Less)
  <2>1. Less = OpToRel(<, Nat)
    BY Zenon DEF OpToRel, Less
  <2>2. IsWellFoundedOn(Less, Nat)
    BY <2>1, NatLessThanWellFounded, Zenon
  <2> QED
    BY <2>2, WFMin
<1>2. PICK x \in T : \A y \in T : ~ (<<y, x>> \in Less)
  BY <1>1
<1>3. ASSUME NEW y \in T PROVE x <= y
  <2>1. x \in Nat /\ y \in Nat /\ (<<y, x>> \in Less <=> y < x)
    BY DEF Less
  <2> QED
    BY <1>2, <2>1
<1> QED
  BY <1>2, <1>3 DEF Min

\* A worker that moves on.
LEMMA WorkerType ==
  ASSUME TypeInv, NEW k \in Sinks, NEW stage \in Stages, NEW i \in Nat
  PROVE  Worker(k, stage, i) \in Jobs
<1>1. [job.worker EXCEPT ![k] = <<stage, i>>] \in [Sinks -> Stages \X Nat]
  BY DEF TypeInv, Jobs
<1> QED
  BY <1>1 DEF Worker, TypeInv, Jobs

LEMMA ThreadTypes ==
  ASSUME TypeInv, NEW k \in Sinks, Send(k) \/ SendFails(k) \/ MarkUploaded(k) \/ DropMarker(k)
  PROVE  StepTypes
<1> USE DEF StepTypes
<1>m. Mine \in Files /\ job.queue \in Markers /\ job.worker \in [Sinks -> Stages \X Nat]
  BY MineType DEF TypeInv, Jobs
<1>i. Item(k) \in Nat
  BY <1>m DEF Item
<1>q. job.queue[k] # {} => Min(job.queue[k]) \in Nat
  BY <1>m, MinInside DEF Markers
<1>1. CASE Send(k)
  <2> DEFINE i == Min(job.queue[k])
             w == Worker(k, "sent", i)
             q == [job.queue EXCEPT ![k] = @ \ {i}]
  <2>1. job' = [w EXCEPT !.queue[k] = @ \ {i}]
        /\ remote' = [remote EXCEPT ![k] = Written(@, Key(k, job.lane, i), Mine.tables[i + 1])]
    BY <1>1 DEF Send
  <2>2. w \in Jobs /\ w.queue = job.queue
    BY <1>1, <1>q, WorkerType DEF Send, Stages, Worker, TypeInv, Jobs
  <2>3. job' \in Jobs
    BY <1>m, <2>1, <2>2 DEF Jobs, Markers
  <2>4. remote' = [x \in Sinks |-> remote'[x]]
    BY <2>1 DEF TypeInv
  <2>5. UNCHANGED <<plan, target, open, disk, release, budget>>
    BY <1>1 DEF Send
  <2> QED
    BY <2>3, <2>4, <2>5 DEF TypeInv
<1>2. CASE SendFails(k)
  <2>1. job' \in Jobs
    BY <1>2, <1>m DEF SendFails, TypeInv, Jobs, Markers
  <2> QED
    BY <1>2, <2>1, FaultTypes DEF SendFails, TypeInv
<1>3. CASE MarkUploaded(k)
  <2>1. job' \in Jobs
    BY <1>3, <1>i, WorkerType DEF MarkUploaded, Stages
  <2>2. [Mine EXCEPT !.uploaded[k] = @ \cup {Item(k)}] \in Files
    BY <1>m, <1>i DEF Files, Markers
  <2> QED
    BY <1>3, <2>1, <2>2, PutTypes DEF MarkUploaded, TypeInv
<1>4. CASE DropMarker(k)
  <2>1. job' \in Jobs
    BY <1>4, WorkerType DEF DropMarker, Stages
  <2>2. [Mine EXCEPT !.pending[k] = @ \ {Item(k)}] \in Files
    BY <1>m, <1>i DEF Files, Markers
  <2> QED
    BY <1>4, <2>1, <2>2, PutTypes DEF DropMarker, TypeInv
<1> QED
  BY <1>1, <1>2, <1>3, <1>4

\* An output is put in its place, set aside, or published.
Finishing ==
  \/ Close \/ FinishFails \/ FinalizeV1 \/ FinalizeV2 \/ SetAside \/ InstallOutput
  \/ RemoveBackup \/ ValidateOutput \/ FinalizeFails \/ Publish \/ PublishFails \/ ReadBack
LEMMA OutputTypes ==
  ASSUME TypeInv,
         Finishing
  PROVE  StepTypes
<1> USE DEF StepTypes
<1>m. Mine \in Files /\ Labelled(Mine) \in Outputs /\ Mine.output \in Outputs
  BY MineType, RowTypes DEF Files, Outputs
<1>p. {"publish", "readback", "install", "remove", "validate", "finalize"} \subseteq Points
  BY DEF Points
<1>1. CASE Close
  <2>1. [Idle EXCEPT !.pc = "finalize", !.lane = job.lane, !.target = job.target] \in Jobs
    BY <1>p, IdleType DEF TypeInv, Jobs
  <2> QED
    BY <1>1, <2>1, IdleType DEF Close, TypeInv
<1>2. CASE FinishFails
  BY <1>2, IdleType, FaultTypes DEF FinishFails, TypeInv
<1>3. CASE FinalizeV1
  <2>1. [Mine EXCEPT !.output = Labelled(Mine)] \in Files
    BY <1>m DEF Files
  <2> QED
    BY <1>3, <1>p, <2>1, PutTypes, GotoType, IdleType DEF FinalizeV1, TypeInv
<1>4. CASE FinalizeV2
  BY <1>4, <1>p, GotoType, IdleType DEF FinalizeV2, TypeInv
<1>5. CASE SetAside
  <2>1. [Mine EXCEPT !.output = None, !.backup = Mine.output] \in Files
    BY <1>m DEF Files, Outputs
  <2> QED
    BY <1>5, <2>1, PutTypes DEF SetAside, TypeInv
<1>6. CASE InstallOutput
  <2>1. [Mine EXCEPT !.output = Labelled(Mine)] \in Files
    BY <1>m DEF Files
  <2> QED
    BY <1>6, <1>p, <2>1, PutTypes, GotoType DEF InstallOutput, TypeInv
<1>10. CASE RemoveBackup
  <2>1. [Mine EXCEPT !.backup = None] \in Files
    BY <1>m DEF Files, Outputs
  <2> QED
    BY <1>10, <1>p, <2>1, PutTypes, GotoType DEF RemoveBackup, TypeInv
<1>11. CASE ValidateOutput
  BY <1>11, <1>p, GotoType, IdleType DEF ValidateOutput, TypeInv, Lanes
<1>12. CASE FinalizeFails
  BY <1>12, IdleType, FaultTypes DEF FinalizeFails, TypeInv
<1>7. CASE Publish
  BY <1>7, <1>m, <1>p, GotoType DEF Publish, Valid, Outputs, TypeInv
<1>8. CASE PublishFails
  BY <1>8, IdleType, FaultTypes DEF PublishFails, TypeInv
<1>9. CASE ReadBack
  BY <1>9, IdleType DEF ReadBack, TypeInv
<1> QED
  BY <1>1, <1>2, <1>3, <1>4, <1>5, <1>6, <1>7, <1>8, <1>9, <1>10, <1>11, <1>12 DEF Finishing

\* The steps, in the groups in which they are treated.
LEMMA StepKinds ==
  ASSUME [Next]_vars
  PROVE  \/ UNCHANGED vars
         \/ (\E t \in Targets : Extend(t)) \/ StartJob \/ Signal \/ Kill
         \/ LoadCheckpoints \/ NextStep \/ GenerateLabels \/ GenerateScores
         \/ InstallTable \/ InstallMeta \/ WriteBatchFails \/ WriteProgress \/ Enqueue
         \/ \E k \in Sinks : Send(k) \/ SendFails(k) \/ MarkUploaded(k) \/ DropMarker(k)
         \/ Finishing
  BY DEF Next, Main, Threads, Done, Finishing

LEMMA NextTypes == TypeInv /\ DiskInv /\ JobInv /\ [Next]_vars => TypeInv'
<1> SUFFICES ASSUME TypeInv, DiskInv, JobInv, [Next]_vars PROVE StepTypes
  BY TypesStep
<1>1. CASE UNCHANGED vars
  BY <1>1 DEF vars, StepTypes, TypeInv
<1>2. CASE (\E t \in Targets : Extend(t)) \/ StartJob \/ Signal \/ Kill
  BY <1>2, BeginTypes
<1>3. CASE LoadCheckpoints \/ NextStep \/ GenerateLabels \/ GenerateScores
  BY <1>3, LabelTypes
<1>4. CASE InstallTable \/ InstallMeta \/ WriteBatchFails \/ WriteProgress \/ Enqueue
  BY <1>4, BatchTypes
<1>5. CASE \E k \in Sinks : Send(k) \/ SendFails(k) \/ MarkUploaded(k) \/ DropMarker(k)
  BY <1>5, ThreadTypes
<1>6. CASE Finishing
  BY <1>6, OutputTypes
<1> QED
  BY <1>1, <1>2, <1>3, <1>4, <1>5, <1>6, StepKinds

-----------------------------------------------------------------------------
(* Files and batches.                                                      *)

\* Which batches are whole.
LEMMA CompleteBatches ==
  ASSUME NEW files \in Files
  PROVE  LET n == Len(files.tables)
         IN /\ n \in Nat /\ DOMAIN files.tables = 1 .. n
            /\ files.metas = 0 .. n - 2 => Complete(files) = 1 .. n - 1
            /\ files.metas \in {0 .. n - 1, 0 .. n} => Complete(files) = 1 .. n
            /\ Stored(files) = {i - 1 : i \in Complete(files)}
<1> DEFINE n == Len(files.tables)
<1>1. n \in Nat /\ DOMAIN files.tables = 1 .. n /\ files.metas \subseteq Nat
  BY DEF Files
<1>2. files.metas = 0 .. n - 2 => Complete(files) = 1 .. n - 1
  BY <1>1 DEF Complete
<1>3. files.metas = 0 .. n - 1 => Complete(files) = 1 .. n
  BY <1>1 DEF Complete
<1>4. files.metas = 0 .. n => Complete(files) = 1 .. n
  BY <1>1 DEF Complete
<1>5. Stored(files) = {i - 1 : i \in Complete(files)}
  <2>1. \A i \in files.metas : i + 1 \in Nat /\ (i + 1) - 1 = i
    BY <1>1
  <2>2. \A i \in DOMAIN files.tables : i - 1 + 1 = i
    BY <1>1
  <2> QED
    BY <2>1, <2>2 DEF Stored, Complete
<1> QED
  BY <1>1, <1>2, <1>3, <1>4, <1>5

\* The rows are those of the whole batches.
LEMMA SameRows ==
  ASSUME NEW f \in Files, NEW g \in Files, Complete(g) = Complete(f),
         \A i \in Complete(f) : g.tables[i] = f.tables[i]
  PROVE  Labelled(g) = Labelled(f) /\ (NoRepeats(g) <=> NoRepeats(f)) /\ Stored(g) = Stored(f)
<1>1. Stored(g) = Stored(f)
  BY CompleteBatches
<1> QED
  BY <1>1 DEF Labelled, NoRepeats

\* A step that does not touch the batches.
LEMMA SameBatches ==
  ASSUME NEW f \in Files, NEW g \in Files, g.tables = f.tables, g.metas = f.metas
  PROVE  /\ Labelled(g) = Labelled(f) /\ Stored(g) = Stored(f)
         /\ NoRepeats(g) <=> NoRepeats(f)
         /\ Whole(g) <=> Whole(f)
<1>1. Complete(g) = Complete(f)
  BY DEF Complete
<1> QED
  BY <1>1, SameRows DEF Whole
LEMMA FilesKept ==
  ASSUME NEW f \in Files, NEW g \in Files, g.tables = f.tables, g.metas = f.metas, FilesInv(f),
         g.progress = f.progress \/ (\A m \in Nat : Labelled(f) = 1 .. m => g.progress = m),
         \A k \in Sinks : g.pending[k] \cup g.uploaded[k] \subseteq Stored(f),
         \A output \in {g.output, g.backup} \ {None} : output \subseteq Labelled(f)
  PROVE  FilesInv(g)
<1>1. /\ Labelled(g) = Labelled(f) /\ Stored(g) = Stored(f)
      /\ NoRepeats(g) <=> NoRepeats(f)
  BY SameBatches
<1>2. \E m \in Nat : Labelled(g) = 1 .. m /\ g.progress <= m
  <2>1. PICK m \in Nat : Labelled(f) = 1 .. m /\ f.progress <= m
    BY DEF FilesInv
  <2> QED
    BY <1>1, <2>1
<1> QED
  BY <1>1, <1>2 DEF FilesInv

\* Everything but the batches themselves.
SameRecords(f, g) ==
  /\ g.progress = f.progress /\ g.pending = f.pending /\ g.uploaded = f.uploaded
  /\ g.output = f.output /\ g.backup = f.backup
\* A table without a description adds no row.
LEMMA TableAdded ==
  ASSUME NEW f \in Files, NEW g \in Files, NEW rows \in SUBSET Nat, FilesInv(f), Whole(f),
         Cardinality(rows) \in 1 .. BatchSize,
         g.tables = Append(f.tables, rows), SameRecords(f, g), g.metas = f.metas
  PROVE  /\ FilesInv(g) /\ Labelled(g) = Labelled(f) /\ Stored(g) = Stored(f)
         /\ g.tables # <<>> /\ g.metas = 0 .. Len(g.tables) - 2
         /\ g.tables[Len(g.tables)] = rows
         /\ \A i \in Stored(f) : g.tables[i + 1] = f.tables[i + 1]
<1> DEFINE n == Len(f.tables)
<1>1. /\ g.tables = Append(f.tables, rows) /\ f.tables \in Seq(SUBSET Nat)
      /\ g.metas = f.metas /\ g.progress = f.progress /\ g.pending = f.pending
      /\ g.uploaded = f.uploaded /\ g.output = f.output /\ g.backup = f.backup
  BY DEF Files, SameRecords
<1>2. /\ n \in Nat /\ Len(g.tables) = n + 1 /\ g.tables # <<>> /\ g.tables[n + 1] = rows
      /\ \A i \in 1 .. n : g.tables[i] = f.tables[i]
      /\ DOMAIN g.tables = 1 .. n + 1 /\ DOMAIN f.tables = 1 .. n
  BY <1>1
<1>3. f.metas = 0 .. n - 1 /\ g.metas = 0 .. (n + 1) - 2
  BY <1>1, <1>2 DEF Whole
<1>4. Complete(f) = 1 .. n /\ Complete(g) = 1 .. n
  <2>1. f.metas = 0 .. Len(f.tables) - 1 /\ g.metas = 0 .. Len(g.tables) - 2
    BY <1>2, <1>3
  <2>2. Len(g.tables) - 1 = n
    BY <1>2
  <2>3. Complete(f) = 1 .. n
    BY <2>1, CompleteBatches
  <2>4. Complete(g) = 1 .. Len(g.tables) - 1
    BY <2>1, CompleteBatches
  <2> QED
    BY <2>2, <2>3, <2>4
<1>5. Labelled(g) = Labelled(f) /\ (NoRepeats(g) <=> NoRepeats(f)) /\ Stored(g) = Stored(f)
  BY <1>2, <1>4, SameRows
<1>6. \A i \in Stored(f) : g.tables[i + 1] = f.tables[i + 1]
  BY <1>2, <1>4, CompleteBatches
<1>7. \A i \in DOMAIN g.tables : Cardinality(g.tables[i]) \in 1 .. BatchSize
  <2> TAKE i \in DOMAIN g.tables
  <2>1. CASE i = n + 1
    BY <2>1, <1>2
  <2>2. CASE i # n + 1
    <3>1. i \in 1 .. n /\ g.tables[i] = f.tables[i]
      BY <2>2, <1>2
    <3> QED
      BY <3>1, <1>2 DEF FilesInv
  <2> QED
    BY <2>1, <2>2
<1>8. g.metas \in {0 .. Len(g.tables) + d : d \in {-2, -1, 0}}
  BY <1>2, <1>3
<1>9. FilesInv(g)
  BY <1>1, <1>5, <1>7, <1>8 DEF FilesInv
<1> QED
  BY <1>1, <1>2, <1>3, <1>5, <1>6, <1>9

\* A description makes the batch whole and adds its rows.
LEMMA MetaAdded ==
  ASSUME NEW f \in Files, NEW g \in Files, FilesInv(f), NEW m \in Nat, NEW k \in 1 .. BatchSize,
         f.tables # <<>>, f.metas = 0 .. Len(f.tables) - 2, Labelled(f) = 1 .. m,
         f.tables[Len(f.tables)] = (m + 1) .. (m + k),
         g = [f EXCEPT !.metas = @ \cup {BatchIndex(f)}]
  PROVE  /\ FilesInv(g) /\ Labelled(g) = 1 .. (m + k) /\ Stored(f) \subseteq Stored(g)
         /\ Whole(g) /\ g.tables = f.tables
<1> DEFINE n == Len(f.tables)
<1>1. /\ g.tables = f.tables /\ g.metas = f.metas \cup {BatchIndex(f)}
      /\ g.progress = f.progress /\ g.pending = f.pending
      /\ g.uploaded = f.uploaded /\ g.output = f.output /\ g.backup = f.backup
  BY DEF Files
<1>2. n \in Nat /\ n >= 1 /\ BatchIndex(f) = n - 1
  BY Indexes
<1>3. g.metas = 0 .. n - 1
  BY <1>1, <1>2
<1>4. Complete(f) = 1 .. n - 1 /\ Complete(g) = 1 .. n
  BY <1>1, <1>2, <1>3, CompleteBatches
<1>5. Stored(f) \subseteq Stored(g)
  BY <1>1, <1>4 DEF Stored
<1>6. Labelled(g) = Labelled(f) \cup f.tables[n]
  BY <1>1, <1>2, <1>4 DEF Labelled
<1>7. Labelled(g) = 1 .. (m + k)
  <2>1. k \in Nat
    BY LabelAssumption
  <2>2. 1 .. (m + k) = (1 .. m) \cup ((m + 1) .. (m + k))
    BY <2>1
  <2> QED
    BY <1>6, <2>2
<1>8. NoRepeats(g)
  <2>1. \A i \in Complete(f) : f.tables[i] \cap f.tables[n] = {}
    BY DEF Labelled
  <2>2. \A i \in Complete(g) : i = n \/ i \in Complete(f)
    BY <1>2, <1>4
  <2> QED
    BY <1>1, <2>1, <2>2 DEF NoRepeats, FilesInv
<1>9. \E x \in Nat : Labelled(g) = 1 .. x /\ g.progress <= x
  <2>1. PICK x \in Nat : Labelled(f) = 1 .. x /\ f.progress <= x
    BY DEF FilesInv
  <2>2. x = m
    BY <2>1
  <2>3. f.progress \in Nat /\ k \in Nat
    BY LabelAssumption DEF Files
  <2> QED
    BY <1>1, <1>7, <2>1, <2>2, <2>3
<1>10. g.metas \in {0 .. Len(g.tables) + d : d \in {-2, -1, 0}}
  BY <1>1, <1>2, <1>3
<1>11. Labelled(f) \subseteq Labelled(g)
  BY <1>6
<1>12. FilesInv(g)
  BY <1>1, <1>5, <1>8, <1>9, <1>10, <1>11 DEF FilesInv
<1> QED
  BY <1>1, <1>3, <1>5, <1>7, <1>12 DEF Whole

\* What a failed write takes back is not part of a whole batch.
LEMMA TableDropped ==
  ASSUME NEW f \in Files, NEW g \in Files, FilesInv(f),
         f.tables # <<>>, f.metas = 0 .. Len(f.tables) - 2,
         \/ g = [f EXCEPT !.tables = Front(@)]
         \/ g = [f EXCEPT !.tables = Front(@), !.metas = @ \cup {BatchIndex(f)}]
  PROVE  /\ FilesInv(g) /\ Labelled(g) = Labelled(f) /\ Stored(g) = Stored(f)
         /\ \A i \in Stored(f) : g.tables[i + 1] = f.tables[i + 1]
<1> DEFINE n == Len(f.tables)
<1>1. /\ g.tables = Front(f.tables) /\ f.tables \in Seq(SUBSET Nat)
      /\ g.metas \in {f.metas, f.metas \cup {BatchIndex(f)}}
      /\ g.progress = f.progress /\ g.pending = f.pending
      /\ g.uploaded = f.uploaded /\ g.output = f.output /\ g.backup = f.backup
  BY DEF Files
<1>2. n \in Nat /\ n >= 1 /\ BatchIndex(f) = n - 1
  BY Indexes
<1>3. /\ Len(g.tables) = n - 1 /\ DOMAIN g.tables = 1 .. n - 1
      /\ \A i \in 1 .. n - 1 : g.tables[i] = f.tables[i]
  BY <1>1, <1>2 DEF Front
<1>4. g.metas \in {0 .. Len(g.tables) - 1, 0 .. Len(g.tables)}
  <2>1. Len(g.tables) - 1 = n - 2
    BY <1>2, <1>3
  <2>2. (0 .. n - 2) \cup {n - 1} = 0 .. n - 1
    BY <1>2
  <2> QED
    BY <1>1, <1>2, <1>3, <2>1, <2>2
<1>5. Complete(f) = 1 .. n - 1 /\ Complete(g) = 1 .. n - 1
  <2>1. Complete(f) = 1 .. n - 1
    BY CompleteBatches
  <2>2. Complete(g) = 1 .. Len(g.tables)
    BY <1>4, CompleteBatches
  <2> QED
    BY <1>3, <2>1, <2>2
<1>6. Labelled(g) = Labelled(f) /\ (NoRepeats(g) <=> NoRepeats(f)) /\ Stored(g) = Stored(f)
  BY <1>3, <1>5, SameRows
<1>7. \A i \in Stored(f) : g.tables[i + 1] = f.tables[i + 1]
  BY <1>2, <1>3, <1>5, CompleteBatches
<1>8. \A i \in DOMAIN g.tables : Cardinality(g.tables[i]) \in 1 .. BatchSize
  BY <1>1, <1>2, <1>3 DEF FilesInv
<1>9. g.metas \in {0 .. Len(g.tables) + d : d \in {-2, -1, 0}}
  BY <1>2, <1>3, <1>4
<1>10. FilesInv(g)
  BY <1>1, <1>6, <1>8, <1>9 DEF FilesInv
<1> QED
  BY <1>6, <1>7, <1>10

\* The first rows that have no label follow the labelled ones.
LEMMA NextRows ==
  ASSUME TypeInv, NEW m \in Nat, Labelled(Mine) = 1 .. m, m <= Goal, Pending(Mine) # {}
  PROVE  \E k \in 1 .. BatchSize : NextBatch(Mine) = (m + 1) .. (m + k) /\ m + k <= Goal
<1> DEFINE rows == (m + 1) .. Goal
<1>1. Goal \in Nat /\ Pending(Mine) = rows
  BY SelectionType DEF Pending
<1>2. m < Goal
  BY <1>1
<1>3. \A r \in rows : Cardinality({s \in rows : s < r}) = r - 1 - m
  <2> TAKE r \in rows
  <2>1. {s \in rows : s < r} = (m + 1) .. (r - 1)
    BY <1>1
  <2>2. r - 1 \in Int /\ m + 1 \in Int /\ r - 1 >= m
    BY <1>1
  <2>3. Cardinality((m + 1) .. (r - 1)) = r - 1 - m
    BY <2>2, FS_Interval
  <2> QED
    BY <2>1, <2>3
<1>4. NextBatch(Mine) = {r \in rows : r - 1 - m < BatchSize}
  BY <1>1, <1>3 DEF NextBatch, FirstOf
<1>5. CASE Goal - m <= BatchSize
  <2>1. NextBatch(Mine) = (m + 1) .. (m + (Goal - m))
    BY <1>1, <1>4, <1>5, LabelAssumption
  <2>2. Goal - m \in 1 .. BatchSize
    BY <1>1, <1>2, <1>5, LabelAssumption
  <2>3. m + (Goal - m) <= Goal
    BY <1>1
  <2> QED
    BY <2>1, <2>2, <2>3
<1>6. CASE Goal - m > BatchSize
  <2>1. NextBatch(Mine) = (m + 1) .. (m + BatchSize)
    BY <1>1, <1>4, <1>6, LabelAssumption
  <2>2. BatchSize \in 1 .. BatchSize /\ m + BatchSize <= Goal
    BY <1>1, <1>6, LabelAssumption
  <2> QED
    BY <2>1, <2>2
<1> QED
  BY <1>1, <1>5, <1>6, LabelAssumption

\* The files of all lanes, when those of the running lane or none change.
LEMMA DiskPut ==
  ASSUME TypeInv, UNCHANGED plan, DiskInv, NEW files \in Files, FilesInv(files), Put(files)
  PROVE  DiskInv'
<1>1. \A l \in Lanes : FilesInv(disk'[l])
  BY DEF DiskInv, Put, TypeInv
<1> QED
  BY <1>1, SameTypes DEF DiskInv, FilesInv
LEMMA DiskSame ==
  ASSUME UNCHANGED <<plan, disk>>, DiskInv
  PROVE  DiskInv'
  BY SameTypes DEF DiskInv, FilesInv
LEMMA PutMine ==
  ASSUME TypeInv, NEW files \in Files, Put(files), job'.lane = job.lane
  PROVE  Mine' = files /\ \A l \in Lanes : l # job.lane => disk'[l] = disk[l]
  BY DEF TypeInv, Jobs, Put, Mine

\* A process that is not at work knows nothing.
Calm == {"down", "load", "close", "finalize"}
LEMMA CalmJob == job'.pc \in Calm => JobInv'
  BY DEF Calm, JobInv
LEMMA IdleCalm == Idle.pc \in Calm
  BY DEF Idle, Calm
LEMMA FailsCalm == TypeInv /\ Fails => job'.pc \in Calm
  BY DEF Fails, TypeInv, Jobs, Calm

\* The point and the other fields of a job that moves.
LEMMA GotoFields ==
  ASSUME TypeInv, NEW point, Goto(point)
  PROVE  /\ job'.pc = point /\ job'.lane = job.lane /\ job'.target = job.target
         /\ job'.batch = job.batch /\ job'.queue = job.queue /\ job'.worker = job.worker
  BY DEF Goto, TypeInv, Jobs

\* The operator, the scheduler, and steps that end the process.
LEMMA BeginWork ==
  ASSUME TypeInv, DiskInv, JobInv, UNCHANGED plan,
         (\E t \in Targets : Extend(t)) \/ StartJob \/ Signal \/ Kill
  PROVE  DiskInv' /\ JobInv'
<1>1. CASE \E t \in Targets : Extend(t)
  BY <1>1, DiskSame DEF Extend, JobInv, BatchNext, Mine, Goal, Whole
<1>2. CASE StartJob
  <2> DEFINE left == [k \in Sinks |-> disk[open].pending[k] \ disk[open].uploaded[k]]
  <2>1. open \in Lanes /\ disk[open] \in Files
    BY DEF Lanes, TypeInv
  <2>2. left \in Markers
    BY <2>1 DEF Markers, Files
  <2>3. /\ job' = [Idle EXCEPT !.pc = "load", !.lane = open, !.target = target, !.queue = left]
        /\ disk' = [disk EXCEPT ![open].pending = left]
    BY <1>2 DEF StartJob
  <2>4. JobInv'
    BY <2>3, CalmJob DEF Calm, Idle
  <2> DEFINE g == [disk[open] EXCEPT !.pending = left]
  <2>5. g \in Files /\ FilesInv(g)
    <3>1. g \in Files /\ g.tables = disk[open].tables /\ g.metas = disk[open].metas
          /\ g.progress = disk[open].progress /\ g.pending = left
          /\ g.uploaded = disk[open].uploaded /\ g.output = disk[open].output
          /\ g.backup = disk[open].backup
      BY <2>1, <2>2 DEF Files
    <3>2. FilesInv(disk[open])
      BY <2>1 DEF DiskInv
    <3>3. \A k \in Sinks : left[k] \subseteq disk[open].pending[k]
      OBVIOUS
    <3> HIDE DEF left, g
    <3>4. \A k \in Sinks : g.pending[k] \cup g.uploaded[k] \subseteq Stored(disk[open])
      BY <3>1, <3>2, <3>3 DEF FilesInv
    <3>5. \A output \in {g.output, g.backup} \ {None} : output \subseteq Labelled(disk[open])
      BY <3>1, <3>2 DEF FilesInv
    <3> QED
      BY <2>1, <3>1, <3>2, <3>4, <3>5, FilesKept
  <2>6. disk' = [disk EXCEPT ![open] = g]
    BY <2>3
  <2> HIDE DEF g, left
  <2>7. \A l \in Lanes : FilesInv(disk'[l])
    BY <2>1, <2>5, <2>6 DEF DiskInv, TypeInv
  <2>8. DiskInv'
    BY <2>7, SameTypes DEF DiskInv, FilesInv
  <2> QED
    BY <2>4, <2>8
<1>3. CASE Signal
  <2>1. DiskInv' /\ UNCHANGED disk
    BY <1>3, DiskSame DEF Signal
  <2>2. /\ job'.pc = job.pc /\ job'.lane = job.lane /\ job'.target = job.target
        /\ job'.batch = job.batch
    BY <1>3 DEF Signal, TypeInv, Jobs
  <2> QED
    BY <2>1, <2>2 DEF JobInv, BatchNext, Mine, Goal, Whole
<1>4. CASE Kill
  BY <1>4, DiskSame, CalmJob, IdleCalm DEF Kill
<1> QED
  BY <1>1, <1>2, <1>3, <1>4

\* The label process up to a generated batch.
LEMMA LabelWork ==
  ASSUME TypeInv, TypeInv', DiskInv, JobInv,
         LoadCheckpoints \/ NextStep \/ GenerateLabels \/ GenerateScores
  PROVE  DiskInv' /\ JobInv'
<1>m. Mine \in Files /\ FilesInv(Mine) /\ UNCHANGED plan
  BY MineType DEF DiskInv, Mine, TypeInv, Jobs, LoadCheckpoints, NextStep, GenerateLabels,
                  GenerateScores
<1>p. PICK m \in Nat : Labelled(Mine) = 1 .. m
  BY <1>m DEF FilesInv
<1>g. Goal \in Nat /\ Selection(job.lane, job.target) = 1 .. Goal
  BY SelectionType
<1>1. CASE LoadCheckpoints
  <2>1. DiskInv' /\ UNCHANGED disk
    BY <1>1, DiskSame DEF LoadCheckpoints
  <2>2. CASE Fails
    BY <2>1, <2>2, FailsCalm, CalmJob
  <2>3. CASE Goto("next") /\ Loadable(Mine) /\ Labelled(Mine) \subseteq 1 .. Goal
    <3>1. Whole(Mine)
      <4>1. {i - 1 : i \in DOMAIN Mine.tables} = 0 .. Len(Mine.tables) - 1
        <5>1. PICK n \in Nat : n = Len(Mine.tables) /\ DOMAIN Mine.tables = 1 .. n
          BY <1>m, CompleteBatches
        <5>2. \A x \in 0 .. n - 1 : x + 1 \in 1 .. n /\ (x + 1) - 1 = x
          BY <5>1
        <5>3. \A i \in 1 .. n : i - 1 \in 0 .. n - 1
          BY <5>1
        <5> QED
          BY <5>1, <5>2, <5>3
      <4> QED
        BY <2>3, <4>1 DEF Loadable, Whole
    <3>2. Mine' = Mine /\ Goal' = Goal
      BY <2>1, <2>3, GotoFields, <1>m DEF Mine, Goal
    <3> QED
      BY <2>1, <2>3, <3>1, <3>2, GotoFields DEF JobInv
  <2> QED
    BY <1>1, <1>g, <2>2, <2>3 DEF LoadCheckpoints
<1>2. CASE NextStep
  <2>n. At("next") /\ Whole(Mine) /\ Labelled(Mine) \subseteq 1 .. Goal
    BY <1>2 DEF NextStep, At, JobInv
  <2>l. m <= Goal
    BY <1>p, <1>g, <2>n
  <2>1. CASE Pending(Mine) = {} \/ job.stop
    <3>1. job'.pc = "close"
      BY <1>2, <2>1 DEF NextStep, TypeInv, Jobs
    <3>2. Counted(Mine) \in Files /\ FilesInv(Counted(Mine))
      <4>1. /\ Counted(Mine).tables = Mine.tables /\ Counted(Mine).metas = Mine.metas
            /\ Counted(Mine).pending = Mine.pending /\ Counted(Mine).uploaded = Mine.uploaded
            /\ Counted(Mine).output = Mine.output /\ Counted(Mine).backup = Mine.backup
        BY <1>m DEF Counted, Files
      <4> QED
        BY <1>m, <4>1, CountTypes, FilesKept DEF FilesInv
    <3>3. DiskInv'
      BY <1>2, <1>m, <2>1, <3>2, DiskPut, DiskSame DEF NextStep
    <3> QED
      BY <3>1, <3>3, CalmJob DEF Calm
  <2>2. CASE ~(Pending(Mine) = {} \/ job.stop)
    <3>1. job' = [job EXCEPT !.pc = "generate", !.batch = NextBatch(Mine)] /\ UNCHANGED disk
      BY <1>2, <2>2 DEF NextStep
    <3>2. /\ job'.pc = "generate" /\ job'.batch = NextBatch(Mine) /\ job'.lane = job.lane
          /\ job'.target = job.target
      BY <3>1 DEF TypeInv, Jobs
    <3>3. Mine' = Mine /\ Goal' = Goal
      BY <1>m, <3>1, <3>2 DEF Mine, Goal
    <3>4. PICK k \in 1 .. BatchSize : NextBatch(Mine) = (m + 1) .. (m + k) /\ m + k <= Goal
      BY <1>p, <2>l, <2>2, NextRows
    <3>5. BatchNext'
      BY <1>p, <3>2, <3>3, <3>4 DEF BatchNext
    <3> QED
      BY <1>m, <2>n, <3>1, <3>2, <3>3, <3>5, DiskSame DEF JobInv
  <2> QED
    BY <2>1, <2>2
<1>3. CASE GenerateLabels \/ GenerateScores
  <2>1. \/ Goto("table") /\ Put([Mine EXCEPT !.temp = TRUE])
        \/ Fails /\ UNCHANGED disk
    BY <1>3 DEF GenerateLabels, GenerateScores
  <2>2. CASE Fails /\ UNCHANGED disk
    BY <1>m, <2>2, DiskSame, FailsCalm, CalmJob
  <2>3. CASE Goto("table") /\ Put([Mine EXCEPT !.temp = TRUE])
    <3> DEFINE g == [Mine EXCEPT !.temp = TRUE]
    <3>1. /\ g \in Files /\ g.tables = Mine.tables /\ g.metas = Mine.metas
          /\ g.pending = Mine.pending /\ g.uploaded = Mine.uploaded
          /\ g.output = Mine.output /\ g.backup = Mine.backup /\ g.progress = Mine.progress
      BY <1>m DEF Files
    <3>2. Put(g)
      BY <2>3
    <3> HIDE DEF g
    <3>3. FilesInv(g)
      BY <1>m, <3>1, FilesKept DEF FilesInv
    <3>4. Labelled(g) = Labelled(Mine) /\ (Whole(g) <=> Whole(Mine))
      BY <1>m, <3>1, SameBatches
    <3>5. job'.pc = "table" /\ job'.lane = job.lane /\ job'.batch = job.batch
          /\ job'.target = job.target
      BY <2>3, GotoFields
    <3>6. Mine' = g /\ Goal' = Goal
      BY <1>m, <3>1, <3>2, <3>5, PutMine DEF Goal
    <3>7. Whole(Mine) /\ BatchNext
      BY <1>3 DEF JobInv, GenerateLabels, GenerateScores, At
    <3>8. BatchNext'
      BY <3>4, <3>5, <3>6, <3>7 DEF BatchNext
    <3> QED
      BY <1>m, <3>1, <3>2, <3>3, <3>4, <3>5, <3>6, <3>7, <3>8, DiskPut DEF JobInv
  <2> QED
    BY <2>1, <2>2, <2>3
<1> QED
  BY <1>1, <1>2, <1>3

\* A batch is not empty and not too large.
LEMMA BatchSizes == BatchNext => Cardinality(job.batch) \in 1 .. BatchSize
<1> SUFFICES ASSUME BatchNext PROVE Cardinality(job.batch) \in 1 .. BatchSize
  OBVIOUS
<1>1. PICK m \in Nat, k \in 1 .. BatchSize : job.batch = (m + 1) .. (m + k)
  BY DEF BatchNext
<1>2. k \in Nat /\ k >= 1
  BY LabelAssumption
<1>3. Cardinality((m + 1) .. (m + k)) = k
  BY <1>2, FS_Interval
<1> QED
  BY <1>1, <1>3

\* The label process from the table of a batch to its markers.
LEMMA BatchWork ==
  ASSUME TypeInv, TypeInv', DiskInv, JobInv,
         InstallTable \/ InstallMeta \/ WriteBatchFails \/ WriteProgress
  PROVE  DiskInv' /\ JobInv'
<1>m. Mine \in Files /\ FilesInv(Mine) /\ UNCHANGED plan /\ job.batch \in SUBSET Nat
  BY MineType DEF DiskInv, Mine, TypeInv, Jobs, InstallTable, InstallMeta, WriteBatchFails,
                  WriteProgress
<1>g. Goal \in Nat
  BY SelectionType
<1>n. ASSUME job'.lane = job.lane, job'.target = job.target PROVE Goal' = Goal
  BY <1>m, <1>n DEF Goal
<1>1. CASE InstallTable
  <2>0. Whole(Mine) /\ BatchNext
    BY <1>1 DEF InstallTable, At, JobInv
  <2> DEFINE g == [Mine EXCEPT !.temp = FALSE, !.tables = Append(@, job.batch)]
  <2>1. Goto("meta") /\ Put(g)
    <3>1. ~(BatchIndex(Mine) < Len(Mine.tables))
      BY <1>m, <2>0, Indexes
    <3> QED
      BY <1>1, <3>1 DEF InstallTable
  <2>2. PICK m \in Nat, k \in 1 .. BatchSize :
          Labelled(Mine) = 1 .. m /\ job.batch = (m + 1) .. (m + k) /\ m + k <= Goal
    BY <2>0 DEF BatchNext
  <2>3. Cardinality(job.batch) \in 1 .. BatchSize
    BY <2>0, BatchSizes
  <2>4. g \in Files
    BY <1>m, TableTypes DEF Files
  <2>e. g.tables = Append(Mine.tables, job.batch) /\ g.metas = Mine.metas /\ SameRecords(Mine, g)
    BY <1>m DEF Files, SameRecords
  <2> HIDE DEF g
  <2>5. /\ FilesInv(g) /\ Labelled(g) = Labelled(Mine)
        /\ g.tables # <<>> /\ g.metas = 0 .. Len(g.tables) - 2
        /\ g.tables[Len(g.tables)] = job.batch
    BY <1>m, <2>0, <2>3, <2>4, <2>e, TableAdded
  <2>6. job'.pc = "meta" /\ job'.lane = job.lane /\ job'.batch = job.batch
        /\ job'.target = job.target
    BY <2>1, GotoFields
  <2>7. Mine' = g /\ Goal' = Goal
    BY <1>n, <2>1, <2>4, <2>6, PutMine
  <2>8. BatchNext'
    BY <2>2, <2>5, <2>6, <2>7 DEF BatchNext
  <2> QED
    BY <1>m, <2>1, <2>4, <2>5, <2>6, <2>7, <2>8, DiskPut DEF JobInv
<1>2. CASE InstallMeta
  <2> DEFINE g == [Mine EXCEPT !.metas = @ \cup {BatchIndex(Mine)}]
  <2>0. /\ Mine.tables # <<>> /\ Mine.metas = 0 .. Len(Mine.tables) - 2
        /\ Mine.tables[Len(Mine.tables)] = job.batch /\ BatchNext
    BY <1>2 DEF InstallMeta, At, JobInv
  <2>1. Goto("progress") /\ Put(g)
    BY <1>2 DEF InstallMeta
  <2>2. PICK m \in Nat, k \in 1 .. BatchSize :
          Labelled(Mine) = 1 .. m /\ job.batch = (m + 1) .. (m + k) /\ m + k <= Goal
    BY <2>0 DEF BatchNext
  <2>3. g \in Files
    BY <1>m, <2>0, Indexes DEF Files
  <2>4. FilesInv(g) /\ Labelled(g) = 1 .. (m + k) /\ Whole(g) /\ g.tables = Mine.tables
    BY <1>m, <2>0, <2>2, <2>3, MetaAdded
  <2>5. Labelled(g) \subseteq 1 .. Goal
    BY <1>g, <2>2, <2>4
  <2> HIDE DEF g
  <2>6. job'.pc = "progress" /\ job'.lane = job.lane /\ job'.target = job.target
    BY <2>1, GotoFields
  <2>7. Mine' = g /\ Goal' = Goal
    BY <1>n, <2>1, <2>3, <2>6, PutMine
  <2> QED
    BY <1>m, <2>0, <2>1, <2>3, <2>4, <2>5, <2>6, <2>7, DiskPut DEF JobInv
<1>3. CASE WriteBatchFails
  <2>0. Mine.tables # <<>> /\ Mine.metas = 0 .. Len(Mine.tables) - 2
    BY <1>3 DEF WriteBatchFails, At, JobInv
  <2>1. JobInv'
    BY <1>3, FailsCalm, CalmJob DEF WriteBatchFails
  <2>2. CASE UNCHANGED disk
    BY <1>m, <2>1, <2>2, DiskSame
  <2>3. ASSUME NEW g, \/ g = [Mine EXCEPT !.tables = Front(@)]
                      \/ g = [Mine EXCEPT !.tables = Front(@), !.metas = @ \cup {BatchIndex(Mine)}],
               Put(g)
        PROVE  DiskInv'
    <3>0. BatchIndex(Mine) \in Nat /\ Front(Mine.tables) \in Seq(SUBSET Nat)
      BY <1>m, <2>0, Indexes, TableTypes
    <3>1. g \in Files
      BY <1>m, <2>3, <3>0 DEF Files
    <3>2. FilesInv(g)
      BY <1>m, <2>0, <2>3, <3>1, TableDropped
    <3> QED
      BY <1>m, <2>3, <3>1, <3>2, DiskPut
  <2> QED
    BY <1>3, <2>1, <2>2, <2>3 DEF WriteBatchFails
<1>4. CASE WriteProgress
  <2> DEFINE g == Counted(Mine)
  <2>0. Whole(Mine) /\ Mine.tables # <<>> /\ Labelled(Mine) \subseteq 1 .. Goal
    BY <1>4 DEF WriteProgress, At, JobInv
  <2>1. Goto("enqueue") /\ Put(g)
    BY <1>4 DEF WriteProgress
  <2>2. /\ g \in Files /\ g.tables = Mine.tables /\ g.metas = Mine.metas
        /\ g.pending = Mine.pending /\ g.uploaded = Mine.uploaded
        /\ g.output = Mine.output /\ g.backup = Mine.backup
        /\ \A m \in Nat : Labelled(Mine) = 1 .. m => g.progress = m
    BY <1>m, CountTypes DEF Counted, Files
  <2> HIDE DEF g
  <2>3. FilesInv(g)
    BY <1>m, <2>2, FilesKept DEF FilesInv
  <2>4. Labelled(g) = Labelled(Mine) /\ Whole(g)
    BY <1>m, <2>0, <2>2, SameBatches
  <2>5. job'.pc = "enqueue" /\ job'.lane = job.lane /\ job'.target = job.target
    BY <2>1, GotoFields
  <2>6. Mine' = g /\ Goal' = Goal
    BY <1>n, <2>1, <2>2, <2>5, PutMine
  <2> QED
    BY <1>m, <2>0, <2>1, <2>2, <2>3, <2>4, <2>5, <2>6, DiskPut DEF JobInv
<1> QED
  BY <1>1, <1>2, <1>3, <1>4

\* Markers may change at any point of the process.
MarkersMoved(files) ==
  /\ files \in Files /\ files.tables = Mine.tables /\ files.metas = Mine.metas
  /\ files.progress = Mine.progress /\ files.output = Mine.output /\ files.backup = Mine.backup
  /\ \A k \in Sinks : files.pending[k] \cup files.uploaded[k] \subseteq Stored(Mine)
SameWork ==
  /\ job'.lane = job.lane /\ job'.target = job.target /\ job'.batch = job.batch
  /\ job'.pc = job.pc \/ (job.pc = "enqueue" /\ job'.pc = "next")
LEMMA MarkerWork ==
  ASSUME TypeInv, UNCHANGED plan, DiskInv, JobInv, SameWork,
         UNCHANGED disk \/ (\E files : MarkersMoved(files) /\ Put(files))
  PROVE  DiskInv' /\ JobInv'
<1>m. Mine \in Files /\ FilesInv(Mine)
  BY MineType DEF DiskInv, Mine, TypeInv, Jobs
<1>1. PICK g \in Files :
        /\ g.tables = Mine.tables /\ g.metas = Mine.metas /\ g.output = Mine.output
        /\ Mine' = g /\ DiskInv'
  <2>1. CASE UNCHANGED disk
    <3>1. Mine' = Mine
      BY <2>1 DEF Mine, SameWork
    <3> QED
      BY <1>m, <2>1, <3>1, DiskSame
  <2>2. ASSUME NEW g, MarkersMoved(g), Put(g)
        PROVE  Mine' = g /\ DiskInv' /\ g \in Files
    <3>1. FilesInv(g)
      BY <1>m, <2>2, FilesKept DEF FilesInv, MarkersMoved
    <3>2. Mine' = g
      BY <2>2, PutMine DEF MarkersMoved, SameWork
    <3> QED
      BY <2>2, <3>1, <3>2, DiskPut DEF MarkersMoved
  <2> QED
    BY <2>1, <2>2 DEF MarkersMoved
<1>2. Labelled(g) = Labelled(Mine) /\ (Whole(g) <=> Whole(Mine))
  BY <1>m, <1>1, SameBatches
<1>3. Goal' = Goal
  BY DEF Goal, SameWork
<1>4. BatchNext => BatchNext'
  BY <1>1, <1>2, <1>3 DEF BatchNext, SameWork
<1> QED
  BY <1>1, <1>2, <1>3, <1>4 DEF JobInv, SameWork

\* The marker of the batch just written.
LEMMA Enqueued ==
  ASSUME TypeInv, DiskInv, JobInv, Enqueue
  PROVE  LET i == BatchIndex(Mine) - 1
             fresh == {k \in Sinks : i \notin Mine.pending[k] \cup Mine.uploaded[k]}
             With(f) == [k \in Sinks |-> IF k \in fresh THEN f[k] \cup {i} ELSE f[k]]
             g == [Mine EXCEPT !.pending = With(Mine.pending)]
         IN /\ i \in Stored(Mine)
            /\ MarkersMoved(g) /\ Put(g) /\ SameWork
            /\ g.uploaded = Mine.uploaded
            /\ job'.queue = With(job.queue) /\ job'.worker = job.worker /\ job'.pc = "next"
<1> DEFINE i == BatchIndex(Mine) - 1
           fresh == {k \in Sinks : i \notin Mine.pending[k] \cup Mine.uploaded[k]}
           With(f) == [k \in Sinks |-> IF k \in fresh THEN f[k] \cup {i} ELSE f[k]]
           g == [Mine EXCEPT !.pending = With(Mine.pending)]
<1>m. Mine \in Files /\ FilesInv(Mine)
  BY MineType DEF DiskInv, Mine, TypeInv, Jobs
<1>1. Whole(Mine) /\ Mine.tables # <<>> /\ job.pc = "enqueue"
  BY DEF Enqueue, At, JobInv
<1>2. i \in Nat /\ i \in Stored(Mine)
  <2>1. i = Len(Mine.tables) - 1 /\ Len(Mine.tables) >= 1 /\ Len(Mine.tables) \in Nat
    BY <1>m, <1>1, Indexes
  <2>2. DOMAIN Mine.tables = 1 .. Len(Mine.tables)
    BY <1>m, CompleteBatches
  <2> QED
    BY <1>1, <2>1, <2>2 DEF Stored, Whole
<1>3. With(Mine.pending) \in Markers
  BY <1>m, <1>2 DEF Files, Markers
<1>4. Put(g) /\ job' = [job EXCEPT !.pc = "next", !.queue = With(job.queue)]
  BY DEF Enqueue, Marked
<1>5. \A k \in Sinks : With(Mine.pending)[k] \subseteq Mine.pending[k] \cup {i}
  OBVIOUS
<1>6. /\ g \in Files /\ g.tables = Mine.tables /\ g.metas = Mine.metas
      /\ g.progress = Mine.progress /\ g.output = Mine.output /\ g.backup = Mine.backup
      /\ g.uploaded = Mine.uploaded /\ g.pending = With(Mine.pending)
  <2> HIDE DEF With
  <2> QED
    BY <1>m, <1>3 DEF Files
<1>7. MarkersMoved(g)
  <2> HIDE DEF g, With, i
  <2> QED
    BY <1>m, <1>2, <1>5, <1>6 DEF MarkersMoved, FilesInv
<1>8. /\ job'.pc = "next" /\ job'.queue = With(job.queue) /\ job'.worker = job.worker
      /\ job'.lane = job.lane /\ job'.target = job.target /\ job'.batch = job.batch
  <2> HIDE DEF With
  <2> QED
    BY <1>4 DEF TypeInv, Jobs
<1>9. SameWork
  BY <1>1, <1>8 DEF SameWork
<1> HIDE DEF g, With, i
<1> QED
  BY <1>2, <1>4, <1>6, <1>7, <1>8, <1>9 DEF g, With, i

\* The threads move markers of stored batches.
LEMMA ThreadMoves ==
  ASSUME TypeInv, DiskInv, ThreadInv, NEW k \in Sinks,
         Send(k) \/ SendFails(k) \/ MarkUploaded(k) \/ DropMarker(k)
  PROVE  /\ SameWork /\ job'.pc = job.pc /\ UNCHANGED plan
         /\ UNCHANGED disk \/ (\E files : MarkersMoved(files) /\ Put(files))
<1>m. /\ Mine \in Files /\ FilesInv(Mine)
      /\ job.queue \in Markers /\ job.worker \in [Sinks -> Stages \X Nat]
  BY MineType DEF DiskInv, Mine, TypeInv, Jobs
<1>1. /\ job'.pc = job.pc /\ job'.lane = job.lane /\ job'.target = job.target
      /\ job'.batch = job.batch
  BY DEF Send, SendFails, MarkUploaded, DropMarker, Worker, TypeInv, Jobs
<1>2. SameWork
  BY <1>1 DEF SameWork
<1>3. CASE Send(k) \/ SendFails(k)
  BY <1>1, <1>2, <1>3 DEF Send, SendFails
<1>4. CASE MarkUploaded(k)
  <2> DEFINE g == [Mine EXCEPT !.uploaded[k] = @ \cup {Item(k)}]
  <2>1. Item(k) \in Stored(Mine) /\ Item(k) \in Nat
    BY <1>4, <1>m DEF ThreadInv, MarkUploaded, Item
  <2>2. /\ g \in Files /\ g.tables = Mine.tables /\ g.metas = Mine.metas
        /\ g.progress = Mine.progress /\ g.output = Mine.output /\ g.backup = Mine.backup
        /\ g.pending = Mine.pending
        /\ g.uploaded = [Mine.uploaded EXCEPT ![k] = @ \cup {Item(k)}]
    BY <1>m, <2>1 DEF Files, Markers
  <2>3. Mine.uploaded \in Markers
    BY <1>m DEF Files
  <2>4. Put(g)
    BY <1>4 DEF MarkUploaded
  <2> HIDE DEF g
  <2>5. MarkersMoved(g)
    BY <1>m, <2>1, <2>2, <2>3 DEF MarkersMoved, FilesInv, Markers
  <2> QED
    BY <1>1, <1>2, <1>4, <2>4, <2>5 DEF MarkUploaded
<1>5. CASE DropMarker(k)
  <2> DEFINE g == [Mine EXCEPT !.pending[k] = @ \ {Item(k)}]
  <2>2. /\ g \in Files /\ g.tables = Mine.tables /\ g.metas = Mine.metas
        /\ g.progress = Mine.progress /\ g.output = Mine.output /\ g.backup = Mine.backup
        /\ g.uploaded = Mine.uploaded
        /\ g.pending = [Mine.pending EXCEPT ![k] = @ \ {Item(k)}]
    BY <1>m DEF Files, Markers
  <2>3. Mine.pending \in Markers
    BY <1>m DEF Files
  <2>4. Put(g)
    BY <1>5 DEF DropMarker
  <2> HIDE DEF g
  <2>5. MarkersMoved(g)
    BY <1>m, <2>2, <2>3 DEF MarkersMoved, FilesInv, Markers
  <2> QED
    BY <1>1, <1>2, <1>5, <2>4, <2>5 DEF DropMarker
<1> QED
  BY <1>3, <1>4, <1>5

\* A new output has all rows of its lane; only a worldwide run has the smoke lane.
LEMMA OutputWork ==
  ASSUME TypeInv, DiskInv, JobInv, SmokeInv,
         Finishing
  PROVE  DiskInv' /\ JobInv'
<1>m. Mine \in Files /\ FilesInv(Mine)
  BY MineType DEF DiskInv, Mine, TypeInv, Jobs
<1>p. UNCHANGED plan
  BY DEF Finishing, Close, FinishFails, FinalizeV1, FinalizeV2, SetAside, InstallOutput,
    RemoveBackup, ValidateOutput, FinalizeFails, Publish, PublishFails, ReadBack
<1>g. Selection(job.lane, job.target) = 1 .. Goal
  BY SelectionType
<1>t. Labelled(Mine) \in SUBSET Nat
  BY <1>m, RowTypes
<1>i. ASSUME job' = Idle, UNCHANGED disk PROVE DiskInv' /\ JobInv'
  BY <1>p, <1>i, DiskSame, CalmJob, IdleCalm
<1>n. ASSUME job'.lane = job.lane, job'.target = job.target PROVE Goal' = Goal
  BY <1>p, <1>n DEF Goal
<1>o. ASSUME NEW g \in Files, g.tables = Mine.tables, g.metas = Mine.metas,
             g.progress = Mine.progress, g.pending = Mine.pending,
             g.uploaded = Mine.uploaded,
             \A output \in {g.output, g.backup} \ {None} : output \subseteq Labelled(Mine),
             Put(g)
      PROVE  DiskInv' /\ Labelled(g) = Labelled(Mine)
  <2>1. FilesInv(g)
    BY <1>m, <1>o, FilesKept DEF FilesInv
  <2>2. Labelled(g) = Labelled(Mine)
    BY <1>m, <1>o, SameBatches
  <2> QED
    BY <1>p, <1>o, <2>1, <2>2, DiskPut
<1>1. CASE Close
  <2>1. job'.pc \in Calm
    BY <1>1, IdleCalm DEF Close, Calm, Idle
  <2> QED
    BY <1>1, <1>p, <2>1, CalmJob, DiskSame DEF Close
<1>2. CASE FinishFails \/ FinalizeFails \/ PublishFails \/ ReadBack
  BY <1>2, <1>i DEF FinishFails, FinalizeFails, PublishFails, ReadBack
<1>3. CASE FinalizeV1
  <2>1. CASE job' = Idle /\ UNCHANGED disk
    BY <2>1, <1>i
  <2> DEFINE g == [Mine EXCEPT !.output = Labelled(Mine)]
  <2>2. CASE OneEach /\ Goto("publish") /\ Put(g)
    <3>1. job.lane = "production" /\ Goal = job.target
      <4>1. plan.smoke = 0
        BY <1>3, PlansAssumption DEF FinalizeV1, TypeInv
      <4>2. job.lane = "production"
        BY <1>3, <4>1 DEF SmokeInv, At, FinalizeV1
      <4> QED
        BY <4>2 DEF Goal
    <3>2. g \in Files /\ g.tables = Mine.tables /\ g.metas = Mine.metas
          /\ g.progress = Mine.progress /\ g.pending = Mine.pending
          /\ g.uploaded = Mine.uploaded /\ g.output = Labelled(Mine) /\ g.backup = Mine.backup
      BY <1>m, <1>t DEF Files, Outputs
    <3>3. Put(g)
      BY <2>2
    <3> HIDE DEF g
    <3>4. \A output \in {g.output, g.backup} \ {None} : output \subseteq Labelled(Mine)
      BY <1>m, <3>2 DEF FilesInv
    <3>5. DiskInv'
      BY <1>o, <3>2, <3>3, <3>4
    <3>6. job'.pc = "publish" /\ job'.lane = job.lane /\ job'.target = job.target
      BY <2>2, GotoFields
    <3>7. Mine' = g
      BY <3>2, <3>3, <3>6, PutMine
    <3>8. g.output = 1 .. job.target
      BY <1>g, <2>2, <3>1, <3>2 DEF OneEach
    <3> QED
      BY <3>1, <3>5, <3>6, <3>7, <3>8 DEF JobInv
  <2> QED
    BY <1>3, <2>1, <2>2 DEF FinalizeV1
<1>4. CASE FinalizeV2
  <2>1. CASE job' = Idle
    BY <1>4, <2>1, <1>i DEF FinalizeV2
  <2>2. CASE OneEach /\ Goto("install")
    <3>1. job'.pc = "install" /\ job'.lane = job.lane /\ job'.target = job.target
      BY <2>2, GotoFields
    <3>2. UNCHANGED disk
      BY <1>4 DEF FinalizeV2
    <3>3. Mine' = Mine /\ Goal' = Goal
      BY <1>n, <3>1, <3>2 DEF Mine
    <3>4. Labelled(Mine) = 1 .. Goal
      BY <1>g, <2>2 DEF OneEach
    <3> QED
      BY <1>p, <3>1, <3>2, <3>3, <3>4, DiskSame DEF JobInv
  <2> QED
    BY <1>4, <2>1, <2>2 DEF FinalizeV2
<1>5. CASE SetAside
  <2> DEFINE g == [Mine EXCEPT !.output = None, !.backup = Mine.output]
  <2>1. g \in Files /\ g.tables = Mine.tables /\ g.metas = Mine.metas
        /\ g.progress = Mine.progress /\ g.pending = Mine.pending
        /\ g.uploaded = Mine.uploaded /\ g.output = None /\ g.backup = Mine.output
    BY <1>m DEF Files, Outputs
  <2>2. Put(g) /\ UNCHANGED job /\ job.pc = "install"
    BY <1>5 DEF SetAside, At
  <2> HIDE DEF g
  <2>3. \A output \in {g.output, g.backup} \ {None} : output \subseteq Labelled(Mine)
    BY <1>m, <2>1 DEF FilesInv
  <2>4. DiskInv' /\ Labelled(g) = Labelled(Mine)
    BY <1>o, <2>1, <2>2, <2>3
  <2>5. Mine' = g /\ Goal' = Goal
    BY <1>n, <2>1, <2>2, PutMine
  <2> QED
    BY <2>2, <2>4, <2>5 DEF JobInv
<1>6. CASE InstallOutput
  <2> DEFINE g == [Mine EXCEPT !.output = Labelled(Mine)]
  <2>1. g \in Files /\ g.tables = Mine.tables /\ g.metas = Mine.metas
        /\ g.progress = Mine.progress /\ g.pending = Mine.pending
        /\ g.uploaded = Mine.uploaded /\ g.output = Labelled(Mine) /\ g.backup = Mine.backup
    BY <1>m, <1>t DEF Files, Outputs
  <2>2. Put(g) /\ Goto("remove") /\ Labelled(Mine) = 1 .. Goal
    BY <1>6 DEF InstallOutput, At, JobInv
  <2> HIDE DEF g
  <2>3. \A output \in {g.output, g.backup} \ {None} : output \subseteq Labelled(Mine)
    BY <1>m, <2>1 DEF FilesInv
  <2>4. DiskInv'
    BY <1>o, <2>1, <2>2, <2>3
  <2>5. job'.pc = "remove" /\ job'.lane = job.lane /\ job'.target = job.target
    BY <2>2, GotoFields
  <2>6. Mine' = g /\ Goal' = Goal
    BY <1>n, <2>1, <2>2, <2>5, PutMine
  <2> QED
    BY <2>1, <2>2, <2>4, <2>5, <2>6 DEF JobInv
<1>8. CASE RemoveBackup
  <2> DEFINE g == [Mine EXCEPT !.backup = None]
  <2>1. g \in Files /\ g.tables = Mine.tables /\ g.metas = Mine.metas
        /\ g.progress = Mine.progress /\ g.pending = Mine.pending
        /\ g.uploaded = Mine.uploaded /\ g.output = Mine.output /\ g.backup = None
    BY <1>m DEF Files, Outputs
  <2>2. Put(g) /\ Goto("validate") /\ Mine.output = 1 .. Goal
    BY <1>8 DEF RemoveBackup, At, JobInv
  <2> HIDE DEF g
  <2>3. \A output \in {g.output, g.backup} \ {None} : output \subseteq Labelled(Mine)
    BY <1>m, <2>1 DEF FilesInv
  <2>4. DiskInv'
    BY <1>o, <2>1, <2>2, <2>3
  <2>5. job'.pc = "validate" /\ job'.lane = job.lane /\ job'.target = job.target
    BY <2>2, GotoFields
  <2>6. Mine' = g /\ Goal' = Goal
    BY <1>n, <2>1, <2>2, <2>5, PutMine
  <2> QED
    BY <2>1, <2>2, <2>4, <2>5, <2>6 DEF JobInv
<1>9. CASE ValidateOutput
  <2>1. CASE job' = Idle
    BY <1>9, <2>1, <1>i DEF ValidateOutput
  <2>2. CASE job.lane = "production" /\ Goto("publish")
    <3>1. job'.pc = "publish" /\ job'.lane = job.lane /\ job'.target = job.target
      BY <2>2, GotoFields
    <3>2. UNCHANGED disk /\ Mine.output = 1 .. job.target
      BY <1>9, <2>2 DEF ValidateOutput, At, JobInv, Goal
    <3>3. Mine' = Mine
      BY <3>1, <3>2 DEF Mine
    <3> QED
      BY <1>p, <2>2, <3>1, <3>2, <3>3, DiskSame DEF JobInv
  <2> QED
    BY <1>9, <2>1, <2>2 DEF ValidateOutput
<1>7. CASE Publish
  <2>1. job'.pc = "readback" /\ job'.lane = job.lane /\ job'.target = job.target
    BY <1>7, GotoFields DEF Publish
  <2>2. UNCHANGED disk /\ job.pc = "publish"
    BY <1>7 DEF Publish, At
  <2>3. Mine' = Mine
    BY <2>1, <2>2 DEF Mine
  <2> QED
    BY <1>p, <2>1, <2>2, <2>3, DiskSame DEF JobInv
<1> QED
  BY <1>1, <1>2, <1>3, <1>4, <1>5, <1>6, <1>7, <1>8, <1>9 DEF Finishing

-----------------------------------------------------------------------------
(* Targets, releases and lanes.                                            *)

LEMMA TargetStep == TypeInv /\ TypeInv' /\ JobInv /\ TargetInv /\ [Next]_vars => TargetInv'
<1> SUFFICES ASSUME TypeInv, TypeInv', JobInv, TargetInv, [Next]_vars PROVE TargetInv'
  OBVIOUS
<1>t. target \in Nat /\ target' \in Nat /\ job.target \in Nat
  BY DEF TypeInv, Jobs
<1>r. PICK r \in 0 .. target : release = 1 .. r /\ (~At("down") => r <= job.target)
  BY DEF TargetInv
<1>1. ASSUME UNCHANGED <<plan, target, release>>,
             job'.pc = "down" \/ (job.pc # "down" /\ job'.target = job.target)
      PROVE  TargetInv'
  <2>1. target' = target /\ plan' = plan /\ release' = release
    BY <1>1
  <2>2. ~At("down")' => ~At("down") /\ job'.target = job.target
    BY <1>1 DEF At
  <2> QED
    BY <1>r, <2>1, <2>2 DEF TargetInv
<1>i. Idle.pc = "down"
  BY DEF Idle
<1>g. \A point : Goto(point) => job'.target = job.target
  BY GotoFields
<1>f. Fails => job'.target = job.target
  BY DEF Fails, TypeInv, Jobs
<1>2. CASE UNCHANGED vars
  BY <1>2, <1>1 DEF vars, At
<1>3. CASE \E t \in Targets : Extend(t)
  <2>1. PICK t \in Targets : Extend(t)
    BY <1>3
  <2>2. target' = t /\ t > target /\ UNCHANGED <<plan, release, job>>
    BY <2>1 DEF Extend
  <2>3. t \in Nat /\ r \in 0 .. t
    BY <1>t, <2>2, LabelAssumption
  <2> QED
    BY <1>t, <1>r, <2>2, <2>3 DEF TargetInv, At
<1>4. CASE StartJob
  <2>1. /\ UNCHANGED <<plan, target, release>> /\ job'.target = target
        /\ release # 1 .. target
    BY <1>4 DEF StartJob, Idle
  <2>2. target \in 1 .. target /\ r <= target
    BY <1>t, <1>r, <2>1
  <2> QED
    BY <1>r, <2>1, <2>2 DEF TargetInv, At
<1>5. CASE Signal \/ Kill
  BY <1>1, <1>5, <1>i DEF Signal, Kill, TypeInv, Jobs, At
<1>6. CASE LoadCheckpoints \/ NextStep \/ GenerateLabels \/ GenerateScores
  <2>1. job'.target = job.target
    BY <1>6, <1>g, <1>f
    DEF LoadCheckpoints, NextStep, GenerateLabels, GenerateScores, TypeInv, Jobs
  <2> QED
    BY <1>1, <1>6, <2>1 DEF LoadCheckpoints, NextStep, GenerateLabels, GenerateScores, At
<1>7. CASE InstallTable \/ InstallMeta \/ WriteBatchFails \/ WriteProgress \/ Enqueue
  <2>1. job'.target = job.target
    BY <1>7, <1>g, <1>f
    DEF InstallTable, InstallMeta, WriteBatchFails, WriteProgress, Enqueue, Marked, TypeInv, Jobs
  <2> QED
    BY <1>1, <1>7, <2>1
    DEF InstallTable, InstallMeta, WriteBatchFails, WriteProgress, Enqueue, At
<1>9. CASE Finishing /\ ~Publish
  <2>1. UNCHANGED <<plan, target, release>> /\ job.pc # "down"
    BY <1>9
    DEF Finishing, Close, FinishFails, FinalizeV1, FinalizeV2, SetAside, InstallOutput,
        RemoveBackup, ValidateOutput, FinalizeFails, PublishFails, ReadBack, At
  <2>2. job' = Idle \/ job'.target = job.target
    BY <1>9, <1>g
    DEF Finishing, Close, FinishFails, FinalizeV1, FinalizeV2, SetAside, InstallOutput,
        RemoveBackup, ValidateOutput, FinalizeFails, PublishFails, ReadBack, Idle, TypeInv, Jobs
  <2> QED
    BY <1>1, <1>i, <2>1, <2>2
<1>10. CASE Publish
  <2>1. /\ UNCHANGED <<plan, target>> /\ release' = Mine.output /\ job.pc = "publish"
        /\ job'.target = job.target
    BY <1>10, <1>g DEF Publish, At
  <2>2. release' = 1 .. job.target /\ job.target \in 1 .. target
    BY <2>1 DEF JobInv, TargetInv, At
  <2> QED
    BY <1>t, <2>1, <2>2 DEF TargetInv, At
<1>11. CASE \E k \in Sinks : Send(k) \/ SendFails(k) \/ MarkUploaded(k) \/ DropMarker(k)
  <2>1. /\ UNCHANGED <<plan, target, release>> /\ job'.target = job.target
        /\ job'.pc = job.pc
    BY <1>11 DEF Send, SendFails, MarkUploaded, DropMarker, Worker, TypeInv, Jobs
  <2> QED
    BY <1>1, <2>1
<1> QED
  BY <1>2, <1>3, <1>4, <1>5, <1>6, <1>7, <1>9, <1>10, <1>11, StepKinds DEF Finishing

\* What a step of the running process does to the batches that are there: nothing.
Grows(f, g) ==
  /\ Stored(f) \subseteq Stored(g) /\ Labelled(f) \subseteq Labelled(g)
  /\ \A i \in Stored(f) : g.tables[i + 1] = f.tables[i + 1]
Untouched(f, g) ==
  /\ g.pending = f.pending /\ g.uploaded = f.uploaded
  /\ g.output = f.output /\ g.backup = f.backup

LEMMA BatchesGrow ==
  ASSUME TypeInv, DiskInv, JobInv,
         \/ LoadCheckpoints \/ NextStep \/ GenerateLabels \/ GenerateScores
         \/ InstallTable \/ InstallMeta \/ WriteBatchFails \/ WriteProgress
  PROVE  \/ UNCHANGED disk
         \/ \E g \in Files :
              /\ Put(g) /\ Grows(Mine, g) /\ Untouched(Mine, g)
              /\ InstallMeta \/ Labelled(g) = Labelled(Mine)
<1>m. Mine \in Files /\ FilesInv(Mine) /\ job.batch \in SUBSET Nat
  BY MineType DEF DiskInv, Mine, TypeInv, Jobs
<1>s. ASSUME NEW g \in Files, g.tables = Mine.tables, g.metas = Mine.metas,
             Untouched(Mine, g), Put(g)
      PROVE  Grows(Mine, g) /\ Labelled(g) = Labelled(Mine)
  BY <1>m, <1>s, SameBatches DEF Grows
<1>c. ASSUME Put(Counted(Mine))
      PROVE  /\ Counted(Mine) \in Files /\ Grows(Mine, Counted(Mine))
             /\ Untouched(Mine, Counted(Mine)) /\ Labelled(Counted(Mine)) = Labelled(Mine)
  <2>1. Counted(Mine) \in Files
    BY CountTypes
  <2>2. /\ Counted(Mine).tables = Mine.tables /\ Counted(Mine).metas = Mine.metas
        /\ Untouched(Mine, Counted(Mine))
    BY <1>m DEF Counted, Files, Untouched
  <2> QED
    BY <1>c, <1>s, <2>1, <2>2
<1>t. ASSUME NEW b \in BOOLEAN, Put([Mine EXCEPT !.temp = b])
      PROVE  \E g \in Files : /\ Put(g) /\ Grows(Mine, g) /\ Untouched(Mine, g)
                               /\ Labelled(g) = Labelled(Mine)
  <2> DEFINE g == [Mine EXCEPT !.temp = b]
  <2>1. g \in Files /\ g.tables = Mine.tables /\ g.metas = Mine.metas /\ Untouched(Mine, g)
    BY <1>m DEF Files, Untouched
  <2>2. Put(g)
    BY <1>t
  <2> HIDE DEF g
  <2> QED
    BY <1>s, <2>1, <2>2
<1>1. CASE LoadCheckpoints
  BY <1>1 DEF LoadCheckpoints
<1>2. CASE NextStep
  <2>1. UNCHANGED disk \/ Put(Counted(Mine))
    BY <1>2 DEF NextStep
  <2> QED
    BY <1>c, <2>1
<1>3. CASE GenerateLabels \/ GenerateScores
  <2>1. UNCHANGED disk \/ Put([Mine EXCEPT !.temp = TRUE])
    BY <1>3 DEF GenerateLabels, GenerateScores
  <2> QED
    BY <1>t, <2>1
<1>4. CASE InstallTable
  <2>0. Whole(Mine) /\ BatchNext
    BY <1>4 DEF InstallTable, At, JobInv
  <2> DEFINE g == [Mine EXCEPT !.temp = FALSE, !.tables = Append(@, job.batch)]
  <2>1. Put(g)
    <3>1. ~(BatchIndex(Mine) < Len(Mine.tables))
      BY <1>m, <2>0, Indexes
    <3> QED
      BY <1>4, <3>1 DEF InstallTable
  <2>2. g \in Files
    BY <1>m, TableTypes DEF Files
  <2>3. /\ g.tables = Append(Mine.tables, job.batch) /\ g.metas = Mine.metas
        /\ SameRecords(Mine, g) /\ Untouched(Mine, g)
    BY <1>m DEF Files, SameRecords, Untouched
  <2> HIDE DEF g
  <2>4. Cardinality(job.batch) \in 1 .. BatchSize
    BY <2>0, BatchSizes
  <2>5. Grows(Mine, g) /\ Labelled(g) = Labelled(Mine)
    BY <1>m, <2>0, <2>2, <2>3, <2>4, TableAdded DEF Grows
  <2> QED
    BY <2>1, <2>2, <2>3, <2>5
<1>5. CASE InstallMeta
  <2> DEFINE g == [Mine EXCEPT !.metas = @ \cup {BatchIndex(Mine)}]
  <2>0. /\ Mine.tables # <<>> /\ Mine.metas = 0 .. Len(Mine.tables) - 2
    BY <1>5 DEF InstallMeta, At, JobInv
  <2>1. /\ g \in Files /\ g.tables = Mine.tables /\ g.metas = Mine.metas \cup {BatchIndex(Mine)}
        /\ Untouched(Mine, g)
    BY <1>m, <2>0, Indexes DEF Files, Untouched
  <2>2. Put(g)
    BY <1>5 DEF InstallMeta
  <2> HIDE DEF g
  <2>3. Grows(Mine, g)
    BY <2>1 DEF Grows, Stored, Labelled, Complete
  <2> QED
    BY <1>5, <2>1, <2>2, <2>3
<1>6. CASE WriteBatchFails
  <2>0. Mine.tables # <<>> /\ Mine.metas = 0 .. Len(Mine.tables) - 2
    BY <1>6 DEF WriteBatchFails, At, JobInv
  <2>1. ASSUME NEW g, \/ g = [Mine EXCEPT !.tables = Front(@)]
                      \/ g = [Mine EXCEPT !.tables = Front(@), !.metas = @ \cup {BatchIndex(Mine)}],
               Put(g)
        PROVE  /\ g \in Files /\ Grows(Mine, g) /\ Untouched(Mine, g)
               /\ Labelled(g) = Labelled(Mine)
    <3>0. BatchIndex(Mine) \in Nat /\ Front(Mine.tables) \in Seq(SUBSET Nat)
      BY <1>m, <2>0, Indexes, TableTypes
    <3>1. g \in Files /\ Untouched(Mine, g)
      BY <1>m, <2>1, <3>0 DEF Files, Untouched
    <3>2. /\ Labelled(g) = Labelled(Mine) /\ Stored(g) = Stored(Mine)
          /\ \A i \in Stored(Mine) : g.tables[i + 1] = Mine.tables[i + 1]
      BY <1>m, <2>0, <2>1, <3>1, TableDropped
    <3> QED
      BY <3>1, <3>2 DEF Grows
  <2> QED
    BY <1>6, <2>1 DEF WriteBatchFails
<1>7. CASE WriteProgress
  BY <1>7, <1>c DEF WriteProgress
<1> QED
  BY <1>1, <1>2, <1>3, <1>4, <1>5, <1>6, <1>7

\* Finalization and publication leave the batches and their markers alone.
LEMMA OutputsMove ==
  ASSUME TypeInv,
         Finishing
  PROVE  \/ UNCHANGED disk
         \/ \E g \in Files :
              /\ Put(g) /\ g.tables = Mine.tables /\ g.metas = Mine.metas
              /\ g.progress = Mine.progress
              /\ g.pending = Mine.pending /\ g.uploaded = Mine.uploaded
              /\ \/ FinalizeV1 /\ Mine.output = None /\ g.output = Labelled(Mine)
                 \/ SetAside /\ g.output = None /\ Mine.output # None /\ g.backup = Mine.output
                 \/ InstallOutput /\ Mine.output = None /\ g.output = Labelled(Mine)
                 \/ RemoveBackup /\ g.output = Mine.output /\ g.backup = None
<1>m. Mine \in Files /\ Labelled(Mine) \in Outputs /\ None \in Outputs
  BY MineType, RowTypes DEF Outputs
<1>1. CASE FinalizeV1
  <2> DEFINE g == [Mine EXCEPT !.output = Labelled(Mine)]
  <2>1. UNCHANGED disk \/ (Put(g) /\ Mine.output = None)
    BY <1>1 DEF FinalizeV1
  <2>2. /\ g \in Files /\ g.tables = Mine.tables /\ g.metas = Mine.metas
        /\ g.progress = Mine.progress
        /\ g.pending = Mine.pending /\ g.uploaded = Mine.uploaded /\ g.output = Labelled(Mine)
    BY <1>m DEF Files
  <2> HIDE DEF g
  <2> QED
    BY <1>1, <2>1, <2>2
<1>2. CASE SetAside
  <2> DEFINE g == [Mine EXCEPT !.output = None, !.backup = Mine.output]
  <2>1. Put(g) /\ Mine.output # None
    BY <1>2 DEF SetAside
  <2>2. /\ g \in Files /\ g.tables = Mine.tables /\ g.metas = Mine.metas
        /\ g.progress = Mine.progress
        /\ g.pending = Mine.pending /\ g.uploaded = Mine.uploaded
        /\ g.output = None /\ g.backup = Mine.output
    BY <1>m DEF Files
  <2> HIDE DEF g
  <2> QED
    BY <1>2, <2>1, <2>2
<1>3. CASE InstallOutput
  <2> DEFINE g == [Mine EXCEPT !.output = Labelled(Mine)]
  <2>1. Put(g) /\ Mine.output = None
    BY <1>3 DEF InstallOutput
  <2>2. /\ g \in Files /\ g.tables = Mine.tables /\ g.metas = Mine.metas
        /\ g.progress = Mine.progress
        /\ g.pending = Mine.pending /\ g.uploaded = Mine.uploaded
        /\ g.output = Labelled(Mine)
    BY <1>m DEF Files
  <2> HIDE DEF g
  <2> QED
    BY <1>3, <2>1, <2>2
<1>4. CASE RemoveBackup
  <2> DEFINE g == [Mine EXCEPT !.backup = None]
  <2>1. Put(g)
    BY <1>4 DEF RemoveBackup
  <2>2. /\ g \in Files /\ g.tables = Mine.tables /\ g.metas = Mine.metas
        /\ g.progress = Mine.progress
        /\ g.pending = Mine.pending /\ g.uploaded = Mine.uploaded
        /\ g.output = Mine.output /\ g.backup = None
    BY <1>m DEF Files
  <2> HIDE DEF g
  <2> QED
    BY <1>4, <2>1, <2>2
<1> QED
  BY <1>1, <1>2, <1>3, <1>4
  DEF Finishing, Close, FinishFails, FinalizeV2, ValidateOutput, FinalizeFails, Publish,
      PublishFails, ReadBack

\* A step of the running process: the other lane stays as it is.
LEMMA SmokePut ==
  ASSUME TypeInv, SmokeInv, ~At("down"), UNCHANGED plan,
         UNCHANGED disk \/ \E g \in Files : Put(g),
         open' \in {open, "production"}, job'.pc = "down" \/ job'.lane = open'
  PROVE  SmokeInv'
<1>1. job.lane = open /\ disk \in [Lanes -> Files]
  BY DEF TypeInv, SmokeInv
<1>2. NoFiles' = NoFiles
  BY SameTypes DEF NoFiles
<1>3. open' = "smoke" => open = "smoke" /\ disk'["production"] = disk["production"]
  BY <1>1 DEF Put, Lanes
<1>4. plan.smoke = 0 => open' = "production"
  BY DEF SmokeInv
<1> QED
  BY <1>2, <1>3, <1>4 DEF SmokeInv, At

LEMMA SmokeStep ==
  ASSUME TypeInv, TypeInv', DiskInv, JobInv, SmokeInv, ThreadInv, [Next]_vars
  PROVE  SmokeInv'
<1>i. Idle.pc = "down"
  BY DEF Idle
<1>g. \A point : Goto(point) => job'.lane = job.lane
  BY GotoFields
<1>f. Fails => job'.lane = job.lane
  BY DEF Fails, TypeInv, Jobs
<1>n. UNCHANGED plan => NoFiles' = NoFiles
  BY SameTypes DEF NoFiles
<1>m. Mine \in Files
  BY MineType
<1>1. CASE UNCHANGED vars
  BY <1>1, <1>n DEF vars, SmokeInv, At
<1>2. CASE \E t \in Targets : Extend(t)
  BY <1>2, <1>n DEF Extend, SmokeInv, At
<1>3. CASE StartJob
  <2> DEFINE left == [k \in Sinks |-> disk[open].pending[k] \ disk[open].uploaded[k]]
  <2>1. /\ disk' = [disk EXCEPT ![open].pending = left]
        /\ job'.lane = open /\ UNCHANGED <<plan, open>>
    BY <1>3 DEF StartJob, Idle
  <2>2. open = "smoke" => disk'["production"] = disk["production"]
    BY <2>1 DEF Lanes, TypeInv
  <2> QED
    BY <1>n, <2>1, <2>2 DEF SmokeInv
<1>4. CASE Signal
  BY <1>4, <1>n DEF Signal, SmokeInv, At, TypeInv, Jobs
<1>9. CASE Kill
  <2>1. open' \in {open, "production"} /\ job'.pc = "down" /\ UNCHANGED <<plan, disk>>
    BY <1>9, <1>i DEF Kill
  <2> QED
    BY <1>9, <2>1, SmokePut DEF Kill
<1>5. CASE \/ LoadCheckpoints \/ NextStep \/ GenerateLabels \/ GenerateScores
           \/ InstallTable \/ InstallMeta \/ WriteBatchFails \/ WriteProgress
  <2>1. ~At("down") /\ UNCHANGED <<plan, open>>
    BY <1>5 DEF LoadCheckpoints, NextStep, GenerateLabels, GenerateScores, InstallTable,
                InstallMeta, WriteBatchFails, WriteProgress, At
  <2>2. job'.lane = open
    BY <1>5, <1>g, <1>f
    DEF LoadCheckpoints, NextStep, GenerateLabels, GenerateScores, InstallTable,
        InstallMeta, WriteBatchFails, WriteProgress, TypeInv, Jobs, SmokeInv, At
  <2>3. UNCHANGED disk \/ (\E g \in Files : Put(g))
    BY <1>5, BatchesGrow
  <2> QED
    BY <2>1, <2>2, <2>3, SmokePut
<1>6. CASE Enqueue
  <2>1. (\E g \in Files : Put(g)) /\ job'.lane = job.lane
    BY <1>6, Enqueued DEF MarkersMoved, SameWork
  <2>2. ~At("down") /\ job.lane = open /\ UNCHANGED <<plan, open>>
    BY <1>6 DEF Enqueue, At, SmokeInv
  <2> QED
    BY <2>1, <2>2, SmokePut
<1>7. ASSUME NEW k \in Sinks, Send(k) \/ SendFails(k) \/ MarkUploaded(k) \/ DropMarker(k)
      PROVE  SmokeInv'
  <2>1. ~At("down")
    BY <1>7 DEF ThreadInv, Labeling, At, Send, SendFails, MarkUploaded, DropMarker, Stage
  <2>2. /\ job'.lane = job.lane /\ UNCHANGED plan
        /\ UNCHANGED disk \/ (\E g \in Files : Put(g))
    BY <1>7, ThreadMoves DEF SameWork, MarkersMoved
  <2>3. job.lane = open /\ UNCHANGED open
    BY <1>7, <2>1 DEF Send, SendFails, MarkUploaded, DropMarker, SmokeInv
  <2> QED
    BY <2>1, <2>2, <2>3, SmokePut
<1>8. CASE Finishing
  <2>1. ~At("down") /\ UNCHANGED plan
    BY <1>8
    DEF Finishing, Close, FinishFails, FinalizeV1, FinalizeV2, SetAside, InstallOutput,
        RemoveBackup, ValidateOutput, FinalizeFails, Publish, PublishFails, ReadBack, At
  <2>2. job' = Idle \/ job'.lane = job.lane
    BY <1>8, <1>g
    DEF Finishing, Close, FinishFails, FinalizeV1, FinalizeV2, SetAside, InstallOutput,
        RemoveBackup, ValidateOutput, FinalizeFails, Publish, PublishFails, ReadBack, Idle,
        TypeInv, Jobs
  <2>3. job.lane = open
    BY <2>1 DEF SmokeInv
  <2>4. \/ UNCHANGED open
        \/ open' = "production" /\ (job' = Idle \/ job.lane = "production")
    BY <1>8
    DEF Finishing, Close, FinishFails, FinalizeV1, FinalizeV2, SetAside, InstallOutput,
        RemoveBackup, ValidateOutput, FinalizeFails, Publish, PublishFails, ReadBack
  <2>5. UNCHANGED disk \/ (\E g \in Files : Put(g))
    BY <1>8, OutputsMove
  <2> QED
    BY <1>i, <2>1, <2>2, <2>3, <2>4, <2>5, SmokePut
<1> QED
  BY <1>1, <1>2, <1>3, <1>4, <1>5, <1>6, <1>7, <1>8, <1>9, StepKinds

-----------------------------------------------------------------------------
(* Queues, threads and the remote side.                                    *)

\* Whole batches stay, in all lanes and in every step.
LEMMA AllGrow ==
  ASSUME TypeInv, DiskInv, JobInv, ThreadInv, [Next]_vars
  PROVE  \A l \in Lanes : Grows(disk[l], disk'[l])
<1>0. \A l \in Lanes : Grows(disk[l], disk[l])
  BY DEF Grows
<1>m. Mine \in Files /\ disk \in [Lanes -> Files] /\ job.lane \in Lanes
  BY MineType DEF TypeInv, Jobs
<1>u. ASSUME UNCHANGED disk PROVE \A l \in Lanes : Grows(disk[l], disk'[l])
  BY <1>0, <1>u
<1>s. ASSUME NEW g \in Files, g.tables = Mine.tables, g.metas = Mine.metas
      PROVE  Grows(Mine, g)
  BY <1>m, <1>s, SameBatches DEF Grows
<1>p. ASSUME NEW g \in Files, Put(g), Grows(Mine, g)
      PROVE  \A l \in Lanes : Grows(disk[l], disk'[l])
  BY <1>0, <1>m, <1>p DEF Put, Mine
<1>1. CASE UNCHANGED vars
  BY <1>1, <1>u DEF vars
<1>2. CASE (\E t \in Targets : Extend(t)) \/ Signal \/ Kill
  BY <1>2, <1>u DEF Extend, Signal, Kill
<1>3. CASE StartJob
  <2> DEFINE left == [k \in Sinks |-> disk[open].pending[k] \ disk[open].uploaded[k]]
  <2>1. disk' = [disk EXCEPT ![open].pending = left] /\ open \in Lanes
    BY <1>3 DEF StartJob, TypeInv
  <2>2. left \in Markers
    BY <1>m, <2>1 DEF Files, Markers
  <2> HIDE DEF left
  <2> DEFINE g == [disk[open] EXCEPT !.pending = left]
  <2>3. g \in Files /\ g.tables = disk[open].tables /\ g.metas = disk[open].metas
    BY <1>m, <2>1, <2>2 DEF Files
  <2>4. disk' = [disk EXCEPT ![open] = g]
    BY <2>1
  <2> HIDE DEF g
  <2>5. Grows(disk[open], g)
    BY <1>m, <2>1, <2>3, SameBatches DEF Grows
  <2> QED
    BY <1>0, <1>m, <2>1, <2>4, <2>5
<1>4. CASE \/ LoadCheckpoints \/ NextStep \/ GenerateLabels \/ GenerateScores
           \/ InstallTable \/ InstallMeta \/ WriteBatchFails \/ WriteProgress
  BY <1>4, <1>u, <1>p, BatchesGrow
<1>5. CASE Enqueue
  BY <1>5, <1>s, <1>p, Enqueued DEF MarkersMoved
<1>6. CASE \E k \in Sinks : Send(k) \/ SendFails(k) \/ MarkUploaded(k) \/ DropMarker(k)
  BY <1>6, <1>u, <1>s, <1>p, ThreadMoves DEF MarkersMoved
<1>7. CASE Finishing
  BY <1>7, <1>u, <1>s, <1>p, OutputsMove
<1> QED
  BY <1>1, <1>2, <1>3, <1>4, <1>5, <1>6, <1>7, StepKinds

\* A batch that is on the remote side stays there.
LEMMA StaysRemote ==
  ASSUME NEW k \in Sinks, NEW i \in Stored(disk["production"]), OnRemote(k, i),
         remote'[k] = remote[k], Grows(disk["production"], disk'["production"])
  PROVE  OnRemote(k, i)'
<1>1. disk'["production"].tables[i + 1] = disk["production"].tables[i + 1]
  BY DEF Grows
<1> QED
  BY <1>1 DEF OnRemote, Key

\* A process without threads at work, and one whose threads have not moved.
LEMMA NoThreads ==
  ASSUME UNCHANGED plan, job'.queue = [k \in Sinks |-> {}],
         job'.worker = [k \in Sinks |-> <<"idle", 0>>]
  PROVE  ThreadInv'
  BY SameTypes DEF ThreadInv, Stage
LEMMA SameThreads ==
  ASSUME TypeInv, ThreadInv, UNCHANGED <<plan, remote>>,
         \A l \in Lanes : Grows(disk[l], disk'[l]),
         job'.lane = job.lane, job'.queue = job.queue, job'.worker = job.worker,
         job'.pc = job.pc \/ job.pc \notin Labeling \/ job'.pc \in Labeling
  PROVE  ThreadInv'
<1>l. job.lane \in Lanes /\ Mine = disk[job.lane] /\ Mine' = disk'[job.lane]
  BY DEF TypeInv, Jobs, Mine
<1>1. Stored(Mine) \subseteq Stored(Mine')
  BY <1>l DEF Grows
<1>2. \A k \in Sinks : Stage(k)' = Stage(k) /\ Item(k)' = Item(k)
  BY DEF Stage, Item
<1>3. ASSUME NEW k \in Sinks, Stage(k) # "idle", job.lane = "production"
      PROVE  OnRemote(k, Item(k))'
  <2>1. Item(k) \in Stored(disk["production"]) /\ OnRemote(k, Item(k))
    BY <1>l, <1>3 DEF ThreadInv
  <2> QED
    BY <1>2, <2>1, StaysRemote DEF Lanes
<1>4. Sinks' = Sinks
  BY SameTypes
<1> QED
  BY <1>1, <1>2, <1>3, <1>4 DEF ThreadInv

\* What a thread step does to its queue and to its worker.
ThreadMoved(k) ==
  /\ job'.lane = job.lane /\ job'.pc = job.pc /\ job'.queue[k] \subseteq job.queue[k]
  /\ \A x \in Sinks \ {k} : job'.queue[x] = job.queue[x] /\ job'.worker[x] = job.worker[x]
LEMMA MarkFields ==
  ASSUME TypeInv, NEW k \in Sinks, NEW s, NEW i, job' = Worker(k, s, i)
  PROVE  ThreadMoved(k) /\ Stage(k)' = s /\ Item(k)' = i
<1>1. job \in Jobs /\ job.worker \in [Sinks -> Stages \X Nat]
  BY DEF TypeInv, Jobs
<1>2. /\ job'.lane = job.lane /\ job'.pc = job.pc /\ job'.queue = job.queue
      /\ job'.worker = [job.worker EXCEPT ![k] = <<s, i>>]
  BY <1>1 DEF Worker, Jobs
<1>3. job'.worker[k] = <<s, i>>
  BY <1>1, <1>2
<1> QED
  BY <1>1, <1>2, <1>3 DEF Stage, Item, ThreadMoved
LEMMA SendFields ==
  ASSUME TypeInv, NEW k \in Sinks, Send(k)
  PROVE  /\ ThreadMoved(k) /\ Stage(k)' = "sent" /\ Item(k)' = Min(job.queue[k])
         /\ Min(job.queue[k]) \in job.queue[k]
<1>t. job \in Jobs /\ job.queue \in Markers /\ job.worker \in [Sinks -> Stages \X Nat]
  BY DEF TypeInv, Jobs
<1> DEFINE i == Min(job.queue[k])
           w == Worker(k, "sent", i)
<1>1. i \in job.queue[k]
  BY <1>t, MinInside DEF Send, Markers
<1>2. job' = [w EXCEPT !.queue[k] = @ \ {i}]
  BY DEF Send
<1>3. w \in Jobs
  BY <1>t, <1>1, WorkerType DEF Stages, Markers
<1>4. /\ w.lane = job.lane /\ w.pc = job.pc /\ w.queue = job.queue
      /\ w.worker = [job.worker EXCEPT ![k] = <<"sent", i>>]
  BY <1>t DEF Worker, Jobs
<1> HIDE DEF w, i
<1>5. /\ job'.lane = job.lane /\ job'.pc = job.pc
      /\ job'.queue = [job.queue EXCEPT ![k] = @ \ {i}]
      /\ job'.worker = [job.worker EXCEPT ![k] = <<"sent", i>>]
  BY <1>t, <1>2, <1>3, <1>4 DEF Jobs
<1>6. job'.worker[k] = <<"sent", i>>
  BY <1>t, <1>5
<1> QED
  BY <1>t, <1>1, <1>5, <1>6 DEF i, Stage, Item, Markers, ThreadMoved
LEMMA SendFailsFields ==
  ASSUME TypeInv, NEW k \in Sinks, SendFails(k)
  PROVE  ThreadMoved(k) /\ job'.worker = job.worker
<1>t. job \in Jobs /\ job.queue \in Markers
  BY DEF TypeInv, Jobs
<1>1. /\ job'.lane = job.lane /\ job'.pc = job.pc /\ job'.worker = job.worker
      /\ job'.queue = [job.queue EXCEPT ![k] = @ \ {Min(@)}]
  BY <1>t DEF SendFails, Jobs
<1> QED
  BY <1>t, <1>1 DEF Markers, ThreadMoved

LEMMA ThreadsStay ==
  ASSUME TypeInv, TypeInv', DiskInv, JobInv, ThreadInv, NEW k \in Sinks,
         \A l \in Lanes : Grows(disk[l], disk'[l]),
         Send(k) \/ SendFails(k) \/ MarkUploaded(k) \/ DropMarker(k)
  PROVE  ThreadInv'
<1>f. ThreadMoved(k)
  BY SendFields, SendFailsFields, MarkFields DEF MarkUploaded, DropMarker
<1>l. job.lane \in Lanes /\ Mine = disk[job.lane] /\ Mine' = disk'[job.lane]
      /\ job'.lane = job.lane /\ job'.pc = job.pc
  BY <1>f DEF TypeInv, Jobs, Mine, ThreadMoved
<1>1. Stored(Mine) \subseteq Stored(Mine') /\ Sinks' = Sinks
  BY <1>l, ThreadMoves, SameTypes DEF Grows
<1>p. job.pc \in Labeling
  BY DEF ThreadInv, Send, SendFails, MarkUploaded, DropMarker, Stage
<1>2. \A x \in Sinks : job'.queue[x] \subseteq Stored(Mine')
  BY <1>1, <1>f DEF ThreadInv, ThreadMoved
<1>3. ASSUME NEW x \in Sinks \ {k}, Stage(x)' # "idle"
      PROVE  /\ Item(x)' \in Stored(Mine')
             /\ job'.lane = "production" => OnRemote(x, Item(x))'
  <2>1. Stage(x) # "idle" /\ Item(x)' = Item(x) /\ remote'[x] = remote[x]
    BY <1>3, <1>f
    DEF ThreadMoved, Stage, Item, Send, SendFails, MarkUploaded, DropMarker, TypeInv
  <2>2. Item(x) \in Stored(Mine) /\ (job.lane = "production" => OnRemote(x, Item(x)))
    BY <2>1 DEF ThreadInv
  <2>3. ASSUME job.lane = "production" PROVE OnRemote(x, Item(x))'
    BY <1>l, <2>1, <2>2, <2>3, StaysRemote
  <2> QED
    BY <1>1, <1>l, <2>1, <2>2, <2>3
<1>4. ASSUME Stage(k)' # "idle"
      PROVE  /\ Item(k)' \in Stored(Mine')
             /\ job'.lane = "production" => OnRemote(k, Item(k))'
  <2>1. CASE Send(k)
    <3>1. PICK i \in Stored(Mine) : Item(k)' = i /\ i = Min(job.queue[k])
      BY <2>1, SendFields DEF ThreadInv
    <3> DEFINE key == Key(k, job.lane, i)
    <3>2. remote' = [remote EXCEPT ![k] = Written(@, key, Mine.tables[i + 1])] /\ UNCHANGED disk
      BY <2>1, <3>1 DEF Send
    <3>3. remote'[k] = Written(remote[k], key, Mine.tables[i + 1])
      BY <3>2 DEF TypeInv
    <3>4. key \in DOMAIN remote'[k] /\ remote'[k][key] = Mine.tables[i + 1]
      BY <3>3 DEF Written
    <3>5. ASSUME job.lane = "production" PROVE OnRemote(k, i)'
      <4>1. key = Key(k, "production", i) /\ Key(k, "production", i)' = Key(k, "production", i)
        BY <3>5 DEF Key
      <4>2. disk'["production"].tables[i + 1] = Mine.tables[i + 1]
        BY <1>l, <3>2, <3>5
      <4> QED
        BY <3>4, <4>1, <4>2 DEF OnRemote
    <3>6. job'.lane = "production" => OnRemote(k, Item(k))'
      BY <1>l, <3>1, <3>5
    <3> QED
      BY <1>1, <3>1, <3>6
  <2>2. CASE SendFails(k) \/ MarkUploaded(k)
    <3>1. Stage(k) # "idle" /\ Item(k)' = Item(k) /\ remote' = remote
      BY <1>4, <2>2, SendFailsFields, MarkFields DEF Stage, Item, SendFails, MarkUploaded
    <3>2. Item(k) \in Stored(Mine) /\ (job.lane = "production" => OnRemote(k, Item(k)))
      BY <3>1 DEF ThreadInv
    <3>3. ASSUME job.lane = "production" PROVE OnRemote(k, Item(k))'
      BY <1>l, <3>1, <3>2, <3>3, StaysRemote
    <3> QED
      BY <1>1, <1>l, <3>1, <3>2, <3>3
  <2>3. CASE DropMarker(k)
    BY <1>4, <2>3, MarkFields DEF DropMarker
  <2> QED
    BY <2>1, <2>2, <2>3
<1> QED
  BY <1>1, <1>2, <1>3, <1>4, <1>l, <1>p DEF ThreadInv

\* The next allocation starts with the markers that were left.
LEMMA StartThreads ==
  ASSUME TypeInv, DiskInv, StartJob
  PROVE  /\ ThreadInv'
         /\ \A l \in Lanes :
              /\ disk'[l].uploaded = disk[l].uploaded /\ Labelled(disk'[l]) = Labelled(disk[l])
              /\ disk'[l].output = disk[l].output /\ disk'[l].backup = disk[l].backup
<1> DEFINE left == [k \in Sinks |-> disk[open].pending[k] \ disk[open].uploaded[k]]
<1>1. /\ job' = [Idle EXCEPT !.pc = "load", !.lane = open, !.target = target, !.queue = left]
      /\ disk' = [disk EXCEPT ![open].pending = left]
      /\ open \in Lanes /\ UNCHANGED plan
  BY DEF StartJob, TypeInv
<1>2. disk \in [Lanes -> Files] /\ disk[open] \in Files /\ left \in Markers
  BY <1>1 DEF TypeInv, Files, Markers
<1>3. \A k \in Sinks : left[k] \subseteq Stored(disk[open])
  BY <1>1 DEF DiskInv, FilesInv
<1>4. /\ job'.pc = "load" /\ job'.lane = open /\ job'.queue = left
      /\ job'.worker = [k \in Sinks |-> <<"idle", 0>>]
  BY <1>1 DEF Idle
<1> HIDE DEF left
<1> DEFINE g == [disk[open] EXCEPT !.pending = left]
<1>5. /\ g \in Files /\ g.tables = disk[open].tables /\ g.metas = disk[open].metas
      /\ g.uploaded = disk[open].uploaded
      /\ g.output = disk[open].output /\ g.backup = disk[open].backup
  BY <1>2 DEF Files
<1>6. disk' = [disk EXCEPT ![open] = g]
  BY <1>1
<1> HIDE DEF g
<1>7. Mine' = g
  BY <1>1, <1>2, <1>4, <1>6 DEF Mine
<1>8. Stored(g) = Stored(disk[open]) /\ Labelled(g) = Labelled(disk[open])
  BY <1>2, <1>5, SameBatches
<1>9. Sinks' = Sinks
  BY <1>1, SameTypes
<1>10. \A k \in Sinks : job'.queue[k] \subseteq Stored(Mine')
  BY <1>3, <1>4, <1>7, <1>8
<1>11. \A k \in Sinks : Stage(k)' = "idle"
  BY <1>4 DEF Stage
<1>12. ThreadInv'
  BY <1>4, <1>9, <1>10, <1>11 DEF ThreadInv, Labeling
<1> QED
  BY <1>1, <1>2, <1>5, <1>6, <1>8, <1>12

\* The marker of a stored batch joins the queues.
LEMMA EnqueueThreads ==
  ASSUME TypeInv, DiskInv, JobInv, ThreadInv, Enqueue, \A l \in Lanes : Grows(disk[l], disk'[l])
  PROVE  ThreadInv'
<1>1. PICK i \in Stored(Mine) :
        /\ \A k \in Sinks : job'.queue[k] \subseteq job.queue[k] \cup {i}
        /\ job'.worker = job.worker /\ job'.pc = "next" /\ job'.lane = job.lane
  BY Enqueued DEF SameWork
<1>2. /\ job.lane \in Lanes /\ Mine = disk[job.lane] /\ Mine' = disk'[job.lane]
      /\ UNCHANGED <<plan, remote>>
  BY <1>1 DEF TypeInv, Jobs, Mine, Enqueue
<1>3. Stored(Mine) \subseteq Stored(Mine') /\ Sinks' = Sinks
  BY <1>2, SameTypes DEF Grows
<1>4. \A k \in Sinks : job'.queue[k] \subseteq Stored(Mine')
  BY <1>1, <1>3 DEF ThreadInv
<1>5. ASSUME NEW k \in Sinks, Stage(k)' # "idle"
      PROVE  /\ Item(k)' \in Stored(Mine')
             /\ job'.lane = "production" => OnRemote(k, Item(k))'
  <2>1. Stage(k) # "idle" /\ Item(k)' = Item(k)
    BY <1>1, <1>5 DEF Stage, Item
  <2>2. Item(k) \in Stored(Mine) /\ (job.lane = "production" => OnRemote(k, Item(k)))
    BY <2>1 DEF ThreadInv
  <2>3. ASSUME job.lane = "production" PROVE OnRemote(k, Item(k))'
    BY <1>2, <2>1, <2>2, <2>3, StaysRemote
  <2> QED
    BY <1>1, <1>3, <2>1, <2>2, <2>3
<1> QED
  BY <1>1, <1>3, <1>4, <1>5 DEF ThreadInv, Labeling

LEMMA ThreadStep ==
  ASSUME TypeInv, TypeInv', DiskInv, JobInv, ThreadInv, [Next]_vars
  PROVE  ThreadInv'
<1>a. \A l \in Lanes : Grows(disk[l], disk'[l])
  BY AllGrow
<1>i. ASSUME job' = Idle, UNCHANGED plan PROVE ThreadInv'
  <2>1. job'.queue = [k \in Sinks |-> {}] /\ job'.worker = [k \in Sinks |-> <<"idle", 0>>]
    BY <1>i DEF Idle
  <2> QED
    BY <1>i, <2>1, NoThreads
<1>g. ASSUME NEW point, Goto(point), UNCHANGED <<plan, remote>>,
             job.pc \notin Labeling \/ point \in Labeling
      PROVE  ThreadInv'
  BY <1>a, <1>g, GotoFields, SameThreads
<1>f. ASSUME Fails, UNCHANGED <<plan, remote>> PROVE ThreadInv'
  <2>1. /\ job'.pc = "close" /\ job'.lane = job.lane /\ job'.queue = job.queue
        /\ job'.worker = job.worker
    BY <1>f DEF Fails, TypeInv, Jobs
  <2> QED
    BY <1>a, <1>f, <2>1, SameThreads DEF Labeling
<1>1. CASE UNCHANGED vars
  BY <1>1, <1>a, SameThreads DEF vars
<1>2. CASE \E t \in Targets : Extend(t)
  BY <1>2, <1>a, SameThreads DEF Extend
<1>3. CASE StartJob
  BY <1>3, StartThreads
<1>4. CASE Signal
  <2>1. /\ job'.pc = job.pc /\ job'.lane = job.lane /\ job'.queue = job.queue
        /\ job'.worker = job.worker /\ UNCHANGED <<plan, remote>>
    BY <1>4 DEF Signal, TypeInv, Jobs
  <2> QED
    BY <1>a, <2>1, SameThreads
<1>5. CASE Kill
  BY <1>5, <1>i DEF Kill
<1>6. CASE LoadCheckpoints
  <2>1. Goto("next") \/ Fails
    BY <1>6 DEF LoadCheckpoints
  <2> QED
    BY <1>6, <2>1, <1>g, <1>f DEF LoadCheckpoints, Labeling
<1>7. CASE NextStep
  <2>1. \/ job' = [job EXCEPT !.pc = "close", !.ok = Pending(Mine) = {}]
        \/ job' = [job EXCEPT !.pc = "generate", !.batch = NextBatch(Mine)]
    BY <1>7 DEF NextStep
  <2>2. /\ job'.pc \in {"close", "generate"} /\ job'.lane = job.lane
        /\ job'.queue = job.queue /\ job'.worker = job.worker
    BY <2>1 DEF TypeInv, Jobs
  <2> QED
    BY <1>7, <1>a, <2>2, SameThreads DEF NextStep, Labeling
<1>8. CASE GenerateLabels \/ GenerateScores
  <2>1. (Goto("table") \/ Fails) /\ UNCHANGED <<plan, remote>>
    BY <1>8 DEF GenerateLabels, GenerateScores
  <2> QED
    BY <2>1, <1>g, <1>f DEF Labeling
<1>9. CASE InstallTable \/ InstallMeta \/ WriteBatchFails \/ WriteProgress
  <2>1. (Goto("meta") \/ Goto("progress") \/ Goto("enqueue") \/ Fails)
        /\ UNCHANGED <<plan, remote>>
    BY <1>9 DEF InstallTable, InstallMeta, WriteBatchFails, WriteProgress
  <2> QED
    BY <2>1, <1>g, <1>f DEF Labeling
<1>10. CASE Enqueue
  BY <1>10, <1>a, EnqueueThreads
<1>11. ASSUME NEW k \in Sinks, Send(k) \/ SendFails(k) \/ MarkUploaded(k) \/ DropMarker(k)
       PROVE  ThreadInv'
  BY <1>11, <1>a, ThreadsStay
<1>12. CASE Close
  <2>1. job'.queue = [k \in Sinks |-> {}] /\ job'.worker = [k \in Sinks |-> <<"idle", 0>>]
    BY <1>12 DEF Close, Idle
  <2> QED
    BY <1>12, <2>1, NoThreads DEF Close
<1>13. CASE FinishFails \/ FinalizeFails \/ PublishFails \/ ReadBack
  BY <1>13, <1>i DEF FinishFails, FinalizeFails, PublishFails, ReadBack
<1>14. CASE FinalizeV1 \/ FinalizeV2 \/ Publish
  <2>1. /\ Goto("publish") \/ Goto("install") \/ Goto("readback") \/ job' = Idle
        /\ job.pc \notin Labeling /\ UNCHANGED <<plan, remote>>
    BY <1>14 DEF FinalizeV1, FinalizeV2, Publish, At, Labeling
  <2> QED
    BY <2>1, <1>g, <1>i
<1>15. CASE SetAside
  BY <1>15, <1>a, SameThreads DEF SetAside
<1>16. CASE InstallOutput \/ RemoveBackup \/ ValidateOutput
  <2>1. /\ Goto("remove") \/ Goto("validate") \/ Goto("publish") \/ job' = Idle
        /\ job.pc \notin Labeling /\ UNCHANGED <<plan, remote>>
    BY <1>16 DEF InstallOutput, RemoveBackup, ValidateOutput, At, Labeling
  <2> QED
    BY <2>1, <1>g, <1>i
<1> QED
  BY <1>1, <1>2, <1>3, <1>4, <1>5, <1>6, <1>7, <1>8, <1>9, <1>10, <1>11, <1>12, <1>13, <1>14,
     <1>15, <1>16, StepKinds DEF Finishing

\* What was reported stays true when nothing new is reported.
LEMMA RemoteKept ==
  ASSUME TypeInv, DiskInv, UploadedIsRemote, UNCHANGED plan,
         Grows(disk["production"], disk'["production"]),
         \A k \in Sinks : \A i \in disk'["production"].uploaded[k] :
           i \in disk["production"].uploaded[k] /\ remote'[k] = remote[k]
  PROVE  UploadedIsRemote'
<1>1. ASSUME NEW k \in Sinks, NEW i \in disk'["production"].uploaded[k] PROVE OnRemote(k, i)'
  <2>1. i \in disk["production"].uploaded[k] /\ remote'[k] = remote[k]
    BY <1>1
  <2>2. OnRemote(k, i)
    BY <2>1 DEF UploadedIsRemote, OnRemote
  <2>3. i \in Stored(disk["production"])
    BY <2>1 DEF DiskInv, FilesInv, Lanes
  <2> QED
    BY <2>1, <2>2, <2>3, StaysRemote
<1>2. Sinks' = Sinks
  BY SameTypes
<1> QED
  BY <1>1, <1>2 DEF UploadedIsRemote, OnRemote

LEMMA RemoteStep ==
  ASSUME TypeInv, TypeInv', DiskInv, JobInv, SmokeInv, ThreadInv, UploadedIsRemote, [Next]_vars
  PROVE  UploadedIsRemote'
<1>a. Grows(disk["production"], disk'["production"])
  BY AllGrow DEF Lanes
<1>m. Mine \in Files /\ disk \in [Lanes -> Files] /\ job.lane \in Lanes
  BY MineType DEF TypeInv, Jobs
<1>d. ASSUME UNCHANGED <<plan, disk, remote>> PROVE UploadedIsRemote'
  BY <1>a, <1>d, RemoteKept
<1>p. ASSUME NEW g \in Files, Put(g), g.uploaded = Mine.uploaded, UNCHANGED <<plan, remote>>
      PROVE  UploadedIsRemote'
  <2>1. disk'["production"].uploaded = disk["production"].uploaded
    BY <1>m, <1>p DEF Put, Mine, Lanes
  <2> QED
    BY <1>a, <1>p, <2>1, RemoteKept
<1>1. CASE UNCHANGED vars
  BY <1>1, <1>d DEF vars
<1>2. CASE (\E t \in Targets : Extend(t)) \/ Signal \/ Kill
  BY <1>2, <1>d DEF Extend, Signal, Kill
<1>3. CASE StartJob
  <2>1. disk'["production"].uploaded = disk["production"].uploaded
    BY <1>3, StartThreads DEF Lanes
  <2> QED
    BY <1>3, <1>a, <2>1, RemoteKept DEF StartJob
<1>4. CASE \/ LoadCheckpoints \/ NextStep \/ GenerateLabels \/ GenerateScores
           \/ InstallTable \/ InstallMeta \/ WriteBatchFails \/ WriteProgress
  <2>1. UNCHANGED <<plan, remote>>
    BY <1>4 DEF LoadCheckpoints, NextStep, GenerateLabels, GenerateScores, InstallTable,
                InstallMeta, WriteBatchFails, WriteProgress
  <2>2. UNCHANGED disk \/ (\E g \in Files : Put(g) /\ g.uploaded = Mine.uploaded)
    BY <1>4, BatchesGrow DEF Untouched
  <2> QED
    BY <1>d, <1>p, <2>1, <2>2
<1>5. CASE Enqueue
  <2>1. \E g \in Files : Put(g) /\ g.uploaded = Mine.uploaded
    BY <1>5, Enqueued DEF MarkersMoved
  <2> QED
    BY <1>5, <1>p, <2>1 DEF Enqueue
<1>6. ASSUME NEW k \in Sinks, Send(k) PROVE UploadedIsRemote'
  <2>1. PICK i \in Nat : i = Min(job.queue[k])
    BY <1>6, SendFields DEF TypeInv, Jobs, Markers
  <2> DEFINE key == Key(k, job.lane, i)
  <2>2. /\ remote' = [remote EXCEPT ![k] = Written(@, key, Mine.tables[i + 1])]
        /\ UNCHANGED <<plan, disk>>
    BY <1>6, <2>1 DEF Send
  <2>3. job.pc \in Labeling
    BY <1>6 DEF Send, ThreadInv
  <2>4. CASE job.lane = "smoke"
    <3>1. disk["production"] = NoFiles
      BY <2>3, <2>4 DEF SmokeInv, At, Labeling
    <3>2. \A x \in Sinks : disk'["production"].uploaded[x] = {}
      BY <2>2, <3>1 DEF NoFiles
    <3> QED
      BY <1>a, <2>2, <3>2, RemoteKept
  <2>5. CASE job.lane = "production"
    <3>1. ASSUME NEW x \in Sinks, NEW j \in disk["production"].uploaded[x]
          PROVE  OnRemote(x, j)'
      <4>1. OnRemote(x, j)
        BY <3>1 DEF UploadedIsRemote, OnRemote
      <4>2. CASE x # k
        BY <2>2, <4>1, <4>2 DEF OnRemote, Key, TypeInv
      <4>3. CASE x = k
        <5>1. remote'[k] = Written(remote[k], key, Mine.tables[i + 1])
          BY <2>2 DEF TypeInv
        <5>2. Mine = disk["production"] /\ key = Key(k, "production", i)
          BY <2>5 DEF Mine
        <5>3. j \in Nat
          BY <1>m, <3>1 DEF Files, Markers, Lanes
        <5>4. CASE j = i
          BY <2>2, <4>3, <5>1, <5>2, <5>4 DEF OnRemote, Key, Written
        <5>5. CASE j # i
          <6>1. Key(k, "production", j) # key
            BY <2>1, <5>2, <5>3, <5>5 DEF Key
          <6>2. /\ Key(k, "production", j) \in DOMAIN remote'[k]
                /\ remote'[k][Key(k, "production", j)] = disk["production"].tables[j + 1]
            BY <4>1, <4>3, <5>1, <6>1 DEF OnRemote, Written
          <6>3. Key(k, "production", j)' = Key(k, "production", j)
            BY DEF Key
          <6> QED
            BY <2>2, <4>3, <6>2, <6>3 DEF OnRemote
        <5> QED
          BY <5>4, <5>5
      <4> QED
        BY <4>2, <4>3
    <3> QED
      BY <2>2, <3>1, SameTypes DEF UploadedIsRemote, OnRemote
  <2> QED
    BY <1>m, <2>4, <2>5 DEF Lanes
<1>7. ASSUME NEW k \in Sinks, SendFails(k) PROVE UploadedIsRemote'
  BY <1>7, <1>d DEF SendFails
<1>8. ASSUME NEW k \in Sinks, MarkUploaded(k) PROVE UploadedIsRemote'
  <2> DEFINE g == [Mine EXCEPT !.uploaded[k] = @ \cup {Item(k)}]
  <2>1. Put(g) /\ UNCHANGED <<plan, remote>> /\ Stage(k) = "sent"
    BY <1>8 DEF MarkUploaded
  <2>2. g.uploaded = [Mine.uploaded EXCEPT ![k] = @ \cup {Item(k)}] /\ Mine.uploaded \in Markers
    BY <1>m DEF Files
  <2> HIDE DEF g
  <2>3. CASE job.lane = "smoke"
    <3>1. disk'["production"] = disk["production"]
      BY <1>m, <2>1, <2>3 DEF Put, Lanes
    <3> QED
      BY <1>a, <2>1, <3>1, RemoteKept
  <2>4. CASE job.lane = "production"
    <3>1. Mine = disk["production"] /\ disk'["production"] = g
      BY <1>m, <2>1, <2>4 DEF Put, Mine
    <3>2. ASSUME NEW x \in Sinks, NEW j \in disk'["production"].uploaded[x]
          PROVE  OnRemote(x, j) /\ j \in Stored(disk["production"])
      <4>1. j \in disk["production"].uploaded[x] \/ (x = k /\ j = Item(k))
        BY <2>2, <3>1, <3>2 DEF Markers
      <4>2. CASE j \in disk["production"].uploaded[x]
        BY <4>2 DEF UploadedIsRemote, OnRemote, DiskInv, FilesInv, Lanes
      <4>3. CASE x = k /\ j = Item(k)
        BY <2>1, <2>4, <3>1, <4>3 DEF ThreadInv
      <4> QED
        BY <4>1, <4>2, <4>3
    <3>3. \A x \in Sinks : \A j \in disk'["production"].uploaded[x] : OnRemote(x, j)'
      BY <1>a, <2>1, <3>2, StaysRemote
    <3> QED
      BY <2>1, <3>3, SameTypes DEF UploadedIsRemote, OnRemote
  <2> QED
    BY <1>m, <2>3, <2>4 DEF Lanes
<1>9. ASSUME NEW k \in Sinks, DropMarker(k) PROVE UploadedIsRemote'
  <2> DEFINE g == [Mine EXCEPT !.pending[k] = @ \ {Item(k)}]
  <2>1. Put(g) /\ UNCHANGED <<plan, remote>>
    BY <1>9 DEF DropMarker
  <2>2. g \in Files /\ g.uploaded = Mine.uploaded
    BY <1>m DEF Files, Markers
  <2> HIDE DEF g
  <2> QED
    BY <1>p, <2>1, <2>2
<1>10. CASE Finishing
  <2>1. UNCHANGED <<plan, remote>>
    BY <1>10 DEF Finishing, Close, FinishFails, FinalizeV1, FinalizeV2, SetAside, InstallOutput,
    RemoveBackup, ValidateOutput, FinalizeFails, Publish, PublishFails, ReadBack
  <2>2. UNCHANGED disk \/ (\E g \in Files : Put(g) /\ g.uploaded = Mine.uploaded)
    BY <1>10, OutputsMove
  <2> QED
    BY <1>d, <1>p, <2>1, <2>2
<1> QED
  BY <1>1, <1>2, <1>3, <1>4, <1>5, <1>6, <1>7, <1>8, <1>9, <1>10, StepKinds

-----------------------------------------------------------------------------
(* The invariant, and what follows from it in every state.                 *)

LEMMA NoFilesInv ==
  /\ NoFiles \in Files /\ FilesInv(NoFiles) /\ Labelled(NoFiles) = {}
<1>1. NoFiles \in Files
  BY DEF NoFiles, Files, Markers, Outputs
<1>2. NoFiles.tables = <<>> /\ Len(<<>>) = 0 /\ NoFiles.metas = {} /\ NoFiles.progress = 0
  BY DEF NoFiles
<1>3. NoFiles.metas = 0 .. Len(NoFiles.tables) - 1 /\ Len(NoFiles.tables) = 0
  BY <1>2
<1>4. Complete(NoFiles) = {}
  BY <1>2 DEF Complete
<1>5. Labelled(NoFiles) = {} /\ NoRepeats(NoFiles)
  BY <1>4 DEF Labelled, NoRepeats
<1>6. \E m \in Nat : Labelled(NoFiles) = 1 .. m /\ NoFiles.progress <= m
  <2>1. 1 .. 0 = {} /\ 0 <= 0 /\ 0 \in Nat
    OBVIOUS
  <2> QED
    BY <1>2, <1>5, <2>1
<1>7. NoFiles.metas \in {0 .. Len(NoFiles.tables) + d : d \in {-2, -1, 0}}
  BY <1>3
<1>8. DOMAIN NoFiles.tables = {}
  BY <1>2
<1>9. /\ \A k \in Sinks : NoFiles.pending[k] \cup NoFiles.uploaded[k] = {}
      /\ NoFiles.output = None /\ NoFiles.backup = None
  BY DEF NoFiles
<1>10. FilesInv(NoFiles)
  BY <1>5, <1>6, <1>7, <1>8, <1>9 DEF FilesInv
<1> QED
  BY <1>1, <1>5, <1>10

LEMMA InitInv == Init => IInv
<1> SUFFICES ASSUME Init PROVE IInv
  OBVIOUS
<1>1. TypeInv
  BY InitTypes
<1>2. DiskInv
  BY NoFilesInv DEF Init, DiskInv
<1>3. job.pc = "down" /\ disk["production"] = NoFiles
  BY DEF Init, Idle, Lanes
<1>4. JobInv
  BY <1>3 DEF JobInv
<1>5. TargetInv
  <2>1. release = 1 .. 0 /\ 0 \in 0 .. target /\ target = plan.rows
    BY <1>1 DEF Init, TypeInv
  <2> QED
    BY <1>3, <2>1 DEF TargetInv, At
<1>6. SmokeInv
  BY <1>3 DEF Init, SmokeInv, At
<1>7. ThreadInv
  BY DEF Init, Idle, ThreadInv, Stage
<1>8. UploadedIsRemote
  BY <1>3 DEF NoFiles, UploadedIsRemote
<1> QED
  BY <1>1, <1>2, <1>4, <1>5, <1>6, <1>7, <1>8 DEF IInv

LEMMA NextInv == IInv /\ [Next]_vars => IInv'
<1> SUFFICES ASSUME IInv, [Next]_vars PROVE IInv'
  OBVIOUS
<1> USE DEF IInv
<1>1. TypeInv'
  BY NextTypes
<1>2. DiskInv' /\ JobInv'
  <2>1. CASE UNCHANGED vars
    <3>1. DiskInv'
      BY <2>1, DiskSame DEF vars
    <3> QED
      BY <2>1, <3>1 DEF vars, JobInv, BatchNext, Mine, Goal, Whole
  <2>2. CASE (\E t \in Targets : Extend(t)) \/ StartJob \/ Signal \/ Kill
    <3>1. UNCHANGED plan
      BY <2>2 DEF Extend, StartJob, Signal, Kill
    <3> QED
      BY <2>2, <3>1, BeginWork
  <2>3. CASE LoadCheckpoints \/ NextStep \/ GenerateLabels \/ GenerateScores
    BY <1>1, <2>3, LabelWork
  <2>4. CASE InstallTable \/ InstallMeta \/ WriteBatchFails \/ WriteProgress
    BY <1>1, <2>4, BatchWork
  <2>5. CASE Enqueue
    <3>1. SameWork /\ (\E files : MarkersMoved(files) /\ Put(files)) /\ UNCHANGED plan
      BY <2>5, Enqueued DEF Enqueue
    <3> QED
      BY <3>1, MarkerWork
  <2>6. CASE \E k \in Sinks : Send(k) \/ SendFails(k) \/ MarkUploaded(k) \/ DropMarker(k)
    BY <2>6, ThreadMoves, MarkerWork
  <2>7. CASE Finishing
    BY <2>7, OutputWork
  <2> QED
    BY <2>1, <2>2, <2>3, <2>4, <2>5, <2>6, <2>7, StepKinds
<1>3. TargetInv'
  BY <1>1, TargetStep
<1>4. SmokeInv'
  BY <1>1, SmokeStep
<1>5. ThreadInv'
  BY <1>1, ThreadStep
<1>6. UploadedIsRemote'
  BY <1>1, RemoteStep
<1> QED
  BY <1>1, <1>2, <1>3, <1>4, <1>5, <1>6

\* Any plans, targets, batch size, kills, faults and stop signals: the invariant above
\* holds in every state of the job of LabelRun.
THEOREM Invariance == Spec => []IInv
<1>1. Init => IInv
  BY InitInv
<1>2. IInv /\ [Next]_vars => IInv'
  BY NextInv
<1> QED
  BY <1>1, <1>2, PTL DEF Spec

LEMMA FilesTypes ==
  ASSUME NEW files \in Files, FilesInv(files)
  PROVE  /\ files.metas \subseteq 0 .. Len(files.tables)
         /\ \A k \in Sinks : files.pending[k] \cup files.uploaded[k] \subseteq files.metas
<1>1. Stored(files) \subseteq files.metas /\ Len(files.tables) \in Nat
  BY RowTypes DEF Stored
<1> QED
  BY <1>1 DEF FilesInv

\* The types of the run: descriptions have tables but for one, markers have descriptions,
\* no batch is empty or larger than BatchSize, and the release has rows of the target.
THEOREM Typing == Spec => []TypeOK
<1>1. IInv => TypeOK
  <2> SUFFICES ASSUME IInv PROVE TypeOK
    OBVIOUS
  <2> USE DEF IInv
  <2>1. plan \in Plans /\ target \in Targets \cup {plan.rows} /\ release \subseteq 1 .. target
    BY DEF TypeInv, TargetInv
  <2>2. \A l \in Lanes : disk[l] \in Files /\ FilesInv(disk[l])
    BY DEF TypeInv, DiskInv
  <2>3. \A l \in Lanes :
          /\ disk[l].metas \subseteq 0 .. Len(disk[l].tables)
          /\ \A k \in Sinks : disk[l].pending[k] \cup disk[l].uploaded[k] \subseteq disk[l].metas
          /\ \A i \in DOMAIN disk[l].tables : Cardinality(disk[l].tables[i]) \in 1 .. BatchSize
    BY <2>2, FilesTypes DEF FilesInv
  <2>4. {open, job.lane} \subseteq Lanes /\ {job.stop, job.ok} \subseteq BOOLEAN
    BY DEF TypeInv, Jobs
  <2>5. \A k \in Sinks : Stage(k) \in {"idle", "sent", "marked"}
    BY DEF TypeInv, Jobs, Stage, Stages
  <2> QED
    BY <2>1, <2>3, <2>4, <2>5 DEF TypeOK
<1> QED
  BY <1>1, Invariance, PTL

\* No row is labelled in two batches, and progress.json counts complete rows only.
THEOREM Once == Spec => []LabelledOnce
<1>1. IInv => LabelledOnce
  <2> SUFFICES ASSUME IInv, NEW l \in Lanes
               PROVE  /\ NoRepeats(disk[l])
                      /\ disk[l].progress <= Cardinality(Labelled(disk[l]))
    BY DEF LabelledOnce
  <2>1. FilesInv(disk[l])
    BY DEF IInv, DiskInv
  <2>2. PICK m \in Nat : Labelled(disk[l]) = 1 .. m /\ disk[l].progress <= m
    BY <2>1 DEF FilesInv
  <2>3. Cardinality(1 .. m) = m
    BY FS_Interval
  <2> QED
    BY <2>1, <2>2, <2>3 DEF FilesInv
<1> QED
  BY <1>1, Invariance, PTL

\* A marker that says "uploaded" is true of the batch of the production lane.
THEOREM HonestMarkers == Spec => []UploadedIsRemote
  BY Invariance, PTL DEF IInv

-----------------------------------------------------------------------------
(* Outputs.                                                                *)

\* What a step of any kind does to the files of a lane.
LEMMA FilesMove ==
  ASSUME IInv, [Next]_vars
  PROVE  \/ \A l \in Lanes :
              /\ disk'[l].output = disk[l].output /\ disk'[l].backup = disk[l].backup
              /\ InstallMeta \/ Labelled(disk'[l]) = Labelled(disk[l])
         \/ \E g \in Files :
              /\ Put(g) /\ Labelled(g) = Labelled(Mine)
              /\ \/ FinalizeV1 /\ Mine.output = None /\ g.output = Labelled(Mine)
                 \/ SetAside /\ g.output = None /\ Mine.output # None /\ g.backup = Mine.output
                 \/ InstallOutput /\ Mine.output = None /\ g.output = Labelled(Mine)
                 \/ RemoveBackup /\ g.output = Mine.output /\ g.backup = None
<1> USE DEF IInv
<1>m. Mine \in Files /\ disk \in [Lanes -> Files] /\ job.lane \in Lanes
  BY MineType DEF TypeInv, Jobs
<1> DEFINE Same == \A l \in Lanes :
                     /\ disk'[l].output = disk[l].output /\ disk'[l].backup = disk[l].backup
                     /\ InstallMeta \/ Labelled(disk'[l]) = Labelled(disk[l])
<1>u. ASSUME UNCHANGED disk PROVE Same
  BY <1>u
<1>p. ASSUME NEW g \in Files, Put(g), g.output = Mine.output, g.backup = Mine.backup,
             InstallMeta \/ Labelled(g) = Labelled(Mine)
      PROVE  Same
  BY <1>m, <1>p DEF Put, Mine
<1>q. ASSUME NEW g, MarkersMoved(g), Put(g) PROVE Same
  BY <1>m, <1>q, <1>p, SameBatches DEF MarkersMoved
<1>1. CASE UNCHANGED vars
  BY <1>1, <1>u DEF vars
<1>2. CASE (\E t \in Targets : Extend(t)) \/ Signal \/ Kill
  BY <1>2, <1>u DEF Extend, Signal, Kill
<1>3. CASE StartJob
  BY <1>3, StartThreads
<1>4. CASE \/ LoadCheckpoints \/ NextStep \/ GenerateLabels \/ GenerateScores
           \/ InstallTable \/ InstallMeta \/ WriteBatchFails \/ WriteProgress
  <2>1. \/ UNCHANGED disk
        \/ \E g \in Files : Put(g) /\ Untouched(Mine, g)
                            /\ (InstallMeta \/ Labelled(g) = Labelled(Mine))
    BY <1>4, BatchesGrow
  <2> QED
    BY <1>u, <1>p, <2>1 DEF Untouched
<1>5. CASE Enqueue
  BY <1>5, <1>q, Enqueued
<1>6. CASE \E k \in Sinks : Send(k) \/ SendFails(k) \/ MarkUploaded(k) \/ DropMarker(k)
  BY <1>6, <1>u, <1>q, ThreadMoves
<1>7. CASE Finishing
  <2>1. CASE UNCHANGED disk
    BY <1>u, <2>1
  <2>2. ASSUME NEW g \in Files, g.tables = Mine.tables, g.metas = Mine.metas
        PROVE  Labelled(g) = Labelled(Mine)
    BY <1>m, <2>2, SameBatches
  <2> QED
    BY <1>7, <2>1, <2>2, OutputsMove
<1> QED
  BY <1>1, <1>2, <1>3, <1>4, <1>5, <1>6, <1>7, StepKinds

\* All rows of a lane, and a missing output, are told apart.
LEMMA GoalRows == IInv /\ ~At("down") => 1 .. Goal # None
<1> SUFFICES ASSUME IInv, ~At("down") PROVE 1 .. Goal # None
  OBVIOUS
<1>1. plan \in Plans /\ job.target \in Targets \cup {plan.rows}
  BY DEF IInv, TypeInv, TargetInv
<1>2. Goal \in Sizes
  BY <1>1 DEF Goal, Sizes
<1> QED
  BY <1>2, NoneAssumption

\* A finalized output stays in its place or set aside until its successor, which contains
\* it, has been installed.
THEOREM OutputSafe == Spec => OutputKept
<1> DEFINE Step == \A l \in Lanes : Kept(disk[l]) # None =>
                     Kept(disk'[l]) # None /\ Kept(disk[l]) \subseteq Kept(disk'[l])
<1>1. IInv /\ [Next]_vars => [Step]_vars
  <2> SUFFICES ASSUME IInv, [Next]_vars, NEW l \in Lanes, Kept(disk[l]) # None
               PROVE  Kept(disk'[l]) # None /\ Kept(disk[l]) \subseteq Kept(disk'[l])
    OBVIOUS
  <2>1. CASE disk'[l].output = disk[l].output /\ disk'[l].backup = disk[l].backup
    BY <2>1 DEF Kept
  <2>2. ASSUME NEW g \in Files, Put(g),
               \/ FinalizeV1 /\ Mine.output = None /\ g.output = Labelled(Mine)
               \/ SetAside /\ g.output = None /\ Mine.output # None /\ g.backup = Mine.output
               \/ InstallOutput /\ Mine.output = None /\ g.output = Labelled(Mine)
               \/ RemoveBackup /\ g.output = Mine.output /\ g.backup = None
        PROVE  Kept(disk'[l]) # None /\ Kept(disk[l]) \subseteq Kept(disk'[l])
    <3>d. disk \in [Lanes -> Files] /\ disk' = [disk EXCEPT ![job.lane] = g] /\ Mine \in Files
      BY <2>2, MineType DEF IInv, TypeInv, Put
    <3>1. CASE l # job.lane
      BY <3>d, <3>1
    <3>2. CASE l = job.lane
      <4>1. disk[l] = Mine /\ disk'[l] = g /\ FilesInv(Mine)
        BY <3>d, <3>2 DEF Mine, IInv, DiskInv
      <4>2. CASE SetAside /\ g.output = None /\ Mine.output # None /\ g.backup = Mine.output
        BY <4>1, <4>2 DEF Kept
      <4>3. CASE (FinalizeV1 \/ InstallOutput) /\ Mine.output = None /\ g.output = Labelled(Mine)
        <5>1. CASE UNCHANGED disk
          BY <5>1
        <5>2. CASE ~ UNCHANGED disk
          <6>1. ~At("down") /\ Labelled(Mine) = 1 .. Goal
            <7>1. CASE FinalizeV1
              <8>1. OneEach /\ At("finalize")
                BY <5>2, <7>1 DEF FinalizeV1
              <8> QED
                BY <8>1, SelectionType DEF OneEach, At, IInv
            <7>2. CASE InstallOutput
              BY <7>2 DEF InstallOutput, At, IInv, JobInv
            <7> QED
              BY <4>3, <7>1, <7>2
          <6>2. g.output # None /\ Kept(g) = Labelled(Mine)
            BY <4>3, <6>1, GoalRows DEF Kept
          <6>3. Mine.backup \subseteq Labelled(Mine) /\ Kept(Mine) = Mine.backup
            BY <4>1, <4>3 DEF FilesInv, Kept
          <6> QED
            BY <4>1, <4>3, <6>2, <6>3
        <5> QED
          BY <5>1, <5>2
      <4>4. CASE RemoveBackup /\ g.output = Mine.output /\ g.backup = None
        <5>1. ~At("down") /\ Mine.output = 1 .. Goal
          BY <4>4 DEF RemoveBackup, At, IInv, JobInv
        <5>2. Mine.output # None
          BY <5>1, GoalRows
        <5> QED
          BY <4>1, <4>4, <5>2 DEF Kept
      <4> QED
        BY <2>2, <4>2, <4>3, <4>4
    <3> QED
      BY <3>1, <3>2
  <2> QED
    BY <2>1, <2>2, FilesMove
<1>2. Spec => [][Step]_vars
  BY <1>1, Invariance, PTL DEF Spec
<1> QED
  BY <1>2 DEF OutputKept

-----------------------------------------------------------------------------
(* The book.                                                               *)

\* Every step but a new description leaves the labelled rows of all lanes alone.
LEMMA SameLabels ==
  ASSUME IInv, [Next]_vars, ~InstallMeta
  PROVE  Labelled(disk'["production"]) = Labelled(disk["production"])
<1>1. disk \in [Lanes -> Files] /\ job.lane \in Lanes
  BY DEF IInv, TypeInv, Jobs
<1>2. ASSUME NEW g \in Files, Put(g), Labelled(g) = Labelled(Mine)
      PROVE  Labelled(disk'["production"]) = Labelled(disk["production"])
  BY <1>1, <1>2 DEF Put, Mine, Lanes
<1> QED
  BY <1>2, FilesMove DEF Lanes

\* A batch whose description is installed is the next one of the book.
LEMMA LabelStep == IInv /\ InstallMeta => Book!Label \/ UNCHANGED Book!bookVars
<1> SUFFICES ASSUME IInv, InstallMeta PROVE Book!Label \/ UNCHANGED Book!bookVars
  OBVIOUS
<1> USE DEF IInv
<1>1. Mine \in Files /\ FilesInv(Mine) /\ disk \in [Lanes -> Files] /\ job.lane \in Lanes
  BY MineType DEF DiskInv, Mine, TypeInv, Jobs
<1>2. /\ BatchNext /\ Mine.tables # <<>> /\ Mine.metas = 0 .. Len(Mine.tables) - 2
      /\ Mine.tables[Len(Mine.tables)] = job.batch
  BY DEF InstallMeta, At, JobInv
<1>3. PICK m \in Nat, k \in 1 .. BatchSize :
        Labelled(Mine) = 1 .. m /\ job.batch = (m + 1) .. (m + k) /\ m + k <= Goal
  BY <1>2 DEF BatchNext
<1> DEFINE g == [Mine EXCEPT !.metas = @ \cup {BatchIndex(Mine)}]
<1>4. g \in Files /\ Put(g) /\ UNCHANGED <<target, release>>
  <2>1. BatchIndex(Mine) \in Nat
    BY <1>1, <1>2, Indexes
  <2>2. g \in Files
    BY <1>1, <2>1 DEF Files
  <2> QED
    BY <2>2 DEF InstallMeta
<1>5. Labelled(g) = 1 .. (m + k)
  BY <1>1, <1>2, <1>3, <1>4, MetaAdded
<1> HIDE DEF g
<1>6. CASE job.lane = "smoke"
  <2>1. disk'["production"] = disk["production"]
    BY <1>1, <1>4, <1>6 DEF Put, Lanes
  <2> QED
    BY <1>4, <2>1 DEF Book!bookVars
<1>7. CASE job.lane = "production"
  <2>1. disk'["production"] = g /\ disk["production"] = Mine
    BY <1>1, <1>4, <1>7 DEF Put, Mine
  <2>2. job.target \in 1 .. target /\ target \in Nat
    BY DEF TargetInv, TypeInv, InstallMeta, At
  <2>3. k \in Nat /\ m + k <= job.target
    BY <1>3, <1>7, LabelAssumption DEF Goal
  <2>4. m \in 0 .. target /\ m + k <= target
    BY <2>2, <2>3
  <2> QED
    BY <1>3, <1>4, <1>5, <2>1, <2>4 DEF Book!Label
<1> QED
  BY <1>1, <1>6, <1>7 DEF Lanes

\* A publication releases labelled rows, and no fewer than before.
LEMMA ReleaseStep == IInv /\ Publish => Book!Release
<1> SUFFICES ASSUME IInv, Publish PROVE Book!Release
  OBVIOUS
<1> USE DEF IInv
<1>1. PICK r \in 0 .. target : release = 1 .. r /\ r <= job.target
  BY DEF TargetInv, Publish, At
<1>2. job.target \in 1 .. target /\ target \in Nat
  BY DEF TargetInv, TypeInv, Publish, At
<1>3. release' = 1 .. job.target /\ job.lane = "production" /\ Mine.output = 1 .. job.target
  BY DEF Publish, At, JobInv
<1>4. Cardinality(release') = job.target /\ Cardinality(release) = r
  <2>1. \A n \in Nat : Cardinality(1 .. n) = n
    BY FS_Interval
  <2>2. r \in Nat /\ job.target \in Nat
    BY <1>2
  <2> QED
    BY <1>1, <1>3, <2>1, <2>2
<1>5. 1 .. job.target \subseteq Labelled(disk["production"])
  <2>1. FilesInv(Mine) /\ Mine = disk["production"]
    BY <1>3 DEF DiskInv, Mine, Lanes
  <2>2. Mine.output # None
    BY DEF Publish, Valid
  <2> QED
    BY <1>3, <2>1, <2>2 DEF FilesInv
<1>6. UNCHANGED <<target, Labelled(disk["production"])>>
  BY DEF Publish
<1> QED
  BY <1>1, <1>2, <1>4, <1>5, <1>6 DEF Book!Release

\* The job implements the book: rows are labelled in their order and batch by batch, labels
\* stay, and the release grows and has only labelled rows.
THEOREM BookImplemented == Spec => BookSpec
<1>1. Init => Book!Init
  <2> SUFFICES ASSUME Init PROVE Book!Init
    OBVIOUS
  <2>1. target \in Nat /\ disk["production"] = NoFiles /\ release = {}
    BY InitTypes DEF Init, TypeInv, Lanes
  <2>2. Cardinality({}) = 0
    BY FS_EmptySet
  <2> QED
    BY <2>1, <2>2, NoFilesInv DEF Book!Init
<1>2. IInv /\ [Next]_vars => [Book!Extend \/ Book!Label \/ Book!Release]_Book!bookVars
  <2> SUFFICES ASSUME IInv, [Next]_vars
               PROVE  Book!Extend \/ Book!Label \/ Book!Release \/ UNCHANGED Book!bookVars
    OBVIOUS
  <2>1. CASE InstallMeta
    BY <2>1, LabelStep
  <2>2. CASE Publish
    BY <2>2, ReleaseStep
  <2>3. CASE \E t \in Targets : Extend(t)
    BY <2>3, LabelAssumption DEF Extend, Book!Extend
  <2>4. CASE ~InstallMeta /\ UNCHANGED <<target, release>>
    BY <2>4, SameLabels DEF Book!bookVars
  <2>5. ~InstallMeta /\ ~Publish /\ ~(\E t \in Targets : Extend(t)) => UNCHANGED <<target, release>>
    BY StepKinds
    DEF vars, StartJob, Signal, Kill, LoadCheckpoints, NextStep, GenerateLabels,
        GenerateScores, InstallTable, WriteBatchFails, WriteProgress, Enqueue, Send, SendFails,
        MarkUploaded, DropMarker, Finishing, Close, FinishFails, FinalizeV1, FinalizeV2,
        SetAside, InstallOutput, RemoveBackup, ValidateOutput, FinalizeFails, PublishFails,
        ReadBack
  <2> QED
    BY <2>1, <2>2, <2>3, <2>4, <2>5
<1> QED
  BY <1>1, <1>2, Invariance, PTL DEF Spec, BookSpec, Book!Spec
=============================================================================
