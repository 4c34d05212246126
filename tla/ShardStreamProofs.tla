-------------------------- MODULE ShardStreamProofs --------------------------
(***************************************************************************)
(* The streaming build with any number of shards, batches, allocations and *)
(* faults: types, what the Hub, state.json and an eviction promise each    *)
(* other, that counted batches are never segmented again, and that what a  *)
(* kill leaves of a shard can be resumed.  All but the types assume that   *)
(* no three allocations run at a time, or that each has found all the      *)
(* inputs of its shard.                                                    *)
(***************************************************************************)
EXTENDS ShardStream, FiniteSetTheorems, WellFoundedInduction, TLAPS

-----------------------------------------------------------------------------
(* Numbers of shards and batches.                                          *)

Less == {ss \in Nat \X Nat : ss[1] < ss[2]}

\* The next shard is one of the pending ones.
LEMMA MinInside ==
  ASSUME NEW T \in SUBSET Nat, T # {}
  PROVE  Min(T) \in T
<1>1. \E x \in T : \A y \in T : ~ (<<y, x>> \in Less)
  <2>1. Less = OpToRel(<, Nat)
    BY Zenon DEF OpToRel, Less
  <2>2. IsWellFoundedOn(Less, Nat)
    BY <2>1, NatLessThanWellFounded, Zenon
  <2> QED
    BY <2>2, WFMin
<1>2. PICK x \in T : \A y \in T : ~ (<<y, x>> \in Less)
  BY <1>1
<1>3. ASSUME NEW y \in T PROVE x <= y
  <2>1. x \in Nat /\ y \in Nat /\ <<y, x>> \notin Less
    BY <1>2
  <2>2. (<<y, x>> \in Less) <=> y < x
    BY <2>1 DEF Less
  <2> QED
    BY <2>1, <2>2
<1> QED
  BY <1>2, <1>3 DEF Min

\* Every shard has a number of batches, whatever files it is computed from.
LEMMA TotalType ==
  \A s \in Shards, m \in SUBSET Files : Total(s, m) \in Nat /\ Total(s, m) > 0
BY SizesAssumption DEF Total

-----------------------------------------------------------------------------
(* Type correctness.                                                       *)

\* A driver at point x with local variables l: none counts batches beyond
\* its inputs or before it has found them, and one at work has a shard.
Fits(x, l) ==
  /\ x \in Points /\ l \in Locals
  /\ l.n > 0 => l.shard \in Shards /\ l.n <= Total(l.shard, l.found)
  /\ x = "batch" => l.n < Total(l.shard, l.found)
  /\ x \in {"inspect", "inbox", "clean", "fetch", "discover"} => l.n = 0
  /\ x \notin {"down", "pick"} => l.shard \in Shards

DriversOK ==
  /\ pc \in [Drivers -> Points] /\ loc \in [Drivers -> Locals]
  /\ \A d \in Drivers : Fits(pc[d], loc[d])

\* No progress file counts batches beyond its manifest.
Sound(s, dir) ==
  /\ dir \in Records
  /\ dir.progress # None => dir.progress.n <= Total(s, dir.progress.manifest)
PartialOK ==
  /\ partial \in [Shards -> Partials]
  /\ \A s \in Shards : partial[s] # None => Sound(s, partial[s])

DataOK ==
  /\ inbox \in [Shards -> SUBSET Files]
  /\ active \in [Shards -> Checkpoints] /\ hub \in [Shards -> Checkpoints]
  /\ ledger \subseteq Shards /\ mangled \subseteq Shards

RestOK ==
  /\ lock \in Drivers \cup {NoDriver}
  /\ faults \in 0 .. MaxFaults /\ overlaps \in 0 .. MaxOverlaps

TypeInv == DriversOK /\ PartialOK /\ DataOK /\ RestOK

\* The points of process_shard after the inputs are found.
Later == (Locked \ {"batch"}) \cup Final \cup {"lock", "check", "upload", "fail"}

\* The program points, spelled out.
LEMMA PointNames ==
  /\ Points = {"down", "pick", "inspect", "inbox", "clean", "fetch",
               "reuse", "hash", "load", "create", "advance", "install", "sync", "segment",
               "batch", "publish", "validate", "discard",
               "evictInbox", "evictActive", "evictPartial", "record",
               "discover", "lock", "check", "upload", "fail"}
  /\ Later = {"reuse", "hash", "load", "create", "advance", "install", "sync", "segment",
              "publish", "validate", "discard", "evictInbox", "evictActive",
              "evictPartial", "record", "lock", "check", "upload", "fail"}
  /\ Outside = {"down", "pick", "inspect", "inbox", "clean", "fetch"}
BY DEF Points, Outside, Locked, Final, Later

\* process_shard goes on with the local variables it has.
LEMMA Forward ==
  ASSUME NEW p, NEW x \in Later, NEW l, Fits(p, l), p \notin {"down", "pick"}
  PROVE  Fits(x, l)
BY PointNames DEF Fits

\* A process that starts has nothing in hand.
LEMMA FreshFits == Fits("down", FreshLocal) /\ FreshLocal.found = {}
BY TotalType, PointNames DEF Fits, FreshLocal, Locals

\* A driver moves on, and its local variables stay as they are or change.
LEMMA Move ==
  ASSUME DriversOK, NEW d \in Drivers, NEW x, Fits(x, loc[d]), Goto(d, x), UNCHANGED loc
  PROVE  DriversOK'
BY DEF DriversOK, Goto, Fits

LEMMA MoveWith ==
  ASSUME DriversOK, NEW d \in Drivers, NEW x, NEW l, Fits(x, l), Goto(d, x),
         loc' = [loc EXCEPT ![d] = l]
  PROVE  DriversOK'
BY DEF DriversOK, Goto, Fits

LEMMA Stay ==
  ASSUME DriversOK, NEW d \in Drivers, NEW l, Fits(pc[d], l), UNCHANGED pc,
         loc' = [loc EXCEPT ![d] = l]
  PROVE  DriversOK'
BY DEF DriversOK, Fits

\* Steps that go on to a later point or fail, with the same local variables.
LEMMA ForwardStep ==
  ASSUME DriversOK, NEW d \in Drivers, pc[d] \notin {"down", "pick"},
         \E x \in Later : Goto(d, x), UNCHANGED loc
  PROVE  DriversOK'
BY Move, Forward DEF DriversOK

\* The steps of a driver keep its program counter and local variables sound.
LEMMA HeadStep ==
  ASSUME DriversOK, DataOK, NEW d \in Drivers,
         \/ Start(d) \/ PickShard(d) \/ InspectRemote(d) \/ PrepareInbox(d) \/ CleanInbox(d)
         \/ \E f \in Files : BeginFetch(d, f) \/ EndFetch(d, f) \/ FetchFails(d, f)
         \/ DiscoverShard(d)
  PROVE  DriversOK'
<1> USE DEF At, Shard
<1>d. Fits(pc[d], loc[d])
  BY DEF DriversOK
<1>1. CASE Start(d)
  <2>1. Fits("pick", [FreshLocal EXCEPT !.verified = ledger])
    BY FreshFits, PointNames DEF Fits, FreshLocal, Locals, DataOK
  <2> QED
    BY <1>1, <2>1, MoveWith DEF Start
<1>2. CASE PickShard(d)
  <2> DEFINE l == [FreshLocal EXCEPT !.verified = loc[d].verified,
                                     !.shard = Min(Shards \ loc[d].verified)]
  <2>1. CASE loc[d].verified = Shards
    BY <1>2, <2>1, FreshFits, MoveWith DEF PickShard
  <2>2. CASE loc[d].verified # Shards
    <3>1. Min(Shards \ loc[d].verified) \in Shards
      BY <1>d, <2>2, MinInside, ShardsAssumption DEF Fits, Locals
    <3>2. l \in Locals /\ l.n = 0 /\ l.shard \in Shards
      BY <1>d, <3>1, FreshFits DEF Fits, FreshLocal, Locals
    <3> HIDE DEF l
    <3>3. Fits("inspect", l)
      BY <3>2, PointNames DEF Fits
    <3> QED
      BY <1>2, <2>2, <3>3, MoveWith DEF PickShard, l
  <2> QED
    BY <2>1, <2>2
<1>3. CASE InspectRemote(d)
  <2>1. \A x \in {"inbox", "evictInbox", "down"} : Fits(x, loc[d])
    BY <1>3, <1>d, PointNames DEF Fits, InspectRemote
  <2>2. \E x \in {"inbox", "evictInbox", "down"} : Goto(d, x)
    BY <1>3 DEF InspectRemote
  <2> QED
    BY <1>3, <2>1, <2>2, Move DEF InspectRemote
<1>4. CASE PrepareInbox(d)
  <2>1. Fits("discover", loc[d]) /\ Fits("clean", loc[d])
    BY <1>4, <1>d, PointNames DEF Fits, PrepareInbox
  <2> QED
    BY <1>4, <2>1, Move DEF PrepareInbox
<1>5. CASE CleanInbox(d)
  <2> DEFINE l == [loc[d] EXCEPT !.todo = Required(Shard(d))]
  <2>1. Fits("clean", l) /\ Fits("fetch", l)
    BY <1>5, <1>d, PointNames DEF Fits, CleanInbox, RemoveInbox, Required, Files, Locals
  <2>2. loc' = [loc EXCEPT ![d] = l] /\ (Goto(d, "fetch") \/ UNCHANGED pc)
    BY <1>5 DEF CleanInbox, RemoveInbox, DriversOK
  <2>3. pc[d] = "clean"
    BY <1>5 DEF CleanInbox, RemoveInbox
  <2> QED
    BY <2>1, <2>2, <2>3, MoveWith, Stay
<1>6. ASSUME NEW f \in Files, BeginFetch(d, f) PROVE DriversOK'
  <2> DEFINE l == [loc[d] EXCEPT !.todo = @ \ {f}, !.busy = @ \cup {f}]
  <2>1. Fits(pc[d], l)
    BY <1>d DEF Fits, Locals
  <2>2. loc' = [loc EXCEPT ![d] = l] /\ UNCHANGED pc
    BY <1>6 DEF BeginFetch, DriversOK
  <2> QED
    BY <2>1, <2>2, Stay
<1>7. ASSUME NEW f \in Files, NEW failed \in BOOLEAN, JoinThreads(d, f, failed), pc[d] = "fetch"
      PROVE  DriversOK'
  <2> DEFINE l == [loc[d] EXCEPT !.busy = @ \ {f}, !.failed = failed]
             k == IF failed THEN FreshLocal ELSE [loc[d] EXCEPT !.busy = {}]
             x == IF failed THEN "down" ELSE "discover"
  <2>1. Fits(pc[d], l) /\ Fits(x, k)
    BY <1>7, <1>d, FreshFits, PointNames DEF Fits, Locals
  <2>2. \/ loc' = [loc EXCEPT ![d] = l] /\ UNCHANGED pc
        \/ loc' = [loc EXCEPT ![d] = k] /\ Goto(d, x)
    BY <1>7 DEF JoinThreads, DriversOK
  <2> QED
    BY <2>1, <2>2, Stay, MoveWith
<1>8. ASSUME NEW f \in Files, EndFetch(d, f) \/ FetchFails(d, f) PROVE DriversOK'
  <2>1. loc[d].failed \in BOOLEAN
    BY <1>d DEF Fits, Locals
  <2> QED
    BY <1>7, <1>8, <2>1 DEF EndFetch, FetchFails
<1>9. CASE DiscoverShard(d)
  <2> DEFINE l == [loc[d] EXCEPT !.found = inbox[Shard(d)]]
  <2>1. CASE Discoverable(inbox[Shard(d)])
    <3>1. Fits("lock", l)
      <4>1. loc[d].n = 0 /\ Shard(d) \in Shards /\ inbox[Shard(d)] \in SUBSET Files
        BY <1>9, <1>d DEF Fits, DiscoverShard, DataOK
      <4> QED
        BY <1>d, <4>1, TotalType, PointNames DEF Fits, Locals
    <3> QED
      BY <1>9, <2>1, <3>1, MoveWith DEF DiscoverShard, DriversOK
  <2>2. CASE ~Discoverable(inbox[Shard(d)])
    BY <1>9, <2>2, ForwardStep, PointNames DEF DiscoverShard, Raise
  <2> QED
    BY <2>1, <2>2
<1> QED
  BY <1>1, <1>2, <1>3, <1>4, <1>5, <1>6, <1>8, <1>9

\* The same of the steps of process_single_shard ...
LEMMA LockedStep ==
  ASSUME DriversOK, PartialOK, NEW d \in Drivers,
         \/ AcquireLock(d) \/ ReuseActive(d) \/ HashSources(d) \/ LoadPartial(d)
         \/ CreatePartial(d) \/ SegmentBatch(d) \/ InstallBatch(d) \/ BeginProgress(d)
         \/ InstallProgress(d) \/ SyncProgress(d) \/ ProgressFails(d) \/ PublishShard(d)
         \/ ValidatePublished(d) \/ DiscardPartial(d)
  PROVE  DriversOK'
<1> USE DEF At, Shard
<1>d. Fits(pc[d], loc[d])
  BY DEF DriversOK
<1>1. CASE AcquireLock(d)
  BY <1>1, ForwardStep, PointNames DEF AcquireLock, Raise
<1>2. CASE ReuseActive(d)
  BY <1>2, ForwardStep, PointNames DEF ReuseActive
<1>3. CASE HashSources(d)
  BY <1>3, ForwardStep, PointNames DEF HashSources, Raise
<1>4. CASE LoadPartial(d)
  <2> DEFINE dir == partial[Shard(d)]
             l == [loc[d] EXCEPT !.n = dir.progress.n]
  <2>1. CASE dir # None /\ Loadable(dir, loc[d].found) /\ loc' = [loc EXCEPT ![d] = l]
             /\ Goto(d, "segment")
    <3>1. Shard(d) \in Shards
      BY <1>4, <1>d DEF LoadPartial, Fits
    <3>2. Sound(Shard(d), dir)
      BY <2>1, <3>1 DEF PartialOK
    <3>3. dir.progress \in Counts /\ dir.progress.n <= Total(loc[d].shard, loc[d].found)
      BY <2>1, <3>2 DEF Sound, Loadable, Identified, Records
    <3>4. Fits("segment", l)
      BY <1>4, <1>d, <3>3, PointNames DEF Fits, Locals, Counts, LoadPartial
    <3> QED
      BY <2>1, <3>4, MoveWith
  <2>2. CASE UNCHANGED loc /\ (Goto(d, "create") \/ Raise(d))
    BY <1>4, <2>2, ForwardStep, PointNames DEF LoadPartial, Raise
  <2> QED
    BY <1>4, <2>1, <2>2 DEF LoadPartial, DriversOK
<1>5. CASE CreatePartial(d)
  BY <1>5, ForwardStep, PointNames DEF CreatePartial, Raise
<1>6. CASE SegmentBatch(d)
  <2>1. CASE Goto(d, "publish") \/ Raise(d)
    BY <1>6, <2>1, ForwardStep, PointNames DEF SegmentBatch, Raise
  <2>2. CASE ~Segmented(d) /\ OpenTemporary(d, "batch")
    <3>1. Fits("batch", loc[d])
      BY <1>6, <1>d, <2>2, TotalType, PointNames DEF Fits, Segmented, SegmentBatch, Locals
    <3> QED
      BY <1>6, <2>2, <3>1, Move DEF SegmentBatch, OpenTemporary
  <2> QED
    BY <1>6, <2>1, <2>2 DEF SegmentBatch
<1>7. CASE InstallBatch(d)
  <2> DEFINE l == [loc[d] EXCEPT !.n = @ + 1]
  <2>1. Fits("advance", l)
    BY <1>7, <1>d, TotalType, PointNames DEF Fits, InstallBatch, Locals
  <2>2. CASE loc' = [loc EXCEPT ![d] = l] /\ Goto(d, "advance")
    BY <2>1, <2>2, MoveWith
  <2>3. CASE UNCHANGED loc /\ Goto(d, "fail")
    BY <1>7, <2>3, ForwardStep, PointNames DEF InstallBatch
  <2> QED
    BY <1>7, <2>2, <2>3 DEF InstallBatch, Raise, DriversOK
<1>8. CASE BeginProgress(d)
  BY <1>8, ForwardStep, PointNames DEF BeginProgress, OpenTemporary
<1>9. CASE InstallProgress(d)
  BY <1>9, ForwardStep, PointNames DEF InstallProgress, WithoutLast, Raise
<1>10. CASE SyncProgress(d)
  BY <1>10, ForwardStep, PointNames DEF SyncProgress
<1>11. CASE ProgressFails(d)
  BY <1>11, ForwardStep, PointNames DEF ProgressFails, WithoutLast, Raise
<1>12. CASE PublishShard(d)
  BY <1>12, ForwardStep, PointNames DEF PublishShard, Raise
<1>13. CASE ValidatePublished(d)
  BY <1>13, ForwardStep, PointNames DEF ValidatePublished, Raise
<1>14. CASE DiscardPartial(d)
  <2>1. CASE UNCHANGED pc
    BY <1>14, <2>1 DEF DiscardPartial, DriversOK
  <2>2. CASE Goto(d, "check")
    BY <1>14, <2>2, ForwardStep, PointNames DEF DiscardPartial, RemovePartial
  <2> QED
    BY <1>14, <2>1, <2>2 DEF DiscardPartial, RemovePartial
<1> QED
  BY <1>1, <1>2, <1>3, <1>4, <1>5, <1>6, <1>7, <1>8, <1>9, <1>10, <1>11, <1>12, <1>13, <1>14

\* ... and of the steps after it.
LEMMA TailStep ==
  ASSUME DriversOK, NEW d \in Drivers,
         \/ CheckActive(d) \/ Upload(d) \/ EvictInbox(d) \/ EvictActive(d) \/ EvictPartial(d)
         \/ RecordVerified(d) \/ Fail(d) \/ CallFails(d) \/ Kill(d)
  PROVE  DriversOK'
<1> USE DEF At, Shard
<1>d. Fits(pc[d], loc[d])
  BY DEF DriversOK
<1>1. CASE CheckActive(d)
  BY <1>1, ForwardStep, PointNames DEF CheckActive, Raise
<1>2. CASE Upload(d)
  BY <1>2, ForwardStep, PointNames DEF Upload, Raise
<1>3. CASE EvictInbox(d) \/ EvictActive(d) \/ EvictPartial(d)
  <2>1. CASE UNCHANGED pc
    BY <1>3, <2>1 DEF EvictInbox, EvictActive, EvictPartial, DriversOK
  <2>2. CASE Goto(d, "evictActive") \/ Goto(d, "evictPartial") \/ Goto(d, "record")
    BY <1>3, <2>2, ForwardStep, PointNames
       DEF EvictInbox, RemoveInbox, EvictActive, EvictPartial, RemovePartial
  <2> QED
    BY <1>3, <2>1, <2>2 DEF EvictInbox, RemoveInbox, EvictActive, EvictPartial, RemovePartial
<1>4. CASE RecordVerified(d)
  <2> DEFINE l == [loc[d] EXCEPT !.verified = ledger']
  <2>1. Fits("pick", l)
    BY <1>4, <1>d, PointNames DEF RecordVerified, Fits, Locals
  <2> QED
    BY <1>4, <2>1, MoveWith DEF RecordVerified, DriversOK
<1>5. CASE Fail(d) \/ Kill(d)
  BY <1>5, FreshFits, MoveWith DEF Fail, Kill
<1>6. CASE CallFails(d)
  BY <1>6, ForwardStep, PointNames DEF CallFails, Raise
<1> QED
  BY <1>1, <1>2, <1>3, <1>4, <1>5, <1>6

\* A step of one driver changes at most the directory of its shard.
LEMMA SoundDir ==
  ASSUME PartialOK, NEW s \in Shards
  PROVE  Sound(s, Dir(s))
BY DEF PartialOK, Dir, EmptyDir, Sound, Records

\* Putting a sound directory in place keeps the others sound.
LEMMA Rewrite ==
  ASSUME PartialOK, NEW s \in Shards, NEW dir, dir = None \/ Sound(s, dir),
         partial' = [partial EXCEPT ![s] = dir]
  PROVE  PartialOK'
BY DEF PartialOK, Partials, Sound, Records

\* Every step keeps the partial directories sound.
LEMMA PartialStep ==
  ASSUME TypeInv, [Next]_vars
  PROVE  PartialOK'
<1> USE DEF At, Shard
<1>1. CASE UNCHANGED partial
  BY <1>1 DEF PartialOK, TypeInv, Sound
<1>2. SUFFICES ASSUME NEW d \in Drivers, partial' # partial,
                      \/ LoadPartial(d) \/ CreatePartial(d) \/ SegmentBatch(d)
                      \/ InstallBatch(d) \/ BeginProgress(d) \/ InstallProgress(d)
                      \/ ProgressFails(d) \/ DiscardPartial(d) \/ EvictPartial(d)
                      \/ CallFails(d)
               PROVE  PartialOK'
  BY <1>1
     DEF Next, Step, Fault, Start, PickShard, InspectRemote, PrepareInbox, CleanInbox,
         RemoveInbox, BeginFetch, EndFetch, FetchFails, DiscoverShard, AcquireLock,
         ReuseActive, HashSources, SyncProgress, PublishShard, ValidatePublished, CheckActive,
         Upload, EvictInbox, EvictActive, RecordVerified, Fail, Kill, vars, work
<1>p. pc[d] \notin {"down", "pick"}
  BY <1>2, PointNames
     DEF LoadPartial, CreatePartial, SegmentBatch, InstallBatch, BeginProgress,
         InstallProgress, ProgressFails, DiscardPartial, EvictPartial, RemovePartial, CallFails
<1> DEFINE s == Shard(d)
           dir == Dir(s)
<1>3. s \in Shards /\ PartialOK /\ Sound(s, dir) /\ (partial[s] # None => dir = partial[s])
  <2>1. s \in Shards /\ PartialOK
    BY <1>p DEF TypeInv, DriversOK, Fits
  <2> QED
    BY <2>1, SoundDir DEF Dir
<1>4. /\ loc[d].found \in SUBSET Files /\ loc[d].n \in Nat
      /\ loc[d].n <= Total(loc[d].shard, loc[d].found) /\ Total(loc[d].shard, loc[d].found) \in Nat
      /\ pc[d] = "batch" => loc[d].n < Total(loc[d].shard, loc[d].found)
  <2>1. loc[d].found \in SUBSET Files /\ loc[d].n \in Nat /\ Fits(pc[d], loc[d])
    BY DEF TypeInv, DriversOK, Locals
  <2>2. Total(loc[d].shard, loc[d].found) \in Nat
    BY <1>3, <2>1, TotalType DEF s
  <2> QED
    BY <2>1, <2>2 DEF Fits
<1>5. DOMAIN partial = Shards
  BY DEF TypeInv, PartialOK
<1> HIDE DEF s, dir
<1>6. CASE LoadPartial(d)
  <2>1. \/ /\ partial' = [partial EXCEPT ![s] = [dir EXCEPT !.files = 1 .. dir.progress.n,
                                                         !.tmp = FALSE]]
           /\ dir.progress # None
        \/ partial' = [partial EXCEPT ![s] = [dir EXCEPT !.tmp = FALSE]]
    BY <1>2, <1>3, <1>5, <1>6 DEF LoadPartial, s, Loadable, Identified
  <2>2. Sound(s, [dir EXCEPT !.tmp = FALSE])
    BY <1>3 DEF Sound, Records
  <2>3. ASSUME dir.progress # None
        PROVE  Sound(s, [dir EXCEPT !.files = 1 .. dir.progress.n, !.tmp = FALSE])
    <3>1. dir.progress.n \in Nat
      BY <1>3, <2>3 DEF Sound, Records, Counts
    <3>2. 1 .. dir.progress.n \in SUBSET Nat
      BY <3>1
    <3> QED
      BY <1>3, <3>2 DEF Sound, Records
  <2> QED
    BY <1>3, <2>1, <2>2, <2>3, Rewrite
<1>7. CASE CreatePartial(d)
  <2>1. Sound(s, EmptyDir)
    BY DEF Sound, EmptyDir, Records
  <2> QED
    BY <1>2, <1>3, <1>7, <2>1, Rewrite DEF CreatePartial, s
<1>8. CASE SegmentBatch(d) \/ BeginProgress(d)
  <2>1. Sound(s, [dir EXCEPT !.tmp = TRUE])
    BY <1>3 DEF Sound, Records
  <2>2. partial' = [partial EXCEPT ![s] = [dir EXCEPT !.tmp = TRUE]]
    BY <1>2, <1>8 DEF SegmentBatch, BeginProgress, OpenTemporary, s, dir
  <2> QED
    BY <1>3, <2>1, <2>2, Rewrite
<1>9. CASE InstallBatch(d)
  <2>1. dir.tmp /\ partial' = [partial EXCEPT ![s].tmp = FALSE,
                                              ![s].files = @ \cup {loc[d].n + 1}]
    BY <1>2, <1>9 DEF InstallBatch, s, dir
  <2>2. partial[s] # None
    BY <2>1 DEF dir, Dir, EmptyDir
  <2>3. partial' = [partial EXCEPT ![s] = [dir EXCEPT !.tmp = FALSE,
                                                      !.files = @ \cup {loc[d].n + 1}]]
    BY <1>3, <1>5, <2>1, <2>2
  <2>4. loc[d].n + 1 \in Nat \ {0}
    BY <1>4, <1>9, TotalType DEF InstallBatch
  <2>5. Sound(s, [dir EXCEPT !.tmp = FALSE, !.files = @ \cup {loc[d].n + 1}])
    BY <1>3, <2>4 DEF Sound, Records
  <2> QED
    BY <1>3, <2>3, <2>5, Rewrite
<1>10. ASSUME WithoutLast(d) PROVE PartialOK'
  <2>1. partial' = [partial EXCEPT ![s] = [dir EXCEPT !.tmp = FALSE,
                                                      !.files = @ \ {loc[d].n}]]
    BY <1>2, <1>3, <1>5, <1>10 DEF WithoutLast, s
  <2>2. Sound(s, [dir EXCEPT !.tmp = FALSE, !.files = @ \ {loc[d].n}])
    BY <1>3 DEF Sound, Records
  <2> QED
    BY <1>3, <2>1, <2>2, Rewrite
<1>11. CASE InstallProgress(d)
  <2> DEFINE count == Progress(loc[d].found, loc[d].n)
  <2>1. CASE dir.tmp /\ partial' = [partial EXCEPT ![s].tmp = FALSE, ![s].progress = count]
    <3>1. partial[s] # None
      BY <2>1 DEF dir, Dir, EmptyDir
    <3>2. partial' = [partial EXCEPT ![s] = [dir EXCEPT !.tmp = FALSE, !.progress = count]]
      BY <1>3, <1>5, <2>1, <3>1
    <3>3. count \in Counts /\ count.n <= Total(s, count.manifest)
      BY <1>4 DEF Progress, Counts, s
    <3> HIDE DEF count
    <3>4. Sound(s, [dir EXCEPT !.tmp = FALSE, !.progress = count])
      BY <1>3, <3>3 DEF Sound, Records
    <3> QED
      BY <1>3, <3>2, <3>4, Rewrite
  <2> QED
    BY <1>10, <1>11, <2>1 DEF InstallProgress, s, dir
<1>12. CASE ProgressFails(d)
  BY <1>10, <1>12 DEF ProgressFails
<1>13. CASE DiscardPartial(d) \/ EvictPartial(d)
  <2>1. PICK rest \in Shrunk(dir) : partial' = [partial EXCEPT ![s] = rest]
    BY <1>13 DEF DiscardPartial, EvictPartial, RemovePartial, s, dir
  <2>2. rest = None \/ Sound(s, rest)
    <3>1. \/ rest = None
          \/ \E p \in {dir.progress, None}, fs \in SUBSET dir.files, t \in {dir.tmp, FALSE} :
               rest = [progress |-> p, files |-> fs, tmp |-> t]
      BY <2>1 DEF Shrunk
    <3>2. ASSUME NEW p \in {dir.progress, None}, NEW fs \in SUBSET dir.files,
                 NEW t \in {dir.tmp, FALSE}
          PROVE  Sound(s, [progress |-> p, files |-> fs, tmp |-> t])
      <4>1. dir \in Records
        BY <1>3 DEF Sound
      <4>2. fs \in SUBSET Nat /\ t \in BOOLEAN /\ p \in Counts \cup {None}
        BY <4>1 DEF Records
      <4>3. p # None => p.n <= Total(s, p.manifest)
        BY <1>3 DEF Sound
      <4> QED
        BY <4>2, <4>3 DEF Records, Sound
    <3> QED
      BY <3>1, <3>2
  <2> QED
    BY <1>3, <2>1, <2>2, Rewrite
<1>14. CASE CallFails(d)
  <2>1. partial' = [partial EXCEPT ![s] = [dir EXCEPT !.tmp = FALSE]]
    BY <1>2, <1>3, <1>5, <1>14 DEF CallFails, s
  <2>2. Sound(s, [dir EXCEPT !.tmp = FALSE])
    BY <1>3 DEF Sound, Records
  <2> QED
    BY <1>3, <2>1, <2>2, Rewrite
<1> QED
  BY <1>2, <1>6, <1>7, <1>8, <1>9, <1>11, <1>12, <1>13, <1>14

\* The data keep their types.
LEMMA DataStep ==
  ASSUME TypeInv, [Next]_vars
  PROVE  DataOK'
<1> USE DEF At, Shard, Goto, Raise, work, history
<1>1. CASE UNCHANGED <<inbox, active, hub, ledger, mangled>>
  BY <1>1 DEF DataOK, TypeInv
<1>2. ASSUME NEW d \in Drivers, NEW files \in SUBSET Files,
             inbox' = [inbox EXCEPT ![Shard(d)] = files],
             UNCHANGED <<active, hub, ledger, mangled>>
      PROVE  DataOK'
  BY <1>2 DEF TypeInv, DataOK
<1>3. ASSUME NEW d \in Drivers, CleanInbox(d) \/ EvictInbox(d) PROVE DataOK'
  <2>1. Shard(d) \in Shards
    BY <1>3 DEF CleanInbox, EvictInbox, RemoveInbox, TypeInv, DriversOK, Fits
  <2> QED
    BY <1>2, <1>3, <2>1 DEF CleanInbox, EvictInbox, RemoveInbox, TypeInv, DataOK
<1>4. ASSUME NEW d \in Drivers, NEW f \in Files,
             BeginFetch(d, f) \/ EndFetch(d, f) \/ FetchFails(d, f)
      PROVE  DataOK'
  <2>1. Shard(d) \in Shards
    BY <1>4 DEF BeginFetch, EndFetch, FetchFails, TypeInv, DriversOK, Fits
  <2>2. inbox[Shard(d)] \ {f} \in SUBSET Files /\ inbox[Shard(d)] \cup {f} \in SUBSET Files
    BY <2>1 DEF TypeInv, DataOK
  <2>3. \/ inbox' = [inbox EXCEPT ![Shard(d)] = inbox[Shard(d)] \ {f}]
        \/ inbox' = [inbox EXCEPT ![Shard(d)] = inbox[Shard(d)] \cup {f}]
    BY <1>4, <2>1 DEF BeginFetch, EndFetch, FetchFails, TypeInv, DataOK
  <2> QED
    BY <1>2, <1>4, <2>2, <2>3 DEF BeginFetch, EndFetch, FetchFails
<1>5. ASSUME NEW d \in Drivers, NEW c \in Checkpoints,
             active' = [active EXCEPT ![Shard(d)] = c],
             UNCHANGED <<inbox, hub, ledger, mangled>>
      PROVE  DataOK'
  BY <1>5 DEF TypeInv, DataOK
<1>6. ASSUME NEW d \in Drivers, ReuseActive(d) PROVE DataOK'
  BY <1>1, <1>5, <1>6 DEF ReuseActive, Checkpoints
<1>7. ASSUME NEW d \in Drivers, EvictActive(d) PROVE DataOK'
  <2>1. CASE active' = [active EXCEPT ![Shard(d)] = None]
    BY <1>5, <1>7, <2>1 DEF EvictActive, Checkpoints
  <2>2. CASE Whole(Shard(d), active[Shard(d)]) /\ active' = [active EXCEPT ![Shard(d)].batches = {}]
    <3>1. Shard(d) \in Shards
      BY <1>7 DEF EvictActive, TypeInv, DriversOK, Fits
    <3>2. active[Shard(d)] \in Checkpoints /\ active[Shard(d)] # None /\ {} \in SUBSET Nat
      BY <2>2, <3>1 DEF Whole, TypeInv, DataOK
    <3>3. [active[Shard(d)] EXCEPT !.batches = {}] \in Checkpoints
      BY <3>2 DEF Checkpoints, Copies
    <3>4. active' = [active EXCEPT ![Shard(d)] = [active[Shard(d)] EXCEPT !.batches = {}]]
      BY <2>2, <3>1 DEF TypeInv, DataOK
    <3> QED
      BY <1>5, <1>7, <3>3, <3>4 DEF EvictActive
  <2> QED
    BY <1>7, <2>1, <2>2 DEF EvictActive
<1>8. ASSUME NEW d \in Drivers, PublishShard(d) PROVE DataOK'
  <2>1. loc[d].found \in SUBSET Files /\ 1 .. loc[d].n \in SUBSET Nat
    BY TotalType DEF TypeInv, DriversOK, Locals
  <2>2. Checkpoint(loc[d].found, 1 .. loc[d].n) \in Checkpoints
    BY <2>1 DEF Checkpoint, Checkpoints, Copies
  <2> QED
    BY <1>1, <1>5, <1>8, <2>2 DEF PublishShard
<1>9. ASSUME NEW d \in Drivers, Upload(d) PROVE DataOK'
  <2>1. ASSUME active[loc[d].shard] # None, loc[d].shard \in Shards
        PROVE  Committed(loc[d].shard) \in Checkpoints
    BY <2>1 DEF Committed, Checkpoints, Copies, TypeInv, DataOK
  <2> QED
    BY <1>9, <2>1 DEF Upload, TypeInv, DataOK
<1>10. ASSUME NEW d \in Drivers, RecordVerified(d) \/ Fail(d) PROVE DataOK'
  <2>1. loc[d].verified \subseteq Shards /\ (pc[d] = "record" => Shard(d) \in Shards)
    BY DEF TypeInv, DriversOK, Fits, Locals
  <2> QED
    BY <1>10, <2>1 DEF RecordVerified, Fail, TypeInv, DataOK
<1>11. ASSUME NEW d \in Drivers, InstallProgress(d) \/ ProgressFails(d) PROVE DataOK'
  <2>1. pc[d] \in {"install", "sync"} /\ Shard(d) \in Shards
    BY <1>11 DEF InstallProgress, ProgressFails, TypeInv, DriversOK, Fits
  <2> QED
    BY <1>11, <2>1 DEF InstallProgress, ProgressFails, WithoutLast, TypeInv, DataOK
<1> QED
  BY <1>1, <1>3, <1>4, <1>6, <1>7, <1>8, <1>9, <1>10, <1>11
     DEF Next, Step, Fault, Start, PickShard, InspectRemote, PrepareInbox, DiscoverShard,
         AcquireLock, HashSources, LoadPartial, CreatePartial, SegmentBatch, InstallBatch,
         BeginProgress, SyncProgress, ValidatePublished, DiscardPartial, CheckActive,
         EvictPartial, CallFails, Kill, vars

\* What a step can do with the lock: a driver takes it when it is free, and
\* only the holder gives it back, except at the end of process_single_shard.
Unlocks(d) ==
  \/ UNCHANGED lock
  \/ lock' = (IF lock = d THEN NoDriver ELSE lock)
  \/ lock = NoDriver /\ lock' = d
  \/ pc[d] \in {"reuse", "discard"} /\ lock' = NoDriver

\* Every step treats the lock in one of these ways.
LEMMA LockStep ==
  ASSUME NEW d \in Drivers, Start(d) \/ Step(d) \/ Fault(d)
  PROVE  Unlocks(d)
<1> USE DEF At, Goto, Raise, Unlocks
<1>1. CASE Start(d) \/ PickShard(d) \/ InspectRemote(d) \/ PrepareInbox(d) \/ CleanInbox(d)
           \/ EvictInbox(d)
  BY <1>1, Zenon DEF Start, PickShard, InspectRemote, PrepareInbox, CleanInbox, RemoveInbox,
                     EvictInbox
<1>2. ASSUME NEW f \in Files, BeginFetch(d, f) \/ EndFetch(d, f) \/ FetchFails(d, f)
      PROVE  Unlocks(d)
  BY <1>2, Zenon DEF BeginFetch, EndFetch, FetchFails
<1>3. CASE DiscoverShard(d) \/ AcquireLock(d) \/ ReuseActive(d) \/ HashSources(d)
  BY <1>3 DEF DiscoverShard, AcquireLock, ReuseActive, HashSources
<1>4. CASE LoadPartial(d) \/ CreatePartial(d) \/ SegmentBatch(d) \/ InstallBatch(d)
  BY <1>4, Zenon DEF LoadPartial, CreatePartial, SegmentBatch, InstallBatch
<1>5. CASE BeginProgress(d) \/ InstallProgress(d) \/ SyncProgress(d) \/ ProgressFails(d)
  BY <1>5, Zenon DEF BeginProgress, InstallProgress, WithoutLast, SyncProgress, ProgressFails
<1>6. CASE PublishShard(d) \/ ValidatePublished(d)
  BY <1>6, Zenon DEF PublishShard, ValidatePublished
<1>7. CASE DiscardPartial(d)
  BY <1>7 DEF DiscardPartial, RemovePartial
<1>8. CASE CheckActive(d) \/ Upload(d) \/ EvictActive(d) \/ EvictPartial(d)
  BY <1>8, Zenon DEF CheckActive, Upload, EvictActive, EvictPartial
<1>9. CASE RecordVerified(d) \/ Fail(d) \/ CallFails(d) \/ Kill(d)
  BY <1>9, Zenon DEF RecordVerified, Fail, CallFails, Kill
<1> QED
  BY <1>1, <1>2, <1>3, <1>4, <1>5, <1>6, <1>7, <1>8, <1>9 DEF Step, Fault

\* Faults and overlaps are counted one by one, up to their bounds.
Counters(d) ==
  /\ faults' = faults \/ (faults < MaxFaults /\ faults' = faults + 1)
  /\ overlaps' = overlaps \/ (overlaps < MaxOverlaps /\ overlaps' = overlaps + 1)

\* Every step counts in one of these ways.
LEMMA CountersStep ==
  ASSUME NEW d \in Drivers, Start(d) \/ Step(d) \/ Fault(d)
  PROVE  Counters(d)
<1> USE DEF Counters, history
<1>1. CASE Start(d)
  BY <1>1, Zenon DEF Start
<1>2. CASE Step(d)
  BY <1>2, ZenonT(60)
     DEF Step, PickShard, InspectRemote, PrepareInbox, CleanInbox, RemoveInbox, BeginFetch,
         EndFetch, DiscoverShard, AcquireLock, ReuseActive, HashSources, LoadPartial,
         CreatePartial, SegmentBatch, InstallBatch, BeginProgress, InstallProgress, SyncProgress,
         PublishShard, ValidatePublished, DiscardPartial, CheckActive, Upload, EvictInbox,
         EvictActive, EvictPartial, RecordVerified, Fail
<1>3. CASE Fault(d)
  BY <1>3, Zenon DEF Fault, FetchFails, ProgressFails, CallFails, Kill
<1> QED
  BY <1>1, <1>2, <1>3

\* The lock and the counters keep their types.
LEMMA RestStep ==
  ASSUME TypeInv, [Next]_vars
  PROVE  RestOK'
<1>1. CASE UNCHANGED vars
  BY <1>1 DEF vars, history, TypeInv, RestOK
<1>2. ASSUME NEW d \in Drivers, Start(d) \/ Step(d) \/ Fault(d) PROVE RestOK'
  <2>1. lock' \in Drivers \cup {NoDriver}
    BY <1>2, LockStep DEF Unlocks, TypeInv, RestOK
  <2>2. Counters(d)
    BY <1>2, CountersStep
  <2>3. faults' \in 0 .. MaxFaults /\ overlaps' \in 0 .. MaxOverlaps
    BY <2>2, FaultsAssumption DEF Counters, TypeInv, RestOK
  <2> QED
    BY <2>1, <2>3 DEF RestOK
<1> QED
  BY <1>1, <1>2 DEF Next

\* Every step keeps the types ...
LEMMA TypeStep == TypeInv /\ [Next]_vars => TypeInv'
<1> SUFFICES ASSUME TypeInv, [Next]_vars PROVE TypeInv'
  OBVIOUS
<1>1. DriversOK'
  <2>1. CASE UNCHANGED vars
    BY <2>1 DEF vars, TypeInv, DriversOK, Fits
  <2> QED
    BY <2>1, HeadStep, LockedStep, TailStep DEF Next, Step, Fault, TypeInv
<1> QED
  BY <1>1, PartialStep, DataStep, RestStep DEF TypeInv

\* ... which hold in the initial states ...
LEMMA TypeInit == Init => TypeInv
<1> SUFFICES ASSUME Init PROVE TypeInv
  OBVIOUS
<1>1. DriversOK
  BY FreshFits DEF Init, DriversOK, Fits
<1> QED
  BY <1>1, FaultsAssumption
     DEF Init, TypeInv, PartialOK, Partials, DataOK, Checkpoints, RestOK

\* ... and are the ones the runs check.
LEMMA TypeImplied == TypeInv => TypeOK
BY DEF TypeInv, DriversOK, PartialOK, DataOK, RestOK, Fits, TypeOK, Shard

\* Every variable of the streaming build keeps its type, and no driver counts
\* batches beyond the inputs of its shard.
THEOREM StreamTypes == Spec => []TypeOK
BY TypeInit, TypeStep, TypeImplied, PTL DEF Spec

-----------------------------------------------------------------------------
(* What the Hub holds.  Allocations that overlap may have found different    *)
(* inputs of a shard, one with the Wikivoyage pair and one without.          *)

OnHub == {s \in Shards : hub[s] # None}

\* An allocation at point x with local variables l works on some inputs,
\* publishes when it has segmented all of them, and takes nothing away from,
\* and records nothing of, a shard that the Hub does not have.
Knows(x, l, have) ==
  /\ x \in Locked \cup {"lock"} => l.found # {}
  /\ x = "publish" => l.n = Total(l.shard, l.found)
  /\ x \in Final => l.shard \in have
  /\ l.verified \subseteq have
DriversKnow == \A d \in Drivers : Knows(pc[d], loc[d], OnHub)

\* A local checkpoint is whole, or half removed and on the Hub.
CopiesOK ==
  /\ \A s \in Shards : active[s] # None =>
       /\ active[s].batches \subseteq 1 .. Total(s, active[s].manifest)
       /\ Whole(s, active[s]) \/ s \in OnHub
  /\ \A s \in OnHub : Whole(s, hub[s])

\* Whoever is about to upload a shard that is on the Hub by now would commit
\* files of the same checkpoint.
UploadsOK ==
  \A d \in Drivers :
    pc[d] = "upload" /\ Shard(d) \in OnHub /\ active[Shard(d)] # None =>
      active[Shard(d)].manifest = hub[Shard(d)].manifest

HubInv == DriversKnow /\ CopiesOK /\ UploadsOK /\ ledger \subseteq OnHub

\* Nobody publishes a shard from other inputs than those on the Hub while
\* another allocation is about to upload it.
Calm ==
  \A d, e \in Drivers :
    pc[d] = "upload" /\ pc[e] = "publish" /\ Shard(e) = Shard(d) /\ Shard(d) \in OnHub =>
      loc[e].found = hub[Shard(d)].manifest

\* Only an upload changes the Hub, and it commits the local checkpoint.
LEMMA HubMove ==
  ASSUME NEW d \in Drivers, Start(d) \/ Step(d) \/ Fault(d), hub' # hub
  PROVE  /\ Upload(d) /\ active[Shard(d)] # None
         /\ hub' = [hub EXCEPT ![Shard(d)] = Committed(Shard(d))]
<1> USE DEF work, history
<1>1. ASSUME ~Upload(d) PROVE UNCHANGED hub
  BY <1>1, ZenonT(60)
     DEF Start, Step, Fault, PickShard, InspectRemote, PrepareInbox, CleanInbox, RemoveInbox,
         BeginFetch, EndFetch, FetchFails, DiscoverShard, AcquireLock, ReuseActive, HashSources,
         LoadPartial, CreatePartial, SegmentBatch, InstallBatch, BeginProgress, InstallProgress,
         SyncProgress, ProgressFails, PublishShard, ValidatePublished, DiscardPartial,
         CheckActive, EvictInbox, EvictActive, EvictPartial, RecordVerified, Fail, CallFails, Kill
<1>2. ASSUME Upload(d)
      PROVE  \/ UNCHANGED hub
             \/ /\ active[Shard(d)] # None
                /\ hub' = [hub EXCEPT ![Shard(d)] = Committed(Shard(d))]
  BY <1>2, Zenon DEF Upload
<1> QED
  BY <1>1, <1>2

\* The same of any step, shard by shard.
LEMMA HubStep ==
  ASSUME TypeInv, [Next]_vars
  PROVE  \/ UNCHANGED hub
         \/ \E d \in Drivers, r \in Shards :
              /\ Upload(d) /\ r = Shard(d) /\ pc[d] = "upload" /\ active[r] # None
              /\ UNCHANGED active
              /\ hub'[r] = Committed(r) /\ \A s \in Shards \ {r} : hub'[s] = hub[s]
<1>1. CASE UNCHANGED vars
  BY <1>1 DEF vars
<1>2. ASSUME NEW d \in Drivers, Start(d) \/ Step(d) \/ Fault(d), hub' # hub
      PROVE  \E r \in Shards :
               /\ Upload(d) /\ r = Shard(d) /\ pc[d] = "upload" /\ active[r] # None
               /\ UNCHANGED active
               /\ hub'[r] = Committed(r) /\ \A s \in Shards \ {r} : hub'[s] = hub[s]
  <2>1. /\ Upload(d) /\ active[Shard(d)] # None
        /\ hub' = [hub EXCEPT ![Shard(d)] = Committed(Shard(d))]
    BY <1>2, HubMove
  <2>2. pc[d] = "upload" /\ UNCHANGED active
    BY <2>1 DEF Upload, At, work
  <2>3. Shard(d) \in Shards
    BY <2>2 DEF Shard, TypeInv, DriversOK, Fits
  <2>4. hub \in [Shards -> Checkpoints]
    BY DEF TypeInv, DataOK
  <2> QED
    BY <2>1, <2>2, <2>3, <2>4
<1> QED
  BY <1>1, <1>2 DEF Next

\* A commit is of the local checkpoint, and of what was there before.
LEMMA CommitKeeps ==
  ASSUME TypeInv, NEW s \in Shards, active[s] # None
  PROVE  Committed(s) \in Copies /\ Committed(s).manifest = active[s].manifest
<1>1. active[s] \in Copies
  BY DEF TypeInv, DataOK, Checkpoints
<1>2. CASE hub[s] # None /\ hub[s].manifest = active[s].manifest
  <2>1. hub[s] \in Copies
    BY <1>2 DEF TypeInv, DataOK, Checkpoints
  <2>2. Committed(s) = [active[s] EXCEPT !.batches = @ \cup hub[s].batches]
    BY <1>2 DEF Committed
  <2> QED
    BY <1>1, <2>1, <2>2 DEF Copies
<1>3. CASE ~(hub[s] # None /\ hub[s].manifest = active[s].manifest)
  BY <1>1, <1>3 DEF Committed
<1> QED
  BY <1>2, <1>3

\* Uploading a local checkpoint makes the Hub whole for its shard.
LEMMA CommitWhole ==
  ASSUME TypeInv, HubInv, NEW d \in Drivers, NEW s \in Shards, s = Shard(d),
         pc[d] = "upload", active[s] # None
  PROVE  Committed(s) # None /\ Whole(s, Committed(s))
<1>1. active[s] \in Copies
  BY DEF TypeInv, DataOK, Checkpoints
<1>2. Committed(s) \in Copies /\ Committed(s).manifest = active[s].manifest
  BY CommitKeeps
<1>3. CASE hub[s] # None
  <2>1. hub[s].manifest = active[s].manifest
    BY <1>3 DEF HubInv, UploadsOK, OnHub
  <2>2. hub[s] \in Copies /\ hub[s].batches = 1 .. Total(s, active[s].manifest)
    BY <1>3, <2>1 DEF TypeInv, DataOK, Checkpoints, HubInv, CopiesOK, OnHub, Whole
  <2>3. Committed(s) = [active[s] EXCEPT !.batches = @ \cup hub[s].batches]
    BY <1>3, <2>1 DEF Committed
  <2>4. Committed(s).batches = active[s].batches \cup hub[s].batches
    BY <1>1, <2>3 DEF Copies
  <2>5. active[s].batches \subseteq 1 .. Total(s, active[s].manifest)
    BY DEF HubInv, CopiesOK
  <2>6. Committed(s).batches = 1 .. Total(s, Committed(s).manifest)
    BY <1>2, <2>2, <2>4, <2>5, Zenon
  <2> QED
    BY <1>2, <2>6, NoneAssumption DEF Whole
<1>4. CASE hub[s] = None
  <2>1. Committed(s) = active[s] /\ Whole(s, active[s])
    BY <1>4 DEF Committed, HubInv, CopiesOK, OnHub
  <2> QED
    BY <2>1
<1> QED
  BY <1>3, <1>4

\* The Hub never loses a shard, and stays whole.
LEMMA HubGrows ==
  ASSUME TypeInv, HubInv, [Next]_vars
  PROVE  /\ OnHub \subseteq OnHub'
         /\ \A s \in OnHub' : Whole(s, hub'[s])
<1>1. CASE UNCHANGED hub
  BY <1>1 DEF OnHub, HubInv, CopiesOK, Whole
<1>2. ASSUME NEW d \in Drivers, NEW r \in Shards, r = Shard(d), pc[d] = "upload",
             active[r] # None, hub'[r] = Committed(r),
             \A s \in Shards \ {r} : hub'[s] = hub[s]
      PROVE  OnHub \subseteq OnHub' /\ \A s \in OnHub' : Whole(s, hub'[s])
  <2>1. Committed(r) # None /\ Whole(r, Committed(r))
    BY <1>2, CommitWhole
  <2>2. \A s \in OnHub : Whole(s, hub[s])
    BY DEF HubInv, CopiesOK
  <2>3. OnHub \subseteq OnHub'
    BY <1>2, <2>1 DEF OnHub
  <2>4. ASSUME NEW s \in OnHub' PROVE Whole(s, hub'[s])
    <3>1. CASE s = r
      BY <1>2, <2>1, <3>1
    <3>2. CASE s # r
      BY <1>2, <2>2, <2>4, <3>2 DEF OnHub
    <3> QED
      BY <3>1, <3>2
  <2> QED
    BY <2>3, <2>4
<1> QED
  BY <1>1, <1>2, HubStep

\* One driver moves at a time.
LEMMA OthersStay ==
  ASSUME NEW d \in Drivers, Start(d) \/ Step(d) \/ Fault(d), NEW e \in Drivers \ {d}, DriversOK
  PROVE  pc'[e] = pc[e] /\ loc'[e] = loc[e]
<1> USE DEF Goto, Raise, DriversOK
<1>1. CASE Start(d) \/ PickShard(d) \/ InspectRemote(d) \/ PrepareInbox(d) \/ CleanInbox(d)
  BY <1>1 DEF Start, PickShard, InspectRemote, PrepareInbox, CleanInbox, RemoveInbox
<1>2. ASSUME NEW f \in Files, BeginFetch(d, f) \/ EndFetch(d, f) \/ FetchFails(d, f)
      PROVE  pc'[e] = pc[e] /\ loc'[e] = loc[e]
  BY <1>2 DEF BeginFetch, EndFetch, FetchFails, JoinThreads
<1>3. CASE DiscoverShard(d) \/ AcquireLock(d) \/ ReuseActive(d) \/ HashSources(d)
  BY <1>3 DEF DiscoverShard, AcquireLock, ReuseActive, HashSources
<1>4. CASE LoadPartial(d) \/ CreatePartial(d) \/ SegmentBatch(d) \/ InstallBatch(d)
  BY <1>4 DEF LoadPartial, CreatePartial, SegmentBatch, OpenTemporary, InstallBatch
<1>5. CASE BeginProgress(d) \/ InstallProgress(d) \/ SyncProgress(d) \/ ProgressFails(d)
  BY <1>5 DEF BeginProgress, OpenTemporary, InstallProgress, WithoutLast, SyncProgress,
              ProgressFails
<1>6. CASE PublishShard(d) \/ ValidatePublished(d) \/ DiscardPartial(d) \/ CheckActive(d)
  BY <1>6 DEF PublishShard, ValidatePublished, DiscardPartial, RemovePartial, CheckActive
<1>7. CASE Upload(d)
  BY <1>7 DEF Upload
<1>8. CASE EvictInbox(d) \/ EvictActive(d) \/ EvictPartial(d)
  BY <1>8 DEF EvictInbox, RemoveInbox, EvictActive, EvictPartial, RemovePartial
<1>9. CASE RecordVerified(d) \/ Fail(d) \/ CallFails(d) \/ Kill(d)
  BY <1>9 DEF RecordVerified, Fail, CallFails, Kill
<1> QED
  BY <1>1, <1>2, <1>3, <1>4, <1>5, <1>6, <1>7, <1>8, <1>9 DEF Step, Fault

\* What an allocation knows stays true while the Hub grows ...
LEMMA KnowsMore ==
  ASSUME NEW x, NEW l, NEW have, NEW more, Knows(x, l, have), have \subseteq more
  PROVE  Knows(x, l, more)
BY DEF Knows

\* ... and where it goes next: outside the lock, under the lock with the same
\* inputs, back to the exception handler, or down.
LEMMA KnowsNext ==
  ASSUME NEW x, NEW y, NEW l, NEW have, Knows(x, l, have),
         \/ y \in {"down", "pick", "inspect", "inbox", "clean", "fetch", "discover", "check",
                   "upload", "fail"}
         \/ x \in Locked \cup {"lock"} /\ y \in Locked \ {"publish"}
         \/ x \in Final /\ y \in Final
  PROVE  Knows(y, l, have)
BY DEF Knows, Locked, Final

\* A process that starts knows nothing.
LEMMA KnowsFresh ==
  ASSUME NEW have
  PROVE  Knows("down", FreshLocal, have)
BY DEF Knows, FreshLocal, Locked, Final

\* What a driver that moved knows, action by action.
LEMMA KnowsStep ==
  ASSUME TypeInv, HubInv, NEW d \in Drivers, Start(d) \/ Step(d) \/ Fault(d),
         OnHub \subseteq OnHub'
  PROVE  Knows(pc'[d], loc'[d], OnHub')
<1> USE DEF At, Shard
<1>p. pc \in [Drivers -> Points] /\ loc \in [Drivers -> Locals] /\ Fits(pc[d], loc[d])
  BY DEF TypeInv, DriversOK
<1>k. Knows(pc[d], loc[d], OnHub')
  BY KnowsMore DEF HubInv, DriversKnow
<1>n. ASSUME NEW x, Goto(d, x), UNCHANGED loc,
             \/ x \in {"down", "pick", "inspect", "inbox", "clean", "fetch", "discover", "check",
                       "upload", "fail"}
             \/ pc[d] \in Locked \cup {"lock"} /\ x \in Locked \ {"publish"}
             \/ pc[d] \in Final /\ x \in Final
      PROVE  Knows(pc'[d], loc'[d], OnHub')
  BY <1>p, <1>k, <1>n, KnowsNext DEF Goto
<1>f. ASSUME Goto(d, "down"), loc' = [loc EXCEPT ![d] = FreshLocal]
      PROVE  Knows(pc'[d], loc'[d], OnHub')
  BY <1>f, <1>p, KnowsFresh DEF Goto
<1>u. ASSUME UNCHANGED pc, UNCHANGED loc PROVE Knows(pc'[d], loc'[d], OnHub')
  BY <1>u, <1>k
<1>1. CASE Start(d)
  <2>1. pc'[d] = "pick" /\ loc'[d] = [FreshLocal EXCEPT !.verified = ledger]
    BY <1>1, <1>p DEF Start, Goto
  <2> QED
    BY <2>1 DEF Knows, FreshLocal, Locked, Final, HubInv
<1>2. CASE PickShard(d)
  <2>1. \/ Goto(d, "down") /\ loc' = [loc EXCEPT ![d] = FreshLocal]
        \/ /\ pc'[d] = "inspect"
           /\ loc'[d] = [FreshLocal EXCEPT !.verified = loc[d].verified,
                           !.shard = Min(Shards \ loc[d].verified)]
    BY <1>2, <1>p DEF PickShard, Goto
  <2> QED
    BY <2>1, <1>k, <1>f DEF Knows, FreshLocal, Locked, Final
<1>3. CASE InspectRemote(d)
  <2>1. CASE Goto(d, "evictInbox") /\ hub[Shard(d)] # None
    <3>1. pc'[d] = "evictInbox" /\ loc'[d].shard \in OnHub /\ UNCHANGED loc
      BY <1>3, <2>1, <1>p DEF InspectRemote, OnHub, Goto, Fits
    <3> QED
      BY <3>1, <1>k DEF Knows, Locked
  <2>2. CASE Goto(d, "inbox") \/ Goto(d, "down")
    BY <1>3, <2>2, <1>n DEF InspectRemote
  <2> QED
    BY <1>3, <2>1, <2>2 DEF InspectRemote
<1>4. CASE PrepareInbox(d)
  BY <1>4, <1>n DEF PrepareInbox
<1>5. CASE CleanInbox(d)
  <2>1. /\ loc'[d] = [loc[d] EXCEPT !.todo = Required(Shard(d))]
        /\ pc'[d] \in {"clean", "fetch"}
    BY <1>5, <1>p DEF CleanInbox, RemoveInbox, Goto
  <2> QED
    BY <2>1, <1>k, <1>p DEF Knows, Locked, Final, Locals
<1>6. ASSUME NEW f \in Files, BeginFetch(d, f) PROVE Knows(pc'[d], loc'[d], OnHub')
  <2>1. /\ loc'[d] = [loc[d] EXCEPT !.todo = @ \ {f}, !.busy = @ \cup {f}]
        /\ pc'[d] = "fetch" /\ f \in loc[d].todo
    BY <1>6, <1>p DEF BeginFetch
  <2> QED
    BY <2>1, <1>k, <1>p DEF Knows, Locked, Final, Locals
<1>7. ASSUME NEW f \in Files, EndFetch(d, f) \/ FetchFails(d, f)
      PROVE  Knows(pc'[d], loc'[d], OnHub')
  <2>1. pc[d] = "fetch" /\ \E b \in BOOLEAN : JoinThreads(d, f, b)
    BY <1>7, <1>p DEF EndFetch, FetchFails, Locals
  <2>2. PICK b \in BOOLEAN : JoinThreads(d, f, b)
    BY <2>1
  <2>3. \/ pc'[d] = "fetch" /\ loc'[d] = [loc[d] EXCEPT !.busy = @ \ {f}, !.failed = b]
        \/ Goto(d, "down") /\ loc' = [loc EXCEPT ![d] = FreshLocal]
        \/ pc'[d] = "discover" /\ loc'[d] = [loc[d] EXCEPT !.busy = {}]
    BY <2>1, <2>2, <1>p DEF JoinThreads, Goto
  <2> QED
    BY <2>3, <1>k, <1>p, <1>f DEF Knows, Locked, Final, Locals
<1>8. CASE DiscoverShard(d)
  <2>1. CASE Discoverable(inbox[Shard(d)])
    <3>1. pc'[d] = "lock" /\ loc'[d] = [loc[d] EXCEPT !.found = inbox[Shard(d)]]
      BY <1>8, <2>1, <1>p DEF DiscoverShard, Goto
    <3>2. inbox[Shard(d)] # {}
      BY <2>1 DEF Discoverable
    <3> QED
      BY <3>1, <3>2, <1>k, <1>p DEF Knows, Final, Locals
  <2>2. CASE ~Discoverable(inbox[Shard(d)])
    BY <1>8, <2>2, <1>n DEF DiscoverShard, Raise
  <2> QED
    BY <2>1, <2>2
<1>9. CASE AcquireLock(d) \/ ReuseActive(d) \/ HashSources(d)
  BY <1>9, <1>n DEF AcquireLock, ReuseActive, HashSources, Raise, Locked
<1>10. CASE LoadPartial(d)
  <2>1. \/ UNCHANGED loc /\ (Goto(d, "create") \/ Goto(d, "fail"))
        \/ /\ pc'[d] = "segment"
           /\ loc'[d] = [loc[d] EXCEPT !.n = partial[Shard(d)].progress.n]
    BY <1>10, <1>p DEF LoadPartial, Raise, Goto
  <2>2. CASE UNCHANGED loc /\ (Goto(d, "create") \/ Goto(d, "fail"))
    <3>1. "create" \in Locked \ {"publish"} /\ pc[d] \in Locked
      BY <1>10 DEF LoadPartial, Locked
    <3> QED
      BY <2>2, <3>1, <1>n
  <2>3. CASE /\ pc'[d] = "segment"
             /\ loc'[d] = [loc[d] EXCEPT !.n = partial[Shard(d)].progress.n]
    BY <1>10, <2>3, <1>k, <1>p DEF LoadPartial, Knows, Locked, Final, Locals
  <2> QED
    BY <2>1, <2>2, <2>3
<1>11. CASE CreatePartial(d) \/ BeginProgress(d) \/ SyncProgress(d) \/ ValidatePublished(d)
            \/ PublishShard(d)
  BY <1>11, <1>n DEF CreatePartial, BeginProgress, OpenTemporary, SyncProgress,
                     ValidatePublished, PublishShard, Raise, Locked
<1>12. CASE SegmentBatch(d)
  <2>1. CASE Segmented(d) /\ Goto(d, "publish")
    BY <1>12, <2>1, <1>k, <1>p DEF SegmentBatch, Segmented, Knows, Goto, Locked, Final
  <2>2. CASE Goto(d, "batch") \/ Goto(d, "fail")
    BY <1>12, <2>2, <1>n DEF SegmentBatch, Locked
  <2>3. \/ Segmented(d) /\ Goto(d, "publish")
        \/ Goto(d, "batch")
        \/ Goto(d, "fail")
    BY <1>12, Zenon DEF SegmentBatch, OpenTemporary, Raise
  <2> QED
    BY <2>1, <2>2, <2>3
<1>13. CASE InstallBatch(d)
  <2>1. \/ UNCHANGED loc /\ Goto(d, "fail")
        \/ pc'[d] = "advance" /\ loc'[d] = [loc[d] EXCEPT !.n = @ + 1]
    BY <1>13, <1>p DEF InstallBatch, Raise, Goto
  <2> QED
    BY <1>13, <2>1, <1>n, <1>k, <1>p DEF InstallBatch, Knows, Locked, Final, Locals
<1>14. CASE InstallProgress(d) \/ ProgressFails(d)
  BY <1>14, <1>n DEF InstallProgress, ProgressFails, WithoutLast, Raise, Locked
<1>15. CASE DiscardPartial(d)
  BY <1>15, <1>n, <1>u DEF DiscardPartial, RemovePartial
<1>16. CASE CheckActive(d) \/ Upload(d)
  <2>1. CASE Goto(d, "evictInbox") /\ Whole(Shard(d), hub'[Shard(d)]) /\ UNCHANGED loc
    <3>1. Shard(d) \in Shards /\ hub'[Shard(d)] # None
      BY <1>16, <2>1, <1>p DEF CheckActive, Upload, Fits, Whole
    <3>2. Shard(d) \in OnHub'
      BY <3>1 DEF OnHub
    <3> QED
      BY <2>1, <3>2, <1>k, <1>p DEF Knows, Goto, Locked
  <2>2. CASE (Goto(d, "upload") \/ Goto(d, "fail")) /\ UNCHANGED loc
    BY <2>2, <1>n
  <2> QED
    BY <1>16, <2>1, <2>2 DEF CheckActive, Upload, Raise
<1>17. CASE EvictInbox(d) \/ EvictActive(d) \/ EvictPartial(d)
  BY <1>17, <1>n, <1>u
     DEF EvictInbox, RemoveInbox, EvictActive, EvictPartial, RemovePartial, Final
<1>18. CASE RecordVerified(d)
  <2>1. /\ pc'[d] = "pick"
        /\ loc'[d] = [loc[d] EXCEPT !.verified = loc[d].verified \cup {loc[d].shard}]
        /\ pc[d] \in Final
    BY <1>18, <1>p DEF RecordVerified, Goto, Final
  <2> QED
    BY <2>1, <1>k, <1>p DEF Knows, Locked, Final, Locals
<1>19. CASE Fail(d) \/ Kill(d)
  BY <1>19, <1>f DEF Fail, Kill
<1>20. CASE CallFails(d)
  BY <1>20, <1>n DEF CallFails, Raise
<1> QED
  BY <1>1, <1>2, <1>3, <1>4, <1>5, <1>6, <1>7, <1>8, <1>9, <1>10, <1>11, <1>12, <1>13, <1>14,
     <1>15, <1>16, <1>17, <1>18, <1>19, <1>20 DEF Step, Fault

\* Every step keeps what every allocation knows.
LEMMA DriversKnowStep ==
  ASSUME TypeInv, HubInv, [Next]_vars
  PROVE  DriversKnow'
<1>h. OnHub \subseteq OnHub'
  BY HubGrows
<1>1. CASE UNCHANGED vars
  BY <1>1 DEF vars, HubInv, DriversKnow, OnHub
<1>2. ASSUME NEW d \in Drivers, Start(d) \/ Step(d) \/ Fault(d), NEW e \in Drivers
      PROVE  Knows(pc'[e], loc'[e], OnHub')
  <2>1. CASE e = d
    BY <1>2, <1>h, <2>1, KnowsStep
  <2>2. CASE e # d
    <3>1. pc'[e] = pc[e] /\ loc'[e] = loc[e]
      BY <1>2, <2>2, OthersStay DEF TypeInv
    <3> QED
      BY <1>h, <3>1, KnowsMore DEF HubInv, DriversKnow
  <2> QED
    BY <2>1, <2>2
<1> QED
  BY <1>1, <1>2 DEF Next, DriversKnow

\* What a step can do with the local checkpoint of a shard: publish it whole,
\* or take it away when it is not whole or the Hub has the shard.
LEMMA ActiveStep ==
  ASSUME TypeInv, HubInv, [Next]_vars, NEW s \in Shards, active'[s] # active[s]
  PROVE  \/ /\ active[s] = None /\ active'[s] # None /\ Whole(s, active'[s])
            /\ \E d \in Drivers :
                 pc[d] = "publish" /\ Shard(d) = s /\ active'[s].manifest = loc[d].found
         \/ ~Whole(s, active[s]) /\ active'[s] = None
         \/ s \in OnHub /\ active'[s] = None
         \/ /\ s \in OnHub /\ active[s] # None
            /\ active'[s].manifest = active[s].manifest /\ active'[s].batches = {}
<1> USE DEF At, Shard, work, history
<1>0. active \in [Shards -> Checkpoints]
  BY DEF TypeInv, DataOK
<1>1. PICK d \in Drivers : ReuseActive(d) \/ PublishShard(d) \/ EvictActive(d)
  BY ZenonT(60)
     DEF vars, Next, Start, Step, Fault, PickShard, InspectRemote, PrepareInbox, CleanInbox,
         RemoveInbox, BeginFetch, EndFetch, FetchFails, DiscoverShard, AcquireLock,
         HashSources, LoadPartial, CreatePartial, SegmentBatch, InstallBatch, BeginProgress,
         InstallProgress, SyncProgress, ProgressFails, ValidatePublished, DiscardPartial,
         CheckActive, Upload, EvictInbox, EvictPartial, RecordVerified, Fail, CallFails, Kill
<1>2. CASE ReuseActive(d)
  BY <1>0, <1>2 DEF ReuseActive
<1>3. CASE PublishShard(d)
  <2> DEFINE c == Checkpoint(loc[d].found, 1 .. loc[d].n)
  <2>1. /\ s = loc[d].shard /\ pc[d] = "publish"
        /\ active[s] = None /\ active'[s] = c
    BY <1>0, <1>3 DEF PublishShard
  <2>2. loc[d].n = Total(s, loc[d].found) /\ loc[d].found \in SUBSET Files
    BY <2>1 DEF HubInv, DriversKnow, Knows, TypeInv, DriversOK, Locals
  <2>3. Total(s, loc[d].found) \in Nat
    BY <2>2, TotalType
  <2>4. /\ c \in Copies /\ c.manifest = loc[d].found
        /\ c.batches = 1 .. Total(s, loc[d].found)
    BY <2>2, <2>3 DEF Checkpoint, Copies
  <2>5. c # None /\ Whole(s, c)
    BY <2>4, NoneAssumption DEF Whole
  <2> QED
    BY <2>1, <2>4, <2>5
<1>4. CASE EvictActive(d)
  <2>1. s = Shard(d) /\ s \in OnHub
    BY <1>0, <1>4 DEF EvictActive, HubInv, DriversKnow, Knows, Final
  <2>2. CASE active' = [active EXCEPT ![s] = None]
    BY <1>0, <2>1, <2>2
  <2>3. CASE Whole(s, active[s]) /\ active' = [active EXCEPT ![s].batches = {}]
    <3>1. active[s] \in Copies /\ active[s] # None
      BY <1>0, <2>3 DEF Whole, Checkpoints
    <3> QED
      BY <1>0, <2>1, <2>3, <3>1 DEF Copies
  <2> QED
    BY <1>4, <2>1, <2>2, <2>3 DEF EvictActive
<1> QED
  BY <1>1, <1>2, <1>3, <1>4

\* Every step keeps the copies whole, or half removed and on the Hub.
LEMMA CopiesStep ==
  ASSUME TypeInv, HubInv, [Next]_vars
  PROVE  CopiesOK'
<1>1. OnHub \subseteq OnHub' /\ \A s \in OnHub' : Whole(s, hub'[s])
  BY HubGrows
<1>2. ASSUME NEW s \in Shards, active'[s] # None
      PROVE  /\ active'[s].batches \subseteq 1 .. Total(s, active'[s].manifest)
             /\ Whole(s, active'[s]) \/ s \in OnHub'
  <2>1. CASE active'[s] = active[s]
    BY <1>1, <1>2, <2>1 DEF HubInv, CopiesOK
  <2>2. CASE Whole(s, active'[s])
    BY <2>2 DEF Whole
  <2>3. CASE s \in OnHub /\ active'[s].batches = {}
    BY <1>1, <2>3
  <2> QED
    BY <1>2, <2>1, <2>2, <2>3, ActiveStep
<1> QED
  BY <1>1, <1>2 DEF CopiesOK, Whole

\* An allocation goes on to the upload of a shard that the Hub does not have.
LEMMA EnterUpload ==
  ASSUME TypeInv, NEW d \in Drivers, Start(d) \/ Step(d) \/ Fault(d), pc'[d] = "upload"
  PROVE  hub[Shard(d)] = None /\ UNCHANGED <<hub, loc>>
<1> USE DEF At, Goto, Raise
<1>p. pc \in [Drivers -> Points]
  BY DEF TypeInv, DriversOK
<1>1. CASE Start(d) \/ PickShard(d) \/ InspectRemote(d) \/ PrepareInbox(d) \/ CleanInbox(d)
           \/ DiscoverShard(d) \/ AcquireLock(d) \/ ReuseActive(d) \/ HashSources(d)
  BY <1>p, <1>1 DEF Start, PickShard, InspectRemote, PrepareInbox, CleanInbox, RemoveInbox,
                    DiscoverShard, AcquireLock, ReuseActive, HashSources
<1>2. ASSUME NEW f \in Files, BeginFetch(d, f) \/ EndFetch(d, f) \/ FetchFails(d, f)
      PROVE  pc'[d] # "upload"
  BY <1>p, <1>2 DEF BeginFetch, EndFetch, FetchFails, JoinThreads
<1>3. CASE LoadPartial(d) \/ CreatePartial(d) \/ SegmentBatch(d) \/ InstallBatch(d)
           \/ BeginProgress(d) \/ InstallProgress(d) \/ SyncProgress(d) \/ ProgressFails(d)
  BY <1>p, <1>3 DEF LoadPartial, CreatePartial, SegmentBatch, OpenTemporary, InstallBatch,
                    BeginProgress, InstallProgress, WithoutLast, SyncProgress, ProgressFails
<1>4. CASE PublishShard(d) \/ ValidatePublished(d) \/ DiscardPartial(d) \/ Upload(d)
           \/ RecordVerified(d) \/ Fail(d) \/ CallFails(d) \/ Kill(d)
  BY <1>p, <1>4 DEF PublishShard, ValidatePublished, DiscardPartial, RemovePartial, Upload,
                    RecordVerified, Fail, CallFails, Kill
<1>5. CASE EvictInbox(d) \/ EvictActive(d) \/ EvictPartial(d)
  BY <1>p, <1>5 DEF EvictInbox, RemoveInbox, EvictActive, EvictPartial, RemovePartial
<1>6. CASE CheckActive(d)
  BY <1>p, <1>6 DEF CheckActive
<1> QED
  BY <1>1, <1>2, <1>3, <1>4, <1>5, <1>6 DEF Step, Fault

\* Every step keeps the uploads to come harmless.
LEMMA UploadsStep ==
  ASSUME TypeInv, HubInv, Calm, [Next]_vars
  PROVE  UploadsOK'
<1>1. CASE UNCHANGED vars
  BY <1>1 DEF vars, work, HubInv, UploadsOK, OnHub, Shard
<1>2. ASSUME NEW d \in Drivers, Start(d) \/ Step(d) \/ Fault(d),
             NEW e \in Drivers, pc'[e] = "upload",
             NEW s \in Shards, s = loc'[e].shard, hub'[s] # None, active'[s] # None
      PROVE  active'[s].manifest = hub'[s].manifest
  <2>n. [Next]_vars
    OBVIOUS
  <2>1. e # d
    BY <1>2, EnterUpload DEF Shard
  <2>2. pc[e] = "upload" /\ Shard(e) = s
    BY <1>2, <2>1, OthersStay DEF TypeInv, Shard
  <2>3. CASE hub'[s] = hub[s]
    <3>1. s \in OnHub
      BY <1>2, <2>3 DEF OnHub
    <3>2. active[s] # None => active[s].manifest = hub[s].manifest
      BY <2>2, <3>1 DEF HubInv, UploadsOK
    <3>3. CASE active'[s] = active[s]
      BY <1>2, <2>3, <3>2, <3>3
    <3>4. ASSUME NEW f \in Drivers, pc[f] = "publish", Shard(f) = s,
                 active'[s].manifest = loc[f].found
          PROVE  active'[s].manifest = hub'[s].manifest
      BY <2>2, <2>3, <3>1, <3>4 DEF Calm
    <3>5. CASE active[s] # None /\ active'[s].manifest = active[s].manifest
      BY <2>3, <3>2, <3>5
    <3> QED
      BY <1>2, <3>3, <3>4, <3>5, ActiveStep
  <2>4. CASE hub'[s] # hub[s]
    <3>1. active[s] # None /\ active'[s] = active[s] /\ hub'[s] = Committed(s)
      BY <1>2, <2>4, HubStep
    <3> QED
      BY <3>1, CommitKeeps
  <2> QED
    BY <2>3, <2>4
<1>3. \A e \in Drivers : pc[e] = "upload" => loc[e].shard \in Shards
  BY DEF TypeInv, DriversOK, Fits
<1> QED
  <2>1. ASSUME NEW d \in Drivers, Start(d) \/ Step(d) \/ Fault(d) PROVE UploadsOK'
    BY <1>2, <2>1 DEF UploadsOK, OnHub, Shard
  <2> QED
    BY <1>1, <2>1 DEF Next

\* state.json is written from what one allocation knows.
LEMMA LedgerStep ==
  ASSUME TypeInv, HubInv, [Next]_vars
  PROVE  ledger' \subseteq OnHub'
<1> USE DEF At, Shard, work, history
<1>1. OnHub \subseteq OnHub'
  BY HubGrows
<1>2. CASE UNCHANGED ledger
  BY <1>1, <1>2 DEF HubInv
<1>3. CASE ~UNCHANGED ledger
  <2>1. PICK d \in Drivers : RecordVerified(d) \/ Fail(d)
    BY <1>3, ZenonT(60)
       DEF vars, Next, Start, Step, Fault, PickShard, InspectRemote, PrepareInbox, CleanInbox,
           RemoveInbox, BeginFetch, EndFetch, FetchFails, DiscoverShard, AcquireLock,
           ReuseActive, HashSources, LoadPartial, CreatePartial, SegmentBatch, InstallBatch,
           BeginProgress, InstallProgress, SyncProgress, ProgressFails, PublishShard,
           ValidatePublished, DiscardPartial, CheckActive, Upload, EvictInbox, EvictActive,
           EvictPartial, CallFails, Kill
  <2>2. Knows(pc[d], loc[d], OnHub)
    BY DEF HubInv, DriversKnow
  <2> QED
    BY <1>1, <2>1, <2>2 DEF RecordVerified, Fail, Knows, Final
<1> QED
  BY <1>2, <1>3

\* The invariant holds in the initial states ...
LEMMA HubInit == Init => HubInv
BY KnowsFresh DEF Init, HubInv, DriversKnow, CopiesOK, UploadsOK, OnHub

\* ... and every step keeps it.
LEMMA HubNext == TypeInv /\ HubInv /\ Calm /\ [Next]_vars => HubInv'
BY DriversKnowStep, CopiesStep, UploadsStep, LedgerStep DEF HubInv

\* It implies the safety invariant of the runs.
LEMMA HubImplied == TypeInv /\ HubInv => LedgerOnHub
BY DEF HubInv, CopiesOK, LedgerOnHub, OnHub

\* A valid local checkpoint is taken away when the Hub has the shard.
LEMMA EvictionStep ==
  ASSUME TypeInv, HubInv, [Next]_vars, NEW s \in Shards,
         Whole(s, active[s]), ~Whole(s, active'[s])
  PROVE  Whole(s, hub[s])
<1>1. active'[s] # active[s] /\ active[s] # None
  BY DEF Whole
<1>2. s \in OnHub
  BY <1>1, ActiveStep
<1> QED
  BY <1>2 DEF HubInv, CopiesOK

-----------------------------------------------------------------------------
(* Batches that progress.json counts.                                      *)

\* Segmenting, from the moment progress.json was read or is first written.
Segmenting == {"segment", "batch", "advance", "install", "sync"}
Resuming == Segmenting \cup {"load", "create"}

\* Only the holder of the lock is inside process_single_shard, it has counted
\* every batch that progress.json counts, and it discards the partial
\* directory of a shard that exists as a whole.
HolderInv == \A d \in Drivers : pc[d] \in Locked => lock = d
CountInv ==
  \A d \in Drivers : pc[d] \in Segmenting => Counted(partial[loc[d].shard]) <= loc[d].n
DiscardInv ==
  \A d \in Drivers : pc[d] = "discard" => Finished(loc[d].shard)

\* Whoever enters process_single_shard takes the lock, and keeps it inside.
LEMMA EnterStep ==
  ASSUME TypeInv, NEW d \in Drivers, Start(d) \/ Step(d) \/ Fault(d), pc'[d] \in Locked
  PROVE  \/ pc[d] \in Locked /\ UNCHANGED lock
         \/ lock' = d
<1> USE DEF At, Goto, Raise
<1>p. pc \in [Drivers -> Points]
  BY DEF TypeInv, DriversOK
<1>1. CASE Start(d) \/ PickShard(d) \/ InspectRemote(d) \/ PrepareInbox(d) \/ CleanInbox(d)
           \/ DiscoverShard(d)
  BY <1>1, <1>p DEF Start, PickShard, InspectRemote, PrepareInbox, CleanInbox, RemoveInbox,
                    DiscoverShard, Locked
<1>2. ASSUME NEW f \in Files, BeginFetch(d, f) \/ EndFetch(d, f) \/ FetchFails(d, f)
      PROVE  pc'[d] \notin Locked
  BY <1>2, <1>p DEF BeginFetch, EndFetch, FetchFails, JoinThreads, Locked
<1>3. CASE AcquireLock(d)
  BY <1>3, <1>p DEF AcquireLock, Locked
<1>4. CASE ReuseActive(d) \/ HashSources(d) \/ LoadPartial(d) \/ CreatePartial(d)
  BY <1>4, <1>p DEF ReuseActive, HashSources, LoadPartial, CreatePartial, Locked
<1>5. CASE SegmentBatch(d) \/ InstallBatch(d) \/ BeginProgress(d)
  BY <1>5, <1>p DEF SegmentBatch, InstallBatch, BeginProgress, Locked
<1>6. CASE InstallProgress(d) \/ SyncProgress(d) \/ ProgressFails(d)
  BY <1>6, <1>p DEF InstallProgress, WithoutLast, SyncProgress, ProgressFails, Locked
<1>7. CASE PublishShard(d) \/ ValidatePublished(d)
  BY <1>7, <1>p DEF PublishShard, ValidatePublished, Locked
<1>8. CASE DiscardPartial(d)
  BY <1>8, <1>p DEF DiscardPartial, RemovePartial, Locked
<1>9. CASE CheckActive(d) \/ Upload(d) \/ RecordVerified(d) \/ Fail(d) \/ CallFails(d) \/ Kill(d)
  BY <1>9, <1>p DEF CheckActive, Upload, RecordVerified, Fail, CallFails, Kill, Locked
<1>10. CASE EvictInbox(d) \/ EvictActive(d) \/ EvictPartial(d)
  BY <1>10, <1>p DEF EvictInbox, RemoveInbox, EvictActive, EvictPartial, RemovePartial, Locked
<1> QED
  BY <1>1, <1>2, <1>3, <1>4, <1>5, <1>6, <1>7, <1>8, <1>9, <1>10 DEF Step, Fault

\* The lock keeps its holder.
LEMMA HolderStep ==
  ASSUME TypeInv, HolderInv, [Next]_vars
  PROVE  HolderInv'
<1>1. CASE UNCHANGED vars
  BY <1>1 DEF vars, HolderInv
<1>2. ASSUME NEW d \in Drivers, Start(d) \/ Step(d) \/ Fault(d),
             NEW e \in Drivers, pc'[e] \in Locked
      PROVE  lock' = e
  <2>1. CASE e = d
    BY <1>2, <2>1, EnterStep DEF HolderInv
  <2>2. CASE e # d
    <3>1. pc[e] \in Locked /\ lock = e
      BY <1>2, <2>2, OthersStay DEF TypeInv, HolderInv
    <3>2. Unlocks(d) /\ (pc[d] \in {"reuse", "discard"} => lock = d) /\ e # NoDriver
      BY <1>2, LockStep, DriversAssumption DEF HolderInv, Locked
    <3> QED
      BY <2>2, <3>1, <3>2 DEF Unlocks
  <2> QED
    BY <2>1, <2>2
<1> QED
  BY <1>1, <1>2 DEF Next, HolderInv

\* What a step of d can do with the count of a shard: keep it, count the
\* batches it has, or, removing the directory, forget it.
Counting(d, s) ==
  \/ Counted(partial'[s]) = Counted(partial[s])
  \/ /\ s = loc[d].shard /\ pc[d] = "install" /\ pc'[d] = "sync" /\ UNCHANGED loc
     /\ Counted(partial'[s]) = loc[d].n
  \/ /\ s = loc[d].shard /\ pc[d] \in {"discard", "evictPartial"}
     /\ Counted(partial'[s]) <= Counted(partial[s])

\* The directory of the shard is replaced by one with the same progress.
LEMMA SameCount ==
  ASSUME TypeInv, NEW s \in Shards, NEW r \in Shards, NEW dir, dir \in Records,
         partial' = [partial EXCEPT ![r] = dir], dir.progress = Dir(r).progress
  PROVE  Counted(partial'[s]) = Counted(partial[s])
<1>1. partial \in [Shards -> Partials] /\ dir # None
  BY NoneAssumption DEF TypeInv, PartialOK
<1>2. CASE s = r
  BY <1>1, <1>2 DEF Counted, Dir, EmptyDir
<1>3. CASE s # r
  BY <1>1, <1>3
<1> QED
  BY <1>2, <1>3

\* Every step treats the counts in one of these ways.
LEMMA CountStep ==
  ASSUME TypeInv, NEW d \in Drivers, Start(d) \/ Step(d) \/ Fault(d), NEW s \in Shards
  PROVE  Counting(d, s)
<1> USE DEF At, Shard, work
<1>1. CASE UNCHANGED partial
  BY <1>1 DEF Counting
<1>2. SUFFICES ASSUME partial' # partial,
                      \/ LoadPartial(d) \/ CreatePartial(d) \/ SegmentBatch(d)
                      \/ InstallBatch(d) \/ BeginProgress(d) \/ InstallProgress(d)
                      \/ ProgressFails(d) \/ DiscardPartial(d) \/ EvictPartial(d)
                      \/ CallFails(d)
               PROVE  Counting(d, s)
  BY <1>1
     DEF Step, Fault, Start, PickShard, InspectRemote, PrepareInbox, CleanInbox,
         RemoveInbox, BeginFetch, EndFetch, FetchFails, DiscoverShard, AcquireLock,
         ReuseActive, HashSources, SyncProgress, PublishShard, ValidatePublished, CheckActive,
         Upload, EvictInbox, EvictActive, RecordVerified, Fail, Kill
<1>p. pc[d] \notin {"down", "pick"} /\ pc \in [Drivers -> Points]
  BY <1>2, PointNames
     DEF LoadPartial, CreatePartial, SegmentBatch, InstallBatch, BeginProgress,
         InstallProgress, ProgressFails, DiscardPartial, EvictPartial, RemovePartial, CallFails,
         TypeInv, DriversOK
<1> DEFINE r == Shard(d)
           dir == Dir(r)
<1>3. r \in Shards /\ dir \in Records /\ (partial[r] # None => dir = partial[r])
  <2>1. r \in Shards
    BY <1>p DEF TypeInv, DriversOK, Fits
  <2> QED
    BY <2>1, SoundDir DEF Dir, TypeInv, Sound
<1>4. partial \in [Shards -> Partials]
  BY DEF TypeInv, PartialOK
<1>5. ASSUME NEW new \in Records, new.progress = dir.progress,
             partial' = [partial EXCEPT ![r] = new]
      PROVE  Counting(d, s)
  BY <1>3, <1>5, SameCount DEF Counting
<1>6. [dir EXCEPT !.tmp = TRUE] \in Records /\ [dir EXCEPT !.tmp = FALSE] \in Records
      /\ [dir EXCEPT !.tmp = TRUE].progress = dir.progress
      /\ [dir EXCEPT !.tmp = FALSE].progress = dir.progress
  BY <1>3 DEF Records
<1>7. ASSUME NEW fs \in SUBSET Nat
      PROVE  /\ [dir EXCEPT !.tmp = FALSE, !.files = fs] \in Records
             /\ [dir EXCEPT !.tmp = FALSE, !.files = fs].progress = dir.progress
  BY <1>3 DEF Records
<1>n. /\ dir.files \in SUBSET Nat /\ loc[d].n \in Nat
      /\ pc[d] = "batch" => loc[d].n + 1 \in Nat \ {0}
  BY <1>3, TotalType DEF Records, TypeInv, DriversOK, Fits, Locals
<1> HIDE DEF r, dir
<1>8. CASE LoadPartial(d)
  <2>1. CASE partial' = [partial EXCEPT ![r].files = 1 .. dir.progress.n, ![r].tmp = FALSE]
             /\ Loadable(dir, loc[d].found) /\ partial[r] # None
    <3>1. dir.progress # None /\ dir.progress.n \in Nat
      BY <1>3, <2>1 DEF Loadable, Identified, Records, Counts
    <3>2. 1 .. dir.progress.n \in SUBSET Nat
      BY <3>1
    <3>3. partial' = [partial EXCEPT ![r] = [dir EXCEPT !.tmp = FALSE,
                                                        !.files = 1 .. dir.progress.n]]
      BY <1>3, <1>4, <2>1
    <3> QED
      BY <1>5, <1>7, <3>2, <3>3
  <2>2. CASE partial' = [partial EXCEPT ![r] = [dir EXCEPT !.tmp = FALSE]]
    BY <1>5, <1>6, <2>2
  <2> QED
    BY <1>2, <1>3, <1>4, <1>8, <2>1, <2>2 DEF LoadPartial, r
<1>9. CASE CreatePartial(d)
  <2>1. EmptyDir \in Records /\ partial[r] = None /\ partial' = [partial EXCEPT ![r] = EmptyDir]
    BY <1>2, <1>9 DEF CreatePartial, EmptyDir, Records, r
  <2> QED
    BY <1>5, <2>1 DEF dir, Dir
<1>10. CASE SegmentBatch(d) \/ BeginProgress(d)
  <2>1. partial' = [partial EXCEPT ![r] = [dir EXCEPT !.tmp = TRUE]]
    BY <1>2, <1>10 DEF SegmentBatch, BeginProgress, OpenTemporary, r, dir
  <2> QED
    BY <1>5, <1>6, <2>1
<1>11. CASE InstallBatch(d)
  <2>1. /\ dir.tmp /\ pc[d] = "batch"
        /\ partial' = [partial EXCEPT ![r].tmp = FALSE, ![r].files = @ \cup {loc[d].n + 1}]
    BY <1>2, <1>11 DEF InstallBatch, r, dir
  <2>2. partial[r] # None
    BY <2>1 DEF dir, Dir, EmptyDir
  <2>3. partial' = [partial EXCEPT ![r] = [dir EXCEPT !.tmp = FALSE,
                                                      !.files = dir.files \cup {loc[d].n + 1}]]
    BY <1>3, <1>4, <2>1, <2>2
  <2>4. dir.files \cup {loc[d].n + 1} \in SUBSET Nat
    BY <1>n, <2>1
  <2> QED
    BY <1>5, <1>7, <2>3, <2>4
<1>12. ASSUME WithoutLast(d) PROVE Counting(d, s)
  <2>1. partial' = [partial EXCEPT ![r] = [dir EXCEPT !.tmp = FALSE,
                                                      !.files = dir.files \ {loc[d].n}]]
    BY <1>2, <1>3, <1>4, <1>12 DEF WithoutLast, r
  <2>2. dir.files \ {loc[d].n} \in SUBSET Nat
    BY <1>n
  <2> QED
    BY <1>5, <1>7, <2>1, <2>2
<1>13. CASE InstallProgress(d)
  <2> DEFINE count == Progress(loc[d].found, loc[d].n)
  <2>1. CASE /\ dir.tmp /\ Goto(d, "sync")
             /\ partial' = [partial EXCEPT ![r].tmp = FALSE, ![r].progress = count]
    <3>1. partial[r] # None
      BY <2>1 DEF dir, Dir, EmptyDir
    <3>2. partial' = [partial EXCEPT ![r] = [dir EXCEPT !.tmp = FALSE, !.progress = count]]
      BY <1>3, <1>4, <2>1, <3>1
    <3>3. count \in Counts /\ count.n = loc[d].n
      BY <1>n DEF Progress, Counts, TypeInv, DriversOK, Locals
    <3> HIDE DEF count
    <3>4. /\ [dir EXCEPT !.tmp = FALSE, !.progress = count] \in Records
          /\ [dir EXCEPT !.tmp = FALSE, !.progress = count].progress = count
      BY <1>3, <3>3 DEF Records
    <3>5. count # None /\ [dir EXCEPT !.tmp = FALSE, !.progress = count] # None
      BY <3>3, <3>4, NoneAssumption
    <3>6. CASE s = r
      <4>1. Counted(partial'[s]) = loc[d].n
        BY <1>4, <3>2, <3>3, <3>4, <3>5, <3>6 DEF Counted
      <4> QED
        BY <1>13, <1>p, <2>1, <3>6, <4>1 DEF Counting, InstallProgress, Goto, r
    <3>7. CASE s # r
      BY <1>4, <3>2, <3>7 DEF Counting
    <3> QED
      BY <3>6, <3>7
  <2> QED
    BY <1>12, <1>13, <2>1 DEF InstallProgress, r, dir
<1>14. CASE ProgressFails(d)
  BY <1>12, <1>14 DEF ProgressFails
<1>15. CASE DiscardPartial(d) \/ EvictPartial(d)
  <2>1. PICK rest \in Shrunk(dir) : partial' = [partial EXCEPT ![r] = rest]
    BY <1>15 DEF DiscardPartial, EvictPartial, RemovePartial, r, dir
  <2>2. rest = None \/ rest.progress \in {dir.progress, None}
    BY <2>1 DEF Shrunk
  <2>3. Counted(dir) = Counted(partial[r]) /\ dir # None
    BY <1>3, NoneAssumption DEF dir, Dir, EmptyDir, Counted
  <2>4. Counted(dir) \in Nat /\ Counted(rest) <= Counted(dir)
    BY <1>3, <2>2, <2>3, TotalType DEF Counted, Records, Counts
  <2>5. CASE s = r
    BY <1>4, <1>15, <2>1, <2>3, <2>4, <2>5
       DEF Counting, DiscardPartial, EvictPartial, RemovePartial, r
  <2>6. CASE s # r
    BY <1>4, <2>1, <2>6 DEF Counting
  <2> QED
    BY <2>5, <2>6
<1>16. CASE CallFails(d)
  <2>1. partial' = [partial EXCEPT ![r] = [dir EXCEPT !.tmp = FALSE]]
    BY <1>2, <1>3, <1>4, <1>16 DEF CallFails, r
  <2> QED
    BY <1>5, <1>6, <2>1
<1> QED
  BY <1>2, <1>8, <1>9, <1>10, <1>11, <1>13, <1>14, <1>15, <1>16

\* A driver that segments has loaded what is counted, or starts at nothing.
LEMMA SegmentStep ==
  ASSUME TypeInv, NEW d \in Drivers, Start(d) \/ Step(d) \/ Fault(d), pc'[d] \in Segmenting
  PROVE  /\ loc'[d].shard = loc[d].shard /\ loc[d].shard \in Shards
         /\ \/ pc[d] \in Segmenting /\ loc'[d].n >= loc[d].n
            \/ loc'[d].n >= Counted(partial[loc[d].shard])
         /\ pc[d] \in Resuming
<1> USE DEF At, Goto, Raise, Segmenting, Resuming, Shard
<1>p. pc \in [Drivers -> Points] /\ loc \in [Drivers -> Locals] /\ Fits(pc[d], loc[d])
  BY DEF TypeInv, DriversOK
<1>n. loc[d].n \in Nat
  BY <1>p, TotalType DEF Locals
<1>1. \/ LoadPartial(d) \/ CreatePartial(d) \/ SegmentBatch(d) \/ InstallBatch(d)
      \/ BeginProgress(d) \/ InstallProgress(d) \/ SyncProgress(d)
  <2>1. CASE Start(d) \/ PickShard(d) \/ InspectRemote(d) \/ PrepareInbox(d) \/ CleanInbox(d)
             \/ DiscoverShard(d) \/ AcquireLock(d) \/ ReuseActive(d) \/ HashSources(d)
    BY <1>p, <2>1 DEF Start, PickShard, InspectRemote, PrepareInbox, CleanInbox, RemoveInbox,
                      DiscoverShard, AcquireLock, ReuseActive, HashSources
  <2>2. ASSUME NEW f \in Files, BeginFetch(d, f) \/ EndFetch(d, f) \/ FetchFails(d, f)
        PROVE  pc'[d] \notin Segmenting
    BY <1>p, <2>2 DEF BeginFetch, EndFetch, FetchFails, JoinThreads
  <2>3. CASE ProgressFails(d) \/ PublishShard(d) \/ ValidatePublished(d) \/ DiscardPartial(d)
             \/ CheckActive(d) \/ Upload(d) \/ RecordVerified(d) \/ Fail(d) \/ CallFails(d)
             \/ Kill(d)
    BY <1>p, <2>3 DEF ProgressFails, WithoutLast, PublishShard, ValidatePublished,
                      DiscardPartial, RemovePartial, CheckActive, Upload, RecordVerified, Fail,
                      CallFails, Kill
  <2>4. CASE EvictInbox(d) \/ EvictActive(d) \/ EvictPartial(d)
    BY <1>p, <2>4 DEF EvictInbox, RemoveInbox, EvictActive, EvictPartial, RemovePartial
  <2> QED
    BY <2>1, <2>2, <2>3, <2>4 DEF Step, Fault
<1>2. loc[d].shard \in Shards /\ pc[d] \in Resuming
  BY <1>1, <1>p DEF LoadPartial, CreatePartial, SegmentBatch, InstallBatch, BeginProgress,
                    InstallProgress, SyncProgress, Fits
<1>3. CASE LoadPartial(d)
  <2>1. /\ Loadable(partial[loc[d].shard], loc[d].found) /\ partial[loc[d].shard] # None
        /\ loc' = [loc EXCEPT ![d].n = partial[loc[d].shard].progress.n]
    BY <1>3, <1>p DEF LoadPartial
  <2>2. Counted(partial[loc[d].shard]) = partial[loc[d].shard].progress.n
        /\ partial[loc[d].shard].progress \in Counts
    BY <1>2, <2>1 DEF Loadable, Identified, Counted, TypeInv, PartialOK, Sound, Records
  <2>3. loc'[d] = [loc[d] EXCEPT !.n = partial[loc[d].shard].progress.n]
    BY <1>p, <2>1
  <2> QED
    BY <1>p, <1>2, <2>2, <2>3, TotalType DEF Locals, Counts
<1>4. CASE CreatePartial(d)
  <2>1. Counted(partial[loc[d].shard]) = 0 /\ UNCHANGED loc
    BY <1>4, <1>p DEF CreatePartial, Counted
  <2> QED
    BY <1>2, <1>n, <2>1
<1>5. CASE InstallBatch(d)
  <2>1. pc[d] = "batch" /\ loc'[d] = [loc[d] EXCEPT !.n = @ + 1]
    BY <1>5, <1>p DEF InstallBatch
  <2> QED
    BY <1>2, <1>p, <1>n, <2>1 DEF Locals
<1>6. CASE SegmentBatch(d) \/ BeginProgress(d) \/ InstallProgress(d) \/ SyncProgress(d)
  <2>1. pc[d] \in Segmenting /\ UNCHANGED loc
    BY <1>6 DEF SegmentBatch, BeginProgress, InstallProgress, SyncProgress
  <2> QED
    BY <1>2, <1>n, <2>1
<1> QED
  BY <1>1, <1>3, <1>4, <1>5, <1>6

\* No driver falls behind the progress file of its shard.
LEMMA CountNext ==
  ASSUME TypeInv, HolderInv, CountInv, [Next]_vars
  PROVE  CountInv'
<1>1. CASE UNCHANGED vars
  BY <1>1 DEF vars, work, CountInv
<1>2. ASSUME NEW d \in Drivers, Start(d) \/ Step(d) \/ Fault(d),
             NEW e \in Drivers, pc'[e] \in Segmenting
      PROVE  Counted(partial'[loc'[e].shard]) <= loc'[e].n
  <2>t. TypeInv'
    BY <1>2, TypeStep DEF Next
  <2>c. /\ \A s \in Shards : Counted(partial[s]) \in Nat /\ Counted(partial'[s]) \in Nat
        /\ \A f \in Drivers : loc[f].n \in Nat /\ loc'[f].n \in Nat
    <3>1. \A s \in Shards : Counted(partial[s]) \in Nat /\ Counted(partial'[s]) \in Nat
      <4>1. \A s \in Shards : partial[s] \in Partials /\ partial'[s] \in Partials
        BY <2>t DEF TypeInv, PartialOK
      <4> QED
        BY <4>1, TotalType DEF Counted, Partials, Records, Counts
    <3>2. \A f \in Drivers : loc[f].n \in Nat /\ loc'[f].n \in Nat
      BY <2>t, TotalType DEF TypeInv, DriversOK, Locals
    <3> QED
      BY <3>1, <3>2
  <2>1. CASE e = d
    <3>1. /\ loc'[d].shard = loc[d].shard /\ loc[d].shard \in Shards
          /\ \/ pc[d] \in Segmenting /\ loc'[d].n >= loc[d].n
             \/ loc'[d].n >= Counted(partial[loc[d].shard])
          /\ pc[d] \notin {"discard", "evictPartial"}
      BY <1>2, <2>1, SegmentStep DEF Resuming, Segmenting
    <3>2. Counting(d, loc[d].shard)
      BY <1>2, <3>1, CountStep
    <3>3. loc'[d].n >= Counted(partial[loc[d].shard])
      BY <2>c, <3>1 DEF CountInv
    <3> QED
      BY <2>1, <2>c, <3>1, <3>2, <3>3 DEF Counting
  <2>2. CASE e # d
    <3>1. pc[e] \in Segmenting /\ loc'[e] = loc[e]
      BY <1>2, <2>2, OthersStay DEF TypeInv
    <3>2. lock = e /\ pc[d] \notin Locked /\ loc[e].shard \in Shards
      BY <2>2, <3>1 DEF HolderInv, Locked, Segmenting, TypeInv, DriversOK, Fits
    <3>3. Counting(d, loc[e].shard)
      BY <1>2, <3>2, CountStep
    <3>4. Counted(partial[loc[e].shard]) <= loc[e].n
      BY <3>1 DEF CountInv
    <3> QED
      BY <2>c, <3>1, <3>2, <3>3, <3>4 DEF Counting, Locked
  <2> QED
    BY <2>1, <2>2
<1> QED
  BY <1>1, <1>2 DEF Next, CountInv

\* A shard that exists as a whole, here or on the Hub, goes on existing.
LEMMA FinishedStays ==
  ASSUME TypeInv, HubInv, [Next]_vars, NEW s \in Shards, Finished(s)
  PROVE  Whole(s, active'[s]) \/ Whole(s, hub'[s])
<1>1. OnHub \subseteq OnHub' /\ \A r \in OnHub' : Whole(r, hub'[r])
  BY HubGrows
<1>2. s \in OnHub => Whole(s, hub'[s])
  BY <1>1
<1>3. Whole(s, hub[s]) => s \in OnHub
  BY DEF Whole, OnHub
<1>4. Whole(s, active[s]) /\ ~Whole(s, active'[s]) => Whole(s, hub[s])
  BY EvictionStep
<1> QED
  BY <1>2, <1>3, <1>4 DEF Finished

\* Only after the published checkpoint was validated is a directory discarded.
LEMMA DiscardOnly ==
  ASSUME TypeInv, NEW d \in Drivers, Start(d) \/ Step(d) \/ Fault(d), pc'[d] = "discard"
  PROVE  ValidatePublished(d) \/ DiscardPartial(d)
<1> USE DEF At, Goto, Raise
<1>p. pc \in [Drivers -> Points]
  BY DEF TypeInv, DriversOK
<1>1. CASE Start(d) \/ PickShard(d) \/ InspectRemote(d) \/ PrepareInbox(d) \/ CleanInbox(d)
           \/ DiscoverShard(d) \/ AcquireLock(d) \/ ReuseActive(d) \/ HashSources(d)
  BY <1>p, <1>1 DEF Start, PickShard, InspectRemote, PrepareInbox, CleanInbox, RemoveInbox,
                    DiscoverShard, AcquireLock, ReuseActive, HashSources
<1>2. ASSUME NEW f \in Files, BeginFetch(d, f) \/ EndFetch(d, f) \/ FetchFails(d, f)
      PROVE  pc'[d] # "discard"
  BY <1>p, <1>2 DEF BeginFetch, EndFetch, FetchFails, JoinThreads
<1>3. CASE LoadPartial(d) \/ CreatePartial(d) \/ SegmentBatch(d) \/ InstallBatch(d)
           \/ BeginProgress(d) \/ InstallProgress(d) \/ SyncProgress(d) \/ ProgressFails(d)
  BY <1>p, <1>3 DEF LoadPartial, CreatePartial, SegmentBatch, OpenTemporary, InstallBatch,
                    BeginProgress, InstallProgress, WithoutLast, SyncProgress, ProgressFails
<1>4. CASE PublishShard(d) \/ CheckActive(d) \/ Upload(d) \/ RecordVerified(d) \/ Fail(d)
           \/ CallFails(d) \/ Kill(d)
  BY <1>p, <1>4 DEF PublishShard, CheckActive, Upload, RecordVerified, Fail, CallFails, Kill
<1>5. CASE EvictInbox(d) \/ EvictActive(d) \/ EvictPartial(d)
  BY <1>p, <1>5 DEF EvictInbox, RemoveInbox, EvictActive, EvictPartial, RemovePartial
<1> QED
  BY <1>1, <1>2, <1>3, <1>4, <1>5 DEF Step, Fault

\* Directories are discarded when the shard exists as a whole.
LEMMA DiscardNext ==
  ASSUME TypeInv, HubInv, DiscardInv, [Next]_vars
  PROVE  DiscardInv'
<1>1. CASE UNCHANGED vars
  BY <1>1 DEF vars, work, DiscardInv, Finished, Whole
<1>2. ASSUME NEW d \in Drivers, Start(d) \/ Step(d) \/ Fault(d),
             NEW e \in Drivers, pc'[e] = "discard"
      PROVE  Whole(loc'[e].shard, active'[loc'[e].shard]) \/ Whole(loc'[e].shard, hub'[loc'[e].shard])
  <2>1. CASE /\ pc[e] = "discard" /\ loc'[e] = loc[e]
    <3>1. loc[e].shard \in Shards /\ Finished(loc[e].shard)
      BY <2>1 DEF DiscardInv, TypeInv, DriversOK, Fits
    <3> QED
      BY <1>2, <2>1, <3>1, FinishedStays DEF Next
  <2>2. CASE e = d
    <3>1. ValidatePublished(d) \/ DiscardPartial(d)
      BY <1>2, <2>2, DiscardOnly
    <3>2. CASE ValidatePublished(d)
      <4>1. Whole(loc[d].shard, active[loc[d].shard]) /\ UNCHANGED <<active, loc>>
        BY <1>2, <2>2, <3>2 DEF ValidatePublished, Raise, Goto, Shard, work, TypeInv, DriversOK
      <4> QED
        BY <2>2, <4>1
    <3>3. CASE DiscardPartial(d)
      BY <2>1, <2>2, <3>3 DEF DiscardPartial, RemovePartial, At
    <3> QED
      BY <3>1, <3>2, <3>3
  <2>3. CASE e # d
    BY <1>2, <2>1, <2>3, OthersStay DEF TypeInv
  <2> QED
    BY <2>2, <2>3
<1> QED
  BY <1>1, <1>2 DEF Next, DiscardInv, Finished, Whole

\* What is forgotten or counted again belongs to a shard that is finished.
LEMMA RepeatStep ==
  ASSUME TypeInv, HubInv, CountInv, DiscardInv, [Next]_vars, NEW s \in Shards, ~Finished(s)
  PROVE  Counted(partial'[s]) >= Counted(partial[s])
<1>c. Counted(partial[s]) \in Nat
  <2>1. partial[s] \in Partials
    BY DEF TypeInv, PartialOK
  <2> QED
    BY <2>1, TotalType DEF Counted, Partials, Records, Counts
<1>1. CASE UNCHANGED vars
  BY <1>1, <1>c DEF vars, work
<1>2. ASSUME NEW d \in Drivers, Start(d) \/ Step(d) \/ Fault(d)
      PROVE  Counted(partial'[s]) >= Counted(partial[s])
  <2>1. Counting(d, s)
    BY <1>2, CountStep
  <2>2. CASE s = loc[d].shard /\ pc[d] \in {"discard", "evictPartial"}
    <3>1. pc[d] = "evictPartial" => s \in OnHub
      BY <2>2 DEF HubInv, DriversKnow, Knows, Final
    <3>2. s \in OnHub => Finished(s)
      BY DEF HubInv, CopiesOK, Finished
    <3> QED
      BY <2>2, <3>1, <3>2 DEF DiscardInv
  <2>3. CASE s = loc[d].shard /\ pc[d] = "install" /\ Counted(partial'[s]) = loc[d].n
    <3>1. Counted(partial[s]) <= loc[d].n /\ loc[d].n \in Nat
      BY <2>3, TotalType DEF CountInv, Segmenting, TypeInv, DriversOK, Locals
    <3> QED
      BY <1>c, <2>3, <3>1
  <2> QED
    BY <1>c, <2>1, <2>2, <2>3 DEF Counting
<1> QED
  BY <1>1, <1>2 DEF Next

StreamInv == TypeInv /\ HubInv /\ HolderInv /\ CountInv /\ DiscardInv

\* The invariants of the build hold in the initial states ...
LEMMA StreamInit == Init => StreamInv
<1>1. Init => HolderInv /\ CountInv /\ DiscardInv
  BY DEF Init, HolderInv, CountInv, DiscardInv, Locked, Segmenting
<1> QED
  BY <1>1, TypeInit, HubInit DEF StreamInv

\* ... and every step keeps them.
LEMMA StreamNext == StreamInv /\ Calm /\ [Next]_vars => StreamInv'
BY TypeStep, HubNext, HolderStep, CountNext, DiscardNext DEF StreamInv

-----------------------------------------------------------------------------
(* What a kill leaves in a partial directory.                              *)

\* progress.json counts all the batches there are, or all but the last one.
Shaped(dir) ==
  dir # None /\ dir.progress # None =>
    /\ 1 .. dir.progress.n \subseteq dir.files
    /\ Extra(dir) \in {{}, {dir.progress.n + 1}}

\* The directory of a driver at point x that has n batches.
InStep(dir, x, n) ==
  /\ dir # None /\ dir.files = 1 .. n
  /\ x \in {"segment", "batch", "sync"} => dir.progress # None /\ dir.progress.n = n
  /\ x \in {"advance", "install"} => dir.progress = None \/ dir.progress.n + 1 = n

\* The points of process_single_shard before a batch is counted.
Entering == {"lock", "reuse", "hash", "load", "create"}

Kept(s) ==
  /\ Shaped(partial[s])
  /\ \A d \in Drivers : pc[d] \in Segmenting /\ loc[d].shard = s =>
       InStep(partial[s], pc[d], loc[d].n)

ResumeInv ==
  /\ \A d \in Drivers : pc[d] \in Entering => loc[d].n = 0
  /\ \A s \in Shards \ mangled : ~Finished(s) => Kept(s)

\* A directory whose batches are numbered without a gap, and counted up to the
\* last one or the one before, has that shape.
LEMMA ShapedRange ==
  ASSUME NEW dir, NEW n \in Nat, dir.files = 1 .. n,
         dir.progress # None => /\ dir.progress.n \in Nat
                                /\ dir.progress.n = n \/ dir.progress.n + 1 = n
  PROVE  Shaped(dir)
<1> SUFFICES ASSUME dir.progress # None
             PROVE  /\ 1 .. dir.progress.n \subseteq dir.files
                    /\ Extra(dir) \in {{}, {dir.progress.n + 1}}
  BY DEF Shaped
<1>1. CASE dir.progress.n = n
  BY <1>1 DEF Extra
<1>2. CASE dir.progress.n + 1 = n
  <2>1. PICK k \in Nat : k = dir.progress.n /\ k + 1 = n
    BY <1>2
  <2>2. (1 .. n) \ (1 .. k) = {k + 1} /\ 1 .. k \subseteq 1 .. n
    BY <2>1
  <2> QED
    BY <2>1, <2>2 DEF Extra
<1> QED
  BY <1>1, <1>2

\* The shape does not depend on temporary files.
LEMMA ShapedSame ==
  ASSUME NEW dir, NEW new, Shaped(dir), dir # None, new.progress = dir.progress,
         new.files = dir.files
  PROVE  Shaped(new)
BY DEF Shaped, Extra

\* What the holder of the lock makes of the directory of its shard: still of
\* that shape, and as the next point of the driver expects it.
Resumes(d, s) ==
  /\ Shaped(partial'[s])
  /\ pc'[d] \in Segmenting => InStep(partial'[s], pc'[d], loc'[d].n)

\* The driver d, somewhere in the segmentation of its shard s.
AtWork(d, s) ==
  /\ TypeInv /\ d \in Drivers /\ s \in Shards /\ loc[d].shard = s
  /\ Shaped(partial[s])
  /\ pc[d] \in Segmenting => InStep(partial[s], pc[d], loc[d].n)
  /\ pc[d] \in Entering => loc[d].n = 0

\* The facts that the steps of such a driver need.
LEMMA WorkFacts ==
  ASSUME NEW d, NEW s, AtWork(d, s)
  PROVE  /\ partial \in [Shards -> Partials] /\ loc \in [Drivers -> Locals]
         /\ pc \in [Drivers -> Points] /\ loc[d].n \in Nat
         /\ partial[s] # None => /\ partial[s] \in Records /\ Dir(s) = partial[s]
                                 /\ partial[s].progress # None =>
                                      partial[s].progress.n \in Nat
<1>1. /\ partial \in [Shards -> Partials] /\ loc \in [Drivers -> Locals]
      /\ pc \in [Drivers -> Points] /\ d \in Drivers /\ s \in Shards
  BY DEF AtWork, TypeInv, DriversOK, PartialOK
<1>2. loc[d].n \in Nat
  BY <1>1, TotalType DEF Locals
<1>3. ASSUME partial[s] # None
      PROVE  /\ partial[s] \in Records /\ Dir(s) = partial[s]
             /\ partial[s].progress # None => partial[s].progress.n \in Nat
  <2>1. partial[s] \in Records
    BY <1>1, <1>3 DEF Partials
  <2>2. partial[s].progress # None => partial[s].progress \in Counts
    BY <2>1 DEF Records
  <2> QED
    BY <1>3, <2>1, <2>2, TotalType DEF Dir, Counts
<1> QED
  BY <1>1, <1>2, <1>3

\* The partial directory is loaded or refused ...
LEMMA LoadResumes ==
  ASSUME NEW d, NEW s, AtWork(d, s), LoadPartial(d)
  PROVE  Resumes(d, s)
<1> USE WorkFacts
<1>1. d \in Drivers /\ s \in Shards /\ Shard(d) = s /\ Shaped(partial[s])
  BY DEF AtWork, Shard
<1>2. CASE partial[s] = None
  BY <1>1, <1>2 DEF LoadPartial, Resumes, Goto, Segmenting
<1>3. CASE /\ partial[s] # None /\ Loadable(partial[s], loc[d].found)
           /\ partial' = [partial EXCEPT ![s].files = 1 .. partial[s].progress.n,
                                         ![s].tmp = FALSE]
           /\ loc' = [loc EXCEPT ![d].n = partial[s].progress.n]
           /\ Goto(d, "segment")
  <2>1. partial[s].progress # None
    BY <1>3 DEF Loadable, Identified
  <2>2. /\ partial[s] \in Records /\ partial[s].progress.n \in Nat
    BY <1>3, <2>1
  <2>3. 1 .. partial[s].progress.n \in SUBSET Nat
    <3>1. partial[s].progress.n \in Nat
      BY <2>1, <2>2 DEF Records, Counts
    <3> QED
      BY <3>1
  <2>4. /\ partial'[s].files = 1 .. partial[s].progress.n
        /\ partial'[s].progress = partial[s].progress /\ partial'[s] \in Records
    BY <1>1, <1>3, <2>2, <2>3 DEF Records
  <2>5. partial'[s] # None
    BY <2>4, NoneAssumption
  <2>6. pc'[d] = "segment" /\ loc'[d].n = partial[s].progress.n
    BY <1>1, <1>3 DEF Goto, Locals
  <2>7. Shaped(partial'[s])
    BY <2>1, <2>2, <2>4, ShapedRange
  <2> QED
    BY <2>1, <2>4, <2>5, <2>6, <2>7 DEF Resumes, InStep
<1>4. CASE /\ partial[s] # None /\ Raise(d)
           /\ \/ partial' = [partial EXCEPT ![s].tmp = FALSE]
              \/ partial' = partial
  <2>1. partial'[s].files = partial[s].files /\ partial'[s].progress = partial[s].progress
    BY <1>1, <1>4 DEF Records
  <2>2. Shaped(partial'[s])
    BY <1>1, <1>4, <2>1, ShapedSame
  <2> QED
    BY <1>1, <1>4, <2>2 DEF Resumes, Raise, Goto, Segmenting
<1> QED
  BY <1>1, <1>2, <1>3, <1>4 DEF LoadPartial

\* ... or made anew, without a batch ...
LEMMA CreateResumes ==
  ASSUME NEW d, NEW s, AtWork(d, s), CreatePartial(d)
  PROVE  Resumes(d, s)
<1> USE WorkFacts
<1>1. /\ d \in Drivers /\ s \in Shards /\ Shard(d) = s /\ Shaped(partial[s])
      /\ loc[d].n = 0 /\ UNCHANGED loc
  BY DEF AtWork, Shard, CreatePartial, At, Entering
<1>2. CASE partial[s] = None /\ partial' = [partial EXCEPT ![s] = EmptyDir]
           /\ Goto(d, "advance")
  <2>1. partial'[s] = EmptyDir /\ pc'[d] = "advance" /\ loc'[d].n = 0
    BY <1>1, <1>2 DEF Goto
  <2>2. EmptyDir # None
    <3>1. EmptyDir \in Records
      BY DEF EmptyDir, Records
    <3> QED
      BY <3>1, NoneAssumption
  <2>3. EmptyDir.progress = None /\ EmptyDir.files = 1 .. 0
    BY DEF EmptyDir
  <2> QED
    BY <2>1, <2>2, <2>3 DEF Resumes, Shaped, InStep
<1>3. CASE Raise(d) /\ UNCHANGED partial
  BY <1>1, <1>3 DEF Resumes, Raise, Goto, Segmenting
<1> QED
  BY <1>1, <1>2, <1>3 DEF CreatePartial

\* A temporary file appears in an existing directory.
LEMMA OpenKeeps ==
  ASSUME NEW d, NEW s, AtWork(d, s), pc[d] \in Segmenting, NEW x, OpenTemporary(d, x)
  PROVE  /\ partial'[s] # None /\ partial'[s].files = partial[s].files
         /\ partial'[s].progress = partial[s].progress /\ Shaped(partial'[s])
         /\ pc'[d] = x
<1> USE WorkFacts
<1>1. /\ d \in Drivers /\ s \in Shards /\ Shard(d) = s /\ Shaped(partial[s])
      /\ partial[s] # None
  BY DEF AtWork, Shard, InStep
<1>2. partial' = [partial EXCEPT ![s] = [partial[s] EXCEPT !.tmp = TRUE]] /\ pc'[d] = x
  BY <1>1 DEF OpenTemporary, Goto
<1>3. /\ partial'[s] \in Records /\ partial'[s].files = partial[s].files
      /\ partial'[s].progress = partial[s].progress
  BY <1>1, <1>2 DEF Records
<1> QED
  BY <1>1, <1>2, <1>3, ShapedSame, NoneAssumption

\* ... the next batch is begun ...
LEMMA SegmentResumes ==
  ASSUME NEW d, NEW s, AtWork(d, s), SegmentBatch(d)
  PROVE  Resumes(d, s)
<1> USE WorkFacts
<1>1. /\ d \in Drivers /\ s \in Shards /\ Shaped(partial[s]) /\ pc[d] = "segment"
      /\ InStep(partial[s], "segment", loc[d].n) /\ UNCHANGED loc /\ pc[d] \in Segmenting
  BY DEF AtWork, SegmentBatch, At, Segmenting
<1>2. CASE OpenTemporary(d, "batch")
  BY <1>1, <1>2, OpenKeeps DEF Resumes, InStep
<1>3. CASE UNCHANGED partial /\ (Goto(d, "publish") \/ Raise(d))
  BY <1>1, <1>3 DEF Resumes, Raise, Goto, Segmenting
<1> QED
  BY <1>2, <1>3 DEF SegmentBatch

\* ... and so is its progress ...
LEMMA BeginResumes ==
  ASSUME NEW d, NEW s, AtWork(d, s), BeginProgress(d)
  PROVE  Resumes(d, s)
<1>1. /\ InStep(partial[s], "advance", loc[d].n) /\ UNCHANGED loc /\ pc[d] \in Segmenting
      /\ OpenTemporary(d, "install")
  BY DEF AtWork, BeginProgress, At, Segmenting
<1> QED
  BY <1>1, OpenKeeps DEF Resumes, InStep

\* ... the batch is put in place ...
LEMMA InstallBatchResumes ==
  ASSUME NEW d, NEW s, AtWork(d, s), InstallBatch(d)
  PROVE  Resumes(d, s)
<1> USE WorkFacts
<1>1. /\ d \in Drivers /\ s \in Shards /\ Shard(d) = s /\ Shaped(partial[s])
      /\ partial[s] # None /\ partial[s] \in Records /\ loc[d].n \in Nat
      /\ partial[s].files = 1 .. loc[d].n /\ partial[s].progress # None
      /\ partial[s].progress.n = loc[d].n
  BY DEF AtWork, InstallBatch, At, Segmenting, Shard, InStep
<1>2. CASE /\ partial' = [partial EXCEPT ![s].tmp = FALSE, ![s].files = @ \cup {loc[d].n + 1}]
           /\ loc' = [loc EXCEPT ![d].n = @ + 1] /\ Goto(d, "advance")
  <2>1. PICK n \in Nat : n = loc[d].n + 1
    BY <1>1
  <2>2. partial' = [partial EXCEPT ![s] = [partial[s] EXCEPT !.tmp = FALSE,
                                                             !.files = @ \cup {n}]]
    BY <1>1, <1>2, <2>1
  <2>3. (1 .. loc[d].n) \cup {n} = 1 .. n
    BY <1>1, <2>1
  <2>4. partial'[s] = [partial[s] EXCEPT !.tmp = FALSE, !.files = 1 .. n]
    BY <1>1, <2>2, <2>3
  <2>5. /\ partial'[s].files = 1 .. n /\ partial'[s].progress = partial[s].progress
        /\ pc'[d] = "advance" /\ loc'[d].n = n
    BY <1>1, <1>2, <2>1, <2>4 DEF Goto, Records, Locals
  <2>6. partial'[s] # None
    <3>1. n \in Nat \ {0}
      BY <1>1, <2>1, TotalType
         DEF AtWork, TypeInv, DriversOK, Fits, InstallBatch, At, Locals
    <3>2. 1 .. n \in SUBSET Nat
      BY <3>1
    <3>3. partial'[s] \in Records
      BY <1>1, <2>4, <3>2 DEF Records
    <3> QED
      BY <3>3, NoneAssumption
  <2>7. Shaped(partial'[s])
    BY <1>1, <2>1, <2>5, ShapedRange
  <2> QED
    BY <1>1, <2>1, <2>5, <2>6, <2>7 DEF Resumes, InStep
<1>3. CASE UNCHANGED partial /\ Raise(d)
  BY <1>1, <1>3 DEF Resumes, Raise, Goto, Segmenting
<1> QED
  BY <1>1, <1>2, <1>3 DEF InstallBatch

\* ... the batch that progress.json does not count yet is removed again ...
LEMMA WithoutResumes ==
  ASSUME NEW d, NEW s, AtWork(d, s), WithoutLast(d), pc[d] \in {"install", "sync"},
         s \notin mangled'
  PROVE  Resumes(d, s)
<1> USE WorkFacts
<1>1. /\ d \in Drivers /\ s \in Shards /\ Shard(d) = s
      /\ partial[s] # None /\ partial[s] \in Records /\ loc[d].n \in Nat
      /\ InStep(partial[s], pc[d], loc[d].n)
      /\ partial[s].progress # None => partial[s].progress.n \in Nat
  BY DEF AtWork, Segmenting, Shard, InStep
<1>2. partial' = [partial EXCEPT ![s].tmp = FALSE, ![s].files = @ \ {loc[d].n}]
  BY <1>1 DEF WithoutLast
<1>3. /\ partial'[s].files = partial[s].files \ {loc[d].n}
      /\ partial'[s].progress = partial[s].progress
  BY <1>1, <1>2 DEF Records
<1>4. CASE loc[d].n = 0
  <2>1. partial'[s].files = 1 .. 0
    BY <1>1, <1>3, <1>4 DEF InStep
  <2>2. partial[s].progress # None => partial[s].progress.n = 0
    BY <1>1, <1>4 DEF InStep
  <2> QED
    <3>1. PICK k \in Nat : k = 0
      OBVIOUS
    <3>2. /\ partial'[s].files = 1 .. k
          /\ partial'[s].progress # None => partial'[s].progress.n = k
      BY <1>3, <2>1, <2>2, <3>1
    <3>3. Shaped(partial'[s])
      BY <3>2, ShapedRange
    <3> QED
      BY <1>1, <3>3 DEF Resumes, WithoutLast, Raise, Goto, Segmenting
<1>5. CASE loc[d].n # 0
  <2>1. pc[d] = "install"
    BY <1>1, <1>5 DEF WithoutLast, At
  <2>2. PICK k \in Nat : k + 1 = loc[d].n
    <3>1. loc[d].n - 1 \in Nat /\ (loc[d].n - 1) + 1 = loc[d].n
      BY <1>1, <1>5
    <3> QED
      BY <3>1
  <2>3. (1 .. loc[d].n) \ {loc[d].n} = 1 .. k
    BY <2>2
  <2>4. /\ partial'[s].files = 1 .. k
        /\ partial'[s].progress # None => partial'[s].progress.n = k
    BY <1>1, <1>3, <2>1, <2>2, <2>3 DEF InStep
  <2>5. Shaped(partial'[s])
    BY <2>2, <2>4, ShapedRange
  <2> QED
    BY <1>1, <2>5 DEF Resumes, WithoutLast, Raise, Goto, Segmenting
<1> QED
  BY <1>4, <1>5

\* ... or counted ...
LEMMA InstallProgressResumes ==
  ASSUME NEW d, NEW s, AtWork(d, s), InstallProgress(d), s \notin mangled'
  PROVE  Resumes(d, s)
<1> USE WorkFacts
<1>1. /\ d \in Drivers /\ s \in Shards /\ Shard(d) = s /\ pc[d] = "install"
      /\ partial[s] # None /\ partial[s] \in Records /\ loc[d].n \in Nat
      /\ partial[s].files = 1 .. loc[d].n /\ UNCHANGED loc
  BY DEF AtWork, InstallProgress, At, Segmenting, Shard, InStep
<1>2. CASE /\ partial' = [partial EXCEPT ![s].tmp = FALSE,
                                         ![s].progress = Progress(loc[d].found, loc[d].n)]
           /\ Goto(d, "sync")
  <2>1. /\ Progress(loc[d].found, loc[d].n) \in Counts
        /\ Progress(loc[d].found, loc[d].n).n = loc[d].n
    BY <1>1 DEF Progress, Counts, Locals
  <2>2. /\ partial'[s].files = 1 .. loc[d].n /\ partial'[s] \in Records
        /\ partial'[s].progress = Progress(loc[d].found, loc[d].n)
    BY <1>1, <1>2, <2>1 DEF Records
  <2>3. partial'[s] # None /\ partial'[s].progress # None
    BY <2>1, <2>2, NoneAssumption
  <2>4. Shaped(partial'[s])
    BY <1>1, <2>1, <2>2, ShapedRange
  <2>5. pc'[d] = "sync" /\ loc'[d].n = loc[d].n
    BY <1>1, <1>2 DEF Goto
  <2> QED
    BY <2>1, <2>2, <2>3, <2>4, <2>5 DEF Resumes, InStep
<1>3. CASE WithoutLast(d)
  BY <1>1, <1>3, WithoutResumes
<1> QED
  BY <1>1, <1>2, <1>3 DEF InstallProgress

\* ... and a failing call or a kill leaves the directory as it is.
LEMMA FaultResumes ==
  ASSUME NEW d, NEW s, AtWork(d, s), CallFails(d) \/ Kill(d) \/ SyncProgress(d)
  PROVE  Resumes(d, s)
<1> USE WorkFacts
<1>1. /\ d \in Drivers /\ s \in Shards /\ Shard(d) = s /\ Shaped(partial[s])
  BY DEF AtWork, Shard
<1>2. CASE CallFails(d)
  <2>1. pc'[d] = "fail"
    BY <1>1, <1>2 DEF CallFails, Raise, Goto
  <2>2. CASE partial[s] # None /\ partial' = [partial EXCEPT ![s].tmp = FALSE]
    <3>1. partial'[s].files = partial[s].files /\ partial'[s].progress = partial[s].progress
      BY <1>1, <2>2 DEF Records
    <3> QED
      BY <1>1, <2>1, <2>2, <3>1, ShapedSame DEF Resumes, Segmenting
  <2>3. CASE UNCHANGED partial
    BY <1>1, <2>1, <2>3 DEF Resumes, Segmenting
  <2> QED
    BY <1>1, <1>2, <2>2, <2>3 DEF CallFails
<1>3. CASE Kill(d)
  BY <1>1, <1>3 DEF Kill, Goto, work, Resumes, Segmenting
<1>4. CASE SyncProgress(d)
  <2>1. /\ InStep(partial[s], "sync", loc[d].n) /\ UNCHANGED <<partial, loc>>
        /\ pc'[d] = "segment"
    BY <1>1, <1>4 DEF SyncProgress, At, Goto, work, AtWork, Segmenting
  <2> QED
    BY <1>1, <2>1 DEF Resumes, InStep
<1> QED
  BY <1>2, <1>3, <1>4

\* The holder of the lock keeps the directory of its shard in shape.
LEMMA WorkResumes ==
  ASSUME NEW d, NEW s, AtWork(d, s), pc[d] \in Resuming, Start(d) \/ Step(d) \/ Fault(d),
         s \notin mangled'
  PROVE  Resumes(d, s)
<1>1. \/ LoadPartial(d) \/ CreatePartial(d) \/ SegmentBatch(d) \/ InstallBatch(d)
      \/ BeginProgress(d) \/ InstallProgress(d) \/ SyncProgress(d)
      \/ ProgressFails(d) \/ CallFails(d) \/ Kill(d)
  BY DEF Resuming, Segmenting, At, Step, Fault, Start, PickShard, InspectRemote, PrepareInbox,
         CleanInbox, RemoveInbox, BeginFetch, EndFetch, FetchFails, DiscoverShard, AcquireLock,
         ReuseActive, HashSources, PublishShard, ValidatePublished, DiscardPartial,
         RemovePartial, CheckActive, Upload, EvictInbox, EvictActive, EvictPartial,
         RecordVerified, Fail
<1>2. CASE ProgressFails(d)
  BY <1>2, WithoutResumes DEF ProgressFails
<1> QED
  BY <1>1, <1>2, LoadResumes, CreateResumes, SegmentResumes, InstallBatchResumes, BeginResumes,
     InstallProgressResumes, FaultResumes

\* Elsewhere a step touches the directory of a finished shard only.
LEMMA ElsewhereStays ==
  ASSUME TypeInv, HubInv, DiscardInv, NEW d \in Drivers, Start(d) \/ Step(d) \/ Fault(d),
         NEW s \in Shards, ~Finished(s), ~(loc[d].shard = s /\ pc[d] \in Resuming)
  PROVE  partial'[s] = partial[s]
<1> USE DEF At, Shard, work
<1>p. pc \in [Drivers -> Points] /\ partial \in [Shards -> Partials]
  BY DEF TypeInv, DriversOK, PartialOK
<1>1. CASE UNCHANGED partial
  BY <1>1
<1>2. CASE LoadPartial(d) \/ CreatePartial(d) \/ SegmentBatch(d) \/ InstallBatch(d)
           \/ BeginProgress(d) \/ InstallProgress(d) \/ ProgressFails(d)
  <2>1. pc[d] \in Resuming
    BY <1>2 DEF LoadPartial, CreatePartial, SegmentBatch, InstallBatch, BeginProgress,
                InstallProgress, ProgressFails, Resuming, Segmenting
  <2>2. loc[d].shard # s
    BY <2>1
  <2> QED
    BY <1>2, <1>p, <2>2
       DEF LoadPartial, CreatePartial, SegmentBatch, OpenTemporary, InstallBatch,
           BeginProgress, InstallProgress, WithoutLast, ProgressFails
<1>3. CASE CallFails(d)
  BY <1>3, <1>p DEF CallFails, Resuming, Segmenting
<1>4. CASE DiscardPartial(d) \/ EvictPartial(d)
  <2>1. CASE loc[d].shard = s
    <3>1. s \in OnHub => Finished(s)
      BY DEF HubInv, CopiesOK, Finished
    <3>2. pc[d] = "evictPartial" => s \in OnHub
      BY <2>1 DEF HubInv, DriversKnow, Knows, Final
    <3>3. pc[d] = "discard" => Finished(s)
      BY <2>1 DEF DiscardInv
    <3> QED
      BY <1>4, <3>1, <3>2, <3>3 DEF DiscardPartial, EvictPartial, RemovePartial
  <2>2. CASE loc[d].shard # s
    BY <1>4, <1>p, <2>2 DEF DiscardPartial, EvictPartial, RemovePartial
  <2> QED
    BY <2>1, <2>2
<1> QED
  BY <1>1, <1>2, <1>3, <1>4
     DEF Step, Fault, Start, PickShard, InspectRemote, PrepareInbox, CleanInbox,
         RemoveInbox, BeginFetch, EndFetch, FetchFails, DiscoverShard, AcquireLock,
         ReuseActive, HashSources, SyncProgress, PublishShard, ValidatePublished, CheckActive,
         Upload, EvictInbox, EvictActive, RecordVerified, Fail, Kill

\* A driver that enters process_single_shard has counted nothing.
LEMMA EnteringStep ==
  ASSUME TypeInv, NEW d \in Drivers, Start(d) \/ Step(d) \/ Fault(d), pc'[d] \in Entering,
         pc[d] \in Entering => loc[d].n = 0
  PROVE  loc'[d].n = 0
<1> USE DEF At, Goto, Raise, Entering
<1>p. pc \in [Drivers -> Points] /\ loc \in [Drivers -> Locals] /\ Fits(pc[d], loc[d])
  BY DEF TypeInv, DriversOK
<1>1. CASE Start(d) \/ PickShard(d) \/ InspectRemote(d) \/ PrepareInbox(d) \/ CleanInbox(d)
  BY <1>p, <1>1 DEF Start, PickShard, InspectRemote, PrepareInbox, CleanInbox, RemoveInbox
<1>2. ASSUME NEW f \in Files, BeginFetch(d, f) \/ EndFetch(d, f) \/ FetchFails(d, f)
      PROVE  pc'[d] \notin Entering
  BY <1>p, <1>2 DEF BeginFetch, EndFetch, FetchFails, JoinThreads
<1>3. CASE DiscoverShard(d)
  <2>1. loc[d].n = 0
    BY <1>3, <1>p DEF DiscoverShard, Fits
  <2> QED
    BY <1>p, <1>3, <2>1 DEF DiscoverShard, Locals
<1>4. CASE AcquireLock(d) \/ ReuseActive(d) \/ HashSources(d) \/ LoadPartial(d)
           \/ CreatePartial(d)
  BY <1>p, <1>4 DEF AcquireLock, ReuseActive, HashSources, LoadPartial, CreatePartial
<1>5. CASE SegmentBatch(d) \/ InstallBatch(d) \/ BeginProgress(d) \/ InstallProgress(d)
           \/ SyncProgress(d) \/ ProgressFails(d)
  BY <1>p, <1>5 DEF SegmentBatch, OpenTemporary, InstallBatch, BeginProgress, InstallProgress,
                    WithoutLast, SyncProgress, ProgressFails
<1>6. CASE PublishShard(d) \/ ValidatePublished(d) \/ DiscardPartial(d) \/ CheckActive(d)
           \/ Upload(d)
  BY <1>p, <1>6 DEF PublishShard, ValidatePublished, DiscardPartial, RemovePartial, CheckActive,
                    Upload
<1>7. CASE RecordVerified(d) \/ Fail(d) \/ CallFails(d) \/ Kill(d)
  BY <1>p, <1>7 DEF RecordVerified, Fail, CallFails, Kill
<1>8. CASE EvictInbox(d) \/ EvictActive(d) \/ EvictPartial(d)
  BY <1>p, <1>8 DEF EvictInbox, RemoveInbox, EvictActive, EvictPartial, RemovePartial
<1> QED
  BY <1>1, <1>2, <1>3, <1>4, <1>5, <1>6, <1>7, <1>8 DEF Step, Fault

\* A mangled directory is never trusted again.
LEMMA MangledGrows ==
  ASSUME NEW d \in Drivers, Start(d) \/ Step(d) \/ Fault(d)
  PROVE  mangled \subseteq mangled'
<1> USE DEF history
<1>1. CASE InstallProgress(d) \/ ProgressFails(d)
  BY <1>1 DEF InstallProgress, ProgressFails, WithoutLast
<1>2. ASSUME ~InstallProgress(d), ~ProgressFails(d) PROVE UNCHANGED mangled
  BY <1>2, ZenonT(60)
     DEF Start, Step, Fault, PickShard, InspectRemote, PrepareInbox, CleanInbox, RemoveInbox,
         BeginFetch, EndFetch, FetchFails, DiscoverShard, AcquireLock, ReuseActive, HashSources,
         LoadPartial, CreatePartial, SegmentBatch, InstallBatch, BeginProgress, SyncProgress,
         PublishShard, ValidatePublished, DiscardPartial, CheckActive, Upload, EvictInbox,
         EvictActive, EvictPartial, RecordVerified, Fail, CallFails, Kill
<1> QED
  BY <1>1, <1>2

\* The directory of an unfinished shard is kept in shape: by the holder of the
\* lock when the shard is its own, and by all others because they leave it.
LEMMA KeptStep ==
  ASSUME StreamInv, ResumeInv, NEW d \in Drivers, Start(d) \/ Step(d) \/ Fault(d),
         NEW s \in Shards, ~Finished(s), s \notin mangled'
  PROVE  Kept(s)'
<1>1. Kept(s) /\ (pc[d] \in Entering => loc[d].n = 0)
  BY MangledGrows DEF ResumeInv
<1>2. ASSUME NEW e \in Drivers \ {d} PROVE pc'[e] = pc[e] /\ loc'[e] = loc[e]
  BY <1>2, OthersStay DEF StreamInv, TypeInv
<1>3. CASE loc[d].shard = s /\ pc[d] \in Resuming
  <2>1. AtWork(d, s)
    BY <1>1, <1>3 DEF AtWork, Kept, StreamInv
  <2>2. Resumes(d, s)
    BY <1>3, <2>1, WorkResumes
  <2>3. ASSUME NEW e \in Drivers \ {d} PROVE pc'[e] \notin Segmenting
    <3>1. lock = d
      BY <1>3 DEF StreamInv, HolderInv, Locked, Resuming, Segmenting
    <3>2. pc[e] \notin Locked
      BY <3>1 DEF StreamInv, HolderInv
    <3> QED
      BY <1>2, <3>2 DEF Locked, Segmenting
  <2> QED
    BY <2>2, <2>3 DEF Resumes, Kept
<1>4. CASE ~(loc[d].shard = s /\ pc[d] \in Resuming)
  <2>1. partial'[s] = partial[s]
    BY <1>4, ElsewhereStays DEF StreamInv
  <2>2. ~(pc'[d] \in Segmenting /\ loc'[d].shard = s)
    BY <1>4, SegmentStep DEF StreamInv
  <2>3. ASSUME NEW e \in Drivers, pc'[e] \in Segmenting, loc'[e].shard = s
        PROVE  InStep(partial'[s], pc'[e], loc'[e].n)
    BY <1>1, <1>2, <2>1, <2>2, <2>3 DEF Kept
  <2> QED
    BY <1>1, <2>1, <2>3 DEF Kept
<1> QED
  BY <1>3, <1>4

\* Every step keeps what can be resumed.
LEMMA ResumeNext ==
  ASSUME StreamInv, ResumeInv, [Next]_vars
  PROVE  ResumeInv'
<1>1. CASE UNCHANGED vars
  BY <1>1 DEF vars, work, history, ResumeInv, Finished, Whole, Kept
<1>2. ASSUME NEW d \in Drivers, Start(d) \/ Step(d) \/ Fault(d)
      PROVE  ResumeInv'
  <2>1. ASSUME NEW e \in Drivers, pc'[e] \in Entering PROVE loc'[e].n = 0
    <3>1. CASE e = d
      BY <1>2, <2>1, <3>1, EnteringStep DEF StreamInv, ResumeInv
    <3>2. CASE e # d
      BY <1>2, <2>1, <3>2, OthersStay DEF StreamInv, ResumeInv, TypeInv
    <3> QED
      BY <3>1, <3>2
  <2>2. ASSUME NEW s \in Shards, s \notin mangled', ~(Finished(s)') PROVE Kept(s)'
    <3>1. ~Finished(s)
      BY <1>2, <2>2, FinishedStays DEF Next, StreamInv, Finished
    <3> QED
      BY <1>2, <2>2, <3>1, KeptStep
  <2> QED
    BY <2>1, <2>2 DEF ResumeInv
<1> QED
  BY <1>1, <1>2 DEF Next

\* In the initial states there is no directory at all.
LEMMA ResumeInit == Init => ResumeInv
BY DEF Init, ResumeInv, Entering, Kept, Shaped, Segmenting

-----------------------------------------------------------------------------
(* Overlapping allocations.  Three of them, working from different inputs,   *)
(* can upload half of a checkpoint over a whole one: the first is about to   *)
(* upload, the second uploads and half removes what the third has published  *)
(* meanwhile.  Two conditions exclude it.                                    *)

\* At no time do three allocations run.
AtMostTwoRun ==
  \A d, e, f \in Drivers : d # e /\ e # f /\ f # d => "down" \in {pc[d], pc[e], pc[f]}

\* No allocation takes an inbox without the Wikivoyage pair for the whole shard.
InputsFound == \A d \in Drivers : loc[d].found \in {{}, Required(Shard(d))}

\* The points from which a driver can get to the publication of its shard.
Working ==
  {"inbox", "clean", "fetch", "discover", "lock"} \cup (Locked \ {"validate", "discard"})

\* While a driver is about to upload what another one has uploaded, no third
\* one works on the shard.
Alone ==
  \A d, e \in Drivers :
    pc[d] = "upload" /\ Shard(d) \in OnHub /\ Shard(e) = Shard(d) => pc[e] \notin Working

\* Every copy of a shard was computed from all its inputs.
SameInputs ==
  \A s \in Shards : /\ active[s] # None => active[s].manifest = Required(s)
                    /\ s \in OnHub => hub[s].manifest = Required(s)

\* Work on a shard begins when the Hub does not have it.
LEMMA EnterWorking ==
  ASSUME TypeInv, NEW d \in Drivers, Start(d) \/ Step(d) \/ Fault(d), pc'[d] \in Working
  PROVE  /\ loc'[d].shard = loc[d].shard /\ loc[d].shard \in Shards
         /\ UNCHANGED hub
         /\ pc[d] \in Working \/ hub[Shard(d)] = None
<1> USE DEF At, Goto, Raise, Working, Locked, Shard, work
<1>p. pc \in [Drivers -> Points] /\ loc \in [Drivers -> Locals] /\ Fits(pc[d], loc[d])
  BY DEF TypeInv, DriversOK
<1>1. CASE Start(d) \/ PickShard(d) \/ DiscardPartial(d) \/ CheckActive(d) \/ Upload(d)
           \/ EvictActive(d) \/ EvictPartial(d) \/ RecordVerified(d) \/ Fail(d)
           \/ CallFails(d) \/ Kill(d) \/ ValidatePublished(d) \/ ProgressFails(d)
  BY <1>p, <1>1 DEF Start, PickShard, DiscardPartial, RemovePartial, CheckActive, Upload,
                    EvictActive, EvictPartial, RecordVerified, Fail, CallFails, Kill,
                    ValidatePublished, ProgressFails, WithoutLast
<1>2. CASE EvictInbox(d)
  BY <1>p, <1>2 DEF EvictInbox, RemoveInbox
<1>3. CASE InspectRemote(d) \/ PrepareInbox(d)
  BY <1>p, <1>3 DEF InspectRemote, PrepareInbox, Fits
<1>4. CASE CleanInbox(d)
  <2>1. loc'[d] = [loc[d] EXCEPT !.todo = Required(Shard(d))] /\ pc[d] = "clean"
    BY <1>p, <1>4 DEF CleanInbox, RemoveInbox
  <2> QED
    BY <1>p, <1>4, <2>1 DEF CleanInbox, RemoveInbox, Locals, Fits
<1>5. ASSUME NEW f \in Files, BeginFetch(d, f)
      PROVE  pc[d] = "fetch" /\ loc'[d].shard = loc[d].shard /\ UNCHANGED hub
  <2>1. loc'[d] = [loc[d] EXCEPT !.todo = @ \ {f}, !.busy = @ \cup {f}]
    BY <1>p, <1>5 DEF BeginFetch
  <2> QED
    BY <1>p, <1>5, <2>1 DEF BeginFetch, Locals
<1>6. ASSUME NEW f \in Files, EndFetch(d, f) \/ FetchFails(d, f)
      PROVE  pc[d] = "fetch" /\ loc'[d].shard = loc[d].shard /\ UNCHANGED hub
  <2>1. pc[d] = "fetch" /\ UNCHANGED hub /\ \E b \in BOOLEAN : JoinThreads(d, f, b)
    BY <1>p, <1>6 DEF EndFetch, FetchFails, Locals
  <2>2. PICK b \in BOOLEAN : JoinThreads(d, f, b)
    BY <2>1
  <2>3. \/ loc'[d] = [loc[d] EXCEPT !.busy = @ \ {f}, !.failed = b]
        \/ pc'[d] = "down"
        \/ loc'[d] = [loc[d] EXCEPT !.busy = {}]
    BY <1>p, <2>2 DEF JoinThreads
  <2> QED
    BY <1>p, <2>1, <2>3 DEF Locals
<1>7. CASE DiscoverShard(d)
  <2>1. \/ loc'[d] = [loc[d] EXCEPT !.found = inbox[Shard(d)]]
        \/ loc'[d] = loc[d]
    BY <1>p, <1>7 DEF DiscoverShard
  <2> QED
    BY <1>p, <1>7, <2>1 DEF DiscoverShard, Locals, Fits
<1>8. CASE AcquireLock(d) \/ ReuseActive(d) \/ HashSources(d) \/ CreatePartial(d)
           \/ SegmentBatch(d) \/ BeginProgress(d) \/ InstallProgress(d) \/ SyncProgress(d)
           \/ PublishShard(d)
  BY <1>p, <1>8 DEF AcquireLock, ReuseActive, HashSources, CreatePartial, SegmentBatch,
                    BeginProgress, InstallProgress, WithoutLast, SyncProgress, PublishShard, Fits
<1>9. CASE LoadPartial(d) \/ InstallBatch(d)
  <2>1. \/ loc'[d] = [loc[d] EXCEPT !.n = partial[Shard(d)].progress.n]
        \/ loc'[d] = [loc[d] EXCEPT !.n = @ + 1]
        \/ loc'[d] = loc[d]
    BY <1>p, <1>9 DEF LoadPartial, InstallBatch
  <2> QED
    BY <1>p, <1>9, <2>1 DEF LoadPartial, InstallBatch, Locals, Fits
<1>10. pc[d] = "fetch" => loc[d].shard \in Shards
  BY <1>p DEF Fits
<1> QED
  BY <1>1, <1>2, <1>3, <1>4, <1>5, <1>6, <1>7, <1>8, <1>9, <1>10 DEF Step, Fault

\* With two allocations at a time, an upload meets no work on its shard.
LEMMA AloneStep ==
  ASSUME TypeInv, AtMostTwoRun, Alone, [Next]_vars
  PROVE  Alone'
<1>1. CASE UNCHANGED vars
  BY <1>1 DEF vars, Alone, OnHub, Shard
<1>2. ASSUME NEW f \in Drivers, Start(f) \/ Step(f) \/ Fault(f),
             NEW d \in Drivers, NEW e \in Drivers, pc'[d] = "upload", pc'[e] \in Working,
             NEW s \in Shards, s = loc'[d].shard, s = loc'[e].shard, hub'[s] # None
      PROVE  FALSE
  <2>1. d # e
    BY <1>2 DEF Working, Locked
  <2>2. f # d
    BY <1>2, EnterUpload DEF Shard
  <2>3. pc[d] = "upload" /\ Shard(d) = s
    BY <1>2, <2>2, OthersStay DEF TypeInv, Shard
  <2>4. CASE f = e
    <3>1. Shard(e) = s /\ hub[s] # None /\ pc[e] \in Working
      BY <1>2, <2>4, EnterWorking DEF Shard
    <3> QED
      BY <2>3, <3>1 DEF Alone, OnHub
  <2>5. CASE f # e
    <3>1. pc[e] \in Working /\ Shard(e) = s
      BY <1>2, <2>5, OthersStay DEF TypeInv, Shard
    <3>2. CASE hub[s] # None
      BY <2>3, <3>1, <3>2 DEF Alone, OnHub
    <3>3. CASE hub' # hub
      <4>1. pc[f] = "upload"
        BY <1>2, <3>3, HubMove DEF Upload, At
      <4>2. pc[e] # "down"
        BY <3>1 DEF Working, Locked
      <4> QED
        BY <2>1, <2>2, <2>3, <2>5, <4>1, <4>2 DEF AtMostTwoRun
    <3> QED
      BY <1>2, <3>2, <3>3
  <2> QED
    BY <2>4, <2>5
<1>3. \A d \in Drivers : pc'[d] = "upload" => loc'[d].shard \in Shards
  BY TypeStep DEF TypeInv, DriversOK, Fits
<1> QED
  BY <1>1, <1>2, <1>3 DEF Next, Alone, OnHub, Shard

\* With all inputs found, every copy is of the same inputs.
LEMMA SameStep ==
  ASSUME TypeInv, HubInv, SameInputs, InputsFound, [Next]_vars
  PROVE  SameInputs'
<1>1. ASSUME NEW s \in Shards, active'[s] # None PROVE active'[s].manifest = Required(s)
  <2>1. ASSUME NEW d \in Drivers, pc[d] = "publish", Shard(d) = s
        PROVE  loc[d].found = Required(s)
    BY <2>1 DEF InputsFound, HubInv, DriversKnow, Knows, Locked
  <2> QED
    BY <1>1, <2>1, ActiveStep DEF SameInputs
<1>2. ASSUME NEW s \in Shards, hub'[s] # None PROVE hub'[s].manifest = Required(s)
  <2>1. CASE hub'[s] = hub[s]
    BY <1>2, <2>1 DEF SameInputs, OnHub
  <2>2. CASE hub'[s] # hub[s]
    <3>1. active[s] # None /\ hub'[s] = Committed(s)
      BY <2>2, HubStep
    <3> QED
      BY <3>1, CommitKeeps DEF SameInputs
  <2> QED
    BY <2>1, <2>2
<1> QED
  BY <1>1, <1>2 DEF SameInputs, OnHub, Required

\* Either way no other inputs are published while an upload is due.
LEMMA AloneCalm == Alone => Calm
BY DEF Alone, Calm, Working, Locked

LEMMA SameCalm ==
  ASSUME TypeInv, HubInv, SameInputs, InputsFound
  PROVE  Calm
<1> SUFFICES ASSUME NEW d \in Drivers, NEW e \in Drivers, pc[d] = "upload", pc[e] = "publish",
                    Shard(e) = Shard(d), Shard(d) \in OnHub
             PROVE  loc[e].found = hub[Shard(d)].manifest
  BY DEF Calm
<1>1. loc[e].found = Required(Shard(e))
  BY DEF InputsFound, HubInv, DriversKnow, Knows, Locked
<1>2. hub[Shard(d)].manifest = Required(Shard(d))
  BY DEF SameInputs, OnHub
<1> QED
  BY <1>1, <1>2

\* Under either condition the invariants hold for good.
LEMMA StreamAlways ==
  Spec /\ ([]AtMostTwoRun \/ []InputsFound) => [](StreamInv /\ ResumeInv)
<1>1. Init => StreamInv /\ ResumeInv /\ Alone /\ SameInputs
  <2>1. Init => Alone /\ SameInputs
    BY DEF Init, Alone, SameInputs, OnHub, Working, Locked
  <2> QED
    BY <2>1, StreamInit, ResumeInit
<1>2. StreamInv /\ ResumeInv /\ Alone /\ AtMostTwoRun /\ [Next]_vars
        => (StreamInv /\ ResumeInv /\ Alone)'
  BY AloneCalm, StreamNext, ResumeNext, AloneStep DEF StreamInv
<1>3. StreamInv /\ ResumeInv /\ SameInputs /\ InputsFound /\ [Next]_vars
        => (StreamInv /\ ResumeInv /\ SameInputs)'
  BY SameCalm, StreamNext, ResumeNext, SameStep DEF StreamInv
<1> QED
  BY <1>1, <1>2, <1>3, PTL DEF Spec

\* The Hub holds whole checkpoints only and has every shard that state.json or
\* an allocation takes for uploaded: with any number of allocations of which
\* at most two run at a time, whatever inputs each has found, and with any
\* number of overlapping allocations that have found all the inputs.
THEOREM StreamLedger ==
  Spec /\ ([]AtMostTwoRun \/ []InputsFound) => []LedgerOnHub
BY StreamAlways, HubImplied, PTL DEF StreamInv

\* Under the same conditions no allocation takes a valid local checkpoint away
\* before the Hub has the shard.
THEOREM StreamEviction ==
  Spec /\ ([]AtMostTwoRun \/ []InputsFound) => EvictedOnlyWhenUploaded
<1>1. StreamInv /\ [Next]_vars =>
        [\A s \in Shards : Whole(s, active[s]) /\ ~Whole(s, active'[s]) => Whole(s, hub[s])]_vars
  BY EvictionStep DEF StreamInv
<1> QED
  BY <1>1, StreamAlways, PTL DEF Spec, EvictedOnlyWhenUploaded

\* Under the same conditions a batch that progress.json counts is not segmented
\* again before the whole shard exists, whatever is killed between any two
\* batches: the lock is enough, although only a part of process_shard is under
\* it.
THEOREM StreamNoRepeat ==
  Spec /\ ([]AtMostTwoRun \/ []InputsFound) => NeverRepeatBatch
<1>1. StreamInv /\ [Next]_vars =>
        [\A s \in Shards : ~Finished(s) => Counted(partial'[s]) >= Counted(partial[s])]_vars
  BY RepeatStep DEF StreamInv
<1> QED
  BY <1>1, StreamAlways, PTL DEF Spec, NeverRepeatBatch

\* Under the same conditions the partial directory of an unfinished shard can be
\* resumed whenever nobody is at work on it, after any number of its batches
\* and wherever the kills, the failing calls and the overlaps fell:
\* append_partial_batch writes in an order that load_partial_state accepts
\* after any of them, unless the synchronisation that follows progress.json
\* fails.
THEOREM StreamResumable ==
  Spec /\ ([]AtMostTwoRun \/ []InputsFound) => []PartialResumable
<1>1. ResumeInv => PartialResumable
  BY DEF ResumeInv, Kept, Shaped, PartialResumable, Loadable, Identified
<1> QED
  BY <1>1, StreamAlways, PTL
=============================================================================
