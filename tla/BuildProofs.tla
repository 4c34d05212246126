---------------------------- MODULE BuildProofs -----------------------------
(***************************************************************************)
(* The build with any shards, versions, changes and mishaps: types, what   *)
(* becomes of checkpoints, what the swap of the output keeps, and what an  *)
(* export is made of.  Then, for any input tables the join accepts: its    *)
(* rows count every sentence as often as it stands in the files, and the   *)
(* streaming scan that validates them agrees with the exporter.            *)
(***************************************************************************)
EXTENDS Build, SentenceTableProofs

-----------------------------------------------------------------------------
(* The invariant.                                                          *)

Before == {"idle", "discover", "hash"}
Points ==
  Before \cup {"recover", "remove", "shard", "verify", "export", "install", "drop",
                "completed", "publish"}
Verdicts == {"none", "added", "removed", "changed", "unchanged"}
Jobs ==
  [pc : Points, todo : SUBSET Shards, paired : SUBSET Shards, current : Manifests,
   verdict : [Shards -> Verdicts], read : Nat, parts : [Shards -> Parts \cup {None}],
   done : Nat, backup : Exports \cup {None}]

\* A shard is retired only if it is not in the current input, and what is
\* about to be published has been read.
JobOK ==
  /\ job \in Jobs
  /\ job.pc \in Before => job.verdict = [s \in Shards |-> "none"]
  /\ \A s \in Shards : job.verdict[s] = "removed" => job.current[s] = 0
  /\ job.pc = "remove" => \A s \in job.todo : job.verdict[s] = "removed"
  /\ job.pc = "verify" => job.todo # {} /\ job.read # 0

InputOK ==
  /\ version \in [Shards -> Nat \ {0}] /\ here \subseteq Shards /\ code \in Nat
  /\ \A s \in Shards : version[s] \in DOMAIN Tables[s]
  /\ changes \in 0 .. MaxChanges /\ mishaps \in 0 .. MaxMishaps

SlotsOK ==
  /\ active \in [Shards -> Checkpoints \cup {None}]
  /\ \A s \in Shards : active[s] # None => active[s].shard = s
  /\ damaged \subseteq {s \in Shards : active[s] # None}
  /\ quarantine \subseteq Checkpoints

FilesOK ==
  /\ inventory \in {None, Malformed} \/ inventory \in Manifests
  /\ heartbeat # None => heartbeat.stage \in {"processing", "completed"}

\* Between the renames there is no output, and before the backup is removed
\* the output is the new one.
SwapOK ==
  /\ {output, served, published} \subseteq Exports \cup {None}
  /\ leftover \subseteq Exports
  /\ job.backup # None => job.pc \in {"install", "drop"}
  /\ job.pc = "install" => output = None
  /\ job.pc = "drop" => output = served
  /\ OutputKept

\* The inductive invariant.
IInv == JobOK /\ InputOK /\ SlotsOK /\ FilesOK /\ SwapOK

-----------------------------------------------------------------------------
(* Every step keeps it.                                                    *)

\* The next shard is one of those to do.
LEMMA LowestInside ==
  ASSUME NEW T \in SUBSET Shards, T # {}
  PROVE  Lowest(T) \in T
<1> DEFINE Less == {ss \in Nat \X Nat : ss[1] < ss[2]}
<1>1. T \subseteq Nat
  BY TablesAssumption DEF Shards
<1>2. PICK x \in T : \A y \in T : ~ (<<y, x>> \in Less)
  <2>1. Less = OpToRel(<, Nat)
    BY Zenon DEF OpToRel
  <2>2. IsWellFoundedOn(Less, Nat)
    BY <2>1, NatLessThanWellFounded, Zenon
  <2> QED
    BY <1>1, <2>2, WFMin
<1>3. ASSUME NEW y \in T PROVE x <= y
  <2>1. x \in Nat /\ y \in Nat /\ <<y, x>> \notin Less
    BY <1>1, <1>2
  <2> QED
    BY <2>1
<1> QED
  BY <1>3 DEF Lowest

\* Versions are numbered from 1.
LEMMA VersionNumbers ==
  ASSUME NEW s \in Shards
  PROVE  /\ Tables[s] \in Seq(ShardType) /\ Len(Tables[s]) \in Nat \ {0}
         /\ DOMAIN Tables[s] = 1 .. Len(Tables[s])
<1>1. Tables[s] \in Seq(ShardType) /\ Tables[s] # <<>>
  BY InputsAssumption, VersionsAssumption
<1> QED
  BY <1>1

\* What a command sees of a version is one of the versions.
LEMMA ViewListed ==
  ASSUME NEW s \in Shards, NEW v \in DOMAIN Tables[s]
  PROVE  View(s, v) \in DOMAIN Tables[s] /\ View(s, v) \in Nat \ {0}
<1>1. PICK u \in DOMAIN Tables[s] : Tables[s][u] = WithoutVoyage(Tables[s][v])
  BY VersionsAssumption
<1>2. Core(s, v) \in DOMAIN Tables[s]
  BY <1>1 DEF Core
<1>3. View(s, v) \in DOMAIN Tables[s]
  BY <1>2 DEF View
<1> QED
  BY <1>3, VersionNumbers

\* So are the files that it finds.
LEMMA SeenListed ==
  ASSUME InputOK, NEW s \in Shards
  PROVE  Seen(s) \in Nat \ {0}
BY ViewListed DEF InputOK, Seen

\* Every step of the command leaves the input and the budgets alone, so the
\* input keeps its type.
LEMMA InputStep == InputOK /\ [Next]_vars => InputOK'
<1> SUFFICES ASSUME InputOK, [Next]_vars PROVE InputOK'
  OBVIOUS
<1> USE DEF InputOK, input, budgets
<1>1. CASE Main \/ Start
  <2>1. Kept
    BY <1>1
       DEF Main, Start, Discover, Hash, Reconcile, Recover, Recovered, Retire, Retired,
           Reuse, Requeue, Segment, VerifyAndPublish, WriteInventory, Refuse,
           MoveAside, Install, DropBackup, Finish, PublishExport
  <2> QED
    BY <2>1 DEF Kept
<1>2. CASE Kill \/ InstallFails \/ DropFails \/ AnswerLost \/ Damage
  <2>1. UNCHANGED <<input, changes>> /\ Mishap
    BY <1>2 DEF Kill, InstallFails, DropFails, AnswerLost, Damage
  <2> QED
    BY <2>1, BoundsAssumption DEF Mishap
<1>3. CASE ChangeInput
  <2>1. changes' \in 0 .. MaxChanges /\ mishaps' \in 0 .. MaxMishaps
    BY <1>3, BoundsAssumption DEF ChangeInput
  <2>2. here' \subseteq Shards /\ code' \in Nat
    BY <1>3 DEF ChangeInput
  <2>3. CASE UNCHANGED version
    BY <2>1, <2>2, <2>3
  <2>4. ASSUME NEW s \in Shards, version[s] < Len(Tables[s]),
               version' = [version EXCEPT ![s] = @ + 1]
        PROVE  InputOK'
    <3>1. version[s] + 1 \in DOMAIN Tables[s] /\ version[s] + 1 \in Nat \ {0}
      BY <2>4, VersionNumbers
    <3>2. \A r \in Shards : version'[r] = IF r = s THEN version[s] + 1 ELSE version[r]
      BY <2>4
    <3>3. version' \in [Shards -> Nat \ {0}]
      BY <2>4, <3>1
    <3> QED
      BY <2>1, <2>2, <3>1, <3>2, <3>3
  <2> QED
    BY <1>3, <2>3, <2>4 DEF ChangeInput
<1>4. CASE ChangeCode
  BY <1>4, BoundsAssumption DEF ChangeCode
<1>5. CASE UNCHANGED vars
  BY <1>5 DEF vars
<1> QED
  BY <1>1, <1>2, <1>3, <1>4, <1>5 DEF Next, World

\* The inventory is written by two steps and damaged by one; a heartbeat has one
\* of two stages.
LEMMA FilesStep == IInv /\ [Next]_vars => FilesOK'
<1> SUFFICES ASSUME IInv, [Next]_vars PROVE FilesOK'
  OBVIOUS
<1> USE DEF IInv, FilesOK, workDir
<1>1. CASE Start \/ Discover \/ Hash \/ Recovered \/ Refuse \/ MoveAside \/ Install
             \/ DropBackup \/ PublishExport \/ Kill \/ InstallFails \/ DropFails
             \/ AnswerLost \/ ChangeInput \/ ChangeCode
  BY <1>1
     DEF Start, Discover, Hash, Recovered, Refuse, MoveAside, Install, DropBackup,
         PublishExport, Kill, InstallFails, DropFails, AnswerLost, ChangeInput, ChangeCode
<1>2. CASE Recover \/ Retire \/ \E s \in Shards : Requeue(s) \/ Segment(s)
  BY <1>2 DEF Recover, Retire, Requeue, Segment
<1>3. CASE Reconcile
  BY <1>3 DEF Reconcile
<1>4. CASE Retired \/ Finish
  BY <1>4 DEF Retired, Finish, Beat
<1>5. ASSUME NEW s \in Shards, Reuse(s) PROVE FilesOK'
  BY <1>5 DEF Reuse, Collect
<1>6. CASE VerifyAndPublish
  BY <1>6 DEF VerifyAndPublish, Publish, Collect
<1>7. CASE WriteInventory
  BY <1>7 DEF WriteInventory, JobOK, Jobs
<1>8. CASE Damage
  BY <1>8 DEF Damage
<1>9. CASE UNCHANGED vars
  BY <1>9 DEF vars
<1> QED
  BY <1>1, <1>2, <1>3, <1>4, <1>5, <1>6, <1>7, <1>8, <1>9 DEF Next, Main, World

\* A step that sets the checkpoint of a shard aside keeps it.
LEMMA SetAsideKeeps ==
  ASSUME SlotsOK, NEW s \in Shards, SetAside(s)
  PROVE  /\ SlotsOK'
         /\ quarantine \subseteq quarantine'
         /\ active[s] # None => active[s] \in quarantine'
         /\ \A r \in Shards \ {s} : active'[r] = active[r]
<1>1. active' \in [Shards -> Checkpoints \cup {None}]
  BY DEF SlotsOK, SetAside
<1>2. \A r \in Shards \ {s} : active'[r] = active[r]
  BY DEF SlotsOK, SetAside
<1>3. active'[s] = None
  BY DEF SlotsOK, SetAside
<1>4. quarantine' \subseteq Checkpoints /\ quarantine \subseteq quarantine'
  BY DEF SlotsOK, SetAside
<1>5. active[s] # None => active[s] \in quarantine'
  BY DEF SetAside
<1>6. damaged' \subseteq {r \in Shards : active'[r] # None}
  BY <1>2 DEF SlotsOK, SetAside
<1> QED
  BY <1>1, <1>2, <1>3, <1>4, <1>5, <1>6 DEF SlotsOK

\* What a verified shard publishes is a checkpoint for its own, empty slot.
LEMMA PublishKeeps ==
  ASSUME JobOK, InputOK, SlotsOK, VerifyAndPublish
  PROVE  /\ SlotsOK'
         /\ UNCHANGED quarantine
         /\ \A r \in Shards : active[r] # None => active'[r] = active[r]
<1> DEFINE s == Lowest(job.todo)
<1>1. s \in Shards
  BY LowestInside DEF VerifyAndPublish, JobOK, Jobs
<1>2. CASE UNCHANGED workDir
  BY <1>2 DEF SlotsOK, workDir
<1>3. CASE Seen(s) = job.current[s] /\ Publish(s)
  <2>1. Checkpoint(s) \in Checkpoints /\ Checkpoint(s).shard = s
    BY <1>1, <1>3, SeenListed
       DEF Checkpoint, Checkpoints, VerifyAndPublish, JobOK, Jobs, InputOK
  <2>2. /\ active[s] = None /\ active' = [active EXCEPT ![s] = Checkpoint(s)]
        /\ UNCHANGED <<damaged, quarantine>>
    BY <1>3 DEF Publish
  <2> QED
    BY <1>1, <2>1, <2>2 DEF SlotsOK
<1> QED
  BY <1>2, <1>3 DEF VerifyAndPublish

\* Every step keeps the slots and the quarantine, and takes a checkpoint out of
\* its slot only into the quarantine and only when the run has no use for it.
LEMMA SlotsStep ==
  IInv /\ [Next]_vars =>
    /\ SlotsOK'
    /\ quarantine \subseteq quarantine'
    /\ \A s \in Shards :
         (active[s] # None /\ active'[s] # active[s]) =>
           /\ active[s] \in quarantine'
           /\ Loads(s, job.current) => job.verdict[s] = "changed"
<1> DEFINE Safe ==
      /\ SlotsOK'
      /\ quarantine \subseteq quarantine'
      /\ \A s \in Shards :
           (active[s] # None /\ active'[s] # active[s]) =>
             /\ active[s] \in quarantine'
             /\ Loads(s, job.current) => job.verdict[s] = "changed"
<1> SUFFICES ASSUME IInv, [Next]_vars PROVE Safe
  OBVIOUS
<1>0. ASSUME UNCHANGED <<active, damaged, quarantine>> PROVE Safe
  BY <1>0 DEF IInv, SlotsOK
<1>a. ASSUME NEW s \in Shards, SetAside(s),
             Loads(s, job.current) => job.verdict[s] = "changed"
      PROVE  Safe
  BY <1>a, SetAsideKeeps DEF IInv
<1>1. CASE Start \/ Discover \/ Hash \/ Recovered \/ Refuse \/ MoveAside \/ Install
             \/ DropBackup \/ PublishExport \/ Kill \/ InstallFails \/ DropFails
             \/ AnswerLost \/ ChangeInput \/ ChangeCode \/ Reconcile \/ Retired
             \/ WriteInventory \/ Finish
  BY <1>0, <1>1
     DEF Start, Discover, Hash, Recovered, Refuse, MoveAside, Install, DropBackup,
         PublishExport, Kill, InstallFails, DropFails, AnswerLost, ChangeInput, ChangeCode,
         Reconcile, Retired, WriteInventory, Finish, workDir
<1>2. CASE Recover
  <2>1. Lowest(job.todo) \in Shards
    BY <1>2, LowestInside DEF Recover, IInv, JobOK, Jobs
  <2> QED
    BY <1>0, <1>2, <1>a, <2>1 DEF Recover
<1>3. CASE Retire
  <2> DEFINE s == Lowest(job.todo)
  <2>1. s \in job.todo /\ s \in Shards
    BY <1>3, LowestInside DEF Retire, IInv, JobOK, Jobs
  <2>2. job.current[s] = 0
    BY <1>3, <2>1 DEF Retire, IInv, JobOK
  <2>3. ~ Loads(s, job.current)
    BY <2>1, <2>2 DEF Loads, IInv, SlotsOK, Checkpoints
  <2> QED
    BY <1>3, <1>a, <2>1, <2>3 DEF Retire
<1>4. ASSUME NEW s \in Shards, Reuse(s) \/ Segment(s) PROVE Safe
  BY <1>0, <1>4 DEF Reuse, Segment, workDir
<1>5. ASSUME NEW s \in Shards, Requeue(s) PROVE Safe
  BY <1>5, <1>a DEF Requeue
<1>6. CASE VerifyAndPublish
  BY <1>6, PublishKeeps DEF IInv
<1>7. CASE Damage
  BY <1>7 DEF Damage, IInv, SlotsOK
<1>8. CASE UNCHANGED vars
  BY <1>0, <1>8 DEF vars, workDir
<1> QED
  BY <1>1, <1>2, <1>3, <1>4, <1>5, <1>6, <1>7, <1>8 DEF Next, Main, World

-----------------------------------------------------------------------------
(* The running command.                                                    *)

\* A command that has ended knows nothing.
LEMMA IdleOK == Idle \in Jobs /\ (job' = Idle => JobOK')
<1>1. NoManifest \in Manifests /\ NoParts \in [Shards -> Parts \cup {None}]
  BY DEF NoManifest, NoParts, Manifests
<1>2. Idle \in Jobs
  BY <1>1 DEF Idle, Jobs, Points, Before, Verdicts
<1>3. job' = Idle => /\ job'.pc = "idle" /\ job'.current = NoManifest
                     /\ job'.verdict = [s \in Shards |-> "none"]
  BY DEF Idle
<1> QED
  BY <1>2, <1>3 DEF JobOK, NoManifest

\* A step that moves the command on, with another list of shards or not, keeps
\* what is known of it.
LEMMA Moves ==
  ASSUME JobOK, NEW p \in Points, NEW T \in SUBSET Shards,
         job' = [job EXCEPT !.pc = p, !.todo = T],
         p \in Before => job.pc \in Before,
         p = "remove" => \A s \in T : job.verdict[s] = "removed",
         p # "verify"
  PROVE  JobOK'
<1>1. job' \in Jobs
  BY DEF JobOK, Jobs
<1>2. /\ job'.pc = p /\ job'.todo = T
      /\ job'.verdict = job.verdict /\ job'.current = job.current
  BY DEF JobOK, Jobs
<1> QED
  BY <1>1, <1>2 DEF JobOK

\* The step that collects a shard.
LEMMA Collects ==
  ASSUME JobOK, NEW s \in Shards, NEW part \in Parts, job.pc \notin Before, Collect(s, part)
  PROVE  JobOK'
<1>1. job \in Jobs /\ job.todo \ {s} \in SUBSET Shards
  BY DEF JobOK, Jobs
<1>2. job' = [pc |-> "shard", todo |-> job.todo \ {s}, paired |-> job.paired,
              current |-> job.current,
              verdict |-> job.verdict, read |-> 0,
              parts |-> [job.parts EXCEPT ![s] = part],
              done |-> job.done + 1, backup |-> job.backup]
  BY <1>1 DEF Collect, Jobs
<1>3. job' \in Jobs
  <2>1. [job.parts EXCEPT ![s] = part] \in [Shards -> Parts \cup {None}]
    BY <1>1 DEF Jobs
  <2>2. job.done + 1 \in Nat /\ 0 \in Nat /\ "shard" \in Points
    BY <1>1 DEF Jobs, Points
  <2> QED
    BY <1>1, <1>2, <2>1, <2>2 DEF Jobs
<1> QED
  BY <1>2, <1>3 DEF JobOK, Before

\* A command knows what JobOK says at each of its steps.
LEMMA JobStep == IInv /\ [Next]_vars => JobOK'
<1> SUFFICES ASSUME IInv, [Next]_vars PROVE JobOK'
  OBVIOUS
<1>0. JobOK /\ job \in Jobs
  BY DEF IInv, JobOK
<1>a. ASSUME Abort PROVE JobOK'
  BY <1>a, IdleOK DEF Abort
<1>b. ASSUME UNCHANGED job PROVE JobOK'
  BY <1>0, <1>b DEF JobOK
<1>c. ASSUME NEW p \in Points, Go(p), p \in Before => job.pc \in Before,
             p \notin {"remove", "verify"}
      PROVE  JobOK'
  <2>1. job' = [job EXCEPT !.pc = p, !.todo = job.todo] /\ job.todo \in SUBSET Shards
    BY <1>0, <1>c DEF Go, Jobs
  <2> QED
    BY <1>0, <1>c, <2>1, Moves
<1>1. CASE Start
  BY <1>1, <1>c DEF Start, Points, Before
<1>2. CASE Discover
  <2>1. ASSUME NEW P \in SUBSET here,
               job' = [job EXCEPT !.pc = "hash", !.todo = here, !.paired = P]
        PROVE  JobOK'
    <3>1. here \in SUBSET Shards /\ "hash" \in Before /\ job.pc \in Before
      BY <1>2 DEF Discover, Before, IInv, InputOK
    <3>2. job' \in Jobs
      BY <1>0, <2>1, <3>1 DEF Jobs, Points
    <3>3. job'.verdict = job.verdict /\ job'.pc = "hash" /\ job'.current = job.current
      BY <1>0, <2>1 DEF Jobs
    <3> QED
      BY <1>0, <3>1, <3>2, <3>3 DEF JobOK
  <2> QED
    BY <1>2, <2>1, <1>a DEF Discover
<1>3. CASE Hash
  <2> DEFINE s == Lowest(job.todo)
  <2>1. s \in Shards
    BY <1>0, <1>3, LowestInside DEF Hash, Jobs
  <2>2. CASE job' = [job EXCEPT !.current[s] = Seen(s), !.todo = @ \ {s}]
    <3>1. Seen(s) \in Nat
      BY <2>1, SeenListed DEF IInv
    <3>2. job' \in Jobs
      BY <1>0, <2>1, <2>2, <3>1 DEF Jobs, Manifests
    <3>3. job'.verdict = job.verdict /\ job'.pc = "hash"
      BY <1>0, <1>3, <2>2 DEF Jobs, Hash
    <3>4. job.verdict = [r \in Shards |-> "none"]
      BY <1>0, <1>3 DEF JobOK, Before, Hash
    <3> QED
      BY <3>2, <3>3, <3>4 DEF JobOK
  <2> QED
    BY <1>3, <2>2, <1>a DEF Hash
<1>4. CASE Reconcile
  <2>1. PICK prior : job' = [job EXCEPT !.pc = "recover",
          !.verdict = [s \in Shards |-> Verdict(prior, job.current, s)],
          !.todo = {s \in Shards : Verdict(prior, job.current, s) = "added"
                                     /\ active[s] # None}]
    BY <1>4 DEF Reconcile
  <2>2. \A s \in Shards :
          /\ Verdict(prior, job.current, s) \in Verdicts
          /\ Verdict(prior, job.current, s) = "removed" => job.current[s] = 0
    BY DEF Verdict, Verdicts
  <2> QED
    BY <1>0, <2>1, <2>2 DEF JobOK, Jobs, Points, Before, Verdicts
<1>5. CASE Recover
  <2> DEFINE s == Lowest(job.todo)
  <2>1. s \in Shards
    BY <1>0, <1>5, LowestInside DEF Recover, Jobs
  <2>2. PICK v \in {"unchanged", "none"} :
          job' = [job EXCEPT !.todo = @ \ {s}, !.verdict[s] = v]
    BY <1>5 DEF Recover
  <2> QED
    BY <1>0, <1>5, <2>1, <2>2 DEF JobOK, Jobs, Points, Before, Verdicts, Recover
<1>6. CASE Recovered
  <2>1. In("removed") \in SUBSET Shards /\ "remove" \in Points /\ "remove" \notin Before
    BY DEF In, Points, Before
  <2>2. \A s \in In("removed") : job.verdict[s] = "removed"
    BY DEF In
  <2> QED
    BY <1>0, <1>6, <2>1, <2>2, Moves DEF Recovered, Give
<1>7. CASE Retire
  BY <1>0, <1>7 DEF Retire, JobOK, Jobs, Points, Before, Verdicts
<1>8. CASE Retired
  <2>1. Found \in SUBSET Shards /\ "shard" \in Points /\ "shard" \notin Before
    BY DEF Found, Points, Before
  <2> QED
    BY <1>0, <1>8, <2>1, Moves DEF Retired, Give
<1>9. ASSUME NEW s \in Shards, Reuse(s) PROVE JobOK'
  <2>1. Part(active[s]) \in Parts
    BY <1>9 DEF Reuse, Loads, Part, Parts, IInv, SlotsOK, Checkpoints
  <2> QED
    BY <1>0, <1>9, <2>1, Collects DEF Reuse, AtShard, Before
<1>10. ASSUME NEW s \in Shards, Requeue(s) PROVE JobOK'
  BY <1>0, <1>10 DEF Requeue, AtShard, JobOK, Jobs, Points, Before, Verdicts
<1>11. ASSUME NEW s \in Shards, Segment(s) PROVE JobOK'
  <2>1. CASE job' = [job EXCEPT !.pc = "verify", !.read = Seen(s)]
    <3>1. Seen(s) \in Nat \ {0}
      BY SeenListed DEF IInv
    <3> QED
      BY <1>0, <1>11, <2>1, <3>1 DEF Segment, AtShard, JobOK, Jobs, Points, Before, Verdicts
  <2> QED
    BY <1>11, <2>1, <1>a DEF Segment
<1>12. CASE VerifyAndPublish
  <2> DEFINE s == Lowest(job.todo)
  <2>1. s \in Shards
    BY <1>0, <1>12, LowestInside DEF VerifyAndPublish, JobOK, Jobs
  <2>2. CASE Seen(s) = job.current[s] /\ Publish(s)
    <3>1. Part(Checkpoint(s)) \in Parts
      BY <1>0, <1>12, <2>1 DEF Part, Parts, Checkpoint, VerifyAndPublish, JobOK, Jobs,
                               IInv, InputOK
    <3> QED
      BY <1>0, <1>12, <2>1, <2>2, <3>1, Collects DEF Publish, VerifyAndPublish, Before
  <2> QED
    BY <1>12, <2>2, <1>a DEF VerifyAndPublish
<1>13. CASE WriteInventory
  BY <1>13, <1>c DEF WriteInventory, Points, Before
<1>14. CASE Refuse \/ PublishExport \/ Kill \/ InstallFails \/ DropFails \/ AnswerLost
  BY <1>14, <1>a DEF Refuse, PublishExport, Kill, InstallFails, DropFails, AnswerLost
<1>15. CASE MoveAside
  BY <1>0, <1>15 DEF MoveAside, JobOK, Jobs, Points, Before, Verdicts, IInv, SwapOK
<1>16. CASE Install
  BY <1>16, <1>c DEF Install, Points, Before
<1>17. CASE DropBackup
  BY <1>0, <1>17 DEF DropBackup, JobOK, Jobs, Points, Before, Verdicts
<1>18. CASE Finish
  BY <1>18, <1>a, <1>c DEF Finish, Points, Before
<1>19. CASE Damage \/ ChangeInput \/ ChangeCode
  BY <1>19, <1>b DEF Damage, ChangeInput, ChangeCode
<1>20. CASE UNCHANGED vars
  BY <1>20, <1>b DEF vars
<1> QED
  BY <1>1, <1>2, <1>3, <1>4, <1>5, <1>6, <1>7, <1>8, <1>9, <1>10, <1>11, <1>12, <1>13,
     <1>14, <1>15, <1>16, <1>17, <1>18, <1>19, <1>20
     DEF Next, Main, World

-----------------------------------------------------------------------------
(* The swap of the output.                                                 *)

\* Steps outside the swap.
LEMMA SwapAway ==
  ASSUME SwapOK, UNCHANGED <<output, leftover, served>>,
         published' \in {published, output},
         job'.pc \notin {"install", "drop"}, job'.backup = None,
         job.backup = None
  PROVE  SwapOK'
BY DEF SwapOK, OutputKept

\* The command owns a backup only between its renames, and a kill leaves it.
LEMMA SwapStep == IInv /\ [Next]_vars => SwapOK'
<1> SUFFICES ASSUME IInv, [Next]_vars PROVE SwapOK'
  OBVIOUS
<1> USE DEF SwapOK, OutputKept, outputs
<1>0. job \in Jobs /\ SwapOK
  BY DEF IInv, JobOK
<1>a. Idle.pc = "idle" /\ Idle.backup = None
  BY DEF Idle
<1>b. ASSUME UNCHANGED <<job, outputs>> PROVE SwapOK'
  BY <1>0, <1>b
<1>1. CASE Start \/ Discover \/ Hash \/ Reconcile \/ Recover \/ Recovered \/ Retire
             \/ Retired \/ WriteInventory \/ Refuse \/ Finish \/ PublishExport \/ AnswerLost
  <2>1. UNCHANGED <<output, leftover, served>> /\ published' \in {published, output}
    BY <1>1
       DEF Start, Discover, Hash, Reconcile, Recover, Recovered, Retire, Retired,
           WriteInventory, Refuse, Finish, PublishExport, AnswerLost
  <2>2. job.pc \notin {"install", "drop"}
    BY <1>1
       DEF Start, Discover, Hash, Reconcile, Recover, Recovered, Retire, Retired,
           WriteInventory, Refuse, Finish, PublishExport, AnswerLost
  <2>3. job'.pc \notin {"install", "drop"} /\ job'.backup \in {job.backup, None}
    BY <1>0, <1>1, <1>a
       DEF Start, Discover, Hash, Reconcile, Recover, Recovered, Retire, Retired,
           WriteInventory, Refuse, Finish, PublishExport, AnswerLost, Jobs, Go, Give, Abort
  <2> QED
    BY <1>0, <2>1, <2>2, <2>3, SwapAway
<1>2. ASSUME NEW s \in Shards, Reuse(s) \/ Requeue(s) \/ Segment(s) PROVE SwapOK'
  <2>1. job'.pc \notin {"install", "drop"} /\ job'.backup \in {job.backup, None}
    BY <1>0, <1>2, <1>a DEF Reuse, Requeue, Segment, AtShard, Collect, Jobs, Abort
  <2> QED
    BY <1>0, <1>2, <2>1, SwapAway DEF Reuse, Requeue, Segment, AtShard
<1>3. CASE VerifyAndPublish
  <2>1. job'.pc \notin {"install", "drop"} /\ job'.backup \in {job.backup, None}
    BY <1>0, <1>3, <1>a DEF VerifyAndPublish, Publish, Collect, Jobs, Abort
  <2> QED
    BY <1>0, <1>3, <2>1, SwapAway DEF VerifyAndPublish
<1>4. CASE MoveAside
  <2>1. job'.pc = "install" /\ job'.backup = output
    BY <1>0, <1>4 DEF MoveAside, Jobs
  <2> QED
    BY <1>0, <1>4, <2>1 DEF MoveAside
<1>5. CASE Install
  <2>1. Export \in Exports
    BY <1>0 DEF Export, Exports, Jobs, IInv, InputOK
  <2>2. /\ job'.backup = job.backup
        /\ job'.pc = IF job.backup = None THEN "completed" ELSE "drop"
    BY <1>0, <1>5 DEF Install, Go, Jobs
  <2> QED
    BY <1>0, <1>5, <2>1, <2>2 DEF Install
<1>6. CASE DropBackup
  <2>1. job'.pc = "completed" /\ job'.backup = None
    BY <1>0, <1>6 DEF DropBackup, Jobs
  <2> QED
    BY <1>0, <1>6, <2>1 DEF DropBackup
<1>7. CASE Kill \/ InstallFails \/ DropFails
  <2>1. job' = Idle /\ UNCHANGED <<served, published>>
    BY <1>7 DEF Kill, InstallFails, DropFails, Abort
  <2>2. job.backup \in Exports \cup {None}
    BY <1>0 DEF Jobs
  <2>3. leftover' \subseteq Exports /\ output' \in Exports \cup {None}
    BY <1>0, <1>7, <2>2 DEF Kill, InstallFails, DropFails, KeepBackup
  <2>4. OutputKept'
    BY <1>0, <1>7, <2>1 DEF Kill, InstallFails, DropFails, KeepBackup
  <2> QED
    BY <1>0, <1>a, <2>1, <2>3, <2>4
<1>8. CASE Damage \/ ChangeInput \/ ChangeCode
  BY <1>8, <1>b DEF Damage, ChangeInput, ChangeCode
<1>9. CASE UNCHANGED vars
  BY <1>9, <1>b DEF vars
<1> QED
  BY <1>1, <1>2, <1>3, <1>4, <1>5, <1>6, <1>7, <1>8, <1>9 DEF Next, Main, World

-----------------------------------------------------------------------------
(* The theorems.                                                           *)

\* The invariant holds before the first command ...
LEMMA InitInv == Init => IInv
<1> SUFFICES ASSUME Init PROVE IInv
  OBVIOUS
<1>1. Idle \in Jobs
  BY IdleOK
<1>2. JobOK
  BY <1>1 DEF Init, JobOK, Idle, Before, NoManifest
<1>3. InputOK /\ SlotsOK /\ FilesOK
  BY BoundsAssumption, VersionNumbers DEF Init, InputOK, SlotsOK, FilesOK, NoParts
<1>4. SwapOK
  BY DEF Init, SwapOK, OutputKept, Idle
<1> QED
  BY <1>2, <1>3, <1>4 DEF IInv

\* ... and ever after.
THEOREM BuildInvariant == Spec => []IInv
<1>1. IInv /\ [Next]_vars => IInv'
  BY JobStep, InputStep, SlotsStep, FilesStep, SwapStep DEF IInv
<1> QED
  BY <1>1, InitInv, PTL DEF Spec

\* Every variable of the build keeps its type: checkpoints lie in their own slot
\* and only a checkpoint is damaged.
THEOREM BuildTypes == Spec => []TypeOK
<1>1. IInv => TypeOK
  BY DEF IInv, InputOK, SlotsOK, FilesOK, SwapOK, TypeOK
<1> QED
  BY <1>1, BuildInvariant, PTL

\* Whenever a command is killed, or a rename or a removal fails, the export that
\* was installed last is in the output directory or in a backup.
THEOREM BuildOutputKept == Spec => []OutputKept
<1>1. IInv => OutputKept
  BY DEF IInv, SwapOK
<1> QED
  BY <1>1, BuildInvariant, PTL

\* No checkpoint is ever lost, and none is set aside that the run could have used.
THEOREM BuildCheckpointsKept == Spec => CheckpointsKept
<1>1. IInv /\ [Next]_vars =>
        [/\ quarantine \subseteq quarantine'
         /\ \A s \in Shards :
              (active[s] # None /\ active'[s] # active[s]) =>
                /\ active[s] \in quarantine'
                /\ Loads(s, job.current) => job.verdict[s] = "changed"]_vars
  BY SlotsStep
<1> QED
  BY <1>1, BuildInvariant, PTL DEF Spec, CheckpointsKept
-----------------------------------------------------------------------------
(* What an export is made of.                                              *)

\* What a command collected: the parts of the shards it has done.
Gathered ==
  \A s \in Shards :
    job.parts[s] = IF job.current[s] = 0 \/ s \in job.todo THEN None
                   ELSE [version |-> job.current[s], code |-> code]

\* The command hashed, or will hash, what it saw of a shard by this version.
HashedBy(s, v) ==
  job.current[s] # 0 =>
    \E u \in DOMAIN Tables[s] : u <= v /\ job.current[s] = View(s, u)

\* It has read the shard in a version between the one it hashed and the current one.
ReadSince(s) ==
  \E w \in DOMAIN Tables[s] :
    w <= version[s] /\ job.read = View(s, w) /\ HashedBy(s, w)

\* A checkpoint is made of the version its manifest hashed.  Replaced files do not
\* come back, so a shard that is verified was read between two looks at one version.
ReadInv ==
  /\ \A s \in Shards : active[s] # None => active[s].version = active[s].manifest
  /\ job.pc \in {"idle", "discover"} => job.current = NoManifest
  /\ \A s \in Shards : HashedBy(s, version[s])
  /\ job.pc = "verify" => ReadSince(Lowest(job.todo))

\* The parts are those of the shards found and done.
PartsInv ==
  /\ job.pc \in Before \cup {"recover", "remove"} => job.parts = NoParts
  /\ job.pc \in {"shard", "verify"} => job.todo \subseteq Found
  /\ job.pc \in {"shard", "verify", "export", "install"} => Gathered
  /\ job.pc \in {"export", "install"} => job.todo = {}

\* Exports in place, or set aside to be put back, say the truth.
ExportInv == \A e \in {output, job.backup} \ {None} : Sourced(e)

SourceInv == ReadInv /\ PartsInv /\ ExportInv

\* A verified shard was read in the version that was hashed.
LEMMA VerifiedVersion ==
  ASSUME IInv, ReadInv, job.pc = "verify", NEW s \in Shards, s = Lowest(job.todo),
         Seen(s) = job.current[s]
  PROVE  job.read = job.current[s]
<1>1. version[s] \in DOMAIN Tables[s] /\ DOMAIN Tables[s] \subseteq Nat
  BY VersionNumbers DEF IInv, InputOK
<1>2. job.current[s] # 0
  BY SeenListed DEF IInv
<1>3. PICK w \in DOMAIN Tables[s] :
        w <= version[s] /\ job.read = View(s, w) /\ HashedBy(s, w)
  BY DEF ReadInv, ReadSince
<1>4. PICK u \in DOMAIN Tables[s] : u <= w /\ job.current[s] = View(s, u)
  BY <1>2, <1>3 DEF HashedBy
<1>5. View(s, u) = View(s, version[s])
  BY <1>4 DEF Seen
<1>6. CASE s \in job.paired
  <2>1. u = version[s]
    BY <1>5, <1>6 DEF View
  <2> QED
    BY <1>1, <1>3, <1>4, <2>1
<1>7. CASE s \notin job.paired
  <2>1. Core(s, u) = Core(s, version[s])
    BY <1>5, <1>7 DEF View
  <2>2. Core(s, w) = Core(s, u)
    BY <1>1, <1>3, <1>4, <2>1, VersionsAssumption
  <2> QED
    BY <1>3, <1>4, <1>7, <2>2 DEF View
<1> QED
  BY <1>6, <1>7

\* The input only moves forward.
LEMMA VersionsGrow ==
  ASSUME IInv, [Next]_vars
  PROVE  \A s \in Shards : version[s] <= version'[s]
<1>0. version \in [Shards -> Nat \ {0}]
  BY DEF IInv, InputOK
<1>1. CASE UNCHANGED version
  BY <1>0, <1>1
<1>2. CASE ChangeInput
  BY <1>0, <1>2 DEF ChangeInput
<1> QED
  BY <1>1, <1>2
     DEF Next, Main, World, Start, Discover, Hash, Reconcile, Recover, Recovered, Retire,
         Retired, Reuse, Requeue, Segment, VerifyAndPublish, WriteInventory, Refuse,
         MoveAside, Install, DropBackup, Finish, PublishExport, Kill, InstallFails, DropFails,
         AnswerLost, Damage, ChangeCode, Kept, input, vars

\* A checkpoint appears in a slot when its shard is verified.
LEMMA SlotsChange ==
  ASSUME IInv, [Next]_vars, NEW s \in Shards, active'[s] # None
  PROVE  \/ active'[s] = active[s]
         \/ /\ VerifyAndPublish /\ s = Lowest(job.todo) /\ Seen(s) = job.current[s]
            /\ active'[s] = Checkpoint(s)
<1>0. active \in [Shards -> Checkpoints \cup {None}] /\ damaged \in SUBSET Shards
  BY DEF IInv, SlotsOK
<1>1. ASSUME NEW r \in Shards, SetAside(r) PROVE active'[s] = active[s]
  BY <1>0, <1>1 DEF SetAside
<1>2. CASE VerifyAndPublish
  <2> DEFINE r == Lowest(job.todo)
  <2>1. r \in Shards
    BY <1>2, LowestInside DEF VerifyAndPublish, IInv, JobOK, Jobs
  <2>2. CASE UNCHANGED workDir
    BY <2>2 DEF workDir
  <2>3. CASE Seen(r) = job.current[r] /\ active' = [active EXCEPT ![r] = Checkpoint(r)]
    <3>1. s # r => active'[s] = active[s]
      BY <1>0, <2>3
    <3>2. s = r => active'[s] = Checkpoint(r)
      BY <1>0, <2>3
    <3> QED
      BY <1>2, <2>3, <3>1, <3>2
  <2> QED
    BY <1>2, <2>2, <2>3 DEF VerifyAndPublish, Publish
<1>3. CASE Recover
  <2>1. Lowest(job.todo) \in Shards
    BY <1>3, LowestInside DEF Recover, IInv, JobOK, Jobs
  <2> QED
    BY <1>1, <1>3, <2>1 DEF Recover
<1>4. CASE Retire
  <2>1. Lowest(job.todo) \in Shards
    BY <1>4, LowestInside DEF Retire, IInv, JobOK, Jobs
  <2> QED
    BY <1>1, <1>4, <2>1 DEF Retire
<1>5. CASE \E r \in Shards : Requeue(r)
  BY <1>1, <1>5 DEF Requeue
<1> QED
  BY <1>2, <1>3, <1>4, <1>5
     DEF Next, Main, World, Start, Discover, Hash, Reconcile, Recovered, Retired, Reuse,
         Segment, WriteInventory, Refuse, MoveAside, Install, DropBackup, Finish, PublishExport,
         Kill, InstallFails, DropFails, AnswerLost, Damage, ChangeInput, ChangeCode, workDir, vars

\* A checkpoint that appears in a slot is made of the version that was hashed.
LEMMA CheckpointsRead ==
  ASSUME IInv, ReadInv, [Next]_vars, NEW s \in Shards, active'[s] # None
  PROVE  active'[s].version = active'[s].manifest
<1>1. CASE active'[s] = active[s]
  BY <1>1 DEF ReadInv
<1>2. CASE /\ VerifyAndPublish /\ s = Lowest(job.todo) /\ Seen(s) = job.current[s]
           /\ active'[s] = Checkpoint(s)
  <2>1. job.read = job.current[s]
    BY <1>2, VerifiedVersion DEF VerifyAndPublish
  <2> QED
    BY <1>2, <2>1 DEF Checkpoint
<1> QED
  BY <1>1, <1>2, SlotsChange

\* What a step does with the hashes and the parts of the command: it forgets
\* them, keeps them, hashes a shard or collects one.
Handles ==
  \/ job' = Idle
  \/ /\ job'.current = job.current /\ job'.parts = job.parts
     /\ Discover \/ job'.paired = job.paired
  \/ Hash /\ \E s \in job.todo :
               job' = [job EXCEPT !.current[s] = Seen(s), !.todo = @ \ {s}]
  \/ \E s \in Shards : Reuse(s)
  \/ VerifyAndPublish

\* Every step handles them in one of these ways.
LEMMA HandlesStep ==
  ASSUME IInv, [Next]_vars
  PROVE  Handles
<1>0. job \in Jobs
  BY DEF IInv, JobOK
<1> USE DEF Handles
<1>1. CASE Start \/ Discover \/ Recovered \/ Retire \/ Retired
  BY <1>0, <1>1 DEF Start, Discover, Recovered, Retire, Retired, Go, Give, Abort, Jobs
<1>2. CASE Hash
  <2>1. Lowest(job.todo) \in job.todo
    BY <1>0, <1>2, LowestInside DEF Hash, Jobs
  <2> QED
    BY <1>2, <2>1 DEF Hash, Abort
<1>3. CASE Reconcile
  BY <1>0, <1>3 DEF Reconcile, Jobs
<1>4. CASE Recover
  BY <1>0, <1>4 DEF Recover, Jobs
<1>5. ASSUME NEW s \in Shards, Requeue(s) \/ Segment(s) PROVE Handles
  BY <1>0, <1>5 DEF Requeue, Segment, Abort, Jobs
<1>6. CASE WriteInventory \/ Refuse \/ MoveAside \/ Install \/ DropBackup \/ Finish
             \/ PublishExport
  BY <1>0, <1>6 DEF WriteInventory, Refuse, MoveAside, Install, DropBackup, Finish,
                    PublishExport, Go, Abort, Jobs
<1>7. CASE Kill \/ InstallFails \/ DropFails \/ AnswerLost
  BY <1>7 DEF Kill, InstallFails, DropFails, AnswerLost, Abort
<1>8. CASE Damage \/ ChangeInput \/ ChangeCode \/ UNCHANGED vars
  BY <1>8 DEF Damage, ChangeInput, ChangeCode, vars
<1> QED
  BY <1>1, <1>2, <1>3, <1>4, <1>5, <1>6, <1>7, <1>8 DEF Next, Main, World

\* Whoever goes on to verify a shard has just read it.
LEMMA VerifyEntered ==
  ASSUME IInv, [Next]_vars, job'.pc = "verify"
  PROVE  \/ UNCHANGED job
         \/ \E s \in Shards : /\ Segment(s)
                              /\ AtShard(s) /\ <<s, Seen(s)>> \in Checkpointable
                              /\ job' = [job EXCEPT !.pc = "verify", !.read = Seen(s)]
<1>0. job \in Jobs /\ Idle.pc = "idle"
  BY DEF IInv, JobOK, Idle
<1>1. ASSUME Start \/ Discover \/ Hash \/ Reconcile \/ Recover PROVE job'.pc # "verify"
  <2>1. CASE Start \/ Discover
    BY <1>0, <2>1 DEF Start, Discover, Go, Give, Abort, Jobs
  <2>2. CASE Hash
    BY <1>0, <2>2 DEF Hash, Abort, Jobs
  <2>3. CASE Reconcile
    BY <1>0, <2>3 DEF Reconcile, Jobs
  <2>4. CASE Recover
    BY <1>0, <2>4 DEF Recover, Jobs
  <2> QED
    BY <1>1, <2>1, <2>2, <2>3, <2>4
<1>2. ASSUME Recovered \/ Retire \/ Retired PROVE job'.pc # "verify"
  BY <1>0, <1>2 DEF Recovered, Retire, Retired, Give, Jobs
<1>3. ASSUME NEW s \in Shards, Requeue(s) \/ Reuse(s) PROVE job'.pc # "verify"
  <2>1. CASE Requeue(s)
    BY <1>0, <2>1 DEF Requeue, AtShard, Jobs
  <2>2. CASE Reuse(s)
    BY <1>0, <2>2 DEF Reuse, Collect, Jobs
  <2> QED
    BY <1>3, <2>1, <2>2
<1>4. ASSUME NEW s \in Shards, Segment(s)
      PROVE  /\ AtShard(s) /\ <<s, Seen(s)>> \in Checkpointable
             /\ job' = [job EXCEPT !.pc = "verify", !.read = Seen(s)]
  BY <1>0, <1>4 DEF Segment, Abort
<1>5. ASSUME VerifyAndPublish PROVE job'.pc # "verify"
  BY <1>0, <1>5 DEF VerifyAndPublish, Publish, Collect, Abort, Jobs
<1>6. ASSUME WriteInventory \/ MoveAside \/ Install \/ DropBackup PROVE job'.pc # "verify"
  BY <1>0, <1>6 DEF WriteInventory, MoveAside, Install, DropBackup, Go, Jobs
<1>7. ASSUME Refuse \/ Finish \/ PublishExport PROVE job'.pc # "verify"
  BY <1>0, <1>7 DEF Refuse, Finish, PublishExport, Go, Abort, Jobs
<1>8. ASSUME Kill \/ InstallFails \/ DropFails \/ AnswerLost PROVE job'.pc # "verify"
  BY <1>0, <1>8 DEF Kill, InstallFails, DropFails, AnswerLost, Abort
<1>9. CASE Damage \/ ChangeInput \/ ChangeCode \/ UNCHANGED vars
  BY <1>9 DEF Damage, ChangeInput, ChangeCode, vars
<1> QED
  BY <1>1, <1>2, <1>3, <1>4, <1>5, <1>6, <1>7, <1>8, <1>9 DEF Next, Main, World

\* As long as the command looks at the same files of a shard, the hash of a shard
\* stands for what it saw.
LEMMA HashStays ==
  ASSUME IInv, NEW s \in Shards, NEW v \in DOMAIN Tables[s], NEW w \in DOMAIN Tables[s],
         v <= w, HashedBy(s, v), job'.paired = job.paired,
         job'.current[s] = job.current[s]
  PROVE  HashedBy(s, w)'
<1>1. DOMAIN Tables[s] \subseteq Nat
  BY VersionNumbers
<1>2. \A u : View(s, u)' = View(s, u)
  BY DEF View
<1> QED
  BY <1>1, <1>2 DEF HashedBy

\* What every step does with the files and hashes of a command that goes on.
LEMMA PairedStep ==
  ASSUME IInv, ReadInv, [Next]_vars, job' # Idle
  PROVE  \/ job'.current = NoManifest
         \/ /\ job'.paired = job.paired
            /\ \/ job'.current = job.current
               \/ \E s \in Shards :
                    job'.current = [job.current EXCEPT ![s] = Seen(s)] /\ Hash
<1>0. job \in Jobs
  BY DEF IInv, JobOK
<1>1. CASE Discover
  <2>1. job.current = NoManifest
    BY <1>1 DEF Discover, ReadInv
  <2> QED
    BY <1>0, <1>1, <2>1 DEF Discover, Abort, Jobs
<1>2. ASSUME NEW s \in job.todo, job' = [job EXCEPT !.current[s] = Seen(s), !.todo = @ \ {s}],
             Hash
      PROVE  /\ job'.paired = job.paired
             /\ s \in Shards
             /\ job'.current = [job.current EXCEPT ![s] = Seen(s)]
  BY <1>0, <1>2 DEF Jobs
<1>3. ASSUME NEW s \in Shards, NEW part, Collect(s, part)
      PROVE  job'.paired = job.paired /\ job'.current = job.current
  BY <1>0, <1>3 DEF Collect, Jobs
<1>4. CASE VerifyAndPublish
  BY <1>3, <1>4, LowestInside
     DEF VerifyAndPublish, Publish, Abort, IInv, JobOK, Jobs
<1>5. ASSUME NEW s \in Shards, Reuse(s) PROVE job'.paired = job.paired /\ job'.current = job.current
  BY <1>3, <1>5 DEF Reuse
<1> QED
  BY <1>1, <1>2, <1>4, <1>5, HandlesStep DEF Handles

\* A command that has not hashed yet knows no hash.
LEMMA EarlyHashes ==
  ASSUME IInv, ReadInv, [Next]_vars, job'.pc \in {"idle", "discover"}
  PROVE  job'.current = NoManifest
<1>0. job \in Jobs
  BY DEF IInv, JobOK
<1>1. CASE job' = Idle
  BY <1>1 DEF Idle
<1>2. CASE UNCHANGED job
  BY <1>2 DEF ReadInv
<1>3. CASE Start
  BY <1>0, <1>3 DEF Start, Go, ReadInv, Jobs
<1>4. ASSUME Discover \/ Hash \/ Reconcile \/ Recover \/ Recovered \/ Retire \/ Retired
      PROVE  job' = Idle
  <2>1. CASE Discover
    BY <1>0, <2>1 DEF Discover, Abort, Jobs
  <2>2. CASE Hash
    BY <1>0, <2>2 DEF Hash, Abort, Jobs
  <2>3. CASE Reconcile
    BY <1>0, <2>3 DEF Reconcile, Jobs
  <2>4. CASE Recover
    BY <1>0, <2>4 DEF Recover, Jobs
  <2>5. CASE Recovered \/ Retired
    BY <1>0, <2>5 DEF Recovered, Retired, Give, Jobs
  <2>6. CASE Retire
    BY <1>0, <2>6 DEF Retire, Jobs
  <2> QED
    BY <1>4, <2>1, <2>2, <2>3, <2>4, <2>5, <2>6
<1>5. ASSUME NEW s \in Shards, Reuse(s) \/ Requeue(s) \/ Segment(s)
      PROVE  job' = Idle
  <2>1. CASE Reuse(s)
    BY <1>0, <2>1 DEF Reuse, Collect, Jobs
  <2>2. CASE Requeue(s)
    BY <1>0, <2>2 DEF Requeue, AtShard, Jobs
  <2>3. CASE Segment(s)
    BY <1>0, <2>3 DEF Segment, Abort, Jobs
  <2> QED
    BY <1>5, <2>1, <2>2, <2>3
<1>6. CASE VerifyAndPublish
  BY <1>0, <1>1, <1>6 DEF VerifyAndPublish, Publish, Collect, Abort, Jobs
<1>7. ASSUME WriteInventory \/ MoveAside \/ Install \/ DropBackup PROVE FALSE
  BY <1>0, <1>7 DEF WriteInventory, MoveAside, Install, DropBackup, Go, Jobs
<1>8. ASSUME Refuse \/ Finish \/ PublishExport PROVE job' = Idle
  BY <1>0, <1>8 DEF Refuse, Finish, PublishExport, Go, Abort, Jobs
<1>9. ASSUME Kill \/ InstallFails \/ DropFails \/ AnswerLost PROVE job' = Idle
  BY <1>9 DEF Kill, InstallFails, DropFails, AnswerLost, Abort
<1>10. CASE Damage \/ ChangeInput \/ ChangeCode \/ UNCHANGED vars
  BY <1>2, <1>10 DEF Damage, ChangeInput, ChangeCode, vars
<1> QED
  BY <1>1, <1>3, <1>4, <1>5, <1>6, <1>7, <1>8, <1>9, <1>10 DEF Next, Main, World

\* Hashing a shard records what the command sees of its current version, which
\* no step of the command changes.
LEMMA HashesStep ==
  ASSUME IInv, ReadInv, [Next]_vars, NEW s \in Shards
  PROVE  HashedBy(s, version[s])'
<1>0. /\ job \in Jobs /\ version[s] \in DOMAIN Tables[s] /\ version'[s] \in DOMAIN Tables[s]
      /\ DOMAIN Tables[s] \subseteq Nat
  BY InputStep, VersionNumbers DEF IInv, JobOK, InputOK
<1>1. CASE job' = Idle \/ job'.current = NoManifest
  <2>1. job'.current[s] = 0
    BY <1>1 DEF Idle, NoManifest
  <2> QED
    BY <2>1 DEF HashedBy
<1>2. ASSUME job'.paired = job.paired, job'.current[s] = job.current[s]
      PROVE  HashedBy(s, version[s])'
  <2>1. version[s] <= version'[s] /\ HashedBy(s, version[s])
    BY VersionsGrow DEF ReadInv
  <2>2. PICK w \in DOMAIN Tables[s] : w = version'[s]
    BY <1>0
  <2>3. HashedBy(s, w)'
    BY <1>0, <1>2, <2>1, <2>2, HashStays
  <2> QED
    BY <2>2, <2>3 DEF HashedBy
<1>3. ASSUME Hash, job'.paired = job.paired, job'.current[s] = Seen(s)
      PROVE  HashedBy(s, version[s])'
  <2>1. UNCHANGED version
    BY <1>3 DEF Hash, Kept, input
  <2>2. job'.current[s] = View(s, version[s])' /\ version'[s] <= version'[s]
    BY <1>0, <1>3, <2>1 DEF View, Seen
  <2> QED
    BY <1>0, <2>2 DEF HashedBy
<1>4. ASSUME NEW r \in Shards, job'.current = [job.current EXCEPT ![r] = Seen(r)]
      PROVE  job'.current[s] = IF s = r THEN Seen(s) ELSE job.current[s]
  BY <1>0, <1>4 DEF Jobs, Manifests
<1> QED
  BY <1>1, <1>2, <1>3, <1>4, PairedStep

\* A shard that is verified was read after it was hashed.
LEMMA ReadStep ==
  ASSUME IInv, ReadInv, [Next]_vars
  PROVE  ReadInv'
<1>0. job \in Jobs /\ \A s \in Shards : version[s] \in DOMAIN Tables[s]
                                       /\ version'[s] \in DOMAIN Tables[s]
                                       /\ DOMAIN Tables[s] \subseteq Nat
  BY InputStep, VersionNumbers DEF IInv, JobOK, InputOK
<1>1. ASSUME job'.pc = "verify" PROVE ReadSince(Lowest(job.todo))' /\ job'.todo = job.todo
  <2>1. CASE UNCHANGED job
    <3>1. PICK s \in Shards : s = Lowest(job.todo)
      BY <1>0, <1>1, <2>1, LowestInside DEF IInv, JobOK, Jobs
    <3>2. PICK w \in DOMAIN Tables[s] :
            w <= version[s] /\ job.read = View(s, w) /\ HashedBy(s, w)
      BY <1>1, <2>1, <3>1 DEF ReadInv, ReadSince
    <3>3. w <= version'[s]
      BY <1>0, <3>1, <3>2, VersionsGrow
    <3>4. job'.read = View(s, w)' /\ HashedBy(s, w)'
      BY <2>1, <3>2 DEF View, HashedBy
    <3>5. ReadSince(s)'
      BY <3>2, <3>3, <3>4 DEF ReadSince
    <3> QED
      BY <2>1, <3>1, <3>5
  <2>2. ASSUME NEW s \in Shards, AtShard(s), Segment(s),
               job' = [job EXCEPT !.pc = "verify", !.read = Seen(s)]
        PROVE  ReadSince(Lowest(job.todo))' /\ job'.todo = job.todo
    <3>1. /\ job'.current = job.current /\ job'.todo = job.todo /\ job'.read = Seen(s)
          /\ job'.paired = job.paired
          /\ s = Lowest(job.todo) /\ UNCHANGED version
      BY <1>0, <2>2 DEF AtShard, Jobs, Segment, Kept, input
    <3>2. HashedBy(s, version[s])
      BY DEF ReadInv
    <3>3. job'.read = View(s, version[s])' /\ HashedBy(s, version[s])'
      BY <3>1, <3>2 DEF Seen, View, HashedBy
    <3>4. version'[s] \in DOMAIN Tables[s] /\ version'[s] <= version'[s]
      BY <1>0
    <3>5. ReadSince(s)'
      BY <3>3, <3>4 DEF ReadSince, HashedBy
    <3> QED
      BY <3>1, <3>5
  <2> QED
    BY <1>1, <2>1, <2>2, VerifyEntered
<1>2. (job'.pc = "verify" => ReadSince(Lowest(job.todo))')
  BY <1>1 DEF ReadSince
<1> QED
  BY <1>1, <1>2, EarlyHashes, HashesStep, CheckpointsRead DEF ReadInv

\* A step before the shards gathers nothing.
LEMMA EarlyParts ==
  ASSUME PartsInv, job.pc \in Before \cup {"recover", "remove"},
         job'.pc \in Before \cup {"recover", "remove"}, job'.parts = job.parts
  PROVE  PartsInv'
BY DEF PartsInv, Before

\* The step that collects a shard gathers its part.
LEMMA CollectsPart ==
  ASSUME job \in Jobs, PartsInv, job.pc \in {"shard", "verify"}, UNCHANGED code,
         NEW s \in job.todo, NEW part, Collect(s, part),
         part = [version |-> job.current[s], code |-> code]
  PROVE  PartsInv'
<1>1. /\ job'.pc = "shard" /\ job'.todo = job.todo \ {s} /\ job'.current = job.current
      /\ job'.parts = [job.parts EXCEPT ![s] = part]
  BY DEF Collect, Jobs
<1>2. job.todo \subseteq Found /\ Gathered /\ Found' = Found
  BY <1>1 DEF PartsInv, Found
<1>3. job.current[s] # 0
  BY <1>2 DEF Found
<1>4. ASSUME NEW r \in Shards
      PROVE  job'.parts[r] = IF job'.current[r] = 0 \/ r \in job'.todo THEN None
                             ELSE [version |-> job'.current[r], code |-> code']
  <2>1. CASE r = s
    <3>1. job'.parts[r] = part
      BY <1>1, <2>1 DEF Jobs
    <3> QED
      BY <1>1, <1>3, <2>1, <3>1
  <2>2. CASE r # s
    <3>1. job'.parts[r] = job.parts[r]
      BY <1>1, <2>2 DEF Jobs
    <3> QED
      BY <1>1, <1>2, <2>2, <3>1 DEF Gathered
  <2> QED
    BY <2>1, <2>2
<1>5. Gathered'
  BY <1>4 DEF Gathered
<1> QED
  BY <1>1, <1>2, <1>5 DEF PartsInv, Before

\* The steps at a shard.
LEMMA ShardParts ==
  ASSUME IInv, ReadInv, PartsInv, NEW s \in Shards, Reuse(s) \/ Requeue(s) \/ Segment(s)
  PROVE  job' = Idle \/ PartsInv'
<1>0. job \in Jobs /\ s \in job.todo /\ job.pc = "shard" /\ UNCHANGED code
  <2>1. job \in Jobs
    BY DEF IInv, JobOK
  <2>2. AtShard(s) /\ UNCHANGED code
    BY DEF Reuse, Requeue, Segment, Kept, input
  <2> QED
    BY <2>1, <2>2, LowestInside DEF AtShard, Jobs
<1>1. CASE Reuse(s)
  <2>1. active[s] # None /\ active[s].code = code /\ active[s].version = job.current[s]
    BY <1>1 DEF Reuse, Loads, ReadInv
  <2> QED
    BY <1>0, <1>1, <2>1, CollectsPart DEF Reuse, Part
<1>2. CASE Requeue(s) \/ Segment(s)
  <2>1. CASE job' = Idle
    BY <2>1
  <2>2. CASE /\ job'.pc \in {"shard", "verify"} /\ job'.todo = job.todo
             /\ job'.current = job.current /\ job'.parts = job.parts
    <3>1. job.todo \subseteq Found /\ Gathered /\ Found' = Found
      BY <1>0, <2>2 DEF PartsInv, Found
    <3>2. Gathered'
      BY <1>0, <2>2, <3>1 DEF Gathered
    <3> QED
      BY <2>2, <3>1, <3>2 DEF PartsInv, Before
  <2>3. CASE Requeue(s)
    <3>1. /\ job'.pc = "shard" /\ job'.todo = job.todo
          /\ job'.current = job.current /\ job'.parts = job.parts
      BY <1>0, <2>3 DEF Requeue, Jobs
    <3> QED
      BY <2>2, <3>1
  <2>4. CASE Segment(s)
    <3>1. ASSUME job' = [job EXCEPT !.pc = "verify", !.read = Seen(s)]
          PROVE  /\ job'.pc = "verify" /\ job'.todo = job.todo
                 /\ job'.current = job.current /\ job'.parts = job.parts
      BY <1>0, <3>1 DEF Jobs
    <3> QED
      BY <2>1, <2>2, <2>4, <3>1 DEF Segment, Abort
  <2> QED
    BY <1>2, <2>3, <2>4
<1> QED
  BY <1>1, <1>2

\* The parts are those of the shards found and done, after every step.
LEMMA PartsStep ==
  ASSUME IInv, ReadInv, PartsInv, [Next]_vars
  PROVE  PartsInv'
<1>0. job \in Jobs
  BY DEF IInv, JobOK
<1>a. ASSUME job' = Idle PROVE PartsInv'
  <2>1. job'.pc = "idle" /\ job'.parts = NoParts
    BY <1>a DEF Idle
  <2> QED
    BY <2>1 DEF PartsInv, Before
<1>b. ASSUME UNCHANGED <<job, code>> PROVE PartsInv'
  BY <1>b DEF PartsInv, Gathered, Found
<1>1. CASE Start \/ Discover \/ Hash \/ Reconcile
  <2>1. job.pc \in Before
    BY <1>1 DEF Start, Discover, Hash, Reconcile, Before
  <2>2. \/ job' = Idle
        \/ job'.pc \in Before \cup {"recover"} /\ job'.parts = job.parts
    <3>1. CASE Start \/ Discover
      BY <1>0, <3>1 DEF Start, Discover, Go, Give, Abort, Before, Jobs
    <3>2. CASE Hash
      BY <1>0, <3>2 DEF Hash, Abort, Before, Jobs
    <3>3. CASE Reconcile
      BY <1>0, <3>3 DEF Reconcile, Jobs
    <3> QED
      BY <1>1, <3>1, <3>2, <3>3
  <2> QED
    BY <1>a, <2>1, <2>2, EarlyParts
<1>2. CASE Recover \/ Recovered \/ Retire
  <2>1. job.pc \in {"recover", "remove"}
    BY <1>2 DEF Recover, Recovered, Retire
  <2>2. job'.pc \in {"recover", "remove"} /\ job'.parts = job.parts
    <3>1. CASE Recover
      BY <1>0, <3>1 DEF Recover, Jobs
    <3>2. CASE Recovered \/ Retire
      BY <1>0, <3>2 DEF Recovered, Retire, Give, Jobs
    <3> QED
      BY <1>2, <3>1, <3>2
  <2> QED
    BY <2>1, <2>2, EarlyParts
<1>3. CASE Retired
  <2>1. /\ job'.pc = "shard" /\ job'.todo = Found /\ job'.current = job.current
        /\ job'.parts = NoParts
    BY <1>0, <1>3 DEF Retired, Give, PartsInv, Jobs
  <2>2. Gathered' /\ Found' = Found
    BY <2>1 DEF Gathered, Found, NoParts
  <2> QED
    BY <2>1, <2>2 DEF PartsInv, Before
<1>4. ASSUME NEW s \in Shards, Reuse(s) \/ Requeue(s) \/ Segment(s) PROVE PartsInv'
  BY <1>a, <1>4, ShardParts
<1>5. CASE VerifyAndPublish
  <2> DEFINE s == Lowest(job.todo)
  <2>1. s \in job.todo /\ s \in Shards
    BY <1>0, <1>5, LowestInside DEF VerifyAndPublish, IInv, JobOK, Jobs
  <2>2. CASE Abort
    BY <1>a, <2>2 DEF Abort
  <2>3. ASSUME Seen(s) = job.current[s], Collect(s, Part(Checkpoint(s))) PROVE PartsInv'
    <3>1. job.read = job.current[s]
      BY <1>5, <2>1, <2>3, VerifiedVersion DEF VerifyAndPublish
    <3>2. Part(Checkpoint(s)) = [version |-> job.current[s], code |-> code]
      BY <3>1 DEF Part, Checkpoint
    <3>3. job.pc = "verify" /\ UNCHANGED code
      BY <1>5 DEF VerifyAndPublish, Kept, input
    <3> QED
      BY <1>0, <2>1, <2>3, <3>2, <3>3, CollectsPart
  <2> QED
    BY <1>5, <2>2, <2>3 DEF VerifyAndPublish, Publish
<1>6. CASE WriteInventory \/ MoveAside
  <2>1. /\ job.pc \in {"shard", "export"} /\ job'.pc \in {"export", "install"}
        /\ job'.todo = job.todo /\ job'.current = job.current /\ job'.parts = job.parts
        /\ UNCHANGED code
    BY <1>0, <1>6 DEF WriteInventory, MoveAside, Go, Kept, input, Jobs
  <2>2. Gathered /\ job.todo = {}
    BY <1>6, <2>1 DEF PartsInv, WriteInventory, MoveAside
  <2>3. Gathered'
    BY <2>1, <2>2 DEF Gathered
  <2> QED
    BY <2>1, <2>2, <2>3 DEF PartsInv, Before
<1>7. CASE Install \/ DropBackup \/ Finish
  <2>1. job' = Idle \/ job'.pc \in {"drop", "completed", "publish"}
    BY <1>0, <1>7 DEF Install, DropBackup, Finish, Go, Abort, Jobs
  <2> QED
    BY <1>a, <2>1 DEF PartsInv, Before
<1>8. CASE Refuse \/ PublishExport \/ Kill \/ InstallFails \/ DropFails \/ AnswerLost
  BY <1>a, <1>8
     DEF Refuse, PublishExport, Kill, InstallFails, DropFails, AnswerLost, Abort
<1>9. CASE Damage \/ UNCHANGED vars
  BY <1>b, <1>9 DEF Damage, input, vars
<1>10. CASE ChangeInput \/ ChangeCode
  <2>1. CASE UNCHANGED <<job, code>>
    BY <1>b, <2>1
  <2>2. CASE job.pc = "idle" /\ UNCHANGED job
    BY <2>2, EarlyParts DEF Before
  <2> QED
    BY <1>10, <2>1, <2>2 DEF ChangeInput, ChangeCode
<1> QED
  BY <1>1, <1>2, <1>3, <1>4, <1>5, <1>6, <1>7, <1>8, <1>9, <1>10 DEF Next, Main, World

\* An export is made of what the command gathered when all shards are done.
LEMMA GatheredSourced ==
  ASSUME Gathered, job.todo = {}
  PROVE  Sourced(Export)
BY DEF Gathered, Sourced, Export

\* Exports are installed from what a command gathered, set aside, put back and
\* published, and made in no other way.
LEMMA ExportsMove ==
  ASSUME IInv, [Next]_vars
  PROVE  /\ job'.backup \in {job.backup, output, None}
         /\ output' \in {output, job.backup, None} \/ (Install /\ output' = Export)
         /\ published' \in {published, output}
<1>0. job \in Jobs /\ Idle.backup = None
  BY DEF IInv, JobOK, Idle
<1> USE DEF outputs
<1>1. CASE Install
  BY <1>0, <1>1 DEF Install, Go, Jobs
<1>2. CASE MoveAside
  BY <1>0, <1>2 DEF MoveAside, Jobs
<1>3. CASE DropBackup \/ InstallFails
  BY <1>0, <1>3 DEF DropBackup, InstallFails, Abort, Jobs
<1>4. CASE Start \/ Discover \/ Hash \/ Reconcile \/ Recover \/ Recovered \/ Retire
             \/ Retired \/ WriteInventory
  BY <1>0, <1>4
     DEF Start, Discover, Hash, Reconcile, Recover, Recovered, Retire, Retired,
         WriteInventory, Jobs, Go, Give, Abort
<1>5. ASSUME NEW s \in Shards, Reuse(s) \/ Requeue(s) \/ Segment(s)
      PROVE  UNCHANGED <<output, published>> /\ job'.backup \in {job.backup, None}
  BY <1>0, <1>5 DEF Reuse, Requeue, Segment, Collect, Jobs, Abort
<1>6. CASE VerifyAndPublish
  BY <1>0, <1>6 DEF VerifyAndPublish, Publish, Collect, Jobs, Abort
<1>7. CASE Refuse \/ Finish \/ PublishExport \/ Kill \/ DropFails \/ AnswerLost
  BY <1>0, <1>7
     DEF Refuse, Finish, PublishExport, Kill, DropFails, AnswerLost, Jobs, Go, Abort
<1>8. CASE Damage \/ ChangeInput \/ ChangeCode \/ UNCHANGED vars
  BY <1>8 DEF Damage, ChangeInput, ChangeCode, vars
<1> QED
  BY <1>1, <1>2, <1>3, <1>4, <1>5, <1>6, <1>7, <1>8 DEF Next, Main, World

\* The output is the last export, the one before it, or missing.
LEMMA ExportStep ==
  ASSUME IInv, PartsInv, ExportInv, [Next]_vars
  PROVE  ExportInv'
<1>1. ASSUME Install, output' = Export PROVE Sourced(output')
  <2>1. Gathered /\ job.todo = {}
    BY <1>1 DEF Install, PartsInv
  <2>2. PICK e : e = Export
    OBVIOUS
  <2>3. Sourced(e) /\ output' = e
    BY <1>1, <2>1, <2>2, GatheredSourced
  <2> QED
    BY <2>3
<1> QED
  BY <1>1, ExportsMove DEF ExportInv

\* What is in the output directory is made of the files its inventory hashed and
\* of no others, all segmented by the code it names, whatever earlier runs left
\* in the work directory and however the input moves while a run reads it.
THEOREM BuildExportSourced == Spec => []ExportIsInventory
<1>1. Init => SourceInv
  <2> SUFFICES ASSUME Init PROVE SourceInv
    OBVIOUS
  <2>1. job.pc = "idle" /\ job.current = NoManifest /\ job.parts = NoParts /\ job.backup = None
    BY DEF Init, Idle
  <2>2. ReadInv
    BY <2>1 DEF Init, ReadInv, HashedBy, NoManifest, NoParts
  <2>3. PartsInv /\ ExportInv
    BY <2>1 DEF Init, PartsInv, ExportInv, Before
  <2> QED
    BY <2>2, <2>3 DEF SourceInv
<1>2. IInv /\ SourceInv /\ [Next]_vars => SourceInv'
  BY ReadStep, PartsStep, ExportStep DEF SourceInv
<1>3. SourceInv => ExportIsInventory
  BY DEF SourceInv, ExportInv, ExportIsInventory
<1> QED
  BY <1>1, <1>2, <1>3, BuildInvariant, PTL DEF Spec
-----------------------------------------------------------------------------
(* What can be joined and segmented.                                       *)

\* Parts, or checkpoints, of inputs that can be segmented.
Segmented(parts) ==
  \A s \in Shards : parts[s] # None => <<s, parts[s].version>> \in Checkpointable

\* Nothing is checkpointed, collected, exported or published that the join refuses.
SoundInv ==
  /\ Segmented(active) /\ Segmented(job.parts)
  /\ job.pc = "verify" => <<Lowest(job.todo), job.read>> \in Checkpointable
  /\ \A e \in {output, published, job.backup} \ {None} : Segmented(e.parts)

\* Every step keeps that.
LEMMA SoundStep ==
  ASSUME IInv, SoundInv, [Next]_vars
  PROVE  SoundInv'
<1>0. /\ job \in Jobs
      /\ job.pc = "verify" => Lowest(job.todo) \in Shards
  BY LowestInside DEF IInv, JobOK, Jobs
<1>1. ASSUME NEW s \in Shards, active'[s] # None
      PROVE  <<s, active'[s].version>> \in Checkpointable
  <2>1. CASE active'[s] = active[s]
    BY <1>1, <2>1 DEF SoundInv, Segmented
  <2>2. CASE VerifyAndPublish /\ s = Lowest(job.todo) /\ active'[s] = Checkpoint(s)
    BY <2>2 DEF SoundInv, VerifyAndPublish, Checkpoint
  <2> QED
    BY <1>1, <2>1, <2>2, SlotsChange
<1>a. ASSUME NEW s \in Shards, NEW part, Collect(s, part), <<s, part.version>> \in Checkpointable
      PROVE  Segmented(job'.parts)
  <2>1. job'.parts = [job.parts EXCEPT ![s] = part]
    BY <1>0, <1>a DEF Collect, Jobs
  <2>2. \A r \in Shards : job'.parts[r] = IF r = s THEN part ELSE job.parts[r]
    BY <1>0, <2>1 DEF Jobs
  <2> QED
    BY <1>a, <2>2 DEF SoundInv, Segmented
<1>b. ASSUME job' = Idle PROVE Segmented(job'.parts)
  BY <1>b DEF Idle, NoParts, Segmented
<1>2. Segmented(job'.parts)
  <2>1. CASE job'.parts = job.parts
    BY <2>1 DEF SoundInv
  <2>2. ASSUME NEW s, job' = [job EXCEPT !.current[s] = Seen(s), !.todo = @ \ {s}]
        PROVE  job'.parts = job.parts
    BY <1>0, <2>2 DEF Jobs
  <2>3. ASSUME NEW s \in Shards, Reuse(s) PROVE Segmented(job'.parts)
    <3>1. Collect(s, Part(active[s])) /\ active[s] # None
      BY <2>3 DEF Reuse, Loads
    <3>2. <<s, Part(active[s]).version>> \in Checkpointable
      BY <3>1 DEF SoundInv, Segmented, Part
    <3> QED
      BY <1>a, <3>1, <3>2
  <2>4. CASE VerifyAndPublish
    <3> DEFINE s == Lowest(job.todo)
    <3>1. CASE Abort
      BY <1>b, <3>1 DEF Abort
    <3>2. CASE Collect(s, Part(Checkpoint(s)))
      <4>1. <<s, Part(Checkpoint(s)).version>> \in Checkpointable /\ s \in Shards
        BY <1>0, <2>4 DEF SoundInv, VerifyAndPublish, Part, Checkpoint
      <4> QED
        BY <1>a, <3>2, <4>1
    <3> QED
      BY <2>4, <3>1, <3>2 DEF VerifyAndPublish, Publish
  <2> QED
    BY <1>b, <2>1, <2>2, <2>3, <2>4, HandlesStep DEF Handles
<1>3. ASSUME job'.pc = "verify" PROVE <<Lowest(job'.todo), job'.read>> \in Checkpointable
  <2>1. CASE UNCHANGED job
    BY <1>3, <2>1 DEF SoundInv
  <2>2. ASSUME NEW s \in Shards, AtShard(s), <<s, Seen(s)>> \in Checkpointable,
               job' = [job EXCEPT !.pc = "verify", !.read = Seen(s)]
        PROVE  <<Lowest(job'.todo), job'.read>> \in Checkpointable
    <3>1. job'.todo = job.todo /\ job'.read = Seen(s) /\ s = Lowest(job.todo)
      BY <1>0, <2>2 DEF AtShard, Jobs
    <3> QED
      BY <2>2, <3>1
  <2> QED
    BY <1>3, <2>1, <2>2, VerifyEntered
<1>4. ASSUME NEW e \in {output', published', job'.backup} \ {None} PROVE Segmented(e.parts)
  <2>1. CASE e = Export
    BY <2>1 DEF SoundInv, Export
  <2> QED
    BY <2>1, ExportsMove DEF SoundInv
<1> QED
  BY <1>1, <1>2, <1>3, <1>4 DEF SoundInv, Segmented
-----------------------------------------------------------------------------
(* The sentences of a section.                                             *)

\* The segments that are kept, in their order.
LEMMA SegmentsList ==
  ASSUME NEW text \in Seq(Nat), NEW S, S = {i \in DOMAIN text : text[i] # 0}
  PROVE  IsFiniteSet(S) /\ Lists(Segments(text), S)
<1> DEFINE nth(n) == CHOOSE x \in S : Cardinality({y \in S : y < x}) = n - 1
<1>0. PICK R : R = {z \in S \X S : z[1] < z[2]}
  OBVIOUS
<1>1. IsFiniteSet(S) /\ S \subseteq Nat
  <2>1. 1 \in Int /\ Len(text) \in Int /\ DOMAIN text = 1 .. Len(text)
    OBVIOUS
  <2>2. IsFiniteSet(1 .. Len(text))
    BY <2>1, FS_Interval
  <2> QED
    BY <2>1, <2>2, FS_Subset
<1>2. Order(R, S)
  BY <1>0, <1>1 DEF Order, Strict
<1>a. \A n \in 1 .. Cardinality(S) : \E x \in S : Cardinality(Under(R, S, x)) = n - 1
  <2>1. IsFiniteSet(S)
    BY <1>1
  <2> QED
    BY ONLY <2>1, <1>2, Ranked
<1>3. \A x \in S : {y \in S : y < x} = Under(R, S, x)
  BY <1>0 DEF Under
<1>4. Segments(text) = [n \in 1 .. Cardinality(S) |-> nth(n)]
  BY DEF Segments, SortedBy
<1>5. ASSUME NEW n \in 1 .. Cardinality(S)
      PROVE  nth(n) \in S /\ Cardinality(Under(R, S, nth(n))) = n - 1
  <2>1. \E x \in S : Cardinality(Under(R, S, x)) = n - 1
    BY <1>a
  <2>2. PICK x \in S : Cardinality({y \in S : y < x}) = n - 1
    BY <1>3, <2>1
  <2>3. nth(n) \in S /\ Cardinality({y \in S : y < nth(n)}) = n - 1
    BY <2>2
  <2> QED
    BY <1>3, <2>3
<1> HIDE DEF nth
<1>6. PICK seq : seq = Segments(text)
  OBVIOUS
<1>7. /\ seq = [n \in 1 .. Cardinality(S) |-> seq[n]]
      /\ \A n \in 1 .. Cardinality(S) :
           seq[n] \in S /\ Cardinality(Under(R, S, seq[n])) = n - 1
  BY <1>4, <1>5, <1>6
<1>8. Lists(seq, S)
  BY <1>1, <1>2, <1>7, Listed
<1> QED
  BY <1>1, <1>6, <1>8

\* The n-th sentence is the n-th segment that is kept.
LEMMA PreparedIs ==
  ASSUME NEW text \in Seq(Nat)
  PROVE  /\ DOMAIN Prepared(text) = 1 .. Len(Segments(text)) /\ Len(Segments(text)) \in Nat
         /\ \A n \in 1 .. Len(Segments(text)) :
              /\ Segments(text)[n] \in DOMAIN text
              /\ Prepared(text)[n] = text[Segments(text)[n]]
              /\ Prepared(text)[n] \in Nat /\ Prepared(text)[n] # 0
         /\ \A i \in DOMAIN text :
              text[i] # 0 => \E n \in 1 .. Len(Segments(text)) : Segments(text)[n] = i
         /\ \A m, n \in 1 .. Len(Segments(text)) : Segments(text)[m] = Segments(text)[n] => m = n
<1>1. PICK S : S = {i \in DOMAIN text : text[i] # 0}
  OBVIOUS
<1>2. PICK kept : kept = Segments(text)
  OBVIOUS
<1>3. Lists(kept, S)
  BY <1>1, <1>2, SegmentsList
<1>4. /\ DOMAIN kept = 1 .. Len(kept) /\ Len(kept) \in Nat
      /\ \A n \in 1 .. Len(kept) : kept[n] \in S
      /\ \A i \in S : \E n \in 1 .. Len(kept) : kept[n] = i
      /\ \A m, n \in 1 .. Len(kept) : kept[m] = kept[n] => m = n
  BY <1>3 DEF Lists
<1>5. Prepared(text) = [n \in 1 .. Len(kept) |-> text[kept[n]]]
  BY <1>2, <1>4 DEF Prepared
<1>6. PICK prepared : prepared = Prepared(text)
  OBVIOUS
<1>7. DOMAIN prepared = 1 .. Len(kept) /\ \A n \in 1 .. Len(kept) : prepared[n] = text[kept[n]]
  BY <1>5, <1>6
<1>8. \A i \in S : i \in DOMAIN text /\ text[i] \in Nat /\ text[i] # 0
  BY <1>1
<1>9. \A n \in 1 .. Len(kept) : /\ kept[n] \in DOMAIN text /\ prepared[n] = text[kept[n]]
                                /\ prepared[n] \in Nat /\ prepared[n] # 0
  BY ONLY <1>4, <1>7, <1>8
<1>10. \A i \in DOMAIN text : text[i] # 0 => \E n \in 1 .. Len(kept) : kept[n] = i
  BY <1>1, <1>4
<1> QED
  BY ONLY <1>2, <1>4, <1>6, <1>7, <1>9, <1>10

-----------------------------------------------------------------------------
(* The occurrences of a section.                                           *)

\* Finite sets make a finite set together.
LEMMA FamilyFinite ==
  ASSUME NEW S, IsFiniteSet(S), NEW X, \A s \in S : IsFiniteSet(X[s])
  PROVE  IsFiniteSet(UNION {X[s] : s \in S})
<1> DEFINE sets == {X[s] : s \in S}
           set == [s \in S |-> X[s]]
<1>1. set \in Surjection(S, sets)
  BY DEF Surjection
<1>2. IsFiniteSet(sets)
  BY <1>1, FS_Surjection
<1>3. \A Y \in sets : IsFiniteSet(Y)
  OBVIOUS
<1> HIDE DEF sets
<1>4. IsFiniteSet(UNION sets)
  BY <1>2, <1>3, FS_UNION
<1> QED
  BY <1>4 DEF sets

\* The n-th sentence of a section, for a polygon.
Occurrence(polygon, source, s, n) ==
  [polygon |-> polygon, source |-> source, doc |-> s.document, section |-> s.id,
   index |-> n - 1, text |-> Prepared(s.text)[n]]

\* The occurrences of a sentence in some sections, and the places where it stands.
OccurrencesIn(polygon, source, S, w) ==
  UNION {{Occurrence(polygon, source, s, n) :
            n \in {n \in DOMAIN Prepared(s.text) : Prepared(s.text)[n] = w}} : s \in S}
StandsIn(S, w) ==
  UNION {{<<s.id, i>> : i \in {i \in DOMAIN s.text : s.text[i] = w}} : s \in S}

\* A sentence of a section has an occurrence for each place where it stands.
LEMMA SectionsCount ==
  ASSUME NEW S \in SUBSET SectionType, IsFiniteSet(S), Unique(S, {"id"}),
         NEW polygon, NEW source, NEW w \in Nat, w # 0,
         NEW O, O = OccurrencesIn(polygon, source, S, w), NEW A, A = StandsIn(S, w)
  PROVE  IsFiniteSet(O) /\ IsFiniteSet(A) /\ Cardinality(O) = Cardinality(A)
<1> DEFINE of(id) == CHOOSE s \in S : s.id = id
           place == [o \in O |-> <<o.section, Segments(of(o.section).text)[o.index + 1]>>]
<1>1. \A s \in S : /\ s.text \in Seq(Nat) /\ \A r \in S : r.id = s.id => r = s
  BY DEF SectionType, Unique
<1>2. \A s \in S : of(s.id) = s
  BY <1>1
<1> HIDE DEF of
<1>3. ASSUME NEW o \in O
      PROVE  \E s \in S, n \in Nat :
               /\ n \in DOMAIN Prepared(s.text) /\ Prepared(s.text)[n] = w
               /\ o = Occurrence(polygon, source, s, n)
  <2>1. PICK s \in S : \E n \in DOMAIN Prepared(s.text) :
          Prepared(s.text)[n] = w /\ o = Occurrence(polygon, source, s, n)
    BY DEF OccurrencesIn
  <2>2. DOMAIN Prepared(s.text) \subseteq Nat
    BY <1>1, PreparedIs
  <2> QED
    BY <2>1, <2>2
<1>4. ASSUME NEW s \in S, NEW n \in Nat, n \in DOMAIN Prepared(s.text),
             Prepared(s.text)[n] = w, NEW o, o = Occurrence(polygon, source, s, n)
      PROVE  o \in O /\ place[o] = <<s.id, Segments(s.text)[n]>> /\ place[o] \in A
  <2>1. o \in O
    BY <1>4 DEF OccurrencesIn
  <2>2. o.section = s.id /\ o.index + 1 = n
    BY <1>4 DEF Occurrence
  <2>3. place[o] = <<s.id, Segments(s.text)[n]>>
    BY <1>2, <2>1, <2>2
  <2>4. Segments(s.text)[n] \in DOMAIN s.text /\ s.text[Segments(s.text)[n]] = w
    BY <1>1, <1>4, PreparedIs
  <2>5. <<s.id, Segments(s.text)[n]>> \in A
    BY <2>4 DEF StandsIn
  <2> QED
    BY <2>1, <2>3, <2>5
<1>5. ASSUME NEW a \in A PROVE \E o \in O : place[o] = a
  <2>1. PICK s, i : s \in S /\ i \in DOMAIN s.text /\ s.text[i] = w /\ a = <<s.id, i>>
    BY DEF StandsIn
  <2>2. PICK n \in 1 .. Len(Segments(s.text)) : Segments(s.text)[n] = i
    BY <1>1, <2>1, PreparedIs
  <2>3. n \in Nat /\ n \in DOMAIN Prepared(s.text) /\ Prepared(s.text)[n] = w
    BY <1>1, <2>1, <2>2, PreparedIs
  <2>4. PICK o : o = Occurrence(polygon, source, s, n)
    OBVIOUS
  <2>5. o \in O /\ place[o] = <<s.id, Segments(s.text)[n]>>
    BY <1>4, <2>1, <2>3, <2>4
  <2> QED
    BY <2>1, <2>2, <2>5
<1>6. ASSUME NEW o \in O, NEW u \in O, place[o] = place[u] PROVE o = u
  <2>1. PICK s \in S, n \in Nat : /\ n \in DOMAIN Prepared(s.text) /\ Prepared(s.text)[n] = w
                                  /\ o = Occurrence(polygon, source, s, n)
    BY <1>3
  <2>2. PICK r \in S, m \in Nat : /\ m \in DOMAIN Prepared(r.text) /\ Prepared(r.text)[m] = w
                                  /\ u = Occurrence(polygon, source, r, m)
    BY <1>3
  <2>3. place[o] = <<s.id, Segments(s.text)[n]>> /\ place[u] = <<r.id, Segments(r.text)[m]>>
    BY <1>4, <2>1, <2>2
  <2>4. s.id = r.id /\ Segments(s.text)[n] = Segments(r.text)[m]
    BY <1>6, <2>3
  <2>5. r = s
    BY <1>1, <2>4
  <2>6. m = n
    BY <1>1, <2>1, <2>2, <2>4, <2>5, PreparedIs
  <2> QED
    BY <2>1, <2>2, <2>5, <2>6
<1>7. ASSUME NEW o \in O PROVE place[o] \in A
  <2>1. PICK s \in S, n \in Nat : /\ n \in DOMAIN Prepared(s.text) /\ Prepared(s.text)[n] = w
                                  /\ o = Occurrence(polygon, source, s, n)
    BY <1>3
  <2> QED
    BY <1>4, <2>1
<1>8. IsFiniteSet(O)
  <2> DEFINE X == [s \in S |-> {Occurrence(polygon, source, s, n) :
                     n \in {n \in DOMAIN Prepared(s.text) : Prepared(s.text)[n] = w}}]
  <2>1. ASSUME NEW s \in S PROVE IsFiniteSet(X[s])
    <3> DEFINE N == {n \in DOMAIN Prepared(s.text) : Prepared(s.text)[n] = w}
               f == [n \in N |-> Occurrence(polygon, source, s, n)]
    <3>1. PICK l \in Nat : DOMAIN Prepared(s.text) = 1 .. l
      BY <1>1, PreparedIs
    <3>2. 1 \in Int /\ l \in Int
      OBVIOUS
    <3>3. IsFiniteSet(1 .. l)
      BY <3>2, FS_Interval
    <3>4. IsFiniteSet(N)
      BY <3>1, <3>3, FS_Subset
    <3>5. f \in Surjection(N, X[s])
      BY DEF Surjection
    <3> QED
      BY <3>4, <3>5, FS_Surjection
  <2>2. O = UNION {X[s] : s \in S}
    BY DEF OccurrencesIn
  <2> HIDE DEF X
  <2> QED
    BY <2>1, <2>2, FamilyFinite
<1> HIDE DEF place
<1>9. place \in Bijection(O, A)
  <2>1. place \in [O -> A]
    BY <1>7 DEF place
  <2> QED
    BY <1>5, <1>6, <2>1 DEF Bijection, Injection, Surjection, IsInjective
<1> QED
  BY <1>8, <1>9, FS_Bijection DEF ExistsBijection

-----------------------------------------------------------------------------
(* The occurrences of a shard.                                             *)

\* The sections that are joined to a polygon.
LinkedTo(t, polygon) ==
  {s \in t.sections :
     \E d \in t.documents, l \in t.links :
       /\ d.id = s.document /\ l.polygon = polygon
       /\ IF t.layout = "document_id"
          THEN l.project = "wikipedia" /\ l.key = d.id ELSE l.key = d.article}
SameQid(t, polygon) ==
  {s \in t.voyageSections :
     \E d \in t.voyageDocuments, p \in t.polygons :
       d.id = s.document /\ p.id = polygon /\ p.qids = d.qids}
JoinedTo(t, source, polygon) ==
  IF source = "wikipedia" THEN LinkedTo(t, polygon)
  ELSE IF HasVoyage(t) THEN SameQid(t, polygon) ELSE {}

Sources == {"wikipedia", "wikivoyage"}

\* The two definitions of which sections belong to a polygon agree.
LEMMA JoinedIs ==
  ASSUME NEW t \in ShardType, NEW j
  PROVE  j \in JoinedSections(t) <=>
           \E source \in Sources, polygon \in Nat :
             \E s \in JoinedTo(t, source, polygon) : j = Joined(source, polygon, s)
<1>1. j \in WikipediaSections(t) <=>
        \E polygon \in Nat : \E s \in LinkedTo(t, polygon) : j = Joined("wikipedia", polygon, s)
  <2>1. ASSUME NEW l \in t.links, NEW d \in t.documents
        PROVE  (l \in WikipediaLinks(t) /\ d[LinkedColumn(t)] = l.key) <=>
                 IF t.layout = "document_id"
                 THEN l.project = "wikipedia" /\ l.key = d.id ELSE l.key = d.article
    BY DEF WikipediaLinks, LinkedColumn
  <2>2. WikipediaLinks(t) \subseteq t.links /\ \A l \in t.links : l.polygon \in Nat
    BY DEF WikipediaLinks, ShardType
  <2>3. ASSUME NEW l \in WikipediaLinks(t), NEW s \in t.sections, NEW d \in t.documents,
               d[LinkedColumn(t)] = l.key, d.id = s.document
        PROVE  s \in LinkedTo(t, l.polygon)
    BY <2>1, <2>2, <2>3 DEF LinkedTo
  <2>4. ASSUME NEW polygon \in Nat, NEW s \in LinkedTo(t, polygon)
        PROVE  s \in t.sections /\ \E l \in WikipediaLinks(t) :
                 /\ l.polygon = polygon
                 /\ \E d \in t.documents : d[LinkedColumn(t)] = l.key /\ d.id = s.document
    BY <2>1, <2>4 DEF LinkedTo
  <2>5. j \in WikipediaSections(t) <=>
          \E l \in WikipediaLinks(t), s \in t.sections :
            /\ \E d \in t.documents : d[LinkedColumn(t)] = l.key /\ d.id = s.document
            /\ j = Joined("wikipedia", l.polygon, s)
    <3>1. PICK pairs :
            pairs = {pair \in WikipediaLinks(t) \X t.sections :
                       \E d \in t.documents :
                         d[LinkedColumn(t)] = pair[1].key /\ d.id = pair[2].document}
      OBVIOUS
    <3>2. j \in WikipediaSections(t) <=>
            \E pair \in pairs : j = Joined("wikipedia", pair[1].polygon, pair[2])
      BY <3>1 DEF WikipediaSections
    <3>3. \A pair \in pairs : /\ pair[1] \in WikipediaLinks(t) /\ pair[2] \in t.sections
                              /\ \E d \in t.documents :
                                   d[LinkedColumn(t)] = pair[1].key /\ d.id = pair[2].document
      BY <3>1
    <3>4. ASSUME NEW l \in WikipediaLinks(t), NEW s \in t.sections,
                 \E d \in t.documents : d[LinkedColumn(t)] = l.key /\ d.id = s.document
          PROVE  \E pair \in pairs : pair[1] = l /\ pair[2] = s
      <4>1. <<l, s>> \in pairs
        BY <3>1, <3>4
      <4> QED
        BY <4>1
    <3> QED
      BY ONLY <3>2, <3>3, <3>4
  <2> QED
    BY <2>2, <2>3, <2>4, <2>5
<1>2. j \in WikivoyageSections(t) <=>
        \E polygon \in Nat : \E s \in SameQid(t, polygon) : j = Joined("wikivoyage", polygon, s)
  <2>1. \A p \in t.polygons : p.id \in Nat
    BY DEF ShardType
  <2>2. j \in WikivoyageSections(t) <=>
          \E p \in t.polygons, s \in t.voyageSections :
            /\ \E d \in t.voyageDocuments : p.qids = d.qids /\ d.id = s.document
            /\ j = Joined("wikivoyage", p.id, s)
    <3>1. PICK pairs :
            pairs = {pair \in t.polygons \X t.voyageSections :
                       \E d \in t.voyageDocuments :
                         pair[1].qids = d.qids /\ d.id = pair[2].document}
      OBVIOUS
    <3>2. j \in WikivoyageSections(t) <=>
            \E pair \in pairs : j = Joined("wikivoyage", pair[1].id, pair[2])
      BY <3>1 DEF WikivoyageSections
    <3>3. \A pair \in pairs : /\ pair[1] \in t.polygons /\ pair[2] \in t.voyageSections
                              /\ \E d \in t.voyageDocuments :
                                   pair[1].qids = d.qids /\ d.id = pair[2].document
      BY <3>1
    <3>4. ASSUME NEW p \in t.polygons, NEW s \in t.voyageSections,
                 \E d \in t.voyageDocuments : p.qids = d.qids /\ d.id = s.document
          PROVE  \E pair \in pairs : pair[1] = p /\ pair[2] = s
      <4>1. <<p, s>> \in pairs
        BY <3>1, <3>4
      <4> QED
        BY <4>1
    <3> QED
      BY ONLY <3>2, <3>3, <3>4
  <2> QED
    BY <2>1, <2>2 DEF SameQid
<1>3. \A polygon : /\ JoinedTo(t, "wikipedia", polygon) = LinkedTo(t, polygon)
                   /\ JoinedTo(t, "wikivoyage", polygon) =
                        IF HasVoyage(t) THEN SameQid(t, polygon) ELSE {}
  BY DEF JoinedTo
<1> QED
  BY <1>1, <1>2, <1>3 DEF JoinedSections, Sources

\* An occurrence is that of a sentence in a section that is joined to its polygon.
LEMMA OccursIs ==
  ASSUME NEW t \in ShardType, NEW o
  PROVE  o \in Occurrences(t) <=>
           \E source \in Sources, polygon \in Nat :
             \E s \in JoinedTo(t, source, polygon) :
               \E n \in DOMAIN Prepared(s.text) : o = Occurrence(polygon, source, s, n)
<1>1. o \in Occurrences(t) <=>
        \E j \in JoinedSections(t) : \E n \in DOMAIN Prepared(j.text) :
          o = [polygon |-> j.polygon, source |-> j.source, doc |-> j.doc,
               section |-> j.section, index |-> n - 1, text |-> Prepared(j.text)[n]]
  BY DEF Occurrences
<1>2. ASSUME NEW source, NEW polygon, NEW s, NEW j, j = Joined(source, polygon, s)
      PROVE  /\ j.text = s.text
             /\ \A n : Occurrence(polygon, source, s, n) =
                  [polygon |-> j.polygon, source |-> j.source, doc |-> j.doc,
                   section |-> j.section, index |-> n - 1, text |-> Prepared(j.text)[n]]
  BY <1>2 DEF Joined, Occurrence
<1>3. ASSUME o \in Occurrences(t)
      PROVE  \E source \in Sources, polygon \in Nat :
               \E s \in JoinedTo(t, source, polygon) :
                 \E n \in DOMAIN Prepared(s.text) : o = Occurrence(polygon, source, s, n)
  <2>1. PICK j \in JoinedSections(t) : \E n \in DOMAIN Prepared(j.text) :
          o = [polygon |-> j.polygon, source |-> j.source, doc |-> j.doc,
               section |-> j.section, index |-> n - 1, text |-> Prepared(j.text)[n]]
    BY <1>1, <1>3
  <2>2. PICK source \in Sources, polygon \in Nat :
          \E s \in JoinedTo(t, source, polygon) : j = Joined(source, polygon, s)
    BY JoinedIs
  <2>3. PICK s \in JoinedTo(t, source, polygon) : j = Joined(source, polygon, s)
    BY <2>2
  <2> QED
    BY <1>2, <2>1, <2>3
<1>4. ASSUME NEW source \in Sources, NEW polygon \in Nat, NEW s \in JoinedTo(t, source, polygon),
             NEW n \in DOMAIN Prepared(s.text), o = Occurrence(polygon, source, s, n)
      PROVE  o \in Occurrences(t)
  <2>1. PICK j : j = Joined(source, polygon, s)
    OBVIOUS
  <2>2. j \in JoinedSections(t)
    BY <2>1, JoinedIs
  <2> QED
    BY <1>1, <1>2, <1>4, <2>1, <2>2
<1> QED
  BY <1>3, <1>4

\* The input tables of a shard that can be joined.
Sound(t) == t \in ShardType /\ Finite(t) /\ JoinSound(t)

\* What is joined to a polygon are sections with different ids, of a polygon of
\* the shard.
LEMMA JoinedToIs ==
  ASSUME NEW t, Sound(t), NEW source \in Sources, NEW polygon \in Nat
  PROVE  LET S == JoinedTo(t, source, polygon)
         IN /\ S \in SUBSET SectionType /\ IsFiniteSet(S) /\ Unique(S, {"id"})
            /\ S # {} => \E p \in t.polygons : p.id = polygon
<1>1. CASE source = "wikipedia"
  <2>1. PICK S : S = LinkedTo(t, polygon)
    OBVIOUS
  <2>2. JoinedTo(t, source, polygon) = S /\ S \subseteq t.sections
    BY <1>1, <2>1 DEF JoinedTo, LinkedTo
  <2>3. t.sections \in SUBSET SectionType /\ IsFiniteSet(t.sections)
    BY DEF Sound, ShardType, Finite
  <2>4. Unique(t.sections, {"id"})
    BY DEF Sound, JoinSound, WikipediaSound
  <2>5. IsFiniteSet(S)
    BY <2>2, <2>3, FS_Subset
  <2>6. Unique(S, {"id"})
    BY <2>2, <2>4 DEF Unique
  <2>7. ASSUME S # {} PROVE \E p \in t.polygons : p.id = polygon
    <3>1. PICK l \in t.links : l.polygon = polygon /\ l \in WikipediaLinks(t)
      BY <2>1, <2>7 DEF LinkedTo, WikipediaLinks
    <3>2. NoOrphans(WikipediaLinks(t), "polygon", t.polygons, "id")
      BY DEF Sound, JoinSound, WikipediaSound
    <3> QED
      BY <3>1, <3>2 DEF NoOrphans
  <2> QED
    BY <2>2, <2>3, <2>5, <2>6, <2>7
<1>2. CASE source = "wikivoyage" /\ HasVoyage(t)
  <2>1. PICK S : S = SameQid(t, polygon)
    OBVIOUS
  <2>2. JoinedTo(t, source, polygon) = S /\ S \subseteq t.voyageSections
    BY <1>2, <2>1 DEF JoinedTo, SameQid
  <2>3. t.voyageSections \in SUBSET SectionType /\ IsFiniteSet(t.voyageSections)
    BY DEF Sound, ShardType, Finite
  <2>4. Unique(t.voyageSections, {"id"})
    BY <1>2 DEF Sound, JoinSound, WikivoyageSound
  <2>5. IsFiniteSet(S)
    BY <2>2, <2>3, FS_Subset
  <2>6. Unique(S, {"id"})
    BY <2>2, <2>4 DEF Unique
  <2>7. S # {} => \E p \in t.polygons : p.id = polygon
    BY <2>1 DEF SameQid
  <2> QED
    BY <2>2, <2>3, <2>5, <2>6, <2>7
<1>3. CASE source = "wikivoyage" /\ ~ HasVoyage(t)
  <2>1. JoinedTo(t, source, polygon) = {}
    BY <1>3 DEF JoinedTo
  <2> QED
    BY <2>1, FS_EmptySet DEF Unique
<1> QED
  BY <1>1, <1>2, <1>3 DEF Sources

\* A shard has finitely many occurrences, each with a place of its own and of a polygon
\* of the shard.
LEMMA OccursTyped ==
  ASSUME NEW t, Sound(t)
  PROVE  /\ Occurrences(t) \in SUBSET OccurrenceType /\ Placed(Occurrences(t))
         /\ \A o \in Occurrences(t) : \E p \in t.polygons : p.id = o.polygon
<1>0. t \in ShardType
  BY DEF Sound
<1>1. ASSUME NEW o \in Occurrences(t)
      PROVE  \E source \in Sources, polygon \in Nat, s \in SectionType, n \in Nat :
               /\ s \in JoinedTo(t, source, polygon) /\ n \in DOMAIN Prepared(s.text)
               /\ o = Occurrence(polygon, source, s, n)
               /\ o \in OccurrenceType /\ o.polygon = polygon
               /\ \E p \in t.polygons : p.id = polygon
  <2>1. PICK source \in Sources, polygon \in Nat :
          \E s \in JoinedTo(t, source, polygon) :
            \E n \in DOMAIN Prepared(s.text) : o = Occurrence(polygon, source, s, n)
    BY <1>0, OccursIs
  <2>2. PICK s \in JoinedTo(t, source, polygon) :
          \E n \in DOMAIN Prepared(s.text) : o = Occurrence(polygon, source, s, n)
    BY <2>1
  <2>3. PICK n \in DOMAIN Prepared(s.text) : o = Occurrence(polygon, source, s, n)
    BY <2>2
  <2>4. s \in SectionType /\ \E p \in t.polygons : p.id = polygon
    BY JoinedToIs
  <2>5. s.text \in Seq(Nat) /\ s.document \in Nat /\ s.id \in Nat
    BY <2>4 DEF SectionType
  <2>6. n \in 1 .. Len(Segments(s.text)) /\ Len(Segments(s.text)) \in Nat
    BY <2>5, PreparedIs
  <2>7. Prepared(s.text)[n] \in Nat
    BY <2>5, <2>6, PreparedIs
  <2>8. n \in Nat /\ n - 1 \in Nat
    BY <2>6
  <2>9. o \in OccurrenceType /\ o.polygon = polygon
    BY <2>3, <2>5, <2>7, <2>8 DEF Occurrence, OccurrenceType, Sources
  <2> QED
    BY <2>3, <2>4, <2>8, <2>9
<1>2. ASSUME NEW o \in Occurrences(t), NEW u \in Occurrences(t),
             Section(o) = Section(u), o.index = u.index
      PROVE  o = u
  <2>1. PICK source \in Sources, polygon \in Nat, s \in SectionType, n \in Nat :
          /\ s \in JoinedTo(t, source, polygon) /\ o = Occurrence(polygon, source, s, n)
    BY <1>1
  <2>2. PICK sourceU \in Sources, polygonU \in Nat, r \in SectionType, m \in Nat :
          /\ r \in JoinedTo(t, sourceU, polygonU) /\ u = Occurrence(polygonU, sourceU, r, m)
    BY <1>1
  <2>3. /\ o.polygon = polygon /\ o.source = source /\ o.section = s.id /\ o.index = n - 1
        /\ u.polygon = polygonU /\ u.source = sourceU /\ u.section = r.id /\ u.index = m - 1
    BY <2>1, <2>2 DEF Occurrence
  <2>4. polygon = polygonU /\ source = sourceU /\ s.id = r.id /\ n = m
    <3>1. o.polygon = u.polygon /\ o.source = u.source /\ o.section = u.section
      BY <1>2 DEF Section
    <3>2. n - 1 = m - 1
      BY <1>2, <2>3
    <3> QED
      BY <2>3, <3>1, <3>2
  <2>5. Unique(JoinedTo(t, source, polygon), {"id"})
    BY JoinedToIs
  <2>6. s = r
    BY <2>1, <2>2, <2>4, <2>5 DEF Unique
  <2> QED
    BY <2>1, <2>2, <2>4, <2>6
<1>3. \A o \in Occurrences(t) : /\ o \in OccurrenceType
                                /\ \E p \in t.polygons : p.id = o.polygon
  BY <1>1
<1> QED
  BY <1>2, <1>3 DEF Placed

\* There are finitely many.
LEMMA OccursFinite ==
  ASSUME NEW t, Sound(t)
  PROVE  IsFiniteSet(Occurrences(t))
<1>0. /\ t \in ShardType /\ IsFiniteSet(t.polygons) /\ IsFiniteSet(t.links)
      /\ IsFiniteSet(t.sections) /\ IsFiniteSet(t.voyageSections)
  BY DEF Sound, Finite
<1>1. IsFiniteSet(WikipediaSections(t))
  <2>1. PICK pairs :
          pairs = {pair \in WikipediaLinks(t) \X t.sections :
                     \E d \in t.documents :
                       d[LinkedColumn(t)] = pair[1].key /\ d.id = pair[2].document}
    OBVIOUS
  <2>2. pairs \subseteq t.links \X t.sections
    BY <2>1 DEF WikipediaLinks
  <2>3. IsFiniteSet(t.links \X t.sections)
    BY <1>0, FS_Product
  <2>4. IsFiniteSet(pairs)
    BY <2>2, <2>3, FS_Subset
  <2> DEFINE f == [pair \in pairs |-> Joined("wikipedia", pair[1].polygon, pair[2])]
  <2>5. f \in Surjection(pairs, WikipediaSections(t))
    BY <2>1 DEF WikipediaSections, Surjection
  <2> QED
    BY <2>4, <2>5, FS_Surjection
<1>2. IsFiniteSet(WikivoyageSections(t))
  <2>1. PICK pairs :
          pairs = {pair \in t.polygons \X t.voyageSections :
                     \E d \in t.voyageDocuments :
                       pair[1].qids = d.qids /\ d.id = pair[2].document}
    OBVIOUS
  <2>2. pairs \subseteq t.polygons \X t.voyageSections
    BY <2>1
  <2>3. IsFiniteSet(t.polygons \X t.voyageSections)
    BY <1>0, FS_Product
  <2>4. IsFiniteSet(pairs)
    BY <2>2, <2>3, FS_Subset
  <2> DEFINE f == [pair \in pairs |-> Joined("wikivoyage", pair[1].id, pair[2])]
  <2>5. f \in Surjection(pairs, WikivoyageSections(t))
    BY <2>1 DEF WikivoyageSections, Surjection
  <2> QED
    BY <2>4, <2>5, FS_Surjection
<1>3. IsFiniteSet(JoinedSections(t))
  BY <1>1, <1>2, FS_Union, FS_EmptySet DEF JoinedSections
<1> DEFINE X == [j \in JoinedSections(t) |->
                   {[polygon |-> j.polygon, source |-> j.source, doc |-> j.doc,
                     section |-> j.section, index |-> n - 1, text |-> Prepared(j.text)[n]] :
                       n \in DOMAIN Prepared(j.text)}]
<1>4. ASSUME NEW j \in JoinedSections(t) PROVE IsFiniteSet(X[j])
  <2> DEFINE N == DOMAIN Prepared(j.text)
             f == [n \in N |-> [polygon |-> j.polygon, source |-> j.source, doc |-> j.doc,
                      section |-> j.section, index |-> n - 1, text |-> Prepared(j.text)[n]]]
  <2>1. PICK source \in Sources, polygon \in Nat :
          \E s \in JoinedTo(t, source, polygon) : j = Joined(source, polygon, s)
    BY <1>0, JoinedIs
  <2>2. PICK s \in SectionType : j = Joined(source, polygon, s)
    BY <2>1, JoinedToIs
  <2>3. j.text \in Seq(Nat)
    BY <2>2 DEF Joined, SectionType
  <2>4. PICK l \in Nat : N = 1 .. l
    BY <2>3, PreparedIs
  <2>5. 1 \in Int /\ l \in Int
    OBVIOUS
  <2>6. IsFiniteSet(N)
    BY <2>4, <2>5, FS_Interval
  <2>7. f \in Surjection(N, X[j])
    BY DEF Surjection
  <2> QED
    BY <2>6, <2>7, FS_Surjection
<1>5. Occurrences(t) = UNION {X[j] : j \in JoinedSections(t)}
  BY DEF Occurrences
<1> HIDE DEF X
<1> QED
  BY <1>3, <1>4, <1>5, FamilyFinite

\* A sentence has an occurrence for each place where it stands.
LEMMA CountIs ==
  ASSUME NEW t, Sound(t), NEW polygon \in Nat, NEW w \in Nat, w # 0,
         NEW G, G = {o \in Occurrences(t) : o.polygon = polygon /\ o.text = w}
  PROVE  IsFiniteSet(G) /\ Cardinality(G) = Stands(t, polygon, w)
<1>0. t \in ShardType
  BY DEF Sound
<1>1. PICK P, V : /\ P = JoinedTo(t, "wikipedia", polygon)
                  /\ V = JoinedTo(t, "wikivoyage", polygon)
  OBVIOUS
<1>2. /\ P \in SUBSET SectionType /\ IsFiniteSet(P) /\ Unique(P, {"id"})
      /\ V \in SUBSET SectionType /\ IsFiniteSet(V) /\ Unique(V, {"id"})
  BY <1>1, JoinedToIs DEF Sources
<1>3. PICK A, B : /\ A = OccurrencesIn(polygon, "wikipedia", P, w)
                  /\ B = OccurrencesIn(polygon, "wikivoyage", V, w)
  OBVIOUS
<1>4. PICK a, b : a = StandsIn(P, w) /\ b = StandsIn(V, w)
  OBVIOUS
<1>5. /\ IsFiniteSet(A) /\ Cardinality(A) = Cardinality(a) /\ IsFiniteSet(a)
      /\ IsFiniteSet(B) /\ Cardinality(B) = Cardinality(b) /\ IsFiniteSet(b)
  BY <1>2, <1>3, <1>4, SectionsCount
<1>6. \A o : o \in A => o.source = "wikipedia"
  BY <1>3 DEF OccurrencesIn, Occurrence
<1>7. \A o : o \in B => o.source = "wikivoyage"
  BY <1>3 DEF OccurrencesIn, Occurrence
<1>8. ASSUME NEW o \in G PROVE o \in A \cup B
  <2>1. PICK source \in Sources, p \in Nat :
          \E s \in JoinedTo(t, source, p) :
            \E n \in DOMAIN Prepared(s.text) : o = Occurrence(p, source, s, n)
    BY <1>0, OccursIs
  <2>2. PICK s \in JoinedTo(t, source, p) :
          \E n \in DOMAIN Prepared(s.text) : o = Occurrence(p, source, s, n)
    BY <2>1
  <2>3. PICK n \in DOMAIN Prepared(s.text) : o = Occurrence(p, source, s, n)
    BY <2>2
  <2>4. p = polygon /\ Prepared(s.text)[n] = w
    BY <2>3 DEF Occurrence
  <2>5. o \in OccurrencesIn(polygon, source, JoinedTo(t, source, polygon), w)
    BY <2>3, <2>4 DEF OccurrencesIn
  <2> QED
    BY <1>1, <1>3, <2>5 DEF Sources
<1>9. ASSUME NEW o \in A \cup B PROVE o \in G
  <2>1. PICK source \in Sources : o \in OccurrencesIn(polygon, source, JoinedTo(t, source, polygon), w)
    BY <1>1, <1>3 DEF Sources
  <2>2. PICK s \in JoinedTo(t, source, polygon) :
          \E n \in DOMAIN Prepared(s.text) :
            Prepared(s.text)[n] = w /\ o = Occurrence(polygon, source, s, n)
    BY <2>1 DEF OccurrencesIn
  <2>3. o.polygon = polygon /\ o.text = w
    BY <2>2 DEF Occurrence
  <2>4. o \in Occurrences(t)
    BY <1>0, <2>2, OccursIs
  <2> QED
    BY <2>3, <2>4
<1>10. G = A \cup B /\ A \cap B = {}
  BY <1>6, <1>7, <1>8, <1>9
<1>11. /\ IsFiniteSet(A \cup B)
       /\ Cardinality(A \cup B) = Cardinality(A) + Cardinality(B) - Cardinality(A \cap B)
  BY <1>5, FS_Union
<1>12. Cardinality(A \cap B) = 0 /\ Cardinality(A) \in Nat /\ Cardinality(B) \in Nat
  BY <1>5, <1>10, FS_EmptySet, FS_CardinalityType
<1>13. Stands(t, polygon, w) = Cardinality(a) + Cardinality(b)
  <2>1. P = LinkedTo(t, polygon)
    BY <1>1 DEF JoinedTo
  <2>2. Stands(t, polygon, w) = Cardinality(StandsIn(LinkedTo(t, polygon), w))
          + IF HasVoyage(t) THEN Cardinality(StandsIn(SameQid(t, polygon), w)) ELSE 0
    BY DEF Stands, StandsIn, LinkedTo, SameQid
  <2>3. CASE HasVoyage(t)
    <3>1. V = SameQid(t, polygon)
      BY <1>1, <2>3 DEF JoinedTo
    <3> QED
      BY <1>4, <2>1, <2>2, <2>3, <3>1
  <2>4. CASE ~ HasVoyage(t)
    <3>1. V = {}
      BY <1>1, <2>4 DEF JoinedTo
    <3>2. b = {}
      BY <1>4, <3>1 DEF StandsIn
    <3>3. Cardinality(b) = 0
      BY <3>2, FS_EmptySet
    <3> QED
      BY <1>4, <2>1, <2>2, <2>4, <3>3
  <2> QED
    BY <2>3, <2>4
<1>14. Cardinality(A \cup B) = Cardinality(A) + Cardinality(B)
  BY <1>11, <1>12
<1> QED
  BY <1>5, <1>10, <1>11, <1>13, <1>14
-----------------------------------------------------------------------------
(* The rows of a choice of versions.                                       *)

\* Versions that can be segmented, with 0 for a shard that is left out.
Choice(m) == m \in [Shards -> Nat] /\ \A s \in Shards : m[s] # 0 => <<s, m[s]>> \in Checkpointable
Chosen(m) == {s \in Shards : m[s] # 0}
Table(m) == UNION {Occurrences(Tables[s][m[s]]) : s \in Chosen(m)}

\* Every chosen version is one of the input and can be joined.
LEMMA ChoiceSound ==
  ASSUME NEW m, Choice(m), NEW s \in Chosen(m)
  PROVE  /\ m[s] \in DOMAIN Tables[s] /\ m[s] \in 1 .. Len(Tables[s]) /\ Len(Tables[s]) \in Nat
         /\ Sound(Tables[s][m[s]])
<1>1. s \in Shards /\ <<s, m[s]>> \in Checkpointable
  BY DEF Choice, Chosen
<1>2. m[s] \in DOMAIN Tables[s] /\ Segmentable(Tables[s][m[s]])
  BY <1>1 DEF Checkpointable
<1>3. Tables[s] \in Seq(ShardType) /\ Finite(Tables[s][m[s]])
  BY <1>1, <1>2, InputsAssumption
<1> QED
  BY <1>2, <1>3 DEF Sound, Segmentable

\* The whole table has finitely many occurrences, each with a place of its own.
LEMMA TableTyped ==
  ASSUME NEW m, Choice(m), NEW U, U = Table(m)
  PROVE  U \in SUBSET OccurrenceType /\ IsFiniteSet(U) /\ Placed(U)
<1> DEFINE X == [s \in Chosen(m) |-> Occurrences(Tables[s][m[s]])]
<1>1. ASSUME NEW s \in Chosen(m)
      PROVE  /\ X[s] \in SUBSET OccurrenceType /\ IsFiniteSet(X[s]) /\ Placed(X[s])
             /\ \A o \in X[s] : \E p \in Tables[s][m[s]].polygons : p.id = o.polygon
  BY ChoiceSound, OccursTyped, OccursFinite
<1>2. U = UNION {X[s] : s \in Chosen(m)}
  BY DEF Table
<1> HIDE DEF X
<1>3. IsFiniteSet(Chosen(m))
  BY TablesAssumption, FS_Subset DEF Chosen
<1>4. IsFiniteSet(U)
  BY <1>1, <1>2, <1>3, FamilyFinite
<1>5. U \in SUBSET OccurrenceType
  BY <1>1, <1>2
<1>6. ASSUME NEW o \in U, NEW u \in U, Section(o) = Section(u), o.index = u.index PROVE o = u
  <2>1. PICK s \in Chosen(m) : o \in X[s]
    BY <1>2
  <2>2. PICK r \in Chosen(m) : u \in X[r]
    BY <1>2
  <2>3. o.polygon = u.polygon
    BY <1>6 DEF Section
  <2>4. r = s
    <3>1. PICK p \in Tables[s][m[s]].polygons : p.id = o.polygon
      BY <1>1, <2>1
    <3>2. PICK q \in Tables[r][m[r]].polygons : q.id = u.polygon
      BY <1>1, <2>2
    <3>3. /\ s \in Shards /\ m[s] \in DOMAIN Tables[s]
          /\ r \in Shards /\ m[r] \in DOMAIN Tables[r]
      BY ChoiceSound DEF Chosen
    <3> QED
      BY <2>3, <3>1, <3>2, <3>3, NamespaceAssumption
  <2>5. Placed(X[s])
    BY <1>1
  <2> QED
    BY <1>6, <2>1, <2>2, <2>4, <2>5 DEF Placed
<1> QED
  BY <1>4, <1>5, <1>6 DEF Placed

\* The build finalizes the whole table.
LEMMA RowsAre ==
  ASSUME NEW m, Choice(m)
  PROVE  RowsOf[m] = Finalized(Table(m))
<1>1. ASSUME NEW s \in Shards PROVE m[s] \in 0 .. Len(Tables[s]) /\ m[s] <= Len(Tables[s])
  <2>1. Len(Tables[s]) \in Nat /\ m[s] \in Nat
    BY InputsAssumption DEF Choice
  <2>2. m[s] # 0 => m[s] <= Len(Tables[s])
    BY <2>1, ChoiceSound DEF Chosen
  <2> QED
    BY <2>1, <2>2
<1>2. m \in [Shards -> UNION {0 .. Len(Tables[s]) : s \in Shards}]
  BY <1>1 DEF Choice
<1>3. m \in VersionChoices
  BY <1>1, <1>2 DEF VersionChoices
<1> QED
  BY <1>3 DEF RowsOf, Table, Chosen

\* The occurrences of a sentence are those of the shard of its polygon.
LEMMA GroupIs ==
  ASSUME NEW m, Choice(m), NEW s \in Chosen(m), NEW t, t = Tables[s][m[s]],
         NEW p \in t.polygons, NEW w
  PROVE  {o \in Table(m) : SentenceId(o) = <<p.id, w>>}
           = {o \in Occurrences(t) : o.polygon = p.id /\ o.text = w}
<1>1. \A o : SentenceId(o) = <<p.id, w>> <=> o.polygon = p.id /\ o.text = w
  BY DEF SentenceId
<1>2. \A o \in Occurrences(t) : o \in Table(m)
  BY DEF Table
<1>3. ASSUME NEW o \in Table(m), o.polygon = p.id PROVE o \in Occurrences(t)
  <2>1. PICK r \in Chosen(m) : o \in Occurrences(Tables[r][m[r]])
    BY DEF Table
  <2>2. PICK q \in Tables[r][m[r]].polygons : q.id = o.polygon
    BY <2>1, ChoiceSound, OccursTyped
  <2>3. /\ s \in Shards /\ m[s] \in DOMAIN Tables[s]
        /\ r \in Shards /\ m[r] \in DOMAIN Tables[r]
    BY ChoiceSound DEF Chosen
  <2>4. r = s
    BY <1>3, <2>2, <2>3, NamespaceAssumption
  <2> QED
    BY <2>1, <2>4
<1> QED
  BY <1>1, <1>2, <1>3

\* A sentence that occurs has a row, with the number of its occurrences.
LEMMA RowsCount ==
  ASSUME NEW occs \in SUBSET OccurrenceType, IsFiniteSet(occs), Placed(occs),
         NEW id, NEW G, \A o : o \in G <=> o \in occs /\ SentenceId(o) = id
  PROVE  /\ Cardinality(G) = 0 <=> G = {}
         /\ \A r \in RowsFrom(occs) :
              r.id = id => r.count = Cardinality(G) /\ G # {}
         /\ G # {} => \E r \in RowsFrom(occs) : r.id = id
<1>1. IsFiniteSet(G) /\ (Cardinality(G) = 0 <=> G = {})
  BY FS_Subset, FS_EmptySet
<1>2. PICK T : T = RowsFrom(occs)
  OBVIOUS
<1>3. \A r \in T : r.id = id => r = OutputRow(occs, G) /\ G # {}
  <2>1. ASSUME NEW r \in T, r.id = id PROVE r = OutputRow(occs, G) /\ G # {}
    <3>1. /\ \E o \in occs : r.id = SentenceId(o)
          /\ r = OutputRow(occs, {o \in occs : SentenceId(o) = r.id})
      BY <1>2, RowFacts
    <3> QED
      BY <2>1, <3>1
  <2> QED
    BY <2>1
<1>4. OutputRow(occs, G).count = Cardinality(G)
  BY DEF OutputRow
<1>5. ASSUME G # {} PROVE \E r \in T : r.id = id
  <2>1. PICK u \in G : TRUE
    BY <1>5
  <2>2. u \in occs /\ G = {o \in occs : SentenceId(o) = SentenceId(u)}
    BY <2>1
  <2>3. G \in DedupGroups(occs)
    BY <2>2 DEF DedupGroups
  <2>4. PICK r : r = OutputRow(occs, G)
    OBVIOUS
  <2>5. r \in T
    BY <1>2, <2>3, <2>4 DEF RowsFrom
  <2>6. G \in SUBSET OccurrenceType /\ Placed(G) /\ \A o, p \in G : o.polygon = p.polygon
    <3>1. \A o \in G : o \in occs /\ SentenceId(o) = id
      OBVIOUS
    <3>2. \A o \in G : o.polygon = id[1]
      <4>1. \A o : SentenceId(o)[1] = o.polygon
        BY DEF SentenceId
      <4> QED
        BY <3>1, <4>1
    <3> QED
      BY <3>1, <3>2 DEF Placed
  <2>7. Canonical(G) \in G
    BY <1>5, <2>6, CanonicalIn
  <2>8. r.id = SentenceId(Canonical(G))
    BY <2>4 DEF OutputRow
  <2>9. r.id = id
    BY <2>7, <2>8
  <2> QED
    BY <2>5, <2>9
<1> QED
  BY <1>1, <1>2, <1>3, <1>4, <1>5

\* So every sentence is counted as often as it stands.
LEMMA FaithfulRows ==
  ASSUME NEW m, Choice(m)
  PROVE  Faithful(m)
<1>1. PICK U, rows : U = Table(m) /\ rows = RowsOf[m]
  OBVIOUS
<1>2. U \in SUBSET OccurrenceType /\ IsFiniteSet(U) /\ Placed(U) /\ rows = Finalized(U)
  BY <1>1, TableTyped, RowsAre
<1>3. Range(rows) = RowsFrom(U)
  <2>1. Lists(rows, RowsFrom(U))
    BY <1>2, FinalizedLists
  <2> QED
    BY <2>1 DEF Lists, Range
<1>4. ASSUME NEW s \in Chosen(m), NEW t, t = Tables[s][m[s]],
             NEW p \in t.polygons, NEW w \in Texts(t)
      PROVE  {r.count : r \in {r \in Range(rows) : r.id = <<p.id, w>>}}
               = {Stands(t, p.id, w)} \ {0}
  <2>1. PICK G : G = {o \in U : SentenceId(o) = <<p.id, w>>}
    OBVIOUS
  <2>2. PICK T : T = RowsFrom(U)
    OBVIOUS
  <2>3. Sound(t)
    BY <1>4, ChoiceSound
  <2>4. p.id \in Nat
    BY <2>3 DEF Sound, ShardType
  <2>5. w \in Nat /\ w # 0
    <3>1. PICK x \in t.sections \cup t.voyageSections : w \in Range(x.text)
      BY DEF Texts
    <3>2. x \in SectionType
      BY <2>3 DEF Sound, ShardType
    <3>3. x.text \in Seq(Nat)
      BY <3>2 DEF SectionType
    <3>4. w \in Nat
      BY <3>1, <3>3 DEF Range
    <3>5. w # 0
      <4>1. PICK all : all = UNION {Range(y.text) : y \in t.sections \cup t.voyageSections}
        OBVIOUS
      <4>2. Texts(t) = all \ {0}
        BY <4>1 DEF Texts
      <4> QED
        BY <4>2
    <3> QED
      BY <3>4, <3>5
  <2>6. G = {o \in Occurrences(t) : o.polygon = p.id /\ o.text = w}
    BY <1>1, <1>4, <2>1, GroupIs
  <2>7. Cardinality(G) = Stands(t, p.id, w)
    BY <2>3, <2>4, <2>5, <2>6, CountIs
  <2>8. PICK id, n : id = <<p.id, w>> /\ n = Cardinality(G)
    OBVIOUS
  <2>9. /\ n = 0 <=> G = {}
        /\ \A r \in T : r.id = id => r.count = n /\ G # {}
        /\ G # {} => \E r \in T : r.id = id
    <3>1. G = {o \in U : SentenceId(o) = id}
      BY <2>1, <2>8
    <3>2. PICK V : V = U
      OBVIOUS
    <3>3. V \in SUBSET OccurrenceType
      BY <1>2, <3>2
    <3>4. IsFiniteSet(V)
      BY <1>2, <3>2
    <3>5. Placed(V)
      BY <1>2, <3>2
    <3>6. \A o : o \in G <=> o \in V /\ SentenceId(o) = id
      BY <3>1, <3>2
    <3>7. /\ Cardinality(G) = 0 <=> G = {}
          /\ \A r \in RowsFrom(V) : r.id = id => r.count = Cardinality(G) /\ G # {}
          /\ G # {} => \E r \in RowsFrom(V) : r.id = id
      BY ONLY <3>3, <3>4, <3>5, <3>6, RowsCount
    <3> QED
      BY ONLY <2>2, <2>8, <3>2, <3>7
  <2>10. {r.count : r \in {r \in T : r.id = id}} = {n} \ {0}
    BY ONLY <2>9
  <2> QED
    BY <1>3, <2>2, <2>7, <2>8, <2>10
<1> QED
  BY <1>1, <1>4 DEF Faithful, Chosen
-----------------------------------------------------------------------------
(* What the streaming scan finds.                                          *)

\* The rows with one value in a column, up to the i-th.
With(rows, i, v) == {k \in 1 .. i : rows[k].source = v}
\* What the scan has counted after i rows.
Counted(rows, i) ==
  [sorted |-> \A k \in 2 .. i : Lexicographic(rows[k - 1].id, rows[k].id),
   rows |-> i, ids |-> {rows[k].id : k \in 1 .. i},
   polygons |-> {rows[k].polygon : k \in 1 .. i},
   sources |-> [v \in {rows[k].source : k \in 1 .. i} |-> Cardinality(With(rows, i, v))]]
ScanStart ==
  [sorted |-> TRUE, rows |-> 0, ids |-> {}, polygons |-> {}, sources |-> [v \in {} |-> 0]]
ScanNext(acc, rows, i) ==
  [sorted |-> acc.sorted /\ (i > 1 => Lexicographic(rows[i - 1].id, rows[i].id)),
   rows |-> acc.rows + 1, ids |-> acc.ids \cup {rows[i].id},
   polygons |-> acc.polygons \cup {rows[i].polygon},
   sources |-> [v \in DOMAIN acc.sources \cup {rows[i].source} |->
     (IF v \in DOMAIN acc.sources THEN acc.sources[v] ELSE 0)
       + (IF v = rows[i].source THEN 1 ELSE 0)]]

\* The rows with a value are counted one by one.
LEMMA WithNext ==
  ASSUME NEW rows, NEW i \in Nat \ {0}, NEW v
  PROVE  /\ Cardinality(With(rows, i, v)) \in Nat
         /\ Cardinality(With(rows, i, v))
              = Cardinality(With(rows, i - 1, v)) + (IF v = rows[i].source THEN 1 ELSE 0)
<1>1. PICK A, B : A = With(rows, i - 1, v) /\ B = With(rows, i, v)
  OBVIOUS
<1>2. i \in Int /\ i - 1 \in Int /\ 1 \in Int
  OBVIOUS
<1>3. IsFiniteSet(1 .. (i - 1)) /\ IsFiniteSet(1 .. i)
  BY <1>2, FS_Interval
<1>4. IsFiniteSet(A) /\ IsFiniteSet(B)
  BY <1>1, <1>3, FS_Subset DEF With
<1>5. Cardinality(A) \in Nat /\ Cardinality(B) \in Nat
  BY <1>4, FS_CardinalityType
<1>6. 1 .. i = (1 .. (i - 1)) \cup {i} /\ i \notin 1 .. (i - 1)
  BY <1>2
<1>7. i \notin A
  BY <1>1, <1>6 DEF With
<1>8. CASE v = rows[i].source
  <2>1. B = A \cup {i}
    BY <1>1, <1>6, <1>8 DEF With
  <2>2. Cardinality(B) = Cardinality(A) + 1
    BY <1>4, <1>7, <2>1, FS_AddElement
  <2> QED
    BY <1>1, <1>5, <1>8, <2>2
<1>9. CASE v # rows[i].source
  <2>1. B = A
    BY <1>1, <1>6, <1>9 DEF With
  <2> QED
    BY <1>1, <1>5, <1>9, <2>1
<1> QED
  BY <1>8, <1>9

\* One more row is one more step of the scan.
LEMMA CountedNext ==
  ASSUME NEW rows, NEW i \in Nat \ {0}
  PROVE  Counted(rows, i) = ScanNext(Counted(rows, i - 1), rows, i)
<1>1. PICK P : P = [k \in Nat |-> Lexicographic(rows[k - 1].id, rows[k].id)]
  OBVIOUS
<1>2. 1 .. i = (1 .. (i - 1)) \cup {i} /\ 2 .. i = (2 .. (i - 1)) \cup {k \in {i} : i > 1}
  OBVIOUS
<1>3. (\A k \in 2 .. i : Lexicographic(rows[k - 1].id, rows[k].id))
       = ((\A k \in 2 .. (i - 1) : Lexicographic(rows[k - 1].id, rows[k].id))
            /\ (i > 1 => Lexicographic(rows[i - 1].id, rows[i].id)))
  BY <1>2
<1>4. {rows[k].id : k \in 1 .. i} = {rows[k].id : k \in 1 .. (i - 1)} \cup {rows[i].id}
  BY <1>2
<1>5. {rows[k].polygon : k \in 1 .. i}
       = {rows[k].polygon : k \in 1 .. (i - 1)} \cup {rows[i].polygon}
  BY <1>2
<1>6. PICK V, W : /\ V = {rows[k].source : k \in 1 .. i}
                  /\ W = {rows[k].source : k \in 1 .. (i - 1)}
  OBVIOUS
<1>7. V = W \cup {rows[i].source}
  BY <1>2, <1>6
<1>8. ASSUME NEW v \in V
      PROVE  Cardinality(With(rows, i, v))
               = (IF v \in W THEN Cardinality(With(rows, i - 1, v)) ELSE 0)
                   + (IF v = rows[i].source THEN 1 ELSE 0)
  <2>1. CASE v \in W
    BY <2>1, WithNext
  <2>2. CASE v \notin W
    <3>1. With(rows, i - 1, v) = {}
      BY <1>6, <2>2 DEF With
    <3>2. Cardinality(With(rows, i - 1, v)) = 0
      BY <3>1, FS_EmptySet
    <3> QED
      BY <2>2, <3>2, WithNext
  <2> QED
    BY <2>1, <2>2
<1>9. PICK f, g : /\ f = [v \in V |-> Cardinality(With(rows, i, v))]
                  /\ g = [v \in W |-> Cardinality(With(rows, i - 1, v))]
  OBVIOUS
<1>10. f = [v \in DOMAIN g \cup {rows[i].source} |->
             (IF v \in DOMAIN g THEN g[v] ELSE 0) + (IF v = rows[i].source THEN 1 ELSE 0)]
  BY <1>7, <1>8, <1>9
<1>11. Counted(rows, i).sources = f /\ Counted(rows, i - 1).sources = g
  BY <1>6, <1>9 DEF Counted
<1>12. PICK B : B = Counted(rows, i - 1)
  OBVIOUS
<1>13. /\ B.sorted = (\A k \in 2 .. (i - 1) : Lexicographic(rows[k - 1].id, rows[k].id))
       /\ B.rows = i - 1 /\ B.ids = {rows[k].id : k \in 1 .. (i - 1)}
       /\ B.polygons = {rows[k].polygon : k \in 1 .. (i - 1)} /\ B.sources = g
  BY <1>11, <1>12 DEF Counted
<1>14. PICK sorted, ids, polygons :
         /\ sorted = (\A k \in 2 .. i : Lexicographic(rows[k - 1].id, rows[k].id))
         /\ ids = {rows[k].id : k \in 1 .. i} /\ polygons = {rows[k].polygon : k \in 1 .. i}
  OBVIOUS
<1>15. Counted(rows, i)
         = [sorted |-> sorted, rows |-> i, ids |-> ids, polygons |-> polygons, sources |-> f]
  BY <1>6, <1>9, <1>14 DEF Counted
<1>16. /\ sorted = (B.sorted /\ (i > 1 => Lexicographic(rows[i - 1].id, rows[i].id)))
       /\ i = B.rows + 1 /\ ids = B.ids \cup {rows[i].id}
       /\ polygons = B.polygons \cup {rows[i].polygon}
  <2>1. sorted = (B.sorted /\ (i > 1 => Lexicographic(rows[i - 1].id, rows[i].id)))
    BY <1>3, <1>13, <1>14, Zenon
  <2>2. i = B.rows + 1
    BY <1>13
  <2>3. ids = B.ids \cup {rows[i].id} /\ polygons = B.polygons \cup {rows[i].polygon}
    BY <1>4, <1>5, <1>13, <1>14
  <2> QED
    BY <2>1, <2>2, <2>3
<1>17. f = [v \in DOMAIN B.sources \cup {rows[i].source} |->
              (IF v \in DOMAIN B.sources THEN B.sources[v] ELSE 0)
                + (IF v = rows[i].source THEN 1 ELSE 0)]
  BY <1>10, <1>13
<1>18. ScanNext(B, rows, i)
         = [sorted |-> sorted, rows |-> i, ids |-> ids, polygons |-> polygons, sources |-> f]
  BY ONLY <1>16, <1>17 DEF ScanNext
<1> QED
  BY <1>12, <1>15, <1>18

\* The scan ends with what the whole table holds.
LEMMA ScannedIs ==
  ASSUME NEW rows, Len(rows) \in Nat
  PROVE  Scanned(rows) = Counted(rows, Len(rows))
<1>1. PICK n : n = Len(rows)
  OBVIOUS
<1> DEFINE next(f, i) == IF i = 0 THEN ScanStart ELSE ScanNext(f[i - 1], rows, i)
<1>2. Scanned(rows) = (CHOOSE f : f = [i \in 0 .. n |-> next(f, i)])[n]
  BY <1>1 DEF Scanned, ScanStart, ScanNext
<1>3. ASSUME NEW i \in 0 .. n, NEW f, i # 0 => f[i - 1] = Counted(rows, i - 1)
      PROVE  Counted(rows, i) = next(f, i)
  <2>1. CASE i = 0
    <3>1. 1 .. 0 = {} /\ 2 .. 0 = {}
      OBVIOUS
    <3>2. (\A k \in 2 .. 0 : Lexicographic(rows[k - 1].id, rows[k].id)) = TRUE
      BY <3>1
    <3>3. {rows[k].id : k \in 1 .. 0} = {} /\ {rows[k].polygon : k \in 1 .. 0} = {}
      BY <3>1
    <3>4. [v \in {rows[k].source : k \in 1 .. 0} |-> Cardinality(With(rows, 0, v))]
            = [v \in {} |-> 0]
      BY <3>1
    <3>5. Counted(rows, 0) = ScanStart
      BY <3>2, <3>3, <3>4, Zenon DEF Counted, ScanStart
    <3> QED
      BY <2>1, <3>5
  <2>2. CASE i # 0
    <3>1. i \in Nat \ {0}
      BY <1>1, <2>2
    <3> QED
      BY <1>3, <2>2, <3>1, CountedNext
  <2> QED
    BY <2>1, <2>2
<1>4. \E f : f = [i \in 0 .. n |-> next(f, i)]
  <2>1. PICK f : f = [i \in 0 .. n |-> Counted(rows, i)]
    OBVIOUS
  <2>2. ASSUME NEW i \in 0 .. n PROVE i # 0 => f[i - 1] = Counted(rows, i - 1)
    <3>1. i # 0 => i - 1 \in 0 .. n
      BY <1>1
    <3> QED
      BY <2>1, <3>1
  <2>3. ASSUME NEW i \in 0 .. n PROVE f[i] = next(f, i)
    BY <1>3, <2>1, <2>2
  <2> HIDE DEF next
  <2>4. f = [i \in 0 .. n |-> next(f, i)]
    BY <2>1, <2>3
  <2> QED
    BY <2>4
<1>5. PICK g : g = (CHOOSE f : f = [i \in 0 .. n |-> next(f, i)])
  OBVIOUS
<1>6. g = [i \in 0 .. n |-> next(g, i)]
  BY <1>4, <1>5
<1>7. ASSUME NEW i \in 0 .. n PROVE g[i] = Counted(rows, i)
  <2> DEFINE Wrong == {k \in 0 .. n : g[k] # Counted(rows, k)}
             place == [k \in Wrong |-> k]
  <2>1. SUFFICES ASSUME Wrong # {} PROVE FALSE
    OBVIOUS
  <2>2. place \in [Wrong -> Nat]
    BY <1>1
  <2>3. PICK k \in Wrong : \A j \in Wrong : place[k] <= place[j]
    BY <2>1, <2>2, Smallest
  <2>4. k \in 0 .. n /\ g[k] # Counted(rows, k) /\ \A j \in Wrong : k <= j
    BY <2>3
  <2>5. k # 0 => g[k - 1] = Counted(rows, k - 1)
    <3>1. ASSUME k # 0 PROVE k - 1 \in 0 .. n /\ ~ (k <= k - 1)
      BY <1>1, <2>4, <3>1
    <3>2. ASSUME k # 0 PROVE k - 1 \notin Wrong
      BY <2>4, <3>1, <3>2
    <3> QED
      BY <3>1, <3>2
  <2>6. g[k] = next(g, k)
    <3> HIDE DEF next
    <3> QED
      BY <1>6, <2>4
  <2>7. Counted(rows, k) = next(g, k)
    <3> HIDE DEF next
    <3> QED
      BY <1>3, <2>4, <2>5
  <2> QED
    BY <2>4, <2>6, <2>7
<1> QED
  BY <1>1, <1>2, <1>5, <1>7

\* The streaming scan and the whole-table count agree on a finalized table.
LEMMA ConsistentRows ==
  ASSUME NEW m, Choice(m)
  PROVE  Consistent(RowsOf[m])
<1>1. PICK U, T, R, rows, n : /\ U = Table(m) /\ T = RowsFrom(U) /\ R = RowOrder(T)
                              /\ rows = RowsOf[m] /\ n = Len(rows)
  OBVIOUS
<1>2. U \in SUBSET OccurrenceType /\ IsFiniteSet(U) /\ Placed(U) /\ rows = Finalized(U)
  BY <1>1, TableTyped, RowsAre
<1>3. Lists(rows, T)
  BY <1>1, <1>2, FinalizedLists
<1>4. n \in Nat /\ DOMAIN rows = 1 .. n /\ n = Cardinality(T)
  BY <1>1, <1>3 DEF Lists
<1>5. \A k \in 1 .. n : rows[k] \in T /\ Cardinality(Under(R, T, rows[k])) = k - 1
  BY <1>1, <1>2, <1>4, FinalizedNth
<1>6. \A j, k \in 1 .. n : rows[j] = rows[k] => j = k
  BY <1>1, <1>3 DEF Lists
<1>7. ASSUME NEW k \in 2 .. n PROVE Lexicographic(rows[k - 1].id, rows[k].id)
  <2>1. PICK j : j = k - 1
    OBVIOUS
  <2>2. j \in 1 .. n /\ k \in 1 .. n /\ j # k /\ ~ (k - 1 < j - 1)
    BY <1>4, <2>1
  <2>3. PICK a, b : a = rows[j] /\ b = rows[k]
    OBVIOUS
  <2>4. a \in T /\ b \in T /\ a # b
    BY <1>5, <1>6, <2>2, <2>3
  <2>5. IsFiniteSet(T) /\ Order(R, T)
    BY <1>1, <1>2, RowsInOrder
  <2>6. <<b, a>> \notin R
    <3>1. Cardinality(Under(R, T, a)) = j - 1 /\ Cardinality(Under(R, T, b)) = k - 1
      BY <1>5, <2>2, <2>3
    <3>2. <<b, a>> \in R => Cardinality(Under(R, T, b)) < Cardinality(Under(R, T, a))
      BY <2>4, <2>5, UnderDiffers DEF Order
    <3> QED
      BY <2>2, <3>1, <3>2
  <2>7. <<a, b>> \in R
    BY <2>4, <2>5, <2>6 DEF Order
  <2>8. Lexicographic(a.id, b.id)
    BY <1>1, <2>7 DEF RowOrder
  <2> QED
    BY <2>1, <2>3, <2>8
<1>8. \A j, k \in 1 .. n : rows[j].id = rows[k].id => j = k
  <2>1. \A r \in T : r = OutputRow(U, {p \in U : SentenceId(p) = r.id})
    BY <1>1, <1>2, RowFacts
  <2>2. \A r, q \in T : r.id = q.id => r = q
    BY <2>1
  <2> QED
    BY <1>5, <1>6, <2>2
<1>9. Cardinality({rows[k].id : k \in 1 .. n}) = n
  <2>1. PICK I, ids : I = 1 .. n /\ ids = {rows[k].id : k \in 1 .. n}
    OBVIOUS
  <2>2. PICK f : f = [k \in I |-> rows[k].id]
    OBVIOUS
  <2>3. 1 \in Int /\ n \in Int
    BY <1>4
  <2>4. IsFiniteSet(I) /\ Cardinality(I) = n
    BY <1>4, <2>1, <2>3, FS_Interval
  <2>5. f \in Bijection(I, ids)
    BY <1>8, <2>1, <2>2 DEF Bijection, Injection, Surjection, IsInjective
  <2>6. ExistsBijection(I, ids)
    BY <2>5 DEF ExistsBijection
  <2>7. Cardinality(ids) = Cardinality(I)
    BY <2>4, <2>6, FS_Bijection
  <2> QED
    BY <2>1, <2>4, <2>7
<1>10. PICK c : c = Counted(rows, n)
  OBVIOUS
<1>11. Scanned(rows) = c
  BY <1>1, <1>4, <1>10, ScannedIs
<1>12. c.sorted
  BY <1>7, <1>10 DEF Counted
<1>13. /\ c.rows = n /\ c.ids = {rows[k].id : k \in 1 .. n}
       /\ c.polygons = {rows[k].polygon : k \in 1 .. n}
       /\ c.sources = [v \in {rows[k].source : k \in 1 .. n} |-> Cardinality(With(rows, n, v))]
  BY <1>10 DEF Counted
<1>14. CountsBy(rows, "source") = c.sources
  BY <1>4, <1>13 DEF CountsBy, With
<1>15. Statistics(rows)
         = [rows |-> n, ids |-> Cardinality(c.ids), polygons |-> Cardinality(c.polygons),
            sources |-> c.sources]
  BY <1>1, <1>4, <1>13, <1>14 DEF Statistics
<1>16. c.rows = n /\ Cardinality(c.ids) = n
  BY <1>9, <1>13
<1> QED
  BY <1>1, <1>11, <1>12, <1>15, <1>16 DEF Consistent

\* An export holds the rows of versions that can be segmented.
LEMMA ExportChoice ==
  ASSUME NEW e, Segmented(e.parts)
  PROVE  Choice(Versions(e))
<1>1. PICK m : m = Versions(e)
  OBVIOUS
<1>2. \A s \in Shards : m[s] = IF e.parts[s] = None THEN 0 ELSE e.parts[s].version
  BY <1>1 DEF Versions
<1>3. ASSUME NEW s \in Shards, e.parts[s] # None
      PROVE  m[s] \in Nat /\ <<s, m[s]>> \in Checkpointable
  <2>1. <<s, m[s]>> \in Checkpointable
    BY <1>2, <1>3 DEF Segmented
  <2>2. m[s] \in DOMAIN Tables[s] /\ Tables[s] \in Seq(ShardType)
    BY <2>1, InputsAssumption DEF Checkpointable
  <2> QED
    BY <2>1, <2>2
<1>4. m \in [Shards -> Nat]
  <2>1. m = [s \in Shards |-> m[s]]
    BY <1>1 DEF Versions
  <2>2. ASSUME NEW s \in Shards PROVE m[s] \in Nat
    <3>1. CASE e.parts[s] = None
      <4>1. m[s] = 0
        BY <1>2, <3>1
      <4> QED
        BY <4>1
    <3>2. CASE e.parts[s] # None
      BY <1>3, <3>2
    <3> QED
      BY <3>1, <3>2
  <2> QED
    BY <2>1, <2>2
<1>5. \A s \in Shards : m[s] # 0 => <<s, m[s]>> \in Checkpointable
  BY <1>2, <1>3
<1> QED
  BY <1>1, <1>4, <1>5 DEF Choice

\* What is exported or published counts every sentence of its files as often as it
\* stands there, once per polygon, and passes its own validation.
THEOREM BuildExportFaithful == Spec => []ExportIsFaithful
<1>1. Init => SoundInv
  <2> SUFFICES ASSUME Init PROVE SoundInv
    OBVIOUS
  <2>1. /\ job = Idle /\ active = NoParts /\ output = None /\ published = None
        /\ Idle.pc = "idle" /\ Idle.parts = NoParts /\ Idle.backup = None
    BY DEF Init, Idle
  <2> QED
    BY <2>1 DEF SoundInv, Segmented, NoParts
<1>2. IInv /\ SoundInv /\ [Next]_vars => SoundInv'
  BY SoundStep
<1>3. SoundInv => ExportIsFaithful
  <2> SUFFICES ASSUME SoundInv, NEW e \in {output, published} \ {None}
               PROVE  Faithful(Versions(e)) /\ Consistent(RowsOf[Versions(e)])
    BY DEF ExportIsFaithful, Rows
  <2>1. Choice(Versions(e))
    BY ExportChoice DEF SoundInv
  <2> QED
    BY <2>1, FaithfulRows, ConsistentRows
<1> QED
  BY <1>1, <1>2, <1>3, BuildInvariant, PTL DEF Spec
=============================================================================
