-------------------------- MODULE StateStoreProofs --------------------------
(***************************************************************************)
(* For any set of operator processes, phases and updates, and any number   *)
(* of kills and power failures: the run state keeps its types, loses no    *)
(* acknowledged update, and implements the atomic register of RunRegister. *)
(***************************************************************************)
EXTENDS StateStore, TLAPS

Whole == [state : StateContents \cup {Missing}, events : EventContents \cup {Missing}]

\* Inside the lock.
Critical == Points \ {"idle", "wait"}
\* Where the new content is built and not yet in place.
BuildPoints == {"check", "open", "write", "fsync", "replace"}

\* What an operation makes of the two files.
Change(o, old, new) ==
  \/ /\ o.kind = "create" /\ old["state"] = Missing
     /\ new = [old EXCEPT !["state"] = InitialState]
  \/ /\ o.kind = "transition" /\ old["state"] # Missing /\ old["state"].phase = o.expected
     /\ new = [old EXCEPT !["state"] = Advance(old["state"], o.target, o.token)]
  \/ /\ o.kind = "append" /\ old["state"] # Missing
     /\ new = [old EXCEPT !["events"] = Extend(old["events"], old["state"], o.token)]

FactsIn(g, f) == IF f = "state" THEN StateFacts(g["state"]) ELSE EventFacts(g["events"])

\* A reader never meets a torn file, and no power failure makes one.
WholeInv ==
  /\ files \in Whole /\ stable \in Whole
  /\ \A f \in Files : solid[f]

LockInv == \A p \in Procs : pc[p] \in Critical => lock = p

\* The next contents are built from the current ones.
BuiltInv == \A p \in Procs : pc[p] \in BuildPoints => Change(op[p], files, next[p])

\* The temporary file of a writer holds the next content, then durably.
TemporaryInv ==
  \A p \in Procs :
    /\ pc[p] \in {"fsync", "replace"} => tmp[FileOf(op[p])] = next[p][FileOf(op[p])]
    /\ pc[p] = "replace" => flushed[FileOf(op[p])]

\* An operation that adds something knows what.
TokenInv == \A p \in Procs : op[p].kind # "create" => op[p].token \in Tokens

\* The files hold what is stable, and what an operation added is in place
\* before the directory is synchronised and stable before it returns.
GrowInv == \A f \in Files : FactsIn(stable, f) \subseteq FactsIn(files, f)
AddedInv ==
  \A p \in Procs :
    op[p].kind # "create" =>
      /\ pc[p] = "syncParent" => op[p].token \in FactsIn(files, FileOf(op[p]))
      /\ pc[p] = "returned" => op[p].token \in Survivors

IInv ==
  /\ TypeOK
  /\ WholeInv
  /\ LockInv
  /\ BuiltInv
  /\ TemporaryInv
  /\ TokenInv
  /\ GrowInv
  /\ AddedInv
  /\ AckedSurvive
-----------------------------------------------------------------------------
(* What one operation does to whole files.                                 *)

\* A missing file is not a file with contents.
LEMMA ContentsPresent ==
  \A c \in StateContents \cup EventContents : Present(c) /\ c # Missing
BY FileAssumption DEF Present

\* Whole files are possible files.
LEMMA WholeContents == Whole \subseteq Contents
BY DEF Whole, Contents

\* So is the store that does not exist yet.
LEMMA NothingWhole == Nothing \in Whole
BY DEF Nothing, Whole, Files

\* create_initial_run writes a whole state.
LEMMA InitialContent == InitialState \in StateContents
BY PhasesAssumption DEF InitialState, StateContents

\* An advanced state is a whole state ...
LEMMA AdvanceContent ==
  ASSUME NEW s \in StateContents, NEW target \in Phases, NEW token \in Tokens
  PROVE  /\ Advance(s, target, token) \in StateContents
         /\ Advance(s, target, token).facts = s.facts \cup {token}
BY DEF Advance, StateContents

\* ... and a log with one event more is a whole log.
LEMMA ExtendContent ==
  ASSUME NEW events \in EventContents \cup {Missing}, NEW s \in StateContents,
         NEW token \in Tokens
  PROVE  /\ Extend(events, s, token) \in EventContents
         /\ EventFacts(Extend(events, s, token)) = EventFacts(events) \cup {token}
<1> DEFINE old == IF events = Missing THEN <<>> ELSE events
           entry == [event_sequence |-> Len(old), phase |-> s.phase, facts |-> token]
           Entries == [event_sequence : Nat, phase : Phases, facts : Tokens]
<1>1. old \in Seq(Entries)
  BY DEF EventContents
<1>2. entry \in Entries
  BY <1>1 DEF StateContents
<1>3. Extend(events, s, token) = Append(old, entry)
  BY DEF Extend
<1>4. Append(old, entry) \in EventContents
  BY <1>1, <1>2 DEF EventContents
<1> HIDE DEF entry, Entries
<1>5. /\ DOMAIN Append(old, entry) = 1 .. Len(old) + 1
      /\ Append(old, entry)[Len(old) + 1] = entry
      /\ \A i \in 1 .. Len(old) : Append(old, entry)[i] = old[i]
  BY <1>1
<1>6. entry.facts = token
  BY DEF entry
<1>7. EventFacts(events) = {old[i].facts : i \in 1 .. Len(old)}
  BY <1>1, ContentsPresent DEF EventFacts, Present
<1>8. EventFacts(Append(old, entry)) = {Append(old, entry)[i].facts : i \in 1 .. Len(old) + 1}
  BY <1>4, <1>5, ContentsPresent DEF EventFacts
<1> HIDE DEF old
<1>9. Len(old) \in Nat
  BY <1>1
<1> QED
  BY <1>3, <1>4, <1>5, <1>6, <1>7, <1>8, <1>9

\* An operation changes its own file, to a whole one that keeps what was
\* there and has its token.
LEMMA ChangeWhole ==
  ASSUME NEW o \in Ops, NEW old \in Whole, NEW new, Change(o, old, new),
         o.kind # "create" => o.token \in Tokens
  PROVE  /\ new \in Whole
         /\ \A f \in Files : FactsIn(old, f) \subseteq FactsIn(new, f)
         /\ o.kind # "create" => o.token \in FactsIn(new, FileOf(o))
         /\ new = [old EXCEPT ![FileOf(o)] = new[FileOf(o)]]
<1> USE ContentsPresent
<1>1. CASE o.kind = "create"
  <2>1. old["state"] = Missing /\ new = [old EXCEPT !["state"] = InitialState]
    BY <1>1 DEF Change
  <2>2. StateFacts(Missing) = {}
    BY DEF StateFacts, Present
  <2> QED
    BY <1>1, <2>1, <2>2, InitialContent DEF Whole, FactsIn, FileOf, Files
<1>2. CASE o.kind = "transition"
  <2>1. /\ old["state"] \in StateContents
        /\ new = [old EXCEPT !["state"] = Advance(old["state"], o.target, o.token)]
    BY <1>2 DEF Change, Whole
  <2>2. o.target \in Phases /\ o.token \in Tokens
    BY <1>2 DEF Ops
  <2>3. StateFacts(Advance(old["state"], o.target, o.token))
          = StateFacts(old["state"]) \cup {o.token}
    BY <2>1, <2>2, AdvanceContent DEF StateFacts
  <2> QED
    BY <1>2, <2>1, <2>2, <2>3, AdvanceContent DEF Whole, FactsIn, FileOf, Files
<1>3. CASE o.kind = "append"
  <2>1. /\ old["state"] \in StateContents
        /\ new = [old EXCEPT !["events"] = Extend(old["events"], old["state"], o.token)]
    BY <1>3 DEF Change, Whole
  <2>2. old["events"] \in EventContents \cup {Missing} /\ o.token \in Tokens
    BY <1>3 DEF Whole
  <2> QED
    BY <1>3, <2>1, <2>2, ExtendContent DEF Whole, FactsIn, FileOf, Files
<1> QED
  BY <1>1, <1>2, <1>3 DEF Ops, Kinds
-----------------------------------------------------------------------------
(* Type correctness.                                                       *)

\* Every operation has its file.
LEMMA FileOfType == \A o \in Ops : FileOf(o) \in Files
BY DEF FileOf, Files

\* Every step keeps the types.
LEMMA TypeStep == IInv /\ [Next]_vars => TypeOK'
<1> SUFFICES ASSUME IInv, [Next]_vars PROVE TypeOK'
  OBVIOUS
<1> USE FileAssumption, PhasesAssumption, WholeContents, FileOfType
        DEF TypeOK, IInv, Points, Goto, disk, history
<1>n. NoOp \in Ops /\ Nothing \in Contents
  BY NothingWhole DEF NoOp, Ops, Kinds
<1>1. ASSUME NEW p \in Procs, CallCreate(p) PROVE TypeOK'
  BY <1>1, <1>n DEF CallCreate
<1>2. ASSUME NEW p \in Procs, NEW kind \in {"transition", "append"}, CallWithFacts(p, kind)
      PROVE  TypeOK'
  BY <1>2 DEF CallWithFacts, Ops, Kinds
<1>3. ASSUME NEW p \in Procs, AcquireLock(p) PROVE TypeOK'
  BY <1>3 DEF AcquireLock
<1>4. ASSUME NEW p \in Procs, ReadAndBuild(p) PROVE TypeOK'
  <2>1. \A new : Change(op[p], files, new) => new \in Whole
    BY ChangeWhole DEF WholeInv, TokenInv
  <2>2. \/ next' = next
        \/ \E new : next' = [next EXCEPT ![p] = new] /\ Change(op[p], files, new)
    BY <1>4 DEF ReadAndBuild, ExpectedPhase, Build, Change
  <2>3. next' \in [Procs -> Contents]
    BY <2>1, <2>2
  <2> QED
    BY <1>4, <2>3 DEF ReadAndBuild
<1>5. ASSUME NEW p \in Procs, CheckTemporary(p) PROVE TypeOK'
  BY <1>5 DEF CheckTemporary
<1>6. ASSUME NEW p \in Procs, OpenTemporary(p) PROVE TypeOK'
  BY <1>6 DEF OpenTemporary, Contents, Files
<1>7. ASSUME NEW p \in Procs, WriteTemporary(p) PROVE TypeOK'
  <2>1. next[p] \in Whole
    BY <1>7, ChangeWhole DEF WriteTemporary, BuiltInv, BuildPoints, WholeInv, TokenInv
  <2> QED
    BY <1>7, <2>1 DEF WriteTemporary, Contents, Whole, Files
<1>8. ASSUME NEW p \in Procs, FsyncTemporary(p) PROVE TypeOK'
  BY <1>8 DEF FsyncTemporary
<1>9. ASSUME NEW p \in Procs, ReplaceTarget(p) PROVE TypeOK'
  BY <1>9 DEF ReplaceTarget, Contents, Files
<1>10. ASSUME NEW p \in Procs, SyncParent(p) PROVE TypeOK'
  BY <1>10 DEF SyncParent
<1>11. ASSUME NEW p \in Procs, SystemCallFails(p) PROVE TypeOK'
  BY <1>11 DEF SystemCallFails
<1>12. ASSUME NEW p \in Procs, RemoveTemporary(p) PROVE TypeOK'
  BY <1>12 DEF RemoveTemporary, Contents, Files
<1>13. ASSUME NEW p \in Procs, ReleaseLock(p) PROVE TypeOK'
  BY <1>13, <1>n DEF ReleaseLock, EndCall, TokenInv
<1>14. ASSUME NEW p \in Procs, KillProcess(p) PROVE TypeOK'
  BY <1>14, <1>n DEF KillProcess, EndCall
<1>15. CASE PowerLoss
  BY <1>15, <1>n DEF PowerLoss, AfterLoss, Contents, Files
<1>16. CASE UNCHANGED vars
  BY <1>16 DEF vars
<1> QED
  BY <1>1, <1>2, <1>3, <1>4, <1>5, <1>6, <1>7, <1>8, <1>9, <1>10, <1>11, <1>12, <1>13,
     <1>14, <1>15, <1>16 DEF Next, Call, Step
-----------------------------------------------------------------------------
(* The inductive invariant.                                                *)

\* A process inside the lock is alone there.
LEMMA Alone ==
  ASSUME TypeOK, LockInv, NEW p \in Procs, pc[p] \in Critical
  PROVE  \A q \in Procs : q # p => pc[q] \in {"idle", "wait"}
BY DEF LockInv, TypeOK, Critical

\* Steps that leave the files, the temporary files and their bytes alone.
LEMMA QuietStep ==
  ASSUME IInv, UNCHANGED disk, TypeOK', LockInv', BuiltInv', TemporaryInv', TokenInv',
         AddedInv', acked' \subseteq Survivors
  PROVE  IInv'
BY DEF IInv, disk, WholeInv, GrowInv, AckedSurvive, Survivors, FactsIn

\* Calling and returning change no file.
LEMMA CallStep ==
  ASSUME IInv, NEW p \in Procs, Call(p)
  PROVE  IInv'
<1>1. TypeOK'
  BY TypeStep DEF Next
<1> DEFINE Sound(o) == o \in Ops /\ (o.kind # "create" => o.token \in Tokens)
<1>2. /\ pc[p] = "idle" /\ pc' = [pc EXCEPT ![p] = "wait"]
      /\ UNCHANGED <<disk, lock, next, acked>>
  BY DEF Call, CallCreate, CallWithFacts, Goto, history
<1>3. \E o : Sound(o) /\ op' = [op EXCEPT ![p] = o]
  <2>1. NoOp \in Ops /\ NoOp.kind = "create"
    BY PhasesAssumption DEF NoOp, Ops, Kinds
  <2>2. CASE CallCreate(p)
    BY <2>1, <2>2 DEF CallCreate
  <2>3. ASSUME NEW kind \in {"transition", "append"}, CallWithFacts(p, kind)
        PROVE  \E o : Sound(o) /\ op' = [op EXCEPT ![p] = o]
    <3>1. PICK expected \in Phases, target \in Phases, token \in Tokens \ used :
            op' = [op EXCEPT ![p] = [kind |-> kind, expected |-> expected,
                                     target |-> target, token |-> token]]
      BY <2>3 DEF CallWithFacts
    <3>2. [kind |-> kind, expected |-> expected, target |-> target, token |-> token] \in Ops
      BY DEF Ops, Kinds
    <3> QED
      BY <3>1, <3>2
  <2> QED
    BY <2>2, <2>3 DEF Call
<1> USE DEF IInv, TypeOK
<1>4. LockInv' /\ BuiltInv' /\ TemporaryInv' /\ TokenInv' /\ AddedInv'
  BY <1>2, <1>3 DEF disk, LockInv, BuiltInv, TemporaryInv, TokenInv, AddedInv, Critical, BuildPoints,
              Survivors
<1> QED
  BY <1>1, <1>2, <1>4, QuietStep DEF AckedSurvive

\* Taking and leaving the lock, reading, failing and dying change no file.
LEMMA LockStep ==
  ASSUME IInv, NEW p \in Procs,
         AcquireLock(p) \/ CheckTemporary(p) \/ SystemCallFails(p) \/ ReleaseLock(p)
           \/ KillProcess(p)
  PROVE  IInv'
<1>1. TypeOK' /\ UNCHANGED disk
  BY TypeStep DEF Next, Step, AcquireLock, CheckTemporary, SystemCallFails, ReleaseLock,
                  KillProcess
<1> USE DEF IInv, TypeOK, LockInv, BuiltInv, TemporaryInv, TokenInv, AddedInv, AckedSurvive,
            Critical, BuildPoints, Points, Survivors, disk, Goto
<1>2. CASE AcquireLock(p)
  BY <1>1, <1>2, ProcsAssumption, QuietStep DEF AcquireLock, history
<1>3. CASE CheckTemporary(p)
  BY <1>1, <1>3, QuietStep DEF CheckTemporary, history
<1>4. CASE SystemCallFails(p)
  BY <1>1, <1>4, QuietStep DEF SystemCallFails, history
<1>5. NoOp.kind = "create"
  BY DEF NoOp
<1>6. CASE ReleaseLock(p)
  <2>1. \A q \in Procs : q # p => pc[q] \in {"idle", "wait"}
    BY <1>6, Alone DEF ReleaseLock
  <2> QED
    BY <1>1, <1>5, <1>6, <2>1, QuietStep DEF ReleaseLock, EndCall
<1>7. CASE KillProcess(p)
  BY <1>1, <1>5, <1>7, QuietStep DEF KillProcess, EndCall
<1> QED
  BY <1>2, <1>3, <1>4, <1>6, <1>7

\* What a process builds is the change of its operation.
LEMMA ReadStep ==
  ASSUME IInv, NEW p \in Procs, ReadAndBuild(p)
  PROVE  IInv'
<1>1. TypeOK'
  BY TypeStep DEF Next, Step
<1>2. \A q \in Procs : q # p => pc[q] \in {"idle", "wait"}
  BY Alone DEF ReadAndBuild, IInv, Critical, Points
<1>3. /\ pc[p] = "read" /\ UNCHANGED <<disk, lock, op, history>>
      /\ \/ pc' = [pc EXCEPT ![p] = "returned"] /\ op[p].kind = "create" /\ UNCHANGED next
         \/ pc' = [pc EXCEPT ![p] = "raised"] /\ UNCHANGED next
         \/ /\ pc' = [pc EXCEPT ![p] = "check"] /\ next' = [next EXCEPT ![p] = next'[p]]
            /\ Change(op[p], files, next'[p])
  BY DEF ReadAndBuild, ExpectedPhase, Build, Change, Goto, IInv, TypeOK
<1>4. BuiltInv'
  BY <1>2, <1>3 DEF IInv, TypeOK, BuiltInv, BuildPoints, disk
<1> QED
  BY <1>1, <1>2, <1>3, <1>4, QuietStep
     DEF IInv, TypeOK, LockInv, TemporaryInv, TokenInv, AddedInv, AckedSurvive,
         Critical, BuildPoints, Points, Survivors, disk, history

\* The steps on a temporary file: only its writer is inside the lock.
LEMMA TemporaryStep ==
  ASSUME IInv, NEW p \in Procs,
         OpenTemporary(p) \/ WriteTemporary(p) \/ FsyncTemporary(p) \/ RemoveTemporary(p)
  PROVE  IInv'
<1>1. TypeOK'
  BY TypeStep DEF Next, Step
<1>2. \A q \in Procs : q # p => pc[q] \in {"idle", "wait"}
  BY Alone DEF OpenTemporary, WriteTemporary, FsyncTemporary, RemoveTemporary, IInv,
               Critical, Points
<1>3. FileOf(op[p]) \in Files /\ DOMAIN tmp = Files
  BY FileOfType DEF IInv, TypeOK, Contents, Files
<1> USE DEF IInv, TypeOK, LockInv, BuiltInv, TemporaryInv, TokenInv, AddedInv, AckedSurvive,
            WholeInv, GrowInv, FactsIn, Survivors, Critical, BuildPoints, Points, Goto, history
<1>4. CASE OpenTemporary(p)
  BY <1>1, <1>2, <1>3, <1>4 DEF OpenTemporary
<1>5. CASE WriteTemporary(p)
  BY <1>1, <1>2, <1>3, <1>5 DEF WriteTemporary
<1>6. CASE FsyncTemporary(p)
  BY <1>1, <1>2, <1>3, <1>6 DEF FsyncTemporary
<1>7. CASE RemoveTemporary(p)
  BY <1>1, <1>2, <1>3, <1>7 DEF RemoveTemporary
<1> QED
  BY <1>4, <1>5, <1>6, <1>7

\* os.replace puts the content in place that its operation calls for.
LEMMA ReplaceContent ==
  ASSUME IInv, NEW p \in Procs, ReplaceTarget(p)
  PROVE  Change(op[p], files, files')
<1>1. /\ Change(op[p], files, next[p])
      /\ tmp[FileOf(op[p])] = next[p][FileOf(op[p])]
      /\ op[p] \in Ops /\ files \in Whole
      /\ op[p].kind # "create" => op[p].token \in Tokens
  BY DEF IInv, BuiltInv, TemporaryInv, BuildPoints, ReplaceTarget, TypeOK, WholeInv, TokenInv
<1>2. next[p] = [files EXCEPT ![FileOf(op[p])] = next[p][FileOf(op[p])]]
  BY <1>1, ChangeWhole
<1> QED
  BY <1>1, <1>2 DEF ReplaceTarget

\* os.replace keeps the invariant: the new file has all that the old one had.
LEMMA ReplaceStep ==
  ASSUME IInv, NEW p \in Procs, ReplaceTarget(p)
  PROVE  IInv'
<1>1. TypeOK'
  BY TypeStep DEF Next, Step
<1>2. \A q \in Procs : q # p => pc[q] \in {"idle", "wait"}
  BY Alone DEF ReplaceTarget, IInv, Critical, Points
<1>3. FileOf(op[p]) \in Files /\ flushed[FileOf(op[p])]
  BY FileOfType DEF IInv, TypeOK, TemporaryInv, ReplaceTarget
<1>4. /\ files' \in Whole
      /\ \A f \in Files : FactsIn(files, f) \subseteq FactsIn(files', f)
      /\ op[p].kind # "create" => op[p].token \in FactsIn(files', FileOf(op[p]))
  BY ReplaceContent, ChangeWhole DEF IInv, TypeOK, WholeInv, TokenInv
<1>5. WholeInv' /\ GrowInv'
  <2>1. UNCHANGED stable /\ solid' = [solid EXCEPT ![FileOf(op[p])] = TRUE]
    BY <1>3 DEF ReplaceTarget, IInv, TypeOK
  <2> QED
    BY <1>4, <2>1 DEF IInv, WholeInv, GrowInv, FactsIn
<1>6. AddedInv'
  BY <1>2, <1>4 DEF IInv, TypeOK, AddedInv, ReplaceTarget, Goto, Survivors, FactsIn
<1> QED
  BY <1>1, <1>2, <1>5, <1>6
     DEF IInv, TypeOK, LockInv, BuiltInv, TemporaryInv, TokenInv, AckedSurvive, Survivors,
         Critical, BuildPoints, Points, ReplaceTarget, Goto, history

\* What a file holds is a survivor as soon as the directory is synchronised.
LEMMA SyncStep ==
  ASSUME IInv, NEW p \in Procs, SyncParent(p)
  PROVE  IInv'
<1>1. TypeOK'
  BY TypeStep DEF Next, Step
<1>2. \A q \in Procs : q # p => pc[q] \in {"idle", "wait"}
  BY Alone DEF SyncParent, IInv, Critical, Points
<1>3. Survivors' = FactsIn(files, "state") \cup FactsIn(files, "events")
  BY DEF SyncParent, Survivors, FactsIn
<1>4. Survivors \subseteq Survivors'
  BY <1>3 DEF IInv, GrowInv, Survivors, FactsIn, Files
<1>5. AddedInv'
  BY <1>2, <1>3 DEF IInv, TypeOK, AddedInv, SyncParent, Goto, FactsIn, FileOf
<1> QED
  BY <1>1, <1>2, <1>4, <1>5
     DEF IInv, TypeOK, WholeInv, GrowInv, LockInv, BuiltInv, TemporaryInv, TokenInv,
         AckedSurvive, Critical, BuildPoints, Points, SyncParent, Goto, history, FactsIn

\* A power failure keeps or undoes whole renames, file by file.
LEMMA LossKeeps ==
  ASSUME IInv, PowerLoss
  PROVE  \E kept \in SUBSET Files :
           files' = [f \in Files |-> IF f \in kept THEN files[f] ELSE stable[f]]
BY DEF PowerLoss, AfterLoss, IInv, WholeInv

\* A power failure keeps the invariant: all that is undone was not acknowledged.
LEMMA LossStep ==
  ASSUME IInv, PowerLoss
  PROVE  IInv'
<1>1. TypeOK'
  BY TypeStep DEF Next
<1>2. PICK kept \in SUBSET Files :
        files' = [f \in Files |-> IF f \in kept THEN files[f] ELSE stable[f]]
  BY LossKeeps
<1>3. stable' = files'
  BY DEF PowerLoss
<1>4. files' \in Whole
  BY <1>2 DEF IInv, WholeInv, Whole, Files
<1>5. Survivors \subseteq Survivors'
  BY <1>2, <1>3 DEF IInv, GrowInv, Survivors, FactsIn, Files
<1>6. WholeInv' /\ GrowInv'
  BY <1>3, <1>4 DEF PowerLoss, WholeInv, GrowInv, FactsIn
<1> QED
  BY <1>1, <1>5, <1>6
     DEF IInv, LockInv, BuiltInv, TemporaryInv, TokenInv, AddedInv, AckedSurvive, NoOp,
         Critical, BuildPoints, PowerLoss
-----------------------------------------------------------------------------
(* Theorems.                                                               *)

\* The invariant holds in the initial states ...
LEMMA InitInv == Init => IInv
<1> SUFFICES ASSUME Init PROVE IInv
  OBVIOUS
<1>1. NoOp \in Ops
  BY PhasesAssumption DEF NoOp, Ops, Kinds
<1>2. TypeOK
  BY <1>1, NothingWhole, WholeContents, FileAssumption DEF Init, TypeOK, Points
<1> QED
  BY <1>2, NothingWhole
     DEF Init, IInv, WholeInv, LockInv, BuiltInv, TemporaryInv, TokenInv, GrowInv, AddedInv,
         AckedSurvive, NoOp, Critical, BuildPoints, FactsIn

\* ... and every step keeps it.
LEMMA NextInv == IInv /\ [Next]_vars => IInv'
<1> SUFFICES ASSUME IInv, [Next]_vars PROVE IInv'
  OBVIOUS
<1>1. CASE UNCHANGED vars
  BY <1>1 DEF vars, disk, history, IInv, TypeOK, WholeInv, LockInv, BuiltInv, TemporaryInv,
              TokenInv, GrowInv, AddedInv, AckedSurvive, Survivors, FactsIn
<1> QED
  BY <1>1, CallStep, LockStep, ReadStep, TemporaryStep, ReplaceStep, SyncStep, LossStep
     DEF Next, Step

\* The inductive invariant of the store.
THEOREM StoreInvariant == Spec => []IInv
BY InitInv, NextInv, PTL DEF Spec

\* Every variable of the store keeps its type.
THEOREM StoreTypes == Spec => []TypeOK
<1>1. IInv => TypeOK
  BY DEF IInv
<1> QED
  BY <1>1, StoreInvariant, PTL

\* No acknowledged transition or event is ever lost.
THEOREM StoreDurable == Spec => []AckedSurvive
<1>1. IInv => AckedSurvive
  BY DEF IInv
<1> QED
  BY <1>1, StoreInvariant, PTL

\* The files and the lock implement the atomic register: every step of the
\* store is a step of the register or changes nothing of it.
THEOREM StoreImplementsRegister == Spec => RegisterSpec
<1>1. Init => Register!Init
  BY DEF Init, Nothing, Files, NoOp, Register!Init, Register!NoRequest
<1>2. IInv /\ [Next]_vars => [Register!Next]_<<files, stable, op>>
  <2> SUFFICES ASSUME IInv, [Next]_vars PROVE [Register!Next]_<<files, stable, op>>
    OBVIOUS
  <2>1. ASSUME NEW p \in Procs, ReplaceTarget(p) PROVE Register!Next
    <3>1. Change(op[p], files, files') /\ UNCHANGED <<stable, op>>
      BY <2>1, ReplaceContent DEF ReplaceTarget
    <3>2. Register!Create(p) \/ Register!Transition(p) \/ Register!AppendEvent(p)
      BY <3>1
         DEF Change, Register!Create, Register!Transition, Register!AppendEvent,
             Register!InitialState, Register!Advance, Register!Extend, InitialState, Advance,
             Extend
    <3> QED
      BY <3>2 DEF Register!Next
  <2>2. ASSUME NEW p \in Procs, SyncParent(p) PROVE Register!Next
    BY <2>2 DEF SyncParent, Register!Next, Register!Stabilise
  <2>3. CASE PowerLoss
    <3>1. DOMAIN files = Files
      BY DEF IInv, WholeInv, Whole, Files
    <3> QED
      BY <2>3, <3>1, LossKeeps
         DEF PowerLoss, NoOp, Register!Next, Register!TakeBack, Register!NoRequest
  <2>4. ASSUME NEW p \in Procs, Call(p) PROVE Register!Next
    <3>1. UNCHANGED <<files, stable>>
      BY <2>4 DEF Call, CallCreate, CallWithFacts, disk
    <3>2. \E request \in Register!Requests : op' = [op EXCEPT ![p] = request]
      <4>1. NoOp \in Register!Requests
        BY PhasesAssumption DEF NoOp, Register!Requests, Register!Kinds
      <4>2. ASSUME NEW kind \in {"transition", "append"}, CallWithFacts(p, kind)
            PROVE  \E request \in Register!Requests : op' = [op EXCEPT ![p] = request]
        <5>1. PICK expected \in Phases, target \in Phases, token \in Tokens \ used :
                op' = [op EXCEPT ![p] = [kind |-> kind, expected |-> expected,
                                         target |-> target, token |-> token]]
          BY <4>2 DEF CallWithFacts
        <5>2. [kind |-> kind, expected |-> expected, target |-> target, token |-> token]
                \in Register!Requests
          BY DEF Register!Requests, Register!Kinds
        <5> QED
          BY <5>1, <5>2
      <4> QED
        BY <2>4, <4>1, <4>2 DEF Call, CallCreate
    <3> QED
      BY <3>1, <3>2 DEF Register!Next, Register!Ask
  <2>5. ASSUME NEW p \in Procs, ReleaseLock(p) \/ KillProcess(p) PROVE Register!Next
    BY <2>5
       DEF ReleaseLock, KillProcess, EndCall, disk, NoOp,
           Register!Next, Register!Withdraw, Register!NoRequest
  <2>6. CASE UNCHANGED <<files, stable, op>>
    BY <2>6
  <2> QED
    BY <2>1, <2>2, <2>3, <2>4, <2>5, <2>6
       DEF Next, Step, AcquireLock, ReadAndBuild, CheckTemporary, OpenTemporary,
           WriteTemporary, FsyncTemporary, SystemCallFails, RemoveTemporary, vars, disk
<1> QED
  BY <1>1, <1>2, StoreInvariant, PTL DEF Spec, RegisterSpec, Register!Spec, Register!vars
=============================================================================
