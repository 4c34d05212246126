----------------------------- MODULE StateStore -----------------------------
(***************************************************************************)
(* The durable run state of the Grid'5000 operator (operator/state.py).    *)
(*                                                                         *)
(* Several local processes (a foreground `run`, a `resume`, a detached     *)
(* supervisor) share state.json and events.jsonl of one run.  Each         *)
(* operation takes an exclusive flock, reads the current file, writes a    *)
(* temporary file, synchronises it, renames it over the target and         *)
(* synchronises the directory.  A process can be killed at any point (the  *)
(* kernel drops its lock, the temporary file stays), any of the system     *)
(* calls can fail or be interrupted (the finally clause removes the        *)
(* temporary file), and the machine can lose power.                        *)
(*                                                                         *)
(* Simplifications.  The facts of a transition are one token, unique to    *)
(* that transition, and merging is union: a lost update is a missing       *)
(* token.  Timestamps, permissions, symbolic links and the JSON text are   *)
(* left out; the run identity is fixed, the run id being its hash.         *)
(***************************************************************************)
EXTENDS Naturals, Sequences, FiniteSets

CONSTANTS
  Procs,      \* local operator processes
  NoProc,     \* nobody holds the lock
  Phases,     \* RunPhase
  Created,    \* RunPhase.CREATED
  Tokens,     \* what one transition or one event adds
  Missing,    \* a file that does not exist
  Torn,       \* a file whose bytes never reached the disk
  MaxKills,   \* processes killed
  MaxLosses   \* power failures

ASSUME ProcsAssumption == NoProc \notin Procs
ASSUME PhasesAssumption == Created \in Phases
(* What the two files hold when they are whole.                            *)
StateContents == [phase : Phases, sequence : Nat, facts : SUBSET Tokens]
EventContents == Seq([event_sequence : Nat, phase : Phases, facts : Tokens])

\* No whole file is mistaken for a missing or a torn one.
ASSUME FileAssumption ==
  /\ Missing # Torn
  /\ {Missing, Torn} \cap (StateContents \cup EventContents) = {}
  /\ MaxKills \in Nat
  /\ MaxLosses \in Nat

VARIABLES
  files,     \* the two files as a reader sees them
  stable,    \* the directory entries as they survive a power failure
  tmp,       \* the two temporary files: Missing, Torn or a complete content
  flushed,   \* per temporary file, whether its bytes are on disk
  solid,     \* per file, whether the bytes renamed into place are on disk
  lock,      \* the holder of state.lock
  pc,        \* where each process is inside an operation
  op,        \* the operation each process is executing
  next,      \* the directory each process is about to bring about
  used,      \* history: tokens handed to an operation
  acked,     \* history: tokens of operations that returned normally
  kills,     \* history: processes killed so far
  losses     \* history: power failures so far

disk == <<files, stable, tmp, flushed, solid>>
history == <<used, acked, kills, losses>>
vars == <<disk, lock, pc, op, next, history>>

Files == {"state", "events"}
Kinds == {"create", "transition", "append"}
Ops == [kind : Kinds, expected : Phases, target : Phases, token : Tokens \cup {Missing}]
Points == {"idle", "wait", "read", "check", "open", "write", "fsync", "replace",
           "syncParent", "cleanup", "returned", "raised"}

InitialState == [phase |-> Created, sequence |-> 0, facts |-> {}]

Advance(s, target, token) ==
  [phase |-> target, sequence |-> s.sequence + 1, facts |-> s.facts \cup {token}]

\* _next_event_sequence over the events read back from the log.
Extend(events, s, token) ==
  LET old == IF events = Missing THEN <<>> ELSE events
  IN  Append(old, [event_sequence |-> Len(old), phase |-> s.phase, facts |-> token])

FileOf(o) == IF o.kind = "append" THEN "events" ELSE "state"

Nothing == [f \in Files |-> Missing]
NoOp == [kind |-> "create", expected |-> Created, target |-> Created, token |-> Missing]

Init ==
  /\ files = Nothing /\ stable = Nothing /\ tmp = Nothing
  /\ flushed = [f \in Files |-> FALSE]
  /\ solid = [f \in Files |-> TRUE]
  /\ lock = NoProc
  /\ pc = [p \in Procs |-> "idle"]
  /\ op = [p \in Procs |-> NoOp]
  /\ next = [p \in Procs |-> Nothing]
  /\ used = {} /\ acked = {}
  /\ kills = 0 /\ losses = 0

Goto(p, point) == pc' = [pc EXCEPT ![p] = point]

EndCall(p) ==
  /\ Goto(p, "idle")
  /\ op' = [op EXCEPT ![p] = NoOp]
  /\ next' = [next EXCEPT ![p] = Nothing]

-----------------------------------------------------------------------------
(* Callers.  The expected phase comes from an earlier load, so it may be   *)
(* stale by the time the lock is taken.                                    *)

CallCreate(p) ==
  /\ pc[p] = "idle"
  /\ op' = [op EXCEPT ![p] = NoOp]
  /\ Goto(p, "wait")
  /\ UNCHANGED <<disk, lock, next, history>>

CallWithFacts(p, kind) ==
  /\ pc[p] = "idle"
  /\ \E expected, target \in Phases, token \in Tokens \ used :
       /\ kind = "append" => expected = Created /\ target = Created
       /\ op' = [op EXCEPT ![p] = [kind |-> kind, expected |-> expected,
                                   target |-> target, token |-> token]]
       /\ used' = used \cup {token}
  /\ Goto(p, "wait")
  /\ UNCHANGED <<disk, lock, next, acked, kills, losses>>

-----------------------------------------------------------------------------
(* _RunLockContext and the body it protects.                               *)

AcquireLock(p) ==
  /\ pc[p] = "wait"
  /\ lock = NoProc
  /\ lock' = p
  /\ Goto(p, "read")
  /\ UNCHANGED <<disk, op, next, history>>

Build(p, f, content) == next' = [next EXCEPT ![p] = [files EXCEPT ![f] = content]]

\* Mutant: the expected phase is not compared.
AnyPhase(s, o) == TRUE

\* The phase comparison, on the state read under the lock.
ExpectedPhase(s, o) == s.phase = o.expected

\* _load_state, the phase comparison and the construction of the new content.
ReadAndBuild(p) ==
  /\ pc[p] = "read"
  /\ LET s == files["state"]  o == op[p] IN
     \/ /\ o.kind = "create" /\ s # Missing
        /\ Goto(p, "returned") /\ UNCHANGED next
     \/ /\ o.kind = "create" /\ s = Missing
        /\ Build(p, "state", InitialState) /\ Goto(p, "check")
     \/ /\ o.kind # "create" /\ s = Missing
        /\ Goto(p, "raised") /\ UNCHANGED next
     \/ /\ o.kind = "transition" /\ s # Missing /\ ~ExpectedPhase(s, o)
        /\ Goto(p, "raised") /\ UNCHANGED next
     \/ /\ o.kind = "transition" /\ s # Missing /\ ExpectedPhase(s, o)
        /\ Build(p, "state", Advance(s, o.target, o.token)) /\ Goto(p, "check")
     \/ /\ o.kind = "append" /\ s # Missing
        /\ Build(p, "events", Extend(files["events"], s, o.token)) /\ Goto(p, "check")
  /\ UNCHANGED <<disk, lock, op, history>>

-----------------------------------------------------------------------------
(* _write_state and _append_event.                                         *)

\* An existing temporary file is refused before the try block.
CheckTemporary(p) ==
  /\ pc[p] = "check"
  /\ Goto(p, IF tmp[FileOf(op[p])] = Missing THEN "open" ELSE "raised")
  /\ UNCHANGED <<disk, lock, op, next, history>>

OpenTemporary(p) ==
  /\ pc[p] = "open"
  /\ tmp' = [tmp EXCEPT ![FileOf(op[p])] = Torn]
  /\ flushed' = [flushed EXCEPT ![FileOf(op[p])] = FALSE]
  /\ Goto(p, "write")
  /\ UNCHANGED <<files, stable, solid, lock, op, next, history>>

WriteTemporary(p) ==
  /\ pc[p] = "write"
  /\ tmp' = [tmp EXCEPT ![FileOf(op[p])] = next[p][FileOf(op[p])]]
  /\ Goto(p, "fsync")
  /\ UNCHANGED <<files, stable, flushed, solid, lock, op, next, history>>

FsyncTemporary(p) ==
  /\ pc[p] = "fsync"
  /\ flushed' = [flushed EXCEPT ![FileOf(op[p])] = TRUE]
  /\ Goto(p, "replace")
  /\ UNCHANGED <<files, stable, tmp, solid, lock, op, next, history>>

\* os.replace
ReplaceTarget(p) ==
  /\ pc[p] = "replace"
  /\ files' = [files EXCEPT ![FileOf(op[p])] = tmp[FileOf(op[p])]]
  /\ solid' = [solid EXCEPT ![FileOf(op[p])] = flushed[FileOf(op[p])]]
  /\ tmp' = [tmp EXCEPT ![FileOf(op[p])] = Missing]
  /\ Goto(p, "syncParent")
  /\ UNCHANGED <<stable, flushed, lock, op, next, history>>

\* Mutant: the directory is not synchronised after the rename.
SyncParentSkipped(p) ==
  /\ pc[p] = "syncParent"
  /\ Goto(p, "returned")
  /\ UNCHANGED <<disk, lock, op, next, history>>

\* _fsync_parent
SyncParent(p) ==
  /\ pc[p] = "syncParent"
  /\ stable' = files
  /\ Goto(p, "returned")
  /\ UNCHANGED <<files, tmp, flushed, solid, lock, op, next, history>>

\* A system call of the try block fails, or Ctrl-C arrives in it.
SystemCallFails(p) ==
  /\ pc[p] \in {"open", "write", "fsync", "replace", "syncParent"}
  /\ Goto(p, "cleanup")
  /\ UNCHANGED <<disk, lock, op, next, history>>

\* The finally clause: _remove_temporary_if_regular.
RemoveTemporary(p) ==
  /\ pc[p] = "cleanup"
  /\ tmp' = [tmp EXCEPT ![FileOf(op[p])] = Missing]
  /\ Goto(p, "raised")
  /\ UNCHANGED <<files, stable, flushed, solid, lock, op, next, history>>

\* Mutant: the lock is released on the normal path only.
ReleaseLockOnReturn(p) ==
  /\ pc[p] = "returned"
  /\ lock' = NoProc
  /\ acked' = IF op[p].kind # "create" THEN acked \cup {op[p].token} ELSE acked
  /\ EndCall(p)
  /\ UNCHANGED <<disk, used, kills, losses>>

\* Mutant: every call that leaves the lock context counts as an update.
ReleaseLockSwallowing(p) ==
  /\ pc[p] \in {"returned", "raised"}
  /\ lock' = NoProc
  /\ acked' = acked \cup {op[p].token}
  /\ EndCall(p)
  /\ UNCHANGED <<disk, used, kills, losses>>

ReleaseLock(p) ==
  /\ pc[p] \in {"returned", "raised"}
  /\ lock' = NoProc
  /\ acked' = IF pc[p] = "returned" /\ op[p].kind # "create"
                THEN acked \cup {op[p].token} ELSE acked
  /\ EndCall(p)
  /\ UNCHANGED <<disk, used, kills, losses>>

-----------------------------------------------------------------------------
(* The environment.                                                        *)

\* The kernel closes the descriptor and so drops the flock; nothing cleans up.
KillProcess(p) ==
  /\ pc[p] # "idle"
  /\ kills < MaxKills
  /\ kills' = kills + 1
  /\ lock' = IF lock = p THEN NoProc ELSE lock
  /\ EndCall(p)
  /\ UNCHANGED <<disk, used, acked, losses>>

\* A rename that was not synchronised is kept or undone; a kept one exposes
\* whatever bytes of the file reached the disk.
AfterLoss(f, kept) ==
  IF ~kept THEN stable[f]
  ELSE IF solid[f] THEN files[f] ELSE Torn

PowerLoss ==
  /\ losses < MaxLosses
  /\ losses' = losses + 1
  /\ \E kept \in SUBSET Files :
       files' = [f \in Files |-> AfterLoss(f, f \in kept)]
  /\ stable' = files'
  /\ tmp' \in {g \in [Files -> {Missing, Torn}] :
                   \A f \in Files : tmp[f] = Missing /\ files[f] = stable[f] => g[f] = Missing}
  /\ flushed' = [f \in Files |-> FALSE]
  /\ solid' = [f \in Files |-> TRUE]
  /\ lock' = NoProc
  /\ pc' = [p \in Procs |-> "idle"]
  /\ op' = [p \in Procs |-> NoOp]
  /\ next' = [p \in Procs |-> Nothing]
  /\ UNCHANGED <<used, acked, kills>>

-----------------------------------------------------------------------------
Step(p) ==
  \/ AcquireLock(p) \/ ReadAndBuild(p) \/ CheckTemporary(p) \/ OpenTemporary(p)
  \/ WriteTemporary(p) \/ FsyncTemporary(p) \/ ReplaceTarget(p) \/ SyncParent(p)
  \/ SystemCallFails(p) \/ RemoveTemporary(p) \/ ReleaseLock(p)

Call(p) ==
  \/ CallCreate(p)
  \/ CallWithFacts(p, "transition")
  \/ CallWithFacts(p, "append")

Next ==
  \/ \E p \in Procs : Call(p) \/ Step(p) \/ KillProcess(p)
  \/ PowerLoss

Spec == Init /\ [][Next]_vars

\* A process inside an operation goes on; nothing obliges it to start one.
FairSpec == Spec /\ \A p \in Procs : WF_vars(Step(p))

-----------------------------------------------------------------------------
(* Properties.                                                             *)

Contents == [state : StateContents \cup {Missing, Torn},
             events : EventContents \cup {Missing, Torn}]

\* Every variable has its type; each path holds its own kind of content.
TypeOK ==
  /\ files \in Contents
  /\ stable \in Contents
  /\ tmp \in Contents
  /\ flushed \in [Files -> BOOLEAN] /\ solid \in [Files -> BOOLEAN]
  /\ lock \in Procs \cup {NoProc}
  /\ pc \in [Procs -> Points]
  /\ op \in [Procs -> Ops] /\ next \in [Procs -> Contents]
  /\ used \subseteq Tokens /\ acked \subseteq Tokens
  /\ kills \in 0 .. MaxKills /\ losses \in 0 .. MaxLosses

Present(content) == content \notin {Missing, Torn}

\* What the updates of a file added.
StateFacts(content) == IF Present(content) THEN content.facts ELSE {}
EventFacts(content) ==
  IF Present(content) THEN {content[i].facts : i \in DOMAIN content} ELSE {}
Survivors == StateFacts(stable["state"]) \cup EventFacts(stable["events"])

\* No acknowledged update is lost: once transition or append_event returned,
\* what it added is on stable storage for good, whatever other processes
\* write concurrently, wherever they are killed and when the power fails.
AckedSurvive == acked \subseteq Survivors

\* The files implement the atomic register of RunRegister: a write takes
\* effect at os.replace and is acknowledged only when it is stable.  In particular
\* no reader ever parses half a file, and every transition leaves the phase that
\* its caller expected, advances the sequence by one and loses none of the facts
\* another process merged.
Register == INSTANCE RunRegister WITH
  Clients <- Procs, Phases <- Phases, Created <- Created, Tokens <- Tokens,
  Missing <- Missing, files <- files, stable <- stable, asked <- op
RegisterSpec == Register!Spec

\* No operation keeps the lock: error paths and kills release it too.
LockReleased == \A p \in Procs : (lock = p) ~> (lock # p)
=============================================================================
