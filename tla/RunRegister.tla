----------------------------- MODULE RunRegister -----------------------------
(***************************************************************************)
(* What operator/state.py promises of a run's durable state, with no files *)
(* and no locks: the state is a register changed by compare-and-set, the   *)
(* event log a sequence changed by append, both one step at a time and     *)
(* only as one of the clients has asked.  A caller names the phase it      *)
(* expects when it calls; the phase is compared when the change happens.   *)
(* `stable` is what a power failure cannot take away; a change that is not *)
(* stable yet may be taken back, and taking it back restores exactly the   *)
(* stable value, never a mixture.                                          *)
(***************************************************************************)
EXTENDS Naturals, Sequences

CONSTANTS
  Clients,  \* the local operator processes
  Phases,   \* RunPhase
  Created,  \* RunPhase.CREATED
  Tokens,   \* what one transition or one event adds to the run
  Missing   \* a file that does not exist

VARIABLES
  files,    \* the state record and the event log as readers see them
  stable,   \* the same two values, as they survive a power failure
  asked     \* what each client has asked for

vars == <<files, stable, asked>>

Kinds == {"create", "transition", "append"}
Requests == [kind : Kinds, expected : Phases, target : Phases, token : Tokens \cup {Missing}]
NoRequest == [kind |-> "create", expected |-> Created, target |-> Created, token |-> Missing]

InitialState == [phase |-> Created, sequence |-> 0, facts |-> {}]

\* StateStore.transition: expected phase, next sequence, merged facts.
Advance(s, target, token) ==
  [phase |-> target, sequence |-> s.sequence + 1, facts |-> s.facts \cup {token}]

\* StateStore.append_event: the next event_sequence and the current phase.
Extend(events, s, token) ==
  LET old == IF events = Missing THEN <<>> ELSE events
  IN  Append(old, [event_sequence |-> Len(old), phase |-> s.phase, facts |-> token])

Init ==
  /\ files = [state |-> Missing, events |-> Missing]
  /\ stable = files
  /\ asked = [c \in Clients |-> NoRequest]

Ask(c) ==
  /\ \E request \in Requests : asked' = [asked EXCEPT ![c] = request]
  /\ UNCHANGED <<files, stable>>

\* A call returns, is refused, or dies with its process.
Withdraw(c) ==
  /\ asked' = [asked EXCEPT ![c] = NoRequest]
  /\ UNCHANGED <<files, stable>>

Create(c) ==
  /\ asked[c].kind = "create"
  /\ files.state = Missing
  /\ files' = [files EXCEPT !.state = InitialState]
  /\ UNCHANGED <<stable, asked>>

\* The compare-and-set: the phase is still the one the caller expected.
Transition(c) ==
  /\ asked[c].kind = "transition"
  /\ files.state # Missing
  /\ files.state.phase = asked[c].expected
  /\ files' = [files EXCEPT !.state = Advance(@, asked[c].target, asked[c].token)]
  /\ UNCHANGED <<stable, asked>>

AppendEvent(c) ==
  /\ asked[c].kind = "append"
  /\ files.state # Missing
  /\ files' = [files EXCEPT !.events = Extend(@, files.state, asked[c].token)]
  /\ UNCHANGED <<stable, asked>>

\* Directory synchronisation covers both files: they share one directory.
Stabilise ==
  /\ stable' = files
  /\ UNCHANGED <<files, asked>>

\* A power failure keeps or undoes what was not stable, file by file, and no
\* client survives it.
TakeBack ==
  /\ \E kept \in SUBSET DOMAIN files :
       files' = [f \in DOMAIN files |-> IF f \in kept THEN files[f] ELSE stable[f]]
  /\ stable' = files'
  /\ asked' = [c \in Clients |-> NoRequest]

Next ==
  \/ \E c \in Clients :
       Ask(c) \/ Withdraw(c) \/ Create(c) \/ Transition(c) \/ AppendEvent(c)
  \/ Stabilise \/ TakeBack

Spec == Init /\ [][Next]_vars
=============================================================================
