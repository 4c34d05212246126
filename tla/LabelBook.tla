----------------------------- MODULE LabelBook -----------------------------
(***************************************************************************)
(* What the labeling of a run promises: every row of the selection is      *)
(* labelled once, in the order of the selection and batch by batch; a      *)
(* label once given stays; and a release has all rows of its target.       *)
(***************************************************************************)
EXTENDS Naturals

CONSTANT BatchSize

VARIABLES
  goal,     \* the target: rows 1 .. goal are selected
  done,     \* the labelled rows
  released  \* the number of rows of the public release; 0 for none

bookVars == <<goal, done, released>>

Init == goal \in Nat /\ done = {} /\ released = 0

Extend == goal' \in Nat /\ goal' > goal /\ UNCHANGED <<done, released>>

Label ==
  \E n \in 0 .. goal, k \in 1 .. BatchSize :
    /\ done = 1 .. n /\ n + k <= goal
    /\ done' = 1 .. (n + k)
    /\ UNCHANGED <<goal, released>>

Release ==
  /\ released' \in 1 .. goal /\ released' >= released
  /\ 1 .. released' \subseteq done
  /\ UNCHANGED <<goal, done>>

Spec == Init /\ [][Extend \/ Label \/ Release]_bookVars
=============================================================================
