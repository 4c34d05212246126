---------------------------- MODULE MCQueueRace ----------------------------
(* Small instances of the earliest-start race.                             *)
EXTENDS QueueRace, TLC

\* Job ids are interchangeable in every safety property.
JobSymmetry == Permutations(Jobs)
=============================================================================
