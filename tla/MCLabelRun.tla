----------------------------- MODULE MCLabelRun -----------------------------
(* A v1 run of three rows, and a worldwide run with a smoke lane whose     *)
(* target is raised from three rows to four, in batches of two.  The       *)
(* outboxes share nothing, so each plan has one.                           *)
EXTENDS LabelRun

MCPlans ==
  {[release |-> "v1", smoke |-> 0, rows |-> 3, sinks |-> {"trackio"}],
   [release |-> "v2", smoke |-> 1, rows |-> 3, sinks |-> {"hub"}]}
MCTargets == {4}
=============================================================================
