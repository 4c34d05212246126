--------------------------- MODULE MCRunLifecycle ---------------------------
(* Run configurations and the sizes of their instances.                    *)
EXTENDS RunLifecycle

Regional(stage) == [stage |-> stage, v2 |-> FALSE, smoke |-> FALSE]
Worldwide(smoke) == [stage |-> "all", v2 |-> TRUE, smoke |-> smoke]

WorldwideRun == {Worldwide(FALSE)}
LabelRuns == {Regional("label"), [Regional("label") EXCEPT !.smoke = TRUE]}
EveryRun == {Regional("split"), Regional("all"), Worldwide(TRUE)} \cup LabelRuns \cup WorldwideRun

Commanded == {"run", "resume"}
Size(s, b, t, j, k, commands) ==
  [shards |-> s, batches |-> b, target |-> t, jobs |-> j, crashes |-> k,
   commands |-> commands]

\* Two shards and a crash for a split, two batches and a crash for labels, and
\* worldwide runs through split - finalize - build - label, after which the
\* smoke goes on to production and the other is asked for a larger target and
\* labels again.
SafetyBounds ==
  [c \in EveryRun |->
     CASE c.stage = "split" -> Size(2, 1, 1, 2, 1, Commanded)
       [] c = Regional("label") -> Size(1, 2, 1, 3, 1, Commanded)
       [] c = Worldwide(FALSE) -> Size(1, 1, 2, 5, 0, {"resume"})
       [] c = Worldwide(TRUE) -> Size(1, 1, 1, 5, 0, {"resume"})
       [] c = Regional("all") -> Size(1, 1, 1, 3, 1, Commanded)
       [] OTHER -> Size(1, 1, 1, 2, 1, Commanded)]

SupervisedBounds ==
  [c \in EveryRun |->
     CASE c.stage = "split" -> Size(2, 1, 1, 3, 1, {"supervisor"})
       [] c.stage = "label" -> Size(1, 2, 1, 3, 1, {"supervisor"})
       [] c.stage = "all" -> Size(1, 1, 1, 3, IF c.v2 THEN 0 ELSE 1, {"supervisor"})]
LabelBounds == [c \in LabelRuns |-> Size(1, 1, 1, 2, 1, {"supervisor"})]
ExtensionBounds == [c \in WorldwideRun |-> Size(1, 1, 2, 5, 0, {"resume"})]
=============================================================================
