----------------------------- MODULE MCServices -----------------------------
(* The services beside the backlog: the Work Graph of a Goal, the lifecycle  *)
(* of a Skill, the update of the program itself, the review of completed     *)
(* Features and the human review of a Task.  They share no state; one of     *)
(* them acts in a behaviour: `focus`.                                        *)
EXTENDS WorkGraph, SkillLifecycle, SelfUpdate, ImprovementReview, HumanReview

VARIABLE focus

\* Two readers and the writer that needs the first: the writer and the second
\* reader may be ready at the same time.  Or two readers that need the writer;
\* or three writers, which is no valid graph.
MCShapes ==
  {[mode |-> [n \in Nodes |-> IF n = 3 THEN "writer" ELSE "read_only"],
    deps |-> [n \in Nodes |-> IF n = 3 THEN {1} ELSE {}]],
   [mode |-> [n \in Nodes |-> IF n = 1 THEN "writer" ELSE "read_only"],
    deps |-> [n \in Nodes |-> IF n = 1 THEN {} ELSE {1}]],
   [mode |-> [n \in Nodes |-> "writer"], deps |-> [n \in Nodes |-> {}]]}

\* Where a service does not act, its Goal or Task is over and its program is
\* down, so that fairness asks nothing of it.
GraphAtRest == GraphStarts([status |-> "completed", at |-> "none"]) /\ shape = CHOOSE s \in Shapes : TRUE
SkillAtRest == SkillInit /\ skillOwner = "user" /\ skillsEnabled = FALSE
UpdateAtRest == UpdateStarts(FALSE)
HumanAtRest == HumanStarts("done", PullRequest("MERGED", FALSE)) /\ gate = FALSE

MCInit ==
  \/ focus = "graph" /\ GraphInit /\ SkillAtRest /\ UpdateAtRest /\ ReviewInit /\ HumanAtRest
  \/ focus = "skill" /\ GraphAtRest /\ SkillInit /\ UpdateAtRest /\ ReviewInit /\ HumanAtRest
  \/ focus = "update" /\ GraphAtRest /\ SkillAtRest /\ UpdateInit /\ ReviewInit /\ HumanAtRest
  \/ focus = "review" /\ GraphAtRest /\ SkillAtRest /\ UpdateAtRest /\ ReviewInit /\ HumanAtRest
  \/ focus = "human" /\ GraphAtRest /\ SkillAtRest /\ UpdateAtRest /\ ReviewInit /\ HumanInit

MCNext ==
  /\ UNCHANGED focus
  /\ \/ focus = "graph" /\ GraphNext /\ UNCHANGED <<skillVars, updateVars, reviewVars, humanVars>>
     \/ focus = "skill" /\ SkillNext /\ UNCHANGED <<graphVars, updateVars, reviewVars, humanVars>>
     \/ focus = "update" /\ UpdateNext /\ UNCHANGED <<graphVars, skillVars, reviewVars, humanVars>>
     \/ focus = "review" /\ ReviewNext /\ UNCHANGED <<graphVars, skillVars, updateVars, humanVars>>
     \/ focus = "human" /\ HumanNext /\ UNCHANGED <<graphVars, skillVars, updateVars, reviewVars>>

MCSpec ==
  /\ MCInit /\ [][MCNext]_<<graphVars, skillVars, updateVars, reviewVars, humanVars, focus>>
  /\ GraphFairness /\ UpdateFairness /\ HumanFairness

\* Every table and every piece of memory holds what its module says it may.
TypeOK == GraphTypeOK /\ SkillTypeOK /\ UpdateTypeOK /\ ReviewTypeOK /\ HumanTypeOK

\* Whatever the services begin they end: a Work Graph at work, the Goal that
\* waits for it, and an update that was asked for (releaseActive, onGraphSettled,
\* reconcileLatestUpdate).
ServicesSettle == RunningGraphSettles /\ WaitingGoalIsResumed /\ UpdateSettles
=============================================================================
