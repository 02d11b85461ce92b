------------------------- MODULE MCGoalCoordinator -------------------------
(* GoalCoordinator for TLC: one Task with two runs (the shapes a second    *)
(* `start` makes possible) beside one Task with a single run.              *)
EXTENDS GoalCoordinator

MCTaskOf == [r \in {1, 2, 3} |-> IF r = 3 THEN "t2" ELSE "t1"]

\* One Task, one run: the counterexamples need no more.
MCTaskOfOne == [r \in {3} |-> "t2"]
=============================================================================
