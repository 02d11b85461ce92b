---------------------------- MODULE MCGoalRunner ----------------------------
(* GoalRunner for TLC: the DNAs of computeTaskDNA with smaller budgets.     *)
EXTENDS GoalRunner, TLC

\* No rule of the runner tells one provider from another.
ProviderSymmetry == Permutations(Providers)

Budget(p, i, t, r) ==
  [planning |-> p, implementing |-> i, testing |-> t, reviewing |-> r]

Trivial == [phases |-> {"implementing"}, budget |-> Budget(0, 1, 0, 0),
            trivial |-> TRUE, requireReview |-> FALSE, requireTests |-> FALSE,
            allowIteration |-> FALSE]
Small == [phases |-> {"implementing", "testing"}, budget |-> Budget(0, 1, 1, 0),
          trivial |-> FALSE, requireReview |-> FALSE, requireTests |-> TRUE,
          allowIteration |-> FALSE]
Medium == [phases |-> Phases, budget |-> Budget(1, 1, 1, 1),
           trivial |-> FALSE, requireReview |-> TRUE, requireTests |-> TRUE,
           allowIteration |-> TRUE]
MCDNAs == {Trivial, Small, Medium}
OnlyMedium == {Medium}

\* A run that is over, for the models in which something else acts.
RunnerAtRest ==
  /\ dna = Trivial /\ reviewers = {} /\ local = Asleep /\ disturbances = 0
  /\ run = [status |-> "completed", phase |-> "implementing", steps |-> 0,
            maxSteps |-> Buffer, validation |-> "none", category |-> "other", commit |-> TRUE]
  /\ history = [used |-> [p \in Phases |-> 0], attempted |-> FALSE, implementers |-> {},
                latestReview |-> NoProvider, recovered |-> {}, pending |-> {}]
  /\ evidence = [tested |-> FALSE, reviewed |-> FALSE]
=============================================================================
