---------------------------- MODULE HumanReview ----------------------------
(***************************************************************************)
(* src/reviews: a person decides on the pull request of a delivered Goal   *)
(* that belongs to no Feature, and a poll follows what happens to the pull *)
(* request on GitHub.                                                      *)
(*                                                                         *)
(* The gateway runs gh synchronously, so a decision is one step unless gh  *)
(* fails or the process is killed half way.  The poll selects its Tasks    *)
(* and then awaits the notifications about other Tasks before it comes to  *)
(* this one.                                                               *)
(***************************************************************************)
EXTENDS Naturals, Sequences

CONSTANTS
  MaxDecisions,     \* decisions people take
  MaxPrEdits,       \* what people do to the pull request on GitHub
  MaxReviewFaults   \* gh fails, or the process is killed

ASSUME HumanBounds == MaxDecisions \in Nat /\ MaxPrEdits \in Nat /\ MaxReviewFaults \in Nat

VARIABLES
  task,         \* tasks.status
  goalRun,      \* goal_runs.status: "completed", "running", "blocked"
  decision,     \* of the latest human_reviews row, "pending" without one
  pr,           \* the pull request on GitHub
  closedOnce,   \* it was closed some time (history)
  gate,         \* the Change Safety Gate of the worktree passes
  poll,         \* the poll under way has selected the run
  humanSteps, prEdits, reviewFaults

humanVars == <<task, goalRun, decision, pr, closedOnce, gate, poll, humanSteps, prEdits,
               reviewFaults>>

Decisions == {"approved", "changes_requested", "rejected"}
PullRequest(state, draft) == [state |-> state, draft |-> draft]
ReviewFault == reviewFaults < MaxReviewFaults /\ reviewFaults' = reviewFaults + 1
PrBecomes(p) == pr' = p /\ closedOnce' = (closedOnce \/ p.state = "CLOSED")

-----------------------------------------------------------------------------
\* ReviewCoordinator.decide

MayDecide(d) ==
  /\ humanSteps < MaxDecisions /\ humanSteps' = humanSteps + 1
  /\ decision \notin {"approved", "rejected"}
  /\ d = "approved" => gate
\* What gh refuses: markReady unless it is open, close once it is merged.
GitHubAllows(d) == /\ d = "approved" => pr.state = "OPEN"
                   /\ d = "rejected" => pr.state # "MERGED"
\* What the gateway does to the pull request, call by call.
GitHubCalls(d, merge) ==
  CASE d = "approved" -> <<PullRequest("OPEN", FALSE)>>
                         \o (IF merge THEN <<PullRequest("MERGED", FALSE)>> ELSE <<>>)
    [] d = "changes_requested" ->
         <<IF pr.state = "OPEN" THEN PullRequest("OPEN", TRUE) ELSE pr>>
    [] d = "rejected" -> <<PullRequest("CLOSED", pr.draft)>>

StatusWhenApproved(merge) == IF merge THEN "done" ELSE "ready_to_merge"

HumanDecides(d, merge) ==
  LET calls == GitHubCalls(d, merge)
  IN /\ MayDecide(d) /\ GitHubAllows(d)
     /\ PrBecomes(calls[Len(calls)])
     /\ decision' = d
     /\ \/ /\ d = "approved" /\ task' = StatusWhenApproved(merge) /\ UNCHANGED goalRun
        \/ /\ d = "rejected" /\ task' = "rejected" /\ UNCHANGED goalRun
        \/ /\ d = "changes_requested" /\ goalRun = "completed"
           /\ task' = "changes_requested" /\ goalRun' = "running"
        \/ /\ d = "changes_requested" /\ goalRun # "completed"   \* requestChanges throws
           /\ UNCHANGED <<task, goalRun>>
     /\ UNCHANGED <<gate, poll, prEdits, reviewFaults>>

\* After some of the calls, or after the human_reviews row.
DecisionStops(d, merge) ==
  LET calls == GitHubCalls(d, merge)
  IN /\ MayDecide(d) /\ GitHubAllows(d) /\ ReviewFault
     /\ \E k \in 1..Len(calls) :
          /\ PrBecomes(calls[k])
          /\ decision' \in {decision} \cup (IF k = Len(calls) THEN {d} ELSE {})
     /\ UNCHANGED <<task, goalRun, gate, poll, prEdits>>

-----------------------------------------------------------------------------
\* ReviewCoordinator.reconcilePullRequests

AwaitsHuman(status) == status = "awaiting_human"
AwaitsGitHub(status) == status \in {"awaiting_human", "ready_to_merge"}

PollSelects ==
  /\ ~poll /\ goalRun = "completed" /\ AwaitsGitHub(task)
  /\ poll' = TRUE
  /\ UNCHANGED <<task, goalRun, decision, pr, closedOnce, gate, humanSteps, prEdits, reviewFaults>>

\* The Task is read again; the run is not.
StatusFromGitHub ==
  CASE pr.state = "MERGED" -> "done"
    [] pr.state = "CLOSED" -> "rejected"
    [] pr.state = "OPEN" /\ ~pr.draft /\ task = "awaiting_human" /\ gate -> "ready_to_merge"
    [] pr.state = "OPEN" /\ pr.draft /\ task = "ready_to_merge" -> "awaiting_human"
    [] OTHER -> task

PollSyncs ==
  /\ poll /\ poll' = FALSE
  /\ task' = StatusFromGitHub
  /\ UNCHANGED <<goalRun, decision, pr, closedOnce, gate, humanSteps, prEdits, reviewFaults>>

PollFails ==
  /\ poll /\ poll' = FALSE /\ ReviewFault
  /\ UNCHANGED <<task, goalRun, decision, pr, closedOnce, gate, humanSteps, prEdits>>

-----------------------------------------------------------------------------
\* The Goal that revises, and the people on GitHub

\* A run that was reopened writes its phases to the Task, whatever was decided
\* meanwhile, blocks, or is resumed.  It is never delivered again: reopenGoalRun
\* keeps its commit, and deliverGoal returns at once when there is one.
GoalRunRevises ==
  /\ goalRun # "completed"
  /\ \/ goalRun' = "running" /\ task' = "revising"
     \/ goalRun = "running" /\ goalRun' = "blocked" /\ task' = "blocked"
  /\ UNCHANGED <<decision, pr, closedOnce, gate, poll, humanSteps, prEdits, reviewFaults>>

PrEdited ==
  /\ prEdits < MaxPrEdits /\ prEdits' = prEdits + 1
  /\ \/ /\ pr.state = "OPEN"
        /\ \/ PrBecomes(PullRequest("OPEN", ~pr.draft))
           \/ \E state \in {"MERGED", "CLOSED"} : PrBecomes(PullRequest(state, pr.draft))
        /\ UNCHANGED gate
     \/ pr.state = "CLOSED" /\ PrBecomes(PullRequest("OPEN", pr.draft)) /\ UNCHANGED gate
     \/ gate' = ~gate /\ UNCHANGED <<pr, closedOnce>>
  /\ UNCHANGED <<task, goalRun, decision, poll, humanSteps, reviewFaults>>

HumanStarts(status, request) ==
  /\ task = status /\ goalRun = "completed" /\ decision = "pending"
  /\ pr = request /\ closedOnce = FALSE
  /\ gate \in BOOLEAN /\ poll = FALSE
  /\ humanSteps = 0 /\ prEdits = 0 /\ reviewFaults = 0

HumanInit == HumanStarts("awaiting_human", PullRequest("OPEN", TRUE))

HumanNext ==
  \/ \E d \in Decisions, merge \in BOOLEAN : HumanDecides(d, merge) \/ DecisionStops(d, merge)
  \/ PollSelects \/ PollSyncs \/ PollFails
  \/ GoalRunRevises \/ PrEdited

\* The poll's timer goes on.
PollDue == poll \/ (goalRun = "completed" /\ AwaitsGitHub(task))
HumanFairness == <>[]PollDue => []<><<PollSelects \/ PollSyncs>>_humanVars

-----------------------------------------------------------------------------
\* Types of all variables.
HumanTypeOK ==
  /\ task \in {"awaiting_human", "ready_to_merge", "done", "rejected", "changes_requested",
               "revising", "blocked"}
  /\ goalRun \in {"completed", "running", "blocked"}
  /\ decision \in Decisions \cup {"pending"}
  /\ pr \in [state : {"OPEN", "MERGED", "CLOSED"}, draft : BOOLEAN]
  /\ closedOnce \in BOOLEAN /\ gate \in BOOLEAN /\ poll \in BOOLEAN
  /\ humanSteps \in 0..MaxDecisions /\ prEdits \in 0..MaxPrEdits
  /\ reviewFaults \in 0..MaxReviewFaults

\* A Task is only "done" when its pull request is merged, and only "rejected" when it was
\* closed (decide and reconcilePullRequests of src/reviews/coordinator.ts).
StatusIsTrue == /\ task = "done" => pr.state = "MERGED"
                /\ task = "rejected" => closedOnce

\* Through decisions that stop half way, polls that lag and edits on GitHub:
\* a Task is only "done" when its pull request is merged, and only
\* "rejected" when it was closed; and whoever merged it, the Task of a merged
\* pull request gets "done", unless it was rejected before.  A Task sent back for
\* changes is the exception: its run does not get completed again, and the poll
\* only looks at completed ones (decide and reconcilePullRequests of
\* src/reviews/coordinator.ts).
TaskFollowsPullRequest ==
  /\ []StatusIsTrue
  /\ (pr.state = "MERGED") ~> (task \in {"done", "rejected"} \/ goalRun # "completed")
=============================================================================
