-------------------------- MODULE GoalCoordinator --------------------------
(***************************************************************************)
(* src/goals/coordinator.ts, with the control flow of src/goals/runner.ts  *)
(* between two awaits: Goal runs of Tasks that are started, paused,        *)
(* resumed by timers, cancelled, delivered, sent back by a reviewer, and   *)
(* recovered after a restart.                                              *)
(*                                                                         *)
(* The database (task, run, delivered, reviewed, sized) survives the       *)
(* process; the maps of the coordinator (active, timers) and the promises  *)
(* of the runner (at, aborted) do not.  One action is one JavaScript       *)
(* segment: from an event to the next await or to the settled promise,     *)
(* whose callback runs in the same turn.  Which phase a run is in and how  *)
(* many steps it has left is GoalRunner's subject: here every way a        *)
(* segment can end is allowed.                                             *)
(***************************************************************************)
EXTENDS Naturals, FiniteSets

CONSTANTS
  Tasks,             \* Tasks with a prepared worktree
  Runs,              \* ids of the Goal runs that may be created
  TaskOf,            \* the Task each run belongs to
  NoRun,             \* no entry in `active`
  MaxHumanActions,   \* bound on requests of the user
  MaxRestarts        \* bound on process deaths

ASSUME CoordinatorAssumptions ==
  /\ Runs \subseteq Nat
  /\ TaskOf \in [Runs -> Tasks]
  /\ NoRun \notin Runs
  /\ MaxHumanActions \in Nat
  /\ MaxRestarts \in Nat

VARIABLES
  task,            \* tasks.status
  run,             \* goal_runs.status, "none" before the row exists
  delivered,       \* runs with commit_sha and pull_request_url
  reviewed,        \* runs with a final human decision
  sized,           \* Tasks with a persisted TaskDNA
  proc,            \* the Maestro process
  active,          \* GoalCoordinator.active
  timers,          \* keys of GoalCoordinator.retryTimers
  at,              \* what the promise of each run awaits
  aborted,         \* runs whose AbortController was aborted
  published,       \* pull request deliveries made for each run
  cancelRequested, \* Tasks cancelled by the user and not taken up again by him
  humanActions, restarts

database == <<task, run, delivered, reviewed, sized>>
process == <<proc, active, timers, at, aborted>>
ghosts == <<published, cancelRequested>>
bounds == <<humanActions, restarts>>
vars == <<database, process, ghosts, bounds>>

\* "working" stands for planning, implementing, testing, reviewing and
\* changes_requested, which no line modelled here tells apart.
TaskStatuses == {"queued", "working", "waiting_provider", "awaiting_human",
                 "ready_to_merge", "rejected", "blocked", "failed",
                 "cancelled", "done"}
RunStatuses == {"none", "running", "waiting_provider", "completed",
                "blocked", "failed", "cancelled"}
NonResumable == {"awaiting_human", "ready_to_merge", "rejected", "blocked",
                 "failed", "cancelled", "done"}
Terminal == {"done", "failed", "rejected", "cancelled"}
Awaits == {"sizing", "validating", "graph", "acquiring", "executing", "routing"}

RunsOf(t) == {r \in Runs : TaskOf[r] = t}
Executing == {r \in Runs : at[r] # "settled"}
Unfinished(r) == run[r] \in {"running", "waiting_provider"}

-----------------------------------------------------------------------------
(* How a segment of runTaskGoal ends.  task0 and run0 are the statuses     *)
(* written earlier in the same segment.                                    *)

Await(r, point) ==
  /\ at' = [at EXCEPT ![r] = point]
  /\ active' = [active EXCEPT ![TaskOf[r]] = r]
  /\ timers' = timers \ {r}
  /\ UNCHANGED <<proc, aborted, delivered, published>>

\* The promise settles: `execute` forgets it and arms a timer if it waits.
SettleUnscheduled(r, waits) ==
  /\ at' = [at EXCEPT ![r] = "settled"]
  /\ active' = [active EXCEPT ![TaskOf[r]] = NoRun]
  /\ aborted' = aborted \ {r}
  /\ timers' = timers \ {r}
  /\ UNCHANGED proc
Settle(r, waits) ==
  /\ at' = [at EXCEPT ![r] = "settled"]
  /\ active' = [active EXCEPT ![TaskOf[r]] = NoRun]
  /\ aborted' = aborted \ {r}
  /\ timers' = IF waits /\ proc = "up" THEN timers \cup {r} ELSE timers \ {r}
  /\ UNCHANGED proc

Finish(r, task0, run0, taskStatus, runStatus) ==
  /\ task' = [task0 EXCEPT ![TaskOf[r]] = taskStatus]
  /\ run' = [run0 EXCEPT ![r] = runStatus]
  /\ Settle(r, runStatus = "waiting_provider")
  /\ UNCHANGED <<delivered, published>>

PauseRun(r, task0, run0) ==
  Finish(r, task0, run0, "waiting_provider", "waiting_provider")
FinishRunOnly(r, task0, run0) ==
  \E status \in {"blocked", "failed"} :
    Finish(r, task0, run0, task0[TaskOf[r]], status)
FinishRun(r, task0, run0) ==
  \E status \in {"blocked", "failed"} : Finish(r, task0, run0, status, status)
CancelRun(r, task0, run0) ==
  Finish(r, task0, run0, "cancelled", "cancelled")

ProcessDies ==
  /\ proc' = "down"
  /\ active' = [t \in Tasks |-> NoRun]
  /\ at' = [r \in Runs |-> "settled"]
  /\ timers' = {}
  /\ aborted' = {}

\* The idempotency guard of deliverGoal.
AlreadyDeliveredNever(r) == FALSE
AlreadyDelivered(r) == r \in delivered

\* deliverGoal.  Git and gh run synchronously, so nothing but the death of the
\* process comes between the transactions of one delivery.
DeliverGoal(r, task0, run0) ==
  \/ /\ AlreadyDelivered(r)
     /\ task' = task0 /\ run' = run0
     /\ Settle(r, run0[r] = "waiting_provider")
     /\ UNCHANGED <<delivered, published, restarts>>
  \/ /\ ~AlreadyDelivered(r)
     /\ FinishRun(r, task0, run0)
     /\ UNCHANGED restarts
  \/ /\ ~AlreadyDelivered(r)
     /\ Finish(r, task0, run0, "done", "completed")
     /\ UNCHANGED restarts
  \/ /\ ~AlreadyDelivered(r)
     /\ task' = [task0 EXCEPT ![TaskOf[r]] = "awaiting_human"]
     /\ \/ /\ run' = [run0 EXCEPT ![r] = "completed"]
           /\ delivered' = delivered \cup {r}
           /\ published' = [published EXCEPT ![r] = @ + 1]
           /\ Settle(r, FALSE)
           /\ UNCHANGED restarts
        \/ /\ restarts < MaxRestarts /\ restarts' = restarts + 1
           /\ run' = run0
           /\ ProcessDies
           /\ \/ UNCHANGED <<delivered, published>>
              \/ /\ delivered' \in {delivered, delivered \cup {r}}
                 /\ published' = [published EXCEPT ![r] = @ + 1]

\* The head of the loop while the phase has budget: abort check, deadline and
\* circuit breaker, then the next await of the phase.
Proceed(r, stop, task0, run0) ==
  /\ UNCHANGED restarts
  /\ \/ stop /\ CancelRun(r, task0, run0)
     \/ /\ ~stop
        /\ \/ PauseRun(r, task0, run0)
           \/ FinishRun(r, task0, run0)
           \/ /\ task' = [task0 EXCEPT ![TaskOf[r]] = "working"]
              /\ run' = [run0 EXCEPT ![r] = "running"]
              /\ \E point \in {"validating", "graph", "acquiring"} : Await(r, point)

\* The head of the loop: the last phase may have used up its budget.
Loop(r, stop, task0, run0) ==
  \/ Proceed(r, stop, task0, run0)
  \/ ~stop /\ DeliverGoal(r, task0, run0)

\* The loop condition comes before the abort check: a step that uses up
\* maxSteps ends the loop, aborted or not.
StepsExhausted(r) ==
  /\ PauseRun(r, task, run) \/ FinishRun(r, task, run)
  /\ UNCHANGED restarts

-----------------------------------------------------------------------------
(* An await of the runner is answered                                      *)

Rest == UNCHANGED <<reviewed, sized, cancelRequested, humanActions>>

\* resolveTaskDNA: no step was made before, so every budget is whole.
SizingEnds(r) ==
  /\ at[r] = "sizing"
  /\ sized' = sized \cup {TaskOf[r]}
  /\ Proceed(r, r \in aborted, task, run)
  /\ UNCHANGED <<reviewed, cancelRequested, humanActions>>

\* Deterministic validation passed, failed (a provider is asked to repair, with
\* no look at the signal), or could not start.
ValidationEnds(r) ==
  /\ at[r] = "validating"
  /\ \/ Loop(r, r \in aborted, task, run)
     \/ StepsExhausted(r)
     \/ /\ Await(r, "acquiring")
        /\ UNCHANGED <<task, run, restarts>>
     \/ PauseRun(r, task, run) /\ UNCHANGED restarts
  /\ Rest

\* runExplicitWorkGraphImplementation
WorkGraphEnds(r) ==
  /\ at[r] = "graph"
  /\ \/ PauseRun(r, task, run) /\ UNCHANGED restarts
     \/ r \in aborted /\ CancelRun(r, task, run) /\ UNCHANGED restarts
     \/ /\ r \notin aborted
        /\ \/ FinishRun(r, task, run) /\ UNCHANGED restarts
           \/ Loop(r, FALSE, task, run)
           \/ StepsExhausted(r)
  /\ Rest

\* registry.acquire returned a lease, or null and then nextAvailability.
AcquireEnds(r) ==
  /\ at[r] = "acquiring"
  /\ \/ /\ Await(r, "executing")
        /\ run' = [run EXCEPT ![r] = "running"]
        /\ UNCHANGED task
     \/ PauseRun(r, task, run)
  /\ UNCHANGED restarts
  /\ Rest

\* The provider's step ended, aborted or not.
ExecutionEndsDeaf(r) ==
  /\ at[r] = "executing"
  /\ \/ PauseRun(r, task, run) /\ UNCHANGED restarts
     \/ FinishRun(r, task, run) /\ UNCHANGED restarts
     \/ Await(r, "routing") /\ UNCHANGED <<task, run, restarts>>
     \/ DeliverGoal(r, task, run)
     \/ Loop(r, FALSE, task, run)
     \/ StepsExhausted(r)
  /\ Rest
ExecutionEnds(r) ==
  /\ at[r] = "executing"
  /\ \/ r \in aborted /\ CancelRun(r, task, run) /\ UNCHANGED restarts
     \/ /\ r \notin aborted
        /\ \/ PauseRun(r, task, run) /\ UNCHANGED restarts
           \/ FinishRun(r, task, run) /\ UNCHANGED restarts
           \/ Await(r, "routing") /\ UNCHANGED <<task, run, restarts>>
           \/ DeliverGoal(r, task, run)
           \/ Loop(r, FALSE, task, run)
           \/ StepsExhausted(r)
  /\ Rest

\* registry.route after a failed step: fall back, wait, or give up.
RoutingEnds(r) ==
  /\ at[r] = "routing"
  /\ \/ Loop(r, r \in aborted, task, run)
     \/ StepsExhausted(r)
  /\ Rest

-----------------------------------------------------------------------------
(* The coordinator's operations                                            *)

Serving == proc \in {"up", "stopping"}

\* execute: without a persisted TaskDNA the sizing call is awaited first.  What
\* the user starts or reopens has a fresh budget window (`Proceed`), what a
\* timer or a Work Graph resumes goes on with the old one (`Loop`).
Size(r, task0, run0) ==
  /\ TaskOf[r] \notin sized
  /\ task' = task0 /\ run' = run0
  /\ Await(r, "sizing")
  /\ UNCHANGED restarts

ExecuteFresh(r, task0, run0) ==
  \/ Size(r, task0, run0)
  \/ TaskOf[r] \in sized /\ Proceed(r, FALSE, task0, run0)

Execute(r) ==
  \/ Size(r, task, run)
  \/ TaskOf[r] \in sized /\ Loop(r, FALSE, task, run)

\* A human request about Task t, which takes it up again if it was cancelled.
HumanRequest(t) ==
  /\ Serving
  /\ humanActions < MaxHumanActions
  /\ humanActions' = humanActions + 1
  /\ cancelRequested' = cancelRequested \ {t}

Start(r) ==
  LET t == TaskOf[r] IN
  /\ HumanRequest(t)
  /\ proc = "up"
  /\ active[t] = NoRun
  /\ run[r] = "none"
  /\ \A other \in RunsOf(t) : ~Unfinished(other)
  /\ ExecuteFresh(r, task, [run EXCEPT ![r] = "running"])
  /\ UNCHANGED <<reviewed, sized>>

\* start, when the environment preflight refuses the Task.
StartBlocked(t) ==
  /\ HumanRequest(t)
  /\ proc = "up"
  /\ active[t] = NoRun
  /\ task' = [task EXCEPT ![t] = "blocked"]
  /\ UNCHANGED <<run, delivered, reviewed, sized, process, published, restarts>>

Reopen(r) ==
  /\ ExecuteFresh(r, [task EXCEPT ![TaskOf[r]] = "working"],
                     [run EXCEPT ![r] = "waiting_provider"])
  /\ UNCHANGED <<reviewed, sized>>

\* resumeExistingRun, also the end of switchProvider and recover.
ResumeExistingRunUnguarded(r) ==
  /\ HumanRequest(TaskOf[r])
  /\ run[r] \in {"blocked", "failed", "waiting_provider"}
  /\ Reopen(r)
ResumeExistingRun(r) ==
  /\ HumanRequest(TaskOf[r])
  /\ run[r] \in {"blocked", "failed", "waiting_provider"}
  /\ active[TaskOf[r]] = NoRun
  /\ Reopen(r)

\* retryTask: the latest blocked run of the Task.
RetryRun(r) ==
  /\ HumanRequest(TaskOf[r])
  /\ run[r] = "blocked"
  /\ \A other \in RunsOf(TaskOf[r]) : other > r => run[other] # "blocked"
  /\ active[TaskOf[r]] = NoRun
  /\ Reopen(r)

\* ReviewCoordinator.decide: a reviewer sends the delivered run back ...
RequestChanges(r) ==
  /\ HumanRequest(TaskOf[r])
  /\ r \in delivered \ reviewed
  /\ active[TaskOf[r]] = NoRun
  /\ run[r] = "completed"
  /\ ExecuteFresh(r, [task EXCEPT ![TaskOf[r]] = "working"],
                     [run EXCEPT ![r] = "running"])
  /\ UNCHANGED <<reviewed, sized>>

\* ... or approves or rejects it for good.
Decide(r, status) ==
  /\ HumanRequest(TaskOf[r])
  /\ r \in delivered \ reviewed
  /\ run[r] = "completed"
  /\ reviewed' = reviewed \cup {r}
  /\ task' = [task EXCEPT ![TaskOf[r]] = status]
  /\ UNCHANGED <<run, delivered, sized, process, published, restarts>>

ActiveRunUnchecked(t) == {active[t]}
ActiveRun(t) == {active[t]} \ {NoRun}

\* cancel: abort the active run, or cancel the first waiting one.
Cancel(t) ==
  LET waiting == {r \in RunsOf(t) : run[r] = "waiting_provider"}
      first == {r \in waiting : \A other \in waiting : r <= other}
      victims == IF ActiveRun(t) # {} THEN {} ELSE first
  IN
  /\ Serving
  /\ humanActions < MaxHumanActions
  /\ humanActions' = humanActions + 1
  /\ task[t] \notin Terminal
  /\ task' = [task EXCEPT ![t] = "cancelled"]
  /\ run' = [r \in Runs |-> IF r \in victims THEN "cancelled" ELSE run[r]]
  /\ timers' = timers \ victims
  /\ aborted' = aborted \cup ActiveRun(t)
  /\ cancelRequested' = cancelRequested \cup {t}
  /\ UNCHANGED <<delivered, reviewed, sized, proc, active, at, published, restarts>>

\* resume: what it resumes still waits, and nothing else runs for its Task.
ResumableAnyStatus(r) == run[r] # "none" /\ active[TaskOf[r]] = NoRun
Resumable(r) == run[r] = "waiting_provider" /\ active[TaskOf[r]] = NoRun

\* The callback of scheduleRetry.
TimerFires(r) ==
  /\ proc = "up"
  /\ r \in timers
  /\ IF Resumable(r)
     THEN Execute(r)
     ELSE /\ timers' = timers \ {r}
          /\ UNCHANGED <<task, run, delivered, proc, active, at, aborted, published, restarts>>
  /\ Rest

\* resume, called when a Work Graph of the run settled in the background.
WorkGraphSettled(r) ==
  /\ Serving
  /\ Resumable(r)
  /\ Execute(r)
  /\ Rest

-----------------------------------------------------------------------------
(* The process: shutdown, death, recovery                                  *)

Shutdown ==
  /\ proc = "up"
  /\ proc' = "stopping"
  /\ timers' = {}
  /\ aborted' = Executing
  /\ UNCHANGED <<database, active, at, ghosts, bounds>>

\* A crash, or the exit after the drain of a shutdown.
Die ==
  /\ proc # "down"
  /\ restarts < MaxRestarts /\ restarts' = restarts + 1
  /\ ProcessDies
  /\ UNCHANGED <<database, ghosts, humanActions>>

\* A new process; recoverLegacyOutputLimitedRuns takes up runs that were blocked
\* for their output: which ones is a choice.
Boot ==
  /\ proc = "down"
  /\ proc' = "recovering"
  /\ \E legacy \in SUBSET {r \in Runs : run[r] = "blocked"} :
       /\ run' = [r \in Runs |-> IF r \in legacy THEN "waiting_provider" ELSE run[r]]
       /\ task' = [t \in Tasks |-> IF RunsOf(t) \cap legacy # {} THEN "waiting_provider" ELSE task[t]]
  /\ UNCHANGED <<delivered, reviewed, sized, active, timers, at, aborted, ghosts, bounds>>

\* recoverInterruptedRun, oldest run first.
RecoverInterruptedRun(r, worktreeExists) ==
  LET t == TaskOf[r]
      status == IF task[t] \in NonResumable THEN "cancelled"
                ELSE IF worktreeExists THEN "waiting_provider" ELSE "blocked"
  IN
  /\ proc = "recovering"
  /\ run[r] = "running"
  /\ \A other \in Runs : other < r => run[other] # "running"
  /\ run' = [run EXCEPT ![r] = status]
  /\ task' = IF status = "cancelled" THEN task ELSE [task EXCEPT ![t] = status]
  /\ UNCHANGED <<delivered, reviewed, sized, process, ghosts, bounds>>

\* The end of recoverWaitingRuns: every waiting run gets a timer.
ArmWaitingRuns ==
  /\ proc = "recovering"
  /\ \A r \in Runs : run[r] # "running"
  /\ proc' = "up"
  /\ timers' = {r \in Runs : run[r] = "waiting_provider"}
  /\ UNCHANGED <<database, active, at, aborted, ghosts, bounds>>

-----------------------------------------------------------------------------
Init ==
  /\ task = [t \in Tasks |-> "queued"]
  /\ run = [r \in Runs |-> "none"]
  /\ delivered = {} /\ reviewed = {} /\ sized = {}
  /\ proc = "up"
  /\ active = [t \in Tasks |-> NoRun]
  /\ timers = {}
  /\ at = [r \in Runs |-> "settled"]
  /\ aborted = {}
  /\ published = [r \in Runs |-> 0]
  /\ cancelRequested = {}
  /\ humanActions = 0 /\ restarts = 0

Answer(r) ==
  \/ SizingEnds(r) \/ ValidationEnds(r) \/ WorkGraphEnds(r)
  \/ AcquireEnds(r) \/ ExecutionEnds(r) \/ RoutingEnds(r)

Next ==
  \/ \E r \in Runs : Answer(r)
  \/ \E r \in Runs : Start(r)
  \/ \E t \in Tasks : StartBlocked(t)
  \/ \E r \in Runs : ResumeExistingRun(r)
  \/ \E r \in Runs : RetryRun(r)
  \/ \E r \in Runs : RequestChanges(r)
  \/ \E r \in Runs, status \in {"ready_to_merge", "rejected"} : Decide(r, status)
  \/ \E t \in Tasks : Cancel(t)
  \/ \E r \in Runs : TimerFires(r)
  \/ \E r \in Runs : WorkGraphSettled(r)
  \/ Shutdown
  \/ Die
  \/ Boot
  \/ \E r \in Runs, exists \in BOOLEAN : RecoverInterruptedRun(r, exists)
  \/ ArmWaitingRuns

Spec == Init /\ [][Next]_vars

\* Every await has a timeout of its own or ends on abort; timers fire; the
\* startup code runs to its end.  Nothing obliges a user, or a new process.
FairSpec ==
  /\ Spec
  /\ \A r \in Runs : WF_vars(Answer(r)) /\ WF_vars(TimerFires(r))
  /\ WF_vars(ArmWaitingRuns \/ \E r \in Runs, e \in BOOLEAN : RecoverInterruptedRun(r, e))

-----------------------------------------------------------------------------
(* Properties                                                              *)

\* Every variable holds a value of its kind.
TypeOK ==
  /\ task \in [Tasks -> TaskStatuses]
  /\ run \in [Runs -> RunStatuses]
  /\ delivered \in SUBSET Runs /\ reviewed \in SUBSET Runs
  /\ sized \in SUBSET Tasks
  /\ proc \in {"up", "stopping", "down", "recovering"}
  /\ active \in [Tasks -> Runs \cup {NoRun}]
  /\ timers \in SUBSET Runs
  /\ at \in [Runs -> Awaits \cup {"settled"}]
  /\ aborted \in SUBSET Runs
  /\ published \in [Runs -> Nat]
  /\ cancelRequested \in SUBSET Tasks
  /\ humanActions \in 0..MaxHumanActions
  /\ restarts \in 0..MaxRestarts

\* One Task has one worktree: the run `active` names is the only one of its
\* Task that executes, so no two agents write into it, whatever timers,
\* retries, reviewers and Work Graphs resume.
OneWriterPerTask ==
  \A r \in Runs : at[r] # "settled" <=> active[TaskOf[r]] = r

\* The idempotency guard of deliverGoal, over changes requested, retries and
\* restarts: a run is delivered once, and once more only for a death of the
\* process between a delivery and its record.
DeliveredOnce == \A r \in Runs : published[r] <= 1 + restarts

\* A Task shown as working or waiting has a run that is, across restarts too.
WorkingTaskHasRun ==
  \A t \in Tasks : task[t] \in {"working", "waiting_provider"} =>
    \E r \in RunsOf(t) : Unfinished(r)

\* A Task whose only run waits is never forgotten: its retry timer is armed.
OnlyRun(r) == \A other \in RunsOf(TaskOf[r]) : other # r => run[other] = "none"
WaitingRunHasTimer ==
  \A r \in Runs :
    proc = "up" /\ run[r] = "waiting_provider" /\ OnlyRun(r)
      => r \in timers \/ r \in Executing

\* No timer, request or restart brings a cancelled run back.
CancelledRunIsFinal ==
  [][\A r \in Runs : run[r] = "cancelled" => run'[r] = "cancelled"]_vars

\* An aborted run ends, whichever await the abort finds it in.
AbortEnds == \A r \in Runs : r \in aborted ~> r \notin Executing

\* README.md:363, "/cancel <id> cancels an active, waiting, or queued task": it
\* stays cancelled until the user takes it up again.
CancelSticks == \A t \in cancelRequested : task[t] = "cancelled"

\* src/goals/runner.ts:2004 "Cancelled by user.": nobody else cancels a Task.
OnlyUserCancels ==
  [][\A t \in Tasks : task[t] # "cancelled" /\ task'[t] = "cancelled"
                      => t \in cancelRequested']_vars

\* Whatever starts, resumes, retries, cancels or recovers a Goal keeps the promises
\* of its lifecycle (GoalLifecycle): at most one works in the worktree, deliveries
\* are work that completed, cancellations and final decisions stay.
StateOf(status) == IF status \in {"running", "waiting_provider"} THEN "open" ELSE status
States == [r \in Runs |-> StateOf(run[r])]
Workers == [t \in Tasks |-> {r \in Executing : TaskOf[r] = t}]
Lifecycle == INSTANCE GoalLifecycle WITH
  workers <- Workers, state <- States, decided <- reviewed, losses <- restarts
ImplementsLifecycle == Lifecycle!Spec
=============================================================================
