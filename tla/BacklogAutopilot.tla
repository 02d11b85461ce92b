-------------------------- MODULE BacklogAutopilot --------------------------
(***************************************************************************)
(* src/backlog/autopilot.ts: the timer that retries Goals blocked by their *)
(* budget, adopts prepared Tasks and starts the Task at the head of the    *)
(* queue, on the Feature Plan queue (FeaturePlanQueue) and with the        *)
(* readiness check of src/features/task-scheduler.ts.  All Tasks are of    *)
(* one project.                                                            *)
(*                                                                         *)
(* A tick awaits only the Telegram message about a Task it blocks, so a    *)
(* tick is one step up to there and one step from there.  Everything a     *)
(* step writes is in a record `s`, which the loops of the tick fold over.  *)
(* How a run ends is GoalRunner's and GoalCoordinator's subject: here it   *)
(* may end in any of the ways the autopilot tells apart.                   *)
(***************************************************************************)
EXTENDS FeaturePlanQueue, Sequences

CONSTANTS
  Contract,        \* [mode, scope] of each Task
  SameDemand,      \* the Tasks whose text asks for the same as a Task's
  MaxConcurrent,   \* autopilot.maxConcurrentGoals
  MaxAutoRetries,  \* MAX_AUTO_RETRIES_PER_GOAL
  MaxRuns          \* more than the requests can create

\* Ids of Tasks are positive, and the plans there are were validated when they were made.
ASSUME AutopilotBounds ==
  /\ Tasks \in SUBSET (Nat \ {0}) /\ IsFiniteSet(Tasks)
  /\ TaskDeps \in [Tasks -> SUBSET Tasks]
  /\ \A mb \in Loaded : \A p \in Plans : ValidTaskGraph(mb[p], TaskDeps)

VARIABLES
  task,        \* tasks.status
  worktree,    \* Tasks with a worktree
  run,         \* goal_runs, in id order
  retries,     \* autoRetryCounts
  backoff,     \* runs whose autoRetryBackoffUntil lies ahead
  recovering,  \* Tasks whose nextRetryAt lies ahead
  update,      \* status of the latest runtime update
  tick         \* the tick that awaits, and what it read before

goalVars == <<task, worktree, run, recovering>>
autopilotVars == <<retries, backoff, tick>>
backlogVars == <<queueVars, requests, goalVars, autopilotVars, update>>

TaskStatuses == {"queued", "planning", "waiting_provider", "waiting_dependency",
                 "awaiting_human", "done", "blocked", "failed", "cancelled", "rejected"}
Satisfied == {"awaiting_human", "done"}
RunStatuses == {"running", "waiting_provider", "completed", "blocked", "failed", "cancelled"}
Categories == {"none", "budget_exhausted", "loop"}
Idle == [pc |-> "idle", rest |-> <<>>, seen |-> [t \in Tasks |-> "queued"], active |-> {}]

RunsOf(rs, t) == {i \in DOMAIN rs : rs[i].of = t}
Unfinished(rs) == {i \in DOMAIN rs : rs[i].status \in {"running", "waiting_provider"}}
RunningTasks(rs) == {rs[i].of : i \in {j \in DOMAIN rs : rs[j].status = "running"}}
Latest(is) == CHOOSE i \in is : \A j \in is : j <= i
LoopEnded(rs, t) == RunsOf(rs, t) # {} /\ rs[Latest(RunsOf(rs, t))].cat = "loop"

-----------------------------------------------------------------------------
\* What the tick asks of GoalCoordinator.  `active` are the running Tasks.

CanStart(s, t) ==
  t \in s.worktree /\ RunsOf(s.run, t) \cap Unfinished(s.run) = {}

Started(s, t) ==
  [s EXCEPT !.run = Append(@, [of |-> t, status |-> "running", cat |-> "none"]),
            !.task[t] = "planning"]

\* retryRun and resumeExistingRun: the row is reopened and executed.
Resumed(s, i) ==
  [s EXCEPT !.run[i].status = "running", !.task[s.run[i].of] = "planning"]

\* recover: the latest run of the dependency that can be resumed.
Resumable(rs, d) ==
  {i \in RunsOf(rs, d) : rs[i].status \in {"blocked", "failed", "waiting_provider"}}
RecoverableLoop(rs, d) == Resumable(rs, d) # {}
Recoverable(rs, d) ==
  /\ Resumable(rs, d) # {}
  /\ rs[Latest(Resumable(rs, d))].cat # "loop"
Recover(s, d) ==
  IF /\ s.task[d] \in {"blocked", "failed"}
     /\ d \notin RunningTasks(s.run)
     /\ Recoverable(s.run, d)
  THEN Resumed(s, Latest(Resumable(s.run, d))) ELSE s

\* recoverBudgetBlockedGoals: the two latest runs blocked by their budget.  An
\* attempt counts against the run listed, retry takes the Task's latest one.
BudgetBlocked(rs) ==
  {i \in DOMAIN rs : rs[i].status = "blocked" /\ rs[i].cat = "budget_exhausted"}
Retryable(s, t) ==
  LET blocked == {i \in RunsOf(s.run, t) : s.run[i].status = "blocked"}
  IN {i \in blocked : /\ i = Latest(blocked)
                      /\ s.run[i].cat = "budget_exhausted"
                      /\ t \notin RunningTasks(s.run)}
AutoRetriedForever(s, i) ==
  IF i \notin s.backoff /\ Retryable(s, s.run[i].of) # {}
  THEN [Resumed(s, Latest(Retryable(s, s.run[i].of))) EXCEPT !.retries[i] = @ + 1] ELSE s
AutoRetried(s, i) ==
  LET lifted == Retryable(s, s.run[i].of)
      spared == i \in s.backoff \/ s.retries[i] >= MaxAutoRetries
  IN CASE spared -> s
       [] ~spared /\ lifted # {} ->
            [Resumed(s, Latest(lifted)) EXCEPT !.retries[i] = @ + 1, !.backoff = @ \cup {i}]
       [] OTHER -> [s EXCEPT !.retries[i] = @ + 1]

\* Runs that ended are forgotten; those between two blocks are not.
Forgotten(s) ==
  LET ended == {i \in DOMAIN s.run : s.run[i].status \in {"completed", "failed", "cancelled"}}
  IN [s EXCEPT !.retries = [i \in 1..MaxRuns |-> IF i \in ended THEN 0 ELSE @[i]],
               !.backoff = @ \ ended]

RecoverBudgetBlockedGoals(s) ==
  LET listed == BudgetBlocked(s.run)
      others == listed \ {Latest(listed)}
      first == AutoRetried(Forgotten(s), Latest(listed))
  IN CASE listed = {} -> Forgotten(s)
       [] listed # {} /\ others = {} -> first
       [] OTHER -> AutoRetried(first, Latest(others))

-----------------------------------------------------------------------------
\* evaluateFeatureTaskReadiness

PlanOf(s, t) == {p \in Plans : t \in members[p] /\ s.plan[p].status \notin Final \cup {"none"}}

UndeliveredDependencies(s, p, t) ==
  {d \in TransitiveDependencies(members[p], TaskDeps, t) : s.task[d] \notin Satisfied}
UnmetDependencies(s, p, t) ==
  {d \in TransitiveDependencies(members[p], TaskDeps, t) :
     s.task[d] \notin Satisfied \/ LoopEnded(s.run, d)}

DependencyFailed(s, d) == LoopEnded(s.run, d) \/ s.task[d] \in {"cancelled", "rejected"}

Conflicts(s, p, t, u) ==
  u # t /\ (p \notin PlanOf(s, u) \/ ContractsConflict(Contract[t], Contract[u]))

\* The verdict, the dependency it names (0: none) and the plans afterwards: a
\* queued plan is admitted on the way, and becomes active with its first Task.
Verdict(state, on, pl) == [state |-> state, on |-> on, plan |-> pl]
PlanReadiness(s, p, t, active) ==
  LET admitted == IF s.plan[p].status = "queued"
                  THEN StatusUpdated(s.plan, p, "admitted", "none") ELSE s.plan
      unmet == UnmetDependencies(s, p, t)
      first == CHOOSE d \in unmet : \A e \in unmet : d <= e
  IN CASE s.plan[p].paused -> Verdict("waiting", 0, s.plan)
       [] ~s.plan[p].paused /\ s.plan[p].status = "blocked" -> Verdict("blocked", 0, s.plan)
       [] ~s.plan[p].paused /\ s.plan[p].status = "queued" /\ ~Eligible(s.plan, deps, p) ->
            Verdict("waiting", 0, s.plan)
       [] OTHER ->
          CASE unmet # {} ->
                 Verdict(IF DependencyFailed(s, first) THEN "blocked" ELSE "waiting", first, admitted)
            [] unmet = {} /\ (\E u \in active : Conflicts(s, p, t, u)) ->
                 Verdict("waiting", 0, admitted)
            [] OTHER -> Verdict("ready", 0, IF admitted[p].status = "admitted"
                          THEN StatusUpdated(admitted, p, "active", "none") ELSE admitted)
Readiness(s, t, active) ==
  IF PlanOf(s, t) = {}
  THEN Verdict(IF active = {} THEN "ready" ELSE "waiting", 0, s.plan)
  ELSE PlanReadiness(s, CHOOSE p \in PlanOf(s, t) : TRUE, t, active)

-----------------------------------------------------------------------------
\* One turn of the loop over the queue, with what the tick read before it
\* (seen, active).  Task statuses are written without looking at them again,
\* except right before the preparation.

Stop(s, what) == [s EXCEPT !.out = what]
WaitForRecovery(s, t) ==
  [s EXCEPT !.task[t] = "waiting_provider", !.recovering = @ \cup {t}]
BlockTask(s, t) == Stop([s EXCEPT !.task[t] = "blocked"], "notify")
WaitForDependency(s, t, on, seen) ==
  LET r == IF on = 0 THEN s ELSE Recover(s, on)
  IN IF on # 0 /\ seen[t] # "waiting_dependency"
     THEN [r EXCEPT !.task[t] = "waiting_dependency"] ELSE r

PrepareAndStart(s, t, failing) ==
  LET prepared == [s EXCEPT !.task[t] = "planning", !.worktree = @ \cup {t}] IN
  CASE s.task[t] # "queued" -> s
    [] s.task[t] = "queued" /\ t \in failing -> WaitForRecovery(s, t)
    [] s.task[t] = "queued" /\ t \notin failing /\ ~CanStart(prepared, t) ->
         WaitForRecovery(prepared, t)
    [] OTHER -> Stop(Started(prepared, t), "started")

Resolved(s, t) == \E u \in SameDemand[t] : s.seen[u] \in Satisfied

QueueTurn(s, t, failing) ==
  LET retried == IF s.seen[t] = "waiting_provider" THEN [s EXCEPT !.task[t] = "queued"] ELSE s
      verdict == Readiness(retried, t, s.active)
      ready == [retried EXCEPT !.plan = verdict.plan,
                  !.task[t] = IF s.seen[t] = "waiting_dependency" THEN "queued" ELSE @]
  IN CASE s.out # "looking" -> [s EXCEPT !.rest = Append(@, t)]
       [] s.out = "looking" /\ s.seen[t] = "waiting_provider" /\ t \in s.recovering -> s
       [] OTHER ->
          CASE Resolved(s, t) -> BlockTask(retried, t)
            [] ~Resolved(s, t) /\ verdict.state = "blocked" ->
                 BlockTask([retried EXCEPT !.plan = verdict.plan], t)
            [] ~Resolved(s, t) /\ verdict.state = "waiting" ->
                 WaitForDependency([retried EXCEPT !.plan = verdict.plan], t, verdict.on, s.seen)
            [] OTHER -> PrepareAndStart(ready, t, failing)

Loop(s, queue, failing) ==
  LET after[n \in 0 .. Len(queue)] ==
        IF n = 0 THEN s ELSE QueueTurn(after[n - 1], queue[n], failing)
  IN after[Len(queue)]

\* Tasks that were prepared and never started: two are tried.
Orphans(s, busy) ==
  {t \in Tasks : s.task[t] = "planning" /\ t \in s.worktree /\ t \notin busy}
Adopted(s, busy, failing) ==
  LET tried == {t \in Orphans(s, busy) : Cardinality({u \in Orphans(s, busy) : u < t}) < 2}
      able == {t \in tried \ failing : CanStart(s, t)}
  IN IF able = {} THEN s
     ELSE Stop(Started(s, CHOOSE t \in able : \A u \in able : t <= u), "started")

InQueueNoDependents(s, busy) ==
  {t \in Tasks : s.task[t] = "queued" \/ (s.task[t] = "waiting_provider" /\ t \notin busy)}
InQueue(s, busy) ==
  {t \in Tasks : \/ s.task[t] \in {"queued", "waiting_dependency"}
                 \/ s.task[t] = "waiting_provider" /\ t \notin busy}

InOrder(ts) ==
  [n \in 1 .. Cardinality(ts) |-> CHOOSE t \in ts : Cardinality({u \in ts : u < t}) = n - 1]

\* What a tick works on: the tables, and what its loop read before.
Tables == [plan |-> plan, task |-> task, run |-> run, worktree |-> worktree,
           recovering |-> recovering, retries |-> retries, backoff |-> backoff,
           out |-> "looking", rest |-> <<>>, seen |-> task, active |-> {}]
Looking(s, seen, active) == [s EXCEPT !.seen = seen, !.active = active]

Store(s) ==
  /\ plan' = s.plan /\ task' = s.task /\ run' = s.run /\ worktree' = s.worktree
  /\ recovering' = s.recovering /\ retries' = s.retries /\ backoff' = s.backoff
  /\ tick' = IF s.out = "notify"
             THEN [pc |-> "notify", rest |-> s.rest, seen |-> s.seen, active |-> s.active]
             ELSE Idle
  /\ UNCHANGED <<deps, members, integration, feature, requests, update>>

\* tick, up to the first Task it blocks.  The running Goals are listed before
\* the retries, the Tasks after them.
TickResult(failing) ==
  LET busy == {run[i].of : i \in Unfinished(run)}
      recovered == RecoverBudgetBlockedGoals(Tables)
  IN Loop(Adopted(Looking(recovered, recovered.task, busy), busy, failing),
          InOrder(InQueue(recovered, busy)), failing)

\* `failing` are the Tasks whose preparation or environment check fails now.
MayTick == update = "none" /\ Cardinality(RunningTasks(run)) < MaxConcurrent
Tick(failing) ==
  /\ tick.pc = "due"
  /\ \/ MayTick /\ Store(TickResult(failing))
     \/ /\ ~MayTick /\ tick' = Idle
        /\ UNCHANGED <<queueVars, requests, goalVars, retries, backoff, update>>

\* ... and on from there once the message is sent or has failed.
TickGoesOn(failing) ==
  /\ tick.pc = "notify"
  /\ Store(Loop(Looking(Tables, tick.seen, tick.active), tick.rest, failing))

\* The interval timer fires; a tick that is still running ignores it.
TimerFires ==
  /\ tick.pc = "idle"
  /\ tick' = [tick EXCEPT !.pc = "due"]
  /\ UNCHANGED <<queueVars, requests, goalVars, retries, backoff, update>>

TickStep == \E failing \in SUBSET Tasks : Tick(failing) \/ TickGoesOn(failing)

-----------------------------------------------------------------------------
\* Everything else that happens to Tasks and runs

GoalStep == UNCHANGED <<queueVars, requests, autopilotVars, update, worktree, recovering>>

\* A running Goal pauses, blocks, fails or is delivered.  A category once
\* written stays until another one is.
RunEnds(i) ==
  /\ run[i].status = "running"
  /\ \/ /\ run' = [run EXCEPT ![i].status = "waiting_provider"]
        /\ task' = [task EXCEPT ![run[i].of] = "waiting_provider"]
     \/ /\ run' = [run EXCEPT ![i].status = "failed"]
        /\ task' = [task EXCEPT ![run[i].of] = "failed"]
     \/ \E cat \in {run[i].cat, "budget_exhausted", "loop"} :
          /\ run' = [run EXCEPT ![i].status = "blocked", ![i].cat = cat]
          /\ task' = [task EXCEPT ![run[i].of] = "blocked"]
     \/ /\ run' = [run EXCEPT ![i].status = "completed"]
        /\ task' = [task EXCEPT ![run[i].of] = "awaiting_human"]
  /\ GoalStep

\* The retry timer of a waiting Goal fires.
RunResumes(i) ==
  /\ run[i].status = "waiting_provider"
  /\ run[i].of \notin RunningTasks(run)
  /\ run' = [run EXCEPT ![i].status = "running"]
  /\ task' = [task EXCEPT ![run[i].of] = "planning"]
  /\ GoalStep

\* resumeExistingRun, by the dashboard and the chat: a human continues a run,
\* one that ended in a loop too, and the row keeps its category.
ResumeGoal(i) ==
  /\ Request
  /\ run[i].status \in {"blocked", "failed", "waiting_provider"}
  /\ run[i].of \notin RunningTasks(run)
  /\ run' = [run EXCEPT ![i].status = "running"]
  /\ task' = [task EXCEPT ![run[i].of] = "planning"]
  /\ UNCHANGED <<queueVars, autopilotVars, update, worktree, recovering>>

TimePasses ==
  /\ \/ backoff # {} /\ backoff' = {} /\ UNCHANGED recovering
     \/ recovering # {} /\ recovering' = {} /\ UNCHANGED backoff
  /\ UNCHANGED <<queueVars, requests, task, worktree, run, retries, tick, update>>

\* ReviewCoordinator: a human accepts the pull request or rejects it.
Decide(t) ==
  /\ Request
  /\ task[t] = "awaiting_human"
  /\ \E status \in {"done", "rejected"} : task' = [task EXCEPT ![t] = status]
  /\ UNCHANGED <<queueVars, autopilotVars, update, worktree, run, recovering>>

\* The Feature of an active plan is assembled, reviewed and merged
\* (FeatureDelivery).
PlanCompletes(p) ==
  /\ plan[p].status = "active" /\ members[p] # {}
  /\ \A t \in members[p] : task[t] \in Satisfied
  /\ plan' = [plan EXCEPT ![p].status = "completed"]
  /\ UNCHANGED <<deps, members, integration, feature, requests, goalVars, autopilotVars, update>>

\* POST /api/tasks/:id/goals
StartGoal(t) ==
  /\ Request
  /\ CanStart(Tables, t) /\ t \notin RunningTasks(run)
  /\ run' = Append(run, [of |-> t, status |-> "running", cat |-> "none"])
  /\ task' = [task EXCEPT ![t] = "planning"]
  /\ UNCHANGED <<queueVars, autopilotVars, update, worktree, recovering>>

\* The chat's retry_task on a Task without a resumable Goal.
RetryTask(t) ==
  /\ Request
  /\ task[t] \in {"blocked", "failed", "waiting_provider", "waiting_dependency"}
  /\ RunsOf(run, t) \cap {i \in DOMAIN run : run[i].status \in {"blocked", "failed"}} = {}
  /\ task' = [task EXCEPT ![t] = IF t \in worktree THEN "planning" ELSE "queued"]
  /\ UNCHANGED <<queueVars, autopilotVars, update, worktree, run, recovering>>

\* GoalCoordinator.cancel: the running Goal is aborted, which is taken to end
\* it at once, or else the first waiting one is.
CancelTask(t) ==
  /\ Request
  /\ task[t] \notin {"done", "failed", "rejected", "cancelled"}
  /\ task' = [task EXCEPT ![t] = "cancelled"]
  /\ LET live == RunsOf(run, t) \cap Unfinished(run)
     IN run' = [i \in DOMAIN run |->
                  IF /\ i \in live
                     /\ \/ run[i].status = "running"
                        \/ t \notin RunningTasks(run) /\ \A j \in live : i <= j
                  THEN [run[i] EXCEPT !.status = "cancelled"] ELSE run[i]]
  /\ UNCHANGED <<queueVars, autopilotVars, update, worktree, recovering>>

\* A runtime update is queued, and installed or given up.
UpdateQueued ==
  /\ Request
  /\ update = "none" /\ update' = "pending"
  /\ UNCHANGED <<queueVars, goalVars, autopilotVars>>
UpdateSettles ==
  /\ update = "pending" /\ update' = "none"
  /\ UNCHANGED <<queueVars, requests, goalVars, autopilotVars>>

\* Without autopilot.enabled there is no interval timer: tick.pc is "off".
AutopilotStarts(timer) ==
  /\ task = [t \in Tasks |-> "queued"]
  /\ worktree = {}
  /\ run = <<>>
  /\ retries = [i \in 1..MaxRuns |-> 0]
  /\ backoff = {} /\ recovering = {}
  /\ update = "none"
  /\ tick = [Idle EXCEPT !.pc = timer]

AutopilotInit == PlansLoaded /\ deps = [p \in Plans |-> {}] /\ AutopilotStarts("idle")

QueueStep ==
  /\ (\E p \in Plans : QueueCommand(p)) \/ RevalidateFeaturePlanQueue
  /\ UNCHANGED <<goalVars, autopilotVars, update>>

AutopilotNext ==
  \/ TimerFires
  \/ TickStep
  \/ QueueStep
  \/ \E i \in DOMAIN run : RunEnds(i) \/ RunResumes(i) \/ ResumeGoal(i)
  \/ TimePasses
  \/ \E t \in Tasks : Decide(t) \/ StartGoal(t) \/ RetryTask(t) \/ CancelTask(t)
  \/ \E p \in Plans : PlanCompletes(p)
  \/ UpdateQueued
  \/ UpdateSettles

\* The interval timer goes on firing, its callback runs, and Telegram answers
\* or fails.  TickDue is ENABLED <<TickStep>>_backlogVars, which TLC need not compute.
TickDue == tick.pc \in {"due", "notify"}
AutopilotFairness ==
  /\ WF_backlogVars(TimerFires)
  /\ <>[]TickDue => []<><<TickStep>>_backlogVars
  /\ WF_backlogVars(TimePasses) /\ WF_backlogVars(UpdateSettles)

AutopilotSpec == AutopilotInit /\ [][AutopilotNext]_backlogVars /\ AutopilotFairness

-----------------------------------------------------------------------------
BacklogTypeOK ==
  /\ QueueTypeOK
  /\ task \in [Tasks -> TaskStatuses]
  /\ worktree \subseteq Tasks /\ recovering \subseteq Tasks
  /\ Len(run) <= MaxRuns
  /\ \A i \in DOMAIN run : run[i] \in [of : Tasks, status : RunStatuses, cat : Categories]
  /\ retries \in [1..MaxRuns -> 0..MaxAutoRetries] /\ backoff \subseteq 1..MaxRuns
  /\ tick.pc \in {"off", "idle", "due", "notify"}

\* Whoever admits a plan - the autopilot on its way to a Task, a human's
\* admission, retry or cancellation, a revalidation pass that also blocks and
\* requeues others - finds its predecessors completed, and leaves it the only
\* writer of the project.  Only the status endpoint, a command of its own, checks
\* neither.
Admitted == {p \in Plans : plan[p].status \in {"queued", "blocked"} /\ plan'[p].status \in Writing}
AdmittingStep ==
  \/ TickStep
  \/ /\ \/ RevalidateFeaturePlanQueue
        \/ \E p \in Plans : AdmitFeaturePlan(p) \/ RetryFeaturePlan(p) \/ CancelFeaturePlan(p)
     /\ UNCHANGED <<goalVars, autopilotVars, update>>
AdmissionIsLegal ==
  [][AdmittingStep => \A p \in Admitted :
       /\ \A d \in deps[p] : plan'[d].status = "completed"
       /\ Writers(plan') = {p} /\ ~plan'[p].paused]_backlogVars

\* The tasks of new runs that were not already prepared by hand.
LaunchedFromQueue ==
  {t \in Tasks : task[t] # "planning" /\ Len(run') > Len(run) /\ run'[Len(run')].of = t}

\* A Task the autopilot takes from its queue has every direct and indirect
\* dependency delivered, none of them by a run that was once ended as a loop (a
\* human may have resumed it since), and its plan holds the writer lease
\* unpaused: although the tick goes on with what it read before it awaited
\* Telegram.
QueueStartsReadyTasks ==
  [][TickStep => \A t \in LaunchedFromQueue : \A p \in PlanOf(Tables, t) :
       /\ plan'[p].status \in Writing /\ ~plan'[p].paused
       /\ \A d \in TransitiveDependencies(members[p], TaskDeps, t) :
            task'[d] \in Satisfied /\ ~LoopEnded(run, d)]_backlogVars

\* The autopilot never resumes a run that stopped because it proved a loop,
\* neither as a budget retry nor as the dependency of a waiting Task.
LoopsStayDown ==
  [][TickStep => \A i \in DOMAIN run :
       run[i].status \in {"blocked", "failed"} /\ run[i].cat = "loop"
         => run'[i].status = run[i].status]_backlogVars

\* A Task that waited for dependencies does not stay behind once they are
\* delivered, its plan writes unpaused and no other Goal occupies the project.
Overlooked(t) ==
  /\ task[t] = "waiting_dependency" /\ Unfinished(run) = {}
  /\ \E p \in PlanOf(Tables, t) :
       /\ plan[p].status \in Writing /\ ~plan[p].paused /\ UnmetDependencies(Tables, p, t) = {}
WaitingTaskIsWoken == \A t \in Tasks : ~<>[]Overlooked(t)
=============================================================================
