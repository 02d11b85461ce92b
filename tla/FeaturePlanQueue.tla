-------------------------- MODULE FeaturePlanQueue --------------------------
(***************************************************************************)
(* The Feature Plan queue: the feature_plans, feature_plan_dependencies,   *)
(* feature_plan_tasks and feature_plan_integrations tables of src/db.ts    *)
(* (createFeaturePlan .. createFeaturePlanIntegration), the commands that  *)
(* write them (src/commands/application-commands.ts) and the revalidation  *)
(* of the queue (src/features/task-scheduler.ts).  Plans belong to one     *)
(* project, whose writer lease is a status between admitted and            *)
(* waiting_merge.  better-sqlite3 is synchronous: every operation below is *)
(* one step.  An operation that throws changes nothing and is disabled.    *)
(*                                                                         *)
(* The tables are passed to the operators as values (pl, dp), because the  *)
(* handlers that loop over the queue write and read them again in one step.*)
(***************************************************************************)
EXTENDS Naturals, FiniteSets, FeatureTaskGraph

CONSTANTS
  Plans,          \* ids of the plans that may be created, in id order
  Tasks,          \* ids of the Tasks, in the order plans list them
  TaskDeps,       \* the dependsOnTaskIds of the contract of each Task
  PlanScopes,     \* the sets of Tasks the user may plan
  Loaded,         \* the members of the plans the database may start with,
                  \* where other components act on it too
  MaxPriority, MaxRevision, MaxRequests,  \* bounds
  UserSteps       \* how many of the MaxRequests are left there

ASSUME QueueBounds ==
  /\ Plans \in SUBSET Nat /\ IsFiniteSet(Plans) /\ PlanScopes \subseteq SUBSET Tasks
  /\ \A mb \in Loaded :
       /\ mb \in [Plans -> SUBSET Tasks]
       /\ \A p, q \in Plans : p # q => mb[p] \cap mb[q] = {}
  /\ MaxPriority \in Nat /\ MaxRevision \in Nat \ {0}
  /\ MaxRequests \in Nat /\ UserSteps \in 0 .. MaxRequests

VARIABLES
  plan,           \* feature_plans rows
  deps,           \* feature_plan_dependencies: plan -> its predecessors
  members,        \* feature_plan_tasks: plan -> its Tasks
  integration,    \* feature_plan_integrations: plan -> status
  feature,        \* features.status of the Feature of each plan
  requests        \* requests of the user so far

queueVars == <<plan, deps, members, integration, feature>>

PlanStatuses == {"none", "queued", "admitted", "active", "waiting_review",
                 "waiting_merge", "blocked", "completed", "cancelled"}
Final == {"completed", "cancelled"}
Writing == {"admitted", "active", "waiting_review", "waiting_merge"}
Reasons == {"none", "predecessor", "other"}

NewPlan == [status |-> "queued", paused |-> FALSE, priority |-> 0,
            reason |-> "none", revision |-> 1]
NoPlan == [NewPlan EXCEPT !.status = "none"]

Created(pl) == {p \in Plans : pl[p].status # "none"}
Writers(pl) == {p \in Plans : pl[p].status \in Writing}

-----------------------------------------------------------------------------
\* db.ts: the status machine of a plan

ValidTransitions ==
  [none           |-> {},
   queued         |-> {"admitted", "blocked", "cancelled"},
   admitted       |-> {"active", "blocked", "cancelled"},
   active         |-> {"waiting_review", "blocked", "cancelled"},
   waiting_review |-> {"waiting_merge", "blocked", "cancelled"},
   waiting_merge  |-> {"completed", "blocked", "cancelled"},
   blocked        |-> {"queued", "cancelled"},
   completed      |-> {},
   cancelled      |-> {}]

\* The row updateFeaturePlanQueueStatusStatement writes.
WithStatus(pl, p, to, why) ==
  [pl EXCEPT ![p].status = to,
             ![p].reason = CASE to = "blocked" -> why
                             [] to = "queued" -> "none"
                             [] OTHER -> @]

\* reconcileFeaturePlanStatus: reading the details of a plan whose Feature is
\* completed completes the plan.
Reconciled(pl, p) ==
  IF pl[p].status \notin Final /\ feature[p] = "completed"
  THEN WithStatus(pl, p, "completed", "none") ELSE pl

MayTransit(pl, p, to) == to \in ValidTransitions[pl[p].status]

\* updateFeaturePlanQueueStatus
StatusUpdated(pl, p, to, why) ==
  IF pl[p].status = to THEN Reconciled(pl, p)
  ELSE Reconciled(WithStatus(pl, p, to, why), p)

ReconciledAll(pl, ps) ==
  [p \in Plans |-> IF p \in ps THEN Reconciled(pl, p)[p] ELSE pl[p]]

EligibleBesideWriters(pl, dp, p) ==
  pl[p].status = "queued" /\ ~pl[p].paused /\ \A d \in dp[p] : pl[d].status = "completed"
\* evaluateFeaturePlanEligibility, on tables it has reconciled.
Eligible(pl, dp, p) ==
  /\ pl[p].status = "queued"
  /\ ~pl[p].paused
  /\ \A d \in dp[p] : pl[d].status = "completed"
  /\ Writers(pl) \subseteq {p}

\* checkDependencyCycle: adding "p depends on d" closes a cycle when d already
\* reaches p.
Reaches(dp, d) ==
  LET within[n \in Nat] ==
        IF n = 0 THEN {d}
        ELSE within[n - 1] \cup UNION {dp[q] : q \in within[n - 1]}
  IN within[Cardinality(Plans)]

ClosesDirectCycle(dp, p, d) == p \in dp[d]
ClosesCycle(dp, p, d) == p \in Reaches(dp, d)

\* validateFeaturePlanTaskAvailability
Available(pl, mb, p, scope) ==
  \A q \in Plans \ {p} :
    pl[q].status \notin Final \cup {"none"} => mb[q] \cap scope = {}

-----------------------------------------------------------------------------
\* task-scheduler.ts: revalidateQueuedFeaturePlans

\* listFeaturePlanQueue: unpaused first, then priority, then age.
Before(pl, p, q) ==
  \/ ~pl[p].paused /\ pl[q].paused
  \/ pl[p].paused = pl[q].paused /\ pl[p].priority > pl[q].priority
  \/ pl[p].paused = pl[q].paused /\ pl[p].priority = pl[q].priority /\ p < q

PlanQueue(pl) == {p \in Created(pl) : pl[p].status \notin Final}
NthOfQueue(pl, n) ==
  CHOOSE p \in PlanQueue(pl) : Cardinality({q \in PlanQueue(pl) : Before(pl, q, p)}) = n - 1

\* One turn of the loop: a failed predecessor blocks what has not started, a
\* recovered one queues it again, and whatever is eligible is admitted.
Revalidated(pl, dp, p) ==
  LET failing == \E d \in dp[p] : pl[d].status \in {"cancelled", "blocked"}
      requeued == IF pl[p].status = "blocked" /\ pl[p].reason = "predecessor"
                  THEN StatusUpdated(pl, p, "queued", "none") ELSE pl
  IN CASE failing /\ pl[p].status \in {"queued", "admitted"} ->
            StatusUpdated(pl, p, "blocked", "predecessor")
       [] failing /\ pl[p].status \notin {"queued", "admitted"} -> pl
       [] ~failing /\ Eligible(requeued, dp, p) ->
            StatusUpdated(requeued, p, "admitted", "none")
       [] OTHER -> requeued

RevalidatedQueue(pl, dp) ==
  LET live == ReconciledAll(pl, Created(pl))
      after[n \in Nat] == IF n = 0 THEN live
                          ELSE Revalidated(after[n - 1], dp, NthOfQueue(live, n))
  IN after[Cardinality(PlanQueue(live))]

-----------------------------------------------------------------------------
\* What the user does through chat, Telegram and the dashboard

Request == requests < MaxRequests /\ requests' = requests + 1

CreateFeaturePlan(p, scope, predecessors) ==
  /\ Request
  /\ plan[p].status = "none" /\ \A q \in Plans : q < p => plan[q].status # "none"
  /\ predecessors \subseteq Created(plan)
  /\ ValidTaskGraph(scope, TaskDeps)
  /\ Available(plan, members, p, scope)
  /\ plan' = [plan EXCEPT ![p] = NewPlan]
  /\ deps' = [deps EXCEPT ![p] = predecessors]
  /\ members' = [members EXCEPT ![p] = scope]
  /\ UNCHANGED <<integration, feature>>

ReplanFeaturePlan(p, scope) ==
  /\ Request
  /\ plan[p].status \notin Final \cup {"none"}
  /\ plan[p].revision < MaxRevision
  /\ integration[p] = "none"
  /\ ValidTaskGraph(scope, TaskDeps)
  /\ Available(plan, members, p, scope)
  /\ plan' = [plan EXCEPT ![p].revision = @ + 1]
  /\ members' = [members EXCEPT ![p] = scope]
  /\ UNCHANGED <<deps, integration, feature>>

PauseOrResume(p) ==
  /\ Request
  /\ plan[p].status # "none"
  /\ ~plan[p].paused => plan[p].status \notin Final
  /\ plan' = [plan EXCEPT ![p].paused = ~@]
  /\ UNCHANGED <<deps, members, integration, feature>>

UpdateFeaturePlanPriority(p, n) ==
  /\ Request
  /\ plan[p].status # "none" /\ plan[p].priority # n
  /\ plan' = [plan EXCEPT ![p].priority = n]
  /\ UNCHANGED <<deps, members, integration, feature>>

AddFeaturePlanDependency(p, d) ==
  /\ Request
  /\ p # d /\ {p, d} \subseteq Created(plan) /\ d \notin deps[p]
  /\ ~ClosesCycle(deps, p, d)
  /\ deps' = [deps EXCEPT ![p] = @ \cup {d}]
  /\ UNCHANGED <<plan, members, integration, feature>>

RemoveFeaturePlanDependency(p, d) ==
  /\ Request
  /\ d \in deps[p]
  /\ deps' = [deps EXCEPT ![p] = @ \ {d}]
  /\ UNCHANGED <<plan, members, integration, feature>>

\* POST /api/feature-plans/:id/status: any legal transition, no eligibility.
SetQueueStatus(p, to) ==
  /\ Request
  /\ MayTransit(plan, p, to)
  /\ plan' = StatusUpdated(plan, p, to, "other")
  /\ UNCHANGED <<deps, members, integration, feature>>

AdmitFeaturePlan(p) ==
  /\ Request
  /\ LET live == ReconciledAll(plan, Created(plan))
     IN Eligible(live, deps, p) /\ plan' = StatusUpdated(live, p, "admitted", "none")
  /\ UNCHANGED <<deps, members, integration, feature>>

RetryFeaturePlan(p) ==
  /\ Request
  /\ plan[p].status = "blocked"
  /\ plan' = RevalidatedQueue(StatusUpdated(plan, p, "queued", "none"), deps)
  /\ UNCHANGED <<deps, members, integration, feature>>

CancelFeaturePlan(p) ==
  /\ Request
  /\ plan[p].status \notin Final \cup {"none"}
  /\ integration[p] = "none"
  /\ plan' = RevalidatedQueue([plan EXCEPT ![p].status = "cancelled"], deps)
  /\ UNCHANGED <<deps, members, integration, feature>>

\* POST /api/feature-plans/revalidate, and the start of the Feature coordinator.
RevalidateFeaturePlanQueue ==
  /\ Request
  /\ plan' = RevalidatedQueue(plan, deps)
  /\ UNCHANGED <<deps, members, integration, feature>>

QueueCommand(p) ==
  \/ \E scope \in PlanScopes, ps \in SUBSET Plans : CreateFeaturePlan(p, scope, ps)
  \/ \E scope \in PlanScopes : ReplanFeaturePlan(p, scope)
  \/ PauseOrResume(p)
  \/ \E n \in 0..MaxPriority : UpdateFeaturePlanPriority(p, n)
  \/ \E d \in Plans : AddFeaturePlanDependency(p, d)
  \/ \E d \in Plans : RemoveFeaturePlanDependency(p, d)
  \/ \E to \in PlanStatuses : SetQueueStatus(p, to)
  \/ AdmitFeaturePlan(p)
  \/ RetryFeaturePlan(p)
  \/ CancelFeaturePlan(p)

\* What other components start from: plans created and queued earlier.
PlansLoaded ==
  /\ \E mb \in Loaded :
       /\ members = mb
       /\ plan = [p \in Plans |-> IF mb[p] = {} THEN NoPlan ELSE NewPlan]
  /\ integration = [p \in Plans |-> "none"]
  /\ feature = [p \in Plans |-> "none"]
  /\ requests = MaxRequests - UserSteps

QueueInit ==
  /\ plan = [p \in Plans |-> NoPlan]
  /\ deps = [p \in Plans |-> {}]
  /\ members = [p \in Plans |-> {}]
  /\ integration = [p \in Plans |-> "none"]
  /\ feature = [p \in Plans |-> "none"]
  /\ requests = 0

QueueTypeOK ==
  /\ plan \in [Plans -> [status : PlanStatuses, paused : BOOLEAN,
                         priority : 0..MaxPriority, reason : Reasons,
                         revision : 1..MaxRevision]]
  /\ deps \in [Plans -> SUBSET Plans]
  /\ members \in [Plans -> SUBSET Tasks]
  /\ requests \in 0..MaxRequests

QueueNext == (\E p \in Plans : QueueCommand(p)) \/ RevalidateFeaturePlanQueue
QueueSpec == QueueInit /\ [][QueueNext]_<<queueVars, requests>>

\* A Task is never a member of two open plans, whatever is created, replanned,
\* requeued and cancelled: the readiness check and the deliveries of a plan
\* look a Task's plan up by the Task (validateFeaturePlanTaskAvailability).
TaskInOneOpenPlan ==
  \A p, q \in Plans : p # q /\ {plan[p].status, plan[q].status} \cap (Final \cup {"none"}) = {}
                      => members[p] \cap members[q] = {}

\* The order between plans stays a partial order through every sequence of
\* additions and removals, so no plan waits for itself (checkDependencyCycle).
PlansStayAcyclic == \A p \in Plans : \A d \in deps[p] : p \notin Reaches(deps, d)

\* The plans stay a partition and an order, which the scheduling relies on.
PlansStayInOrder == TaskInOneOpenPlan /\ PlansStayAcyclic
=============================================================================
