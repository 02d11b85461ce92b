----------------------------- MODULE WorkIntake -----------------------------
(***************************************************************************)
(* src/commands/application-commands.ts and src/intake: a request becomes  *)
(* a Task, or a Feature Plan around a Task, or a question back.  A request *)
(* is known by the hash of its channel, user, project, objective and       *)
(* criteria (its intake id), so that it may be submitted again.            *)
(*                                                                         *)
(* A submission runs without a pause, but every statement of it commits by *)
(* itself: the program may die, or the plan be refused, between two.       *)
(***************************************************************************)
EXTENDS Naturals, Sequences, FiniteSets

CONSTANTS
  Intakes,          \* requests with different intake ids
  Plannable,        \* those whose objective is long enough for a Feature Plan
  NoIntake,         \* what a Task that was created directly comes from
  MaxIntakeDeaths   \* bound on deaths of the program

ASSUME NoIntakeIsNone == NoIntake \notin Intakes

VARIABLES
  intakeTasks,  \* the Tasks in the order of their ids
  decisions,    \* work_intake_decisions: the latest classification
  submissions,  \* work_intake_submissions
  operations,   \* feature_plan_operations: the Task of the plan created for a key
  submit,       \* the submission under way
  torn,         \* submissions that left a Task and no record (history)
  granted,      \* requests whose answer came with the approval of the workspace (history)
  intakeDeaths

intakeVars == <<intakeTasks, decisions, submissions, operations, submit, torn, granted,
                intakeDeaths>>

Classes == {"direct_task", "feature_plan", "needs_clarification"}
\* What people say beside the objective: a classification of their own, and
\* whether the work is large or needs coordination.
Inputs == [override : Classes \cup {"none"}, large : BOOLEAN]
NoSubmit == [at |-> "none", of |-> NoIntake, class |-> "direct_task", approved |-> FALSE, task |-> 0]
NoSubmission == [task |-> 0, planned |-> FALSE]

-----------------------------------------------------------------------------
\* classifyWorkIntake: the objective is never empty here.
Classify(input) ==
  CASE input.override # "none" -> input.override
    [] input.override = "none" /\ input.large -> "feature_plan"
    [] OTHER -> "direct_task"

ExistsAsPlan(i) == submissions[i].planned

\* A record that names neither a Task nor a plan would not count.
Exists(i) == submissions[i].task # 0

RecordsApproval(task) == intakeTasks' = [intakeTasks EXCEPT ![task].approved = TRUE]
Grants(i, approved) == granted' = IF approved THEN granted \cup {i} ELSE granted

-----------------------------------------------------------------------------
\* submitWorkIntake, statement by statement

MaySubmit == submit.at = "none"

\* The request was answered before: the Task only gets its approval.
SubmitsAgain(i, approved) ==
  /\ MaySubmit /\ Exists(i)
  /\ IF approved THEN RecordsApproval(submissions[i].task) ELSE UNCHANGED intakeTasks
  /\ Grants(i, approved)
  /\ UNCHANGED <<decisions, submissions, operations, submit, torn, intakeDeaths>>

Submits(i, input, approved) ==
  /\ MaySubmit /\ ~Exists(i)
  /\ decisions' = [decisions EXCEPT ![i] = Classify(input)]
  /\ submit' = IF Classify(input) = "needs_clarification" THEN submit
               ELSE [at |-> "decided", of |-> i, class |-> Classify(input),
                     approved |-> approved, task |-> 0]
  /\ UNCHANGED <<intakeTasks, submissions, operations, torn, granted, intakeDeaths>>

\* previewWorkIntake: only the decision, also that of an answered request.
Previews(i, input) ==
  /\ MaySubmit
  /\ decisions' = [decisions EXCEPT ![i] = Classify(input)]
  /\ UNCHANGED <<intakeTasks, submissions, operations, submit, torn, granted, intakeDeaths>>

\* createTask and createFollowUpTask: nobody looks for an earlier one.
CreatesDirectly(approved) ==
  /\ MaySubmit
  /\ submit' = [NoSubmit EXCEPT !.at = "decided", !.approved = approved]
  /\ UNCHANGED <<intakeTasks, decisions, submissions, operations, torn, granted, intakeDeaths>>

TaskRow ==
  /\ submit.at = "decided"
  /\ intakeTasks' = Append(intakeTasks, [of |-> submit.of, approved |-> FALSE])
  /\ submit' = [submit EXCEPT !.at = "tasked", !.task = Len(intakeTasks) + 1]
  /\ UNCHANGED <<decisions, submissions, operations, torn, granted, intakeDeaths>>

\* recordWorkspaceWriteApproval, and the event of the new Task.
ApprovalRow ==
  /\ submit.at = "tasked"
  /\ IF submit.approved THEN RecordsApproval(submit.task) ELSE UNCHANGED intakeTasks
  /\ submit' = IF submit.of = NoIntake THEN NoSubmit
               ELSE [submit EXCEPT !.at = IF submit.class = "feature_plan" THEN "planning" ELSE "planned"]
  /\ UNCHANGED <<decisions, submissions, operations, torn, granted, intakeDeaths>>

\* createFeaturePlan with the intake id as its key, which another Task of the
\* same request may have used: the request is of another operation then.
SameOperation(i, task) == operations[i] \in {0, task}
PlanRow ==
  /\ submit.at = "planning"
  /\ submit.of \in Plannable /\ SameOperation(submit.of, submit.task)
  /\ operations' = [operations EXCEPT ![submit.of] = submit.task]
  /\ submit' = [submit EXCEPT !.at = "planned"]
  /\ UNCHANGED <<intakeTasks, decisions, submissions, torn, granted, intakeDeaths>>

Tears == torn' = IF submit.of = NoIntake THEN torn ELSE [torn EXCEPT ![submit.of] = @ + 1]

PlanRefused ==
  /\ submit.at = "planning"
  /\ submit.of \notin Plannable \/ ~SameOperation(submit.of, submit.task)
  /\ Tears /\ submit' = NoSubmit
  /\ UNCHANGED <<intakeTasks, decisions, submissions, operations, granted, intakeDeaths>>

\* recordWorkIntakeSubmission, and the answer.
SubmissionRow ==
  /\ submit.at = "planned"
  /\ submissions' = [submissions EXCEPT ![submit.of] =
       [task |-> submit.task, planned |-> submit.class = "feature_plan"]]
  /\ Grants(submit.of, submit.approved)
  /\ submit' = NoSubmit
  /\ UNCHANGED <<intakeTasks, decisions, operations, torn, intakeDeaths>>

IntakeDies ==
  /\ submit.at # "none" /\ intakeDeaths < MaxIntakeDeaths /\ intakeDeaths' = intakeDeaths + 1
  /\ IF submit.at = "decided" THEN UNCHANGED torn ELSE Tears
  /\ submit' = NoSubmit
  /\ UNCHANGED <<intakeTasks, decisions, submissions, operations, granted>>

IntakeInit ==
  /\ intakeTasks = <<>>
  /\ decisions = [i \in Intakes |-> "none"]
  /\ submissions = [i \in Intakes |-> NoSubmission]
  /\ operations = [i \in Intakes |-> 0]
  /\ submit = NoSubmit /\ torn = [i \in Intakes |-> 0]
  /\ granted = {} /\ intakeDeaths = 0

\* The rest of a submission.
SubmitGoesOn == TaskRow \/ ApprovalRow \/ PlanRow \/ PlanRefused \/ SubmissionRow

-----------------------------------------------------------------------------
IntakeTypeOK ==
  /\ intakeTasks \in Seq([of : Intakes \cup {NoIntake}, approved : BOOLEAN])
  /\ decisions \in [Intakes -> Classes \cup {"none"}]
  /\ submissions \in [Intakes -> [task : Nat, planned : BOOLEAN]]
  /\ operations \in [Intakes -> Nat]
  /\ submit \in [at : {"none", "decided", "tasked", "planning", "planned"},
                 of : Intakes \cup {NoIntake}, class : Classes, approved : BOOLEAN, task : Nat]
  /\ torn \in [Intakes -> Nat] /\ granted \subseteq Intakes
  /\ intakeDeaths \in 0 .. MaxIntakeDeaths

\* A request that is submitted again and again, by whatever way, gets one Task,
\* and one more only for each submission that was torn; its record names a Task
\* and a plan that belong together, and a granted approval is that Task's.
SubmissionIsSound ==
  \A i \in Intakes :
    LET s == submissions[i] IN
    /\ Cardinality({k \in DOMAIN intakeTasks : intakeTasks[k].of = i}) <= 1 + torn[i]
    /\ Exists(i) => /\ intakeTasks[s.task].of = i
                    /\ s.planned => operations[i] = s.task
                    /\ i \in granted => intakeTasks[s.task].approved
=============================================================================
