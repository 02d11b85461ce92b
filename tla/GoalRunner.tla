----------------------------- MODULE GoalRunner -----------------------------
(***************************************************************************)
(* src/goals/runner.ts: one Goal run, from its first step to its delivery, *)
(* with the coordinator's ways of waking it up again.  The runner walks    *)
(* the phases of the TaskDNA, validates, asks providers to work, and lets  *)
(* nothing be delivered without the evidence the DNA requires.             *)
(*                                                                         *)
(* `run` and `history` are the goal_runs row and what the code derives     *)
(* from goal_steps and events: they survive a restart.  `local` holds the  *)
(* variables of one call of runTaskGoal.  A synchronous stretch is cut     *)
(* where it writes to the database (at = "loop", "delivering"): only a     *)
(* crash comes between the two halves.                                     *)
(*                                                                         *)
(* Cancellation and the Task's own status are GoalCoordinator's subject.   *)
(* What a circuit breaker or the watchdog decides from texts and counters  *)
(* is a choice between the decisions it may take there.                    *)
(***************************************************************************)
EXTENDS Naturals, FiniteSets

CONSTANTS
  Providers,          \* provider ids
  NoProvider,
  DNAs,               \* the TaskDNA records a run may have
  Buffer,             \* steps granted beyond the sum of the phase budgets
  Ceiling,            \* MAESTRO_GOAL_MAX_STEPS
  InitialMaxSteps,    \* step budgets `start` may create the run with
  MaxDisturbances     \* bound on resumes, retries, reviews, restarts,
                      \* self-recoveries and changes of the reviewers, together

Phases == {"planning", "implementing", "testing", "reviewing"}
Place == [planning |-> 1, implementing |-> 2, testing |-> 3, reviewing |-> 4]
Writing == {"implementing", "testing"}

\* TaskDNA: budget[p] is read for the phases of the DNA only.
DNARecords == [phases : SUBSET Phases, budget : [Phases -> Nat], trivial : BOOLEAN,
               requireReview : BOOLEAN, requireTests : BOOLEAN,
               allowIteration : BOOLEAN]

ASSUME RunnerAssumptions ==
  /\ NoProvider \notin Providers
  /\ DNAs \subseteq DNARecords
  /\ \A d \in DNAs : "implementing" \in d.phases
  /\ Buffer \in Nat /\ Ceiling \in Nat /\ InitialMaxSteps \subseteq Nat
  /\ MaxDisturbances \in Nat

VARIABLES
  dna,        \* the Task's DNA
  run,        \* goal_runs: status, phase, steps, maxSteps, validation, category, commit
  history,    \* goal_steps and events, see Histories
  local,      \* the call of runTaskGoal, see Locals
  reviewers,  \* connected providers with the reviewing capability
  evidence,   \* what is true of the worktree, see Evidence
  disturbances

vars == <<dna, run, history, local, reviewers, evidence, disturbances>>

RunRows ==
  [status : {"running", "waiting_provider", "completed", "blocked", "failed"},
   phase : Phases, steps : Nat, maxSteps : Nat,
   validation : {"none", "passed", "failed"},
   category : {"budget_exhausted", "other"},
   commit : BOOLEAN]

\* used: steps of each phase in the budget window.  attempted: a testing step
\* after the start of the window and the latest implementing step.
\* implementers: providers of completed implementing steps.  latestReview:
\* provider of the latest completed reviewing step.  recovered, pending:
\* self-recoveries granted, and not started yet.
Histories ==
  [used : [Phases -> Nat], attempted : BOOLEAN, implementers : SUBSET Providers,
   latestReview : Providers \cup {NoProvider},
   recovered : SUBSET (Phases \X Providers), pending : SUBSET (Phases \X Providers)]

\* max is run.maxSteps of the call, currentMax is currentRun.maxSteps; known:
\* the reviewers `excluded` was computed from.
Locals ==
  [at : {"settled", "loop", "validating", "acquiring", "executing",
         "failedOver", "rerouting", "delivering"},
   phase : Phases, steps : Nat, max : Nat, currentMax : Nat,
   excluded : SUBSET Providers, provider : Providers \cup {NoProvider},
   recovering : BOOLEAN, known : SUBSET Providers]

\* tested: the last validation passed, and no step that may write began since.
\* reviewed: the latest completed review saw the current worktree.
Evidence == [tested : BOOLEAN, reviewed : BOOLEAN]

Asleep == [at |-> "settled", phase |-> "planning", steps |-> 0, max |-> 0,
           currentMax |-> 0, excluded |-> {}, provider |-> NoProvider,
           recovering |-> FALSE, known |-> {}]

Larger(a, b) == IF a >= b THEN a ELSE b
Smaller(a, b) == IF a <= b THEN a ELSE b

-----------------------------------------------------------------------------
(* Phases, budgets, excluded providers                                     *)

After(p) == {q \in dna.phases : p \in dna.phases /\ Place[p] < Place[q]}

\* nextPhaseAfter
IsNext(p, q) == q \in After(p) /\ \A other \in After(p) : Place[q] <= Place[other]

IsFirst(p) == p \in dna.phases /\ \A other \in dna.phases : Place[p] <= Place[other]

UsedUpLate(p) == p \in dna.phases /\ history.used[p] > dna.budget[p]
UsedUp(p) == p \in dna.phases /\ history.used[p] >= dna.budget[p]

DnaMaxSteps ==
  LET cost(p) == IF p \in dna.phases THEN dna.budget[p] ELSE 0
  IN cost("planning") + cost("implementing") + cost("testing") + cost("reviewing") + Buffer

\* elevateMaxSteps: half as much again, up to the ceiling.
Elevated(n) == Smaller(Ceiling, Larger(n + 1, n + (n + 1) \div 2))

\* excludedProvidersForPhase: implementers do not review when others can.
ExcludedFor(phase, base, implementers) ==
  IF phase = "reviewing" /\ dna.requireReview /\ ~(reviewers \subseteq implementers)
  THEN base \cup implementers
  ELSE base

\* Only a review looks at it.
KnownIn(phase) == IF phase = "reviewing" THEN reviewers ELSE {}

\* Go on with another phase, at the head of the loop.
Enter(l, phase, implementers) ==
  [l EXCEPT !.at = "loop", !.phase = phase, !.known = KnownIn(phase),
            !.excluded = ExcludedFor(phase, {}, implementers)]

Again(l, excluded) == [l EXCEPT !.at = "loop", !.excluded = excluded]

-----------------------------------------------------------------------------
(* How a call ends                                                         *)

\* pauseRun
Pause(row, l, maxSteps) ==
  /\ run' = [row EXCEPT !.status = "waiting_provider", !.phase = l.phase,
                        !.steps = l.steps, !.maxSteps = maxSteps]
  /\ local' = Asleep

\* finishRun
Finish(row, l, status, category) ==
  /\ run' = [row EXCEPT !.status = status, !.phase = l.phase, !.steps = l.steps,
                        !.category = category]
  /\ local' = Asleep

\* The end of the loop, and finishCircuitBreak of an exhausted phase: block a
\* loop the watchdog sees (category "loop"), elevate the budget, or give up at
\* the ceiling.
BudgetStop(row, l) ==
  LET raised == Elevated(l.currentMax) IN
  \/ Finish(row, l, "blocked", "other")
  \/ raised > l.currentMax /\ Pause(row, l, raised)
  \/ raised <= l.currentMax /\ Finish(row, l, "blocked", "budget_exhausted")

\* finishCircuitBreak, any other reason.
HardStop(row, l) == Finish(row, l, "blocked", "other")

-----------------------------------------------------------------------------
(* The loop head                                                           *)

Quiet == UNCHANGED <<dna, reviewers>>
Rest == Quiet /\ UNCHANGED disturbances
Disturbs == disturbances < MaxDisturbances /\ disturbances' = disturbances + 1

StepsLeft == local.steps < local.max

StepsExhausted ==
  /\ local.at = "loop"
  /\ ~StepsLeft
  /\ BudgetStop(run, local)
  /\ UNCHANGED <<history, evidence>> /\ Rest

\* The Goal's deadline, or the safety ceiling of checkPhaseBudget.
LoopStopped ==
  /\ local.at = "loop"
  /\ StepsLeft
  /\ HardStop(run, local) \/ (~UsedUp(local.phase) /\ BudgetStop(run, local))
  /\ UNCHANGED <<history, evidence>> /\ Rest

\* A phase of the DNA used up its budget: the next one, or the delivery.
PhaseUsedUp ==
  /\ local.at = "loop"
  /\ StepsLeft
  /\ UsedUp(local.phase)
  /\ \/ /\ After(local.phase) = {}
        /\ local' = [local EXCEPT !.at = "delivering"]
     \/ \E next \in Phases :
          /\ IsNext(local.phase, next)
          /\ local' = Enter(local, next, history.implementers)
  /\ UNCHANGED <<run, history, evidence>> /\ Rest

\* The iteration is recorded; the testing phase begins with a validation step.
StartIteration ==
  LET testing == local.phase = "testing" IN
  /\ local.at = "loop"
  /\ StepsLeft
  /\ ~UsedUp(local.phase)
  /\ run' = [run EXCEPT !.status = "running", !.phase = local.phase, !.steps = local.steps]
  /\ history' = IF testing
                THEN [history EXCEPT !.used["testing"] = @ + 1, !.attempted = TRUE]
                ELSE history
  /\ local' = [local EXCEPT !.at = IF testing THEN "validating" ELSE "acquiring",
                            !.currentMax = run.maxSteps]
  /\ UNCHANGED evidence /\ Rest

-----------------------------------------------------------------------------
(* Deterministic validation                                                *)

ValidationPassed ==
  /\ local.at = "validating"
  /\ run' = [run EXCEPT !.validation = "passed"]
  /\ local' = Enter([local EXCEPT !.steps = @ + 1], "reviewing", history.implementers)
  /\ evidence' = [evidence EXCEPT !.tested = TRUE]
  /\ UNCHANGED history /\ Rest

\* A provider is asked to repair in the same iteration.
ValidationFailed ==
  /\ local.at = "validating"
  /\ run' = [run EXCEPT !.validation = "failed"]
  /\ local' = [local EXCEPT !.steps = @ + 1, !.at = "acquiring"]
  /\ UNCHANGED <<history, evidence>> /\ Rest

\* The runner threw: infrastructure, not a verdict.
ValidationThrew ==
  /\ local.at = "validating"
  /\ Pause(run, local, local.currentMax)
  /\ UNCHANGED <<history, evidence>> /\ Rest

-----------------------------------------------------------------------------
(* A provider's step                                                       *)

\* registry.acquire found a ready provider: the step row and its event.
AcquireLease(p) ==
  LET attempt == <<local.phase, p>>
      writes == local.phase \in Writing
  IN
  /\ local.at = "acquiring"
  /\ p \notin local.excluded
  /\ local.phase = "reviewing" => p \in reviewers
  /\ run' = [run EXCEPT !.status = "running", !.phase = local.phase, !.steps = local.steps]
  /\ history' = [history EXCEPT
       !.used[local.phase] = @ + 1,
       !.attempted = IF local.phase = "testing" THEN TRUE
                     ELSE IF local.phase = "implementing" THEN FALSE ELSE @,
       !.pending = @ \ {attempt}]
  /\ local' = [local EXCEPT !.at = "executing", !.provider = p,
                            !.recovering = attempt \in history.pending]
  /\ evidence' = IF writes THEN [tested |-> FALSE, reviewed |-> FALSE] ELSE evidence
  /\ Rest

\* Nobody is ready: nextAvailability says when to come back.
NobodyReady ==
  /\ local.at = "acquiring"
  /\ Pause(run, local, local.currentMax)
  /\ UNCHANGED <<history, evidence>> /\ Rest

\* The locals after a step that ended: self-recovery attempts are free.
Counted(counts) ==
  [local EXCEPT !.steps = IF counts /\ ~local.recovering THEN @ + 1 ELSE @,
                !.provider = NoProvider, !.recovering = FALSE]

\* phase_budget_exhausted of GoalCircuitBreaker.observe; a review never is.
BudgetDecision == ~local.recovering /\ local.phase # "reviewing"

\* The providers of completed implementing steps, this one included.
ImplementersUnfiltered ==
  IF local.phase # "implementing" THEN history.implementers
  ELSE history.implementers \cup {local.provider, NoProvider}
ImplementersNow ==
  IF local.phase # "implementing" THEN history.implementers
  ELSE history.implementers \cup {local.provider}

StepCompleted ==
  LET l == Counted(TRUE) IN
  /\ local.at = "executing"
  /\ history' = [history EXCEPT
       !.implementers = ImplementersNow,
       !.latestReview = IF local.phase = "reviewing" THEN local.provider ELSE @]
  /\ evidence' = [evidence EXCEPT !.reviewed = @ \/ local.phase = "reviewing"]
  /\ \/ Pause(run, l, l.currentMax)     \* output_limit
     \/ HardStop(run, l)
     \/ BudgetDecision /\ BudgetStop(run, l)
     \/ /\ UNCHANGED run
        /\ \/ /\ local.phase = "testing"               \* repaired: validate again
              /\ local' = Again(l, {})
           \/ /\ local.phase # "testing"
              /\ After(local.phase) = {}
              /\ local' = [l EXCEPT !.at = "delivering"]
           \/ /\ local.phase # "testing"
              /\ \E next \in Phases :
                   IsNext(local.phase, next) /\ local' = Enter(l, next, ImplementersNow)
  /\ Rest

\* no_progress: the completed step is rewritten as failed.
StepIdle ==
  /\ local.at = "executing"
  /\ local.phase \in Writing /\ ~local.recovering
  /\ local' = [Counted(TRUE) EXCEPT !.excluded = @ \cup {local.provider},
                                    !.at = "rerouting"]
  /\ UNCHANGED <<run, history, evidence>> /\ Rest

\* One bounded chance for the provider to recover its own failure.
SelfRecovery(l) ==
  LET attempt == <<local.phase, local.provider>> IN
  /\ attempt \notin history.recovered
  /\ Disturbs
  /\ history' = [history EXCEPT !.recovered = @ \cup {attempt}, !.pending = @ \cup {attempt}]
  /\ local' = Again(l, local.excluded \ {local.provider})
  /\ UNCHANGED run

StepFailed(retryable) ==
  LET l == Counted(~retryable) IN
  /\ local.at = "executing"
  /\ \/ SelfRecovery(l)
     \/ /\ \/ Pause(run, l, l.currentMax)    \* output_limit
           \/ HardStop(run, l)               \* prompt_too_large, deadline
           \/ /\ local' = [l EXCEPT !.excluded = @ \cup {local.provider}, !.at = "failedOver"]
              /\ UNCHANGED run
        /\ UNCHANGED <<history, disturbances>>
  /\ UNCHANGED evidence /\ Quiet

StepBlocked ==
  LET l == Counted(TRUE) IN
  /\ local.at = "executing"
  /\ \/ SelfRecovery(l)
     \/ /\ \/ Pause(run, l, l.currentMax)    \* output_limit
           \/ HardStop(run, l)               \* a hard stop, or nothing to recover
           \/ BudgetDecision /\ BudgetStop(run, l)
           \/ /\ local' = Again(l, local.excluded \ {local.provider})   \* worktree repaired
              /\ UNCHANGED run
           \/ /\ local' = [l EXCEPT !.excluded = @ \cup {local.provider}, !.at = "rerouting"]
              /\ UNCHANGED run
        /\ UNCHANGED <<history, disturbances>>
  /\ UNCHANGED evidence /\ Quiet

\* The row after changes were requested: a review voids the validation.
RowRejectedKept == run
RowRejected == IF local.phase = "reviewing" THEN [run EXCEPT !.validation = "failed"] ELSE run

\* A reviewer's verdict, or a provider's mistake in another phase.
ChangesRequested ==
  LET l == Counted(TRUE)
      reviewing == local.phase = "reviewing"
  IN
  /\ local.at = "executing"
  /\ \/ Pause(RowRejected, l, l.currentMax)     \* output_limit
     \/ HardStop(RowRejected, l)
     \/ BudgetDecision /\ BudgetStop(RowRejected, l)
     \/ ~reviewing /\ Finish(RowRejected, l, "failed", "other")
     \/ reviewing /\ ~dna.allowIteration /\ Finish(RowRejected, l, "blocked", "other")
     \/ /\ reviewing /\ dna.allowIteration
        /\ run' = RowRejected
        /\ local' = Again([l EXCEPT !.phase = "implementing", !.known = {}], {})
  /\ UNCHANGED <<history, evidence>> /\ Rest

\* registry.route after a failed step: fall back, wait, or give up.
FailedOver ==
  /\ local.at = "failedOver"
  /\ \/ local' = Again(local, local.excluded) /\ UNCHANGED run
     \/ Pause(run, local, local.currentMax)
     \/ HardStop(run, local)
     \/ BudgetStop(run, local)
     \/ Finish(run, local, "failed", "other")
  /\ UNCHANGED <<history, evidence>> /\ Rest

\* registry.route after an idle or a blocked step: fall back or wait.
Rerouted ==
  /\ local.at = "rerouting"
  /\ \/ local' = Again(local, local.excluded) /\ UNCHANGED run
     \/ Pause(run, local, local.currentMax)
  /\ UNCHANGED <<history, evidence>> /\ Rest

-----------------------------------------------------------------------------
(* deliverGoal: every way of being done ends here                          *)

\* F01: the current implementation passed validation, if the DNA asks for it.
TestsNeverMissing == FALSE
TestsMissing == dna.requireTests /\ run.validation # "passed"

\* independentReviewGate
ReviewMissing ==
  /\ dna.requireReview
  /\ \/ history.latestReview = NoProvider
     \/ /\ ~(reviewers \subseteq history.implementers)
        /\ history.latestReview \in history.implementers

Delivering == local.at = "delivering"
AtRest == UNCHANGED <<history, evidence>> /\ Rest

\* The idempotency guard: the run was delivered before.
DeliverAgain ==
  /\ Delivering /\ run.commit
  /\ local' = Asleep
  /\ UNCHANGED run /\ AtRest

DeliveryRefused ==
  /\ Delivering /\ ~run.commit
  /\ \/ TestsMissing /\ Finish(run, local, "blocked",
          IF history.attempted THEN "budget_exhausted" ELSE "other")
     \/ ~TestsMissing /\ ReviewMissing /\ Finish(run, local, "blocked", "other")
  /\ AtRest

\* git or gh failed.
DeliveryFailed ==
  /\ Delivering /\ ~run.commit /\ ~TestsMissing /\ ~ReviewMissing
  /\ Finish(run, local, "blocked", "other")
  /\ AtRest

\* The draft pull request exists; a trivial Task without changes needs none.
Delivered(commit) ==
  /\ Delivering /\ ~run.commit /\ ~TestsMissing /\ ~ReviewMissing
  /\ commit \/ dna.trivial
  /\ run' = [run EXCEPT !.status = "completed", !.phase = local.phase,
                        !.steps = local.steps, !.commit = commit]
  /\ local' = Asleep
  /\ AtRest

-----------------------------------------------------------------------------
(* The coordinator wakes the run                                           *)

\* The locals at the start of runTaskGoal for row r.
Call(r, phase, failed) ==
  LET max == Larger(r.maxSteps, DnaMaxSteps) IN
  [Asleep EXCEPT !.at = "loop", !.phase = phase, !.steps = r.steps,
     !.max = max, !.currentMax = max, !.known = KnownIn(phase),
     !.excluded = ExcludedFor(phase, failed, history.implementers)]

\* initialExcludedProviders reads which providers failed; here it is any set.
Execute(r) ==
  /\ run' = r
  /\ \E phase \in Phases, failed \in SUBSET Providers :
       /\ IF r.status = "waiting_provider" \/ r.steps > 0
          THEN phase = r.phase ELSE IsFirst(phase)
       /\ r.status # "waiting_provider" => failed = {}
       /\ local' = Call(r, phase, failed)

Wakes ==
  /\ local.at = "settled"
  /\ Disturbs
  /\ UNCHANGED evidence /\ Quiet

\* A continuation the user asks for has a fresh budget window.
FreshWindow ==
  history' = [history EXCEPT !.used = [p \in Phases |-> 0], !.attempted = FALSE]

\* A retry timer, or a settled Work Graph.
Resume ==
  /\ Wakes
  /\ run.status = "waiting_provider"
  /\ Execute(run)
  /\ UNCHANGED history

ResumeExistingRun ==
  /\ Wakes
  /\ run.status \in {"blocked", "failed", "waiting_provider"}
  /\ FreshWindow
  /\ Execute([run EXCEPT !.status = "waiting_provider"])

RetryRun ==
  /\ Wakes
  /\ run.status = "blocked" /\ run.category = "budget_exhausted"
  /\ FreshWindow
  /\ Execute([run EXCEPT !.status = "waiting_provider",
                         !.maxSteps = Larger(@, Elevated(@))])

\* reopenGoalRun: four more steps at least, validation void, commit kept.
RequestChanges ==
  /\ Wakes
  /\ run.status = "completed" /\ run.commit
  /\ FreshWindow
  /\ Execute([run EXCEPT !.status = "running", !.phase = "implementing",
                         !.maxSteps = Larger(@, run.steps + 4),
                         !.validation = "failed"])

\* The process dies and recoverInterruptedRun finds the run at the next boot.
Restart(worktreeExists) ==
  /\ local.at # "settled" \/ run.status = "running"
  /\ Disturbs
  /\ run' = IF run.status # "running" THEN run
            ELSE [run EXCEPT !.status = IF worktreeExists THEN "waiting_provider"
                                        ELSE "blocked"]
  /\ local' = Asleep
  /\ UNCHANGED <<history, evidence>> /\ Quiet

\* The user connects or disconnects reviewers while the runner awaits something.
ReviewersChange(now) ==
  /\ local.at \notin {"loop", "delivering"}
  /\ now # reviewers
  /\ Disturbs
  /\ reviewers' = now
  /\ UNCHANGED <<dna, run, history, local, evidence>>

-----------------------------------------------------------------------------
\* GoalCoordinator.start: createGoalRun, then runTaskGoal at the first phase.
Init ==
  /\ dna \in DNAs
  /\ reviewers \in SUBSET Providers
  /\ \E max \in InitialMaxSteps :
       run = [status |-> "running", phase |-> "planning", steps |-> 0,
              maxSteps |-> max, validation |-> "none", category |-> "other",
              commit |-> FALSE]
  /\ history = [used |-> [p \in Phases |-> 0], attempted |-> FALSE,
                implementers |-> {}, latestReview |-> NoProvider,
                recovered |-> {}, pending |-> {}]
  /\ \E phase \in Phases : IsFirst(phase) /\ local = Call(run, phase, {})
  /\ evidence = [tested |-> FALSE, reviewed |-> FALSE]
  /\ disturbances = 0

LoopHead == StepsExhausted \/ LoopStopped \/ PhaseUsedUp \/ StartIteration
Validation == ValidationPassed \/ ValidationFailed \/ ValidationThrew
ProviderStep ==
  \/ \E p \in Providers : AcquireLease(p)
  \/ NobodyReady
  \/ StepCompleted
  \/ StepIdle
  \/ \E retryable \in BOOLEAN : StepFailed(retryable)
  \/ StepBlocked
  \/ ChangesRequested
  \/ FailedOver
  \/ Rerouted
Delivery ==
  \/ DeliverAgain
  \/ DeliveryRefused
  \/ DeliveryFailed
  \/ \E commit \in BOOLEAN : Delivered(commit)

\* The runner's own steps.
RunTaskGoal == LoopHead \/ Validation \/ ProviderStep \/ Delivery

Next ==
  \/ RunTaskGoal
  \/ Resume
  \/ ResumeExistingRun
  \/ RetryRun
  \/ RequestChanges
  \/ \E exists \in BOOLEAN : Restart(exists)
  \/ \E now \in SUBSET Providers : ReviewersChange(now)

Spec == Init /\ [][Next]_vars

\* Every await of the runner is answered or times out, and nothing else blocks.
FairSpec == Spec /\ WF_vars(RunTaskGoal)

-----------------------------------------------------------------------------
(* Properties                                                              *)

\* Every variable holds a value of its kind.
TypeOK ==
  /\ dna \in DNAs
  /\ run \in RunRows
  /\ history \in Histories
  /\ local \in Locals
  /\ local.at = "executing" => local.provider \in Providers
  /\ reviewers \in SUBSET Providers
  /\ evidence \in Evidence
  /\ disturbances \in 0..MaxDisturbances

\* Whatever route leads to a delivery (approval, a used-up phase, a shorter
\* DNA, a resume in the middle), code that must be tested was, as it is.
DeliveredIsTested ==
  [][run.commit # run'.commit /\ dna.requireTests => evidence.tested]_vars

\* The validation evidence the runner keeps across resumes, retries, crashes,
\* changes requested by reviewing agents and by people is about the worktree as
\* it is now: no step that may have written came after it.
ValidationIsCurrent == run.validation = "passed" => evidence.tested

\* A provider reviews its own implementation only if nobody else could when
\* the review was routed, whatever fell back, recovered or resumed meanwhile.
IndependentReview ==
  local.at = "executing" /\ local.phase = "reviewing" /\ dna.requireReview
    /\ local.provider \in history.implementers
  => local.known \subseteq history.implementers

\* What the gates of a delivery go by, the validation and the review.
AcceptanceIsCurrent == ValidationIsCurrent /\ IndependentReview

\* Within one budget window a phase takes no more steps than its DNA grants it,
\* but one: a failed validation and the repair it asks for share an iteration.
PhaseBudgetRespected ==
  \A p \in dna.phases :
    history.used[p] <= dna.budget[p] + (IF p = "testing" THEN 1 ELSE 0)

\* So does the run with its step budget, over all its calls.
StepBudgetRespected ==
  local.at # "settled" => local.steps <= local.max + 1

\* Both budgets, of which a resume, a retry or a restart opens new windows.
BudgetsRespected == PhaseBudgetRespected /\ StepBudgetRespected

\* What must end, although failures that may be retried and self-recovery
\* attempts do not count as steps: the loop of runTaskGoal.
RunAtWork == local.at # "settled"

\* src/goals/runner.ts:233, "A review is an acceptance gate": what is delivered
\* is what the review saw.
ReviewIsCurrent ==
  [][run.commit # run'.commit /\ dna.requireReview => evidence.reviewed]_vars

\* src/goals/runner.ts:198-200: completion "persists a terminal state exactly
\* once": a call that ended leaves no run behind that nobody executes.
SettledRunIsPersisted == local.at = "settled" => run.status # "running"
=============================================================================
