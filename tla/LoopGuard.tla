----------------------------- MODULE LoopGuard -----------------------------
(***************************************************************************)
(* src/goals/circuit-breaker.ts and watchdog.ts: what keeps one Goal from  *)
(* going round in circles.  The circuit breaker counts what it observes    *)
(* during a call of runTaskGoal and is rebuilt from goal_steps by the next *)
(* call; the watchdog reads the latest goal_steps when a budget is used    *)
(* up.  GoalRunner takes their decisions as choices; here they are what    *)
(* the counters and the rows say, and the other parts of the runner - who  *)
(* falls back to whom, the DNA's budgets, the delivery - are choices, and  *)
(* the DNA is one with all three phases after planning.                    *)
(***************************************************************************)
EXTENDS Naturals, Sequences, FiniteSets

CONSTANTS
  PhaseBudgets,   \* DEFAULT_PHASE_BUDGETS, for the phases after planning
  Says,           \* what a provider's step may say: its summary and its error column,
                  \* "" for null
  Generic,        \* summaries that are placeholders: "Claude completed the testing phase."
  Faults,         \* texts of a category the Task is blamed for
  PassText,       \* what a validation says that passed: "6/6 deterministic checks passed."
  CheckTexts,     \* ... that failed, without an error, or could not run
  IdleText,       \* a no_progress step of a phase
  CutText,        \* a step that a restart interrupted
  Helpers,        \* providers: each may recover itself once in a phase
  MaxGuardSteps   \* bound on the rows of goal_steps

GuardPhases == DOMAIN PhaseBudgets
OwnTexts == CheckTexts \cup {PassText, CutText} \cup {IdleText[p] : p \in GuardPhases}
Texts == Says \cup OwnTexts

ASSUME GuardAssumptions ==
  /\ GuardPhases = {"implementing", "testing", "reviewing"}
  /\ \A p \in GuardPhases : PhaseBudgets[p] \in Nat \ {0}
  /\ Says \cap OwnTexts = {}
  /\ Faults \subseteq Texts
  /\ PassText.summary \in Generic
  /\ Helpers \in Nat /\ MaxGuardSteps \in Nat

VARIABLES
  smallTask,   \* isSmallTask
  log,         \* goal_steps of the run, see LogRows
  breaker,     \* the counters of the call's GoalCircuitBreaker, see Breakers
  decision,    \* whether observe decided against the latest row, if it was asked
  goal,        \* where the call is: at, phase and, when it is over, the ending
  recoveries   \* goal.provider_self_recovery events of each phase: granted, pending

guardVars == <<smallTask, log, breaker, decision, goal, recoveries>>

\* free: a self-recovery attempt.  by: a provider or maestro-validation.
\* unseen (history): observe returned before it counted the step.
LogRows ==
  [phase : GuardPhases, says : Texts, free : BOOLEAN, by : {"provider", "checks"},
   status : {"running", "completed", "failed", "blocked", "changes_requested", "cancelled"},
   unseen : BOOLEAN]

Breakers ==
  [count : [GuardPhases -> Nat], idle : [GuardPhases -> Nat],
   repeats : [GuardPhases \X Texts -> Nat], inRow : Nat, total : Nat]

Fresh == [count |-> [p \in GuardPhases |-> 0], idle |-> [p \in GuardPhases |-> 0],
          repeats |-> [f \in GuardPhases \X Texts |-> 0], inRow |-> 0, total |-> 0]

LatestStep == log[Len(log)]
WithLatest(row) == [log EXCEPT ![Len(log)] = row]

-----------------------------------------------------------------------------
(* GoalCircuitBreaker                                                      *)

Counted1(b, p) == [b EXCEPT !.count[p] = @ + 1]

\* The failure counters; only a category the Task is blamed for counts on.
WithFailure(b, p, says, blamed) ==
  [b EXCEPT !.repeats[<<p, says>>] = @ + 1,
            !.total = IF blamed THEN @ + 1 ELSE @,
            !.inRow = IF blamed THEN @ + 1 ELSE 0]

\* One row of fromSteps.  The category comes from the row's text again, and
\* idle steps are not recounted.
Replayed(b, row) ==
  LET counted == Counted1(b, row.phase) IN
  CASE row.free -> b
    [] ~row.free /\ row.status = "failed" ->
         WithFailure(counted, row.phase, row.says, row.says \in Faults)
    [] ~row.free /\ row.status = "completed" -> [counted EXCEPT !.inRow = 0]
    [] OTHER -> counted

RebuiltFromLatest == IF log = <<>> THEN Fresh ELSE Replayed(Fresh, LatestStep)
\* fromSteps: every row of the run, whatever budget window it belongs to.
Rebuilt ==
  LET after[i \in 0 .. Len(log)] == IF i = 0 THEN Fresh ELSE Replayed(after[i - 1], log[i])
  IN after[Len(log)]

\* checkPhaseBudget
AtCeiling(p) == breaker.count[p] >= 3 * PhaseBudgets[p]
BudgetReached(b, p) == b.count[p] >= PhaseBudgets[p]

\* What the provider's result and the fingerprints of the worktree say; a
\* review has none, and a failure's do not matter.  The adapter may know a
\* category that spares the Task although the text does not.  Only failures have
\* an error.  stop: a breaker
\* of the process, which may still have exited with 0; "deadline" stands for a
\* prompt that is too large as well.
Observations ==
  {o \in [outcome : {"completed", "failed", "blocked", "changes_requested"},
          says : Says, blamed : BOOLEAN, moved : {"changed", "same", "unknown"},
          stop : {"none", "deadline", "output_limit", "duplicate_output"}] :
     /\ o.moved = "unknown" <=> goal.phase = "reviewing" \/ o.outcome = "failed"
     /\ o.says.error # "" => o.outcome = "failed"
     /\ o.blamed => o.says \in Faults /\ o.outcome = "failed" /\ o.stop = "none"}

IdleStep(p, o) == o.outcome = "completed" /\ p \in {"implementing", "testing"} /\ o.moved = "same"

\* The counters after observe; nothing is counted of a process that was
\* stopped, nor of a self-recovery attempt.
Observed(b, p, free, o) ==
  LET counted == Counted1(b, p) IN
  IF o.stop # "none" \/ free THEN b
  ELSE IF o.outcome = "failed" THEN WithFailure(counted, p, o.says, o.blamed)
  ELSE [counted EXCEPT !.inRow = IF o.outcome = "completed" THEN 0 ELSE @,
                       !.idle[p] = IF IdleStep(p, o) THEN @ + 1
                                   ELSE IF o.moved = "changed" THEN 0 ELSE @]

FailureDecision(b, p, o) ==
  IF b.repeats[<<p, o.says>>] >= 2 THEN "repeated_failure"
  ELSE IF BudgetReached(b, p) THEN "phase_budget_exhausted"
  ELSE IF o.blamed /\ smallTask /\ b.inRow >= 2 THEN "small_task_failure_limit"
  ELSE IF o.blamed /\ b.total >= 3 THEN "task_split_required"
  ELSE "none"

\* A phase that reached its budget goes on while the worktree changes, and a
\* review always.
WorkDecision(b, p, o) ==
  IF IdleStep(p, o) /\ b.idle[p] >= 2 THEN "no_progress"
  ELSE IF BudgetReached(b, p) /\ o.moved = "same" THEN "phase_budget_exhausted"
  ELSE "none"

\* observe, with b the counters after it.
DecisionOf(b, p, free, o) ==
  IF o.stop # "none" THEN o.stop
  ELSE IF free THEN "none"
  ELSE IF o.outcome = "failed" THEN FailureDecision(b, p, o)
  ELSE WorkDecision(b, p, o)

-----------------------------------------------------------------------------
(* GoalWatchdog                                                            *)

\* The positions of the finished rows among the latest six, and those of them that
\* follow each other.
Recent == {i \in 1 .. Len(log) : i + 6 > Len(log) /\ log[i].status # "running"}
Adjacent(i, j) == i < j /\ \A k \in Recent : ~(i < k /\ k < j)

StepFails(row) == row.status \in {"failed", "blocked"}

\* Only the errors are compared, and a failure without one fails like any other without one.
SameFailure(x, y) ==
  StepFails(x) /\ StepFails(y) /\ x.phase = y.phase /\ x.says.error = y.says.error
SameSummary(x, y) == x.says.summary = y.says.summary
SameReport(x, y) == x.says.summary \notin Generic /\ x.status = y.status /\ SameSummary(x, y)

\* Two such pairs in a row.
RepeatedFailure ==
  \E i, j, k \in Recent : /\ Adjacent(i, j) /\ SameFailure(log[i], log[j])
                          /\ Adjacent(j, k) /\ SameFailure(log[j], log[k])
NoProgress ==
  \E i, j, k \in Recent : /\ Adjacent(i, j) /\ SameReport(log[i], log[j])
                          /\ Adjacent(j, k) /\ SameReport(log[j], log[k])

\* Two change requests that follow each other ask for the same, and nothing was
\* completed between them.
SameDecision ==
  \E i, j \in Recent :
    /\ i < j /\ log[i].status = "changes_requested" /\ log[j].status = "changes_requested"
    /\ SameSummary(log[i], log[j])
    /\ \A k \in Recent : i < k /\ k < j => StepFails(log[k])

\* verdict
LoopSeen == RepeatedFailure \/ SameDecision \/ NoProgress

-----------------------------------------------------------------------------
(* The loop of runTaskGoal around them                                     *)

GuardStarts(small) ==
  /\ smallTask = small
  /\ log = <<>>
  /\ breaker = Fresh
  /\ decision = "unasked"
  /\ goal = [at |-> "waiting", phase |-> "implementing", ending |-> "none"]
  /\ recoveries = [p \in GuardPhases |-> [granted |-> 0, pending |-> 0]]

GuardInit == \E small \in BOOLEAN : GuardStarts(small)

\* The counters go with the call.
Waits(p) == goal' = [at |-> "waiting", phase |-> p, ending |-> "none"] /\ breaker' = Fresh
GoesTo(p, b) == goal' = [at |-> "head", phase |-> p, ending |-> "none"] /\ breaker' = b
Ends(ending) == goal' = [goal EXCEPT !.at = "over", !.ending = ending] /\ breaker' = Fresh

\* finishCircuitBreak; the step budget is elevated while it is below the
\* ceiling of the installation.
CircuitBreak(reason, loops) ==
  IF reason # "phase_budget_exhausted" THEN Ends("stopped")
  ELSE IF loops THEN Ends("loop")
  ELSE Waits(goal.phase) \/ Ends("stopped")

\* deliverGoal, which may refuse.
Delivers == Ends("delivered") \/ Ends("stopped")

\* A call begins: the first one, a resume after a wait, or a retry;
\* people who send a delivered Goal back are left out.
CallBegins ==
  /\ goal.at \in {"waiting", "over"} /\ goal.ending # "delivered"
  /\ Len(log) < MaxGuardSteps
  /\ decision' = "unasked"
  /\ GoesTo(goal.phase, Rebuilt)
  /\ UNCHANGED <<smallTask, log, recoveries>>

\* The step budget is used up at the loop head, or the phase is at its ceiling.
BudgetEnds ==
  /\ goal.at = "head"
  /\ CircuitBreak("phase_budget_exhausted", LoopSeen)
  /\ UNCHANGED <<smallTask, log, decision, recoveries>>

NextGuardPhase == [implementing |-> "testing", testing |-> "reviewing"]

\* The DNA's budget of the phase is used up: the next phase, or the delivery.
SkipsPhase ==
  /\ goal.at = "head"
  /\ IF goal.phase = "reviewing" THEN Delivers
     ELSE GoesTo(NextGuardPhase[goal.phase], breaker)
  /\ UNCHANGED <<smallTask, log, decision, recoveries>>

Row(status, says, free, by) ==
  [phase |-> goal.phase, says |-> says, free |-> free, by |-> by, status |-> status, unseen |-> FALSE]

\* The testing phase: nobody asks the breaker.  A failed validation goes to a
\* provider in the same iteration; a runner that throws makes the run wait; and
\* a process that dies leaves a row that its recovery cancels.
Validates ==
  /\ goal.at = "head" /\ goal.phase = "testing" /\ ~AtCeiling("testing")
  /\ Len(log) < MaxGuardSteps
  /\ decision' = "unasked"
  /\ \/ log' = Append(log, Row("completed", PassText, FALSE, "checks")) /\ GoesTo("reviewing", breaker)
     \/ /\ \E says \in CheckTexts : log' = Append(log, Row("failed", says, FALSE, "checks"))
        /\ \/ goal' = [goal EXCEPT !.at = "repair"] /\ UNCHANGED breaker
           \/ Waits("testing")
     \/ log' = Append(log, Row("cancelled", CutText, FALSE, "checks")) /\ Waits("testing")
  /\ UNCHANGED <<smallTask, recoveries>>

\* A provider got its lease: the row is written.
ProviderBegins ==
  /\ \/ goal.at = "repair"
     \/ goal.at = "head" /\ goal.phase # "testing" /\ ~AtCeiling(goal.phase)
  /\ Len(log) < MaxGuardSteps
  /\ decision' = "unasked"
  /\ \E free \in BOOLEAN :
       /\ free => recoveries[goal.phase].pending > 0
       /\ log' = Append(log, Row("running", CutText, free, "provider"))
       /\ recoveries' = IF free THEN [recoveries EXCEPT ![goal.phase].pending = @ - 1]
                        ELSE recoveries
  /\ goal' = [goal EXCEPT !.at = "executing"]
  /\ UNCHANGED <<smallTask, breaker>>

NobodyForGuard ==
  /\ goal.at = "repair" \/ goal.at = "head"
  /\ Waits(goal.phase)
  /\ UNCHANGED <<smallTask, log, decision, recoveries>>

\* Go on: another provider, a repaired worktree, or a wait for either.
GoesOn(b) == GoesTo(goal.phase, b) \/ Waits(goal.phase)

\* A provider's own failure may be recovered once, unless the breaker decided.
Recovers(b, d, o) ==
  /\ d = "none" /\ o.outcome \in {"failed", "blocked"} /\ ~LatestStep.free
  /\ recoveries[goal.phase].granted < Helpers
  /\ recoveries' = [recoveries EXCEPT ![goal.phase].granted = @ + 1, ![goal.phase].pending = @ + 1]
  /\ GoesTo(goal.phase, b)

\* What the runner does with the step and the decision, in this order; a
\* failure falls back before a decision stops the run, or nothing else is left.
Reacts(b, d, o, loops) ==
  \/ d = "output_limit" /\ Waits(goal.phase)
  \/ d = "no_progress" /\ GoesOn(b)
  \/ d = "deadline" /\ Ends("stopped")
  \/ /\ d \notin {"output_limit", "no_progress", "deadline"} /\ StepFails(LatestStep')
     /\ GoesOn(b) \/ CircuitBreak(d, loops)
  \/ /\ d \in {"phase_budget_exhausted", "duplicate_output"} /\ ~StepFails(LatestStep')
     /\ CircuitBreak(d, loops)
  \/ /\ d = "none" /\ o.outcome = "changes_requested"
     /\ GoesTo("implementing", b) \/ Ends("stopped")
  \/ /\ d = "none" /\ o.outcome = "completed"
     /\ IF goal.phase = "reviewing" THEN Delivers ELSE GoesTo("testing", b)

Finished(o) == [LatestStep EXCEPT !.status = o.outcome, !.says = o.says, !.unseen = o.stop # "none"]

StepEnds(o) ==
  LET b == Observed(breaker, goal.phase, LatestStep.free, o)
      d == DecisionOf(b, goal.phase, LatestStep.free, o)
  IN
  /\ goal.at = "executing"
  /\ o.outcome = "changes_requested" => goal.phase = "reviewing"
  /\ log' = WithLatest(IF d = "no_progress"
                       THEN [Finished(o) EXCEPT !.status = "failed", !.says = IdleText[goal.phase]]
                       ELSE Finished(o))
  /\ decision' = IF d = "none" THEN "none" ELSE "taken"
  /\ \/ Recovers(b, d, o)
     \/ Reacts(b, d, o, LoopSeen') /\ UNCHANGED recoveries
  /\ UNCHANGED smallTask

\* The process dies, before the step ends or between its row and the breaker.
\* recoverInterruptedRun cancels a row that is still running, and the run waits.
GuardCrash ==
  /\ goal.at \in {"head", "repair", "executing"}
  /\ Waits(goal.phase)
  /\ decision' = "unasked"
  /\ \/ goal.at # "executing" /\ UNCHANGED log
     \/ goal.at = "executing" /\ log' = WithLatest([LatestStep EXCEPT !.status = "cancelled", !.says = CutText])
     \/ /\ goal.at = "executing"
        /\ \E o \in Observations :
             /\ o.outcome = "changes_requested" => goal.phase = "reviewing"
             /\ log' = WithLatest(Finished(o))
  /\ UNCHANGED <<smallTask, recoveries>>

GuardNext ==
  \/ CallBegins \/ BudgetEnds \/ SkipsPhase \/ Validates \/ ProviderBegins \/ NobodyForGuard
  \/ GuardCrash
  \/ goal.at = "executing" /\ \E o \in Observations : StepEnds(o)

GuardSpec == GuardInit /\ [][GuardNext]_guardVars

-----------------------------------------------------------------------------
(* Properties                                                              *)

GuardTypeOK ==
  /\ smallTask \in BOOLEAN
  /\ \A i \in 1 .. Len(log) : log[i] \in LogRows
  /\ breaker \in Breakers
  /\ decision \in {"unasked", "none", "taken"}
  /\ goal \in [at : {"waiting", "head", "repair", "executing", "over"}, phase : GuardPhases,
               ending : {"none", "loop", "stopped", "delivered"}]
  /\ recoveries \in [GuardPhases -> [granted : 0 .. Helpers, pending : 0 .. Helpers]]

\* Over all calls, retries and deaths a phase gets no more steps of providers
\* than its safety ceiling, self-recoveries and stopped processes aside:
\* "a runaway safety net" (checkPhaseBudget).
CeilingHolds ==
  \A p \in GuardPhases :
    Cardinality({i \in 1 .. Len(log) : /\ log[i].phase = p /\ log[i].by = "provider"
                                       /\ ~log[i].free /\ ~log[i].unseen})
      <= 3 * PhaseBudgets[p]

\* The same failure of a phase never passes twice without a decision, however
\* much work, waiting and how many restarts lie between (REPEATED_FAILURE_LIMIT).
RepeatsAreNoticed ==
  decision = "none" /\ LatestStep.status = "failed" /\ ~LatestStep.free =>
    \A i \in 1 .. Len(log) - 1 :
      ~(/\ log[i].phase = LatestStep.phase /\ log[i].says = LatestStep.says
        /\ log[i].status = "failed" /\ ~log[i].free /\ ~log[i].unseen)

\* A run that is blocked as a loop said the same twice and completed nothing in
\* between: the same summary, or in one phase the same error of two failures,
\* for which no error counts as an error too (GoalWatchdog).
LoopsAreReal ==
  goal.ending = "loop" =>
    \E i, j \in 1 .. Len(log) :
      /\ i < j
      /\ SameSummary(log[i], log[j]) \/ SameFailure(log[i], log[j])
      /\ \A k \in i + 1 .. j - 1 : log[k].status # "completed"

\* The three of them: what goes round in circles is noticed, and nothing else.
LoopsAreCut == CeilingHolds /\ RepeatsAreNoticed /\ LoopsAreReal
=============================================================================
