------------------------- MODULE GoalRunnerProofs -------------------------
(***************************************************************************)
(* Proofs about GoalRunner for every set of providers, every TaskDNA and   *)
(* budgets of any size: its types, what the gates of a delivery go by, and *)
(* the budgets of phases and steps.                                        *)
(*                                                                         *)
(* A call of the runner stops (`Stopped`: it is Asleep and the row keeps   *)
(* its phase and steps), or goes on in another phase or another place of   *)
(* the loop.  `StopPreserves` covers all the ways of stopping at once.     *)
(***************************************************************************)
EXTENDS GoalRunner, TLAPS

Awake == local.at # "settled"
Allowed(p) == dna.budget[p] + (IF p = "testing" THEN 1 ELSE 0)
Granted == Larger(run.maxSteps, DnaMaxSteps)

\* A validation that passed leaves the run where nothing is written any more.
ValidationHeld ==
  /\ run.validation = "passed" =>
       /\ evidence.tested
       /\ run.phase \in {"testing", "reviewing"}
       /\ Awake => local.phase \in {"testing", "reviewing"}
       /\ local.at \in {"acquiring", "executing"} => local.phase = "reviewing"
  /\ local.at = "validating" => run.phase = "testing" /\ local.phase = "testing"

\* While a review is routed the implementers stay excluded, if others were
\* known when it was entered; what executes was not excluded.
ReviewersHeld ==
  /\ local.at = "executing" => local.provider \notin local.excluded
  /\ Awake /\ local.phase = "reviewing" /\ dna.requireReview
       /\ ~(local.known \subseteq history.implementers)
     => history.implementers \subseteq local.excluded

\* Between the head of the loop and its provider the phase has a step left.
PhaseRoom ==
  /\ \A p \in dna.phases : history.used[p] <= Allowed(p)
  /\ local.at \in {"validating", "acquiring"} /\ local.phase \in dna.phases
       => history.used[local.phase] < Allowed(local.phase)

\* The row of the run would give its next call the budget this one has, or more.
StepRoom ==
  /\ run.steps <= Granted + 1
  /\ Awake => /\ local.max = Granted /\ run.maxSteps <= local.currentMax
              /\ local.steps <= local.max + 1
  /\ local.at = "validating" => local.steps < local.max
  /\ local.at \in {"acquiring", "executing"} => local.steps <= local.max

IInv == TypeOK /\ ValidationHeld /\ ReviewersHeld /\ PhaseRoom /\ StepRoom

\* The call is over: what it wrote to the row of the run.
Stopped(row, l) ==
  /\ local' = Asleep
  /\ run' \in RunRows
  /\ run'.validation = row.validation /\ run'.commit = row.commit
  /\ run'.phase = l.phase /\ run'.steps = l.steps
  /\ run'.maxSteps = row.maxSteps \/ run'.maxSteps >= l.currentMax

-----------------------------------------------------------------------------
(* Operators                                                               *)

\* The DNA of a run, and the steps it adds up to.
LEMMA DnaType ==
  ASSUME TypeOK
  PROVE  /\ dna \in DNARecords /\ dna.phases \subseteq Phases
         /\ dna.budget \in [Phases -> Nat]
         /\ \A p \in Phases : Allowed(p) \in Nat
         /\ DnaMaxSteps \in Nat /\ Granted \in Nat
<1>1. dna \in DNARecords
  BY RunnerAssumptions DEF TypeOK
<1>2. dna.phases \subseteq Phases /\ dna.budget \in [Phases -> Nat]
  BY <1>1 DEF DNARecords
<1>3. \A p \in Phases : Allowed(p) \in Nat
  BY <1>2 DEF Allowed
<1>4. DnaMaxSteps \in Nat
  BY <1>2, RunnerAssumptions DEF DnaMaxSteps, Phases
<1>5. Granted \in Nat
  BY <1>4 DEF Granted, Larger, TypeOK, RunRows
<1> QED
  BY <1>1, <1>2, <1>3, <1>4, <1>5

\* elevateMaxSteps stays a number of steps.
LEMMA ElevatedType ==
  ASSUME NEW n \in Nat
  PROVE  Elevated(n) \in Nat
<1>1. (n + 1) \div 2 \in Nat
  OBVIOUS
<1> QED
  BY <1>1, RunnerAssumptions DEF Elevated, Smaller, Larger

\* One more step of a phase.
LEMMA CountUp ==
  ASSUME NEW used \in [Phases -> Nat], NEW p \in Phases
  PROVE  [used EXCEPT ![p] = @ + 1] \in [Phases -> Nat]
OBVIOUS

\* Asleep is a value of `local`.
LEMMA AsleepType == Asleep \in Locals /\ Asleep.at = "settled"
BY DEF Asleep, Locals, Phases

\* However a call ends, it stops.
LEMMA EndsStop ==
  ASSUME NEW row \in RunRows, NEW l \in Locals,
         \/ Pause(row, l, l.currentMax)
         \/ BudgetStop(row, l)
         \/ HardStop(row, l)
         \/ \E status \in {"blocked", "failed"}, category \in {"budget_exhausted", "other"} :
              Finish(row, l, status, category)
  PROVE  Stopped(row, l)
<1>1. l.phase \in Phases /\ l.steps \in Nat /\ l.currentMax \in Nat
  BY DEF Locals
<1>2. ASSUME NEW m \in Nat, m >= l.currentMax, Pause(row, l, m)
      PROVE  Stopped(row, l)
  BY <1>1, <1>2 DEF Pause, Stopped, RunRows
<1>3. ASSUME NEW status \in {"blocked", "failed"},
             NEW category \in {"budget_exhausted", "other"},
             Finish(row, l, status, category)
      PROVE  Stopped(row, l)
  BY <1>1, <1>3 DEF Finish, Stopped, RunRows
<1>4. CASE BudgetStop(row, l)
  BY <1>1, <1>2, <1>3, <1>4, ElevatedType DEF BudgetStop
<1> QED
  BY <1>1, <1>2, <1>3, <1>4 DEF HardStop

\* The locals of a call that goes on with another phase, or starts with it.
LEMMA ExcludedForType ==
  ASSUME TypeOK, NEW phase \in Phases, NEW base \in SUBSET Providers,
         NEW implementers \in SUBSET Providers
  PROVE  /\ ExcludedFor(phase, base, implementers) \in SUBSET Providers
         /\ KnownIn(phase) \in SUBSET Providers
         /\ phase = "reviewing" /\ dna.requireReview /\ ~(KnownIn(phase) \subseteq implementers)
              => implementers \subseteq ExcludedFor(phase, base, implementers)
BY DEF ExcludedFor, KnownIn, TypeOK

\* Enter changes the place, the phase and who is excluded, and nothing else.
LEMMA EnterEffect ==
  ASSUME TypeOK, NEW l \in Locals, NEW phase \in Phases,
         NEW implementers \in SUBSET Providers
  PROVE  LET e == Enter(l, phase, implementers) IN
         /\ e \in Locals /\ e.at = "loop" /\ e.phase = phase
         /\ e.steps = l.steps /\ e.max = l.max /\ e.currentMax = l.currentMax
         /\ phase = "reviewing" /\ dna.requireReview /\ ~(e.known \subseteq implementers)
              => implementers \subseteq e.excluded
BY ExcludedForType DEF Enter, Locals

\* A finished step counts at most once, and nothing executes any more.
LEMMA CountedEffect ==
  ASSUME TypeOK, NEW counts \in BOOLEAN
  PROVE  /\ Counted(counts) \in Locals
         /\ Counted(counts).phase = local.phase /\ Counted(counts).at = local.at
         /\ Counted(counts).steps \in {local.steps, local.steps + 1}
         /\ Counted(counts).max = local.max /\ Counted(counts).currentMax = local.currentMax
         /\ Counted(counts).excluded = local.excluded /\ Counted(counts).known = local.known
<1> DEFINE steps == IF counts /\ ~local.recovering THEN local.steps + 1 ELSE local.steps
<1>1. local \in Locals /\ steps \in {local.steps, local.steps + 1} /\ steps \in Nat
  BY DEF TypeOK, Locals
<1>2. Counted(counts)
        = [local EXCEPT !.steps = steps, !.provider = NoProvider, !.recovering = FALSE]
  BY DEF Counted
<1> HIDE DEF steps
<1> QED
  BY <1>1, <1>2 DEF Locals

-----------------------------------------------------------------------------
(* How a call stops, goes on, and starts                                   *)

\* Whatever is left of the validation, and unless somebody wrote since, a call
\* may stop within its step budget at any place.
LEMMA StopPreserves ==
  ASSUME IInv, Awake, NEW row \in RunRows, NEW l \in Locals, Stopped(row, l),
         row.validation \in {run.validation, "failed"}, row.maxSteps = run.maxSteps,
         l.phase = local.phase, l.currentMax = local.currentMax, l.steps <= local.max + 1,
         history' \in Histories, history'.used = history.used,
         evidence' \in Evidence, evidence'.tested = evidence.tested,
         disturbances' \in 0 .. MaxDisturbances, Quiet
  PROVE  IInv'
<1>1. TypeOK'
  BY AsleepType DEF IInv, TypeOK, Stopped, Quiet
<1>2. ValidationHeld'
  BY AsleepType DEF IInv, ValidationHeld, Stopped, Awake
<1>3. ReviewersHeld'
  BY AsleepType DEF ReviewersHeld, Stopped, Awake
<1>4. PhaseRoom'
  BY AsleepType DEF IInv, PhaseRoom, Allowed, Stopped, Quiet
<1>5. StepRoom'
  <2>1. DnaMaxSteps' = DnaMaxSteps
    BY DEF Quiet, DnaMaxSteps
  <2>2. run'.maxSteps >= run.maxSteps /\ run'.maxSteps \in Nat
    BY DEF IInv, StepRoom, Stopped, RunRows, TypeOK, Locals
  <2>3. Granted' >= Granted /\ Granted' \in Nat /\ Granted \in Nat
    BY <2>1, <2>2, DnaType DEF Granted, Larger, IInv, TypeOK, RunRows
  <2>4. run'.steps <= Granted + 1 /\ run'.steps \in Nat
    BY DEF IInv, StepRoom, Stopped, Locals
  <2> QED
    BY <2>3, <2>4, AsleepType DEF StepRoom, Stopped, Awake
<1> QED
  BY <1>1, <1>2, <1>3, <1>4, <1>5 DEF IInv

\* A call that goes on: at another place, perhaps in another phase.
LEMMA GoesOnPreserves ==
  ASSUME IInv, Awake, NEW l \in Locals, local' = l,
         l.at \in {"loop", "delivering", "failedOver", "rerouting"},
         l.max = local.max, l.currentMax = local.currentMax, l.steps <= local.max + 1,
         run' \in {run, [run EXCEPT !.validation = "failed"]},
         history' \in Histories, history'.used = history.used,
         evidence' \in Evidence, evidence'.tested = evidence.tested,
         disturbances' \in 0 .. MaxDisturbances, Quiet,
         run'.validation = "passed" => l.phase \in {"testing", "reviewing"},
         l.phase = "reviewing" /\ dna.requireReview /\ ~(l.known \subseteq history'.implementers)
           => history'.implementers \subseteq l.excluded
  PROVE  IInv'
<1>1. /\ run' \in RunRows /\ run'.validation \in {run.validation, "failed"}
      /\ run'.phase = run.phase /\ run'.steps = run.steps /\ run'.maxSteps = run.maxSteps
  BY DEF IInv, TypeOK, RunRows
<1>2. TypeOK'
  BY <1>1 DEF IInv, TypeOK, Quiet
<1>3. ValidationHeld'
  BY <1>1 DEF IInv, ValidationHeld, Awake
<1>4. ReviewersHeld'
  BY DEF ReviewersHeld, Awake, Quiet
<1>5. PhaseRoom'
  BY DEF IInv, PhaseRoom, Allowed, Quiet
<1>6. StepRoom'
  <2>1. Granted' = Granted
    BY <1>1 DEF Quiet, Granted, DnaMaxSteps
  <2> QED
    BY <1>1, <2>1 DEF IInv, StepRoom, Awake
<1> QED
  BY <1>2, <1>3, <1>4, <1>5, <1>6 DEF IInv

\* A call the coordinator starts for a row whose step budget is not spent.
LEMMA CallPreserves ==
  ASSUME IInv, NEW row \in RunRows, Execute(row),
         run.maxSteps <= row.maxSteps, row.steps = run.steps,
         row.validation = "passed" => row.status = "waiting_provider" /\ row.phase = run.phase
                                        /\ run.validation = "passed",
         history' \in Histories, history'.implementers = history.implementers,
         \A p \in Phases : history'.used[p] \in {history.used[p], 0},
         disturbances' \in 0 .. MaxDisturbances, UNCHANGED evidence, Quiet
  PROVE  IInv'
<1>1. PICK phase \in Phases, failed \in SUBSET Providers :
        /\ row.status = "waiting_provider" => phase = row.phase
        /\ local' = Call(row, phase, failed)
  BY DEF Execute
<1>2. run' = row
  BY DEF Execute
<1>3. DnaMaxSteps' = DnaMaxSteps /\ DnaMaxSteps \in Nat
  BY DnaType DEF Quiet, DnaMaxSteps, IInv
<1>4. /\ local' \in Locals /\ local'.at = "loop" /\ local'.phase = phase
      /\ local'.steps = row.steps /\ local'.max = Larger(row.maxSteps, DnaMaxSteps)
      /\ local'.currentMax = local'.max
      /\ phase = "reviewing" /\ dna.requireReview /\ ~(local'.known \subseteq history.implementers)
           => history.implementers \subseteq local'.excluded
  <2>1. history.implementers \in SUBSET Providers
    BY DEF IInv, TypeOK, Histories
  <2>2. /\ ExcludedFor(phase, failed, history.implementers) \in SUBSET Providers
        /\ KnownIn(phase) \in SUBSET Providers
        /\ phase = "reviewing" /\ dna.requireReview /\ ~(KnownIn(phase) \subseteq history.implementers)
              => history.implementers \subseteq ExcludedFor(phase, failed, history.implementers)
    BY <2>1, ExcludedForType DEF IInv
  <2>3. Larger(row.maxSteps, DnaMaxSteps) \in Nat /\ row.steps \in Nat
    BY <1>3 DEF Larger, RunRows
  <2> QED
    BY <1>1, <2>2, <2>3 DEF Call, Asleep, Locals
<1>5. TypeOK'
  BY <1>2, <1>4 DEF IInv, TypeOK, Quiet
<1>6. ValidationHeld'
  BY <1>1, <1>2, <1>4 DEF IInv, ValidationHeld, Awake
<1>7. ReviewersHeld'
  BY <1>4 DEF ReviewersHeld, Awake, Quiet
<1>8. PhaseRoom'
  <2>1. \A p \in dna.phases : history'.used[p] <= Allowed(p)
    BY DnaType DEF IInv, PhaseRoom
  <2> QED
    BY <1>4, <2>1 DEF PhaseRoom, Allowed, Quiet
<1>9. StepRoom'
  <2>1. row.maxSteps \in Nat /\ run.maxSteps \in Nat /\ run.steps \in Nat
    BY DEF IInv, TypeOK, RunRows
  <2>2. Granted <= Granted' /\ Granted' = Larger(row.maxSteps, DnaMaxSteps)
        /\ Granted \in Nat /\ Granted' \in Nat /\ row.maxSteps <= Granted'
    BY <1>2, <1>3, <2>1 DEF Granted, Larger
  <2> QED
    BY <1>2, <1>4, <2>1, <2>2 DEF IInv, StepRoom, Awake
<1> QED
  BY <1>5, <1>6, <1>7, <1>8, <1>9 DEF IInv

\* Nothing but the status of the row changes, and nobody executes.
LEMMA SleepPreserves ==
  ASSUME IInv, local' = Asleep, run' \in RunRows,
         run'.validation = run.validation, run'.phase = run.phase, run'.steps = run.steps,
         run'.maxSteps = run.maxSteps, disturbances' \in 0 .. MaxDisturbances,
         UNCHANGED <<history, evidence>>, Quiet
  PROVE  IInv'
<1>1. TypeOK'
  BY AsleepType DEF IInv, TypeOK, Quiet
<1>2. ValidationHeld' /\ ReviewersHeld'
  BY AsleepType DEF IInv, ValidationHeld, ReviewersHeld, Awake
<1>3. PhaseRoom'
  BY AsleepType DEF IInv, PhaseRoom, Allowed, Quiet
<1>4. Granted' = Granted
  BY DEF Granted, DnaMaxSteps, Quiet
<1>5. StepRoom'
  BY <1>4, AsleepType DEF IInv, StepRoom, Awake
<1> QED
  BY <1>1, <1>2, <1>3, <1>5 DEF IInv

-----------------------------------------------------------------------------
(* The runner's own steps                                                  *)

LEMMA LoopHeadStep ==
  ASSUME IInv, LoopHead
  PROVE  IInv'
<1> USE DEF Rest
<1>1. /\ local \in Locals /\ run \in RunRows /\ local.at = "loop" /\ Awake
      /\ history \in Histories /\ evidence \in Evidence
      /\ local.steps <= local.max + 1 /\ disturbances \in 0 .. MaxDisturbances
  BY DEF LoopHead, StepsExhausted, LoopStopped, PhaseUsedUp, StartIteration, Awake,
         IInv, TypeOK, StepRoom
<1>2. CASE StepsExhausted \/ LoopStopped
  <2>1. Stopped(run, local) /\ UNCHANGED <<history, evidence, disturbances>> /\ Quiet
    BY <1>1, <1>2, EndsStop DEF StepsExhausted, LoopStopped
  <2> QED
    BY <1>1, <2>1, StopPreserves
<1>3. CASE PhaseUsedUp
  <2>1. UNCHANGED <<run, history, evidence, disturbances>> /\ Quiet
    BY <1>3 DEF PhaseUsedUp
  <2>2. CASE local' = [local EXCEPT !.at = "delivering"]
    <3> DEFINE l == [local EXCEPT !.at = "delivering"]
    <3>1. /\ l \in Locals /\ l.at = "delivering" /\ l.phase = local.phase
          /\ l.max = local.max /\ l.currentMax = local.currentMax /\ l.steps = local.steps
          /\ l.known = local.known /\ l.excluded = local.excluded
      BY <1>1 DEF Locals
    <3> HIDE DEF l
    <3> QED
      BY <1>1, <2>1, <2>2, <3>1, GoesOnPreserves DEF IInv, ValidationHeld, ReviewersHeld, l
  <2>3. ASSUME NEW next \in Phases, IsNext(local.phase, next),
               local' = Enter(local, next, history.implementers)
        PROVE  IInv'
    <3> DEFINE l == Enter(local, next, history.implementers)
    <3>1. history.implementers \in SUBSET Providers
      BY <1>1 DEF Histories
    <3>2. /\ l \in Locals /\ l.at = "loop" /\ l.phase = next
          /\ l.max = local.max /\ l.currentMax = local.currentMax /\ l.steps = local.steps
          /\ next = "reviewing" /\ dna.requireReview /\ ~(l.known \subseteq history.implementers)
               => history.implementers \subseteq l.excluded
      BY <1>1, <3>1, EnterEffect DEF IInv
    <3>3. local.phase \in {"testing", "reviewing"} => next \in {"testing", "reviewing"}
      BY <2>3 DEF IsNext, After, Place, Phases
    <3>4. run.validation = "passed" => next \in {"testing", "reviewing"}
      BY <1>1, <3>3 DEF IInv, ValidationHeld
    <3> HIDE DEF l
    <3> QED
      BY <1>1, <2>1, <2>3, <3>2, <3>4, GoesOnPreserves DEF l
  <2> QED
    BY <1>3, <2>2, <2>3 DEF PhaseUsedUp
<1>4. CASE StartIteration
  <2> DEFINE testing == local.phase = "testing"
             place == IF testing THEN "validating" ELSE "acquiring"
  <2>1. /\ local.steps < local.max
        /\ local.phase \in dna.phases => history.used[local.phase] < dna.budget[local.phase]
    BY <1>1, <1>4, DnaType DEF StartIteration, StepsLeft, UsedUp, IInv, TypeOK, Histories
  <2>2. /\ run' = [run EXCEPT !.status = "running", !.phase = local.phase, !.steps = local.steps]
        /\ local' = [local EXCEPT !.at = place, !.currentMax = run.maxSteps]
        /\ UNCHANGED <<evidence, disturbances>> /\ Quiet
    BY <1>4 DEF StartIteration
  <2>3. /\ local' \in Locals /\ local'.at = place /\ local'.phase = local.phase
        /\ local'.steps = local.steps /\ local'.max = local.max
        /\ local'.currentMax = run.maxSteps /\ local'.excluded = local.excluded
        /\ local'.known = local.known
    BY <1>1, <2>2 DEF Locals, RunRows
  <2>4. /\ run' \in RunRows /\ run'.validation = run.validation /\ run'.phase = local.phase
        /\ run'.steps = local.steps /\ run'.maxSteps = run.maxSteps
    BY <1>1, <2>2 DEF Locals, RunRows
  <2>5. /\ history' \in Histories /\ history'.implementers = history.implementers
        /\ testing => history'.used = [history.used EXCEPT !["testing"] = @ + 1]
        /\ ~testing => history'.used = history.used
    <3>1. CASE testing
      <4>1. history' = [history EXCEPT !.used["testing"] = @ + 1, !.attempted = TRUE]
        BY <1>4, <3>1 DEF StartIteration
      <4> DEFINE used == [history.used EXCEPT !["testing"] = @ + 1]
      <4>2. history' = [history EXCEPT !.used = used, !.attempted = TRUE]
        BY <4>1
      <4>3. used \in [Phases -> Nat]
        <5>1. history.used \in [Phases -> Nat]
          BY <1>1 DEF Histories
        <5> QED
          BY <5>1, CountUp DEF Phases
      <4> HIDE DEF used
      <4>4. /\ history' \in Histories /\ history'.implementers = history.implementers
            /\ history'.used = used
        BY <1>1, <4>2, <4>3 DEF Histories
      <4> QED
        BY <3>1, <4>4 DEF used
    <3>2. CASE ~testing
      BY <1>1, <1>4, <3>2 DEF StartIteration
    <3> QED
      BY <3>1, <3>2
  <2>6. TypeOK'
    BY <2>2, <2>3, <2>4, <2>5 DEF IInv, TypeOK, Quiet
  <2>7. ValidationHeld'
    BY <1>1, <2>2, <2>3, <2>4 DEF IInv, ValidationHeld, Awake
  <2>8. ReviewersHeld'
    BY <1>1, <2>2, <2>3, <2>5 DEF IInv, ReviewersHeld, Awake, Quiet
  <2>9. PhaseRoom'
    <3>1. \A p \in dna.phases : p \in Phases /\ history.used[p] \in Nat /\ dna.budget[p] \in Nat
      BY <1>1, DnaType DEF IInv, Histories
    <3>2. \A p \in dna.phases : history'.used[p] <= Allowed(p)
      BY <1>1, <2>1, <2>5, <3>1 DEF Allowed, IInv, PhaseRoom, Histories
    <3>3. local.phase \in dna.phases => history'.used[local.phase] < Allowed(local.phase)
      BY <1>1, <2>1, <2>5, <3>1 DEF Allowed, Histories
    <3> QED
      BY <2>2, <2>3, <3>2, <3>3 DEF PhaseRoom, Allowed, Quiet
  <2>10. StepRoom'
    <3>1. Granted' = Granted /\ Granted \in Nat
      BY <2>2, <2>4, DnaType DEF Granted, DnaMaxSteps, Quiet, IInv
    <3>2. local.steps \in Nat /\ local.max \in Nat /\ run.maxSteps \in Nat
      BY <1>1 DEF Locals, RunRows
    <3> QED
      BY <1>1, <2>1, <2>3, <2>4, <3>1, <3>2 DEF IInv, StepRoom, Awake
  <2> QED
    BY <2>6, <2>7, <2>8, <2>9, <2>10 DEF IInv
<1> QED
  BY <1>2, <1>3, <1>4 DEF LoopHead

LEMMA ValidationStep ==
  ASSUME IInv, Validation
  PROVE  IInv'
<1> USE DEF Rest
<1>1. /\ local \in Locals /\ run \in RunRows /\ local.at = "validating" /\ Awake
      /\ history \in Histories /\ evidence \in Evidence
      /\ local.steps < local.max /\ local.steps \in Nat /\ local.max \in Nat
      /\ disturbances \in 0 .. MaxDisturbances
      /\ UNCHANGED <<history, disturbances>> /\ Quiet
  BY DEF Validation, ValidationPassed, ValidationFailed, ValidationThrew, Awake,
         IInv, TypeOK, StepRoom, Locals
<1>2. CASE ValidationPassed
  <2> DEFINE counted == [local EXCEPT !.steps = @ + 1]
             l == Enter(counted, "reviewing", history.implementers)
  <2>1. /\ local' = l /\ run' = [run EXCEPT !.validation = "passed"]
        /\ evidence' = [evidence EXCEPT !.tested = TRUE]
    BY <1>2 DEF ValidationPassed
  <2>2. /\ counted \in Locals /\ counted.max = local.max
        /\ counted.steps = local.steps + 1 /\ counted.currentMax = local.currentMax
    BY <1>1 DEF Locals
  <2>3. history.implementers \in SUBSET Providers /\ "reviewing" \in Phases
    BY <1>1 DEF Histories, Phases
  <2> HIDE DEF counted
  <2>4. /\ l \in Locals /\ l.at = "loop" /\ l.phase = "reviewing"
        /\ l.max = local.max /\ l.currentMax = local.currentMax /\ l.steps = local.steps + 1
        /\ dna.requireReview /\ ~(l.known \subseteq history.implementers)
             => history.implementers \subseteq l.excluded
    BY <2>2, <2>3, EnterEffect DEF IInv
  <2> HIDE DEF l
  <2>5. /\ run' \in RunRows /\ run'.phase = run.phase /\ run'.steps = run.steps
        /\ run'.maxSteps = run.maxSteps /\ evidence' \in Evidence /\ evidence'.tested
    BY <1>1, <2>1 DEF RunRows, Evidence
  <2>6. TypeOK'
    BY <1>1, <2>1, <2>4, <2>5 DEF IInv, TypeOK, Quiet
  <2>7. ValidationHeld'
    BY <1>1, <2>1, <2>4, <2>5 DEF IInv, ValidationHeld, Awake
  <2>8. ReviewersHeld'
    BY <1>1, <2>1, <2>4 DEF ReviewersHeld, Awake, Quiet
  <2>9. PhaseRoom'
    BY <1>1, <2>1, <2>4 DEF IInv, PhaseRoom, Allowed, Quiet
  <2>10. StepRoom'
    <3>1. Granted' = Granted
      BY <1>1, <2>5 DEF Granted, DnaMaxSteps, Quiet
    <3> QED
      BY <1>1, <2>1, <2>4, <2>5, <3>1 DEF IInv, StepRoom, Awake
  <2> QED
    BY <2>6, <2>7, <2>8, <2>9, <2>10 DEF IInv
<1>3. CASE ValidationFailed
  <2>1. /\ local' = [local EXCEPT !.steps = @ + 1, !.at = "acquiring"]
        /\ run' = [run EXCEPT !.validation = "failed"] /\ UNCHANGED evidence
    BY <1>3 DEF ValidationFailed
  <2>2. /\ local' \in Locals /\ local'.at = "acquiring" /\ local'.phase = local.phase
        /\ local'.steps = local.steps + 1 /\ local'.max = local.max
        /\ local'.currentMax = local.currentMax
        /\ local'.excluded = local.excluded /\ local'.known = local.known
    <3>1. local.steps + 1 \in Nat
      BY <1>1
    <3> QED
      BY <1>1, <2>1, <3>1 DEF Locals
  <2>3. /\ run' \in RunRows /\ run'.phase = run.phase /\ run'.steps = run.steps
        /\ run'.maxSteps = run.maxSteps /\ run'.validation = "failed"
    BY <1>1, <2>1 DEF RunRows
  <2>4. TypeOK'
    BY <1>1, <2>1, <2>2, <2>3 DEF IInv, TypeOK, Quiet
  <2>5. ValidationHeld'
    BY <2>2, <2>3 DEF ValidationHeld
  <2>6. ReviewersHeld'
    BY <1>1, <2>2 DEF IInv, ReviewersHeld, Awake, Quiet
  <2>7. PhaseRoom'
    BY <1>1, <2>2 DEF IInv, PhaseRoom, Allowed, Quiet
  <2>8. StepRoom'
    <3>1. Granted' = Granted
      BY <1>1, <2>3 DEF Granted, DnaMaxSteps, Quiet
    <3> QED
      BY <1>1, <2>2, <2>3, <3>1 DEF IInv, StepRoom, Awake
  <2> QED
    BY <2>4, <2>5, <2>6, <2>7, <2>8 DEF IInv
<1>4. CASE ValidationThrew
  <2>1. Stopped(run, local) /\ UNCHANGED evidence
    BY <1>1, <1>4, EndsStop DEF ValidationThrew
  <2> QED
    BY <1>1, <2>1, StopPreserves
<1> QED
  BY <1>2, <1>3, <1>4 DEF Validation

LEMMA AcquireStep ==
  ASSUME IInv, NEW p \in Providers, AcquireLease(p)
  PROVE  IInv'
<1> DEFINE phase == local.phase
<1>1. /\ local \in Locals /\ run \in RunRows /\ local.at = "acquiring" /\ Awake
      /\ history \in Histories /\ evidence \in Evidence /\ phase \in Phases
      /\ p \notin local.excluded
      /\ UNCHANGED disturbances /\ Quiet
  BY DEF AcquireLease, Rest, Awake, IInv, TypeOK, Locals
<1>2. /\ run' \in RunRows /\ run'.validation = run.validation /\ run'.phase = phase
      /\ run'.steps = local.steps /\ run'.maxSteps = run.maxSteps
  BY <1>1 DEF AcquireLease, RunRows, Locals
<1>3. /\ local' \in Locals /\ local'.at = "executing" /\ local'.phase = phase
      /\ local'.steps = local.steps /\ local'.max = local.max
      /\ local'.currentMax = local.currentMax /\ local'.excluded = local.excluded
      /\ local'.known = local.known /\ local'.provider = p
  <2> DEFINE recovering == <<phase, p>> \in history.pending
  <2>1. local' = [local EXCEPT !.at = "executing", !.provider = p, !.recovering = recovering]
    BY DEF AcquireLease
  <2>2. recovering \in BOOLEAN
    OBVIOUS
  <2> HIDE DEF recovering
  <2> QED
    BY <1>1, <2>1, <2>2 DEF Locals
<1>4. /\ history' \in Histories /\ history'.implementers = history.implementers
      /\ history'.used = [history.used EXCEPT ![phase] = @ + 1]
  <2> DEFINE used == [history.used EXCEPT ![phase] = @ + 1]
             attempted == IF phase = "testing" THEN TRUE
                          ELSE IF phase = "implementing" THEN FALSE ELSE history.attempted
             pending == history.pending \ {<<phase, p>>}
  <2>1. history' = [history EXCEPT !.used = used, !.attempted = attempted, !.pending = pending]
    BY DEF AcquireLease
  <2>2. history.used \in [Phases -> Nat] /\ history.attempted \in BOOLEAN
        /\ history.pending \in SUBSET (Phases \X Providers)
    BY <1>1 DEF Histories
  <2>3. used \in [Phases -> Nat]
    BY <1>1, <2>2, CountUp
  <2>4. attempted \in BOOLEAN
    BY <2>2
  <2>5. pending \in SUBSET (Phases \X Providers)
    BY <2>2
  <2> HIDE DEF used, attempted, pending
  <2>6. /\ history' \in Histories /\ history'.implementers = history.implementers
        /\ history'.used = used
    BY <1>1, <2>1, <2>3, <2>4, <2>5 DEF Histories
  <2> QED
    BY <2>6 DEF used
<1>5. /\ evidence' \in Evidence
      /\ phase = "reviewing" => evidence' = evidence
  BY <1>1 DEF AcquireLease, Evidence, Writing
<1>6. TypeOK'
  BY <1>1, <1>2, <1>3, <1>4, <1>5 DEF IInv, TypeOK, Quiet
<1>7. ValidationHeld'
  BY <1>1, <1>2, <1>3, <1>5 DEF IInv, ValidationHeld, Awake
<1>8. ReviewersHeld'
  BY <1>1, <1>3, <1>4 DEF IInv, ReviewersHeld, Awake, Quiet
<1>9. PhaseRoom'
  <2>1. \A q \in dna.phases : q \in Phases /\ history.used[q] \in Nat /\ Allowed(q) \in Nat
    BY <1>1, DnaType DEF IInv, Histories
  <2>2. \A q \in dna.phases : history'.used[q] <= Allowed(q)
    BY <1>1, <1>4, <2>1 DEF IInv, PhaseRoom, Histories
  <2> QED
    BY <1>1, <1>3, <2>2 DEF PhaseRoom, Allowed, Quiet
<1>10. StepRoom'
  <2>1. Granted' = Granted
    BY <1>1, <1>2 DEF Granted, DnaMaxSteps, Quiet
  <2>2. local.steps \in Nat /\ local.max \in Nat
    BY <1>1 DEF Locals
  <2> QED
    BY <1>1, <1>2, <1>3, <2>1, <2>2 DEF IInv, StepRoom, Awake
<1> QED
  BY <1>6, <1>7, <1>8, <1>9, <1>10 DEF IInv

\* What is known of an execution, and of its locals once its step is counted.
LEMMA ExecutingFacts ==
  ASSUME IInv, local.at = "executing"
  PROVE  /\ local \in Locals /\ run \in RunRows /\ Awake
         /\ history \in Histories /\ evidence \in Evidence
         /\ disturbances \in 0 .. MaxDisturbances
         /\ local.provider \in Providers /\ local.provider \notin local.excluded
         /\ local.phase \in Phases /\ local.excluded \in SUBSET Providers
         /\ run.validation = "passed" => local.phase = "reviewing"
         /\ \A counts \in BOOLEAN :
              /\ Counted(counts) \in Locals /\ Counted(counts).phase = local.phase
              /\ Counted(counts).steps <= local.max + 1
              /\ Counted(counts).max = local.max /\ Counted(counts).currentMax = local.currentMax
              /\ Counted(counts).excluded = local.excluded /\ Counted(counts).known = local.known
<1>1. /\ local \in Locals /\ run \in RunRows /\ Awake /\ history \in Histories
      /\ evidence \in Evidence /\ disturbances \in 0 .. MaxDisturbances
      /\ local.provider \in Providers /\ local.provider \notin local.excluded
      /\ run.validation = "passed" => local.phase = "reviewing"
      /\ local.steps <= local.max
  BY DEF IInv, TypeOK, ValidationHeld, ReviewersHeld, StepRoom, Awake
<1>2. /\ local.phase \in Phases /\ local.excluded \in SUBSET Providers
      /\ local.steps \in Nat /\ local.max \in Nat
  BY <1>1 DEF Locals
<1>3. ASSUME NEW counts \in BOOLEAN
      PROVE  /\ Counted(counts) \in Locals /\ Counted(counts).phase = local.phase
             /\ Counted(counts).steps <= local.max + 1
             /\ Counted(counts).max = local.max /\ Counted(counts).currentMax = local.currentMax
             /\ Counted(counts).excluded = local.excluded /\ Counted(counts).known = local.known
  BY <1>1, <1>2, CountedEffect DEF IInv
<1> QED
  BY <1>1, <1>2, <1>3

\* A step ended without a completed row: another provider may take over, none
\* of the excluded ones is let in again.
LEMMA StepOverPreserves ==
  ASSUME IInv, local.at = "executing", NEW counts \in BOOLEAN,
         NEW excluded \in SUBSET Providers,
         local.excluded \subseteq excluded \/ local.phase # "reviewing",
         NEW at \in {"loop", "failedOver", "rerouting"},
         local' = [Counted(counts) EXCEPT !.excluded = excluded, !.at = at],
         history' \in Histories, history'.used = history.used,
         history'.implementers = history.implementers,
         disturbances' \in 0 .. MaxDisturbances, UNCHANGED <<run, evidence>>, Quiet
  PROVE  IInv'
<1> DEFINE c == Counted(counts)
           l == [c EXCEPT !.excluded = excluded, !.at = at]
<1>1. /\ c \in Locals /\ c.phase = local.phase /\ c.steps <= local.max + 1
      /\ c.max = local.max /\ c.currentMax = local.currentMax /\ c.known = local.known
      /\ Awake /\ evidence \in Evidence
  BY ExecutingFacts
<1> HIDE DEF c
<1>2. /\ l \in Locals /\ l.at = at /\ l.phase = c.phase /\ l.steps = c.steps
      /\ l.max = c.max /\ l.currentMax = c.currentMax
      /\ l.excluded = excluded /\ l.known = c.known
  BY <1>1 DEF Locals
<1>3. local' = l
  BY DEF c
<1> HIDE DEF l
<1>4. run.validation = "passed" => l.phase \in {"testing", "reviewing"}
  BY <1>1, <1>2, ExecutingFacts
<1>5. l.phase = "reviewing" /\ dna.requireReview /\ ~(l.known \subseteq history'.implementers)
        => history'.implementers \subseteq l.excluded
  BY <1>1, <1>2 DEF IInv, ReviewersHeld
<1> QED
  BY <1>1, <1>2, <1>3, <1>4, <1>5, GoesOnPreserves

LEMMA StepCompletedStep ==
  ASSUME IInv, StepCompleted
  PROVE  IInv'
<1> USE DEF Rest
<1> DEFINE c == Counted(TRUE)
<1>1. local.at = "executing" /\ UNCHANGED disturbances /\ Quiet
  BY DEF StepCompleted
<1>2. /\ c \in Locals /\ c.phase = local.phase /\ c.steps <= local.max + 1
      /\ c.max = local.max /\ c.currentMax = local.currentMax
      /\ c.excluded = local.excluded /\ c.known = local.known
      /\ Awake /\ run \in RunRows /\ disturbances \in 0 .. MaxDisturbances
  BY <1>1, ExecutingFacts
<1>3. /\ history' \in Histories /\ history'.used = history.used
      /\ history'.implementers = ImplementersNow
      /\ ImplementersNow \in SUBSET Providers
  <2> DEFINE latest == IF local.phase = "reviewing" THEN local.provider ELSE history.latestReview
  <2>1. history' = [history EXCEPT !.implementers = ImplementersNow, !.latestReview = latest]
    BY DEF StepCompleted
  <2>2. /\ history \in Histories /\ local.provider \in Providers
    BY <1>1, ExecutingFacts
  <2>3. /\ ImplementersNow \in SUBSET Providers /\ latest \in Providers \cup {NoProvider}
    BY <2>2 DEF ImplementersNow, Histories
  <2> HIDE DEF latest
  <2> QED
    BY <2>1, <2>2, <2>3 DEF Histories
<1>4. evidence' \in Evidence /\ evidence'.tested = evidence.tested
  <2> DEFINE reviewed == evidence.reviewed \/ local.phase = "reviewing"
  <2>1. evidence' = [evidence EXCEPT !.reviewed = reviewed]
    BY DEF StepCompleted
  <2>2. evidence \in Evidence
    BY DEF IInv, TypeOK
  <2>3. reviewed \in BOOLEAN
    OBVIOUS
  <2> HIDE DEF reviewed
  <2> QED
    BY <2>1, <2>2, <2>3 DEF Evidence
<1>5. CASE Pause(run, c, c.currentMax) \/ HardStop(run, c) \/ BudgetStop(run, c)
  <2> HIDE DEF c
  <2>1. Stopped(run, c)
    BY <1>2, <1>5, EndsStop
  <2> QED
    BY <1>1, <1>2, <1>3, <1>4, <2>1, StopPreserves
<1>6. ASSUME UNCHANGED run, local.phase = "testing", local' = Again(c, {})
      PROVE  IInv'
  <2> HIDE DEF c
  <2> DEFINE l == [c EXCEPT !.excluded = {}, !.at = "loop"]
  <2>1. /\ l \in Locals /\ l.at = "loop" /\ l.phase = c.phase /\ l.steps = c.steps
        /\ l.max = c.max /\ l.currentMax = c.currentMax
    BY <1>2 DEF Locals
  <2>2. local' = l
    BY <1>2, <1>6 DEF Again, Locals
  <2> HIDE DEF l
  <2> QED
    BY <1>1, <1>2, <1>3, <1>4, <1>6, <2>1, <2>2, GoesOnPreserves
<1>7. ASSUME UNCHANGED run, local' = [c EXCEPT !.at = "delivering"]
      PROVE  IInv'
  <2> HIDE DEF c
  <2> DEFINE l == [c EXCEPT !.at = "delivering"]
  <2>1. /\ l \in Locals /\ l.at = "delivering" /\ l.phase = c.phase /\ l.steps = c.steps
        /\ l.max = c.max /\ l.currentMax = c.currentMax
        /\ l.excluded = c.excluded /\ l.known = c.known
    BY <1>2 DEF Locals
  <2>2. local' = l
    BY <1>7
  <2> HIDE DEF l
  <2>3. run.validation = "passed" => l.phase \in {"testing", "reviewing"}
    BY <1>1, <1>2, <2>1, ExecutingFacts
  <2>4. l.phase = "reviewing" /\ dna.requireReview /\ ~(l.known \subseteq history'.implementers)
          => history'.implementers \subseteq l.excluded
    BY <1>2, <1>3, <2>1 DEF ImplementersNow, IInv, ReviewersHeld
  <2> QED
    BY <1>1, <1>2, <1>3, <1>4, <1>7, <2>1, <2>2, <2>3, <2>4, GoesOnPreserves
<1>8. ASSUME UNCHANGED run, NEW next \in Phases, IsNext(local.phase, next),
             local' = Enter(c, next, ImplementersNow)
      PROVE  IInv'
  <2> HIDE DEF c
  <2> DEFINE l == Enter(c, next, ImplementersNow)
  <2>1. /\ l \in Locals /\ l.at = "loop" /\ l.phase = next /\ l.steps = c.steps
        /\ l.max = c.max /\ l.currentMax = c.currentMax
        /\ next = "reviewing" /\ dna.requireReview /\ ~(l.known \subseteq ImplementersNow)
             => ImplementersNow \subseteq l.excluded
    BY <1>2, <1>3, EnterEffect DEF IInv
  <2>2. local' = l
    BY <1>8
  <2> HIDE DEF l
  <2>3. run.validation # "passed"
    <3>1. local.phase # "reviewing"
      BY <1>8 DEF IsNext, After, Place, Phases
    <3> QED
      BY <1>1, <3>1, ExecutingFacts
  <2> QED
    BY <1>1, <1>2, <1>3, <1>4, <1>8, <2>1, <2>2, <2>3, GoesOnPreserves
<1> QED
  BY <1>5, <1>6, <1>7, <1>8 DEF StepCompleted

\* A self-recovery attempt is an event; the implementers stay who they are.
LEMMA RecoveryEffect ==
  ASSUME IInv, local.at = "executing", NEW counts \in BOOLEAN,
         SelfRecovery(Counted(counts)), UNCHANGED evidence, Quiet
  PROVE  IInv'
<1> DEFINE c == Counted(counts)
           attempt == <<local.phase, local.provider>>
           recovered == history.recovered \cup {attempt}
           pending == history.pending \cup {attempt}
<1>1. /\ c \in Locals /\ c.excluded = local.excluded
      /\ history \in Histories /\ local.excluded \in SUBSET Providers
      /\ local.provider \in Providers /\ local.provider \notin local.excluded
      /\ local.phase \in Phases
  BY ExecutingFacts
<1>2. /\ history' = [history EXCEPT !.recovered = recovered, !.pending = pending]
      /\ local' = Again(c, local.excluded \ {local.provider})
      /\ UNCHANGED run
      /\ disturbances' \in 0 .. MaxDisturbances
  BY RunnerAssumptions DEF SelfRecovery, Disturbs, IInv, TypeOK
<1>3. recovered \in SUBSET (Phases \X Providers) /\ pending \in SUBSET (Phases \X Providers)
  BY <1>1 DEF Histories
<1> HIDE DEF recovered, pending
<1>4. /\ history' \in Histories /\ history'.used = history.used
      /\ history'.implementers = history.implementers
  BY <1>1, <1>2, <1>3 DEF Histories
<1>5. local.excluded \ {local.provider} = local.excluded
  BY <1>1
<1>6. local' = [c EXCEPT !.excluded = local.excluded, !.at = "loop"]
  BY <1>1, <1>2, <1>5 DEF Again, Locals
<1> QED
  BY <1>1, <1>2, <1>4, <1>6, StepOverPreserves

\* Every way a step of a provider ends without success.
LEMMA StepOverStep ==
  ASSUME IInv,
         \/ StepIdle
         \/ \E retryable \in BOOLEAN : StepFailed(retryable)
         \/ StepBlocked
         \/ ChangesRequested
  PROVE  IInv'
<1> USE DEF Rest
<1>1. local.at = "executing"
  BY DEF StepIdle, StepFailed, StepBlocked, ChangesRequested
<1>2. /\ run \in RunRows /\ Awake /\ history \in Histories /\ evidence \in Evidence
      /\ disturbances \in 0 .. MaxDisturbances
      /\ local.excluded \in SUBSET Providers /\ local.provider \in Providers
      /\ local.provider \notin local.excluded
      /\ \A counts \in BOOLEAN :
           /\ Counted(counts) \in Locals /\ Counted(counts).phase = local.phase
           /\ Counted(counts).steps <= local.max + 1 /\ Counted(counts).max = local.max
           /\ Counted(counts).currentMax = local.currentMax
           /\ Counted(counts).excluded = local.excluded
           /\ Counted(counts).known = local.known
  BY <1>1, ExecutingFacts
<1>3. ASSUME NEW counts \in BOOLEAN,
             NEW excluded \in {local.excluded, local.excluded \cup {local.provider}},
             NEW at \in {"loop", "failedOver", "rerouting"},
             local' = [Counted(counts) EXCEPT !.excluded = excluded, !.at = at],
             UNCHANGED <<run, history, disturbances, evidence>>, Quiet
      PROVE  IInv'
  BY <1>1, <1>2, <1>3, StepOverPreserves
<1>4. ASSUME NEW row \in {run, RowRejected}, NEW counts \in BOOLEAN,
             \/ Pause(row, Counted(counts), Counted(counts).currentMax)
             \/ HardStop(row, Counted(counts))
             \/ BudgetStop(row, Counted(counts))
             \/ Finish(row, Counted(counts), "failed", "other")
             \/ Finish(row, Counted(counts), "blocked", "other"),
             UNCHANGED <<history, disturbances, evidence>>, Quiet
      PROVE  IInv'
  <2>1. /\ row \in RunRows /\ row.validation \in {run.validation, "failed"}
        /\ row.maxSteps = run.maxSteps
    BY <1>2 DEF RowRejected, RunRows
  <2>2. Stopped(row, Counted(counts))
    BY <1>2, <1>4, <2>1, EndsStop
  <2> QED
    BY <1>2, <1>4, <2>1, <2>2, StopPreserves
<1>5. CASE StepIdle
  <2>1. /\ local' = [Counted(TRUE) EXCEPT !.excluded = local.excluded \cup {local.provider},
                                          !.at = "rerouting"]
        /\ UNCHANGED <<run, history, disturbances, evidence>> /\ Quiet
    BY <1>2, <1>5 DEF StepIdle
  <2> QED
    BY <1>3, <2>1
<1>6. ASSUME NEW retryable \in BOOLEAN, StepFailed(retryable)
      PROVE  IInv'
  <2> DEFINE counts == ~retryable
  <2>1. counts \in BOOLEAN /\ UNCHANGED evidence /\ Quiet
    BY <1>6 DEF StepFailed
  <2>2. \/ SelfRecovery(Counted(counts))
        \/ /\ \/ Pause(run, Counted(counts), Counted(counts).currentMax)
              \/ HardStop(run, Counted(counts))
              \/ /\ local' = [Counted(counts) EXCEPT !.excluded = @ \cup {local.provider},
                                                       !.at = "failedOver"]
                 /\ UNCHANGED run
           /\ UNCHANGED <<history, disturbances>>
    BY <1>6 DEF StepFailed
  <2> HIDE DEF counts
  <2>3. Counted(counts).excluded = local.excluded
    BY <1>2, <2>1
  <2> QED
    BY <1>1, <1>3, <1>4, <2>1, <2>2, <2>3, RecoveryEffect
<1>7. CASE StepBlocked
  <2>1. UNCHANGED evidence /\ Quiet /\ Counted(TRUE).excluded = local.excluded
        /\ local.excluded \ {local.provider} = local.excluded
    BY <1>2, <1>7 DEF StepBlocked
  <2>2. ASSUME local' = Again(Counted(TRUE), local.excluded \ {local.provider}),
               UNCHANGED <<run, history, disturbances>>
        PROVE  IInv'
    <3>1. local' = [Counted(TRUE) EXCEPT !.excluded = local.excluded, !.at = "loop"]
      BY <1>2, <2>1, <2>2 DEF Again, Locals
    <3> QED
      BY <1>3, <2>1, <2>2, <3>1
  <2>3. ASSUME local' = [Counted(TRUE) EXCEPT !.excluded = @ \cup {local.provider},
                                              !.at = "rerouting"],
               UNCHANGED <<run, history, disturbances>>
        PROVE  IInv'
    BY <1>3, <2>1, <2>3
  <2> QED
    BY <1>1, <1>4, <1>7, <2>1, <2>2, <2>3, RecoveryEffect DEF StepBlocked
<1>8. CASE ChangesRequested
  <2>1. UNCHANGED <<history, disturbances, evidence>> /\ Quiet
    BY <1>8 DEF ChangesRequested
  <2>2. ASSUME local.phase = "reviewing", run' = RowRejected,
               local' = Again([Counted(TRUE) EXCEPT !.phase = "implementing", !.known = {}], {})
        PROVE  IInv'
    <3> DEFINE c == Counted(TRUE)
               l == [c EXCEPT !.phase = "implementing", !.known = {}, !.at = "loop", !.excluded = {}]
    <3>1. c \in Locals /\ c.steps <= local.max + 1 /\ c.max = local.max
          /\ c.currentMax = local.currentMax
      BY <1>2
    <3>2. local' = l
      BY <1>2, <2>2 DEF Again
    <3> HIDE DEF c
    <3>3. /\ l \in Locals /\ l.at = "loop" /\ l.phase = "implementing" /\ l.steps = c.steps
          /\ l.max = c.max /\ l.currentMax = c.currentMax
      BY <3>1 DEF Locals, Phases
    <3> HIDE DEF l
    <3>4. run' = [run EXCEPT !.validation = "failed"] /\ run'.validation = "failed"
      BY <1>2, <2>2 DEF RowRejected, RunRows
    <3> QED
      BY <1>2, <2>1, <3>1, <3>2, <3>3, <3>4, GoesOnPreserves
  <2> QED
    BY <1>4, <1>8, <2>1, <2>2 DEF ChangesRequested
<1> QED
  BY <1>5, <1>6, <1>7, <1>8

\* A provider is looked for: nobody is ready, or another place of the loop.
LEMMA RouteStep ==
  ASSUME IInv, NobodyReady \/ FailedOver \/ Rerouted
  PROVE  IInv'
<1> USE DEF Rest
<1>1. /\ local \in Locals /\ run \in RunRows /\ Awake /\ local.steps <= local.max + 1
      /\ history \in Histories /\ evidence \in Evidence
      /\ disturbances \in 0 .. MaxDisturbances
      /\ UNCHANGED <<history, evidence, disturbances>> /\ Quiet
  BY DEF NobodyReady, FailedOver, Rerouted, Awake, IInv, TypeOK, StepRoom
<1>2. \/ Pause(run, local, local.currentMax) \/ BudgetStop(run, local) \/ HardStop(run, local)
      \/ Finish(run, local, "failed", "other")
      \/ local' = Again(local, local.excluded) /\ UNCHANGED run
  BY DEF NobodyReady, FailedOver, Rerouted
<1>3. CASE local' = Again(local, local.excluded) /\ UNCHANGED run
  <2> DEFINE l == Again(local, local.excluded)
  <2>1. /\ l \in Locals /\ l.at = "loop" /\ l.phase = local.phase
        /\ l.max = local.max /\ l.currentMax = local.currentMax /\ l.steps = local.steps
        /\ l.known = local.known /\ l.excluded = local.excluded
    BY <1>1 DEF Again, Locals
  <2> HIDE DEF l
  <2> QED
    BY <1>1, <1>3, <2>1, GoesOnPreserves DEF IInv, ValidationHeld, ReviewersHeld, l
<1>4. CASE Stopped(run, local)
  BY <1>1, <1>4, StopPreserves
<1> QED
  BY <1>1, <1>2, <1>3, <1>4, EndsStop

LEMMA DeliveryStep ==
  ASSUME IInv, Delivery
  PROVE  IInv'
<1> USE DEF Rest, AtRest
<1>1. /\ local \in Locals /\ run \in RunRows /\ local.at = "delivering" /\ Awake
      /\ local.steps <= local.max + 1 /\ history \in Histories /\ evidence \in Evidence
      /\ disturbances \in 0 .. MaxDisturbances
      /\ UNCHANGED <<history, evidence, disturbances>> /\ Quiet
  BY DEF Delivery, DeliverAgain, DeliveryRefused, DeliveryFailed, Delivered, Delivering,
         Awake, IInv, TypeOK, StepRoom
<1>2. CASE DeliverAgain
  BY <1>1, <1>2, SleepPreserves DEF DeliverAgain
<1>3. CASE DeliveryRefused \/ DeliveryFailed
  <2>1. \E category \in {"budget_exhausted", "other"} : Finish(run, local, "blocked", category)
    BY <1>3 DEF DeliveryRefused, DeliveryFailed
  <2>2. Stopped(run, local)
    BY <1>1, <2>1, EndsStop
  <2> QED
    BY <1>1, <2>2, StopPreserves
<1>4. ASSUME NEW commit \in BOOLEAN, Delivered(commit)
      PROVE  IInv'
  <2> DEFINE row == [run EXCEPT !.commit = commit]
  <2>1. /\ row \in RunRows /\ row.validation = run.validation /\ row.maxSteps = run.maxSteps
    BY <1>1 DEF RunRows
  <2>2. Stopped(row, local)
    BY <1>1, <1>4 DEF Delivered, Stopped, RunRows, Locals
  <2> HIDE DEF row
  <2> QED
    BY <1>1, <2>1, <2>2, StopPreserves
<1> QED
  BY <1>2, <1>3, <1>4 DEF Delivery

-----------------------------------------------------------------------------
(* The coordinator, and the end of a process                               *)

\* A retry has a budget that is no smaller.
LEMMA WakeStep ==
  ASSUME IInv, Resume \/ ResumeExistingRun \/ RetryRun \/ RequestChanges
  PROVE  IInv'
<1>1. /\ run \in RunRows /\ history \in Histories
      /\ run.steps \in Nat /\ run.maxSteps \in Nat /\ run.phase \in Phases
      /\ UNCHANGED evidence /\ Quiet /\ disturbances' \in 0 .. MaxDisturbances
  BY RunnerAssumptions DEF Resume, ResumeExistingRun, RetryRun, RequestChanges, Wakes, Disturbs,
     IInv, TypeOK, RunRows
<1>2. ASSUME FreshWindow
      PROVE  /\ history' \in Histories /\ history'.implementers = history.implementers
             /\ \A p \in Phases : history'.used[p] \in {history.used[p], 0}
  BY <1>1, <1>2 DEF FreshWindow, Histories
<1>3. CASE Resume
  <2>1. run.status = "waiting_provider" /\ Execute(run) /\ UNCHANGED history
    BY <1>3 DEF Resume
  <2> QED
    BY <1>1, <2>1, CallPreserves
<1>4. CASE ResumeExistingRun
  <2> DEFINE row == [run EXCEPT !.status = "waiting_provider"]
  <2>1. Execute(row) /\ FreshWindow
    BY <1>4 DEF ResumeExistingRun
  <2>2. /\ row \in RunRows /\ row.maxSteps = run.maxSteps /\ row.steps = run.steps
        /\ row.validation = run.validation /\ row.status = "waiting_provider"
        /\ row.phase = run.phase
    BY <1>1 DEF RunRows
  <2> HIDE DEF row
  <2> QED
    BY <1>1, <1>2, <2>1, <2>2, CallPreserves
<1>5. CASE RetryRun
  <2> DEFINE max == Larger(run.maxSteps, Elevated(run.maxSteps))
             row == [run EXCEPT !.status = "waiting_provider", !.maxSteps = max]
  <2>1. Execute(row) /\ FreshWindow
    BY <1>5 DEF RetryRun
  <2>2. max \in Nat /\ run.maxSteps <= max
    BY <1>1, ElevatedType DEF Larger
  <2> HIDE DEF max
  <2>3. /\ row \in RunRows /\ row.maxSteps = max /\ row.steps = run.steps
        /\ row.validation = run.validation /\ row.status = "waiting_provider"
        /\ row.phase = run.phase
    BY <1>1, <2>2 DEF RunRows
  <2> HIDE DEF row
  <2> QED
    BY <1>1, <1>2, <2>1, <2>2, <2>3, CallPreserves
<1>6. CASE RequestChanges
  <2> DEFINE max == Larger(run.maxSteps, run.steps + 4)
             row == [run EXCEPT !.status = "running", !.phase = "implementing",
                                !.maxSteps = max, !.validation = "failed"]
  <2>1. Execute(row) /\ FreshWindow
    BY <1>6 DEF RequestChanges
  <2>2. max \in Nat /\ run.maxSteps <= max
    BY <1>1 DEF Larger
  <2> HIDE DEF max
  <2>3. /\ row \in RunRows /\ row.maxSteps = max /\ row.steps = run.steps
        /\ row.validation = "failed"
    BY <1>1, <2>2 DEF RunRows, Phases
  <2> HIDE DEF row
  <2> QED
    BY <1>1, <1>2, <2>1, <2>2, <2>3, CallPreserves
<1> QED
  BY <1>3, <1>4, <1>5, <1>6

LEMMA OutsideStep ==
  ASSUME IInv,
         \/ \E exists \in BOOLEAN : Restart(exists)
         \/ \E now \in SUBSET Providers : ReviewersChange(now)
  PROVE  IInv'
<1>1. disturbances' \in 0 .. MaxDisturbances
  BY RunnerAssumptions DEF Restart, ReviewersChange, Disturbs, IInv, TypeOK
<1>2. ASSUME NEW exists \in BOOLEAN, Restart(exists)
      PROVE  IInv'
  <2>1. /\ run' \in RunRows /\ run'.validation = run.validation /\ run'.phase = run.phase
        /\ run'.steps = run.steps /\ run'.maxSteps = run.maxSteps
    <3>1. run \in RunRows
      BY DEF IInv, TypeOK
    <3>2. \/ run' = run
          \/ run' = [run EXCEPT !.status = "waiting_provider"]
          \/ run' = [run EXCEPT !.status = "blocked"]
      BY <1>2 DEF Restart
    <3> QED
      BY <3>1, <3>2 DEF RunRows
  <2> QED
    BY <1>1, <1>2, <2>1, SleepPreserves DEF Restart
<1>3. ASSUME NEW now \in SUBSET Providers, ReviewersChange(now)
      PROVE  IInv'
  <2>1. UNCHANGED <<dna, run, history, local, evidence>> /\ reviewers' = now
    BY <1>3 DEF ReviewersChange
  <2>2. Granted' = Granted
    BY <2>1 DEF Granted, DnaMaxSteps
  <2> QED
    BY <1>1, <2>1, <2>2 DEF IInv, TypeOK, ValidationHeld, ReviewersHeld, PhaseRoom, Allowed,
       StepRoom, Awake
<1> QED
  BY <1>2, <1>3

LEMMA NextPreserves ==
  ASSUME IInv, [Next]_vars
  PROVE  IInv'
<1>1. CASE UNCHANGED vars
  <2>1. Granted' = Granted
    BY <1>1 DEF vars, Granted, DnaMaxSteps
  <2> QED
    BY <1>1, <2>1 DEF vars, IInv, TypeOK, ValidationHeld, ReviewersHeld, PhaseRoom, Allowed,
       StepRoom, Awake
<1>2. CASE RunTaskGoal
  BY <1>2, LoopHeadStep, ValidationStep, AcquireStep, RouteStep, StepCompletedStep, StepOverStep,
     DeliveryStep DEF RunTaskGoal, ProviderStep
<1> QED
  BY <1>1, <1>2, WakeStep, OutsideStep DEF Next

LEMMA InitHolds ==
  ASSUME Init
  PROVE  IInv
<1>1. PICK max \in InitialMaxSteps :
        run = [status |-> "running", phase |-> "planning", steps |-> 0,
               maxSteps |-> max, validation |-> "none", category |-> "other", commit |-> FALSE]
  BY DEF Init
<1>2. PICK phase \in Phases : local = Call(run, phase, {})
  BY DEF Init
<1>3. run \in RunRows /\ run.validation = "none" /\ run.steps = 0 /\ run.maxSteps = max
      /\ max \in Nat
  BY <1>1, RunnerAssumptions DEF RunRows, Phases
<1>4. history \in Histories /\ history.implementers = {} /\ \A p \in Phases : history.used[p] = 0
  BY DEF Init, Histories
<1>5. DnaMaxSteps \in Nat /\ dna.phases \subseteq Phases /\ \A p \in Phases : Allowed(p) \in Nat
  <2>1. dna \in DNARecords
    BY RunnerAssumptions DEF Init
  <2>2. dna.phases \subseteq Phases /\ dna.budget \in [Phases -> Nat]
    BY <2>1 DEF DNARecords
  <2> QED
    BY <2>2, RunnerAssumptions DEF DnaMaxSteps, Allowed, Phases
<1>6. /\ local \in Locals /\ local.at = "loop" /\ local.steps = 0
      /\ local.max = Granted /\ local.currentMax = Granted /\ Granted \in Nat
      /\ max <= Granted
  <2>1. Granted \in Nat /\ max <= Granted /\ Granted = Larger(run.maxSteps, DnaMaxSteps)
    BY <1>3, <1>5 DEF Granted, Larger
  <2>2. ExcludedFor(phase, {}, history.implementers) \in SUBSET Providers
        /\ KnownIn(phase) \in SUBSET Providers
    BY <1>4 DEF ExcludedFor, KnownIn, Init
  <2> DEFINE excluded == ExcludedFor(phase, {}, history.implementers)
             known == KnownIn(phase)
  <2>3. local = [Asleep EXCEPT !.at = "loop", !.phase = phase, !.steps = 0, !.max = Granted,
                               !.currentMax = Granted, !.known = known, !.excluded = excluded]
    BY <1>2, <1>3, <2>1 DEF Call
  <2> HIDE DEF excluded, known
  <2> QED
    BY <2>1, <2>2, <2>3 DEF Asleep, Locals, excluded, known
<1>7. TypeOK
  BY <1>3, <1>4, <1>6, RunnerAssumptions DEF Init, TypeOK, Evidence
<1>8. ValidationHeld /\ ReviewersHeld /\ StepRoom
  BY <1>3, <1>4, <1>6 DEF ValidationHeld, ReviewersHeld, StepRoom, Awake
<1>9. PhaseRoom
  BY <1>4, <1>5, <1>6 DEF PhaseRoom
<1> QED
  BY <1>7, <1>8, <1>9 DEF IInv

LEMMA Invariant == Spec => []IInv
BY InitHolds, NextPreserves, PTL DEF Spec

\* Nothing but a delivery says that there is a commit, or that there is none.
LEMMA OnlyDeliveryCommits ==
  ASSUME IInv, [Next]_vars, run'.commit # run.commit
  PROVE  \E commit \in BOOLEAN : Delivered(commit)
<1>1. run \in RunRows /\ local \in Locals /\ run.validation \in {"none", "passed", "failed"}
  BY DEF IInv, TypeOK, RunRows
<1>2. CASE LoopHead \/ NobodyReady \/ FailedOver \/ Rerouted
  <2>1. \/ Stopped(run, local)
        \/ UNCHANGED run
        \/ run' = [run EXCEPT !.status = "running", !.phase = local.phase, !.steps = local.steps]
    BY <1>1, <1>2, EndsStop
       DEF LoopHead, StepsExhausted, LoopStopped, PhaseUsedUp, StartIteration, NobodyReady,
           FailedOver, Rerouted
  <2> QED
    BY <1>1, <2>1 DEF Stopped, RunRows
<1>3. CASE Validation
  <2>1. \/ Stopped(run, local)
        \/ \E verdict \in {"passed", "failed"} : run' = [run EXCEPT !.validation = verdict]
    BY <1>1, <1>3, EndsStop DEF Validation, ValidationPassed, ValidationFailed, ValidationThrew
  <2> QED
    BY <1>1, <2>1 DEF Stopped, RunRows
<1>4. ASSUME NEW p \in Providers, AcquireLease(p)
      PROVE  FALSE
  BY <1>1, <1>4 DEF AcquireLease, RunRows
<1>5. CASE StepCompleted \/ StepIdle \/ StepBlocked \/ ChangesRequested
           \/ \E retryable \in BOOLEAN : StepFailed(retryable)
  <2>1. local.at = "executing"
    BY <1>5 DEF StepCompleted, StepIdle, StepBlocked, ChangesRequested, StepFailed
  <2>2. RowRejected \in RunRows /\ RowRejected.commit = run.commit
    BY <1>1 DEF RowRejected, RunRows
  <2>3. \A counts \in BOOLEAN : Counted(counts) \in Locals
    BY <2>1, ExecutingFacts
  <2>4. ASSUME NEW row \in {run, RowRejected}, NEW counts \in BOOLEAN,
               \/ Pause(row, Counted(counts), Counted(counts).currentMax)
               \/ HardStop(row, Counted(counts))
               \/ BudgetStop(row, Counted(counts))
               \/ Finish(row, Counted(counts), "failed", "other")
               \/ Finish(row, Counted(counts), "blocked", "other")
        PROVE  run'.commit = run.commit
    BY <1>1, <2>2, <2>3, <2>4, EndsStop DEF Stopped
  <2>5. \/ run' \in {run, RowRejected}
        \/ \E row \in {run, RowRejected}, counts \in BOOLEAN :
             \/ Pause(row, Counted(counts), Counted(counts).currentMax)
             \/ HardStop(row, Counted(counts))
             \/ BudgetStop(row, Counted(counts))
             \/ Finish(row, Counted(counts), "failed", "other")
             \/ Finish(row, Counted(counts), "blocked", "other")
    <3>1. CASE StepCompleted
      BY <3>1 DEF StepCompleted
    <3>2. CASE StepIdle
      BY <3>2 DEF StepIdle
    <3>3. CASE StepBlocked
      BY <3>3 DEF StepBlocked, SelfRecovery
    <3>4. CASE ChangesRequested
      BY <3>4 DEF ChangesRequested
    <3>5. ASSUME NEW retryable \in BOOLEAN, StepFailed(retryable)
          PROVE  \/ UNCHANGED run
                 \/ Pause(run, Counted(~retryable), Counted(~retryable).currentMax)
                 \/ HardStop(run, Counted(~retryable))
      BY <3>5 DEF StepFailed, SelfRecovery
    <3> QED
      BY <1>5, <3>1, <3>2, <3>3, <3>4, <3>5
  <2> QED
    BY <2>2, <2>4, <2>5
<1>6. CASE DeliverAgain \/ DeliveryRefused \/ DeliveryFailed
  <2>1. \/ UNCHANGED run
        \/ \E category \in {"budget_exhausted", "other"} : Finish(run, local, "blocked", category)
    BY <1>6 DEF DeliverAgain, DeliveryRefused, DeliveryFailed
  <2> QED
    BY <1>1, <2>1, EndsStop DEF Stopped
<1>7. CASE Resume \/ ResumeExistingRun \/ RetryRun \/ RequestChanges
  BY <1>1, <1>7 DEF Resume, ResumeExistingRun, RetryRun, RequestChanges, Execute, RunRows
<1>8. CASE \/ \E exists \in BOOLEAN : Restart(exists)
           \/ \E now \in SUBSET Providers : ReviewersChange(now)
  BY <1>1, <1>8 DEF Restart, ReviewersChange, RunRows
<1> QED
  BY <1>2, <1>3, <1>4, <1>5, <1>6, <1>7, <1>8
     DEF Next, RunTaskGoal, ProviderStep, Delivery, vars

-----------------------------------------------------------------------------
(* The theorems                                                            *)

\* Every variable of the runner keeps its type.
THEOREM TypeCorrect == Spec => []TypeOK
BY Invariant, PTL DEF IInv

\* The evidence a delivery goes by is about the worktree as it is, and who
\* reviews did not implement unless nobody else could have, through every
\* fallback, self-recovery, resume, retry, restart and request for changes.
THEOREM AcceptanceIsCurrentHolds == Spec => []AcceptanceIsCurrent
<1>1. IInv => AcceptanceIsCurrent
  BY DEF IInv, ValidationHeld, ReviewersHeld, AcceptanceIsCurrent, ValidationIsCurrent,
         IndependentReview, Awake
<1> QED
  BY <1>1, Invariant, PTL

\* No phase takes more steps than its window grants, and no run more than its
\* step budget and one, whatever it grew to.
THEOREM BudgetsRespectedHolds == Spec => []BudgetsRespected
<1>1. IInv => BudgetsRespected
  BY DEF IInv, PhaseRoom, Allowed, StepRoom, Awake, BudgetsRespected, PhaseBudgetRespected,
         StepBudgetRespected
<1> QED
  BY <1>1, Invariant, PTL

\* A commit is only recorded of a worktree that passed its tests as it is, if
\* its Task needs tests (deliverGoal).
THEOREM DeliveredIsTestedHolds == Spec => DeliveredIsTested
<1>1. ASSUME IInv, [Next]_vars, run.commit # run'.commit, dna.requireTests
      PROVE  evidence.tested
  <2>1. PICK commit \in BOOLEAN : Delivered(commit)
    BY <1>1, OnlyDeliveryCommits
  <2> QED
    BY <1>1, <2>1 DEF Delivered, TestsMissing, IInv, ValidationHeld
<1>2. IInv /\ [Next]_vars => [run.commit # run'.commit /\ dna.requireTests => evidence.tested]_vars
  BY <1>1
<1> QED
  BY <1>2, Invariant, PTL DEF Spec, DeliveredIsTested
=============================================================================
