----------------------- MODULE GoalCoordinatorProofs -----------------------
(***************************************************************************)
(* Proofs about GoalCoordinator for every set of Tasks and runs and every  *)
(* number of requests and restarts: its types, one writer per Task, one    *)
(* delivery per run, the finality of a cancelled run, that no busy Task is *)
(* without a run and no waiting run without a timer; and that all of it is *)
(* the lifecycle GoalLifecycle promises.                                   *)
(*                                                                         *)
(* Almost every action lets one run r take a Turn: its promise starts,     *)
(* goes on to another await, settles, or dies with the process.  The first *)
(* lemmas say that the ways a segment ends are turns, `TurnPromised` that  *)
(* a turn of a run that is Ready is a step of the lifecycle, and           *)
(* `TurnPreserves` that it preserves the inductive invariant.              *)
(***************************************************************************)
EXTENDS GoalCoordinator, TLAPS

Live == {"running", "waiting_provider"}
Busy == {"working", "waiting_provider"}

\* The row of an executing run says so ...
ExecutingIsLive == \A r \in Runs : at[r] # "settled" => run[r] \in Live

\* ... and nothing executes while no process serves.
DownIsIdle == proc \in {"down", "recovering"} => \A r \in Runs : at[r] = "settled"

\* A delivery that is not recorded was interrupted by the death of a process.
DeliveriesCounted ==
  \A r \in Runs : published[r] <= (IF r \in delivered THEN 1 ELSE 0) + restarts

\* `active` maps a Task to a run of its own.
ActiveIsOwn == \A t \in Tasks : active[t] # NoRun => TaskOf[active[t]] = t

\* A run somebody decided about stays completed.
DecidedIsCompleted == \A r \in reviewed : run[r] = "completed"

IInv ==
  /\ TypeOK /\ OneWriterPerTask /\ ExecutingIsLive /\ DownIsIdle /\ DeliveriesCounted
  /\ ActiveIsOwn /\ WorkingTaskHasRun /\ WaitingRunHasTimer /\ DecidedIsCompleted

\* A step of the lifecycle, or none.
Promised == Lifecycle!Next \/ UNCHANGED <<Workers, States, delivered, published, reviewed, restarts>>

\* Run r may take a turn: it executes, or nothing does for its Task.
Ready(r) ==
  \/ at[r] # "settled"
  \/ active[TaskOf[r]] = NoRun /\ proc \in {"up", "stopping"} /\ run[r] # "cancelled"
     /\ r \notin reviewed

Moves(r) ==
  \/ /\ proc' = proc /\ restarts' = restarts
     /\ \E point \in Awaits :
          /\ at' = [at EXCEPT ![r] = point]
          /\ active' = [active EXCEPT ![TaskOf[r]] = r]
          /\ run'[r] \in Live
  \/ /\ proc' = proc /\ restarts' = restarts
     /\ at' = [at EXCEPT ![r] = "settled"]
     /\ active' = [active EXCEPT ![TaskOf[r]] = NoRun]
  \/ /\ proc' = "down" /\ restarts' = restarts + 1 /\ run'[r] \in Live
     /\ at' = [q \in Runs |-> "settled"]
     /\ active' = [t \in Tasks |-> NoRun]

Counts(r) ==
  \/ /\ UNCHANGED <<delivered, published>>
     /\ restarts' = restarts \/ (restarts < MaxRestarts /\ restarts' = restarts + 1)
  \/ /\ r \notin delivered /\ run'[r] = "completed" /\ at'[r] = "settled"
     /\ delivered' = delivered \cup {r}
     /\ published' = [published EXCEPT ![r] = @ + 1]
     /\ UNCHANGED restarts
  \/ /\ r \notin delivered
     /\ restarts < MaxRestarts /\ restarts' = restarts + 1
     /\ delivered' \in {delivered, delivered \cup {r}}
     /\ published' = [published EXCEPT ![r] = @ + 1]

\* A Task that is busy after its run's turn has that run to show for it.
TellsTask(r) ==
  /\ \A t \in Tasks : t # TaskOf[r] => task'[t] = task[t]
  /\ task'[TaskOf[r]] \in Busy => run'[r] \in Live
  /\ run'[r] # "none"

\* A run that waits after its turn has a timer; nobody else lost his.
ArmsTimer(r) ==
  proc' = "up" =>
    /\ run'[r] = "waiting_provider" => r \in timers' \/ at'[r] # "settled"
    /\ \A q \in timers : q # r => q \in timers'

Turn(r) ==
  /\ task' \in [Tasks -> TaskStatuses]
  /\ run' \in [Runs -> RunStatuses]
  /\ \A q \in Runs : q # r => run'[q] = run[q]
  /\ TellsTask(r)
  /\ ArmsTimer(r)
  /\ timers' \in SUBSET Runs
  /\ aborted' \in SUBSET Runs
  /\ Moves(r)
  /\ Counts(r)

RestTyped ==
  /\ reviewed' = reviewed /\ sized' \in SUBSET Tasks
  /\ cancelRequested' \in SUBSET Tasks /\ humanActions' \in 0..MaxHumanActions

\* The rows a segment of run r may have written before it ends.
Rows(r, task0, run0) ==
  /\ task0 \in [Tasks -> TaskStatuses]
  /\ \A t \in Tasks : t # TaskOf[r] => task0[t] = task[t]
  /\ run0 \in [Runs -> RunStatuses]
  /\ \A q \in Runs : q # r => run0[q] = run[q]
  /\ run0[r] \in Live

-----------------------------------------------------------------------------
(* The ways a segment ends are turns                                       *)

LEMMA FinishTurn ==
  ASSUME IInv, NEW r \in Runs, NEW task0, NEW run0, Rows(r, task0, run0),
         NEW ts \in TaskStatuses, NEW rs \in RunStatuses \ {"none"},
         ts \in Busy => rs \in Live,
         Finish(r, task0, run0, ts, rs), UNCHANGED restarts
  PROVE  Turn(r)
<1>1. TaskOf[r] \in Tasks
  BY CoordinatorAssumptions
<1>2. task' \in [Tasks -> TaskStatuses]
  BY <1>1 DEF Finish, Rows
<1>3. run' \in [Runs -> RunStatuses] /\ \A q \in Runs : q # r => run'[q] = run[q]
  BY DEF Finish, Rows
<1>4. timers' \in SUBSET Runs /\ aborted' \in SUBSET Runs
  BY DEF Finish, Settle, IInv, TypeOK
<1>5. Moves(r)
  BY DEF Finish, Settle, Moves
<1>6. Counts(r)
  BY DEF Finish, Counts
<1>7. TellsTask(r)
  BY <1>1 DEF Finish, Rows, TellsTask
<1>8. ArmsTimer(r)
  BY DEF Finish, Settle, Rows, ArmsTimer
<1> QED
  BY <1>2, <1>3, <1>4, <1>5, <1>6, <1>7, <1>8 DEF Turn

LEMMA PauseTurn ==
  ASSUME IInv, NEW r \in Runs, NEW task0, NEW run0, Rows(r, task0, run0),
         PauseRun(r, task0, run0), UNCHANGED restarts
  PROVE  Turn(r)
BY FinishTurn DEF PauseRun, TaskStatuses, RunStatuses, Busy, Live

LEMMA FinishRunTurn ==
  ASSUME IInv, NEW r \in Runs, NEW task0, NEW run0, Rows(r, task0, run0),
         FinishRun(r, task0, run0), UNCHANGED restarts
  PROVE  Turn(r)
<1>1. PICK status \in {"blocked", "failed"} : Finish(r, task0, run0, status, status)
  BY DEF FinishRun
<1>2. status \in TaskStatuses /\ status \in RunStatuses /\ status \notin Busy
  BY DEF TaskStatuses, RunStatuses, Busy
<1> QED
  BY <1>1, <1>2, FinishTurn

LEMMA CancelTurn ==
  ASSUME IInv, NEW r \in Runs, NEW task0, NEW run0, Rows(r, task0, run0),
         CancelRun(r, task0, run0), UNCHANGED restarts
  PROVE  Turn(r)
BY FinishTurn DEF CancelRun, TaskStatuses, RunStatuses, Busy

LEMMA AwaitTurn ==
  ASSUME IInv, NEW r \in Runs, NEW point \in Awaits, Await(r, point),
         Rows(r, task', run'), UNCHANGED restarts
  PROVE  Turn(r)
<1>1. timers' \in SUBSET Runs /\ aborted' \in SUBSET Runs
  BY DEF Await, IInv, TypeOK
<1>2. Moves(r)
  BY DEF Await, Moves, Rows
<1>3. Counts(r)
  BY DEF Await, Counts
<1>4. at'[r] # "settled"
  BY DEF Await, Awaits, IInv, TypeOK
<1>5. TellsTask(r) /\ ArmsTimer(r)
  BY <1>4 DEF Await, Rows, Live, TellsTask, ArmsTimer
<1> QED
  BY <1>1, <1>2, <1>3, <1>5 DEF Turn, Rows

LEMMA DeliverTurn ==
  ASSUME IInv, NEW r \in Runs, NEW task0, NEW run0, Rows(r, task0, run0),
         DeliverGoal(r, task0, run0)
  PROVE  Turn(r)
<1>1. CASE /\ AlreadyDelivered(r)
           /\ task' = task0 /\ run' = run0
           /\ Settle(r, run0[r] = "waiting_provider")
           /\ UNCHANGED <<delivered, published, restarts>>
  <2>1. timers' \in SUBSET Runs /\ aborted' \in SUBSET Runs
    BY <1>1 DEF Settle, IInv, TypeOK
  <2>2. Moves(r) /\ Counts(r)
    BY <1>1 DEF Settle, Moves, Counts
  <2>3. TellsTask(r) /\ ArmsTimer(r)
    BY <1>1 DEF Settle, Rows, Live, TellsTask, ArmsTimer
  <2> QED
    BY <1>1, <2>1, <2>2, <2>3 DEF Turn, Rows
<1>2. CASE FinishRun(r, task0, run0) /\ UNCHANGED restarts
  BY <1>2, FinishRunTurn
<1>3. CASE Finish(r, task0, run0, "done", "completed") /\ UNCHANGED restarts
  BY <1>3, FinishTurn DEF TaskStatuses, RunStatuses, Busy
<1>4. CASE /\ ~AlreadyDelivered(r)
           /\ task' = [task0 EXCEPT ![TaskOf[r]] = "awaiting_human"]
           /\ run' = [run0 EXCEPT ![r] = "completed"]
           /\ delivered' = delivered \cup {r}
           /\ published' = [published EXCEPT ![r] = @ + 1]
           /\ Settle(r, FALSE)
           /\ UNCHANGED restarts
  <2>1. task' \in [Tasks -> TaskStatuses] /\ run' \in [Runs -> RunStatuses]
    BY <1>4, CoordinatorAssumptions DEF Rows, TaskStatuses, RunStatuses
  <2>2. \A q \in Runs : q # r => run'[q] = run[q]
    BY <1>4 DEF Rows
  <2>3. timers' \in SUBSET Runs /\ aborted' \in SUBSET Runs
    BY <1>4 DEF Settle, IInv, TypeOK
  <2>4. Moves(r)
    BY <1>4 DEF Settle, Moves
  <2>5. Counts(r)
    BY <1>4 DEF AlreadyDelivered, Counts, Rows, Settle, IInv, TypeOK
  <2>6. TellsTask(r) /\ ArmsTimer(r)
    BY <1>4, CoordinatorAssumptions DEF Rows, Busy, TellsTask, Settle, ArmsTimer
  <2> QED
    BY <2>1, <2>2, <2>3, <2>4, <2>5, <2>6 DEF Turn
<1>5. CASE /\ ~AlreadyDelivered(r)
           /\ task' = [task0 EXCEPT ![TaskOf[r]] = "awaiting_human"]
           /\ restarts < MaxRestarts /\ restarts' = restarts + 1
           /\ run' = run0
           /\ ProcessDies
           /\ \/ UNCHANGED <<delivered, published>>
              \/ /\ delivered' \in {delivered, delivered \cup {r}}
                 /\ published' = [published EXCEPT ![r] = @ + 1]
  <2>1. task' \in [Tasks -> TaskStatuses]
    BY <1>5, CoordinatorAssumptions DEF Rows, TaskStatuses
  <2>2. timers' \in SUBSET Runs /\ aborted' \in SUBSET Runs
    BY <1>5 DEF ProcessDies
  <2>3. Moves(r)
    BY <1>5 DEF ProcessDies, Moves, Rows
  <2>4. Counts(r)
    BY <1>5 DEF AlreadyDelivered, Counts
  <2>5. TellsTask(r) /\ ArmsTimer(r)
    BY <1>5, CoordinatorAssumptions
       DEF Rows, Busy, Live, TellsTask, ProcessDies, ArmsTimer
  <2> QED
    BY <1>5, <2>1, <2>2, <2>3, <2>4, <2>5 DEF Turn, Rows
<1> QED
  BY <1>1, <1>2, <1>3, <1>4, <1>5 DEF DeliverGoal

LEMMA ProceedTurn ==
  ASSUME IInv, NEW r \in Runs, NEW task0, NEW run0, Rows(r, task0, run0),
         NEW stop \in BOOLEAN, Proceed(r, stop, task0, run0)
  PROVE  Turn(r)
<1>1. UNCHANGED restarts
  BY DEF Proceed
<1>2. CASE CancelRun(r, task0, run0)
  BY <1>1, <1>2, CancelTurn
<1>3. CASE PauseRun(r, task0, run0)
  BY <1>1, <1>3, PauseTurn
<1>4. CASE FinishRun(r, task0, run0)
  BY <1>1, <1>4, FinishRunTurn
<1>5. CASE /\ task' = [task0 EXCEPT ![TaskOf[r]] = "working"]
           /\ run' = [run0 EXCEPT ![r] = "running"]
           /\ \E point \in {"validating", "graph", "acquiring"} : Await(r, point)
  <2>1. PICK point \in Awaits : Await(r, point)
    BY <1>5 DEF Awaits
  <2>2. Rows(r, task', run')
    BY <1>5, CoordinatorAssumptions DEF Rows, TaskStatuses, RunStatuses, Live
  <2> QED
    BY <1>1, <2>1, <2>2, AwaitTurn
<1> QED
  BY <1>2, <1>3, <1>4, <1>5 DEF Proceed

LEMMA LoopTurn ==
  ASSUME IInv, NEW r \in Runs, NEW task0, NEW run0, Rows(r, task0, run0),
         NEW stop \in BOOLEAN, Loop(r, stop, task0, run0)
  PROVE  Turn(r)
BY ProceedTurn, DeliverTurn DEF Loop

LEMMA SameRows ==
  ASSUME IInv, NEW r \in Runs, run[r] \in Live
  PROVE  Rows(r, task, run)
BY DEF IInv, TypeOK, Rows

LEMMA ExhaustedTurn ==
  ASSUME IInv, NEW r \in Runs, run[r] \in Live, StepsExhausted(r)
  PROVE  Turn(r)
BY SameRows, PauseTurn, FinishRunTurn DEF StepsExhausted

LEMMA FreshTurn ==
  ASSUME IInv, NEW r \in Runs, NEW task0, NEW run0, Rows(r, task0, run0),
         ExecuteFresh(r, task0, run0)
  PROVE  Turn(r)
<1>1. CASE Size(r, task0, run0)
  <2>1. "sizing" \in Awaits
    BY DEF Awaits
  <2> QED
    BY <1>1, <2>1, AwaitTurn DEF Size
<1>2. CASE Proceed(r, FALSE, task0, run0)
  BY <1>2, ProceedTurn
<1> QED
  BY <1>1, <1>2 DEF ExecuteFresh

LEMMA ExecuteTurn ==
  ASSUME IInv, NEW r \in Runs, run[r] \in Live, Execute(r)
  PROVE  Turn(r)
<1>0. Rows(r, task, run)
  BY SameRows
<1>1. CASE Size(r, task, run)
  <2>1. "sizing" \in Awaits
    BY DEF Awaits
  <2> QED
    BY <1>0, <1>1, <2>1, AwaitTurn DEF Size
<1>2. CASE Loop(r, FALSE, task, run)
  BY <1>0, <1>2, LoopTurn
<1> QED
  BY <1>1, <1>2 DEF Execute

-----------------------------------------------------------------------------
(* A turn is a step of the lifecycle                                       *)

\* Who works is who is active, before a step ...
LEMMA WorkersAre ==
  ASSUME TypeOK, OneWriterPerTask, ActiveIsOwn, NEW t \in Tasks
  PROVE  Workers[t] = IF active[t] = NoRun THEN {} ELSE {active[t]}
<1>1. NoRun \notin Runs /\ TaskOf \in [Runs -> Tasks] BY CoordinatorAssumptions
<1>2. Workers[t] = {r \in Runs : at[r] # "settled" /\ TaskOf[r] = t} BY DEF Workers, Executing
<1>3. \A r \in Runs : at[r] # "settled" <=> active[TaskOf[r]] = r BY DEF OneWriterPerTask
<1>4. active[t] # NoRun => active[t] \in Runs /\ TaskOf[active[t]] = t BY DEF TypeOK, ActiveIsOwn
<1> QED BY <1>1, <1>2, <1>3, <1>4

\* ... and after it.
LEMMA WorkersAreThen ==
  ASSUME TypeOK', OneWriterPerTask', ActiveIsOwn', NEW t \in Tasks
  PROVE  Workers'[t] = IF active'[t] = NoRun THEN {} ELSE {active'[t]}
<1>1. NoRun \notin Runs /\ TaskOf \in [Runs -> Tasks] BY CoordinatorAssumptions
<1>2. Workers'[t] = {r \in Runs : at'[r] # "settled" /\ TaskOf[r] = t} BY DEF Workers, Executing
<1>3. \A r \in Runs : at'[r] # "settled" <=> active'[TaskOf[r]] = r BY DEF OneWriterPerTask
<1>4. active'[t] # NoRun => active'[t] \in Runs /\ TaskOf[active'[t]] = t BY DEF TypeOK, ActiveIsOwn
<1> QED BY <1>1, <1>2, <1>3, <1>4

LEMMA TurnPromised ==
  ASSUME IInv, NEW r \in Runs, Ready(r), Turn(r), reviewed' = reviewed,
         TypeOK', OneWriterPerTask', ActiveIsOwn'
  PROVE  Promised
<1>0. TaskOf[r] \in Tasks /\ NoRun \notin Runs /\ active \in [Tasks -> Runs \cup {NoRun}]
  BY CoordinatorAssumptions DEF IInv, TypeOK
<1>s. PICK s : s = StateOf(run'[r]) OBVIOUS
<1>1. s \in Lifecycle!Endings \cup {"open"} /\ (run'[r] = "completed" => s = "completed")
      /\ (run'[r] \in Live => s = "open")
  BY <1>s DEF Turn, TellsTask, RunStatuses, StateOf, Live, Lifecycle!Endings
<1>2. States' = [States EXCEPT ![r] = s]
  BY <1>s DEF Turn, States
<1>3. run[r] # "cancelled" /\ r \notin reviewed
  BY DEF Ready, IInv, ExecutingIsLive, DecidedIsCompleted, Live
<1>4. ~Lifecycle!Over(r)
  BY <1>3 DEF Lifecycle!Over, States, StateOf
<1>5. Workers[TaskOf[r]] \subseteq {r}
  <2>1. Workers[TaskOf[r]] = IF active[TaskOf[r]] = NoRun THEN {} ELSE {active[TaskOf[r]]}
    BY <1>0, WorkersAre DEF IInv
  <2> QED BY <2>1 DEF Ready, IInv, OneWriterPerTask
<1>6. Workers = [t \in Tasks |-> Workers[t]] /\ Workers' = [t \in Tasks |-> Workers'[t]]
  BY DEF Workers
<1>7. \A t \in Tasks : Workers[t] = IF active[t] = NoRun THEN {} ELSE {active[t]}
  BY WorkersAre DEF IInv
<1>8. \A t \in Tasks : Workers'[t] = IF active'[t] = NoRun THEN {} ELSE {active'[t]}
  BY WorkersAreThen
<1>9. CASE /\ restarts' = restarts
           /\ \E point \in Awaits : /\ at' = [at EXCEPT ![r] = point]
                                    /\ active' = [active EXCEPT ![TaskOf[r]] = r]
                                    /\ run'[r] \in Live
  <2>1. Workers' = [Workers EXCEPT ![TaskOf[r]] = {r}]
    BY <1>0, <1>6, <1>7, <1>8, <1>9
  <2>2. at'[r] # "settled" BY <1>9 DEF Awaits, IInv, TypeOK
  <2>3. UNCHANGED <<delivered, published>>
    BY <1>9, <2>2 DEF Turn, Counts, IInv, TypeOK
  <2>4. Lifecycle!Works(r) BY <1>1, <1>2, <1>4, <1>5, <1>9, <2>1, <2>3 DEF Lifecycle!Works
  <2> QED BY <2>4 DEF Promised, Lifecycle!Next
<1>10. CASE /\ restarts' = restarts /\ at' = [at EXCEPT ![r] = "settled"]
            /\ active' = [active EXCEPT ![TaskOf[r]] = NoRun]
  <2>1. Workers' = [Workers EXCEPT ![TaskOf[r]] = {}]
    BY <1>0, <1>6, <1>7, <1>8, <1>10
  <2>2. \/ UNCHANGED <<delivered, published>>
        \/ /\ run'[r] = "completed" /\ r \notin delivered
           /\ delivered' = delivered \cup {r}
           /\ published' = [published EXCEPT ![r] = @ + 1]
    BY <1>10 DEF Turn, Counts, IInv, TypeOK
  <2>3. States'[r] = s BY <1>s DEF States
  <2>4. Lifecycle!Works(r)
    BY <1>1, <1>2, <1>4, <1>5, <1>10, <2>1, <2>2, <2>3 DEF Lifecycle!Works
  <2> QED BY <2>4 DEF Promised, Lifecycle!Next
<1>11. CASE /\ restarts' = restarts + 1 /\ run'[r] \in Live
            /\ active' = [t \in Tasks |-> NoRun]
  <2>1. Workers' = [t \in Tasks |-> {}] BY <1>6, <1>8, <1>11
  <2>2. \/ UNCHANGED <<delivered, published>>
        \/ /\ r \notin delivered /\ delivered' \in {delivered, delivered \cup {r}}
           /\ published' = [published EXCEPT ![r] = @ + 1]
    BY <1>11 DEF Turn, Counts, IInv, TypeOK
  <2>3. Lifecycle!Lost
    BY <1>1, <1>2, <1>4, <1>5, <1>11, <2>1, <2>2 DEF Lifecycle!Lost
  <2> QED BY <2>3 DEF Promised, Lifecycle!Next
<1> QED BY <1>9, <1>10, <1>11 DEF Turn, Moves

-----------------------------------------------------------------------------
(* A turn preserves the invariant                                          *)

LEMMA TurnPreserves ==
  ASSUME IInv, NEW r \in Runs, Ready(r), Turn(r), RestTyped
  PROVE  IInv' /\ Promised
<1>0. TaskOf[r] \in Tasks /\ NoRun \notin Runs /\ TaskOf \in [Runs -> Tasks]
  BY CoordinatorAssumptions
<1>1. TypeOK'
  <2>1. /\ at' \in [Runs -> Awaits \cup {"settled"}]
        /\ active' \in [Tasks -> Runs \cup {NoRun}]
        /\ proc' \in {"up", "stopping", "down", "recovering"}
    BY <1>0 DEF IInv, TypeOK, Turn, Moves
  <2>2. delivered' \in SUBSET Runs /\ published' \in [Runs -> Nat]
    BY DEF IInv, TypeOK, Turn, Counts
  <2>3. restarts' \in 0..MaxRestarts
    BY CoordinatorAssumptions DEF IInv, TypeOK, Turn, Counts
  <2> QED
    BY <2>1, <2>2, <2>3 DEF IInv, TypeOK, Turn, RestTyped
<1>2. \A q \in Runs : q # r /\ TaskOf[q] = TaskOf[r] => at[q] = "settled"
  BY <1>0 DEF Ready, IInv, OneWriterPerTask
<1>3. proc \notin {"down", "recovering"}
  BY DEF Ready, IInv, DownIsIdle
<1>4. ASSUME proc' = "down", at' = [q \in Runs |-> "settled"],
             active' = [t \in Tasks |-> NoRun]
      PROVE  OneWriterPerTask' /\ ExecutingIsLive' /\ DownIsIdle'
  BY <1>0, <1>4 DEF OneWriterPerTask, ExecutingIsLive, DownIsIdle
<1>5. ASSUME NEW point \in Awaits, proc' = proc, at' = [at EXCEPT ![r] = point],
             active' = [active EXCEPT ![TaskOf[r]] = r], run'[r] \in Live
      PROVE  OneWriterPerTask' /\ ExecutingIsLive' /\ DownIsIdle'
  <2>1. point # "settled"
    BY DEF Awaits
  <2>2. OneWriterPerTask'
    BY <1>0, <1>2, <1>5, <2>1 DEF IInv, TypeOK, OneWriterPerTask
  <2>3. ExecutingIsLive'
    BY <1>5 DEF IInv, TypeOK, ExecutingIsLive, Turn
  <2> QED
    BY <1>3, <1>5, <2>2, <2>3 DEF DownIsIdle
<1>6. ASSUME proc' = proc, at' = [at EXCEPT ![r] = "settled"],
             active' = [active EXCEPT ![TaskOf[r]] = NoRun]
      PROVE  OneWriterPerTask' /\ ExecutingIsLive' /\ DownIsIdle'
  <2>1. OneWriterPerTask'
    BY <1>0, <1>2, <1>6 DEF IInv, TypeOK, OneWriterPerTask
  <2>2. ExecutingIsLive'
    BY <1>6 DEF IInv, TypeOK, ExecutingIsLive, Turn
  <2> QED
    BY <1>3, <1>6, <2>1, <2>2 DEF DownIsIdle
<1>7. OneWriterPerTask' /\ ExecutingIsLive' /\ DownIsIdle'
  BY <1>4, <1>5, <1>6 DEF Turn, Moves
<1>8. DeliveriesCounted'
  BY CoordinatorAssumptions DEF IInv, TypeOK, DeliveriesCounted, Turn, Counts
<1>9. DecidedIsCompleted'
  <2>1. r \notin reviewed
    BY DEF DecidedIsCompleted, Ready, IInv, ExecutingIsLive, Live
  <2> QED BY <2>1 DEF DecidedIsCompleted, Turn, IInv, TypeOK, RestTyped
<1>10. WorkingTaskHasRun'
  <2> SUFFICES ASSUME NEW t \in Tasks, task'[t] \in Busy
               PROVE  \E q \in RunsOf(t) : Unfinished(q)'
    BY DEF WorkingTaskHasRun, RunsOf, Busy
  <2>1. CASE t = TaskOf[r]
    BY <2>1 DEF Turn, TellsTask, RunsOf, Unfinished, Live
  <2>2. CASE t # TaskOf[r]
    <3>1. PICK q \in RunsOf(t) : Unfinished(q)
      BY <2>2 DEF IInv, WorkingTaskHasRun, Turn, TellsTask, Busy
    <3>2. q \in Runs /\ q # r
      BY <2>2, <3>1 DEF RunsOf
    <3> QED
      BY <3>1, <3>2 DEF Turn, Unfinished
  <2> QED
    BY <2>1, <2>2
<1>11. ActiveIsOwn'
  BY <1>0 DEF IInv, TypeOK, ActiveIsOwn, Turn, Moves
<1>12. WaitingRunHasTimer'
  <2> SUFFICES ASSUME NEW q \in Runs, proc' = "up", run'[q] = "waiting_provider", OnlyRun(q)'
               PROVE  q \in timers' \/ at'[q] # "settled"
    BY DEF WaitingRunHasTimer, Executing
  <2>1. CASE q = r
    BY <2>1 DEF Turn, ArmsTimer
  <2>2. CASE q # r
    <3>1. proc = "up" /\ at'[q] = at[q]
      BY <2>2 DEF Turn, Moves, IInv, TypeOK
    <3>2. run[q] = "waiting_provider"
      BY <2>2 DEF Turn
    <3>3. CASE TaskOf[q] = TaskOf[r]
      <4>1. run'[r] = "none"
        BY <2>2, <3>3 DEF OnlyRun, RunsOf
      <4> QED
        BY <4>1 DEF Turn, TellsTask
    <3>4. CASE TaskOf[q] # TaskOf[r]
      <4>1. OnlyRun(q)
        BY <3>4 DEF OnlyRun, RunsOf, Turn
      <4>2. q \in timers \/ at[q] # "settled"
        BY <3>1, <3>2, <4>1 DEF IInv, WaitingRunHasTimer, Executing
      <4> QED
        BY <2>2, <3>1, <4>2 DEF Turn, ArmsTimer
    <3> QED
      BY <3>3, <3>4
  <2> QED
    BY <2>1, <2>2
<1>13. Promised
  BY <1>1, <1>7, <1>11, TurnPromised DEF RestTyped
<1> QED
  BY <1>1, <1>7, <1>8, <1>9, <1>10, <1>11, <1>12, <1>13 DEF IInv

-----------------------------------------------------------------------------
(* Every step preserves the invariant                                      *)

LEMMA SameTold ==
  ASSUME IInv, UNCHANGED run, NEW t0 \in Tasks, NEW status \in TaskStatuses \ Busy,
         task' \in {task, [task EXCEPT ![t0] = status]}
  PROVE  WorkingTaskHasRun'
<1> SUFFICES ASSUME NEW t \in Tasks, task'[t] \in Busy
             PROVE  \E q \in RunsOf(t) : Unfinished(q)'
  BY DEF WorkingTaskHasRun, Busy
<1>1. task[t] \in Busy
  BY DEF IInv, TypeOK
<1>2. PICK q \in RunsOf(t) : Unfinished(q)
  BY <1>1 DEF IInv, WorkingTaskHasRun, Busy
<1> QED
  BY <1>2 DEF Unfinished

LEMMA SamePromised ==
  ASSUME UNCHANGED <<run, at, delivered, published, reviewed, restarts>>
  PROVE  Promised
BY DEF Promised, Workers, States, Executing

LEMMA SameTimers ==
  ASSUME IInv, UNCHANGED <<run, at, timers, proc>>
  PROVE  WaitingRunHasTimer'
BY DEF IInv, WaitingRunHasTimer, OnlyRun, Executing

LEMMA AnswerStep ==
  ASSUME IInv, NEW r \in Runs, Answer(r)
  PROVE  IInv' /\ Promised
<1>00. run[r] \in Live
  BY DEF Answer, SizingEnds, ValidationEnds, WorkGraphEnds, AcquireEnds, ExecutionEnds,
         RoutingEnds, IInv, ExecutingIsLive
<1>0. Rows(r, task, run)
  BY <1>00, SameRows
<1>1. CASE SizingEnds(r)
  <2>1. TaskOf[r] \in Tasks
    BY CoordinatorAssumptions
  <2>2. RestTyped
    BY <1>1, <2>1 DEF SizingEnds, RestTyped, IInv, TypeOK
  <2>3. Turn(r)
    <3> DEFINE stop == r \in aborted
    <3>1. stop \in BOOLEAN
      OBVIOUS
    <3>2. Proceed(r, stop, task, run)
      BY <1>1 DEF SizingEnds
    <3> HIDE DEF stop
    <3> QED
      BY <1>0, <3>1, <3>2, ProceedTurn
  <2>4. Ready(r)
    BY <1>1 DEF SizingEnds, Ready
  <2> QED
    BY <2>2, <2>3, <2>4, TurnPreserves
<1>2. ASSUME Rest, at[r] # "settled", Turn(r)
      PROVE  IInv' /\ Promised
  BY <1>2, TurnPreserves DEF Rest, RestTyped, Ready, IInv, TypeOK
<1>3. ASSUME Loop(r, r \in aborted, task, run)
      PROVE  Turn(r)
  <2> DEFINE stop == r \in aborted
  <2>1. stop \in BOOLEAN
    OBVIOUS
  <2>2. Loop(r, stop, task, run)
    BY <1>3
  <2> HIDE DEF stop
  <2> QED
    BY <1>0, <2>1, <2>2, LoopTurn
<1>4. ASSUME Loop(r, FALSE, task, run)
      PROVE  Turn(r)
  BY <1>0, <1>4, LoopTurn
<1>5. ASSUME NEW point \in Awaits, Await(r, point), at[r] # "settled",
             UNCHANGED <<task, run, restarts>>
      PROVE  Turn(r)
  <2>1. Rows(r, task', run')
    BY <1>0, <1>5 DEF Rows
  <2> QED
    BY <1>5, <2>1, AwaitTurn
<1>6. ASSUME UNCHANGED restarts,
             \/ PauseRun(r, task, run) \/ FinishRun(r, task, run)
             \/ CancelRun(r, task, run)
      PROVE  Turn(r)
  BY <1>0, <1>6, PauseTurn, FinishRunTurn, CancelTurn
<1>7. CASE ValidationEnds(r)
  <2>1. "acquiring" \in Awaits
    BY DEF Awaits
  <2>2. at[r] # "settled" /\ Rest
    BY <1>7 DEF ValidationEnds
  <2>3. Turn(r)
    BY <1>00, <1>3, <1>5, <1>6, <1>7, <2>1, <2>2, ExhaustedTurn DEF ValidationEnds
  <2> QED
    BY <1>2, <2>2, <2>3
<1>8. CASE WorkGraphEnds(r)
  <2>1. at[r] # "settled" /\ Rest
    BY <1>8 DEF WorkGraphEnds
  <2>2. Turn(r)
    BY <1>00, <1>4, <1>6, <1>8, ExhaustedTurn DEF WorkGraphEnds
  <2> QED
    BY <1>2, <2>1, <2>2
<1>9. CASE AcquireEnds(r)
  <2>1. ASSUME Await(r, "executing"), run' = [run EXCEPT ![r] = "running"],
               UNCHANGED <<task, restarts>>
        PROVE  Turn(r)
    <3>1. "executing" \in Awaits
      BY DEF Awaits
    <3>2. Rows(r, task', run')
      BY <1>0, <2>1 DEF Rows, RunStatuses, Live
    <3> QED
      BY <2>1, <3>1, <3>2, AwaitTurn
  <2>2. at[r] # "settled" /\ Rest
    BY <1>9 DEF AcquireEnds
  <2>3. Turn(r)
    BY <1>6, <1>9, <2>1 DEF AcquireEnds
  <2> QED
    BY <1>2, <2>2, <2>3
<1>10. CASE ExecutionEnds(r)
  <2>1. "routing" \in Awaits
    BY DEF Awaits
  <2>2. at[r] # "settled" /\ Rest
    BY <1>10 DEF ExecutionEnds
  <2>3. ASSUME DeliverGoal(r, task, run)
        PROVE  Turn(r)
    BY <1>0, <2>3, DeliverTurn
  <2>4. Turn(r)
    BY <1>00, <1>4, <1>5, <1>6, <1>10, <2>1, <2>2, <2>3, ExhaustedTurn DEF ExecutionEnds
  <2> QED
    BY <1>2, <2>2, <2>4
<1>11. CASE RoutingEnds(r)
  <2>1. at[r] # "settled" /\ Rest
    BY <1>11 DEF RoutingEnds
  <2>2. Turn(r)
    BY <1>00, <1>3, <1>11, ExhaustedTurn DEF RoutingEnds
  <2> QED
    BY <1>2, <2>1, <2>2
<1> QED
  BY <1>1, <1>7, <1>8, <1>9, <1>10, <1>11 DEF Answer

LEMMA RequestStep ==
  ASSUME IInv, NEW r \in Runs,
         Start(r) \/ ResumeExistingRun(r) \/ RetryRun(r) \/ RequestChanges(r)
  PROVE  IInv' /\ Promised
<1>0. TaskOf[r] \in Tasks /\ task \in [Tasks -> TaskStatuses] /\ run \in [Runs -> RunStatuses]
  BY CoordinatorAssumptions DEF IInv, TypeOK
<1>1. ASSUME HumanRequest(TaskOf[r]), active[TaskOf[r]] = NoRun, run[r] # "cancelled",
             r \notin reviewed
      PROVE  Ready(r)
  BY <1>1 DEF HumanRequest, Serving, Ready
<1>2. ASSUME HumanRequest(TaskOf[r]), UNCHANGED <<reviewed, sized>>
      PROVE  RestTyped
  BY <1>2, CoordinatorAssumptions DEF HumanRequest, RestTyped, IInv, TypeOK
<1>3. ASSUME Reopen(r)
      PROVE  Turn(r) /\ UNCHANGED <<reviewed, sized>>
  <2> DEFINE task0 == [task EXCEPT ![TaskOf[r]] = "working"]
             run0 == [run EXCEPT ![r] = "waiting_provider"]
  <2>1. Rows(r, task0, run0)
    BY <1>0 DEF Rows, TaskStatuses, RunStatuses, Live
  <2>2. ExecuteFresh(r, task0, run0)
    BY <1>3 DEF Reopen
  <2> HIDE DEF task0, run0
  <2>3. Turn(r)
    BY <2>1, <2>2, FreshTurn
  <2> QED
    BY <1>3, <2>3 DEF Reopen
<1>4. ASSUME NEW task0 \in {task, [task EXCEPT ![TaskOf[r]] = "working"]},
             ExecuteFresh(r, task0, [run EXCEPT ![r] = "running"])
      PROVE  Turn(r)
  <2> DEFINE run0 == [run EXCEPT ![r] = "running"]
  <2>1. Rows(r, task0, run0)
    BY <1>0, <1>4 DEF Rows, TaskStatuses, RunStatuses, Live
  <2>2. ExecuteFresh(r, task0, run0)
    BY <1>4
  <2> HIDE DEF run0
  <2> QED
    BY <2>1, <2>2, FreshTurn
<1>d. run[r] # "completed" => r \notin reviewed
  BY DEF IInv, DecidedIsCompleted
<1>5. CASE Start(r)
  <2>1. Turn(r)
    BY <1>4, <1>5 DEF Start
  <2> QED
    BY <1>1, <1>2, <1>d, <1>5, <2>1, TurnPreserves DEF Start
<1>6. CASE ResumeExistingRun(r)
  <2>1. Turn(r) /\ UNCHANGED <<reviewed, sized>>
    BY <1>3, <1>6 DEF ResumeExistingRun
  <2> QED
    BY <1>1, <1>2, <1>d, <1>6, <2>1, TurnPreserves DEF ResumeExistingRun
<1>7. CASE RetryRun(r)
  <2>1. Turn(r) /\ UNCHANGED <<reviewed, sized>>
    BY <1>3, <1>7 DEF RetryRun
  <2> QED
    BY <1>1, <1>2, <1>d, <1>7, <2>1, TurnPreserves DEF RetryRun
<1>8. CASE RequestChanges(r)
  <2>1. Turn(r)
    BY <1>4, <1>8 DEF RequestChanges
  <2> QED
    BY <1>1, <1>2, <1>8, <2>1, TurnPreserves DEF RequestChanges
<1> QED
  BY <1>5, <1>6, <1>7, <1>8

LEMMA ResumeStep ==
  ASSUME IInv, NEW r \in Runs, TimerFires(r) \/ WorkGraphSettled(r)
  PROVE  IInv' /\ Promised
<1>1. CASE Resumable(r) /\ Execute(r) /\ Rest /\ proc \in {"up", "stopping"}
  <2>1. Turn(r)
    BY <1>1, ExecuteTurn DEF Resumable, Live
  <2>2. Ready(r)
    BY <1>1 DEF Resumable, Ready, IInv, DecidedIsCompleted
  <2>3. RestTyped
    BY <1>1 DEF Rest, RestTyped, IInv, TypeOK
  <2> QED
    BY <2>1, <2>2, <2>3, TurnPreserves
<1>2. CASE /\ ~Resumable(r) /\ timers' = timers \ {r} /\ Rest
           /\ UNCHANGED <<task, run, delivered, proc, active, at, aborted, published, restarts>>
  <2>1. WorkingTaskHasRun'
    BY <1>2 DEF IInv, WorkingTaskHasRun, Unfinished
  <2>2. WaitingRunHasTimer'
    <3> SUFFICES ASSUME NEW q \in Runs, proc = "up", run[q] = "waiting_provider",
                        OnlyRun(q), at[q] = "settled"
                 PROVE  q \in timers'
      BY <1>2 DEF WaitingRunHasTimer, OnlyRun, Executing
    <3>1. q \in timers
      BY DEF IInv, WaitingRunHasTimer, Executing
    <3>2. q # r
      <4> SUFFICES ASSUME q = r
                   PROVE  FALSE
        OBVIOUS
      <4> DEFINE other == active[TaskOf[r]]
      <4>1. other # NoRun /\ TaskOf[r] \in Tasks
        BY <1>2, CoordinatorAssumptions DEF Resumable
      <4>2. other \in Runs /\ TaskOf[other] = TaskOf[r]
        BY <4>1 DEF IInv, TypeOK, ActiveIsOwn
      <4>3. at[other] # "settled"
        BY <4>2 DEF IInv, OneWriterPerTask
      <4>4. run[other] \in Live
        BY <4>2, <4>3 DEF IInv, ExecutingIsLive
      <4> QED
        BY <4>2, <4>3, <4>4 DEF OnlyRun, RunsOf, Live
    <3> QED
      BY <1>2, <3>1, <3>2
  <2>3. Promised
    BY <1>2, SamePromised DEF Rest
  <2> QED
    BY <1>2, <2>1, <2>2, <2>3 DEF IInv, TypeOK, OneWriterPerTask, ExecutingIsLive, DownIsIdle,
                                 ActiveIsOwn, DeliveriesCounted, DecidedIsCompleted, Rest
<1> QED
  BY <1>1, <1>2 DEF TimerFires, WorkGraphSettled, Serving

LEMMA CancelStep ==
  ASSUME IInv, NEW t \in Tasks, Cancel(t)
  PROVE  IInv' /\ Promised
<1> DEFINE waiting == {r \in RunsOf(t) : run[r] = "waiting_provider"}
           first == {r \in waiting : \A other \in waiting : r <= other}
           victims == IF ActiveRun(t) # {} THEN {} ELSE first
<1>1. run' = [r \in Runs |-> IF r \in victims THEN "cancelled" ELSE run[r]]
  BY DEF Cancel
<1>2. /\ task' = [task EXCEPT ![t] = "cancelled"]
      /\ timers' = timers \ victims
      /\ aborted' = aborted \cup ActiveRun(t)
      /\ cancelRequested' = cancelRequested \cup {t}
      /\ humanActions < MaxHumanActions /\ humanActions' = humanActions + 1
      /\ UNCHANGED <<delivered, reviewed, sized, proc, active, at, published, restarts>>
  BY DEF Cancel
<1>3. \A r \in victims : r \in Runs /\ TaskOf[r] = t /\ active[t] = NoRun
  BY DEF RunsOf, ActiveRun
<1>w. \A r \in victims : run[r] = "waiting_provider"
  OBVIOUS
<1>l. \A q, r \in victims : q \in Runs /\ r \in Runs /\ q <= r /\ r <= q
  BY DEF RunsOf
<1> HIDE DEF victims
<1>4. \A r \in victims : at[r] = "settled"
  BY <1>3, CoordinatorAssumptions DEF IInv, OneWriterPerTask
<1>5. ActiveRun(t) \subseteq Runs
  BY DEF ActiveRun, IInv, TypeOK
<1>6. TypeOK'
  <2>1. task' \in [Tasks -> TaskStatuses] /\ run' \in [Runs -> RunStatuses]
    BY <1>1, <1>2 DEF IInv, TypeOK, TaskStatuses, RunStatuses
  <2>2. humanActions' \in 0..MaxHumanActions
    BY <1>2, CoordinatorAssumptions DEF IInv, TypeOK
  <2> QED
    BY <1>2, <1>5, <2>1, <2>2 DEF IInv, TypeOK
<1>7. ExecutingIsLive' /\ DecidedIsCompleted'
  BY <1>1, <1>2, <1>4, <1>w DEF IInv, TypeOK, ExecutingIsLive, DecidedIsCompleted
<1>v. ASSUME NEW q \in victims, NEW r \in victims PROVE q = r
  <2>1. q \in Nat /\ r \in Nat /\ q <= r /\ r <= q BY <1>l, CoordinatorAssumptions
  <2> QED BY <2>1
<1>p. Promised
  <2>1. CASE victims = {}
    <3>1. run' = run BY <1>1, <2>1 DEF IInv, TypeOK
    <3> QED BY <1>2, <3>1, SamePromised
  <2>2. CASE victims # {}
    <3>1. PICK r : r \in victims BY <2>2
    <3>2. r \in Runs /\ TaskOf[r] = t /\ active[t] = NoRun /\ run[r] = "waiting_provider"
      BY <1>3, <1>w, <3>1
    <3>3. run' = [run EXCEPT ![r] = "cancelled"]
      BY <1>1, <1>v, <3>1, <3>2 DEF IInv, TypeOK
    <3>4. Workers[TaskOf[r]] = {} BY <3>2, WorkersAre DEF IInv
    <3>5. States[r] = "open" /\ States' = [States EXCEPT ![r] = "cancelled"]
      BY <3>2, <3>3 DEF States, StateOf, IInv, TypeOK
    <3>6. Workers' = Workers BY <1>2 DEF Workers, Executing
    <3>7. Lifecycle!Closes(r) BY <1>2, <3>4, <3>5, <3>6 DEF Lifecycle!Closes
    <3> QED BY <3>2, <3>7 DEF Promised, Lifecycle!Next
  <2> QED BY <2>1, <2>2
<1>8. OneWriterPerTask' /\ DownIsIdle' /\ ActiveIsOwn' /\ DeliveriesCounted'
  BY <1>2 DEF IInv, OneWriterPerTask, DownIsIdle, ActiveIsOwn, DeliveriesCounted
<1>9. WorkingTaskHasRun'
  <2> SUFFICES ASSUME NEW u \in Tasks, task'[u] \in Busy
               PROVE  \E q \in RunsOf(u) : Unfinished(q)'
    BY DEF WorkingTaskHasRun, Busy
  <2>1. u # t /\ task[u] \in Busy
    BY <1>2 DEF IInv, TypeOK, Busy
  <2>2. PICK q \in RunsOf(u) : Unfinished(q)
    BY <2>1 DEF IInv, WorkingTaskHasRun, Busy
  <2>3. q \in Runs /\ q \notin victims
    BY <1>3, <2>1 DEF RunsOf
  <2> QED
    BY <1>1, <2>2, <2>3 DEF Unfinished
<1>10. WaitingRunHasTimer'
  <2> SUFFICES ASSUME NEW q \in Runs, proc = "up", run'[q] = "waiting_provider", OnlyRun(q)'
               PROVE  q \in timers' \/ at[q] # "settled"
    BY <1>2 DEF WaitingRunHasTimer, Executing
  <2>1. q \notin victims /\ run[q] = "waiting_provider"
    BY <1>1
  <2>2. OnlyRun(q)
    BY <1>1 DEF OnlyRun, RunsOf
  <2> QED
    BY <1>2, <2>1, <2>2 DEF IInv, WaitingRunHasTimer, Executing
<1> QED
  BY <1>6, <1>7, <1>8, <1>9, <1>10, <1>p DEF IInv

LEMMA StatusStep ==
  ASSUME IInv,
         \/ \E t \in Tasks : StartBlocked(t)
         \/ \E r \in Runs, status \in {"ready_to_merge", "rejected"} : Decide(r, status)
         \/ Shutdown
         \/ ArmWaitingRuns
  PROVE  IInv' /\ Promised
<1>1. ASSUME NEW t \in Tasks, StartBlocked(t)
      PROVE  IInv' /\ Promised
  <2>1. task' \in [Tasks -> TaskStatuses]
    BY <1>1 DEF StartBlocked, IInv, TypeOK, TaskStatuses
  <2>2. humanActions' \in 0..MaxHumanActions /\ cancelRequested' \in SUBSET Tasks
    BY <1>1, CoordinatorAssumptions DEF StartBlocked, HumanRequest, IInv, TypeOK
  <2>3. UNCHANGED <<run, delivered, reviewed, sized, process, published, restarts>>
    BY <1>1 DEF StartBlocked
  <2>4. WorkingTaskHasRun'
    BY <1>1, <2>3, SameTold DEF StartBlocked, TaskStatuses, Busy
  <2>5. WaitingRunHasTimer'
    BY <2>3, SameTimers DEF process
  <2>6. Promised
    BY <2>3, SamePromised DEF process
  <2> QED
    BY <2>1, <2>2, <2>3, <2>4, <2>5, <2>6
       DEF process, IInv, TypeOK, OneWriterPerTask, ExecutingIsLive, DownIsIdle,
           ActiveIsOwn, DeliveriesCounted, DecidedIsCompleted
<1>2. ASSUME NEW r \in Runs, NEW status \in {"ready_to_merge", "rejected"}, Decide(r, status)
      PROVE  IInv' /\ Promised
  <2>1. task' \in [Tasks -> TaskStatuses]
    BY <1>2, CoordinatorAssumptions DEF Decide, IInv, TypeOK, TaskStatuses
  <2>2. humanActions' \in 0..MaxHumanActions /\ cancelRequested' \in SUBSET Tasks
    BY <1>2, CoordinatorAssumptions DEF Decide, HumanRequest, IInv, TypeOK
  <2>3. /\ reviewed' \in SUBSET Runs
        /\ UNCHANGED <<run, delivered, sized, process, published, restarts>>
    BY <1>2 DEF Decide, IInv, TypeOK
  <2>4. WorkingTaskHasRun'
    BY <1>2, <2>3, SameTold, CoordinatorAssumptions DEF Decide, TaskStatuses, Busy
  <2>5. WaitingRunHasTimer'
    BY <2>3, SameTimers DEF process
  <2>6. Promised
    <3>1. /\ r \in delivered /\ r \notin reviewed /\ run[r] = "completed"
          /\ reviewed' = reviewed \cup {r}
      BY <1>2 DEF Decide
    <3>2. States[r] = "completed" BY <3>1 DEF States, StateOf
    <3>3. UNCHANGED <<Workers, States, delivered, published, restarts>>
      BY <2>3 DEF process, Workers, Executing, States
    <3>4. Lifecycle!Decides(r) BY <3>1, <3>2, <3>3 DEF Lifecycle!Decides
    <3> QED BY <3>4 DEF Promised, Lifecycle!Next
  <2>7. DecidedIsCompleted'
    BY <1>2, <2>3 DEF Decide, IInv, DecidedIsCompleted
  <2> QED
    BY <2>1, <2>2, <2>3, <2>4, <2>5, <2>6, <2>7
       DEF process, IInv, TypeOK, OneWriterPerTask, ExecutingIsLive, DownIsIdle,
           ActiveIsOwn, DeliveriesCounted
<1>3. ASSUME UNCHANGED <<database, active, at, ghosts, bounds>>,
             timers' \in SUBSET Runs, aborted' \in SUBSET Runs,
             proc' \in {"up", "stopping"}, WaitingRunHasTimer'
      PROVE  IInv' /\ Promised
  <2>1. WorkingTaskHasRun'
    BY <1>3 DEF database, IInv, WorkingTaskHasRun, Unfinished
  <2>2. Promised
    BY <1>3, SamePromised DEF database, ghosts, bounds
  <2> QED
    BY <1>3, <2>1, <2>2
       DEF database, ghosts, bounds, IInv, TypeOK, OneWriterPerTask, ExecutingIsLive,
           DownIsIdle, ActiveIsOwn, DeliveriesCounted, DecidedIsCompleted
<1>4. CASE Shutdown
  <2>1. WaitingRunHasTimer'
    BY <1>4 DEF Shutdown, WaitingRunHasTimer
  <2> QED
    BY <1>3, <1>4, <2>1 DEF Shutdown, Executing, IInv, TypeOK
<1>5. CASE ArmWaitingRuns
  <2>1. WaitingRunHasTimer'
    BY <1>5 DEF ArmWaitingRuns, database, WaitingRunHasTimer
  <2> QED
    BY <1>3, <1>5, <2>1 DEF ArmWaitingRuns, IInv, TypeOK
<1> QED
  BY <1>1, <1>2, <1>4, <1>5

LEMMA BootStep ==
  ASSUME IInv, Boot
  PROVE  IInv' /\ Promised
<1>1. PICK legacy \in SUBSET {r \in Runs : run[r] = "blocked"} :
        /\ run' = [r \in Runs |-> IF r \in legacy THEN "waiting_provider" ELSE run[r]]
        /\ task' = [t \in Tasks |-> IF RunsOf(t) \cap legacy # {} THEN "waiting_provider" ELSE task[t]]
  BY DEF Boot
<1>2. /\ proc = "down" /\ proc' = "recovering"
      /\ UNCHANGED <<delivered, reviewed, sized, active, timers, at, aborted, ghosts, bounds>>
  BY DEF Boot
<1>3. TypeOK'
  <2>1. run' \in [Runs -> RunStatuses] /\ task' \in [Tasks -> TaskStatuses]
    BY <1>1 DEF IInv, TypeOK, RunStatuses, TaskStatuses
  <2> QED BY <1>2, <2>1 DEF ghosts, bounds, IInv, TypeOK
<1>4. \A r \in Runs : at[r] = "settled" BY <1>2 DEF IInv, DownIsIdle
<1>5. OneWriterPerTask' /\ ExecutingIsLive' /\ DownIsIdle' /\ ActiveIsOwn' /\ DeliveriesCounted'
  BY <1>2, <1>4
     DEF ghosts, bounds, IInv, OneWriterPerTask, ExecutingIsLive, DownIsIdle, ActiveIsOwn, DeliveriesCounted
<1>6. WaitingRunHasTimer' BY <1>2 DEF WaitingRunHasTimer
<1>7. DecidedIsCompleted'
  BY <1>1, <1>2 DEF IInv, TypeOK, DecidedIsCompleted
<1>8. WorkingTaskHasRun'
  <2> SUFFICES ASSUME NEW t \in Tasks, task'[t] \in Busy
               PROVE  \E q \in RunsOf(t) : Unfinished(q)'
    BY DEF WorkingTaskHasRun, Busy
  <2>1. CASE RunsOf(t) \cap legacy # {}
    <3>1. PICK q : q \in RunsOf(t) \cap legacy BY <2>1
    <3>2. q \in Runs BY <3>1 DEF RunsOf
    <3> QED BY <1>1, <3>1, <3>2 DEF Unfinished
  <2>2. CASE RunsOf(t) \cap legacy = {}
    <3>1. task[t] \in Busy BY <1>1, <2>2
    <3>2. PICK q \in RunsOf(t) : Unfinished(q)
      BY <3>1 DEF IInv, WorkingTaskHasRun, Busy
    <3>3. q \in Runs /\ q \notin legacy BY <2>2, <3>2 DEF RunsOf
    <3> QED BY <1>1, <3>2, <3>3 DEF Unfinished
  <2> QED BY <2>1, <2>2
<1>9. Promised
  <2>1. \A t \in Tasks : Workers[t] = {} BY <1>4 DEF Workers, Executing
  <2>2. legacy \in SUBSET {r \in Runs : States[r] = "blocked"} BY DEF States, StateOf
  <2>3. States' = [r \in Runs |-> IF r \in legacy THEN "open" ELSE States[r]]
    BY <1>1 DEF States, StateOf
  <2>4. UNCHANGED <<Workers, delivered, published, reviewed, restarts>>
    BY <1>2 DEF ghosts, bounds, Workers, Executing
  <2>5. Lifecycle!TakesUp BY <2>1, <2>2, <2>3, <2>4 DEF Lifecycle!TakesUp
  <2> QED BY <2>5 DEF Promised, Lifecycle!Next
<1> QED BY <1>3, <1>5, <1>6, <1>7, <1>8, <1>9 DEF IInv

LEMMA DieStep ==
  ASSUME IInv, Die
  PROVE  IInv' /\ Promised
<1>1. /\ proc' = "down" /\ timers' = {} /\ aborted' = {}
      /\ active' = [t \in Tasks |-> NoRun]
      /\ at' = [r \in Runs |-> "settled"]
      /\ UNCHANGED <<database, ghosts, humanActions>>
  BY DEF Die, ProcessDies
<1>2. restarts' \in 0..MaxRestarts /\ restarts' = restarts + 1
  BY CoordinatorAssumptions DEF Die, IInv, TypeOK
<1>3. TypeOK'
  BY <1>1, <1>2 DEF database, ghosts, IInv, TypeOK
<1>4. OneWriterPerTask' /\ ExecutingIsLive' /\ DownIsIdle'
  BY <1>1, CoordinatorAssumptions DEF OneWriterPerTask, ExecutingIsLive, DownIsIdle
<1>5. DeliveriesCounted'
  BY <1>1, <1>2 DEF database, ghosts, IInv, TypeOK, DeliveriesCounted
<1>6. Promised /\ DecidedIsCompleted'
  <2>1. Workers' = [t \in Tasks |-> {}] BY <1>1 DEF Workers, Executing
  <2>2. UNCHANGED <<States, delivered, published, reviewed>> BY <1>1 DEF database, ghosts, States
  <2>3. Lifecycle!Lost BY <1>2, <2>1, <2>2 DEF Lifecycle!Lost
  <2>4. DecidedIsCompleted' BY <1>1 DEF database, IInv, DecidedIsCompleted
  <2> QED BY <2>3, <2>4 DEF Promised, Lifecycle!Next
<1>7. ActiveIsOwn' /\ WaitingRunHasTimer'
  BY <1>1 DEF ActiveIsOwn, WaitingRunHasTimer
<1>8. WorkingTaskHasRun'
  BY <1>1 DEF database, IInv, WorkingTaskHasRun, Unfinished
<1> QED
  BY <1>3, <1>4, <1>5, <1>6, <1>7, <1>8 DEF IInv

LEMMA RecoverStep ==
  ASSUME IInv, NEW r \in Runs, NEW exists \in BOOLEAN, RecoverInterruptedRun(r, exists)
  PROVE  IInv' /\ Promised
<1>1. PICK status \in {"cancelled", "waiting_provider", "blocked"} :
        /\ run' = [run EXCEPT ![r] = status]
        /\ task' = task \/ task' = [task EXCEPT ![TaskOf[r]] = status]
  BY DEF RecoverInterruptedRun
<1>2. /\ proc = "recovering" /\ run[r] = "running"
      /\ UNCHANGED <<delivered, reviewed, sized, process, ghosts, bounds>>
  BY DEF RecoverInterruptedRun
<1>3. task' \in [Tasks -> TaskStatuses] /\ run' \in [Runs -> RunStatuses]
  BY <1>1, CoordinatorAssumptions DEF IInv, TypeOK, TaskStatuses, RunStatuses
<1>4. TypeOK'
  BY <1>2, <1>3 DEF process, ghosts, bounds, IInv, TypeOK
<1>5. OneWriterPerTask' /\ DownIsIdle' /\ DeliveriesCounted'
  BY <1>2 DEF process, ghosts, bounds, IInv, OneWriterPerTask, DownIsIdle, DeliveriesCounted
<1>6. ExecutingIsLive'
  BY <1>2 DEF process, IInv, DownIsIdle, ExecutingIsLive
<1>7. Promised /\ DecidedIsCompleted'
  <2>1. Workers[TaskOf[r]] = {}
    <3>1. \A q \in Runs : at[q] = "settled" BY <1>2 DEF IInv, DownIsIdle
    <3> QED BY <3>1, CoordinatorAssumptions DEF Workers, Executing
  <2>2. States[r] = "open" /\ States' = [States EXCEPT ![r] = StateOf(status)]
    BY <1>1, <1>2 DEF States, StateOf, IInv, TypeOK
  <2>3. UNCHANGED <<Workers, delivered, published, reviewed, restarts>>
    BY <1>2 DEF process, ghosts, bounds, Workers, Executing
  <2>4. CASE status = "waiting_provider"
    <3>1. States' = States BY <2>2, <2>4 DEF States, StateOf
    <3> QED BY <1>1, <1>2, <2>3, <3>1 DEF Promised, IInv, TypeOK, DecidedIsCompleted
  <2>5. CASE status # "waiting_provider"
    <3>1. StateOf(status) \in {"blocked", "cancelled"} BY <2>5 DEF StateOf
    <3>2. Lifecycle!Closes(r) BY <2>1, <2>2, <2>3, <3>1 DEF Lifecycle!Closes
    <3>3. DecidedIsCompleted' BY <1>1, <1>2 DEF IInv, TypeOK, DecidedIsCompleted
    <3> QED BY <3>2, <3>3 DEF Promised, Lifecycle!Next
  <2> QED BY <2>4, <2>5
<1>8. ActiveIsOwn' /\ WaitingRunHasTimer'
  BY <1>2 DEF process, IInv, ActiveIsOwn, WaitingRunHasTimer
<1>9. WorkingTaskHasRun'
  <2> SUFFICES ASSUME NEW t \in Tasks, task'[t] \in Busy
               PROVE  \E q \in RunsOf(t) : Unfinished(q)'
    BY DEF WorkingTaskHasRun, Busy
  <2>1. CASE t = TaskOf[r]
    <3>1. run'[r] \in Live
      BY <2>1, <1>2 DEF RecoverInterruptedRun, NonResumable, Busy, Live, IInv, TypeOK
    <3> QED
      BY <2>1, <3>1 DEF RunsOf, Unfinished, Live
  <2>2. CASE t # TaskOf[r]
    <3>1. task[t] \in Busy
      BY <1>1, <2>2 DEF IInv, TypeOK
    <3>2. PICK q \in RunsOf(t) : Unfinished(q)
      BY <3>1 DEF IInv, WorkingTaskHasRun, Busy
    <3> QED
      BY <1>1, <2>2, <3>2 DEF RunsOf, Unfinished, IInv, TypeOK
  <2> QED
    BY <2>1, <2>2
<1> QED
  BY <1>4, <1>5, <1>6, <1>7, <1>8, <1>9 DEF IInv

LEMMA StepPreserves ==
  ASSUME IInv, [Next]_vars
  PROVE  IInv' /\ Promised
<1>1. CASE UNCHANGED vars
  <2>1. WorkingTaskHasRun'
    BY <1>1 DEF vars, database, IInv, WorkingTaskHasRun, Unfinished
  <2>2. WaitingRunHasTimer'
    BY <1>1, SameTimers DEF vars, database, process
  <2>3. Promised
    BY <1>1, SamePromised DEF vars, database, process, ghosts, bounds
  <2> QED
    BY <1>1, <2>1, <2>2, <2>3
       DEF vars, database, process, ghosts, bounds, IInv, TypeOK, OneWriterPerTask,
           ExecutingIsLive, DownIsIdle, ActiveIsOwn, DeliveriesCounted, DecidedIsCompleted
<1>2. CASE Next
  BY <1>2, AnswerStep, RequestStep, ResumeStep, CancelStep, StatusStep, BootStep, DieStep,
     RecoverStep
     DEF Next
<1> QED
  BY <1>1, <1>2

LEMMA InitHolds ==
  ASSUME Init
  PROVE  IInv
<1>1. TypeOK
  BY CoordinatorAssumptions DEF Init, TypeOK, TaskStatuses, RunStatuses, Awaits
<1> QED
  BY <1>1, CoordinatorAssumptions
     DEF Init, IInv, OneWriterPerTask, ExecutingIsLive, DownIsIdle, ActiveIsOwn,
         DeliveriesCounted, WorkingTaskHasRun, WaitingRunHasTimer, DecidedIsCompleted

LEMMA Invariant == Spec => []IInv
BY InitHolds, StepPreserves, PTL DEF Spec

\* The lifecycle keeps a cancelled Goal cancelled.
LEMMA CancelledStays ==
  ASSUME Promised
  PROVE  \A r \in Runs : States[r] = "cancelled" => States'[r] = "cancelled"
<1> SUFFICES ASSUME NEW q \in Runs, States[q] = "cancelled" PROVE States'[q] = "cancelled"
  OBVIOUS
<1>1. States = [r \in Runs |-> States[r]] BY DEF States
<1>2. ASSUME NEW r \in Runs, Lifecycle!Works(r) PROVE States'[q] = "cancelled"
  BY <1>1, <1>2 DEF Lifecycle!Works, Lifecycle!Over
<1>3. ASSUME NEW r \in Runs, Lifecycle!Closes(r) PROVE States'[q] = "cancelled"
  BY <1>1, <1>3 DEF Lifecycle!Closes
<1>4. CASE Lifecycle!Lost
  BY <1>1, <1>4 DEF Lifecycle!Lost, Lifecycle!Over
<1>5. CASE Lifecycle!TakesUp
  BY <1>1, <1>5 DEF Lifecycle!TakesUp
<1> QED BY <1>2, <1>3, <1>4, <1>5 DEF Promised, Lifecycle!Next, Lifecycle!Decides

-----------------------------------------------------------------------------
(* The theorems                                                            *)

\* Every variable of the coordinator keeps its type.
THEOREM TypeCorrect == Spec => []TypeOK
BY Invariant, PTL DEF IInv

\* No two runs of a Task ever execute at once, whatever resumes them: the run
\* `active` names is the only one.
THEOREM OneWriterPerTaskHolds == Spec => []OneWriterPerTask
BY Invariant, PTL DEF IInv

\* A run is delivered once, and once more only for each death of the process.
THEOREM DeliveredOnceHolds == Spec => []DeliveredOnce
<1>1. IInv => DeliveredOnce
  BY DEF IInv, TypeOK, DeliveriesCounted, DeliveredOnce
<1> QED
  BY <1>1, Invariant, PTL

\* No timer, request or restart brings a cancelled run back.
THEOREM CancelledRunIsFinalHolds == Spec => CancelledRunIsFinal
<1>1. ASSUME IInv, [Next]_vars
      PROVE  [\A r \in Runs : run[r] = "cancelled" => run'[r] = "cancelled"]_vars
  <2>1. \A r \in Runs : States[r] = "cancelled" => States'[r] = "cancelled"
    BY <1>1, StepPreserves, CancelledStays
  <2>2. \A r \in Runs : (States[r] = "cancelled" <=> run[r] = "cancelled")
                     /\ (States'[r] = "cancelled" <=> run'[r] = "cancelled")
    BY DEF States, StateOf
  <2> QED BY <2>1, <2>2
<1> QED
  BY <1>1, Invariant, PTL DEF Spec, CancelledRunIsFinal

\* A Task shown as working or waiting has an unfinished run, whichever of its
\* runs paused, was cancelled or was recovered by a new process.
THEOREM WorkingTaskHasRunHolds == Spec => []WorkingTaskHasRun
BY Invariant, PTL DEF IInv

\* No timer is lost: a run that waits, alone of its Task, has a retry timer
\* armed or executes already, after every resume, cancel and recovery.
THEOREM WaitingRunHasTimerHolds == Spec => []WaitingRunHasTimer
BY Invariant, PTL DEF IInv

\* Every history of starts, awaits, timers, reviews, cancellations, deaths and
\* recoveries is one of the lifecycle: at most one Goal works in a Task's worktree,
\* a delivery is work that completed or was lost on the way, and no Goal that was
\* cancelled or decided about works again (GoalCoordinator, recoverWaitingRuns).
THEOREM CoordinatorImplementsLifecycle == Spec => ImplementsLifecycle
<1>1. Init => Lifecycle!Init
  BY CoordinatorAssumptions DEF Init, Lifecycle!Init, Workers, Executing, States, StateOf
<1>2. IInv /\ [Next]_vars => [Lifecycle!Next]_(Lifecycle!lifecycle)
  BY StepPreserves DEF Promised, Lifecycle!lifecycle
<1> QED
  BY <1>1, <1>2, Invariant, PTL DEF Spec, ImplementsLifecycle, Lifecycle!Spec
=============================================================================
