------------------------------ MODULE WorkGraph ------------------------------
(***************************************************************************)
(* src/work-graphs: the Work Graph of a Goal run - Worker Nodes that       *)
(* depend on one another, readers in parallel and one writer alone - its   *)
(* runner, the coordinator that resumes it, and the Goal that owns it      *)
(* (runExplicitWorkGraphImplementation of src/goals/runner.ts and the      *)
(* wiring of src/index.ts), of which only what touches the graph is here.  *)
(*                                                                         *)
(* The runner awaits twice per Worker: the lease and the execution.  All   *)
(* Workers of a batch are awaited together (Promise.all); when the last    *)
(* one is done the loop goes on in the same step.  When one throws, the    *)
(* batch is given up and the others go on as orphans.                      *)
(***************************************************************************)
EXTENDS Naturals, FiniteSets

CONSTANTS
  Nodes,            \* Worker Nodes, in position order
  Shapes,           \* [mode, deps] of the graphs a Goal may ask for
  MaxAttempts,      \* budget.maxAttempts of every node
  MaxReaders,       \* maxParallelReaders
  MaxGraphFaults    \* crashes, shutdowns, exceptions and cancellations

\* Positions are numbers and a budget allows an attempt (positiveInteger of persistence.ts).
ASSUME GraphBounds ==
  /\ IsFiniteSet(Nodes) /\ Nodes \subseteq Nat
  /\ MaxAttempts \in Nat \ {0} /\ MaxGraphFaults \in Nat

VARIABLES
  shape,       \* the graph, as asked for
  graph,       \* work_graphs.status, "none" before it is created
  node,        \* worker_nodes: status and attempt_count
  worker,      \* what each Worker of the running batch, or an orphan, is at
  exec,        \* the entry of activeByGraphId: batch, signal, selfRetry
  graphTimer,  \* retryTimers has the graph
  goal,        \* goal_runs.status of the owner, and what its runner is at
  goalTimer,   \* the Goal coordinator has a retry timer for it
  process,     \* "up", "stopping" once shutdown() was called, "down"
  lostCancel,  \* a crash, or an exception during a shutdown, lost a cancellation (history)
  graphFaults

graphVars == <<shape, graph, node, worker, exec, graphTimer, goal, goalTimer, process,
               lostCancel, graphFaults>>

GraphStatuses == {"none", "running", "waiting_provider", "completed", "blocked", "cancelled"}
GraphSettled == {"completed", "blocked", "cancelled"}
NodeStatuses == {"pending", "ready", "running", "waiting_provider", "failed", "completed",
                 "blocked", "cancelled"}
GoalActive == {"running", "waiting_provider"}

NoExec == [on |-> FALSE, batch |-> {}, signal |-> "none", selfRetry |-> FALSE]
Stopping == process = "stopping"
GraphFault == graphFaults < MaxGraphFaults /\ graphFaults' = graphFaults + 1

-----------------------------------------------------------------------------
\* validator.ts and scheduler.ts

\* topologicalSort of validateWorkGraph reaches every node.
Acyclic(deps) ==
  LET sorted[i \in Nat] ==
        IF i = 0 THEN {} ELSE {n \in Nodes : deps[n] \subseteq sorted[i - 1]}
  IN sorted[Cardinality(Nodes)] = Nodes

ValidGraph(s) ==
  /\ Cardinality({n \in Nodes : s.mode[n] = "writer"}) <= 1
  /\ \A n \in Nodes : s.deps[n] \subseteq Nodes \ {n}
  /\ Acyclic(s.deps)

IsPending(nd, n) == nd[n].status \in {"pending", "ready", "waiting_provider", "failed"}
AllOver(nd) == \A n \in Nodes : nd[n].status \in {"completed", "cancelled"}
HasFailed(nd) == \E n \in Nodes : \/ nd[n].status = "blocked"
                                  \/ nd[n].status = "failed" /\ nd[n].attempts >= MaxAttempts

Candidates(nd) ==
  {n \in Nodes : IsPending(nd, n) /\ \A d \in shape.deps[n] : nd[d].status = "completed"}
RunningNodes(nd, mode) == {n \in Nodes : nd[n].status = "running" /\ shape.mode[n] = mode}
FirstOf(S, k) == {n \in S : Cardinality({m \in S : m < n}) < k}

ReadyBatchOfAll(nd) == FirstOf(Candidates(nd), MaxReaders)
\* scheduleWorkerBatch: the first writer that may work, alone; or readers.
ReadyBatch(nd) ==
  LET writers == {n \in Candidates(nd) : shape.mode[n] = "writer"}
      active == RunningNodes(nd, "writer") \cup RunningNodes(nd, "read_only")
  IN IF RunningNodes(nd, "writer") # {} THEN {}
     ELSE IF writers # {} THEN (IF active = {} THEN FirstOf(writers, 1) ELSE {})
     ELSE FirstOf(Candidates(nd), MaxReaders - Cardinality(active))

-----------------------------------------------------------------------------
\* runner.ts

NodesBecome(nd, S, status) ==
  [n \in Nodes |-> IF n \in S THEN [nd[n] EXCEPT !.status = status] ELSE nd[n]]
Unsettled(nd) == {n \in Nodes : nd[n].status \notin GraphSettled}

CutOffForRetry(nd, S) == NodesBecome(nd, S, "waiting_provider")
\* interruptGraph, recoverInterruptedGraph: nodes S were cut off; those without
\* attempts left are blocked.
CutOff(nd, S) ==
  NodesBecome(NodesBecome(nd, S, "waiting_provider"),
              {n \in S : nd[n].attempts >= MaxAttempts}, "blocked")
AnyBlocked(nd) == \E n \in Nodes : nd[n].status = "blocked"

\* onGraphSettled resumes the Goal of a settled graph; resume refuses a Goal
\* that does not wait.
ResumesGoal(g, status) ==
  status \in GraphSettled /\ ~Stopping /\ g.status = "waiting_provider" /\ g.at = "none"

\* The Goal g once the graph has a status: its runner, if it awaits the graph,
\* pauses, is cancelled, is blocked, fails on an exception or goes on to testing.
GoalAfter(g, status, ex) ==
  IF g.at = "awaiting"
  THEN CASE status = "waiting_provider" -> [status |-> "waiting_provider", at |-> "none"]
         [] status = "cancelled" -> [status |-> "cancelled", at |-> "none"]
         [] status = "rejected" -> [status |-> "failed", at |-> "none"]
         [] status = "blocked" ->
              [status |-> IF ex.signal = "cancel" THEN "cancelled" ELSE "blocked", at |-> "none"]
         [] status = "completed" -> [status |-> "running", at |-> "testing"]
  ELSE IF ResumesGoal(g, status) THEN [status |-> "running", at |-> "implementing"]
  ELSE g

\* A Goal that comes to wait gets a timer, one that moves loses it.
GoalMoves(g) ==
  /\ goal' = g
  /\ goalTimer' = IF g = goal THEN goalTimer ELSE g.status = "waiting_provider" /\ ~Stopping

\* The Workers of a batch begin; orphans of an earlier one go on.
Batch(ready) ==
  [n \in Nodes |-> IF n \in ready THEN "acquire" ELSE IF worker[n] = "orphan" THEN "orphan" ELSE "idle"]

\* The promise of runWorkGraph settles: the coordinator releases the graph and
\* sets its own timer if it is to, and the Goal goes on.
Settles(nd, status, ex, g) ==
  /\ node' = nd /\ graph' = status
  /\ exec' = NoExec /\ worker' = Batch({})
  /\ graphTimer' = (status = "waiting_provider" /\ ex.selfRetry /\ ~Stopping)
  /\ GoalMoves(GoalAfter(g, status, ex))

\* The top of the loop, on node rows nd: stop, settle, or start a batch.
Loops(nd, ex, g) ==
  LET ready == ReadyBatch(nd)
      interrupted == CutOff(nd, {n \in Nodes : nd[n].status \in {"ready", "running"}})
  IN \/ /\ ex.signal = "shutdown"
        /\ Settles(interrupted, IF AnyBlocked(interrupted) THEN "blocked" ELSE "waiting_provider", ex, g)
     \/ /\ ex.signal = "cancel"
        /\ Settles(NodesBecome(nd, Unsettled(nd), "cancelled"), "cancelled", ex, g)
     \/ /\ ex.signal = "none" /\ AllOver(nd)
        /\ Settles(nd, "completed", ex, g)
     \/ /\ ex.signal = "none" /\ ~AllOver(nd) /\ HasFailed(nd)
        /\ Settles(nd, "blocked", ex, g)
     \/ /\ ex.signal = "none" /\ ~AllOver(nd) /\ ~HasFailed(nd) /\ ready = {}
        /\ Settles(nd, IF \E n \in Nodes : IsPending(nd, n) THEN "waiting_provider" ELSE "blocked", ex, g)
     \/ /\ ex.signal = "none" /\ ~AllOver(nd) /\ ~HasFailed(nd) /\ ready # {}
        /\ node' = NodesBecome(nd, ready, "ready")
        /\ graph' = "running" /\ graphTimer' = FALSE
        /\ exec' = [ex EXCEPT !.on = TRUE, !.batch = ready]
        /\ worker' = Batch(ready)
        /\ GoalMoves(g)

\* runWorkGraph from its start: an invalid graph is blocked.
Executes(nd, selfRetry, g) ==
  LET ex == [NoExec EXCEPT !.selfRetry = selfRetry]
  IN IF ValidGraph(shape) THEN Loops(nd, ex, g) ELSE Settles(nd, "blocked", ex, g)

\* A Worker of the batch ends with a result; with the last one the graph is
\* cancelled, or waits when nothing progressed, or goes on.
WorkerEnds(n, nd, result) ==
  LET results == [m \in exec.batch |-> IF m = n THEN result ELSE worker[m]]
      some(r) == \E m \in exec.batch : results[m] = r
  IN \/ /\ some("acquire") \/ some("execute")
        /\ node' = nd /\ worker' = [worker EXCEPT ![n] = result]
        /\ UNCHANGED <<graph, exec, graphTimer, goal, goalTimer>>
     \/ /\ ~some("acquire") /\ ~some("execute") /\ some("cancelled")
        /\ Settles(NodesBecome(nd, Unsettled(nd), "cancelled"), "cancelled", exec, goal)
     \/ /\ ~some("acquire") /\ ~some("execute") /\ ~some("cancelled")
        /\ some("waiting") /\ ~some("progressed")
        /\ Settles(nd, "waiting_provider", exec, goal)
     \/ /\ ~some("acquire") /\ ~some("execute") /\ ~some("cancelled")
        /\ some("waiting") => some("progressed")
        /\ Loops(nd, exec, goal)

\* The lease arrives, also to a graph that is being stopped; or there is none.
LeasedNodeUncounted(nd, n) == [nd EXCEPT ![n].status = "running"]
LeasedNode(nd, n) == [nd EXCEPT ![n] = [status |-> "running", attempts |-> @.attempts + 1]]

WorkerAcquires(n) ==
  /\ n \in exec.batch /\ worker[n] = "acquire"
  /\ \/ /\ node' = LeasedNode(node, n)
        /\ worker' = [worker EXCEPT ![n] = "execute"]
        /\ UNCHANGED <<graph, exec, graphTimer, goal, goalTimer>>
     \/ WorkerEnds(n, NodesBecome(node, {n}, "waiting_provider"), "waiting")
  /\ UNCHANGED <<shape, process, lostCancel, graphFaults>>

\* A shutdown cuts an attempt off, an abort cancels it whatever the Provider
\* answered; a Provider that is blocked is tried again, a Worker that left its
\* scope is not.
NodeStatusFor(nd, n, outcome) ==
  LET spent == nd[n].attempts >= MaxAttempts
  IN CASE exec.signal = "shutdown" -> IF spent THEN "blocked" ELSE "waiting_provider"
       [] exec.signal = "cancel" -> "cancelled"
       [] exec.signal = "none" /\ outcome \in {"completed", "cancelled"} -> outcome
       [] exec.signal = "none" /\ outcome = "out_of_scope" -> "blocked"
       [] exec.signal = "none" /\ outcome = "retryable" -> IF spent THEN "blocked" ELSE "waiting_provider"
       [] exec.signal = "none" /\ outcome = "provider_blocked" -> IF spent THEN "blocked" ELSE "failed"

WorkerFinishes(n) ==
  /\ n \in exec.batch /\ worker[n] = "execute"
  /\ \E outcome \in {"completed", "cancelled", "out_of_scope", "retryable", "provider_blocked"} :
       LET status == NodeStatusFor(node, n, outcome)
       IN WorkerEnds(n, NodesBecome(node, {n}, status),
                     CASE status = "waiting_provider" -> "waiting"
                       [] status = "cancelled" -> "cancelled"
                       [] status = "completed" -> "progressed"
                       [] OTHER -> "over")
  /\ UNCHANGED <<shape, process, lostCancel, graphFaults>>

\* The promise is rejected because one Worker threw (git, an artifact): blockGraph
\* blocks the nodes, and the other Workers of the batch go on as orphans.  During a
\* shutdown nothing is blocked, and those that await a lease go on too.
WorkerThrows(n) ==
  /\ n \in exec.batch /\ worker[n] \in {"acquire", "execute"} /\ GraphFault
  /\ exec' = [NoExec EXCEPT !.signal = IF Stopping THEN exec.signal ELSE "none"]
  /\ worker' = [m \in Nodes |->
                  IF m # n /\ (worker[m] = "execute" \/ (Stopping /\ worker[m] = "acquire"))
                  THEN "orphan" ELSE "idle"]
  /\ node' = IF Stopping THEN node ELSE NodesBecome(node, Unsettled(node), "blocked")
  /\ graph' = IF Stopping THEN graph ELSE "blocked"
  /\ GoalMoves(GoalAfter(goal, IF goal.at = "awaiting" THEN "rejected" ELSE graph', exec))
  /\ lostCancel' = (\/ lostCancel
                    \/ Stopping /\ (exec.signal = "cancel" \/ \E m \in Nodes : node[m].status = "cancelled"))
  /\ UNCHANGED <<shape, graphTimer, process>>

\* The orphan ends: a terminal row refuses the write, another one is what the signal
\* makes of it, with a last attempt if it got its lease.
OrphanEnds(n) ==
  /\ worker[n] = "orphan" /\ worker' = [worker EXCEPT ![n] = "idle"]
  /\ \/ node[n].status \in GraphSettled /\ UNCHANGED node
     \/ node[n].status = "ready" /\ node' = NodesBecome(node, {n}, "waiting_provider")
     \/ \E nd \in {IF node[n].status = "ready" THEN LeasedNode(node, n) ELSE node} :
          /\ node[n].status \notin GraphSettled
          /\ node' = NodesBecome(nd, {n}, NodeStatusFor(nd, n, "cancelled"))
  /\ UNCHANGED <<shape, graph, exec, graphTimer, goal, goalTimer, process, lostCancel, graphFaults>>

-----------------------------------------------------------------------------
\* The Goal, the timers and the operator

\* runExplicitWorkGraphImplementation: create or find the graph, join its
\* execution, run it or take its outcome; during a shutdown it throws.
GoalRunsGraph ==
  /\ goal.at = "implementing"
  /\ LET awaits == [goal EXCEPT !.at = "awaiting"]
     IN \/ /\ Stopping /\ GoalMoves(GoalAfter(awaits, "rejected", NoExec))
           /\ UNCHANGED <<graph, node, worker, exec, graphTimer>>
        \/ /\ ~Stopping /\ exec.on /\ GoalMoves(awaits)
           /\ UNCHANGED <<graph, node, worker, exec, graphTimer>>
        \/ /\ ~Stopping /\ ~exec.on /\ graph \in GraphSettled
           /\ GoalMoves(GoalAfter(awaits, graph, NoExec))
           /\ UNCHANGED <<graph, node, worker, exec, graphTimer>>
        \/ /\ ~Stopping /\ ~exec.on /\ graph \notin GraphSettled
           /\ Executes(node, FALSE, awaits)
  /\ UNCHANGED <<shape, process, lostCancel, graphFaults>>

\* The rest of the Goal, which the graph takes no part in.
GoalEnds ==
  /\ goal.at = "testing" /\ \E s \in {"completed", "failed"} : GoalMoves([status |-> s, at |-> "none"])
  /\ UNCHANGED <<shape, graph, node, worker, exec, graphTimer, process, lostCancel, graphFaults>>

\* The Goal coordinator resumes a waiting Goal: its timer, or the operator.
GoalResumes ==
  /\ goal.status = "waiting_provider" /\ goal.at = "none" /\ process = "up"
  /\ GoalMoves([status |-> "running", at |-> "implementing"])
  /\ \/ goalTimer /\ UNCHANGED graphFaults
     \/ ~goalTimer /\ GraphFault
  /\ UNCHANGED <<shape, graph, node, worker, exec, graphTimer, process, lostCancel>>

\* GoalCoordinator.cancel: the signal of the Goal reaches the execution it
\* awaits; the first reason of an abort stays.
GoalIsCancelled ==
  /\ process # "down" /\ GraphFault
  /\ \/ /\ goal.at = "awaiting" /\ exec.on /\ exec.signal = "none"
        /\ exec' = [exec EXCEPT !.signal = "cancel"] /\ UNCHANGED <<goal, goalTimer>>
     \/ /\ goal.at \in {"implementing", "testing"} \/ (goal.at = "none" /\ goal.status = "waiting_provider")
        /\ GoalMoves([status |-> "cancelled", at |-> "none"]) /\ UNCHANGED exec
  /\ UNCHANGED <<shape, graph, node, worker, graphTimer, process, lostCancel>>

\* The retry timer of the graph: start refuses a settled graph and an inactive
\* Goal, and the error is only logged.
GraphTimerFires ==
  /\ graphTimer
  /\ IF graph \notin GraphSettled /\ goal.status \in GoalActive
     THEN Executes(node, TRUE, goal)
     ELSE graphTimer' = FALSE /\ UNCHANGED <<graph, node, worker, exec, goal, goalTimer>>
  /\ UNCHANGED <<shape, process, lostCancel, graphFaults>>

\* WorkGraphCoordinator.cancel.
GraphIsCancelled ==
  /\ graph \notin GraphSettled \cup {"none"} /\ process # "down" /\ GraphFault
  /\ graphTimer' = FALSE
  /\ \/ /\ exec.on /\ exec.signal = "none"
        /\ exec' = [exec EXCEPT !.signal = "cancel"]
        /\ UNCHANGED <<graph, node, worker, goal, goalTimer>>
     \/ /\ ~exec.on /\ exec' = exec /\ worker' = worker
        /\ node' = NodesBecome(node, Unsettled(node), "cancelled") /\ graph' = "cancelled"
        /\ GoalMoves(GoalAfter(goal, "cancelled", NoExec))
  /\ UNCHANGED <<shape, process, lostCancel>>

-----------------------------------------------------------------------------
\* Shutdown, crash and restart

ShutsDown ==
  /\ process = "up" /\ GraphFault
  /\ process' = "stopping" /\ graphTimer' = FALSE
  /\ exec' = IF exec.on /\ exec.signal = "none" THEN [exec EXCEPT !.signal = "shutdown"] ELSE exec
  /\ UNCHANGED <<shape, graph, node, worker, goal, goalTimer, lostCancel>>

\* The executions are over: the Goal coordinator stops too, and interrupts a Goal.
Exits ==
  /\ Stopping /\ ~exec.on
  /\ process' = "down" /\ goalTimer' = FALSE
  /\ goal' = [status |-> IF goal.at = "none" THEN goal.status ELSE "waiting_provider", at |-> "none"]
  /\ worker' = [n \in Nodes |-> "idle"] /\ exec' = NoExec
  /\ UNCHANGED <<shape, graph, node, graphTimer, lostCancel, graphFaults>>

\* The process dies; the attempt of one Worker may be closed and its node not yet.
Crashes ==
  /\ process # "down" /\ GraphFault /\ process' = "down"
  /\ \E ended \in {{}} \cup {{n} : n \in {m \in exec.batch : worker[m] = "execute"}},
        result \in {"progressed", "over"} :
       /\ exec.signal = "none" \/ ended = {}
       /\ worker' = [n \in Nodes |-> IF n \in ended THEN result ELSE "idle"]
  /\ goal' = [goal EXCEPT !.at = "none"] /\ goalTimer' = FALSE
  /\ exec' = NoExec /\ graphTimer' = FALSE
  /\ lostCancel' = (\/ lostCancel \/ exec.signal = "cancel"
                    \/ exec.on /\ \E n \in Nodes : node[n].status = "cancelled")
  /\ UNCHANGED <<shape, graph, node>>

RunningWhenCut == {n \in Nodes : node[n].status = "running"}
RecoveredRows ==
  LET ended(result) == {n \in RunningWhenCut : worker[n] = result}
      lost == CutOff(node, RunningWhenCut \ (ended("progressed") \cup ended("over")))
  IN NodesBecome(NodesBecome(lost, ended("progressed"), "completed"), ended("over"), "blocked")

\* recoverActiveGraphs: a graph whose Goal is inactive is blocked; one with
\* Workers cut off waits or, without attempts left, is blocked; one that only
\* lost its loop runs again at once.
RecoversGraph ==
  \/ /\ graph \in GraphSettled \cup {"none"}
     /\ UNCHANGED <<graph, node, exec, graphTimer>>
  \/ /\ graph \notin GraphSettled \cup {"none"} /\ goal.status \notin GoalActive
     /\ node' = NodesBecome(node, Unsettled(node), "blocked") /\ graph' = "blocked"
     /\ UNCHANGED <<exec, graphTimer>>
  \/ /\ graph = "running" /\ goal.status \in GoalActive /\ RunningWhenCut # {}
     /\ node' = RecoveredRows
     /\ graph' = IF \E n \in RunningWhenCut : node'[n].status = "blocked" THEN "blocked" ELSE "waiting_provider"
     /\ graphTimer' = (graph' = "waiting_provider")
     /\ UNCHANGED exec
  \/ /\ graph = "waiting_provider" /\ goal.status \in GoalActive
     /\ graphTimer' = TRUE /\ UNCHANGED <<graph, node, exec>>

\* Startup of src/index.ts: the graph first, then the Goal unless its graph is
\* active (isRunActive).
Recovers ==
  /\ process = "down" /\ process' = "up"
  /\ \/ /\ graph = "running" /\ goal.status \in GoalActive /\ RunningWhenCut = {}
        /\ Executes(node, TRUE, goal)
     \/ /\ RecoversGraph
        /\ worker' = [n \in Nodes |-> "idle"]
        /\ IF graphTimer' \/ goal.status \notin GoalActive
           THEN UNCHANGED <<goal, goalTimer>>
           ELSE goal' = [status |-> "waiting_provider", at |-> "none"] /\ goalTimer' = TRUE
  /\ UNCHANGED <<shape, lostCancel, graphFaults>>

-----------------------------------------------------------------------------
GraphStarts(owner) ==
  /\ shape \in Shapes
  /\ graph = "none" /\ exec = NoExec /\ graphTimer = FALSE
  /\ node = [n \in Nodes |-> [status |-> "pending", attempts |-> 0]]
  /\ worker = [n \in Nodes |-> "idle"]
  /\ goal = owner /\ goalTimer = FALSE
  /\ process = "up" /\ lostCancel = FALSE /\ graphFaults = 0

GraphInit == GraphStarts([status |-> "running", at |-> "implementing"])

GraphNext ==
  \/ \E n \in Nodes : WorkerAcquires(n) \/ WorkerFinishes(n) \/ WorkerThrows(n) \/ OrphanEnds(n)
  \/ GoalRunsGraph \/ GoalEnds \/ GoalResumes \/ GoalIsCancelled
  \/ GraphTimerFires \/ GraphIsCancelled
  \/ ShutsDown \/ Exits \/ Crashes \/ Recovers

GraphSpec == GraphInit /\ [][GraphNext]_graphVars

\* Providers have a deadline, timers fire, promises go on and the process is
\* started again.  That a lease is ever granted is not assumed.  The guards are
\* the ENABLED of the steps, which TLC need not compute; the timer's step may
\* change nothing, when no node can ever be ready.
WorkerDue(n) == n \in exec.batch /\ worker[n] \in {"acquire", "execute"}
GoalDue == goalTimer /\ goal = [status |-> "waiting_provider", at |-> "none"] /\ process = "up"
GraphFairness ==
  /\ \A n \in Nodes :
       <>[]WorkerDue(n) => []<><<WorkerAcquires(n) \/ WorkerFinishes(n)>>_graphVars
  /\ <>[](goal.at = "implementing") => []<><<GoalRunsGraph>>_graphVars
  /\ <>[](goal.at = "testing") => []<><<GoalEnds>>_graphVars
  /\ <>[]GoalDue => []<><<goalTimer /\ GoalResumes>>_graphVars
  /\ WF_graphVars(GraphTimerFires)
  /\ <>[](Stopping /\ ~exec.on) => []<><<Exits>>_graphVars
  /\ <>[](process = "down") => []<><<Recovers>>_graphVars

-----------------------------------------------------------------------------
(***************************************************************************)
(* Every variable has its type, and no Worker is ever given more attempts  *)
(* than its budget: the exception of createWorkerAttempt is unreachable.   *)
(***************************************************************************)
GraphTypeOK ==
  /\ shape \in Shapes
  /\ graph \in GraphStatuses
  /\ node \in [Nodes -> [status : NodeStatuses, attempts : 0..MaxAttempts]]
  /\ worker \in [Nodes -> {"idle", "acquire", "execute", "orphan", "waiting", "cancelled",
                           "progressed", "over"}]
  /\ exec \in [on : BOOLEAN, batch : SUBSET Nodes, signal : {"none", "cancel", "shutdown"},
               selfRetry : BOOLEAN]
  /\ goal \in [status : GoalActive \cup GraphSettled \cup {"failed"},
               at : {"none", "implementing", "awaiting", "testing"}]
  /\ graphTimer \in BOOLEAN /\ goalTimer \in BOOLEAN /\ lostCancel \in BOOLEAN
  /\ process \in {"up", "stopping", "down"}
  /\ graphFaults \in 0..MaxGraphFaults

(***************************************************************************)
(* The writer has the worktree for itself: while a writer executes no      *)
(* other Worker does, not even one that a failed batch, a crash or a       *)
(* retry of the graph by another owner left behind (scheduleWorkerBatch).  *)
(***************************************************************************)
AtWork(n) == worker[n] \in {"execute", "orphan"}
WritersWorkAlone ==
  \A w \in Nodes : shape.mode[w] = "writer" /\ AtWork(w) => \A n \in Nodes \ {w} : ~AtWork(n)

(***************************************************************************)
(* The Goal goes on to testing only on a graph all of whose Workers        *)
(* completed - unless a crash, or an exception while the program shuts     *)
(* down, hit a cancellation under way: the graph then runs again with the  *)
(* nodes already cancelled counted as over.                                *)
(***************************************************************************)
GraphCompletesWhole ==
  graph = "completed" /\ ~lostCancel => \A n \in Nodes : node[n].status = "completed"

\* What the validation of a Goal relies on in a Work Graph.
GraphIsSound == WritersWorkAlone /\ GraphCompletesWhole

(***************************************************************************)
(* A running graph comes to an end or to a wait, whatever its Workers      *)
(* answer, throw or fail to get: attempts are finite and counted, and no   *)
(* node that waits for one that is lost keeps the loop turning.            *)
(***************************************************************************)
RunningGraphSettles == []<>(graph # "running")

(***************************************************************************)
(* A Goal that waits is not forgotten once its graph is over, whoever      *)
(* ended the graph: the Goal itself, the timer or the recovery of the      *)
(* graph, or the operator (onGraphSettled of src/index.ts).                *)
(***************************************************************************)
WaitingGoalIsResumed ==
  ~<>[](graph \in GraphSettled /\ goal.status = "waiting_provider")

(***************************************************************************)
(* docs/GOAL_RUNTIME.md: when restart recovery drives a Goal's graph to a  *)
(* terminal state on its own, the owning Goal is resumed.  The code does   *)
(* that only for a Goal that waits, and a Goal that a crash caught at work *)
(* is still `running`.                                                     *)
(***************************************************************************)
GoalFollowsItsGraph ==
  graph \in GraphSettled /\ goal.status \in GoalActive
    ~> goal.status \notin GoalActive \/ goal.at # "none"
=============================================================================
