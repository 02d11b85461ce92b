-------------------------- MODULE WorkGraphProofs --------------------------
(***************************************************************************)
(* Proofs about WorkGraph: its types and budgets, the writer that works    *)
(* alone, and the graph that is completed only with all of its nodes.      *)
(***************************************************************************)
EXTENDS WorkGraph, FiniteSetTheorems, TLAPS

-----------------------------------------------------------------------------
\* A graph that runs has an execution, nobody works beside a writer, and a
\* node is cancelled only while its graph is, unless a fault lost the cancellation.

ExecSound ==
  /\ ~exec.on => exec.batch = {}
  /\ exec.on => graph = "running" /\ process # "down"
  /\ exec.on /\ Stopping => exec.signal # "none"
  /\ Stopping \/ process = "down" \/ exec.on => ~graphTimer
  /\ process = "down" => goal.at = "none"

\* A Worker of the batch, or an orphan: its row may still be open only in a shutdown.
WorkerSound(n) ==
  /\ process # "down" /\ worker[n] \notin {"idle", "orphan"} => n \in exec.batch
  /\ process = "down" => worker[n] \in {"idle", "progressed", "over"}
  /\ worker[n] = "acquire" => node[n].status = "ready"
  /\ worker[n] = "orphan" =>
       /\ ~exec.on /\ (graph \in GraphSettled \/ Stopping)
       /\ node[n].status \in GraphSettled \/ (Stopping /\ exec.signal = "shutdown")
                                          \/ (Stopping /\ exec.signal = "cancel" /\ lostCancel)

\* Nobody waits for an attempt it does not have.
GraphRows == [Nodes -> [status : NodeStatuses, attempts : 0..MaxAttempts]]
RowsFit(nd) ==
  /\ nd \in GraphRows
  /\ \A n \in Nodes : nd[n].status \in {"pending", "ready", "waiting_provider"} => nd[n].attempts < MaxAttempts

CancelSound(n) ==
  node[n].status = "cancelled" =>
    \/ lostCancel \/ graph \in {"cancelled", "blocked"}
    \/ n \in exec.batch /\ worker[n] = "cancelled"

WriterSound ==
  \A w \in Nodes : shape.mode[w] = "writer" /\ (AtWork(w) \/ w \in exec.batch) =>
     \A n \in Nodes \ {w} : ~AtWork(n) /\ n \notin exec.batch

GraphInv ==
  /\ GraphTypeOK /\ ExecSound /\ RowsFit(node)
  /\ \A n \in Nodes : WorkerSound(n) /\ CancelSound(n)
  /\ WriterSound /\ GraphCompletesWhole

LEMMA GraphInitHolds == GraphInit => GraphInv
<1> SUFFICES ASSUME GraphInit PROVE GraphInv
  OBVIOUS
<1> USE DEF GraphInit, GraphStarts
<1>1. node \in GraphRows /\ \A n \in Nodes : node[n] = [status |-> "pending", attempts |-> 0]
  BY GraphBounds DEF GraphRows, NodeStatuses
<1>2. GraphTypeOK
  <2>1. exec \in [on : BOOLEAN, batch : SUBSET Nodes, signal : {"none", "cancel", "shutdown"}, selfRetry : BOOLEAN]
    BY DEF NoExec
  <2>2. goal \in [status : GoalActive \cup GraphSettled \cup {"failed"},
                 at : {"none", "implementing", "awaiting", "testing"}]
    BY DEF GoalActive
  <2>3. graphFaults \in 0..MaxGraphFaults
    BY GraphBounds
  <2> QED BY <1>1, <2>1, <2>2, <2>3 DEF GraphTypeOK, GraphRows, GraphStatuses
<1>3. RowsFit(node)
  BY <1>1, GraphBounds DEF RowsFit
<1>4. ExecSound /\ GraphCompletesWhole
  BY DEF ExecSound, Stopping, NoExec, GraphCompletesWhole
<1>5. \A n \in Nodes : WorkerSound(n) /\ CancelSound(n)
  BY <1>1 DEF WorkerSound, CancelSound, NoExec
<1>6. WriterSound
  BY DEF WriterSound, AtWork, NoExec
<1> QED BY <1>2, <1>3, <1>4, <1>5, <1>6 DEF GraphInv

-----------------------------------------------------------------------------
\* Nodes get a status and keep their attempts (updateWorkerNodeStatus).
LEMMA NodesChange ==
  ASSUME NEW nd \in GraphRows, NEW S, NEW status \in NodeStatuses
  PROVE  /\ NodesBecome(nd, S, status) \in GraphRows
         /\ \A n \in Nodes :
              /\ n \in S => NodesBecome(nd, S, status)[n].status = status
              /\ n \notin S => NodesBecome(nd, S, status)[n] = nd[n]
              /\ NodesBecome(nd, S, status)[n].attempts = nd[n].attempts
<1>1. \A n \in Nodes : nd[n] \in [status : NodeStatuses, attempts : 0..MaxAttempts]
  BY DEF GraphRows
<1>2. \A n \in Nodes : LET r == [nd[n] EXCEPT !.status = status]
                       IN r \in [status : NodeStatuses, attempts : 0..MaxAttempts]
                          /\ r.status = status /\ r.attempts = nd[n].attempts
  BY <1>1
<1> QED BY <1>1, <1>2 DEF NodesBecome, GraphRows

\* Nodes that are settled, fail or start wait for nothing; others need an attempt left.
LEMMA NodesFit ==
  ASSUME NEW nd, RowsFit(nd), NEW S, NEW status \in NodeStatuses,
         status \in {"pending", "ready", "waiting_provider"} =>
           \A n \in Nodes : n \in S => nd[n].attempts < MaxAttempts
  PROVE  RowsFit(NodesBecome(nd, S, status))
<1>1. nd \in GraphRows
  BY DEF RowsFit
<1> QED BY <1>1, NodesChange DEF RowsFit

LEMMA CutOffFits ==
  ASSUME NEW nd, RowsFit(nd), NEW S \in SUBSET Nodes
  PROVE  /\ RowsFit(CutOff(nd, S))
         /\ \A n \in Nodes : CutOff(nd, S)[n].status = "cancelled" => nd[n].status = "cancelled"
<1> DEFINE wait == NodesBecome(nd, S, "waiting_provider")
           over == {n \in S : nd[n].attempts >= MaxAttempts}
<1>1. nd \in GraphRows /\ {"waiting_provider", "blocked"} \subseteq NodeStatuses
  BY DEF RowsFit, NodeStatuses
<1>2. /\ wait \in GraphRows
      /\ \A n \in Nodes : /\ n \in S => wait[n].status = "waiting_provider"
                          /\ n \notin S => wait[n] = nd[n]
                          /\ wait[n].attempts = nd[n].attempts
  BY <1>1, NodesChange
<1> HIDE DEF wait
<1>3. LET r == NodesBecome(wait, over, "blocked")
      IN /\ r \in GraphRows
         /\ \A n \in Nodes : /\ n \in over => r[n].status = "blocked"
                             /\ n \notin over => r[n] = wait[n]
                             /\ r[n].attempts = wait[n].attempts
  BY <1>1, <1>2, NodesChange
<1>4. \A n \in Nodes : nd[n].attempts \in 0..MaxAttempts
  BY <1>1 DEF GraphRows
<1>5. CutOff(nd, S) = NodesBecome(wait, over, "blocked")
  BY DEF CutOff, wait
<1>6. \A n \in Nodes : n \in S \ over => nd[n].attempts < MaxAttempts
  BY <1>4, GraphBounds
<1> HIDE DEF over
<1>7. \A n \in Nodes :
        CutOff(nd, S)[n].status \in {"pending", "ready", "waiting_provider"} => CutOff(nd, S)[n].attempts < MaxAttempts
  BY <1>2, <1>3, <1>5, <1>6 DEF RowsFit
<1>8. \A n \in Nodes : CutOff(nd, S)[n].status = "cancelled" => nd[n].status = "cancelled"
  BY <1>2, <1>3, <1>5
<1> QED BY <1>3, <1>5, <1>7, <1>8 DEF RowsFit

\* The first of a set of nodes is one node (scheduleWorkerBatch starts one writer).
LEMMA FirstIsAlone ==
  ASSUME NEW S \in SUBSET Nodes, NEW m \in FirstOf(S, 1), NEW n \in FirstOf(S, 1)
  PROVE  m = n
<1>1. IsFiniteSet(S) /\ S \subseteq Nat
  BY GraphBounds, FS_Subset
<1>2. ASSUME NEW a \in S, NEW b \in S, a < b PROVE b \notin FirstOf(S, 1)
  <2> DEFINE below == {x \in S : x < b}
  <2>1. IsFiniteSet(below) /\ a \in below
    BY <1>1, <1>2, FS_Subset
  <2>2. Cardinality(below) \in Nat /\ Cardinality(below) # 0
    BY <2>1, FS_CardinalityType, FS_EmptySet
  <2> QED BY <2>2 DEF FirstOf
<1>3. m \in S /\ n \in S /\ m \in Nat /\ n \in Nat
  BY <1>1 DEF FirstOf
<1> QED BY <1>2, <1>3

\* scheduleWorkerBatch: nobody is started beside a writer, and nobody without an attempt.
LEMMA BatchFits ==
  ASSUME NEW nd, RowsFit(nd), ~HasFailed(nd)
  PROVE  /\ ReadyBatch(nd) \subseteq Candidates(nd) /\ ReadyBatch(nd) \subseteq Nodes
         /\ \A n \in ReadyBatch(nd) : nd[n].attempts < MaxAttempts /\ nd[n].status # "cancelled"
         /\ \A w, n \in ReadyBatch(nd) : shape.mode[w] = "writer" => n = w
<1> DEFINE writers == {n \in Candidates(nd) : shape.mode[n] = "writer"}
           active == RunningNodes(nd, "writer") \cup RunningNodes(nd, "read_only")
<1>1. Candidates(nd) \subseteq Nodes /\ writers \subseteq Candidates(nd)
  BY DEF Candidates
<1>2. \/ ReadyBatch(nd) = {}
      \/ ReadyBatch(nd) = FirstOf(writers, 1)
      \/ writers = {} /\ ReadyBatch(nd) = FirstOf(Candidates(nd), MaxReaders - Cardinality(active))
  BY DEF ReadyBatch
<1> HIDE DEF active
<1>3. ReadyBatch(nd) \subseteq Candidates(nd)
  BY <1>1, <1>2 DEF FirstOf
<1>4. ASSUME NEW n \in Candidates(nd)
      PROVE  nd[n].attempts < MaxAttempts /\ nd[n].status # "cancelled"
  <2>1. n \in Nodes /\ IsPending(nd, n)
    BY <1>1 DEF Candidates
  <2>2. nd[n].attempts \in 0..MaxAttempts
    BY <2>1 DEF RowsFit, GraphRows
  <2>3. nd[n].status = "failed" => nd[n].attempts < MaxAttempts
    BY <2>1, <2>2, GraphBounds DEF HasFailed
  <2> QED BY <2>1, <2>3 DEF IsPending, RowsFit
<1>5. ASSUME NEW w \in ReadyBatch(nd), NEW n \in ReadyBatch(nd), shape.mode[w] = "writer"
      PROVE  n = w
  <2>1. w \in writers
    BY <1>3, <1>5
  <2>2. ReadyBatch(nd) = FirstOf(writers, 1)
    BY <1>2, <2>1
  <2>3. writers \in SUBSET Nodes
    BY <1>1
  <2> HIDE DEF writers
  <2> QED BY <2>2, <2>3, FirstIsAlone
<1> QED BY <1>1, <1>3, <1>4, <1>5

-----------------------------------------------------------------------------
GoalRows == [status : GoalActive \cup GraphSettled \cup {"failed"},
             at : {"none", "implementing", "awaiting", "testing"}]
ExecRows == [on : BOOLEAN, batch : SUBSET Nodes, signal : {"none", "cancel", "shutdown"}, selfRetry : BOOLEAN]

\* The Goal of a graph that settles, waits or is given up comes to one of its statuses.
LEMMA GoalGoesOn ==
  ASSUME NEW g \in GoalRows, NEW ex,
         NEW status \in {"running", "waiting_provider", "cancelled", "rejected", "blocked", "completed"},
         g.at = "awaiting" => status # "running"
  PROVE  GoalAfter(g, status, ex) \in GoalRows
<1>1. CASE g.at = "awaiting"
  BY <1>1 DEF GoalAfter, GoalRows, GoalActive, GraphSettled
<1>2. CASE g.at # "awaiting"
  BY <1>2 DEF GoalAfter, GoalRows, GoalActive, GraphSettled
<1> QED BY <1>1, <1>2

LEMMA GoalMoved ==
  ASSUME GraphTypeOK, NEW g \in GoalRows, GoalMoves(g)
  PROVE  goal' \in GoalRows /\ goalTimer' \in BOOLEAN
BY DEF GoalMoves, GraphTypeOK

\* What a step that leaves the loop has around it: nobody works, nobody is left behind,
\* and the process is up or stays as it is, with an execution that heard of a shutdown.
AtEnd(ex, g) ==
  /\ GraphTypeOK /\ ex \in ExecRows /\ g \in GoalRows
  /\ \A n \in Nodes : worker[n] # "orphan"
AtLoop(nd, ex, g) ==
  /\ AtEnd(ex, g) /\ RowsFit(nd)
  /\ \A n \in Nodes : nd[n].status = "cancelled" => lostCancel
  /\ Stopping => ex.signal # "none"
GraphFrame ==
  /\ shape' = shape /\ lostCancel' = lostCancel /\ graphFaults' = graphFaults
  /\ process' \in {"up", "stopping"} /\ (process' = "stopping" => Stopping)

LEMMA NobodyStays ==
  ASSUME \A n \in Nodes : worker[n] # "orphan", NEW ready
  PROVE  \A n \in Nodes : Batch(ready)[n] = IF n \in ready THEN "acquire" ELSE "idle"
BY DEF Batch

LEMMA SettlesStep ==
  ASSUME NEW ex, NEW g, AtEnd(ex, g), GraphFrame,
         NEW rows, RowsFit(rows), NEW status \in {"waiting_provider", "cancelled", "blocked", "completed"},
         \A n \in Nodes : rows[n].status = "cancelled" => lostCancel \/ status = "cancelled",
         status = "completed" /\ ~lostCancel => \A n \in Nodes : rows[n].status = "completed",
         Settles(rows, status, ex, g)
  PROVE  GraphInv'
<1> USE DEF AtEnd, GraphFrame
<1>1. /\ node' = rows /\ graph' = status /\ exec' = NoExec
      /\ \A n \in Nodes : worker'[n] = "idle"
      /\ worker' \in [Nodes -> {"idle"}]
  BY NobodyStays DEF Settles, Batch
<1>2. goal' \in GoalRows /\ goalTimer' \in BOOLEAN
  BY GoalGoesOn, GoalMoved DEF Settles
<1>3. graphTimer' \in BOOLEAN /\ (Stopping' \/ process' = "down" => ~graphTimer')
  BY DEF Settles, Stopping, ExecRows
<1>4. GraphTypeOK'
  <2>1. exec' \in ExecRows
    BY <1>1 DEF NoExec, ExecRows
  <2>2. process' \in {"up", "stopping", "down"} /\ lostCancel' \in BOOLEAN /\ graphFaults' \in 0..MaxGraphFaults
        /\ shape' \in Shapes
    BY DEF GraphTypeOK
  <2>3. graph' \in GraphStatuses /\ node' \in GraphRows
    BY <1>1 DEF GraphStatuses, RowsFit
  <2> QED BY <1>1, <1>2, <1>3, <2>1, <2>2, <2>3 DEF GraphTypeOK, ExecRows, GoalRows, GraphRows
<1>5. ExecSound' /\ RowsFit(node)' /\ WriterSound'
  BY <1>1, <1>3 DEF ExecSound, NoExec, RowsFit, GraphRows, WriterSound, AtWork, Stopping
<1>6. ASSUME NEW n \in Nodes PROVE WorkerSound(n)' /\ CancelSound(n)'
  BY <1>1, <1>6 DEF WorkerSound, CancelSound, NoExec
<1>7. GraphCompletesWhole'
  BY <1>1 DEF GraphCompletesWhole
<1> QED BY <1>4, <1>5, <1>6, <1>7 DEF GraphInv

LEMMA LoopsStep ==
  ASSUME NEW nd, NEW ex, NEW g, AtLoop(nd, ex, g), GraphFrame, Loops(nd, ex, g)
  PROVE  GraphInv'
<1> USE DEF AtLoop, AtEnd
<1>1. ASSUME NEW rows, RowsFit(rows), NEW status \in {"waiting_provider", "cancelled", "blocked", "completed"},
             \A n \in Nodes : rows[n].status = "cancelled" => lostCancel \/ status = "cancelled",
             status = "completed" /\ ~lostCancel => \A n \in Nodes : rows[n].status = "completed",
             Settles(rows, status, ex, g)
      PROVE  GraphInv'
  BY <1>1, SettlesStep DEF AtLoop
<1> DEFINE cut == {n \in Nodes : nd[n].status \in {"ready", "running"}}
<1>2. CASE /\ ex.signal = "shutdown"
           /\ Settles(CutOff(nd, cut), IF AnyBlocked(CutOff(nd, cut)) THEN "blocked" ELSE "waiting_provider", ex, g)
  <2>1. cut \in SUBSET Nodes
    OBVIOUS
  <2> HIDE DEF cut
  <2> QED BY <1>1, <1>2, <2>1, CutOffFits
<1>3. CASE ex.signal = "cancel" /\ Settles(NodesBecome(nd, Unsettled(nd), "cancelled"), "cancelled", ex, g)
  <2>1. RowsFit(NodesBecome(nd, Unsettled(nd), "cancelled"))
    BY NodesFit DEF NodeStatuses
  <2> QED BY <1>1, <1>3, <2>1
<1>4. CASE AllOver(nd) /\ Settles(nd, "completed", ex, g)
  BY <1>1, <1>4 DEF AllOver
<1>5. CASE Settles(nd, "blocked", ex, g) \/ Settles(nd, "waiting_provider", ex, g)
  BY <1>1, <1>5
<1>6. CASE /\ ex.signal = "none" /\ ~HasFailed(nd)
           /\ node' = NodesBecome(nd, ReadyBatch(nd), "ready")
           /\ graph' = "running" /\ graphTimer' = FALSE
           /\ exec' = [ex EXCEPT !.on = TRUE, !.batch = ReadyBatch(nd)]
           /\ worker' = Batch(ReadyBatch(nd))
           /\ GoalMoves(g)
  <2> DEFINE ready == ReadyBatch(nd)
  <2>1. /\ ready \subseteq Nodes
        /\ \A n \in ready : nd[n].attempts < MaxAttempts
        /\ \A w, n \in ready : shape.mode[w] = "writer" => n = w
    BY <1>6, BatchFits
  <2> HIDE DEF ready
  <2>2. nd \in GraphRows /\ "ready" \in NodeStatuses
    BY DEF RowsFit, NodeStatuses
  <2>3. /\ node' \in GraphRows
        /\ \A n \in Nodes : /\ n \in ready => node'[n].status = "ready"
                            /\ n \notin ready => node'[n] = nd[n]
    BY <1>6, <2>2, NodesChange DEF ready
  <2>4. RowsFit(node)'
    <3>1. RowsFit(NodesBecome(nd, ready, "ready"))
      BY <2>1, <2>2, NodesFit
    <3> QED BY <1>6, <3>1 DEF RowsFit, GraphRows, ready
  <2>5. \A n \in Nodes : worker'[n] = IF n \in ready THEN "acquire" ELSE "idle"
    BY <1>6, NobodyStays DEF ready
  <2>6. worker' \in [Nodes -> {"acquire", "idle"}]
    BY <1>6, <2>5 DEF Batch
  <2>7. exec' \in ExecRows /\ exec'.on /\ exec'.batch = ready /\ exec'.signal = ex.signal
    BY <1>6, <2>1 DEF ExecRows, ready
  <2>8. goal' \in GoalRows /\ goalTimer' \in BOOLEAN
    BY <1>6, GoalMoved
  <2>9. GraphTypeOK'
    <3>1. process' \in {"up", "stopping", "down"} /\ lostCancel' \in BOOLEAN /\ graphFaults' \in 0..MaxGraphFaults
          /\ shape' \in Shapes
      BY DEF GraphTypeOK, GraphFrame
    <3>2. graph' \in GraphStatuses /\ graphTimer' \in BOOLEAN
      BY <1>6 DEF GraphStatuses
    <3> QED BY <2>3, <2>6, <2>7, <2>8, <3>1, <3>2 DEF GraphTypeOK, ExecRows, GoalRows, GraphRows
  <2>10. ExecSound'
    BY <1>6, <2>7 DEF ExecSound, Stopping, GraphFrame
  <2>11. ASSUME NEW n \in Nodes PROVE WorkerSound(n)' /\ CancelSound(n)'
    BY <1>6, <2>3, <2>5, <2>7, <2>11 DEF WorkerSound, CancelSound, GraphFrame
  <2>12. WriterSound'
    BY <2>1, <2>5, <2>7 DEF WriterSound, AtWork, GraphFrame
  <2>13. GraphCompletesWhole'
    BY <1>6 DEF GraphCompletesWhole
  <2> QED BY <2>4, <2>9, <2>10, <2>11, <2>12, <2>13 DEF GraphInv
<1> HIDE DEF AtLoop, AtEnd, cut
<1> QED BY <1>2, <1>3, <1>4, <1>5, <1>6 DEF Loops, cut

LEMMA ExecutesStep ==
  ASSUME GraphTypeOK, RowsFit(node), NEW g \in GoalRows, NEW selfRetry \in BOOLEAN, ~Stopping, GraphFrame,
         \A n \in Nodes : worker[n] # "orphan",
         \A n \in Nodes : node[n].status = "cancelled" => lostCancel,
         Executes(node, selfRetry, g)
  PROVE  GraphInv'
<1> DEFINE ex == [NoExec EXCEPT !.selfRetry = selfRetry]
<1>1. ex \in ExecRows /\ ex.signal = "none"
  BY DEF NoExec, ExecRows
<1>2. AtLoop(node, ex, g)
  BY <1>1 DEF AtLoop, AtEnd
<1>3. Loops(node, ex, g) \/ Settles(node, "blocked", ex, g)
  BY DEF Executes
<1> HIDE DEF ex
<1> QED BY <1>2, <1>3, LoopsStep, SettlesStep DEF AtLoop

-----------------------------------------------------------------------------
\* A Worker of the batch ends with a result, its row changed to another status.
LEMMA WorkerEndsStep ==
  ASSUME GraphInv, GraphFrame, NEW n \in Nodes, n \in exec.batch, worker[n] \in {"acquire", "execute"},
         NEW nd, RowsFit(nd), \A m \in Nodes \ {n} : nd[m] = node[m],
         NEW result \in {"waiting", "cancelled", "progressed", "over"},
         nd[n].status = "cancelled" => result = "cancelled",
         WorkerEnds(n, nd, result)
  PROVE  GraphInv'
<1> USE DEF GraphInv
<1> DEFINE results == [m \in exec.batch |-> IF m = n THEN result ELSE worker[m]]
           some(r) == \E m \in exec.batch : results[m] = r
<1>1. exec \in ExecRows /\ goal \in GoalRows /\ node \in GraphRows /\ exec.batch \subseteq Nodes
  BY DEF GraphTypeOK, ExecRows, GoalRows, GraphRows
<1>2. exec.on /\ graph = "running" /\ \A m \in Nodes : worker[m] # "orphan"
  BY DEF ExecSound, WorkerSound
<1>3. ASSUME ~some("cancelled"), NEW m \in Nodes, nd[m].status = "cancelled"
      PROVE  lostCancel
  <2>1. results[n] = result
    OBVIOUS
  <2>2. m # n
    BY <1>3, <2>1
  <2>3. node[m].status = "cancelled"
    BY <1>3, <2>2
  <2>4. m \in exec.batch /\ worker[m] = "cancelled" => some("cancelled")
    BY <2>2
  <2> HIDE DEF some
  <2> QED BY <1>2, <1>3, <2>3, <2>4 DEF CancelSound
<1>4. Stopping => exec.signal # "none"
  BY <1>2 DEF ExecSound
<1>5. CASE /\ node' = nd /\ worker' = [worker EXCEPT ![n] = result]
           /\ UNCHANGED <<graph, exec, graphTimer, goal, goalTimer>>
  <2>1. /\ worker' \in [Nodes -> {"idle", "acquire", "execute", "orphan", "waiting", "cancelled", "progressed", "over"}]
        /\ worker'[n] = result /\ \A m \in Nodes \ {n} : worker'[m] = worker[m]
    BY <1>5 DEF GraphTypeOK
  <2>2. GraphTypeOK'
    <3>1. process' \in {"up", "stopping", "down"} /\ node' \in GraphRows
      BY <1>5 DEF GraphFrame, RowsFit
    <3> QED BY <1>5, <2>1, <3>1 DEF GraphTypeOK, GraphFrame, GraphRows
  <2>3. ExecSound' /\ RowsFit(node)'
    BY <1>4, <1>5 DEF ExecSound, GraphFrame, RowsFit, GraphRows, Stopping
  <2>4. ASSUME NEW m \in Nodes PROVE WorkerSound(m)'
    <3>1. CASE m = n
      BY <1>5, <2>1, <3>1 DEF WorkerSound, GraphFrame
    <3>2. CASE m # n
      BY <1>2, <1>5, <2>1, <3>2 DEF WorkerSound, GraphFrame, ExecSound
    <3> QED BY <3>1, <3>2
  <2>5. ASSUME NEW m \in Nodes PROVE CancelSound(m)'
    <3>1. CASE m = n
      BY <1>5, <2>1, <3>1 DEF CancelSound
    <3>2. CASE m # n
      BY <1>5, <2>1, <3>2 DEF CancelSound, GraphFrame
    <3> QED BY <3>1, <3>2
  <2>6. WriterSound'
    <3>1. exec' = exec /\ shape' = shape /\ \A m \in Nodes : AtWork(m)' => AtWork(m)
      BY <1>5, <2>1 DEF AtWork, GraphFrame
    <3> QED BY <3>1 DEF WriterSound
  <2>7. GraphCompletesWhole'
    BY <1>2, <1>5 DEF GraphCompletesWhole
  <2> QED BY <2>2, <2>3, <2>4, <2>5, <2>6, <2>7
<1>6. CASE some("cancelled") /\ Settles(NodesBecome(nd, Unsettled(nd), "cancelled"), "cancelled", exec, goal)
  <2>1. RowsFit(NodesBecome(nd, Unsettled(nd), "cancelled"))
    BY NodesFit DEF NodeStatuses
  <2> QED BY <1>1, <1>2, <1>6, <2>1, SettlesStep DEF AtEnd
<1>7. CASE ~some("cancelled") /\ (Settles(nd, "waiting_provider", exec, goal) \/ Loops(nd, exec, goal))
  <2>1. AtLoop(nd, exec, goal)
    BY <1>1, <1>2, <1>3, <1>4, <1>7 DEF AtLoop, AtEnd
  <2> HIDE DEF some
  <2> QED BY <1>7, <2>1, LoopsStep, SettlesStep DEF AtLoop
<1> HIDE DEF some
<1> QED BY <1>5, <1>6, <1>7 DEF WorkerEnds, some

\* A node gets its lease and spends an attempt (createWorkerAttempt).
LEMMA LeasedFits ==
  ASSUME NEW nd, RowsFit(nd), NEW n \in Nodes, nd[n].attempts < MaxAttempts
  PROVE  /\ RowsFit(LeasedNode(nd, n)) /\ LeasedNode(nd, n)[n].status = "running"
         /\ \A m \in Nodes \ {n} : LeasedNode(nd, n)[m] = nd[m]
<1> DEFINE row == [status |-> "running", attempts |-> nd[n].attempts + 1]
<1>1. nd \in GraphRows /\ nd[n].attempts \in 0..MaxAttempts
  BY DEF RowsFit, GraphRows
<1>2. nd[n].attempts + 1 \in 0..MaxAttempts
  BY <1>1, GraphBounds
<1>3. row \in [status : NodeStatuses, attempts : 0..MaxAttempts] /\ row.status = "running"
  BY <1>2 DEF NodeStatuses
<1>4. LeasedNode(nd, n) = [nd EXCEPT ![n] = row]
  BY DEF LeasedNode
<1> HIDE DEF row
<1>5. /\ LeasedNode(nd, n) \in GraphRows /\ LeasedNode(nd, n)[n] = row
      /\ \A m \in Nodes \ {n} : LeasedNode(nd, n)[m] = nd[m]
  BY <1>1, <1>3, <1>4 DEF GraphRows
<1> QED BY <1>3, <1>5 DEF RowsFit

\* What an answer makes of a row that was leased (statusForResult).
LEMMA StatusFits ==
  ASSUME GraphTypeOK, NEW nd, RowsFit(nd), NEW n \in Nodes,
         NEW outcome \in {"completed", "cancelled", "out_of_scope", "retryable", "provider_blocked"}
  PROVE  LET status == NodeStatusFor(nd, n, outcome)
         IN /\ status \in {"blocked", "waiting_provider", "cancelled", "completed", "failed"}
            /\ status = "waiting_provider" => nd[n].attempts < MaxAttempts
            /\ exec.signal = "shutdown" => status # "cancelled"
<1>1. nd[n].attempts \in 0..MaxAttempts /\ exec.signal \in {"none", "cancel", "shutdown"}
  BY DEF RowsFit, GraphRows, GraphTypeOK
<1>2. nd[n].attempts >= MaxAttempts \/ nd[n].attempts < MaxAttempts
  BY <1>1, GraphBounds
<1> QED BY <1>1, <1>2 DEF NodeStatusFor

LEMMA AcquiresStep == ASSUME GraphInv, NEW n \in Nodes, WorkerAcquires(n) PROVE GraphInv'
<1> USE DEF GraphInv
<1>1. /\ n \in exec.batch /\ worker[n] = "acquire" /\ exec.on /\ graph = "running" /\ process # "down"
      /\ node[n].status = "ready" /\ node[n].attempts < MaxAttempts
  BY DEF WorkerAcquires, WorkerSound, ExecSound, RowsFit
<1>2. GraphFrame
  BY <1>1 DEF WorkerAcquires, GraphFrame, GraphTypeOK, Stopping
<1>3. CASE WorkerEnds(n, NodesBecome(node, {n}, "waiting_provider"), "waiting")
  <2>1. node \in GraphRows /\ "waiting_provider" \in NodeStatuses
    BY DEF RowsFit, NodeStatuses
  <2>2. LET nd == NodesBecome(node, {n}, "waiting_provider")
        IN /\ RowsFit(nd) /\ nd[n].status = "waiting_provider"
           /\ \A m \in Nodes \ {n} : nd[m] = node[m]
    BY <1>1, <2>1, NodesFit, NodesChange
  <2> QED BY <1>1, <1>2, <1>3, <2>2, WorkerEndsStep
<1>4. CASE /\ node' = LeasedNode(node, n)
           /\ worker' = [worker EXCEPT ![n] = "execute"]
           /\ UNCHANGED <<graph, exec, graphTimer, goal, goalTimer>>
  <2>1. /\ RowsFit(node)' /\ node'[n].status = "running"
        /\ \A m \in Nodes \ {n} : node'[m] = node[m]
    BY <1>1, <1>4, LeasedFits DEF RowsFit, GraphRows
  <2>2. /\ worker' \in [Nodes -> {"idle", "acquire", "execute", "orphan", "waiting", "cancelled", "progressed", "over"}]
        /\ worker'[n] = "execute" /\ \A m \in Nodes \ {n} : worker'[m] = worker[m]
    BY <1>4 DEF GraphTypeOK
  <2>3. GraphTypeOK'
    BY <1>2, <1>4, <2>1, <2>2 DEF GraphTypeOK, GraphFrame, RowsFit, GraphRows
  <2>4. ExecSound' /\ process' = process
    BY <1>4 DEF WorkerAcquires, ExecSound, Stopping
  <2>5. ASSUME NEW m \in Nodes PROVE WorkerSound(m)' /\ CancelSound(m)'
    <3>1. CASE m = n
      BY <1>1, <1>4, <2>1, <2>2, <2>4, <3>1 DEF WorkerSound, CancelSound
    <3>2. CASE m # n
      BY <1>1, <1>2, <1>4, <2>1, <2>2, <2>4, <3>2 DEF WorkerSound, CancelSound, GraphFrame
    <3> QED BY <3>1, <3>2
  <2>6. WriterSound'
    <3>1. \A m \in Nodes : AtWork(m)' => AtWork(m) \/ m \in exec.batch
      BY <1>1, <2>2 DEF AtWork
    <3> QED BY <1>2, <1>4, <3>1 DEF WriterSound, GraphFrame
  <2>7. GraphCompletesWhole'
    BY <1>1, <1>4 DEF GraphCompletesWhole
  <2> QED BY <2>1, <2>3, <2>4, <2>5, <2>6, <2>7
<1> QED BY <1>3, <1>4 DEF WorkerAcquires

LEMMA FinishesStep == ASSUME GraphInv, NEW n \in Nodes, WorkerFinishes(n) PROVE GraphInv'
<1> USE DEF GraphInv
<1>1. n \in exec.batch /\ worker[n] = "execute" /\ exec.on /\ process # "down"
  BY DEF WorkerFinishes, ExecSound
<1>2. GraphFrame
  BY <1>1 DEF WorkerFinishes, GraphFrame, GraphTypeOK, Stopping
<1>3. PICK outcome \in {"completed", "cancelled", "out_of_scope", "retryable", "provider_blocked"} :
        LET status == NodeStatusFor(node, n, outcome)
        IN WorkerEnds(n, NodesBecome(node, {n}, status),
                      CASE status = "waiting_provider" -> "waiting"
                        [] status = "cancelled" -> "cancelled"
                        [] status = "completed" -> "progressed"
                        [] OTHER -> "over")
  BY DEF WorkerFinishes
<1> DEFINE status == NodeStatusFor(node, n, outcome)
           result == CASE status = "waiting_provider" -> "waiting"
                       [] status = "cancelled" -> "cancelled"
                       [] status = "completed" -> "progressed"
                       [] OTHER -> "over"
<1>4. /\ status \in {"blocked", "waiting_provider", "cancelled", "completed", "failed"}
      /\ status = "waiting_provider" => node[n].attempts < MaxAttempts
  BY StatusFits
<1>5. WorkerEnds(n, NodesBecome(node, {n}, status), result)
  BY <1>3
<1> HIDE DEF status
<1>6. result \in {"waiting", "cancelled", "progressed", "over"} /\ (status = "cancelled" => result = "cancelled")
  BY <1>4
<1> HIDE DEF result
<1>7. node \in GraphRows /\ status \in NodeStatuses
  BY <1>4 DEF RowsFit, NodeStatuses
<1>8. LET nd == NodesBecome(node, {n}, status)
      IN /\ RowsFit(nd) /\ nd[n].status = status
         /\ \A m \in Nodes \ {n} : nd[m] = node[m]
  <2>1. RowsFit(NodesBecome(node, {n}, status))
    BY <1>4, <1>7, NodesFit
  <2> QED BY <1>7, <2>1, NodesChange
<1> QED BY <1>1, <1>2, <1>5, <1>6, <1>8, WorkerEndsStep

LEMMA ThrowsStep == ASSUME GraphInv, NEW n \in Nodes, WorkerThrows(n) PROVE GraphInv'
<1> USE DEF GraphInv
<1>1. /\ n \in exec.batch /\ exec.on /\ graph = "running" /\ process # "down"
      /\ shape' = shape /\ process' = process /\ graphTimer' = graphTimer
      /\ Stopping' = Stopping
  BY DEF WorkerThrows, ExecSound, Stopping
<1>2. /\ exec' \in ExecRows /\ ~exec'.on /\ exec'.batch = {}
      /\ exec'.signal = (IF Stopping THEN exec.signal ELSE "none")
  BY DEF WorkerThrows, NoExec, ExecRows, GraphTypeOK
<1>3. /\ worker' \in [Nodes -> {"idle", "orphan"}]
      /\ \A m \in Nodes : worker'[m] = "orphan" =>
           /\ worker[m] = "execute" \/ (Stopping /\ worker[m] = "acquire")
           /\ m \in exec.batch
  BY <1>1 DEF WorkerThrows, WorkerSound
<1>4. RowsFit(node)' /\ (Stopping => node' = node)
      /\ (~Stopping => \A m \in Nodes : node'[m].status \in GraphSettled)
  <2>1. CASE Stopping
    BY <2>1 DEF WorkerThrows, RowsFit, GraphRows
  <2>2. CASE ~Stopping
    <3>1. node \in GraphRows /\ "blocked" \in NodeStatuses
      BY DEF RowsFit, NodeStatuses
    <3>2. node' = NodesBecome(node, Unsettled(node), "blocked")
      BY <2>2 DEF WorkerThrows
    <3>3. RowsFit(NodesBecome(node, Unsettled(node), "blocked"))
      BY <3>1, NodesFit
    <3>4. \A m \in Nodes : node'[m].status \in GraphSettled
      BY <3>1, <3>2, NodesChange DEF Unsettled, GraphSettled
    <3> QED BY <2>2, <3>2, <3>3, <3>4 DEF RowsFit, GraphRows
  <2> QED BY <2>1, <2>2
<1>5. graph' = (IF Stopping THEN "running" ELSE "blocked")
  BY <1>1 DEF WorkerThrows
<1>6. goal' \in GoalRows /\ goalTimer' \in BOOLEAN
  <2>1. goal \in GoalRows
    BY DEF GraphTypeOK, GoalRows
  <2> DEFINE status == IF goal.at = "awaiting" THEN "rejected" ELSE graph'
  <2>2. status \in {"running", "waiting_provider", "cancelled", "rejected", "blocked", "completed"}
        /\ (goal.at = "awaiting" => status # "running")
    BY <1>5
  <2>3. GoalMoves(GoalAfter(goal, status, exec))
    BY DEF WorkerThrows
  <2> HIDE DEF status
  <2> QED BY <2>1, <2>2, <2>3, GoalGoesOn, GoalMoved
<1>7. /\ lostCancel' \in BOOLEAN /\ (lostCancel => lostCancel')
      /\ Stopping /\ exec.signal = "cancel" => lostCancel'
      /\ \A m \in Nodes : Stopping /\ node[m].status = "cancelled" => lostCancel'
  BY DEF WorkerThrows, GraphTypeOK
<1>8. graphFaults' \in 0..MaxGraphFaults
  BY GraphBounds DEF WorkerThrows, GraphFault, GraphTypeOK
<1>9. GraphTypeOK'
  BY <1>1, <1>2, <1>3, <1>4, <1>5, <1>6, <1>7, <1>8
  DEF GraphTypeOK, ExecRows, GoalRows, RowsFit, GraphRows, GraphStatuses
<1>10. ExecSound'
  BY <1>1, <1>2 DEF ExecSound, Stopping
<1>11. ASSUME NEW m \in Nodes PROVE WorkerSound(m)' /\ CancelSound(m)'
  <2>1. Stopping => exec.signal = "cancel" \/ exec.signal = "shutdown"
    BY <1>1 DEF ExecSound, GraphTypeOK
  <2>2. WorkerSound(m)'
    BY <1>1, <1>2, <1>3, <1>4, <1>5, <1>7, <2>1 DEF WorkerSound, GraphSettled
  <2> QED BY <1>4, <1>5, <1>7, <2>2 DEF CancelSound
<1>12. WriterSound'
  BY <1>1, <1>2, <1>3 DEF WriterSound, AtWork
<1>13. GraphCompletesWhole'
  BY <1>5 DEF GraphCompletesWhole
<1> QED BY <1>4, <1>9, <1>10, <1>11, <1>12, <1>13

LEMMA OrphanStep == ASSUME GraphInv, NEW n \in Nodes, OrphanEnds(n) PROVE GraphInv'
<1> USE DEF GraphInv
<1>1. /\ worker[n] = "orphan" /\ ~exec.on
      /\ UNCHANGED <<shape, graph, exec, graphTimer, goal, goalTimer, process, lostCancel, graphFaults>>
      /\ worker' \in [Nodes -> {"idle", "acquire", "execute", "orphan", "waiting", "cancelled", "progressed", "over"}]
      /\ worker'[n] = "idle" /\ \A m \in Nodes \ {n} : worker'[m] = worker[m]
  BY DEF OrphanEnds, WorkerSound, GraphTypeOK
<1>2. node \in GraphRows /\ {"waiting_provider"} \subseteq NodeStatuses
  BY DEF RowsFit, NodeStatuses
<1>3. /\ RowsFit(node)'
      /\ \A m \in Nodes \ {n} : node'[m] = node[m]
      /\ node[n].status \in GraphSettled => node'[n] = node[n]
      /\ node'[n].status = "cancelled" => node[n].status = "cancelled" \/ lostCancel
  <2>1. CASE node[n].status \in GraphSettled /\ UNCHANGED node
    BY <2>1 DEF RowsFit, GraphRows
  <2>2. CASE node[n].status = "ready" /\ node' = NodesBecome(node, {n}, "waiting_provider")
    <3>1. RowsFit(NodesBecome(node, {n}, "waiting_provider"))
      BY <1>2, <2>2, NodesFit DEF RowsFit
    <3>2. node'[n].status = "waiting_provider" /\ \A m \in Nodes \ {n} : node'[m] = node[m]
      BY <1>2, <2>2, NodesChange
    <3> QED BY <2>2, <3>1, <3>2 DEF RowsFit, GraphRows, GraphSettled
  <2>3. CASE \E nd \in {IF node[n].status = "ready" THEN LeasedNode(node, n) ELSE node} :
               /\ node[n].status \notin GraphSettled
               /\ node' = NodesBecome(nd, {n}, NodeStatusFor(nd, n, "cancelled"))
    <3>1. PICK nd \in {IF node[n].status = "ready" THEN LeasedNode(node, n) ELSE node} :
               /\ node[n].status \notin GraphSettled
               /\ node' = NodesBecome(nd, {n}, NodeStatusFor(nd, n, "cancelled"))
      BY <2>3
    <3>2. RowsFit(nd) /\ \A m \in Nodes \ {n} : nd[m] = node[m]
      BY <3>1, LeasedFits DEF RowsFit
    <3> DEFINE status == NodeStatusFor(nd, n, "cancelled")
    <3>3. /\ status \in {"blocked", "waiting_provider", "cancelled", "completed", "failed"}
          /\ status = "waiting_provider" => nd[n].attempts < MaxAttempts
          /\ exec.signal = "shutdown" => status # "cancelled"
      BY <3>2, StatusFits
    <3> HIDE DEF status
    <3>4. RowsFit(NodesBecome(nd, {n}, status)) /\ status \in NodeStatuses /\ nd \in GraphRows
      <4>1. status \in NodeStatuses
        BY <3>3 DEF NodeStatuses
      <4> QED BY <3>2, <3>3, <4>1, NodesFit DEF RowsFit
    <3>5. node'[n].status = status /\ \A m \in Nodes \ {n} : node'[m] = node[m]
      BY <3>1, <3>2, <3>4, NodesChange DEF status
    <3>6. exec.signal = "shutdown" \/ lostCancel
      BY <1>1, <3>1 DEF WorkerSound
    <3> QED BY <3>1, <3>3, <3>4, <3>5, <3>6 DEF RowsFit, GraphRows, status
  <2> QED BY <2>1, <2>2, <2>3 DEF OrphanEnds
<1>4. GraphTypeOK'
  BY <1>1, <1>3 DEF GraphTypeOK, RowsFit, GraphRows
<1>5. ExecSound'
  BY <1>1 DEF ExecSound, Stopping
<1>6. ASSUME NEW m \in Nodes PROVE WorkerSound(m)' /\ CancelSound(m)'
  <2>1. CASE m = n
    <3>1. WorkerSound(m)'
      BY <1>1, <2>1 DEF WorkerSound
    <3>2. n \notin exec.batch
      BY <1>1 DEF ExecSound
    <3> QED BY <1>1, <1>3, <2>1, <3>1, <3>2 DEF CancelSound
  <2>2. CASE m # n
    BY <1>1, <1>3, <2>2 DEF WorkerSound, CancelSound, Stopping
  <2> QED BY <2>1, <2>2
<1>7. WriterSound'
  <2>1. \A m \in Nodes : AtWork(m)' => AtWork(m)
    BY <1>1 DEF AtWork
  <2> QED BY <1>1, <2>1 DEF WriterSound
<1>8. GraphCompletesWhole'
  <2>1. ASSUME graph = "completed", ~lostCancel, NEW m \in Nodes PROVE node'[m].status = "completed"
    BY <1>3, <2>1 DEF GraphCompletesWhole, GraphSettled
  <2> QED BY <1>1, <2>1 DEF GraphCompletesWhole
<1> QED BY <1>3, <1>4, <1>5, <1>6, <1>7, <1>8

-----------------------------------------------------------------------------
\* A step beside the graph: the Goal moves, a signal is given, a timer is cleared.
LEMMA BesideStep ==
  ASSUME GraphInv, process # "down", UNCHANGED <<shape, graph, node, worker, lostCancel>>,
         exec' \in ExecRows, exec'.on = exec.on, exec'.batch = exec.batch, ~exec.on => exec' = exec,
         exec.on /\ exec.signal # "none" => exec'.signal # "none",
         \/ process' = process
         \/ process = "up" /\ process' = "stopping" /\ ~graphTimer' /\ (exec.on => exec'.signal # "none"),
         graphTimer' \in BOOLEAN, graphTimer' => graphTimer,
         goal' \in GoalRows, goalTimer' \in BOOLEAN, graphFaults' \in 0..MaxGraphFaults
  PROVE  GraphInv'
<1> USE DEF GraphInv
<1>1. GraphTypeOK'
  BY DEF GraphTypeOK, ExecRows, GoalRows
<1>2. ExecSound'
  BY DEF ExecSound, Stopping
<1>3. RowsFit(node)' /\ WriterSound' /\ GraphCompletesWhole'
  BY DEF RowsFit, GraphRows, WriterSound, AtWork, GraphCompletesWhole
<1>4. ASSUME NEW n \in Nodes PROVE WorkerSound(n)' /\ CancelSound(n)'
  BY DEF WorkerSound, CancelSound, ExecSound, Stopping
<1> QED BY <1>1, <1>2, <1>3, <1>4

LEMMA FaultCounted == ASSUME GraphTypeOK, GraphFault PROVE graphFaults' \in 0..MaxGraphFaults
BY GraphBounds DEF GraphTypeOK, GraphFault

\* What the type invariant says of the records.
LEMMA RecordsTyped ==
  ASSUME GraphInv
  PROVE  /\ exec \in ExecRows /\ goal \in GoalRows /\ node \in GraphRows
         /\ goalTimer \in BOOLEAN /\ graphTimer \in BOOLEAN /\ graphFaults \in 0..MaxGraphFaults
         /\ lostCancel \in BOOLEAN /\ graph \in GraphStatuses /\ shape \in Shapes
         /\ process \in {"up", "stopping", "down"}
BY DEF GraphInv, GraphTypeOK, ExecRows, GoalRows, GraphRows

\* Without an execution nobody is in a batch, and only an orphan is at work.
LEMMA NoExecution ==
  ASSUME GraphInv, ~exec.on, NEW n \in Nodes
  PROVE  /\ n \notin exec.batch
         /\ process # "down" => worker[n] \in {"idle", "orphan"}
         /\ ~Stopping /\ graph \notin GraphSettled => worker[n] # "orphan"
         /\ node[n].status = "cancelled" => lostCancel \/ graph \in {"cancelled", "blocked"}
BY DEF GraphInv, ExecSound, WorkerSound, CancelSound

LEMMA GoalRunsStep == ASSUME GraphInv, GoalRunsGraph PROVE GraphInv'
<1> DEFINE awaits == [goal EXCEPT !.at = "awaiting"]
<1>1. awaits \in GoalRows /\ awaits.at = "awaiting"
  BY RecordsTyped DEF GoalRows
<1>2. UNCHANGED <<shape, process, lostCancel, graphFaults>> /\ process # "down"
  BY DEF GoalRunsGraph, GraphInv, ExecSound
<1>3. ASSUME UNCHANGED <<graph, node, worker, exec, graphTimer>>, NEW g \in GoalRows, GoalMoves(g)
      PROVE  GraphInv'
  BY <1>2, <1>3, BesideStep, GoalMoved, RecordsTyped DEF GraphInv
<1>4. ASSUME NEW status \in {"rejected"} \cup GraphSettled, GoalMoves(GoalAfter(awaits, status, NoExec)),
             UNCHANGED <<graph, node, worker, exec, graphTimer>>
      PROVE  GraphInv'
  <2>1. GoalAfter(awaits, status, NoExec) \in GoalRows
    BY <1>1, GoalGoesOn DEF GraphSettled
  <2> QED BY <1>3, <1>4, <2>1
<1>5. ASSUME ~Stopping, ~exec.on, graph \notin GraphSettled, Executes(node, FALSE, awaits),
             goal.at = "implementing"
      PROVE  GraphInv'
  <2>2. \A n \in Nodes : worker[n] # "orphan"
    BY <1>5, NoExecution
  <2>3. \A n \in Nodes : node[n].status = "cancelled" => lostCancel
    BY <1>5, NoExecution DEF GraphSettled
  <2>4. GraphFrame
    BY <1>2, <1>5, RecordsTyped DEF GraphFrame, Stopping
  <2> HIDE DEF awaits
  <2> QED BY <1>1, <1>5, <2>2, <2>3, <2>4, ExecutesStep DEF GraphInv
<1> QED BY <1>1, <1>3, <1>4, <1>5 DEF GoalRunsGraph

LEMMA GoalStep == ASSUME GraphInv, GoalEnds \/ GoalResumes \/ GoalIsCancelled PROVE GraphInv'
<1> USE RecordsTyped
<1>0. process # "down"
  BY DEF GoalEnds, GoalResumes, GoalIsCancelled, GraphInv, ExecSound
<1>1. CASE GoalEnds
  <2>1. \E g \in GoalRows : GoalMoves(g)
    BY <1>1 DEF GoalEnds, GoalRows, GraphSettled
  <2> QED BY <1>1, <2>1, <1>0, BesideStep, GoalMoved DEF GoalEnds, GraphInv
<1>2. CASE GoalResumes
  <2>1. \E g \in GoalRows : GoalMoves(g)
    BY <1>2 DEF GoalResumes, GoalRows, GoalActive
  <2>2. graphFaults' \in 0..MaxGraphFaults
    BY <1>2, FaultCounted DEF GoalResumes, GraphInv
  <2> QED BY <1>2, <2>1, <2>2, <1>0, BesideStep, GoalMoved DEF GoalResumes, GraphInv
<1>3. CASE GoalIsCancelled
  <2>1. graphFaults' \in 0..MaxGraphFaults
    BY <1>3, FaultCounted DEF GoalIsCancelled, GraphInv
  <2>2. CASE exec.on /\ exec' = [exec EXCEPT !.signal = "cancel"] /\ UNCHANGED <<goal, goalTimer>>
    <3>1. /\ exec' \in ExecRows /\ exec'.on = exec.on /\ exec'.batch = exec.batch
          /\ exec'.signal = "cancel"
      BY <2>2 DEF ExecRows
    <3> QED BY <1>3, <2>1, <2>2, <3>1, <1>0, BesideStep DEF GoalIsCancelled
  <2>3. CASE GoalMoves([status |-> "cancelled", at |-> "none"]) /\ UNCHANGED exec
    <3>1. [status |-> "cancelled", at |-> "none"] \in GoalRows
      BY DEF GoalRows, GraphSettled
    <3>2. goal' \in GoalRows /\ goalTimer' \in BOOLEAN
      BY <2>3, <3>1, GoalMoved DEF GraphInv
    <3> QED BY <1>3, <2>1, <2>3, <3>2, <1>0, BesideStep DEF GoalIsCancelled
  <2> QED BY <1>3, <2>2, <2>3 DEF GoalIsCancelled
<1> QED BY <1>1, <1>2, <1>3

LEMMA TimerStep == ASSUME GraphInv, GraphTimerFires PROVE GraphInv'
<1> USE RecordsTyped
<1>1. UNCHANGED <<shape, process, lostCancel, graphFaults>> /\ graphTimer /\ process # "down" /\ ~exec.on
  BY DEF GraphTimerFires, GraphInv, ExecSound
<1>2. CASE graphTimer' = FALSE /\ UNCHANGED <<graph, node, worker, exec, goal, goalTimer>>
  BY <1>1, <1>2, BesideStep
<1>3. CASE graph \notin GraphSettled /\ Executes(node, TRUE, goal)
  <2>1. ~Stopping /\ process = "up"
    BY <1>1 DEF GraphInv, ExecSound, Stopping
  <2>2. GraphFrame
    BY <1>1, <2>1 DEF GraphFrame
  <2>3. \A n \in Nodes : worker[n] # "orphan"
    BY <1>3, <2>1 DEF GraphInv, WorkerSound
  <2>4. \A n \in Nodes : node[n].status = "cancelled" => lostCancel
    BY <1>1, <1>3, NoExecution DEF GraphSettled
  <2> QED BY <1>3, <2>1, <2>2, <2>3, <2>4, ExecutesStep DEF GraphInv
<1> QED BY <1>2, <1>3 DEF GraphTimerFires

LEMMA CancelStep == ASSUME GraphInv, GraphIsCancelled PROVE GraphInv'
<1> USE RecordsTyped
<1>1. /\ UNCHANGED <<shape, process, lostCancel>> /\ process # "down" /\ graphTimer' = FALSE
      /\ graphFaults' \in 0..MaxGraphFaults /\ graph \notin GraphSettled
  BY FaultCounted DEF GraphIsCancelled, GraphInv
<1>2. CASE /\ exec.on /\ exec' = [exec EXCEPT !.signal = "cancel"]
           /\ UNCHANGED <<graph, node, worker, goal, goalTimer>>
  <2>1. /\ exec' \in ExecRows /\ exec'.on = exec.on /\ exec'.batch = exec.batch
        /\ exec'.signal = "cancel"
    BY <1>2 DEF ExecRows
  <2> QED BY <1>1, <1>2, <2>1, BesideStep
<1>3. CASE /\ ~exec.on /\ exec' = exec /\ worker' = worker
           /\ node' = NodesBecome(node, Unsettled(node), "cancelled") /\ graph' = "cancelled"
           /\ GoalMoves(GoalAfter(goal, "cancelled", NoExec))
  <2>1. RowsFit(node)' /\ \A n \in Nodes : node'[n].status \in GraphSettled
    <3>1. RowsFit(NodesBecome(node, Unsettled(node), "cancelled")) /\ "cancelled" \in NodeStatuses
      BY NodesFit DEF NodeStatuses, GraphInv
    <3>2. \A n \in Nodes : node'[n].status \in GraphSettled
      BY <1>3, <3>1, NodesChange DEF Unsettled, GraphSettled
    <3> QED BY <1>3, <3>1, <3>2 DEF RowsFit, GraphRows
  <2>2. goal' \in GoalRows /\ goalTimer' \in BOOLEAN
    BY <1>3, GoalGoesOn, GoalMoved DEF GraphInv
  <2>3. GraphTypeOK'
    BY <1>1, <1>3, <2>1, <2>2 DEF GraphInv, GraphTypeOK, GoalRows, RowsFit, GraphRows, GraphStatuses
  <2>4. ExecSound'
    BY <1>1, <1>3 DEF GraphInv, ExecSound, Stopping
  <2>5. ASSUME NEW n \in Nodes PROVE WorkerSound(n)' /\ CancelSound(n)'
    <3>1. worker[n] \in {"idle", "orphan"}
      BY <1>1, <1>3, NoExecution
    <3> QED BY <1>1, <1>3, <2>1, <3>1 DEF WorkerSound, CancelSound, GraphSettled
  <2>6. WriterSound' /\ GraphCompletesWhole'
    BY <1>1, <1>3 DEF GraphInv, WriterSound, AtWork, GraphCompletesWhole
  <2> QED BY <2>1, <2>3, <2>4, <2>5, <2>6 DEF GraphInv
<1> QED BY <1>2, <1>3 DEF GraphIsCancelled

LEMMA ShutsDownStep == ASSUME GraphInv, ShutsDown PROVE GraphInv'
<1> USE RecordsTyped
<1>1. exec' \in ExecRows /\ exec'.on = exec.on /\ exec'.batch = exec.batch /\ (~exec.on => exec' = exec)
      /\ (exec.on => exec'.signal # "none")
  <2>1. CASE exec.on /\ exec.signal = "none"
    <3>1. exec' = [exec EXCEPT !.signal = "shutdown"]
      BY <2>1 DEF ShutsDown
    <3> QED BY <2>1, <3>1 DEF ExecRows
  <2>2. CASE ~(exec.on /\ exec.signal = "none")
    BY <2>2 DEF ShutsDown, ExecRows
  <2> QED BY <2>1, <2>2
<1>2. graphFaults' \in 0..MaxGraphFaults
  BY FaultCounted DEF ShutsDown, GraphInv
<1> QED BY <1>1, <1>2, BesideStep DEF ShutsDown

\* The process goes down: nobody works on, the graph and its rows stay.
LEMMA GoesDown ==
  ASSUME GraphInv, process' = "down", exec' = NoExec, graphTimer' = FALSE, goalTimer' = FALSE,
         UNCHANGED <<shape, graph, node>>, goal' \in GoalRows, goal'.at = "none",
         worker' \in [Nodes -> {"idle", "progressed", "over"}],
         graphFaults' \in 0..MaxGraphFaults, lostCancel' \in BOOLEAN, lostCancel => lostCancel',
         \A n \in Nodes : exec.on /\ node[n].status = "cancelled" => lostCancel'
  PROVE  GraphInv'
<1> USE DEF GraphInv
<1>1. exec' \in ExecRows /\ ~exec'.on /\ exec'.batch = {}
  BY DEF NoExec, ExecRows
<1>2. GraphTypeOK'
  BY <1>1 DEF GraphTypeOK, GoalRows, ExecRows
<1>3. ExecSound' /\ RowsFit(node)' /\ GraphCompletesWhole'
  BY <1>1 DEF ExecSound, Stopping, RowsFit, GraphRows, GraphCompletesWhole
<1>4. ASSUME NEW n \in Nodes PROVE WorkerSound(n)' /\ CancelSound(n)'
  BY <1>1, NoExecution DEF WorkerSound, CancelSound
<1>5. WriterSound'
  BY <1>1 DEF WriterSound, AtWork
<1> QED BY <1>2, <1>3, <1>4, <1>5

LEMMA ExitsStep == ASSUME GraphInv, Exits PROVE GraphInv'
<1>1. goal' \in GoalRows /\ goal'.at = "none"
  BY RecordsTyped DEF Exits, GoalRows, GoalActive
<1>2. graphTimer' = FALSE
  BY RecordsTyped DEF Exits, GraphInv, ExecSound
<1>3. worker' \in [Nodes -> {"idle", "progressed", "over"}]
  BY DEF Exits
<1> QED BY <1>1, <1>2, <1>3, GoesDown, RecordsTyped DEF Exits

LEMMA CrashesStep == ASSUME GraphInv, Crashes PROVE GraphInv'
<1>1. goal' \in GoalRows /\ goal'.at = "none"
  BY RecordsTyped DEF Crashes, GoalRows
<1>2. worker' \in [Nodes -> {"idle", "progressed", "over"}]
  BY DEF Crashes
<1>3. graphFaults' \in 0..MaxGraphFaults
  BY FaultCounted DEF Crashes, GraphInv
<1>4. /\ lostCancel' \in BOOLEAN /\ (lostCancel => lostCancel')
      /\ \A n \in Nodes : exec.on /\ node[n].status = "cancelled" => lostCancel'
  BY RecordsTyped DEF Crashes
<1> QED BY <1>1, <1>2, <1>3, <1>4, GoesDown DEF Crashes

\* The rows a crash left open are closed as their Workers ended, or were cut off.
LEMMA RecoveredFit ==
  ASSUME GraphInv
  PROVE  /\ RowsFit(RecoveredRows)
         /\ \A n \in Nodes : RecoveredRows[n].status = "cancelled" => node[n].status = "cancelled"
<1> DEFINE ended(result) == {n \in RunningWhenCut : worker[n] = result}
           cut == RunningWhenCut \ (ended("progressed") \cup ended("over"))
           lost == CutOff(node, cut)
           closed == NodesBecome(lost, ended("progressed"), "completed")
<1>1. cut \in SUBSET Nodes
  BY DEF RunningWhenCut
<1>2. RecoveredRows = NodesBecome(closed, ended("over"), "blocked")
  BY DEF RecoveredRows
<1> HIDE DEF cut, ended
<1>3. RowsFit(lost) /\ \A n \in Nodes : lost[n].status = "cancelled" => node[n].status = "cancelled"
  BY <1>1, CutOffFits DEF GraphInv
<1> HIDE DEF lost
<1>4. RowsFit(closed) /\ \A n \in Nodes : closed[n].status = "cancelled" => lost[n].status = "cancelled"
  <2>1. lost \in GraphRows /\ "completed" \in NodeStatuses
    BY <1>3 DEF RowsFit, NodeStatuses
  <2> QED BY <1>3, <2>1, NodesFit, NodesChange
<1> HIDE DEF closed
<1>5. closed \in GraphRows /\ "blocked" \in NodeStatuses
  BY <1>4 DEF RowsFit, NodeStatuses
<1>6. RowsFit(NodesBecome(closed, ended("over"), "blocked"))
  BY <1>4, <1>5, NodesFit
<1> QED BY <1>2, <1>3, <1>4, <1>5, <1>6, NodesChange

LEMMA RecoversStep == ASSUME GraphInv, Recovers PROVE GraphInv'
<1> USE RecordsTyped
<1>1. /\ process = "down" /\ process' = "up" /\ UNCHANGED <<shape, lostCancel, graphFaults>>
      /\ ~exec.on /\ exec.batch = {} /\ ~Stopping
  BY DEF Recovers, GraphInv, ExecSound, Stopping
<1>2. CASE graph = "running" /\ Executes(node, TRUE, goal)
  <2>1. \A n \in Nodes : worker[n] # "orphan"
    BY <1>1 DEF GraphInv, WorkerSound
  <2>2. \A n \in Nodes : node[n].status = "cancelled" => lostCancel
    BY <1>1, <1>2, NoExecution
  <2>3. GraphFrame
    BY <1>1 DEF GraphFrame
  <2> QED BY <1>1, <1>2, <2>1, <2>2, <2>3, ExecutesStep DEF GraphInv
<1>3. CASE /\ RecoversGraph /\ worker' = [n \in Nodes |-> "idle"]
           /\ IF graphTimer' \/ goal.status \notin GoalActive
              THEN UNCHANGED <<goal, goalTimer>>
              ELSE goal' = [status |-> "waiting_provider", at |-> "none"] /\ goalTimer' = TRUE
  <2>1. goal' \in GoalRows /\ goalTimer' \in BOOLEAN
    <3>1. CASE UNCHANGED <<goal, goalTimer>>
      BY <3>1
    <3>2. CASE goal' = [status |-> "waiting_provider", at |-> "none"] /\ goalTimer' = TRUE
      BY <3>2 DEF GoalRows, GoalActive
    <3> QED BY <1>3, <3>1, <3>2
  <2>2. exec' = exec /\ graphTimer' \in BOOLEAN
    BY <1>3 DEF RecoversGraph
  <2>3. /\ RowsFit(node)' /\ graph' \in GraphStatuses
        /\ \A n \in Nodes : node'[n].status = "cancelled" =>
             \/ graph' \in {"cancelled", "blocked"}
             \/ node[n].status = "cancelled" /\ graph \notin {"cancelled", "blocked"}
        /\ graph' = "completed" => graph = "completed" /\ node' = node
    <3>1. CASE UNCHANGED <<graph, node, exec>>
      BY <3>1 DEF GraphInv, RowsFit, GraphRows
    <3>2. CASE node' = NodesBecome(node, Unsettled(node), "blocked") /\ graph' = "blocked"
      <4>1. RowsFit(NodesBecome(node, Unsettled(node), "blocked"))
        BY NodesFit DEF NodeStatuses, GraphInv
      <4> QED BY <3>2, <4>1 DEF RowsFit, GraphRows, GraphStatuses
    <3>3. CASE /\ graph = "running" /\ node' = RecoveredRows
               /\ graph' \in {"blocked", "waiting_provider"}
      BY <3>3, RecoveredFit DEF RowsFit, GraphRows, GraphStatuses
    <3> QED BY <1>3, <3>1, <3>2, <3>3 DEF RecoversGraph
  <2>4. GraphTypeOK'
    BY <1>1, <1>3, <2>1, <2>2, <2>3 DEF GraphTypeOK, GoalRows, ExecRows, RowsFit, GraphRows
  <2>5. ExecSound'
    BY <1>1, <2>2 DEF ExecSound, Stopping
  <2>6. ASSUME NEW n \in Nodes PROVE WorkerSound(n)' /\ CancelSound(n)'
    <3>1. WorkerSound(n)'
      BY <1>1, <1>3 DEF WorkerSound
    <3> QED BY <1>1, <2>3, <3>1, NoExecution DEF CancelSound
  <2>7. WriterSound'
    BY <1>1, <1>3, <2>2 DEF WriterSound, AtWork
  <2>8. GraphCompletesWhole'
    BY <1>1, <2>3 DEF GraphInv, GraphCompletesWhole
  <2> QED BY <2>3, <2>4, <2>5, <2>6, <2>7, <2>8 DEF GraphInv
<1> QED BY <1>2, <1>3 DEF Recovers

-----------------------------------------------------------------------------
LEMMA GraphStep == GraphInv /\ [GraphNext]_graphVars => GraphInv'
<1> SUFFICES ASSUME GraphInv, [GraphNext]_graphVars PROVE GraphInv'
  OBVIOUS
<1>1. CASE UNCHANGED graphVars
  <2>1. GraphTypeOK' /\ ExecSound' /\ RowsFit(node)' /\ WriterSound' /\ GraphCompletesWhole'
    BY <1>1 DEF graphVars, GraphInv, GraphTypeOK, ExecSound, Stopping, RowsFit, GraphRows, WriterSound,
               AtWork, GraphCompletesWhole
  <2>2. \A n \in Nodes : WorkerSound(n)' /\ CancelSound(n)'
    BY <1>1 DEF graphVars, GraphInv, WorkerSound, CancelSound, Stopping
  <2> QED BY <2>1, <2>2 DEF GraphInv
<1>2. CASE \E n \in Nodes : WorkerAcquires(n) \/ WorkerFinishes(n) \/ WorkerThrows(n) \/ OrphanEnds(n)
  BY <1>2, AcquiresStep, FinishesStep, ThrowsStep, OrphanStep
<1>3. CASE GoalRunsGraph \/ GoalEnds \/ GoalResumes \/ GoalIsCancelled
  BY <1>3, GoalRunsStep, GoalStep
<1>4. CASE GraphTimerFires \/ GraphIsCancelled \/ ShutsDown \/ Exits \/ Crashes \/ Recovers
  BY <1>4, TimerStep, CancelStep, ShutsDownStep, ExitsStep, CrashesStep, RecoversStep
<1> QED BY <1>1, <1>2, <1>3, <1>4 DEF GraphNext

LEMMA GraphInvariant == GraphSpec => []GraphInv
  BY GraphInitHolds, GraphStep, PTL DEF GraphSpec

\* The graph, its nodes and its Workers keep their types, and no node is ever given more
\* attempts than its budget: the exception of createWorkerAttempt is unreachable.
THEOREM GraphTypeCorrect == GraphSpec => []GraphTypeOK
<1>1. GraphInv => GraphTypeOK
  BY DEF GraphInv
<1> QED BY <1>1, GraphInvariant, PTL

\* For any graph, budget and number of crashes, shutdowns, exceptions and cancellations a
\* writer works alone, and a graph is completed only with all of its nodes, unless a
\* fault lost a cancellation (scheduleWorkerBatch, runWorkGraph).
THEOREM GraphIsSoundHolds == GraphSpec => []GraphIsSound
<1>1. GraphInv => GraphIsSound
  BY DEF GraphInv, GraphIsSound, WriterSound, WritersWorkAlone
<1> QED BY <1>1, GraphInvariant, PTL
=============================================================================
