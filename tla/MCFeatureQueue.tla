--------------------------- MODULE MCFeatureQueue ---------------------------
(* The Feature Plan queue on its own, under the autopilot, and under the    *)
(* delivery of Features.  One of them acts in a behaviour: `focus`.  Task 2 *)
(* depends on Task 1; Task 3 stands alone and asks for the same as Task 1.  *)
EXTENDS BacklogAutopilot, FeatureDelivery

VARIABLE focus

MCTaskDeps == [t \in Tasks |-> IF t = 2 THEN {1} ELSE {}]
MCContract ==
  [t \in Tasks |-> [mode |-> "parallel",
                    scope |-> {CASE t = 1 -> <<"ui">> [] t = 2 -> <<"ui", "list">> [] OTHER -> <<"api">>}]]
MCSameDemand == [t \in Tasks |-> CASE t = 1 -> {3} [] t = 3 -> {1} [] OTHER -> {}]
MCPlanScopes == {{}, {3}, {1, 2}}
MCLoaded == {[p \in Plans |-> CASE p = 1 -> {1, 2} [] p = 2 -> {3} [] OTHER -> {}]}

backlogOnly == <<goalVars, autopilotVars, update>>
deliveryOnly == <<delivered, integratedRev, reviewedHead, pr, listed, work, assembling,
                  cancelling, outbox, approved, mergedByUs, prEvents, faults>>
SamePlans == \A p \in Plans : (members'[p] = {}) = (members[p] = {})

\* The autopilot is switched off and no plan is delivered where they do not act, so
\* that fairness asks nothing of them.
MCInit ==
  \/ focus = "queue" /\ QueueInit /\ AutopilotStarts("off") /\ DeliveryStarts({})
  \/ focus = "backlog" /\ AutopilotInit /\ DeliveryStarts({})
  \/ focus = "delivery" /\ DeliveryInit /\ AutopilotStarts("off")

\* Only the queue on its own gets new plans, and plans without Tasks.
MCNext ==
  /\ UNCHANGED focus
  /\ \/ focus = "queue" /\ QueueNext /\ UNCHANGED <<backlogOnly, deliveryOnly>>
     \/ focus = "backlog" /\ AutopilotNext /\ SamePlans /\ UNCHANGED deliveryOnly
     \/ focus = "delivery" /\ DeliveryNext /\ SamePlans /\ UNCHANGED backlogOnly

MCSpec == /\ MCInit /\ [][MCNext]_<<backlogVars, deliveryVars, focus>>
          /\ AutopilotFairness /\ DeliveryFairness

\* Every table and every piece of memory holds what its module says it may.
TypeOK == BacklogTypeOK /\ DeliveryTypeOK

\* What the polls must come back to: a Task that waited, a Feature in flight and a
\* delivered plan without a Feature.
NothingIsForgotten == WaitingTaskIsWoken /\ InFlightFeatureSettles /\ DeliveredPlanGetsFeature
=============================================================================
