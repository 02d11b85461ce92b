--------------------------- MODULE FeatureDelivery ---------------------------
(***************************************************************************)
(* From delivered Tasks to a merged Feature: the assembly of a Feature     *)
(* Plan (src/features/assembly.ts, integration.ts), the final review and   *)
(* merge of its pull request (src/features/coordinator.ts) and its         *)
(* cancellation (cancelFeature of src/commands/application-commands.ts),   *)
(* on the tables of FeaturePlanQueue.                                      *)
(*                                                                         *)
(* Assembly, reconciliation, manual reviews and cancellations interleave   *)
(* at every await: a GitHub command or a review that was started (pc) is   *)
(* answered in a later step, and the handler goes on with what it read     *)
(* before.  A pull request is its state, its gate - what keeps it from     *)
(* being merged - and its head.  Better-sqlite3 and the git commands of    *)
(* the integration are synchronous.                                        *)
(***************************************************************************)
EXTENDS FeaturePlanQueue

CONSTANTS
  MaxPrEvents,   \* what people do to a pull request
  MaxFaults      \* failed GitHub or git commands, and crashes

\* The scenario: plan 1 exists, and plan 2 may be ordered after it.
ASSUME DeliveryBounds ==
  /\ 1 \in Plans /\ \A mb \in Loaded : mb[1] # {}
  /\ MaxPrEvents \in Nat /\ MaxFaults \in Nat

VARIABLES
  delivered,     \* plans whose Tasks are all awaiting_human
  integratedRev, \* planRevision of the integration of each plan
  reviewedHead,  \* features.reviewed_head_sha
  pr,            \* the Feature pull request of each plan on GitHub
  listed,        \* status read by the running reconcileFeatures, per Feature
  work,          \* what `active` of FeatureCoordinator stands for
  assembling,    \* the plan the assembly is at
  cancelling,    \* cancelFeature calls
  outbox,        \* Features whose completion review is enqueued
  approved,      \* heads a reviewer approved (history)
  mergedByUs,    \* heads Maestro merged (history)
  prEvents, faults

deliveryVars == <<queueVars, requests, delivered, integratedRev, reviewedHead, pr, listed,
                  work, assembling, cancelling, outbox, approved, mergedByUs, prEvents, faults>>

FeatureStatuses == {"none", "draft", "waiting_checks", "reviewing", "waiting_provider",
                    "changes_requested", "merging", "completed", "failed", "cancelled"}
Settled == {"completed", "failed", "cancelled"}
Heads == 0..MaxPrEvents + 1
NoPr == [state |-> "none", gate |-> "draft", head |-> 0]

\* saw: what GitHub answered; stale: the status the handler was called with.
NoWork == [who |-> "none", pc |-> "idle", stale |-> "none", saw |-> NoPr, head |-> 0]
NoAssembly == [plan |-> 0, pc |-> "idle", rev |-> 0]

Mergeable(state) == state.state = "open" /\ state.gate = "ready"
Merged(p) == [pr EXCEPT ![p].state = "merged"]

Fault == faults < MaxFaults /\ faults' = faults + 1

-----------------------------------------------------------------------------
\* The segments of a review, of reconcile or by hand

\* What is left alone by a segment that writes only the Feature.
OnlyFeature ==
  UNCHANGED <<plan, deps, members, integration, requests, delivered, integratedRev, pr, listed,
              assembling, cancelling, outbox, mergedByUs, prEvents>>

\* The segment ends with the Feature in a status, or awaits again.
Ends(p, status) ==
  feature' = [feature EXCEPT ![p] = status] /\ work' = [work EXCEPT ![p] = NoWork]
Awaits(p, pc) == work' = [work EXCEPT ![p].pc = pc, ![p].saw = NoPr]

\* An exception: reconcileFeatures marks the Feature failed, triggerManualReview
\* passes it to its caller.
Throws(p) == Ends(p, IF work[p].who = "reconcile" THEN "failed" ELSE feature[p])

\* completeFeature up to its first await: the canonical repository is
\* synchronised, or the Feature waits as merging for the next attempt.
BeginsCompletion(p, status) ==
  \/ status = "completed" /\ Ends(p, feature[p]) /\ UNCHANGED faults
  \/ status # "completed" /\ Awaits(p, "closing") /\ UNCHANGED <<feature, faults>>
  \/ status # "completed" /\ Fault /\ Ends(p, "merging")

\* reconcileFeature and triggerManualReview on the answer of inspect.
InspectionHandled(p) ==
  LET seen == work[p].saw
      repeats(status) == work[p].who = "reconcile" /\ work[p].stale = status
      becomes(status) == Ends(p, IF repeats(status) THEN feature[p] ELSE status)
                         /\ UNCHANGED <<reviewedHead, faults>>
  IN /\ work[p].pc = "inspect" /\ seen # NoPr
     /\ \/ seen.state = "merged" /\ BeginsCompletion(p, work[p].stale) /\ UNCHANGED reviewedHead
        \/ seen.state = "closed" /\ Ends(p, "failed") /\ UNCHANGED <<reviewedHead, faults>>
        \/ seen.state = "open" /\ seen.gate = "draft" /\ becomes("draft")
        \/ seen.state = "open" /\ seen.gate = "waiting" /\ becomes("waiting_checks")
        \/ /\ seen.state = "open" /\ seen.gate = "conflict"
           /\ IF repeats("changes_requested") THEN becomes("changes_requested")
              ELSE Awaits(p, "drafting") /\ UNCHANGED <<feature, reviewedHead, faults>>
        \/ /\ Mergeable(seen)                                      \* runFinalReview
           /\ feature' = [feature EXCEPT ![p] = "reviewing"]
           /\ reviewedHead' = [reviewedHead EXCEPT ![p] = seen.head]
           /\ work' = [work EXCEPT ![p].pc = "review", ![p].saw = NoPr, ![p].head = seen.head]
           /\ UNCHANGED faults
     /\ UNCHANGED approved /\ OnlyFeature

\* The reviewer answers, or there is none left to ask.
ReviewAnswers(p) ==
  /\ work[p].pc = "review"
  /\ \/ Ends(p, "waiting_provider") /\ UNCHANGED approved
     \/ Awaits(p, "drafting") /\ UNCHANGED <<feature, approved>>
     \/ /\ approved' = [approved EXCEPT ![p] = @ \cup {work[p].head}]
        /\ IF feature[p] = "cancelled" THEN Ends(p, feature[p])
           ELSE Awaits(p, "recheck") /\ UNCHANGED feature
  /\ UNCHANGED <<reviewedHead, faults>> /\ OnlyFeature

\* mergeReviewedFeature: the approval is good for the head that was reviewed,
\* as long as no gate was lost.
StillMergeable(p, seen) == Mergeable(seen)
StillApproved(p, seen) == Mergeable(seen) /\ seen.head = work[p].head

RecheckHandled(p) ==
  LET seen == work[p].saw IN
  /\ work[p].pc = "recheck" /\ seen # NoPr
  /\ \/ /\ ~StillApproved(p, seen)
        /\ Ends(p, "waiting_checks") /\ UNCHANGED reviewedHead
     \/ /\ StillApproved(p, seen) /\ feature[p] = "cancelled"
        /\ Ends(p, feature[p]) /\ UNCHANGED reviewedHead
     \/ /\ StillApproved(p, seen) /\ feature[p] # "cancelled"
        /\ feature' = [feature EXCEPT ![p] = "merging"]
        /\ reviewedHead' = [reviewedHead EXCEPT ![p] = seen.head]
        /\ work' = [work EXCEPT ![p].pc = "merge", ![p].saw = NoPr, ![p].head = seen.head]
  /\ UNCHANGED <<approved, faults>> /\ OnlyFeature

\* gh pr merge --match-head-commit
Accepts(p) == /\ pr[p].state = "open" /\ pr[p].gate \notin {"draft", "conflict"}
              /\ pr[p].head = work[p].head

MergeAnswers(p) ==
  /\ work[p].pc = "merge"
  /\ \/ /\ Accepts(p)
        /\ pr' = Merged(p) /\ mergedByUs' = [mergedByUs EXCEPT ![p] = @ \cup {pr[p].head}]
        /\ \/ Awaits(p, "confirm") /\ UNCHANGED <<feature, faults>>
           \/ Fault /\ Throws(p)                                  \* the answer is lost
     \/ ~Accepts(p) /\ Throws(p) /\ UNCHANGED <<pr, mergedByUs, faults>>
  /\ UNCHANGED <<plan, deps, members, integration, requests, delivered, integratedRev, reviewedHead,
                 listed, assembling, cancelling, outbox, approved, prEvents>>

ConfirmationHandled(p) ==
  /\ work[p].pc = "confirm" /\ work[p].saw # NoPr
  /\ IF work[p].saw.state = "merged" THEN BeginsCompletion(p, feature[p])
     ELSE Throws(p) /\ UNCHANGED faults
  /\ UNCHANGED <<reviewedHead, approved>> /\ OnlyFeature

\* requestChanges, once markDraft has returned.
DraftingAnswers(p) ==
  /\ work[p].pc = "drafting"
  /\ pr' = IF pr[p].state = "open" THEN [pr EXCEPT ![p].gate = "draft"] ELSE pr
  /\ Ends(p, "changes_requested")
  /\ UNCHANGED <<plan, deps, members, integration, requests, delivered, integratedRev, reviewedHead,
                 listed, assembling, cancelling, outbox, approved, mergedByUs, prEvents, faults>>

\* The transaction of completeFeature throws, and is rolled back, when the plan
\* was cancelled (completeFeaturePlanAfterMerge) or the Feature was merged by
\* somebody else before any review (buildFeatureCompletionEvidencePack).
Completable(p) == plan[p].status # "cancelled" /\ reviewedHead[p] # 0

\* completeFeature after its awaits: Work pull requests, branches and issues are
\* closed and the Tasks done; one transaction completes Feature and plan and
\* enqueues the review; the queue is revalidated.
CompletionAnswers(p) ==
  /\ work[p].pc = "closing"
  /\ \/ /\ Fault /\ Ends(p, "merging")                            \* something stays open
        /\ delivered' \in {delivered, delivered \ {p}}
        /\ UNCHANGED <<plan, outbox>>
     \/ /\ Completable(p)
        /\ Ends(p, "completed")
        /\ plan' = RevalidatedQueue(IF plan[p].status \in Final THEN plan
                                    ELSE [plan EXCEPT ![p].status = "completed"], deps)
        /\ outbox' = outbox \cup {p}
        /\ delivered' = delivered \ {p} /\ UNCHANGED faults
     \/ /\ ~Completable(p) /\ Throws(p)
        /\ delivered' = delivered \ {p} /\ UNCHANGED <<plan, outbox, faults>>
  /\ UNCHANGED <<deps, members, integration, requests, integratedRev, reviewedHead, pr, listed,
                 assembling, cancelling, approved, mergedByUs, prEvents>>

InspectAnswers(p) ==
  /\ work[p].pc \in {"inspect", "recheck", "confirm"} /\ work[p].saw = NoPr
  /\ work' = [work EXCEPT ![p].saw = pr[p]]
  /\ UNCHANGED <<feature, reviewedHead, approved, faults>> /\ OnlyFeature

GitHubFails(p) ==
  /\ work[p].pc \in {"inspect", "recheck", "merge", "confirm", "drafting"} /\ work[p].saw = NoPr
  /\ Fault /\ Throws(p)
  /\ UNCHANGED <<reviewedHead, approved>> /\ OnlyFeature

ReviewStep(p) ==
  \/ InspectAnswers(p) \/ InspectionHandled(p) \/ ReviewAnswers(p) \/ RecheckHandled(p)
  \/ MergeAnswers(p) \/ ConfirmationHandled(p) \/ DraftingAnswers(p) \/ CompletionAnswers(p)

-----------------------------------------------------------------------------
\* Who starts them

Reconciling == \E p \in Plans : listed[p] # "none" \/ work[p].who = "reconcile"

\* reconcileFeatures lists the Features: what a turn of its loop knows of one.
Listed(status) == IF status \in Settled THEN "none" ELSE status

ReconcileFeatures ==
  /\ ~Reconciling
  /\ \E p \in Plans : feature[p] # "none"
  /\ plan' = ReconciledAll(plan, {p \in Plans : feature[p] = "completed"})
  /\ listed' = [p \in Plans |-> Listed(feature[p])]
  /\ outbox' = outbox \cup {p \in Plans : feature[p] = "completed" /\ reviewedHead[p] # 0}
  /\ UNCHANGED <<deps, members, integration, feature, requests, delivered, integratedRev, reviewedHead,
                 pr, work, assembling, cancelling, approved, mergedByUs, prEvents, faults>>

\* The turn of a Feature; a manual review that is active is passed over.
FeatureTurn(p) ==
  /\ listed[p] # "none"
  /\ \A q \in Plans : work[q].who # "reconcile" /\ (q < p => listed[q] = "none")
  /\ listed' = [listed EXCEPT ![p] = "none"]
  /\ work' = IF work[p].who = "manual" THEN work
             ELSE [work EXCEPT ![p] = [NoWork EXCEPT !.who = "reconcile", !.pc = "inspect",
                                                     !.stale = listed[p]]]
  /\ UNCHANGED <<queueVars, requests, delivered, integratedRev, reviewedHead, pr, assembling,
                 cancelling, outbox, approved, mergedByUs, prEvents, faults>>

\* triggerManualReview
ManualReview(p, isRetry) ==
  /\ Request
  /\ work[p].who = "none" /\ feature[p] \notin {"none", "completed", "cancelled"}
  /\ ~isRetry => feature[p] \notin {"reviewing", "merging"}
  /\ work' = [work EXCEPT ![p] = [NoWork EXCEPT !.who = "manual", !.pc = "inspect", !.stale = feature[p]]]
  /\ UNCHANGED <<queueVars, delivered, integratedRev, reviewedHead, pr, listed, assembling,
                 cancelling, outbox, approved, mergedByUs, prEvents, faults>>

\* cancelFeature: inspect, the row, close, and the queue.
OnlyCancel ==
  UNCHANGED <<deps, members, integration, delivered, integratedRev, reviewedHead, listed, work,
              assembling, outbox, approved, mergedByUs, prEvents>>

CancelFeature(p) ==
  /\ Request
  /\ cancelling[p] = "none" /\ feature[p] \notin {"none", "completed", "merging", "cancelled"}
  /\ cancelling' = [cancelling EXCEPT ![p] = "inspect"]
  /\ UNCHANGED <<plan, feature, pr, faults>> /\ OnlyCancel

CancelStep(p) ==
  /\ \/ /\ cancelling[p] = "inspect"                               \* answered, or failed
        /\ cancelling' = [cancelling EXCEPT ![p] = IF pr[p].state = "merged" THEN "none" ELSE pr[p].state]
        /\ UNCHANGED <<plan, feature, pr, faults>>
     \/ /\ cancelling[p] \in {"open", "closed"}
        /\ IF feature[p] \in {"completed", "merging"}
           THEN cancelling' = [cancelling EXCEPT ![p] = "none"] /\ UNCHANGED <<plan, feature>>
           ELSE /\ feature' = [feature EXCEPT ![p] = "cancelled"]
                /\ cancelling' = [cancelling EXCEPT ![p] = IF @ = "open" THEN "close" ELSE "none"]
                /\ plan' = IF cancelling[p] = "open" THEN plan ELSE RevalidatedQueue(plan, deps)
        /\ UNCHANGED <<pr, faults>>
     \/ /\ cancelling[p] = "close"
        /\ cancelling' = [cancelling EXCEPT ![p] = "none"]
        /\ plan' = RevalidatedQueue(plan, deps)
        /\ \/ /\ pr' = IF pr[p].state = "open" THEN [pr EXCEPT ![p].state = "closed"] ELSE pr
              /\ UNCHANGED faults
           \/ Fault /\ UNCHANGED pr
        /\ UNCHANGED feature
  /\ UNCHANGED requests /\ OnlyCancel

-----------------------------------------------------------------------------
\* Assembly of a plan into its Feature

OnlyAssembly ==
  UNCHANGED <<deps, members, requests, delivered, reviewedHead, listed, work, cancelling, outbox,
              approved, mergedByUs, prEvents>>

AssemblyAt(p, pc) == assembling' = [plan |-> p, pc |-> pc, rev |-> plan[p].revision]
IntegrationBecomes(p, status) == integration' = [integration EXCEPT ![p] = status]

\* Only an integration that has a row is marked.
IntegrationRejected(p) ==
  /\ IntegrationBecomes(p, IF integration[p] = "none" THEN "none" ELSE "failed")
  /\ assembling' = NoAssembly

\* FeatureIntegrationBuilder.build up to its first await, on the plan as it is
\* when the notification is out: a plan still queued takes the writer lease.
Builds(p) ==
  LET stale == integration[p] # "none" /\ integratedRev[p] # plan[p].revision IN
  /\ \/ /\ plan[p].status \in Final \/ stale
        /\ assembling' = NoAssembly
        /\ IntegrationBecomes(p, IF integration[p] = "preparing" THEN "failed" ELSE integration[p])
        /\ UNCHANGED plan
     \/ /\ plan[p].status \notin Final /\ ~stale
        /\ plan' = IF integration[p] = "none" /\ plan[p].status = "queued"
                   THEN StatusUpdated(StatusUpdated(plan, p, "admitted", "none"), p, "active", "none")
                   ELSE plan
        /\ \/ /\ integration[p] = "completed" \/ p \in delivered
              /\ AssemblyAt(p, IF integration[p] = "completed" THEN "find" ELSE "validate")
              /\ UNCHANGED integration
           \/ /\ integration[p] # "completed" /\ p \notin delivered
              /\ IntegrationRejected(p)
  /\ UNCHANGED <<feature, pr, integratedRev, faults>>

\* reconcilePlan
ReadyToAssemble(p) ==
  /\ plan[p].status \notin Final \cup {"none"} /\ feature[p] = "none"
  /\ integration[p] # "failed" /\ members[p] # {} /\ p \in delivered
  /\ plan[p].status = "queued" => Eligible(ReconciledAll(plan, Created(plan)), deps, p)

AssemblyStarts(p) ==
  /\ assembling.pc = "idle" /\ ReadyToAssemble(p)
  /\ IF integration[p] = "none"
     THEN AssemblyAt(p, "notify") /\ UNCHANGED <<plan, feature, pr, integration, integratedRev, faults>>
     ELSE Builds(p)
  /\ OnlyAssembly

AssemblyNotified(p) ==
  /\ assembling.pc = "notify" /\ assembling.plan = p
  /\ Builds(p) /\ OnlyAssembly

\* The Work pull requests are as delivered: the rest of the integration follows
\* in one go, under the revision read before.  A Task's status is read before its
\* pull request is inspected, so one reopened meanwhile may go unnoticed.
WorkValidated(p) ==
  /\ assembling.pc = "validate" /\ assembling.plan = p
  /\ integratedRev' = IF integration[p] = "none" THEN [integratedRev EXCEPT ![p] = assembling.rev]
                      ELSE integratedRev
  /\ \/ /\ IntegrationBecomes(p, "completed")
        /\ assembling' = [assembling EXCEPT !.pc = "find"] /\ UNCHANGED faults
     \/ Fault /\ IntegrationBecomes(p, "failed") /\ assembling' = NoAssembly
  /\ UNCHANGED <<plan, feature, pr>> /\ OnlyAssembly

\* Validation fails, by GitHub or because a later Task is no longer delivered.
WorkRejected(p) ==
  /\ assembling.pc = "validate" /\ assembling.plan = p
  /\ p \in delivered => Fault
  /\ p \notin delivered => UNCHANGED faults
  /\ IntegrationRejected(p)
  /\ UNCHANGED <<plan, feature, pr, integratedRev>> /\ OnlyAssembly

\* createFeature and what follows it in assemblePlan.
FeatureCreated(p) ==
  /\ feature' = [feature EXCEPT ![p] = "draft"]
  /\ plan' = IF plan[p].status = "active" THEN StatusUpdated(plan, p, "waiting_review", "none") ELSE plan
  /\ assembling' = NoAssembly

\* findOpenPullRequestByHead: a pull request of an earlier attempt is adopted.
Adopts(p) == pr[p].state = "open"

PullRequestFound(p) ==
  /\ assembling.pc = "find" /\ assembling.plan = p
  /\ \/ Adopts(p) /\ FeatureCreated(p) /\ UNCHANGED faults
     \/ /\ ~Adopts(p) /\ assembling' = [assembling EXCEPT !.pc = "create"]
        /\ UNCHANGED <<plan, feature, faults>>
     \/ Fault /\ assembling' = NoAssembly /\ UNCHANGED <<plan, feature>>
  /\ UNCHANGED <<pr, integration, integratedRev>> /\ OnlyAssembly

\* createDraftPullRequest: GitHub refuses a second open pull request of a head,
\* or one without commits;
\* a failed call may have created one.
PullRequestCreated(p) ==
  LET fresh == [state |-> "open", gate |-> "draft", head |-> pr[p].head + 1] IN
  /\ assembling.pc = "create" /\ assembling.plan = p
  /\ \/ /\ pr[p].state \in {"none", "closed"} /\ pr' = [pr EXCEPT ![p] = fresh]
        /\ FeatureCreated(p) /\ UNCHANGED faults
     \/ /\ pr[p].state \in {"none", "closed"} /\ Fault /\ pr' \in {pr, [pr EXCEPT ![p] = fresh]}
        /\ assembling' = NoAssembly /\ UNCHANGED <<plan, feature>>
     \/ /\ pr[p].state \in {"open", "merged"}
        /\ assembling' = NoAssembly /\ UNCHANGED <<plan, feature, pr, faults>>
  /\ UNCHANGED <<integration, integratedRev>> /\ OnlyAssembly

AssemblyStep(p) ==
  \/ AssemblyNotified(p) \/ WorkValidated(p) \/ WorkRejected(p)
  \/ PullRequestFound(p) \/ PullRequestCreated(p)

-----------------------------------------------------------------------------
\* The surroundings

\* People and GitHub act on an open pull request.
PrEvent(p) ==
  /\ pr[p].state = "open" /\ prEvents < MaxPrEvents /\ prEvents' = prEvents + 1
  /\ pr' \in {[pr EXCEPT ![p].head = @ + 1, ![p].gate = IF @ = "draft" THEN @ ELSE "waiting"],
              [pr EXCEPT ![p].gate = IF @ = "draft" THEN "waiting" ELSE "conflict"],
              [pr EXCEPT ![p].state = "closed"]}
             \cup (IF pr[p].gate = "ready" THEN {Merged(p)} ELSE {})
  /\ UNCHANGED <<queueVars, requests, delivered, integratedRev, reviewedHead, listed, work,
                 assembling, cancelling, outbox, approved, mergedByUs, faults>>
ChecksPass(p) ==
  /\ pr[p].state = "open" /\ pr[p].gate = "waiting"
  /\ pr' = [pr EXCEPT ![p].gate = "ready"]
  /\ UNCHANGED <<queueVars, requests, delivered, integratedRev, reviewedHead, listed, work,
                 assembling, cancelling, outbox, approved, mergedByUs, prEvents, faults>>

\* A Task of the plan is sent back before the plan is assembled.
TaskReopened(p) ==
  /\ Request
  /\ p \in delivered /\ feature[p] = "none"
  /\ delivered' = delivered \ {p}
  /\ UNCHANGED <<queueVars, integratedRev, reviewedHead, pr, listed, work, assembling, cancelling,
                 outbox, approved, mergedByUs, prEvents, faults>>

\* The process ends and starts again.  Commands in flight may still take
\* effect on GitHub; an integration may stop between its checkpoints.
Crash ==
  /\ Fault
  /\ \E p \in Plans : work[p].who # "none" \/ cancelling[p] # "none" \/ assembling.plan = p
  /\ listed' = [p \in Plans |-> "none"]
  /\ work' = [p \in Plans |-> NoWork]
  /\ cancelling' = [p \in Plans |-> "none"]
  /\ assembling' = NoAssembly
  /\ plan' = RevalidatedQueue(plan, deps)
  /\ \/ UNCHANGED <<pr, mergedByUs, integration, integratedRev>>
     \/ \E p \in Plans :
          /\ work[p].pc = "merge" /\ Accepts(p)
          /\ pr' = Merged(p) /\ mergedByUs' = [mergedByUs EXCEPT ![p] = @ \cup {pr[p].head}]
          /\ UNCHANGED <<integration, integratedRev>>
     \/ \E p \in Plans :
          /\ assembling.pc = "validate" /\ assembling.plan = p
          /\ integration[p] = "none" /\ IntegrationBecomes(p, "preparing")
          /\ integratedRev' = [integratedRev EXCEPT ![p] = assembling.rev]
          /\ UNCHANGED <<pr, mergedByUs>>
     \/ \E p \in Plans :
          /\ assembling.pc = "create" /\ assembling.plan = p /\ pr[p].state = "none"
          /\ pr' = [pr EXCEPT ![p] = [state |-> "open", gate |-> "draft", head |-> 1]]
          /\ UNCHANGED <<mergedByUs, integration, integratedRev>>
  /\ UNCHANGED <<deps, members, feature, requests, delivered, reviewedHead, outbox, approved, prEvents>>

\* What the user does to the plans meanwhile.
PlanStep(p) ==
  /\ QueueCommand(p)
  /\ UNCHANGED <<delivered, integratedRev, reviewedHead, pr, listed, work, assembling, cancelling,
                 outbox, approved, mergedByUs, prEvents, faults>>

DeliveryNext ==
  \/ ReconcileFeatures
  \/ \E p \in Plans : \/ FeatureTurn(p) \/ ReviewStep(p) \/ GitHubFails(p)
                      \/ \E isRetry \in BOOLEAN : ManualReview(p, isRetry)
                      \/ CancelFeature(p) \/ CancelStep(p)
                      \/ AssemblyStarts(p) \/ AssemblyStep(p)
                      \/ PrEvent(p) \/ ChecksPass(p) \/ TaskReopened(p) \/ PlanStep(p)
  \/ Crash

\* Plan 1 is delivered and queued, plan 2 waits for it.
DeliveryStarts(ready) ==
  /\ delivered = ready
  /\ integratedRev = [p \in Plans |-> 0]
  /\ reviewedHead = [p \in Plans |-> 0]
  /\ pr = [p \in Plans |-> NoPr]
  /\ listed = [p \in Plans |-> "none"]
  /\ work = [p \in Plans |-> NoWork]
  /\ assembling = NoAssembly
  /\ cancelling = [p \in Plans |-> "none"]
  /\ outbox = {}
  /\ approved = [p \in Plans |-> {}]
  /\ mergedByUs = [p \in Plans |-> {}]
  /\ prEvents = 0 /\ faults = 0

DeliveryInit ==
  /\ PlansLoaded
  /\ deps = [p \in Plans |-> IF p = 2 THEN {1} ELSE {}]
  /\ DeliveryStarts({1})

\* The timers go on firing, what was started is answered, and no queue of the
\* process starves (Node's event loop).  Guards that are the ENABLED of the
\* steps spare TLC the folds.
StepDue(p) == work[p].pc # "idle"
AssemblyDue(p) == assembling.pc # "idle" /\ assembling.plan = p

DeliveryFairness ==
  /\ WF_deliveryVars(ReconcileFeatures)
  /\ \A p \in Plans :
       /\ WF_deliveryVars(FeatureTurn(p))
       /\ <>[]StepDue(p) => []<><<ReviewStep(p)>>_deliveryVars
       /\ <>[](cancelling[p] # "none") => []<><<CancelStep(p)>>_deliveryVars
       /\ WF_deliveryVars(AssemblyStarts(p))
       /\ <>[]AssemblyDue(p) => []<><<AssemblyStep(p)>>_deliveryVars

DeliverySpec == DeliveryInit /\ [][DeliveryNext]_deliveryVars /\ DeliveryFairness

-----------------------------------------------------------------------------
DeliveryTypeOK ==
  /\ feature \in [Plans -> FeatureStatuses]
  /\ integration \in [Plans -> {"none", "preparing", "completed", "failed"}]
  /\ \A p \in Plans :
       /\ pr[p].head \in Heads /\ reviewedHead[p] \in Heads
       /\ work[p].who = "none" <=> work[p].pc = "idle"
       /\ work[p].pc = "merge" => work[p].saw = NoPr
       /\ approved[p] \subseteq Heads /\ mergedByUs[p] \subseteq Heads
  /\ assembling.pc \in {"idle", "notify", "validate", "find", "create"}
  /\ delivered \subseteq Plans /\ outbox \subseteq Plans

\* Whatever Maestro merges was approved at exactly that head: pushes between the
\* review, the second gate check and the merge never get in (docs/adr/0002;
\* mergeReviewedFeature, gh --match-head-commit).
MergedHeadWasApproved == \A p \in Plans : mergedByUs[p] \subseteq approved[p]

\* A completed Feature is completed everywhere: its pull request is merged, its
\* plan has given the writer lease back and its review is in the outbox, whatever
\* failed, crashed or was retried on the way (completeFeature).
CompletionIsWhole ==
  \A p \in Plans : feature[p] = "completed" =>
    pr[p].state = "merged" /\ plan[p].status = "completed" /\ p \in outbox

\* What Maestro merged was approved, and what is completed is completed to the
\* last row.  Not every completed Feature was approved: a head that a person
\* merged beside the review, refused ones too, completes it at the next
\* inspection (InspectionHandled), as long as some head was under review.
CompletionIsEarned == MergedHeadWasApproved /\ CompletionIsWhole

\* No Feature stays in review or merging: neither a crash nor a lost answer nor
\* a manual review that gave up leaves it behind (reconcileFeatures).
InFlight(p) == feature[p] \in {"reviewing", "merging"}
InFlightFeatureSettles == \A p \in Plans : []<>~InFlight(p)

\* A plan that is delivered and may be assembled gets its Feature, although the
\* attempt may die after GitHub created the pull request (assemblePlan); unless
\* it was replanned while its first integration was validated, which no later
\* attempt gets over.
Assemblable(p) == ReadyToAssemble(p) /\ pr[p].state # "merged"
                  /\ (integration[p] # "none" => integratedRev[p] = plan[p].revision)
DeliveredPlanGetsFeature == \A p \in Plans : ~<>[]Assemblable(p)
=============================================================================
