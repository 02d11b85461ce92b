-------------------------- MODULE ImprovementReview --------------------------
(***************************************************************************)
(* src/improvements: the outbox of completed Features, the worker that     *)
(* claims one under a lease and has a provider review it, and the          *)
(* proposals that come out, which a person approves - approval enters the  *)
(* change into the backlog through the Work Intake - or rejects.           *)
(*                                                                         *)
(* The worker awaits the provider and each notification; its lease may     *)
(* expire during either, and the program may stop.  A program started      *)
(* later has another worker id.                                            *)
(***************************************************************************)
EXTENDS Naturals

CONSTANTS
  Reviews,           \* completed Features, in the order of their rows
  Ideas,             \* fingerprints of what reviewers propose
  MaxReviewRestarts  \* times the program stops and starts

ASSUME RestartBound == MaxReviewRestarts \in Nat

VARIABLES
  outbox,    \* completion_review_outbox: status, lease, and lease_owner
  proposal,  \* improvement_proposals by fingerprint: its status
  entered,   \* how often each idea was entered into the backlog (history)
  reviewer,  \* the worker: what it is at, its review, the drafts left
  workerId   \* of the running program; it grows with each restart

reviewVars == <<outbox, proposal, entered, reviewer, workerId>>

IdleReviewer == [at |-> "idle", review |-> 0, drafts |-> {}]
NoRow == [status |-> "none", lease |-> "none", owner |-> 0]

-----------------------------------------------------------------------------
\* enqueueFeatureCompletionReview, claimCompletionReview, finishCompletionReview

Enqueue(r) ==   \* with the completion of the Feature, or by reconcileCompletedFeatures
  /\ outbox[r].status = "none"
  /\ outbox' = [outbox EXCEPT ![r].status = "pending"]
  /\ UNCHANGED <<proposal, entered, reviewer, workerId>>

Claimable(row) == \/ row.status = "pending"
                  \/ row.status = "running" /\ row.lease = "expired"

\* A reconciliation: one review at a time, the first that may be claimed.
Claim(r) ==
  /\ reviewer.at = "idle" /\ Claimable(outbox[r])
  /\ \A s \in Reviews : Claimable(outbox[s]) => r <= s
  /\ outbox' = [outbox EXCEPT ![r] = [status |-> "running", lease |-> "valid", owner |-> workerId]]
  /\ reviewer' = [at |-> "reviewing", review |-> r, drafts |-> {}]
  /\ UNCHANGED <<proposal, entered, workerId>>

LeaseExpires(r) ==
  /\ outbox[r].lease = "valid"
  /\ outbox' = [outbox EXCEPT ![r].lease = "expired"]
  /\ UNCHANGED <<proposal, entered, reviewer, workerId>>

\* Only who still holds the lease finishes a review; otherwise it throws,
\* which processReview ignores.
HoldsLease(r) == outbox[r].lease = "valid" /\ outbox[r].owner = workerId
Finished(r, status) ==
  IF HoldsLease(r) THEN [outbox EXCEPT ![r] = [status |-> status, lease |-> "none", owner |-> 0]]
                   ELSE outbox

-----------------------------------------------------------------------------
\* processReview

\* No provider, an error or no valid answer, or drafts.
ReviewAnswered ==
  /\ reviewer.at = "reviewing"
  /\ \/ /\ \E status \in {"waiting_provider", "failed"} : outbox' = Finished(reviewer.review, status)
        /\ reviewer' = IdleReviewer
     \/ /\ \E drafts \in SUBSET Ideas :
             reviewer' = [reviewer EXCEPT !.at = "drafts", !.drafts = drafts]
        /\ UNCHANGED outbox
  /\ UNCHANGED <<proposal, entered, workerId>>

NovelUnlessRejected(i) == proposal[i] \in {"none", "rejected"}
\* evaluateCandidate and createImprovementProposal: known fingerprints are dropped.
Novel(i) == proposal[i] = "none"

\* The next draft: dropped, or proposed and the notification awaited.
DraftProposed(i) ==
  /\ reviewer.at = "drafts" /\ i \in reviewer.drafts
  /\ \/ /\ Novel(i)
        /\ proposal' = [proposal EXCEPT ![i] = "candidate"]
        /\ reviewer' = [reviewer EXCEPT !.at = "notifying", !.drafts = @ \ {i}]
     \/ /\ reviewer' = [reviewer EXCEPT !.drafts = @ \ {i}]   \* known, or fails the evaluation
        /\ UNCHANGED proposal
  /\ UNCHANGED <<outbox, entered, workerId>>

Notified ==   \* a failure is recorded and changes nothing
  /\ reviewer.at = "notifying"
  /\ reviewer' = [reviewer EXCEPT !.at = "drafts"]
  /\ UNCHANGED <<outbox, proposal, entered, workerId>>

ReviewSucceeds ==
  /\ reviewer.at = "drafts" /\ reviewer.drafts = {}
  /\ outbox' = Finished(reviewer.review, "succeeded")
  /\ reviewer' = IdleReviewer
  /\ UNCHANGED <<proposal, entered, workerId>>

-----------------------------------------------------------------------------
\* decideImprovementProposal of application-commands.ts: one transaction,
\* which fails as a whole when the intake does.

Decide(i, status) ==
  /\ proposal[i] = "candidate"
  /\ proposal' = [proposal EXCEPT ![i] = status]
  /\ entered' = IF status = "approved" THEN [entered EXCEPT ![i] = @ + 1] ELSE entered
  /\ UNCHANGED <<outbox, reviewer, workerId>>

ReviewerRestarts ==
  /\ workerId < MaxReviewRestarts
  /\ workerId' = workerId + 1
  /\ reviewer' = IdleReviewer
  /\ UNCHANGED <<outbox, proposal, entered>>

ReviewInit ==
  /\ outbox = [r \in Reviews |-> NoRow]
  /\ proposal = [i \in Ideas |-> "none"]
  /\ entered = [i \in Ideas |-> 0]
  /\ reviewer = IdleReviewer
  /\ workerId = 0

ReviewNext ==
  \/ \E r \in Reviews : Enqueue(r) \/ Claim(r) \/ LeaseExpires(r)
  \/ ReviewAnswered
  \/ \E i \in Ideas : \/ DraftProposed(i)
                      \/ \E status \in {"approved", "rejected"} : Decide(i, status)
  \/ Notified
  \/ ReviewSucceeds
  \/ ReviewerRestarts

ReviewSpec == ReviewInit /\ [][ReviewNext]_reviewVars

-----------------------------------------------------------------------------
OutboxRow == [status : {"none", "pending", "running", "waiting_provider", "failed", "succeeded"},
              lease : {"none", "valid", "expired"}, owner : 0..MaxReviewRestarts]

\* Types of all variables.
ReviewTypeOK ==
  /\ outbox \in [Reviews -> OutboxRow]
  /\ proposal \in [Ideas -> {"none", "candidate", "approved", "rejected"}]
  /\ entered \in [Ideas -> Nat]
  /\ reviewer \in [at : {"idle", "reviewing", "drafts", "notifying"},
                   review : Reviews \cup {0}, drafts : SUBSET Ideas]
  /\ workerId \in 0..MaxReviewRestarts

\* Reviews of several Features, and repeated reviews of one whose lease
\* expired, come up with the same idea before and after a person decided on
\* it: the decision stands, and an idea enters the backlog once, if it was
\* approved (evaluateCandidate, createImprovementProposal and
\* decideImprovementProposal).
DecisionIsFinal ==
  [][\A i \in Ideas :
       /\ proposal[i] \in {"approved", "rejected"} => proposal'[i] = proposal[i]
       /\ entered'[i] = (IF proposal'[i] = "approved" THEN 1 ELSE 0)]_reviewVars
=============================================================================
