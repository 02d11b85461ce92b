---------------------------- MODULE FeatureProofs ----------------------------
(***************************************************************************)
(* Proofs about the Feature Plan queue, the delivery of Features and the   *)
(* autopilot, for any number of plans, Tasks, Goals, requests and          *)
(* revisions.                                                              *)
(*                                                                         *)
(* A revalidation of the queue and the search for a cycle are recursive    *)
(* functions.  `Revalidation` and `Closure` say all that is needed of      *)
(* them: a pass leaves finished plans alone, and what a plan reaches is    *)
(* the smallest set that is closed under dependencies.  For the loop of a  *)
(* tick over its queue `LoopRuns` does the same: plans are admitted and    *)
(* start, Goals that did not loop are resumed, and one Task that is ready  *)
(* may be launched.                                                        *)
(***************************************************************************)
EXTENDS FeatureDelivery, BacklogAutopilot, NaturalOrder, FiniteSetTheorems

-----------------------------------------------------------------------------
(* Tables of plans                                                         *)

PlanRow == [status : PlanStatuses, paused : BOOLEAN, priority : 0..MaxPriority,
            reason : Reasons, revision : 1..MaxRevision]
PlanTable == [Plans -> PlanRow]

\* From table a to b no plan was created and none that is over was opened again.
Advances(a, b) ==
  \A p \in Plans : /\ a[p].status \in Final => b[p].status = a[p].status
                   /\ a[p].status = "none" <=> b[p].status = "none"

LEMMA AdvancesTransitively ==
  ASSUME NEW a, NEW b, NEW c, Advances(a, b), Advances(b, c)
  PROVE  Advances(a, c)
BY DEF Advances

LEMMA WithStatusRow ==
  ASSUME NEW pl \in PlanTable, NEW p, NEW to \in PlanStatuses \ {"none"}, NEW why \in Reasons
  PROVE  /\ WithStatus(pl, p, to, why) \in PlanTable
         /\ \A q \in Plans : WithStatus(pl, p, to, why)[q].status = IF q = p THEN to ELSE pl[q].status
<1> DEFINE reason == CASE to = "blocked" -> why [] to = "queued" -> "none" [] OTHER -> pl[p].reason
           b == WithStatus(pl, p, to, why)
<1>1. b = [q \in Plans |-> IF q = p THEN [[pl[p] EXCEPT !.status = to] EXCEPT !.reason = reason]
                           ELSE pl[q]]
  BY DEF WithStatus, PlanTable
<1>2. p \in Plans => reason \in Reasons
  BY DEF Reasons, PlanTable, PlanRow
<1> HIDE DEF reason, b
<1>3. ASSUME NEW q \in Plans
      PROVE  b[q] \in PlanRow /\ b[q].status = IF q = p THEN to ELSE pl[q].status
  <2>1. pl[q] \in PlanRow
    BY DEF PlanTable
  <2>2. CASE q = p
    <3>1. [pl[q] EXCEPT !.status = to] \in PlanRow /\ [pl[q] EXCEPT !.status = to].status = to
      BY <2>1 DEF PlanRow
    <3> DEFINE r == [pl[q] EXCEPT !.status = to]
    <3> HIDE DEF r
    <3>2. r \in PlanRow /\ r.status = to
      BY <3>1 DEF r
    <3>3. [r EXCEPT !.reason = reason] \in PlanRow /\ [r EXCEPT !.reason = reason].status = to
      BY <3>2, <2>2, <1>2 DEF PlanRow
    <3> QED BY <3>3, <2>2, <1>1 DEF r
  <2>3. CASE q # p
    BY <2>1, <2>3, <1>1
  <2> QED BY <2>2, <2>3
<1> QED BY <1>1, <1>3 DEF b, PlanTable

LEMMA ReconciledRow ==
  ASSUME NEW pl \in PlanTable, NEW p
  PROVE  /\ Reconciled(pl, p) \in PlanTable
         /\ \A q \in Plans :
              Reconciled(pl, p)[q].status =
                IF q = p /\ pl[p].status \notin Final /\ feature[p] = "completed" THEN "completed"
                ELSE pl[q].status
<1>1. "completed" \in PlanStatuses \ {"none"} /\ "none" \in Reasons
  BY DEF PlanStatuses, Reasons
<1>2. CASE pl[p].status \notin Final /\ feature[p] = "completed"
  <2>1. Reconciled(pl, p) = WithStatus(pl, p, "completed", "none")
    BY <1>2 DEF Reconciled
  <2> QED BY <1>1, <1>2, <2>1, WithStatusRow
<1>3. CASE ~(pl[p].status \notin Final /\ feature[p] = "completed")
  <2>1. Reconciled(pl, p) = pl
    BY <1>3 DEF Reconciled
  <2> QED BY <1>3, <2>1
<1> QED BY <1>2, <1>3

\* A status is written to an open plan, or again: nothing that is over is opened.
LEMMA StatusUpdatedRow ==
  ASSUME NEW pl \in PlanTable, NEW p \in Plans, NEW to \in PlanStatuses \ {"none"}, NEW why \in Reasons,
         pl[p].status \notin Final \cup {"none"} \/ pl[p].status = to
  PROVE  StatusUpdated(pl, p, to, why) \in PlanTable /\ Advances(pl, StatusUpdated(pl, p, to, why))
<1>1. CASE pl[p].status = to
  <2>1. StatusUpdated(pl, p, to, why) = Reconciled(pl, p)
    BY <1>1 DEF StatusUpdated
  <2>2. \A q \in Plans : q = p => pl[q].status # "none"
    BY <1>1
  <2> QED BY <2>1, <2>2, ReconciledRow DEF Advances
<1>2. CASE pl[p].status # to
  <2> DEFINE b == WithStatus(pl, p, to, why)
  <2>1. StatusUpdated(pl, p, to, why) = Reconciled(b, p)
    BY <1>2 DEF StatusUpdated
  <2>2. b \in PlanTable /\ \A q \in Plans : b[q].status = IF q = p THEN to ELSE pl[q].status
    BY WithStatusRow
  <2> HIDE DEF b
  <2>3. /\ Reconciled(b, p) \in PlanTable
        /\ \A q \in Plans : q # p => Reconciled(b, p)[q].status = pl[q].status
        /\ Reconciled(b, p)[p].status \in {to, "completed"}
    BY <2>2, ReconciledRow
  <2>4. Advances(pl, Reconciled(b, p))
    BY <1>2, <2>3 DEF Advances, Final
  <2> QED BY <2>1, <2>3, <2>4
<1> QED BY <1>1, <1>2

LEMMA ReconciledTable ==
  ASSUME NEW pl \in PlanTable, NEW ps \in SUBSET Plans
  PROVE  /\ ReconciledAll(pl, ps) \in PlanTable
         /\ (\A p \in ps : pl[p].status # "none") => Advances(pl, ReconciledAll(pl, ps))
         /\ \A p \in Plans : pl[p].status \in Final => ReconciledAll(pl, ps)[p].status = pl[p].status
<1> DEFINE b == ReconciledAll(pl, ps)
<1>1. b = [p \in Plans |-> IF p \in ps THEN Reconciled(pl, p)[p] ELSE pl[p]]
  BY DEF ReconciledAll
<1> HIDE DEF b
<1>2. ASSUME NEW p \in Plans
      PROVE  /\ b[p] \in PlanRow
             /\ \/ b[p].status = pl[p].status
                \/ p \in ps /\ pl[p].status \notin Final /\ b[p].status = "completed"
  <2>1. Reconciled(pl, p)[p] \in PlanRow /\ pl[p] \in PlanRow
    BY ReconciledRow DEF PlanTable
  <2>2. \/ Reconciled(pl, p)[p].status = pl[p].status
        \/ pl[p].status \notin Final /\ Reconciled(pl, p)[p].status = "completed"
    BY ReconciledRow
  <2> QED BY <1>1, <2>1, <2>2
<1>3. b \in PlanTable
  BY <1>1, <1>2 DEF PlanTable
<1>4. (\A p \in ps : pl[p].status # "none") => Advances(pl, b)
  BY <1>2 DEF Advances
<1> QED BY <1>2, <1>3, <1>4 DEF b

LEMMA RevalidatedRow ==
  ASSUME NEW pl \in PlanTable, NEW dp, NEW p
  PROVE  Revalidated(pl, dp, p) \in PlanTable /\ Advances(pl, Revalidated(pl, dp, p))
<1> DEFINE failing == \E d \in dp[p] : pl[d].status \in {"cancelled", "blocked"}
           requeued == IF pl[p].status = "blocked" /\ pl[p].reason = "predecessor"
                       THEN StatusUpdated(pl, p, "queued", "none") ELSE pl
           result == Revalidated(pl, dp, p)
<1> USE DEF PlanStatuses, Reasons, Final
<1>1. Advances(pl, pl)
  BY DEF Advances
<1>2. ASSUME p \notin Plans, NEW t \in PlanTable, NEW to \in PlanStatuses \ {"none"}, NEW why \in Reasons
      PROVE  StatusUpdated(t, p, to, why) \in PlanTable /\ Advances(t, StatusUpdated(t, p, to, why))
  <2> DEFINE b == WithStatus(t, p, to, why)
  <2>1. b \in PlanTable /\ \A q \in Plans : b[q].status = t[q].status
    BY <1>2, WithStatusRow
  <2> HIDE DEF b
  <2>2. /\ Reconciled(b, p) \in PlanTable /\ \A q \in Plans : Reconciled(b, p)[q].status = t[q].status
    BY <1>2, <2>1, ReconciledRow
  <2>3. /\ Reconciled(t, p) \in PlanTable /\ \A q \in Plans : Reconciled(t, p)[q].status = t[q].status
    BY <1>2, ReconciledRow
  <2>4. StatusUpdated(t, p, to, why) \in {Reconciled(b, p), Reconciled(t, p)}
    BY DEF StatusUpdated, b
  <2> HIDE DEF PlanStatuses, Reasons, Final
  <2> QED BY <2>2, <2>3, <2>4 DEF Advances
<1>3. requeued \in PlanTable /\ Advances(pl, requeued)
  <2>1. CASE pl[p].status = "blocked" /\ pl[p].reason = "predecessor"
    <3>1. StatusUpdated(pl, p, "queued", "none") \in PlanTable
          /\ Advances(pl, StatusUpdated(pl, p, "queued", "none"))
      BY <1>2, <2>1, StatusUpdatedRow
    <3> QED BY <2>1, <3>1
  <2>2. CASE ~(pl[p].status = "blocked" /\ pl[p].reason = "predecessor")
    BY <1>1, <2>2
  <2> QED BY <2>1, <2>2
<1>4. CASE failing /\ pl[p].status \in {"queued", "admitted"}
  <2>1. result = StatusUpdated(pl, p, "blocked", "predecessor")
    BY <1>4 DEF Revalidated
  <2>2. result \in PlanTable /\ Advances(pl, result)
    BY <1>2, <1>4, <2>1, StatusUpdatedRow
  <2> QED BY <2>2
<1>5. CASE failing /\ pl[p].status \notin {"queued", "admitted"}
  <2>1. result = pl
    BY <1>5 DEF Revalidated
  <2> QED BY <1>1, <2>1
<1>6. CASE ~failing /\ Eligible(requeued, dp, p)
  <2>1. result = StatusUpdated(requeued, p, "admitted", "none")
    BY <1>6 DEF Revalidated
  <2>2. requeued[p].status = "queued"
    BY <1>6 DEF Eligible
  <2> HIDE DEF requeued
  <2>3. result \in PlanTable /\ Advances(requeued, result)
    BY <1>2, <1>3, <2>1, <2>2, StatusUpdatedRow
  <2> QED BY <1>3, <2>3, AdvancesTransitively
<1>7. CASE ~failing /\ ~Eligible(requeued, dp, p)
  <2>1. result = requeued
    BY <1>7 DEF Revalidated
  <2> QED BY <1>3, <2>1
<1> QED BY <1>4, <1>5, <1>6, <1>7

-----------------------------------------------------------------------------
(* Admission: who takes the writer lease, and when                         *)

\* From z to a a plan took the writer lease only after its predecessors, alone and unpaused.
Legal(z, a, dp) ==
  \A p \in Plans :
    z[p].status \in {"queued", "blocked"} /\ a[p].status \in Writing =>
      /\ \A d \in dp[p] \cap Plans : a[d].status = "completed"
      /\ Writers(a) = {p} /\ ~a[p].paused

\* Whatever went before, b is as legal as a.
Carries(a, b, dp) == \A z : Legal(z, a, dp) => Legal(z, b, dp)

\* Nobody takes the lease.
Shrinks(a, b) ==
  \A q \in Plans : /\ b[q].paused = a[q].paused
                   /\ a[q].status = "completed" => b[q].status = "completed"
                   /\ b[q].status \in Writing => a[q].status \in Writing

\* Table b is a with the status `to` for p, or p completed with its Feature.
Updated(a, b, p, to) ==
  /\ b \in PlanTable
  /\ \A q \in Plans : /\ b[q].paused = a[q].paused
                      /\ q # p => b[q].status = a[q].status
                      /\ q = p => b[q].status \in {to, "completed"}
                      /\ q = p /\ feature[p] # "completed" => b[q].status = to

LEMMA StatusUpdatedCell ==
  ASSUME NEW pl \in PlanTable, NEW p, NEW to \in PlanStatuses \ {"none"}, NEW why \in Reasons
  PROVE  Updated(pl, StatusUpdated(pl, p, to, why), p, to)
<1>1. ASSUME NEW a \in PlanTable, NEW s \in PlanStatuses \ {"none"}, NEW r \in Reasons
      PROVE  /\ WithStatus(a, p, s, r) \in PlanTable
             /\ \A q \in Plans : /\ WithStatus(a, p, s, r)[q].paused = a[q].paused
                                 /\ WithStatus(a, p, s, r)[q].status = IF q = p THEN s ELSE a[q].status
  <2> DEFINE reason == CASE s = "blocked" -> r [] s = "queued" -> "none" [] OTHER -> a[p].reason
  <2>1. WithStatus(a, p, s, r) =
          [q \in Plans |-> IF q = p THEN [[a[p] EXCEPT !.status = s] EXCEPT !.reason = reason] ELSE a[q]]
    BY DEF WithStatus, PlanTable
  <2> HIDE DEF reason
  <2>2. \A q \in Plans : WithStatus(a, p, s, r)[q].paused = a[q].paused
    BY <2>1 DEF PlanTable, PlanRow
  <2> QED BY <2>2, WithStatusRow
<1>2. ASSUME NEW a \in PlanTable
      PROVE  /\ Reconciled(a, p) \in PlanTable
             /\ \A q \in Plans : /\ Reconciled(a, p)[q].paused = a[q].paused
                                 /\ q # p => Reconciled(a, p)[q].status = a[q].status
                                 /\ Reconciled(a, p)[q].status \in {a[q].status, "completed"}
                                 /\ feature[p] # "completed" => Reconciled(a, p)[q].status = a[q].status
  <2>1. "completed" \in PlanStatuses \ {"none"} /\ "none" \in Reasons
    BY DEF PlanStatuses, Reasons
  <2>2. Reconciled(a, p) = a \/ Reconciled(a, p) = WithStatus(a, p, "completed", "none")
    BY DEF Reconciled
  <2>3. \A q \in Plans : Reconciled(a, p)[q].paused = a[q].paused
    BY <1>1, <2>1, <2>2
  <2> QED BY <2>3, ReconciledRow
<1>3. CASE pl[p].status = to
  <2>1. StatusUpdated(pl, p, to, why) = Reconciled(pl, p)
    BY <1>3 DEF StatusUpdated
  <2> QED BY <1>2, <1>3, <2>1 DEF Updated
<1>4. CASE pl[p].status # to
  <2> DEFINE b == WithStatus(pl, p, to, why)
  <2>1. StatusUpdated(pl, p, to, why) = Reconciled(b, p)
    BY <1>4 DEF StatusUpdated
  <2>2. b \in PlanTable /\ \A q \in Plans : /\ b[q].paused = pl[q].paused
                                          /\ b[q].status = IF q = p THEN to ELSE pl[q].status
    BY <1>1
  <2> HIDE DEF b
  <2> QED BY <1>2, <2>1, <2>2 DEF Updated
<1> QED BY <1>3, <1>4

LEMMA ShrinkingCarries ==
  ASSUME NEW a, NEW b, NEW dp, Shrinks(a, b)
  PROVE  Carries(a, b, dp)
<1> SUFFICES ASSUME NEW z, Legal(z, a, dp), NEW p \in Plans,
                    z[p].status \in {"queued", "blocked"}, b[p].status \in Writing
             PROVE  /\ \A d \in dp[p] \cap Plans : b[d].status = "completed"
                    /\ Writers(b) = {p} /\ ~b[p].paused
  BY DEF Carries, Legal
<1>1. a[p].status \in Writing
  BY DEF Shrinks
<1>2. (\A d \in dp[p] \cap Plans : a[d].status = "completed") /\ Writers(a) = {p} /\ ~a[p].paused
  BY <1>1 DEF Legal
<1>3. Writers(b) = {p}
  BY <1>2 DEF Writers, Shrinks
<1> QED BY <1>2, <1>3 DEF Shrinks

\* updateFeaturePlanQueueStatus to a status without the lease, or of a plan that has it.
LEMMA StatusShrinks ==
  ASSUME NEW a \in PlanTable, NEW p, NEW to \in PlanStatuses \ {"none"}, NEW why \in Reasons,
         p \in Plans => a[p].status # "completed",
         to \in Writing /\ p \in Plans => a[p].status \in Writing
  PROVE  Shrinks(a, StatusUpdated(a, p, to, why))
<1> DEFINE b == StatusUpdated(a, p, to, why)
<1>1. Updated(a, b, p, to)
  BY StatusUpdatedCell
<1> HIDE DEF b
<1>2. "completed" \notin Writing
  BY DEF Writing
<1> QED BY <1>1, <1>2 DEF Shrinks, Updated, b

LEMMA AdmissionCarries ==
  ASSUME NEW a \in PlanTable, NEW p, NEW dp, Eligible(a, dp, p)
  PROVE  Carries(a, StatusUpdated(a, p, "admitted", "none"), dp)
<1> DEFINE b == StatusUpdated(a, p, "admitted", "none")
<1>1. "admitted" \in PlanStatuses \ {"none"} /\ "none" \in Reasons
  BY DEF PlanStatuses, Reasons
<1>2. \A q \in Plans : /\ b[q].paused = a[q].paused
                       /\ q # p => b[q].status = a[q].status
                       /\ q = p => b[q].status \in {"admitted", "completed"}
  BY <1>1, StatusUpdatedCell DEF Updated
<1> HIDE DEF b
<1>3. /\ a[p].status = "queued" /\ ~a[p].paused /\ Writers(a) \subseteq {p}
      /\ \A d \in dp[p] : a[d].status = "completed"
  BY DEF Eligible
<1>4. Writers(b) \subseteq {p}
  BY <1>2, <1>3 DEF Writers
<1> SUFFICES ASSUME NEW q \in Plans, b[q].status \in Writing
             PROVE  /\ \A d \in dp[q] \cap Plans : b[d].status = "completed"
                    /\ Writers(b) = {q} /\ ~b[q].paused
  BY DEF Carries, Legal, b
<1>5. q = p /\ Writers(b) = {p}
  BY <1>4 DEF Writers
<1>6. \A d \in dp[p] \cap Plans : b[d].status = "completed"
  BY <1>2, <1>3
<1> QED BY <1>2, <1>3, <1>5, <1>6

LEMMA RevalidatedCarries ==
  ASSUME NEW pl \in PlanTable, NEW dp, NEW p
  PROVE  Carries(pl, Revalidated(pl, dp, p), dp)
<1> DEFINE failing == \E d \in dp[p] : pl[d].status \in {"cancelled", "blocked"}
           requeued == IF pl[p].status = "blocked" /\ pl[p].reason = "predecessor"
                       THEN StatusUpdated(pl, p, "queued", "none") ELSE pl
           result == Revalidated(pl, dp, p)
<1>1. Carries(pl, pl, dp)
  BY DEF Carries
<1>2. {"queued", "blocked"} \subseteq PlanStatuses \ {"none"} /\ {"none", "predecessor"} \subseteq Reasons
  BY DEF PlanStatuses, Reasons
<1>3. {"queued", "blocked"} \cap Writing = {}
  BY DEF Writing
<1>4. requeued \in PlanTable /\ Carries(pl, requeued, dp)
  <2>1. CASE pl[p].status = "blocked" /\ pl[p].reason = "predecessor"
    BY <1>2, <1>3, <2>1, StatusUpdatedCell, StatusShrinks, ShrinkingCarries DEF Updated
  <2>2. CASE ~(pl[p].status = "blocked" /\ pl[p].reason = "predecessor")
    BY <1>1, <2>2
  <2> QED BY <2>1, <2>2
<1>5. CASE failing /\ pl[p].status \in {"queued", "admitted"}
  <2>1. result = StatusUpdated(pl, p, "blocked", "predecessor")
    BY <1>5 DEF Revalidated
  <2> QED BY <1>2, <1>3, <1>5, <2>1, StatusShrinks, ShrinkingCarries
<1>6. CASE failing /\ pl[p].status \notin {"queued", "admitted"}
  <2>1. result = pl
    BY <1>6 DEF Revalidated
  <2> QED BY <1>1, <2>1
<1>7. CASE ~failing /\ Eligible(requeued, dp, p)
  <2>1. result = StatusUpdated(requeued, p, "admitted", "none")
    BY <1>7 DEF Revalidated
  <2> HIDE DEF requeued
  <2>2. Carries(requeued, result, dp)
    BY <1>4, <1>7, <2>1, AdmissionCarries
  <2> QED BY <1>4, <2>2 DEF Carries
<1>8. CASE ~failing /\ ~Eligible(requeued, dp, p)
  <2>1. result = requeued
    BY <1>8 DEF Revalidated
  <2> QED BY <1>4, <2>1
<1> QED BY <1>5, <1>6, <1>7, <1>8

\* Plans whose Feature is completed are completed.
LEMMA ReconcilingShrinks ==
  ASSUME NEW pl \in PlanTable, NEW ps \in SUBSET Plans
  PROVE  Shrinks(pl, ReconciledAll(pl, ps))
<1>1. ASSUME NEW p \in Plans
      PROVE  /\ Reconciled(pl, p)[p].paused = pl[p].paused
             /\ Reconciled(pl, p)[p].status \in {pl[p].status, "completed"}
  <2>1. Reconciled(pl, p) = pl \/ Reconciled(pl, p) = WithStatus(pl, p, "completed", "none")
    BY DEF Reconciled
  <2>2. WithStatus(pl, p, "completed", "none")[p].paused = pl[p].paused
    BY DEF WithStatus, PlanTable, PlanRow
  <2> QED BY <2>1, <2>2, ReconciledRow
<1>2. "completed" \notin Writing
  BY DEF Writing
<1> QED BY <1>1, <1>2 DEF Shrinks, ReconciledAll

-----------------------------------------------------------------------------
(* Revalidation of the queue                                               *)

LEMMA PlansAreCounted ==
  ASSUME NEW S \in SUBSET Plans
  PROVE  IsFiniteSet(S) /\ Cardinality(S) \in Nat /\ Cardinality(S) <= Cardinality(Plans)
<1>1. IsFiniteSet(Plans)
  BY QueueBounds
<1> QED BY <1>1, FS_Subset, FS_CardinalityType

\* A pass over the queue, however many turns it has.
LEMMA Revalidation ==
  ASSUME NEW pl \in PlanTable, NEW dp
  PROVE  /\ RevalidatedQueue(pl, dp) \in PlanTable /\ Advances(pl, RevalidatedQueue(pl, dp))
         /\ Carries(pl, RevalidatedQueue(pl, dp), dp)
<1> DEFINE live == ReconciledAll(pl, Created(pl))
           n0 == Cardinality(PlanQueue(live))
           T == {t \in PlanTable : Advances(live, t) /\ Carries(live, t, dp)}
           turn(t, n) == Revalidated(t, dp, NthOfQueue(live, n))
           Pass(f) == f = [n \in Nat |-> IF n = 0 THEN live ELSE turn(f[n - 1], n)]
           after == CHOOSE f : Pass(f)
           F == [x \in Nat \X T |-> turn(x[2], x[1])]
<1>1. RevalidatedQueue(pl, dp) = after[n0]
  BY DEF RevalidatedQueue
<1>2. live \in PlanTable /\ Advances(pl, live) /\ Carries(pl, live, dp)
  <2>1. Created(pl) \in SUBSET Plans /\ \A p \in Created(pl) : pl[p].status # "none"
    BY DEF Created
  <2> QED BY <2>1, ReconciledTable, ReconcilingShrinks, ShrinkingCarries
<1>3. n0 \in Nat
  <2>1. PlanQueue(live) \in SUBSET Plans
    BY DEF PlanQueue, Created
  <2> QED BY <2>1, PlansAreCounted
<1> HIDE DEF live
<1>4. live \in T
  BY <1>2 DEF Advances, Carries
<1>5. ASSUME NEW t \in T, NEW n PROVE turn(t, n) \in T
  <2>1. t \in PlanTable /\ Advances(live, t) /\ Carries(live, t, dp)
    OBVIOUS
  <2>2. turn(t, n) \in PlanTable /\ Advances(t, turn(t, n)) /\ Carries(t, turn(t, n), dp)
    BY <2>1, RevalidatedRow, RevalidatedCarries
  <2> HIDE DEF turn
  <2>3. Advances(live, turn(t, n)) /\ Carries(live, turn(t, n), dp)
    BY <2>1, <2>2, AdvancesTransitively DEF Carries
  <2> QED BY <2>2, <2>3
<1> HIDE DEF T, n0, turn
<1>6. F \in [Nat \X T -> T]
  BY <1>5
<1>7. \A n \in Nat, t \in T : F[<<n, t>>] = turn(t, n)
  OBVIOUS
<1> HIDE DEF F
<1>8. PICK f : Recursive(f, live, F, T)
  BY <1>4, <1>6, Recursion
<1>9. Pass(f)
  <2>1. ASSUME NEW n \in Nat PROVE f[n] = IF n = 0 THEN live ELSE turn(f[n - 1], n)
    <3>1. CASE n = 0
      BY <1>8, <3>1 DEF Recursive
    <3>2. CASE n # 0
      <4>1. n \in Nat \ {0} /\ n - 1 \in Nat
        BY <3>2
      <4>2. f[n - 1] \in T /\ f[n] = F[<<n, f[n - 1]>>]
        BY <1>8, <4>1 DEF Recursive
      <4> QED BY <1>7, <3>2, <4>2
    <3> QED BY <3>1, <3>2
  <2> QED BY <2>1, <1>8 DEF Recursive
<1>10. Pass(after)
  BY <1>9
<1> HIDE DEF after
<1>11. \A n \in Nat : after[n] \in T
  <2> DEFINE S == {n \in Nat : after[n] \in T}
  <2>1. after[0] = live /\ \A n \in Nat \ {0} : after[n] = turn(after[n - 1], n)
    BY <1>10
  <2>2. 0 \in S
    BY <1>4, <2>1
  <2>3. ASSUME NEW n \in S PROVE n + 1 \in S
    <3>1. n + 1 \in Nat \ {0} /\ (n + 1) - 1 = n /\ after[n] \in T
      OBVIOUS
    <3>2. after[n + 1] = turn(after[n], n + 1)
      BY <2>1, <3>1
    <3> QED BY <1>5, <3>1, <3>2
  <2> HIDE DEF S
  <2>4. S \in SUBSET Nat
    BY DEF S
  <2>5. \A n \in Nat : n \in S
    BY <2>2, <2>3, <2>4, Induction
  <2> QED BY <2>5 DEF S
<1>12. after[n0] \in PlanTable /\ Advances(live, after[n0]) /\ Carries(live, after[n0], dp)
  BY <1>3, <1>11 DEF T
<1>13. Advances(pl, after[n0]) /\ Carries(pl, after[n0], dp)
  BY <1>2, <1>12, AdvancesTransitively DEF Carries
<1> QED BY <1>1, <1>12, <1>13

-----------------------------------------------------------------------------
(* What a plan depends on                                                  *)

DepTable == [Plans -> SUBSET Plans]
Closed(C, dp) == \A q \in C : dp[q] \subseteq C

LEMMA Closure ==
  ASSUME NEW dp \in DepTable, NEW d \in Plans
  PROVE  /\ d \in Reaches(dp, d) /\ Reaches(dp, d) \in SUBSET Plans /\ Closed(Reaches(dp, d), dp)
         /\ \A C : d \in C /\ Closed(C, dp) => Reaches(dp, d) \subseteq C
<1> DEFINE T == SUBSET Plans
           n0 == Cardinality(Plans)
           next(w) == w \cup UNION {dp[q] : q \in w}
           Step(f) == f = [n \in Nat |-> IF n = 0 THEN {d} ELSE next(f[n - 1])]
           within == CHOOSE f : Step(f)
           F == [x \in Nat \X T |-> next(x[2])]
           first == {d}
<1>1. Reaches(dp, d) = within[n0]
  BY DEF Reaches
<1>2. first \in T
  OBVIOUS
<1>3. ASSUME NEW w \in T PROVE next(w) \in T
  BY DEF DepTable
<1>4. ASSUME NEW w \in T PROVE w \subseteq next(w) /\ (Closed(w, dp) <=> next(w) = w)
  BY DEF Closed
<1>5. ASSUME NEW w \in T, NEW C, w \subseteq C, Closed(C, dp) PROVE next(w) \subseteq C
  BY <1>5 DEF Closed
<1> HIDE DEF next
<1>6. F \in [Nat \X T -> T] /\ \A n \in Nat, w \in T : F[<<n, w>>] = next(w)
  BY <1>3
<1> HIDE DEF F
<1>7. PICK f : Recursive(f, first, F, T)
  BY <1>2, <1>6, Recursion
<1>8. Step(f)
  <2>1. ASSUME NEW n \in Nat PROVE f[n] = IF n = 0 THEN {d} ELSE next(f[n - 1])
    <3>1. CASE n = 0
      BY <1>7, <3>1 DEF Recursive
    <3>2. CASE n # 0
      <4>1. n \in Nat \ {0} /\ n - 1 \in Nat
        BY <3>2
      <4>2. f[n - 1] \in T /\ f[n] = F[<<n, f[n - 1]>>]
        BY <1>7, <4>1 DEF Recursive
      <4> QED BY <1>6, <3>2, <4>1, <4>2
    <3> QED BY <3>1, <3>2
  <2> QED BY <2>1, <1>7 DEF Recursive
<1>9. Step(within)
  BY <1>8
<1> HIDE DEF within
<1>10. within[0] = {d} /\ \A n \in Nat : within[n + 1] = next(within[n])
  <2>1. within[0] = {d} /\ \A n \in Nat \ {0} : within[n] = next(within[n - 1])
    BY <1>9
  <2>2. ASSUME NEW n \in Nat PROVE n + 1 \in Nat \ {0} /\ (n + 1) - 1 = n
    OBVIOUS
  <2> QED BY <2>1, <2>2
<1> DEFINE Big(w, n) == Closed(w, dp) \/ Cardinality(w) > n
           S == {n \in Nat : within[n] \in T /\ d \in within[n] /\ Big(within[n], n)}
<1>11. 0 \in S
  <2>1. Cardinality({d}) = 1
    BY FS_Singleton
  <2> QED BY <2>1, <1>10
<1>12. ASSUME NEW n \in S PROVE n + 1 \in S
  <2> DEFINE w == within[n]
             v == next(w)
  <2>1. n \in Nat /\ w \in T /\ d \in w /\ Big(w, n) /\ within[n + 1] = v
    BY <1>10
  <2> HIDE DEF w
  <2>2. v \in T /\ w \subseteq v /\ (Closed(w, dp) <=> v = w)
    BY <2>1, <1>3, <1>4
  <2> HIDE DEF v, T
  <2>3. CASE Closed(w, dp)
    BY <2>1, <2>2, <2>3
  <2>4. CASE ~Closed(w, dp)
    <3>1. /\ IsFiniteSet(v) /\ Cardinality(v) \in Nat /\ Cardinality(w) \in Nat
          /\ Cardinality(w) <= Cardinality(v) /\ (Cardinality(w) = Cardinality(v) => w = v)
      BY <2>1, <2>2, PlansAreCounted, FS_Subset, FS_CardinalityType DEF T
    <3>2. Cardinality(v) > n + 1
      BY <2>1, <2>2, <2>4, <3>1
    <3> QED BY <2>1, <2>2, <3>2
  <2> QED BY <2>3, <2>4
<1>13. \A n \in Nat : n \in S
  <2> HIDE DEF S
  <2>1. S \in SUBSET Nat
    BY DEF S
  <2> QED BY <1>11, <1>12, <2>1, Induction
<1>14. n0 \in Nat /\ \A w \in T : Cardinality(w) \in Nat /\ Cardinality(w) <= n0
  BY PlansAreCounted
<1>15. within[n0] \in T /\ d \in within[n0] /\ Closed(within[n0], dp)
  <2> HIDE DEF n0
  <2>1. within[n0] \in T /\ d \in within[n0] /\ Big(within[n0], n0)
    BY <1>13, <1>14
  <2> QED BY <2>1, <1>14
<1>16. ASSUME NEW C, d \in C, Closed(C, dp) PROVE within[n0] \subseteq C
  <2> DEFINE U == {n \in Nat : within[n] \subseteq C}
  <2>1. 0 \in U
    BY <1>10, <1>16
  <2>2. ASSUME NEW n \in U PROVE n + 1 \in U
    <3>1. within[n] \in T /\ within[n] \subseteq C /\ n \in Nat
      BY <1>13
    <3>2. next(within[n]) \subseteq C
      BY <3>1, <1>5, <1>16
    <3> QED BY <3>1, <3>2, <1>10
  <2> HIDE DEF U
  <2>3. U \in SUBSET Nat
    BY DEF U
  <2>4. \A n \in Nat : n \in U
    BY <2>1, <2>2, <2>3, Induction
  <2> QED BY <2>4, <1>14 DEF U
<1> QED BY <1>1, <1>15, <1>16

\* What is reached does not grow when a closed set stays closed.
LEMMA ReachesLess ==
  ASSUME NEW dp \in DepTable, NEW d \in Plans, NEW C, d \in C, Closed(C, dp)
  PROVE  Reaches(dp, d) \subseteq C
BY Closure

Acyclic(dp) == \A p \in Plans : \A d \in dp[p] : p \notin Reaches(dp, d)

\* A dependency that checkDependencyCycle lets through.
LEMMA AddedDependency ==
  ASSUME NEW dp \in DepTable, Acyclic(dp), NEW p \in Plans, NEW d \in Plans, p # d,
         ~ClosesCycle(dp, p, d)
  PROVE  [dp EXCEPT ![p] = @ \cup {d}] \in DepTable /\ Acyclic([dp EXCEPT ![p] = @ \cup {d}])
<1> DEFINE more == [dp EXCEPT ![p] = @ \cup {d}]
<1>1. more \in DepTable /\ \A q \in Plans : more[q] = IF q = p THEN dp[p] \cup {d} ELSE dp[q]
  BY DEF DepTable
<1> HIDE DEF more
<1>2. p \notin Reaches(dp, d)
  BY DEF ClosesCycle
<1>3. d \in Reaches(dp, d) /\ Reaches(dp, d) \in SUBSET Plans /\ Closed(Reaches(dp, d), dp)
  BY Closure
<1>4. Closed(Reaches(dp, d), more)
  BY <1>1, <1>2, <1>3 DEF Closed
<1>5. ASSUME NEW q \in Plans, NEW e \in more[q] PROVE q \notin Reaches(more, e)
  <2>1. e \in Plans
    BY <1>1 DEF DepTable
  <2>2. CASE q = p /\ e = d
    BY <1>1, <1>2, <1>3, <1>4, <2>1, <2>2, ReachesLess
  <2>3. CASE ~(q = p /\ e = d)
    <3>1. e \in dp[q] /\ q \notin Reaches(dp, e)
      BY <1>1, <2>3 DEF Acyclic
    <3>2. e \in Reaches(dp, e) /\ Reaches(dp, e) \in SUBSET Plans /\ Closed(Reaches(dp, e), dp)
      BY <2>1, Closure
    <3>3. CASE p \notin Reaches(dp, e)
      <4>1. Closed(Reaches(dp, e), more)
        BY <1>1, <3>2, <3>3 DEF Closed
      <4> QED BY <1>1, <2>1, <3>1, <3>2, <4>1, ReachesLess
    <3>4. CASE p \in Reaches(dp, e)
      <4> DEFINE C == Reaches(dp, e) \cup Reaches(dp, d)
      <4>1. Closed(C, more)
        BY <1>1, <1>3, <1>4, <3>2 DEF Closed
      <4>2. e \in C
        BY <3>2
      <4>3. Reaches(more, e) \subseteq C
        <5> HIDE DEF C
        <5> QED BY <1>1, <2>1, <4>1, <4>2, ReachesLess
      <4>4. q \in Reaches(dp, d) => e \in Reaches(dp, d)
        BY <1>3, <3>1 DEF Closed
      <4>5. e \in Reaches(dp, d) => Reaches(dp, e) \subseteq Reaches(dp, d)
        BY <1>3, <2>1, ReachesLess
      <4> QED BY <1>2, <3>1, <3>4, <4>3, <4>4, <4>5
    <3> QED BY <3>3, <3>4
  <2> QED BY <2>2, <2>3
<1>6. Acyclic(more)
  BY <1>5 DEF Acyclic
<1> QED BY <1>1, <1>6 DEF more

LEMMA RemovedDependency ==
  ASSUME NEW dp \in DepTable, Acyclic(dp), NEW p \in Plans, NEW d
  PROVE  [dp EXCEPT ![p] = @ \ {d}] \in DepTable /\ Acyclic([dp EXCEPT ![p] = @ \ {d}])
<1> DEFINE less == [dp EXCEPT ![p] = @ \ {d}]
<1>1. less \in DepTable /\ \A q \in Plans : less[q] \subseteq dp[q]
  BY DEF DepTable
<1> HIDE DEF less
<1>2. ASSUME NEW q \in Plans, NEW e \in less[q] PROVE q \notin Reaches(less, e)
  <2>1. e \in Plans /\ q \notin Reaches(dp, e)
    BY <1>1 DEF DepTable, Acyclic
  <2>2. e \in Reaches(dp, e) /\ Reaches(dp, e) \in SUBSET Plans /\ Closed(Reaches(dp, e), dp)
    BY <2>1, Closure
  <2>3. Closed(Reaches(dp, e), less)
    BY <1>1, <2>2 DEF Closed
  <2> QED BY <1>1, <2>1, <2>2, <2>3, ReachesLess
<1>3. Acyclic(less)
  BY <1>2 DEF Acyclic
<1> QED BY <1>1, <1>3 DEF less

\* A new plan: nothing depends on it yet.
LEMMA NewDependencies ==
  ASSUME NEW dp \in DepTable, Acyclic(dp), NEW p \in Plans, NEW ps \in SUBSET Plans, p \notin ps,
         \A q \in Plans : p \notin dp[q]
  PROVE  [dp EXCEPT ![p] = ps] \in DepTable /\ Acyclic([dp EXCEPT ![p] = ps])
<1> DEFINE new == [dp EXCEPT ![p] = ps]
<1>1. new \in DepTable /\ \A q \in Plans : new[q] = IF q = p THEN ps ELSE dp[q]
  BY DEF DepTable
<1> HIDE DEF new
<1>2. ASSUME NEW q \in Plans, NEW e \in new[q] PROVE q \notin Reaches(new, e)
  <2>1. e \in Plans /\ e # p
    BY <1>1 DEF DepTable
  <2>2. CASE q = p
    <3> DEFINE C == Plans \ {p}
    <3>1. e \in C /\ Closed(C, new)
      BY <1>1, <2>1 DEF Closed, DepTable
    <3>2. Reaches(new, e) \subseteq C
      <4> HIDE DEF C
      <4> QED BY <1>1, <2>1, <3>1, ReachesLess
    <3> QED BY <2>2, <3>2
  <2>3. CASE q # p
    <3> DEFINE C == Reaches(dp, e) \ {p}
    <3>1. e \in Reaches(dp, e) /\ Reaches(dp, e) \in SUBSET Plans /\ Closed(Reaches(dp, e), dp)
      BY <2>1, Closure
    <3>2. e \in C /\ Closed(C, new)
      BY <1>1, <2>1, <3>1 DEF Closed
    <3>3. q \notin C
      BY <1>1, <2>3 DEF Acyclic
    <3>4. Reaches(new, e) \subseteq C
      <4> HIDE DEF C
      <4> QED BY <1>1, <2>1, <3>2, ReachesLess
    <3> QED BY <3>3, <3>4
  <2> QED BY <2>2, <2>3
<1>3. Acyclic(new)
  BY <1>2 DEF Acyclic
<1> QED BY <1>1, <1>3 DEF new

-----------------------------------------------------------------------------
(* The queue                                                               *)

IsOpen(pl, p) == pl[p].status \notin Final \cup {"none"}

QueueInv ==
  /\ plan \in PlanTable
  /\ deps \in DepTable
  /\ members \in [Plans -> SUBSET Tasks]
  /\ TaskInOneOpenPlan
  /\ Acyclic(deps)
  /\ \A p \in Plans : deps[p] \subseteq Created(plan)

\* No plan is opened and none disappears.
Settles(a, b) ==
  \A p \in Plans : /\ IsOpen(b, p) => IsOpen(a, p)
                   /\ b[p].status = "none" => a[p].status = "none"

\* What was over stays what it was.
FinalStays(a, b) == \A p \in Plans : a[p].status \in Final => b[p].status = a[p].status

LEMMA AdvancingSettles ==
  ASSUME NEW a, NEW b, Advances(a, b)
  PROVE  Settles(a, b) /\ FinalStays(a, b)
<1>1. ASSUME NEW p \in Plans PROVE IsOpen(b, p) => IsOpen(a, p)
  BY DEF Advances, IsOpen
<1> QED BY <1>1 DEF Advances, Settles, FinalStays

LEMMA BothOpen ==
  ASSUME NEW pl, NEW p, NEW q
  PROVE  {pl[p].status, pl[q].status} \cap (Final \cup {"none"}) = {} <=> IsOpen(pl, p) /\ IsOpen(pl, q)
BY DEF IsOpen

\* The plans move on and nothing else of the queue does.
LEMMA PlansMoveOn ==
  ASSUME QueueInv, plan' \in PlanTable, Settles(plan, plan'), UNCHANGED <<deps, members>>
  PROVE  QueueInv'
<1>1. TaskInOneOpenPlan'
  BY BothOpen DEF QueueInv, Settles, TaskInOneOpenPlan
<1>2. Created(plan) \subseteq Created(plan')
  BY DEF Created, Settles
<1> QED BY <1>1, <1>2 DEF QueueInv

\* One row is rewritten and keeps its status.
LEMMA RowRewritten ==
  ASSUME NEW pl \in PlanTable, NEW p \in Plans, NEW row \in PlanRow, row.status = pl[p].status
  PROVE  /\ [pl EXCEPT ![p] = row] \in PlanTable
         /\ Settles(pl, [pl EXCEPT ![p] = row]) /\ FinalStays(pl, [pl EXCEPT ![p] = row])
<1> DEFINE b == [pl EXCEPT ![p] = row]
<1>1. b \in PlanTable /\ \A q \in Plans : b[q].status = pl[q].status
  BY DEF PlanTable
<1> HIDE DEF b
<1>2. Settles(pl, b) /\ FinalStays(pl, b)
  BY <1>1 DEF Settles, FinalStays, IsOpen
<1> QED BY <1>1, <1>2 DEF b

\* A plan is over.
LEMMA RowSettled ==
  ASSUME NEW pl \in PlanTable, NEW p \in Plans, NEW s \in Final, pl[p].status \notin Final \/ pl[p].status = s
  PROVE  /\ [pl EXCEPT ![p].status = s] \in PlanTable
         /\ Settles(pl, [pl EXCEPT ![p].status = s]) /\ FinalStays(pl, [pl EXCEPT ![p].status = s])
         /\ [pl EXCEPT ![p].status = s][p].status = s
<1> DEFINE b == [pl EXCEPT ![p].status = s]
<1>1. [pl[p] EXCEPT !.status = s] \in PlanRow /\ [pl[p] EXCEPT !.status = s].status = s
  BY DEF PlanTable, PlanRow, PlanStatuses, Final
<1>2. b = [pl EXCEPT ![p] = [pl[p] EXCEPT !.status = s]]
  OBVIOUS
<1>3. b \in PlanTable /\ \A q \in Plans : b[q].status = IF q = p THEN s ELSE pl[q].status
  BY <1>1, <1>2 DEF PlanTable
<1> HIDE DEF b
<1>4. s \notin {"none"}
  BY DEF Final
<1>5. Settles(pl, b)
  BY <1>3, <1>4 DEF Settles, IsOpen
<1>6. FinalStays(pl, b)
  BY <1>3 DEF FinalStays
<1> QED BY <1>3, <1>5, <1>6 DEF b

LEMMA SettlesTransitively ==
  ASSUME NEW a, NEW b, NEW c, Settles(a, b), FinalStays(a, b), Advances(b, c)
  PROVE  Settles(a, c) /\ FinalStays(a, c)
BY AdvancingSettles DEF Settles, FinalStays

LEMMA PlanRevisedRow ==
  ASSUME NEW r \in PlanRow
  PROVE  /\ r.revision < MaxRevision => [r EXCEPT !.revision = @ + 1] \in PlanRow
         /\ [r EXCEPT !.revision = @ + 1].status = r.status
         /\ [r EXCEPT !.paused = ~@] \in PlanRow /\ [r EXCEPT !.paused = ~@].status = r.status
         /\ \A n \in 0..MaxPriority : /\ [r EXCEPT !.priority = n] \in PlanRow
                                      /\ [r EXCEPT !.priority = n].status = r.status
<1>1. r.revision < MaxRevision => r.revision + 1 \in 1..MaxRevision
  BY QueueBounds DEF PlanRow
<1>2. (~r.paused) \in BOOLEAN
  BY DEF PlanRow
<1>3. r.revision < MaxRevision => [r EXCEPT !.revision = r.revision + 1] \in PlanRow
  BY <1>1 DEF PlanRow
<1>4. [r EXCEPT !.paused = ~r.paused] \in PlanRow
  BY <1>2 DEF PlanRow
<1> QED BY <1>3, <1>4 DEF PlanRow

LEMMA TasksStayApart ==
  ASSUME QueueInv, NEW p \in Plans, NEW scope \in SUBSET Tasks, Available(plan, members, p, scope),
         members' = [members EXCEPT ![p] = scope],
         \A q \in Plans : q # p => plan'[q].status = plan[q].status
  PROVE  members' \in [Plans -> SUBSET Tasks] /\ TaskInOneOpenPlan'
<1>1. members' \in [Plans -> SUBSET Tasks]
  BY DEF QueueInv
<1>2. \A q \in Plans : members'[q] = IF q = p THEN scope ELSE members[q]
  BY DEF QueueInv
<1>3. \A q \in Plans : q # p /\ IsOpen(plan', q) => IsOpen(plan, q) /\ members[q] \cap scope = {}
  BY DEF Available, IsOpen
<1>4. \A q, r \in Plans : q # r /\ IsOpen(plan, q) /\ IsOpen(plan, r) => members[q] \cap members[r] = {}
  BY BothOpen DEF QueueInv, TaskInOneOpenPlan
<1>5. \A q, r \in Plans : q # r /\ IsOpen(plan', q) /\ IsOpen(plan', r) => members'[q] \cap members'[r] = {}
  BY <1>2, <1>3, <1>4
<1>6. TaskInOneOpenPlan'
  BY <1>5, BothOpen DEF TaskInOneOpenPlan
<1> QED BY <1>1, <1>6

LEMMA PlanCreated ==
  ASSUME QueueInv, NEW p \in Plans, NEW scope \in PlanScopes, NEW ps \in SUBSET Plans,
         CreateFeaturePlan(p, scope, ps)
  PROVE  QueueInv' /\ FinalStays(plan, plan')
<1> USE DEF CreateFeaturePlan
<1>1. NewPlan \in PlanRow /\ NewPlan.status = "queued"
  <2>1. 1 \in 1..MaxRevision /\ 0 \in 0..MaxPriority
    BY QueueBounds
  <2> QED BY <2>1 DEF NewPlan, PlanRow, PlanStatuses, Reasons
<1>2. plan' \in PlanTable /\ \A q \in Plans : plan'[q] = IF q = p THEN NewPlan ELSE plan[q]
  BY <1>1 DEF QueueInv, PlanTable
<1>3. plan[p].status = "none"
  OBVIOUS
<1>4. p \notin Created(plan) /\ ps \subseteq Created(plan)
  BY DEF Created
<1>5. Created(plan) \subseteq Created(plan')
  BY <1>1, <1>2 DEF Created
<1>6. FinalStays(plan, plan')
  BY <1>2, <1>3 DEF FinalStays, Final
<1>7. deps' \in DepTable /\ Acyclic(deps')
  <2>1. deps' = [deps EXCEPT ![p] = ps]
    OBVIOUS
  <2>2. p \notin ps /\ \A q \in Plans : p \notin deps[q]
    BY <1>4 DEF QueueInv
  <2>3. deps \in DepTable /\ Acyclic(deps)
    BY DEF QueueInv
  <2> HIDE DEF CreateFeaturePlan
  <2> QED BY <2>1, <2>2, <2>3, NewDependencies
<1>8. \A q \in Plans : deps'[q] \subseteq Created(plan')
  BY <1>4, <1>5 DEF QueueInv, DepTable
<1>9. members' \in [Plans -> SUBSET Tasks] /\ TaskInOneOpenPlan'
  <2>1. /\ Available(plan, members, p, scope) /\ members' = [members EXCEPT ![p] = scope]
        /\ \A q \in Plans : q # p => plan'[q].status = plan[q].status
    BY <1>2
  <2>2. scope \in SUBSET Tasks
    BY QueueBounds
  <2> HIDE DEF CreateFeaturePlan
  <2> QED BY <2>1, <2>2, TasksStayApart
<1> HIDE DEF CreateFeaturePlan
<1> QED BY <1>2, <1>6, <1>7, <1>8, <1>9 DEF QueueInv

LEMMA PlanReplanned ==
  ASSUME QueueInv, NEW p \in Plans, NEW scope \in PlanScopes, ReplanFeaturePlan(p, scope)
  PROVE  QueueInv' /\ FinalStays(plan, plan')
<1> DEFINE row == [plan[p] EXCEPT !.revision = @ + 1]
<1>1. row \in PlanRow /\ row.status = plan[p].status
  BY PlanRevisedRow DEF ReplanFeaturePlan, QueueInv, PlanTable
<1>2. plan' = [plan EXCEPT ![p] = row]
  BY DEF ReplanFeaturePlan
<1> HIDE DEF row
<1>3. plan \in PlanTable
  BY DEF QueueInv
<1>4. plan' \in PlanTable /\ Settles(plan, plan') /\ FinalStays(plan, plan')
  BY <1>1, <1>2, <1>3, RowRewritten
<1>5. members' \in [Plans -> SUBSET Tasks] /\ TaskInOneOpenPlan'
  <2>1. /\ Available(plan, members, p, scope) /\ members' = [members EXCEPT ![p] = scope]
        /\ \A q \in Plans : q # p => plan'[q].status = plan[q].status
    BY <1>2, <1>3 DEF ReplanFeaturePlan, PlanTable
  <2>2. scope \in SUBSET Tasks
    BY QueueBounds
  <2> QED BY <2>1, <2>2, TasksStayApart
<1>6. UNCHANGED deps
  BY DEF ReplanFeaturePlan
<1>7. Created(plan) \subseteq Created(plan')
  BY <1>4 DEF Created, Settles
<1> QED BY <1>4, <1>5, <1>6, <1>7 DEF QueueInv

\* What keeps the dependencies and the members and rewrites plans.
LEMMA PlanMoved ==
  ASSUME QueueInv, NEW p \in Plans,
         \/ PauseOrResume(p)
         \/ \E n \in 0..MaxPriority : UpdateFeaturePlanPriority(p, n)
         \/ \E to \in PlanStatuses : SetQueueStatus(p, to)
         \/ AdmitFeaturePlan(p) \/ RetryFeaturePlan(p) \/ CancelFeaturePlan(p)
         \/ RevalidateFeaturePlanQueue
  PROVE  QueueInv' /\ FinalStays(plan, plan')
<1>1. plan \in PlanTable
  BY DEF QueueInv
<1>2. UNCHANGED <<deps, members>>
  BY DEF PauseOrResume, UpdateFeaturePlanPriority, SetQueueStatus, AdmitFeaturePlan, RetryFeaturePlan,
         CancelFeaturePlan, RevalidateFeaturePlanQueue
<1>3. ASSUME NEW to \in PlanStatuses, to # "none", NEW why \in Reasons, NEW a \in PlanTable,
             a[p].status \notin Final \cup {"none"}
      PROVE  StatusUpdated(a, p, to, why) \in PlanTable /\ Advances(a, StatusUpdated(a, p, to, why))
  BY <1>3, StatusUpdatedRow
<1>4. plan' \in PlanTable /\ Settles(plan, plan') /\ FinalStays(plan, plan')
  <2>1. CASE PauseOrResume(p)
    <3> DEFINE row == [plan[p] EXCEPT !.paused = ~@]
    <3>1. row \in PlanRow /\ row.status = plan[p].status
      BY <1>1, PlanRevisedRow DEF PlanTable
    <3>2. plan' = [plan EXCEPT ![p] = row]
      BY <2>1 DEF PauseOrResume
    <3> HIDE DEF row
    <3> QED BY <1>1, <3>1, <3>2, RowRewritten
  <2>2. ASSUME NEW n \in 0..MaxPriority, UpdateFeaturePlanPriority(p, n)
        PROVE  plan' \in PlanTable /\ Settles(plan, plan') /\ FinalStays(plan, plan')
    <3> DEFINE row == [plan[p] EXCEPT !.priority = n]
    <3>1. row \in PlanRow /\ row.status = plan[p].status
      BY <1>1, PlanRevisedRow DEF PlanTable
    <3>2. plan' = [plan EXCEPT ![p] = row]
      BY <2>2 DEF UpdateFeaturePlanPriority
    <3> HIDE DEF row
    <3> QED BY <1>1, <3>1, <3>2, RowRewritten
  <2>3. ASSUME NEW to \in PlanStatuses, SetQueueStatus(p, to)
        PROVE  plan' \in PlanTable /\ Settles(plan, plan') /\ FinalStays(plan, plan')
    <3>1. plan' = StatusUpdated(plan, p, to, "other") /\ to \in ValidTransitions[plan[p].status]
      BY <2>3 DEF SetQueueStatus, MayTransit
    <3>2. plan[p].status \in PlanStatuses
      BY <1>1 DEF PlanTable, PlanRow
    <3>3. plan[p].status \notin Final \cup {"none"} /\ to # "none"
      BY <3>1, <3>2 DEF ValidTransitions, PlanStatuses, Final
    <3>4. "other" \in Reasons
      BY DEF Reasons
    <3> QED BY <1>1, <1>3, <3>1, <3>3, <3>4, AdvancingSettles
  <2>4. CASE AdmitFeaturePlan(p)
    <3> DEFINE live == ReconciledAll(plan, Created(plan))
    <3>1. Created(plan) \in SUBSET Plans /\ \A q \in Created(plan) : plan[q].status # "none"
      BY DEF Created
    <3>2. live \in PlanTable /\ Advances(plan, live)
      BY <1>1, <3>1, ReconciledTable
    <3>3. plan' = StatusUpdated(live, p, "admitted", "none") /\ live[p].status = "queued"
      BY <2>4 DEF AdmitFeaturePlan, Eligible
    <3> HIDE DEF live
    <3>4. "admitted" \in PlanStatuses /\ "none" \in Reasons /\ live[p].status \notin Final \cup {"none"}
      BY <3>3 DEF PlanStatuses, Reasons, Final
    <3>5. plan' \in PlanTable /\ Advances(live, plan')
      BY <1>3, <3>2, <3>3, <3>4
    <3> QED BY <3>2, <3>5, AdvancesTransitively, AdvancingSettles
  <2>5. CASE RetryFeaturePlan(p)
    <3> DEFINE a == StatusUpdated(plan, p, "queued", "none")
    <3>1. plan' = RevalidatedQueue(a, deps) /\ plan[p].status = "blocked"
      BY <2>5 DEF RetryFeaturePlan
    <3>2. "queued" \in PlanStatuses /\ "none" \in Reasons /\ plan[p].status \notin Final \cup {"none"}
      BY <3>1 DEF PlanStatuses, Reasons, Final
    <3>3. a \in PlanTable /\ Advances(plan, a)
      BY <1>1, <1>3, <3>2
    <3> HIDE DEF a
    <3>4. plan' \in PlanTable /\ Advances(a, plan')
      BY <3>1, <3>3, Revalidation
    <3> QED BY <3>3, <3>4, AdvancesTransitively, AdvancingSettles
  <2>6. CASE CancelFeaturePlan(p)
    <3> DEFINE a == [plan EXCEPT ![p].status = "cancelled"]
    <3>1. plan' = RevalidatedQueue(a, deps) /\ plan[p].status \notin Final /\ "cancelled" \in Final
      BY <2>6 DEF CancelFeaturePlan, Final
    <3>2. a \in PlanTable /\ Settles(plan, a) /\ FinalStays(plan, a)
      BY <1>1, <3>1, RowSettled
    <3> HIDE DEF a
    <3>3. plan' \in PlanTable /\ Advances(a, plan')
      BY <3>1, <3>2, Revalidation
    <3> QED BY <3>2, <3>3, SettlesTransitively
  <2>7. CASE RevalidateFeaturePlanQueue
    <3>1. plan' = RevalidatedQueue(plan, deps)
      BY <2>7 DEF RevalidateFeaturePlanQueue
    <3> QED BY <1>1, <3>1, Revalidation, AdvancingSettles
  <2> QED BY <2>1, <2>2, <2>3, <2>4, <2>5, <2>6, <2>7
<1> QED BY <1>2, <1>4, PlansMoveOn

LEMMA DependencyChanged ==
  ASSUME QueueInv, NEW p \in Plans, NEW d \in Plans,
         AddFeaturePlanDependency(p, d) \/ RemoveFeaturePlanDependency(p, d)
  PROVE  QueueInv' /\ FinalStays(plan, plan')
<1>1. UNCHANGED <<plan, members>> /\ deps \in DepTable /\ Acyclic(deps)
  BY DEF AddFeaturePlanDependency, RemoveFeaturePlanDependency, QueueInv
<1>2. deps' \in DepTable /\ Acyclic(deps')
  <2>1. CASE AddFeaturePlanDependency(p, d)
    <3>1. p # d /\ ~ClosesCycle(deps, p, d) /\ deps' = [deps EXCEPT ![p] = @ \cup {d}]
      BY <2>1 DEF AddFeaturePlanDependency
    <3> QED BY <1>1, <3>1, AddedDependency
  <2>2. CASE RemoveFeaturePlanDependency(p, d)
    <3>1. deps' = [deps EXCEPT ![p] = @ \ {d}]
      BY <2>2 DEF RemoveFeaturePlanDependency
    <3> QED BY <1>1, <3>1, RemovedDependency
  <2> QED BY <2>1, <2>2
<1>3. \A q \in Plans : deps'[q] \subseteq Created(plan)
  <2>1. CASE AddFeaturePlanDependency(p, d)
    <3>1. deps' = [deps EXCEPT ![p] = @ \cup {d}] /\ d \in Created(plan)
      BY <2>1 DEF AddFeaturePlanDependency
    <3> QED BY <1>1, <3>1 DEF QueueInv, DepTable
  <2>2. CASE RemoveFeaturePlanDependency(p, d)
    <3>1. deps' = [deps EXCEPT ![p] = @ \ {d}]
      BY <2>2 DEF RemoveFeaturePlanDependency
    <3> QED BY <1>1, <3>1 DEF QueueInv, DepTable
  <2> QED BY <2>1, <2>2
<1>4. TaskInOneOpenPlan' /\ Created(plan') = Created(plan)
  BY <1>1 DEF QueueInv, TaskInOneOpenPlan, Created
<1>5. FinalStays(plan, plan')
  BY <1>1 DEF FinalStays
<1> QED BY <1>1, <1>2, <1>3, <1>4, <1>5 DEF QueueInv

LEMMA QueueCommanded ==
  ASSUME QueueInv, NEW p \in Plans, QueueCommand(p)
  PROVE  QueueInv' /\ FinalStays(plan, plan')
BY PlanCreated, PlanReplanned, PlanMoved, DependencyChanged DEF QueueCommand

LEMMA QueueInvariant == QueueSpec => []QueueInv
<1>1. QueueInit => QueueInv
  <2> SUFFICES ASSUME QueueInit PROVE QueueInv
    OBVIOUS
  <2> USE DEF QueueInit
  <2>1. NoPlan \in PlanRow /\ NoPlan.status = "none"
    <3>1. 1 \in 1..MaxRevision /\ 0 \in 0..MaxPriority
      BY QueueBounds
    <3> QED BY <3>1 DEF NoPlan, NewPlan, PlanRow, PlanStatuses, Reasons
  <2>2. plan \in PlanTable
    BY <2>1 DEF PlanTable
  <2>3. deps \in DepTable /\ members \in [Plans -> SUBSET Tasks] /\ \A q \in Plans : deps[q] = {} /\ members[q] = {}
    BY DEF DepTable
  <2>4. Acyclic(deps) /\ TaskInOneOpenPlan
    BY <2>3 DEF Acyclic, TaskInOneOpenPlan
  <2> QED BY <2>2, <2>3, <2>4 DEF QueueInv
<1>2. QueueInv /\ [QueueNext]_<<queueVars, requests>> => QueueInv'
  <2> SUFFICES ASSUME QueueInv, [QueueNext]_<<queueVars, requests>> PROVE QueueInv'
    OBVIOUS
  <2>1. CASE QueueNext
    <3>1. ASSUME NEW p \in Plans, QueueCommand(p) PROVE QueueInv'
      BY <3>1, QueueCommanded
    <3>2. CASE RevalidateFeaturePlanQueue
      <4>1. UNCHANGED <<deps, members>> /\ plan \in PlanTable /\ plan' = RevalidatedQueue(plan, deps)
        BY <3>2 DEF RevalidateFeaturePlanQueue, QueueInv
      <4> QED BY <4>1, Revalidation, AdvancingSettles, PlansMoveOn
    <3> QED BY <2>1, <3>1, <3>2 DEF QueueNext
  <2>2. CASE UNCHANGED <<queueVars, requests>>
    BY <2>2 DEF queueVars, QueueInv, TaskInOneOpenPlan, Created
  <2> QED BY <2>1, <2>2
<1> QED BY <1>1, <1>2, PTL DEF QueueSpec

\* The Tasks of open plans stay apart and no plan comes to wait for itself, however
\* plans are created, replanned, ordered, retried and cancelled
\* (validateFeaturePlanTaskAvailability, checkDependencyCycle).
THEOREM PlansStayInOrderHolds == QueueSpec => []PlansStayInOrder
<1>1. QueueInv => PlansStayInOrder
  BY DEF QueueInv, PlansStayInOrder, PlansStayAcyclic, Acyclic
<1> QED BY <1>1, QueueInvariant, PTL

-----------------------------------------------------------------------------
(* From delivered Tasks to a merged Feature                                *)

PrRow == [state : {"none", "open", "closed", "merged"},
          gate : {"draft", "waiting", "ready", "conflict"}, head : Nat]
Segments == {"idle", "inspect", "review", "recheck", "merge", "confirm", "drafting", "closing"}
WorkRow == [who : {"none", "reconcile", "manual"}, pc : Segments, stale : FeatureStatuses,
            saw : PrRow, head : Nat]

DeliveryTypes ==
  /\ feature \in [Plans -> FeatureStatuses] /\ listed \in [Plans -> FeatureStatuses]
  /\ pr \in [Plans -> PrRow] /\ work \in [Plans -> WorkRow]
  /\ approved \in [Plans -> SUBSET Nat] /\ mergedByUs \in [Plans -> SUBSET Nat]

\* Why a head that is merged was approved, and a Feature that is completed is whole.
MergeIsApproved(p) ==
  /\ mergedByUs[p] \subseteq approved[p]
  /\ work[p].pc \in {"recheck", "merge"} => work[p].head \in approved[p]
CompletionIsSeen(p) ==
  /\ work[p].saw.state = "merged" => pr[p].state = "merged"
  /\ work[p].pc = "closing" => pr[p].state = "merged"
  /\ feature[p] = "completed" =>
       pr[p].state = "merged" /\ plan[p].status = "completed" /\ p \in outbox

DeliveryInv ==
  /\ QueueInv /\ DeliveryTypes
  /\ \A p \in Plans : MergeIsApproved(p) /\ CompletionIsSeen(p)

\* The tables of all Features but that of p are left alone.
OnlyTouches(p) ==
  /\ DeliveryTypes' /\ outbox \subseteq outbox'
  /\ \A q \in Plans \ {p} :
       /\ feature'[q] = feature[q] /\ pr'[q] = pr[q] /\ work'[q] = work[q]
       /\ approved'[q] = approved[q] /\ mergedByUs'[q] = mergedByUs[q]

PlansAdvance == QueueInv' /\ FinalStays(plan, plan')

LEMMA OthersAreKept ==
  ASSUME DeliveryInv, NEW p \in Plans, PlansAdvance, OnlyTouches(p),
         MergeIsApproved(p)', CompletionIsSeen(p)'
  PROVE  DeliveryInv'
<1>1. ASSUME NEW q \in Plans \ {p} PROVE MergeIsApproved(q)' /\ CompletionIsSeen(q)'
  <2>1. MergeIsApproved(q) /\ CompletionIsSeen(q)
    BY DEF DeliveryInv
  <2>2. plan[q].status = "completed" => plan'[q].status = "completed"
    BY DEF PlansAdvance, FinalStays, Final
  <2>3. q \in outbox => q \in outbox'
    BY DEF OnlyTouches
  <2>4. /\ feature'[q] = feature[q] /\ pr'[q] = pr[q] /\ work'[q] = work[q]
        /\ approved'[q] = approved[q] /\ mergedByUs'[q] = mergedByUs[q]
    BY DEF OnlyTouches
  <2> QED BY <2>1, <2>2, <2>3, <2>4 DEF MergeIsApproved, CompletionIsSeen
<1> QED BY <1>1 DEF DeliveryInv, OnlyTouches, PlansAdvance

\* What a segment does to the Feature itself, when it does not complete it.
LEMMA SegmentIsSound ==
  ASSUME DeliveryInv, NEW p \in Plans, PlansAdvance, OnlyTouches(p),
         feature'[p] = "completed" => feature[p] = "completed",
         pr[p].state = "merged" => pr'[p].state = "merged",
         work'[p].saw.state = "merged" \/ work'[p].pc = "closing" => pr'[p].state = "merged",
         approved[p] \subseteq approved'[p],
         mergedByUs'[p] \subseteq approved[p],
         work'[p].pc \in {"recheck", "merge"} => work'[p].head \in approved'[p]
  PROVE  DeliveryInv'
<1>1. MergeIsApproved(p)'
  BY DEF MergeIsApproved
<1>2. CompletionIsSeen(p)'
  <2>1. CompletionIsSeen(p)
    BY DEF DeliveryInv
  <2>2. plan[p].status = "completed" => plan'[p].status = "completed"
    BY DEF PlansAdvance, FinalStays, Final
  <2>3. p \in outbox => p \in outbox'
    BY DEF OnlyTouches
  <2> QED BY <2>1, <2>2, <2>3 DEF CompletionIsSeen
<1> QED BY <1>1, <1>2, OthersAreKept

LEMMA NoWorkRow == NoPr \in PrRow /\ NoWork \in WorkRow
<1>1. NoPr \in PrRow
  BY DEF NoPr, PrRow
<1> QED BY <1>1 DEF NoWork, WorkRow, Segments, FeatureStatuses

LEMMA Ended ==
  ASSUME DeliveryTypes, NEW p \in Plans, NEW status \in FeatureStatuses, Ends(p, status)
  PROVE  /\ feature' \in [Plans -> FeatureStatuses] /\ work' \in [Plans -> WorkRow]
         /\ feature'[p] = status /\ work'[p] = NoWork
         /\ \A q \in Plans \ {p} : feature'[q] = feature[q] /\ work'[q] = work[q]
BY NoWorkRow DEF Ends, DeliveryTypes

LEMMA Awaited ==
  ASSUME DeliveryTypes, NEW p \in Plans, NEW pc \in Segments, Awaits(p, pc)
  PROVE  /\ work' \in [Plans -> WorkRow]
         /\ work'[p].pc = pc /\ work'[p].saw = NoPr /\ work'[p].head = work[p].head
         /\ \A q \in Plans \ {p} : work'[q] = work[q]
<1> DEFINE row(r) == [[r EXCEPT !.pc = pc] EXCEPT !.saw = NoPr]
<1>1. work' = [q \in Plans |-> IF q = p THEN row(work[q]) ELSE work[q]]
  BY DEF Awaits, DeliveryTypes
<1>2. ASSUME NEW r \in WorkRow
      PROVE  row(r) \in WorkRow /\ row(r).pc = pc /\ row(r).saw = NoPr /\ row(r).head = r.head
  <2>1. [r EXCEPT !.pc = pc] \in WorkRow
    BY DEF WorkRow
  <2> QED BY <2>1, NoWorkRow DEF WorkRow
<1> HIDE DEF row
<1> QED BY <1>1, <1>2 DEF DeliveryTypes

LEMMA Threw ==
  ASSUME DeliveryTypes, NEW p \in Plans, Throws(p)
  PROVE  /\ feature' \in [Plans -> FeatureStatuses] /\ work' \in [Plans -> WorkRow]
         /\ feature'[p] \in {feature[p], "failed"} /\ work'[p] = NoWork
         /\ \A q \in Plans \ {p} : feature'[q] = feature[q] /\ work'[q] = work[q]
<1>1. "failed" \in FeatureStatuses /\ feature[p] \in FeatureStatuses
  BY DEF FeatureStatuses, DeliveryTypes
<1> QED BY <1>1, Ended DEF Throws

LEMMA QueueRests ==
  ASSUME QueueInv, UNCHANGED <<plan, deps, members>>
  PROVE  PlansAdvance
<1>1. QueueInv'
  BY DEF QueueInv, TaskInOneOpenPlan, Created
<1> QED BY <1>1 DEF PlansAdvance, FinalStays

LEMMA QueueAdvances ==
  ASSUME QueueInv, plan' \in PlanTable, Advances(plan, plan'), UNCHANGED <<deps, members>>
  PROVE  PlansAdvance
BY AdvancingSettles, PlansMoveOn DEF PlansAdvance

LEMMA NothingSeen == NoPr.state # "merged" /\ NoWork.saw = NoPr /\ NoWork.pc = "idle"
BY DEF NoPr, NoWork

\* A segment that ends, or awaits again, without a merge.
LEMMA SegmentHandled ==
  ASSUME DeliveryInv, NEW p \in Plans, OnlyFeature,
         UNCHANGED approved,
         \/ \E status \in FeatureStatuses :
                Ends(p, status) /\ (status = "completed" => feature[p] = "completed")
         \/ Throws(p)
         \/ UNCHANGED feature /\ \E pc \in Segments \ {"closing", "recheck", "merge"} : Awaits(p, pc)
         \/ pr[p].state = "merged" /\ UNCHANGED feature /\ Awaits(p, "closing")
  PROVE  DeliveryInv'
<1>1. UNCHANGED <<plan, deps, members, pr, listed, outbox, mergedByUs, approved>>
  BY DEF OnlyFeature
<1>2. PlansAdvance
  BY <1>1, QueueRests DEF DeliveryInv
<1>3. MergeIsApproved(p) /\ DeliveryTypes
  BY DEF DeliveryInv
<1>4. CASE \/ \E status \in FeatureStatuses :
                Ends(p, status) /\ (status = "completed" => feature[p] = "completed")
           \/ Throws(p)
  <2>1. /\ feature' \in [Plans -> FeatureStatuses] /\ work' \in [Plans -> WorkRow] /\ work'[p] = NoWork
        /\ feature'[p] = "completed" => feature[p] = "completed"
        /\ \A q \in Plans \ {p} : feature'[q] = feature[q] /\ work'[q] = work[q]
    <3>1. CASE \E status \in FeatureStatuses :
                Ends(p, status) /\ (status = "completed" => feature[p] = "completed")
      <4>1. PICK status \in FeatureStatuses : Ends(p, status) /\ (status = "completed" => feature[p] = "completed")
        BY <3>1
      <4> QED BY <1>3, <4>1, Ended
    <3>2. CASE Throws(p)
      BY <1>3, <3>2, Threw
    <3> QED BY <1>4, <3>1, <3>2
  <2>2. OnlyTouches(p)
    BY <1>1, <1>3, <2>1 DEF OnlyTouches, DeliveryTypes
  <2> QED BY <1>1, <1>2, <1>3, <2>1, <2>2, NothingSeen, SegmentIsSound DEF MergeIsApproved
<1>5. CASE /\ UNCHANGED feature
           /\ \/ \E pc \in Segments \ {"closing", "recheck", "merge"} : Awaits(p, pc)
              \/ pr[p].state = "merged" /\ Awaits(p, "closing")
  <2>1. PICK pc \in Segments \ {"recheck", "merge"} :
          Awaits(p, pc) /\ (pc = "closing" => pr[p].state = "merged")
    BY <1>5 DEF Segments
  <2>2. /\ work' \in [Plans -> WorkRow] /\ work'[p].pc = pc /\ work'[p].saw = NoPr
        /\ \A q \in Plans \ {p} : work'[q] = work[q]
    BY <1>3, <2>1, Awaited
  <2>3. OnlyTouches(p)
    BY <1>1, <1>3, <1>5, <2>2 DEF OnlyTouches, DeliveryTypes
  <2> QED BY <1>1, <1>2, <1>3, <1>5, <2>1, <2>2, <2>3, NothingSeen, SegmentIsSound DEF MergeIsApproved
<1> QED BY <1>4, <1>5

LEMMA CompletionBegins ==
  ASSUME DeliveryInv, NEW p \in Plans, OnlyFeature, UNCHANGED approved, pr[p].state = "merged",
         NEW status, BeginsCompletion(p, status)
  PROVE  DeliveryInv'
<1>1. feature[p] \in FeatureStatuses /\ "merging" \in FeatureStatuses
  BY DEF DeliveryInv, DeliveryTypes, FeatureStatuses
<1>2. CASE Ends(p, feature[p])
  BY <1>1, <1>2, SegmentHandled
<1>3. CASE Awaits(p, "closing") /\ UNCHANGED feature
  BY <1>3, SegmentHandled
<1>4. CASE Ends(p, "merging")
  BY <1>1, <1>4, SegmentHandled
<1> QED BY <1>2, <1>3, <1>4 DEF BeginsCompletion

LEMMA InspectionIsHandled ==
  ASSUME DeliveryInv, NEW p \in Plans, InspectionHandled(p)
  PROVE  DeliveryInv'
<1> DEFINE seen == work[p].saw
           repeats(status) == work[p].who = "reconcile" /\ work[p].stale = status
           becomes(status) == Ends(p, IF repeats(status) THEN feature[p] ELSE status)
<1>1. DeliveryTypes /\ OnlyFeature /\ UNCHANGED approved
  BY DEF DeliveryInv, InspectionHandled
<1>2. seen.state = "merged" => pr[p].state = "merged"
  BY DEF DeliveryInv, CompletionIsSeen
<1>3. feature[p] \in FeatureStatuses
        /\ {"draft", "waiting_checks", "changes_requested", "failed", "reviewing"} \subseteq FeatureStatuses
  BY <1>1 DEF DeliveryTypes, FeatureStatuses
<1>4. ASSUME NEW status \in {"draft", "waiting_checks", "changes_requested"}, becomes(status)
      PROVE  DeliveryInv'
  <2>1. \E s \in FeatureStatuses : Ends(p, s) /\ (s = "completed" => feature[p] = "completed")
    <3>1. CASE repeats(status)
      BY <1>3, <1>4, <3>1
    <3>2. CASE ~repeats(status)
      BY <1>3, <1>4, <3>2
    <3> QED BY <3>1, <3>2
  <2> QED BY <1>1, <2>1, SegmentHandled
<1>5. CASE seen.state = "merged" /\ BeginsCompletion(p, work[p].stale)
  BY <1>1, <1>2, <1>5, CompletionBegins
<1>6. CASE Ends(p, "failed")
  BY <1>1, <1>3, <1>6, SegmentHandled
<1>7. CASE Awaits(p, "drafting") /\ UNCHANGED feature
  BY <1>1, <1>7, SegmentHandled DEF Segments
<1>8. CASE /\ feature' = [feature EXCEPT ![p] = "reviewing"]
           /\ work' = [work EXCEPT ![p].pc = "review", ![p].saw = NoPr, ![p].head = seen.head]
  <2> DEFINE row(r) == [[[r EXCEPT !.pc = "review"] EXCEPT !.saw = NoPr] EXCEPT !.head = seen.head]
  <2>1. work' = [q \in Plans |-> IF q = p THEN row(work[q]) ELSE work[q]]
    BY <1>1, <1>8 DEF DeliveryTypes
  <2>2. seen.head \in Nat
    BY <1>1 DEF DeliveryTypes, WorkRow, PrRow
  <2>3. ASSUME NEW r \in WorkRow PROVE row(r) \in WorkRow /\ row(r).pc = "review" /\ row(r).saw = NoPr
    <3> HIDE DEF seen
    <3>1. [r EXCEPT !.pc = "review"] \in WorkRow
      BY DEF WorkRow, Segments
    <3>2. [[r EXCEPT !.pc = "review"] EXCEPT !.saw = NoPr] \in WorkRow
      BY <3>1, NoWorkRow DEF WorkRow
    <3>3. row(r) \in WorkRow
      BY <3>2, <2>2 DEF WorkRow
    <3> QED BY <3>3 DEF WorkRow
  <2> HIDE DEF row
  <2>4. UNCHANGED <<plan, deps, members, pr, listed, outbox, mergedByUs, approved>>
    BY <1>1 DEF OnlyFeature
  <2>5. work' \in [Plans -> WorkRow] /\ feature' \in [Plans -> FeatureStatuses]
    <3>1. work' \in [Plans -> WorkRow]
      BY <1>1, <2>1, <2>3 DEF DeliveryTypes
    <3> QED BY <1>1, <1>3, <1>8, <3>1 DEF DeliveryTypes
  <2>6. OnlyTouches(p)
    BY <1>1, <1>8, <2>1, <2>4, <2>5 DEF OnlyTouches, DeliveryTypes
  <2>7. PlansAdvance /\ MergeIsApproved(p)
    BY <2>4, QueueRests DEF DeliveryInv
  <2>8. feature'[p] = "reviewing" /\ work'[p].pc = "review" /\ work'[p].saw = NoPr
    BY <1>1, <1>8, <2>1, <2>3 DEF DeliveryTypes
  <2> QED BY <2>4, <2>6, <2>7, <2>8, NothingSeen, SegmentIsSound DEF MergeIsApproved
<1>9. \/ seen.state = "merged" /\ BeginsCompletion(p, work[p].stale)
      \/ Ends(p, "failed")
      \/ \E status \in {"draft", "waiting_checks", "changes_requested"} : becomes(status)
      \/ Awaits(p, "drafting") /\ UNCHANGED feature
      \/ /\ feature' = [feature EXCEPT ![p] = "reviewing"]
         /\ work' = [work EXCEPT ![p].pc = "review", ![p].saw = NoPr, ![p].head = seen.head]
  BY DEF InspectionHandled
<1> QED BY <1>4, <1>5, <1>6, <1>7, <1>8, <1>9

LEMMA ReviewIsAnswered ==
  ASSUME DeliveryInv, NEW p \in Plans, ReviewAnswers(p)
  PROVE  DeliveryInv'
<1>1. DeliveryTypes /\ OnlyFeature /\ MergeIsApproved(p) /\ feature[p] \in FeatureStatuses
  BY DEF DeliveryInv, ReviewAnswers, DeliveryTypes
<1>2. CASE Ends(p, "waiting_provider") /\ UNCHANGED approved
  BY <1>1, <1>2, SegmentHandled DEF FeatureStatuses
<1>3. CASE Awaits(p, "drafting") /\ UNCHANGED <<feature, approved>>
  BY <1>1, <1>3, SegmentHandled DEF Segments
<1>4. CASE /\ approved' = [approved EXCEPT ![p] = @ \cup {work[p].head}]
           /\ IF feature[p] = "cancelled" THEN Ends(p, feature[p])
              ELSE Awaits(p, "recheck") /\ UNCHANGED feature
  <2>1. UNCHANGED <<plan, deps, members, pr, listed, outbox, mergedByUs>>
    BY <1>1 DEF OnlyFeature
  <2>2. /\ feature' \in [Plans -> FeatureStatuses] /\ work' \in [Plans -> WorkRow]
        /\ feature'[p] = feature[p] /\ work'[p].saw = NoPr /\ work'[p].pc # "closing"
        /\ work'[p].pc \in {"recheck", "merge"} => work'[p].head = work[p].head
        /\ \A q \in Plans \ {p} : feature'[q] = feature[q] /\ work'[q] = work[q]
    <3>1. CASE feature[p] = "cancelled"
      BY <1>1, <1>4, <3>1, Ended, NothingSeen
    <3>2. CASE feature[p] # "cancelled"
      BY <1>1, <1>4, <3>2, Awaited DEF Segments, DeliveryTypes
    <3> QED BY <3>1, <3>2
  <2>3. work[p].head \in Nat
    BY <1>1 DEF DeliveryTypes, WorkRow
  <2>4. /\ approved' \in [Plans -> SUBSET Nat] /\ approved'[p] = approved[p] \cup {work[p].head}
        /\ \A q \in Plans \ {p} : approved'[q] = approved[q]
    BY <1>1, <1>4, <2>3 DEF DeliveryTypes
  <2>5. OnlyTouches(p)
    BY <1>1, <2>1, <2>2, <2>4 DEF OnlyTouches, DeliveryTypes
  <2>6. PlansAdvance
    BY <2>1, QueueRests DEF DeliveryInv
  <2> QED BY <1>1, <2>1, <2>2, <2>4, <2>5, <2>6, NothingSeen, SegmentIsSound DEF MergeIsApproved
<1> QED BY <1>2, <1>3, <1>4 DEF ReviewAnswers

LEMMA RecheckIsHandled ==
  ASSUME DeliveryInv, NEW p \in Plans, RecheckHandled(p)
  PROVE  DeliveryInv'
<1> DEFINE seen == work[p].saw
<1>1. /\ DeliveryTypes /\ OnlyFeature /\ UNCHANGED approved /\ feature[p] \in FeatureStatuses
      /\ MergeIsApproved(p) /\ work[p].pc = "recheck"
  BY DEF DeliveryInv, RecheckHandled, DeliveryTypes
<1>2. CASE Ends(p, "waiting_checks")
  BY <1>1, <1>2, SegmentHandled DEF FeatureStatuses
<1>3. CASE Ends(p, feature[p])
  BY <1>1, <1>3, SegmentHandled
<1>4. CASE /\ StillApproved(p, seen)
           /\ feature' = [feature EXCEPT ![p] = "merging"]
           /\ work' = [work EXCEPT ![p].pc = "merge", ![p].saw = NoPr, ![p].head = seen.head]
  <2> DEFINE row(r) == [[[r EXCEPT !.pc = "merge"] EXCEPT !.saw = NoPr] EXCEPT !.head = seen.head]
  <2>1. work' = [q \in Plans |-> IF q = p THEN row(work[q]) ELSE work[q]]
    BY <1>1, <1>4 DEF DeliveryTypes
  <2>2. seen.head \in Nat /\ seen.head = work[p].head
    BY <1>1, <1>4 DEF DeliveryTypes, WorkRow, PrRow, StillApproved
  <2>3. ASSUME NEW r \in WorkRow
        PROVE  /\ row(r) \in WorkRow /\ row(r).pc = "merge" /\ row(r).saw = NoPr
               /\ row(r).head = seen.head
    <3> HIDE DEF seen
    <3>1. [r EXCEPT !.pc = "merge"] \in WorkRow
      BY DEF WorkRow, Segments
    <3>2. [[r EXCEPT !.pc = "merge"] EXCEPT !.saw = NoPr] \in WorkRow
      BY <3>1, NoWorkRow DEF WorkRow
    <3>3. row(r) \in WorkRow
      BY <3>2, <2>2 DEF WorkRow
    <3> QED BY <3>3 DEF WorkRow
  <2> HIDE DEF row
  <2>4. UNCHANGED <<plan, deps, members, pr, listed, outbox, mergedByUs, approved>>
    BY <1>1 DEF OnlyFeature
  <2>5. work' \in [Plans -> WorkRow] /\ feature' \in [Plans -> FeatureStatuses]
    <3>1. work' \in [Plans -> WorkRow]
      BY <1>1, <2>1, <2>3 DEF DeliveryTypes
    <3>2. "merging" \in FeatureStatuses
      BY DEF FeatureStatuses
    <3> QED BY <1>1, <1>4, <3>1, <3>2 DEF DeliveryTypes
  <2>6. OnlyTouches(p)
    BY <1>1, <1>4, <2>1, <2>4, <2>5 DEF OnlyTouches, DeliveryTypes
  <2>7. PlansAdvance
    BY <2>4, QueueRests DEF DeliveryInv
  <2>8. /\ feature'[p] = "merging" /\ work'[p].pc = "merge" /\ work'[p].saw = NoPr
        /\ work'[p].head = work[p].head
    BY <1>1, <1>4, <2>1, <2>2, <2>3 DEF DeliveryTypes
  <2> QED BY <1>1, <2>4, <2>6, <2>7, <2>8, NothingSeen, SegmentIsSound DEF MergeIsApproved
<1>5. \/ Ends(p, "waiting_checks")
      \/ Ends(p, feature[p])
      \/ /\ StillApproved(p, seen)
         /\ feature' = [feature EXCEPT ![p] = "merging"]
         /\ work' = [work EXCEPT ![p].pc = "merge", ![p].saw = NoPr, ![p].head = seen.head]
  BY DEF RecheckHandled
<1> QED BY <1>2, <1>3, <1>4, <1>5

LEMMA MergeIsAnswered ==
  ASSUME DeliveryInv, NEW p \in Plans, MergeAnswers(p)
  PROVE  DeliveryInv'
<1>1. /\ DeliveryTypes /\ MergeIsApproved(p) /\ work[p].pc = "merge"
      /\ UNCHANGED <<plan, deps, members, listed, outbox, approved>>
  BY DEF DeliveryInv, MergeAnswers
<1>2. PlansAdvance
  BY <1>1, QueueRests DEF DeliveryInv
<1>3. /\ feature' \in [Plans -> FeatureStatuses] /\ work' \in [Plans -> WorkRow]
      /\ feature'[p] \in {feature[p], "failed"} /\ work'[p].saw = NoPr /\ work'[p].pc \in {"idle", "confirm"}
      /\ \A q \in Plans \ {p} : feature'[q] = feature[q] /\ work'[q] = work[q]
  <2>1. CASE Awaits(p, "confirm") /\ UNCHANGED feature
    BY <1>1, <2>1, Awaited DEF Segments, DeliveryTypes
  <2>2. CASE Throws(p)
    BY <1>1, <2>2, Threw, NothingSeen
  <2> QED BY <2>1, <2>2 DEF MergeAnswers
<1>4. /\ pr' \in [Plans -> PrRow] /\ mergedByUs' \in [Plans -> SUBSET Nat]
      /\ pr[p].state = "merged" => pr'[p].state = "merged"
      /\ mergedByUs'[p] \subseteq approved[p]
      /\ \A q \in Plans \ {p} : pr'[q] = pr[q] /\ mergedByUs'[q] = mergedByUs[q]
  <2>1. CASE Accepts(p) /\ pr' = Merged(p) /\ mergedByUs' = [mergedByUs EXCEPT ![p] = @ \cup {pr[p].head}]
    <3>1. pr[p].head = work[p].head /\ pr[p].head \in Nat
      BY <1>1, <2>1 DEF Accepts, DeliveryTypes, PrRow
    <3>2. pr' = [pr EXCEPT ![p].state = "merged"]
      BY <2>1 DEF Merged
    <3>3. pr' \in [Plans -> PrRow] /\ pr'[p].state = "merged" /\ \A q \in Plans \ {p} : pr'[q] = pr[q]
      <4>1. pr \in [Plans -> PrRow] /\ "merged" \in {"open", "closed", "merged"}
        BY <1>1 DEF DeliveryTypes
      <4> QED BY <3>2, <4>1 DEF PrRow
    <3>4. /\ mergedByUs' \in [Plans -> SUBSET Nat] /\ mergedByUs'[p] = mergedByUs[p] \cup {pr[p].head}
          /\ \A q \in Plans \ {p} : mergedByUs'[q] = mergedByUs[q]
      BY <1>1, <2>1, <3>1 DEF DeliveryTypes
    <3> QED BY <1>1, <3>1, <3>3, <3>4 DEF MergeIsApproved
  <2>2. CASE UNCHANGED <<pr, mergedByUs>>
    BY <1>1, <2>2 DEF DeliveryTypes, MergeIsApproved
  <2> QED BY <2>1, <2>2 DEF MergeAnswers
<1>5. OnlyTouches(p)
  BY <1>1, <1>3, <1>4 DEF OnlyTouches, DeliveryTypes
<1> QED BY <1>1, <1>2, <1>3, <1>4, <1>5, NothingSeen, SegmentIsSound

LEMMA ConfirmationIsHandled ==
  ASSUME DeliveryInv, NEW p \in Plans, ConfirmationHandled(p)
  PROVE  DeliveryInv'
<1>1. OnlyFeature /\ UNCHANGED approved /\ (work[p].saw.state = "merged" => pr[p].state = "merged")
  BY DEF DeliveryInv, CompletionIsSeen, ConfirmationHandled
<1>2. CASE work[p].saw.state = "merged"
  BY <1>1, <1>2, CompletionBegins DEF ConfirmationHandled
<1>3. CASE work[p].saw.state # "merged"
  BY <1>1, <1>3, SegmentHandled DEF ConfirmationHandled
<1> QED BY <1>2, <1>3

LEMMA DraftingIsAnswered ==
  ASSUME DeliveryInv, NEW p \in Plans, DraftingAnswers(p)
  PROVE  DeliveryInv'
<1>1. /\ DeliveryTypes /\ MergeIsApproved(p) /\ Ends(p, "changes_requested")
      /\ UNCHANGED <<plan, deps, members, listed, outbox, approved, mergedByUs>>
  BY DEF DeliveryInv, DraftingAnswers
<1>2. PlansAdvance
  BY <1>1, QueueRests DEF DeliveryInv
<1>3. /\ feature' \in [Plans -> FeatureStatuses] /\ work' \in [Plans -> WorkRow]
      /\ feature'[p] = "changes_requested" /\ work'[p] = NoWork
      /\ \A q \in Plans \ {p} : feature'[q] = feature[q] /\ work'[q] = work[q]
  BY <1>1, Ended DEF FeatureStatuses
<1>4. /\ pr' \in [Plans -> PrRow] /\ (pr[p].state = "merged" => pr'[p].state = "merged")
      /\ \A q \in Plans \ {p} : pr'[q] = pr[q]
  <2>1. CASE pr[p].state = "open"
    <3>1. pr' = [pr EXCEPT ![p].gate = "draft"]
      BY <2>1 DEF DraftingAnswers
    <3> QED BY <1>1, <2>1, <3>1 DEF DeliveryTypes, PrRow
  <2>2. CASE pr[p].state # "open"
    BY <1>1, <2>2 DEF DraftingAnswers, DeliveryTypes
  <2> QED BY <2>1, <2>2
<1>5. OnlyTouches(p)
  BY <1>1, <1>3, <1>4 DEF OnlyTouches, DeliveryTypes
<1> QED BY <1>1, <1>2, <1>3, <1>4, <1>5, NothingSeen, SegmentIsSound DEF MergeIsApproved

\* The transaction that completes Feature and plan and enqueues the review.
LEMMA CompletionIsAnswered ==
  ASSUME DeliveryInv, NEW p \in Plans, CompletionAnswers(p)
  PROVE  DeliveryInv'
<1>1. /\ DeliveryTypes /\ MergeIsApproved(p) /\ CompletionIsSeen(p) /\ plan \in PlanTable
      /\ QueueInv /\ pr[p].state = "merged"
      /\ UNCHANGED <<deps, members, listed, pr, approved, mergedByUs>>
  BY DEF DeliveryInv, CompletionAnswers, CompletionIsSeen, QueueInv
<1>2. CASE UNCHANGED <<plan, outbox>> /\ (Ends(p, "merging") \/ Throws(p))
  <2>1. /\ feature' \in [Plans -> FeatureStatuses] /\ work' \in [Plans -> WorkRow]
        /\ feature'[p] \in {feature[p], "failed", "merging"} /\ work'[p] = NoWork
        /\ \A q \in Plans \ {p} : feature'[q] = feature[q] /\ work'[q] = work[q]
    <3>1. "merging" \in FeatureStatuses
      BY DEF FeatureStatuses
    <3> QED BY <1>1, <1>2, <3>1, Ended, Threw
  <2>2. OnlyTouches(p)
    BY <1>1, <1>2, <2>1 DEF OnlyTouches, DeliveryTypes
  <2>3. PlansAdvance
    BY <1>1, <1>2, QueueRests
  <2> QED BY <1>1, <1>2, <2>1, <2>2, <2>3, NothingSeen, SegmentIsSound DEF MergeIsApproved
<1>3. CASE /\ Completable(p) /\ Ends(p, "completed") /\ outbox' = outbox \cup {p}
           /\ plan' = RevalidatedQueue(IF plan[p].status \in Final THEN plan
                                       ELSE [plan EXCEPT ![p].status = "completed"], deps)
  <2> DEFINE a == IF plan[p].status \in Final THEN plan ELSE [plan EXCEPT ![p].status = "completed"]
  <2>1. a \in PlanTable /\ Settles(plan, a) /\ FinalStays(plan, a) /\ a[p].status = "completed"
    <3>1. CASE plan[p].status \in Final
      <4>1. plan[p].status = "completed"
        BY <1>3, <3>1 DEF Completable, Final
      <4> QED BY <1>1, <3>1, <4>1 DEF Settles, FinalStays
    <3>2. CASE plan[p].status \notin Final
      <4>1. "completed" \in Final
        BY DEF Final
      <4> QED BY <1>1, <3>2, <4>1, RowSettled
    <3> QED BY <3>1, <3>2
  <2>2. plan' = RevalidatedQueue(a, deps)
    BY <1>3
  <2> HIDE DEF a
  <2>3. plan' \in PlanTable /\ Advances(a, plan')
    BY <2>1, <2>2, Revalidation
  <2>4. PlansAdvance
    BY <1>1, <2>1, <2>3, SettlesTransitively, PlansMoveOn DEF PlansAdvance
  <2>5. plan'[p].status = "completed"
    BY <2>1, <2>3 DEF Advances, Final
  <2>6. /\ feature' \in [Plans -> FeatureStatuses] /\ work' \in [Plans -> WorkRow] /\ work'[p] = NoWork
        /\ \A q \in Plans \ {p} : feature'[q] = feature[q] /\ work'[q] = work[q]
    BY <1>1, <1>3, Ended DEF FeatureStatuses
  <2>7. OnlyTouches(p)
    BY <1>1, <1>3, <2>6 DEF OnlyTouches, DeliveryTypes
  <2>8. MergeIsApproved(p)' /\ CompletionIsSeen(p)'
    BY <1>1, <1>3, <2>5, <2>6, NothingSeen DEF MergeIsApproved, CompletionIsSeen
  <2> QED BY <2>4, <2>7, <2>8, OthersAreKept
<1> QED BY <1>2, <1>3 DEF CompletionAnswers

LEMMA InspectIsAnswered ==
  ASSUME DeliveryInv, NEW p \in Plans, InspectAnswers(p)
  PROVE  DeliveryInv'
<1>1. /\ DeliveryTypes /\ MergeIsApproved(p) /\ work[p].pc \in {"inspect", "recheck", "confirm"}
      /\ UNCHANGED <<plan, deps, members, pr, listed, outbox, mergedByUs, feature, approved>>
  BY DEF DeliveryInv, InspectAnswers, OnlyFeature
<1>2. [work[p] EXCEPT !.saw = pr[p]] \in WorkRow
  BY <1>1 DEF DeliveryTypes, WorkRow
<1>3. /\ work' \in [Plans -> WorkRow] /\ work'[p].pc = work[p].pc /\ work'[p].head = work[p].head
      /\ work'[p].saw = pr[p] /\ \A q \in Plans \ {p} : work'[q] = work[q]
  <2>1. work' = [work EXCEPT ![p] = [work[p] EXCEPT !.saw = pr[p]]]
    BY DEF InspectAnswers
  <2>2. [work[p] EXCEPT !.saw = pr[p]].saw = pr[p]
    BY <1>1 DEF DeliveryTypes, WorkRow
  <2> QED BY <1>1, <1>2, <2>1, <2>2 DEF DeliveryTypes, WorkRow
<1>4. PlansAdvance
  BY <1>1, QueueRests DEF DeliveryInv
<1>5. OnlyTouches(p)
  BY <1>1, <1>3 DEF OnlyTouches, DeliveryTypes
<1> QED BY <1>1, <1>3, <1>4, <1>5, SegmentIsSound DEF MergeIsApproved

LEMMA GitHubHasFailed ==
  ASSUME DeliveryInv, NEW p \in Plans, GitHubFails(p)
  PROVE  DeliveryInv'
<1>1. OnlyFeature /\ UNCHANGED approved /\ Throws(p)
  BY DEF GitHubFails
<1> QED BY <1>1, SegmentHandled

LEMMA ReviewMovesOn ==
  ASSUME DeliveryInv, NEW p \in Plans, ReviewStep(p) \/ GitHubFails(p)
  PROVE  DeliveryInv'
BY InspectIsAnswered, InspectionIsHandled, ReviewIsAnswered, RecheckIsHandled, MergeIsAnswered,
   ConfirmationIsHandled, DraftingIsAnswered, CompletionIsAnswered, GitHubHasFailed DEF ReviewStep

\* Only plans, listings and reviews to send are written.
LEMMA FeaturesRest ==
  ASSUME DeliveryInv, PlansAdvance, listed' \in [Plans -> FeatureStatuses], outbox \subseteq outbox',
         UNCHANGED <<feature, pr, work, approved, mergedByUs>>
  PROVE  DeliveryInv'
<1>1. DeliveryTypes'
  BY DEF DeliveryInv, DeliveryTypes
<1>2. ASSUME NEW q \in Plans PROVE MergeIsApproved(q)' /\ CompletionIsSeen(q)'
  <2>1. MergeIsApproved(q) /\ CompletionIsSeen(q)
    BY DEF DeliveryInv
  <2>2. plan[q].status = "completed" => plan'[q].status = "completed"
    BY DEF PlansAdvance, FinalStays, Final
  <2> QED BY <2>1, <2>2 DEF MergeIsApproved, CompletionIsSeen
<1> QED BY <1>1, <1>2 DEF DeliveryInv, PlansAdvance

\* Only the Feature and the pull request of one plan are written.
LEMMA FeatureMoves ==
  ASSUME DeliveryInv, PlansAdvance, NEW p \in Plans,
         feature' \in [Plans -> FeatureStatuses], pr' \in [Plans -> PrRow],
         \A q \in Plans \ {p} : feature'[q] = feature[q] /\ pr'[q] = pr[q],
         feature'[p] = "completed" => feature[p] = "completed",
         pr[p].state = "merged" => pr'[p].state = "merged",
         UNCHANGED <<work, approved, mergedByUs, listed, outbox>>
  PROVE  DeliveryInv'
<1>1. OnlyTouches(p)
  BY DEF DeliveryInv, DeliveryTypes, OnlyTouches
<1>2. MergeIsApproved(p) /\ CompletionIsSeen(p)
  BY DEF DeliveryInv
<1> QED BY <1>1, <1>2, SegmentIsSound DEF MergeIsApproved, CompletionIsSeen

LEMMA FeaturesAreListed ==
  ASSUME DeliveryInv, ReconcileFeatures
  PROVE  DeliveryInv'
<1> DEFINE done == {p \in Plans : feature[p] = "completed"}
<1>1. /\ plan' = ReconciledAll(plan, done) /\ listed' = [p \in Plans |-> Listed(feature[p])]
      /\ outbox \subseteq outbox' /\ UNCHANGED <<deps, members, feature, pr, work, approved, mergedByUs>>
  BY DEF ReconcileFeatures
<1>2. \A p \in done : plan[p].status # "none"
  BY DEF DeliveryInv, CompletionIsSeen
<1>3. QueueInv /\ plan \in PlanTable /\ done \in SUBSET Plans
  BY DEF DeliveryInv, QueueInv
<1> HIDE DEF done
<1>4. plan' \in PlanTable /\ Advances(plan, plan')
  BY <1>1, <1>2, <1>3, ReconciledTable
<1>5. PlansAdvance
  BY <1>1, <1>3, <1>4, QueueAdvances
<1>6. listed' \in [Plans -> FeatureStatuses]
  <2>1. \A p \in Plans : Listed(feature[p]) \in FeatureStatuses
    BY DEF DeliveryInv, DeliveryTypes, Listed, FeatureStatuses
  <2> QED BY <1>1, <2>1
<1> QED BY <1>1, <1>5, <1>6, FeaturesRest

\* A review starts with nothing seen.
LEMMA ReviewStarts ==
  ASSUME DeliveryInv, NEW p \in Plans, NEW who \in {"reconcile", "manual"}, NEW was \in FeatureStatuses,
         work' = [work EXCEPT ![p] = [NoWork EXCEPT !.who = who, !.pc = "inspect", !.stale = was]],
         listed' \in [Plans -> FeatureStatuses],
         UNCHANGED <<plan, deps, members, feature, pr, outbox, approved, mergedByUs>>
  PROVE  DeliveryInv'
<1> DEFINE row == [NoWork EXCEPT !.who = who, !.pc = "inspect", !.stale = was]
<1>1. row \in WorkRow /\ row.pc = "inspect" /\ row.saw = NoPr
  BY NoWorkRow DEF NoWork, WorkRow, Segments
<1>2. work' = [work EXCEPT ![p] = row]
  OBVIOUS
<1> HIDE DEF row
<1>3. DeliveryTypes /\ MergeIsApproved(p) /\ QueueInv
  BY DEF DeliveryInv
<1>4. /\ work' \in [Plans -> WorkRow] /\ work'[p] = row
      /\ \A q \in Plans \ {p} : work'[q] = work[q]
  BY <1>1, <1>2, <1>3 DEF DeliveryTypes
<1>5. OnlyTouches(p)
  BY <1>3, <1>4 DEF OnlyTouches, DeliveryTypes
<1>6. PlansAdvance
  BY <1>3, QueueRests
<1> QED BY <1>1, <1>3, <1>4, <1>5, <1>6, NothingSeen, SegmentIsSound DEF MergeIsApproved

LEMMA TurnIsTaken ==
  ASSUME DeliveryInv, NEW p \in Plans, FeatureTurn(p)
  PROVE  DeliveryInv'
<1>1. /\ listed' \in [Plans -> FeatureStatuses] /\ listed[p] \in FeatureStatuses
      /\ UNCHANGED <<plan, deps, members, feature, pr, outbox, approved, mergedByUs>>
  <2>1. "none" \in FeatureStatuses
    BY DEF FeatureStatuses
  <2> QED BY <2>1 DEF FeatureTurn, DeliveryInv, DeliveryTypes, queueVars
<1>2. CASE work[p].who = "manual"
  <2>1. UNCHANGED work
    BY <1>2 DEF FeatureTurn
  <2>2. PlansAdvance
    BY <1>1, QueueRests DEF DeliveryInv
  <2> QED BY <1>1, <2>1, <2>2, FeaturesRest
<1>3. CASE work[p].who # "manual"
  <2>1. work' = [work EXCEPT ![p] = [NoWork EXCEPT !.who = "reconcile", !.pc = "inspect", !.stale = listed[p]]]
    BY <1>3 DEF FeatureTurn
  <2> QED BY <1>1, <2>1, ReviewStarts
<1> QED BY <1>2, <1>3

LEMMA ManualReviewStarts ==
  ASSUME DeliveryInv, NEW p \in Plans, NEW isRetry \in BOOLEAN, ManualReview(p, isRetry)
  PROVE  DeliveryInv'
<1>1. feature[p] \in FeatureStatuses /\ listed \in [Plans -> FeatureStatuses]
  BY DEF DeliveryInv, DeliveryTypes
<1>2. /\ work' = [work EXCEPT ![p] = [NoWork EXCEPT !.who = "manual", !.pc = "inspect", !.stale = feature[p]]]
      /\ UNCHANGED <<plan, deps, members, feature, pr, outbox, approved, mergedByUs, listed>>
  BY DEF ManualReview, queueVars
<1> QED BY <1>1, <1>2, ReviewStarts

LEMMA CancellationMovesOn ==
  ASSUME DeliveryInv, NEW p \in Plans, CancelFeature(p) \/ CancelStep(p)
  PROVE  DeliveryInv'
<1>1. /\ DeliveryTypes /\ QueueInv /\ plan \in PlanTable
      /\ UNCHANGED <<deps, members, listed, work, outbox, approved, mergedByUs>>
  BY DEF CancelFeature, CancelStep, OnlyCancel, DeliveryInv, QueueInv
<1>2. plan' \in {plan, RevalidatedQueue(plan, deps)}
  BY DEF CancelFeature, CancelStep
<1>3. PlansAdvance
  <2>1. CASE plan' = plan
    BY <1>1, <2>1, QueueRests
  <2>2. CASE plan' = RevalidatedQueue(plan, deps)
    BY <1>1, <2>2, Revalidation, QueueAdvances
  <2> QED BY <1>2, <2>1, <2>2
<1>4. /\ feature' \in [Plans -> FeatureStatuses] /\ feature'[p] \in {feature[p], "cancelled"}
      /\ \A q \in Plans \ {p} : feature'[q] = feature[q]
  <2>1. "cancelled" \in FeatureStatuses
    BY DEF FeatureStatuses
  <2>2. feature' \in {feature, [feature EXCEPT ![p] = "cancelled"]}
    BY DEF CancelFeature, CancelStep
  <2> QED BY <1>1, <2>1, <2>2 DEF DeliveryTypes
<1>5. /\ pr' \in [Plans -> PrRow] /\ (pr[p].state = "merged" => pr'[p].state = "merged")
      /\ \A q \in Plans \ {p} : pr'[q] = pr[q]
  <2>1. pr' = pr \/ (pr[p].state = "open" /\ pr' = [pr EXCEPT ![p].state = "closed"])
    BY DEF CancelFeature, CancelStep
  <2>2. pr \in [Plans -> PrRow] /\ "closed" \in {"open", "closed", "merged"}
    BY <1>1 DEF DeliveryTypes
  <2>3. CASE pr' = pr
    BY <2>2, <2>3
  <2>4. CASE pr[p].state = "open" /\ pr' = [pr EXCEPT ![p].state = "closed"]
    <3>1. pr' = [pr EXCEPT ![p].state = "closed"] /\ pr[p].state # "merged"
      BY <2>4
    <3>2. pr' \in [Plans -> PrRow] /\ \A q \in Plans \ {p} : pr'[q] = pr[q]
      BY <2>2, <3>1 DEF PrRow
    <3> QED BY <3>1, <3>2
  <2> QED BY <2>1, <2>3, <2>4
<1> QED BY <1>1, <1>3, <1>4, <1>5, FeatureMoves

\* A status that is written stays written where no completed Feature overrides it.
LEMMA StatusIsWritten ==
  ASSUME NEW pl \in PlanTable, NEW p \in Plans, NEW to \in PlanStatuses \ {"none"}, NEW why \in Reasons,
         feature[p] # "completed"
  PROVE  StatusUpdated(pl, p, to, why)[p].status = to
<1> DEFINE b == WithStatus(pl, p, to, why)
<1>1. b \in PlanTable /\ b[p].status = to
  BY WithStatusRow
<1>2. Reconciled(pl, p)[p].status = pl[p].status
  BY ReconciledRow
<1> HIDE DEF b
<1>3. Reconciled(b, p)[p].status = to
  BY <1>1, ReconciledRow
<1>4. StatusUpdated(pl, p, to, why) = IF pl[p].status = to THEN Reconciled(pl, p) ELSE Reconciled(b, p)
  BY DEF StatusUpdated, b
<1> QED BY <1>2, <1>3, <1>4

\* A queued plan that is assembled takes the writer lease.
LEMMA BuildTakesLease ==
  ASSUME DeliveryInv, NEW p \in Plans, Builds(p)
  PROVE  plan' \in PlanTable /\ Advances(plan, plan')
<1>1. plan \in PlanTable /\ CompletionIsSeen(p)
  BY DEF DeliveryInv, QueueInv
<1>2. CASE plan' = plan
  BY <1>1, <1>2 DEF Advances
<1>3. CASE /\ plan[p].status = "queued"
           /\ plan' = StatusUpdated(StatusUpdated(plan, p, "admitted", "none"), p, "active", "none")
  <2> DEFINE a == StatusUpdated(plan, p, "admitted", "none")
  <2>1. /\ {"admitted", "active"} \subseteq PlanStatuses \ {"none"} /\ "none" \in Reasons
        /\ {"queued", "admitted"} \cap (Final \cup {"none"}) = {}
    BY DEF PlanStatuses, Reasons, Final
  <2>2. feature[p] # "completed"
    BY <1>1, <1>3 DEF CompletionIsSeen
  <2>3. a \in PlanTable /\ Advances(plan, a)
    BY <1>1, <1>3, <2>1, StatusUpdatedRow
  <2>4. a[p].status = "admitted"
    BY <1>1, <2>1, <2>2, StatusIsWritten
  <2>5. plan' = StatusUpdated(a, p, "active", "none")
    BY <1>3
  <2> HIDE DEF a
  <2>6. plan' \in PlanTable /\ Advances(a, plan')
    BY <2>1, <2>3, <2>4, <2>5, StatusUpdatedRow
  <2> QED BY <2>3, <2>6, AdvancesTransitively
<1> QED BY <1>2, <1>3 DEF Builds

LEMMA FeatureIsCreated ==
  ASSUME DeliveryInv, NEW p \in Plans, FeatureCreated(p)
  PROVE  /\ plan' \in PlanTable /\ Advances(plan, plan')
         /\ feature' \in [Plans -> FeatureStatuses] /\ feature'[p] = "draft"
         /\ \A q \in Plans \ {p} : feature'[q] = feature[q]
<1>1. plan \in PlanTable /\ DeliveryTypes
  BY DEF DeliveryInv, QueueInv
<1>2. plan' \in PlanTable /\ Advances(plan, plan')
  <2>1. CASE plan[p].status = "active"
    <3>1. "waiting_review" \in PlanStatuses \ {"none"} /\ "none" \in Reasons /\ "active" \notin Final \cup {"none"}
      BY DEF PlanStatuses, Reasons, Final
    <3>2. plan' = StatusUpdated(plan, p, "waiting_review", "none")
      BY <2>1 DEF FeatureCreated
    <3> QED BY <1>1, <2>1, <3>1, <3>2, StatusUpdatedRow
  <2>2. CASE plan[p].status # "active"
    BY <1>1, <2>2 DEF FeatureCreated, Advances
  <2> QED BY <2>1, <2>2
<1>3. "draft" \in FeatureStatuses
  BY DEF FeatureStatuses
<1> QED BY <1>1, <1>2, <1>3 DEF FeatureCreated, DeliveryTypes

\* The assembly writes the plan, and in the end creates pull request and Feature.
LEMMA AssemblyMovesOn ==
  ASSUME DeliveryInv, NEW p \in Plans, AssemblyStarts(p) \/ AssemblyStep(p)
  PROVE  DeliveryInv'
<1> USE DEF AssemblyStep
<1>1. /\ DeliveryTypes /\ QueueInv /\ plan \in PlanTable
      /\ UNCHANGED <<deps, members, listed, work, outbox, approved, mergedByUs>>
  BY DEF DeliveryInv, QueueInv, OnlyAssembly, AssemblyStarts, AssemblyNotified, WorkValidated,
         WorkRejected, PullRequestFound, PullRequestCreated
<1>2. \/ UNCHANGED <<plan, feature>>
      \/ Builds(p) /\ UNCHANGED feature
      \/ FeatureCreated(p)
  BY DEF AssemblyStarts, AssemblyNotified, WorkValidated, WorkRejected, PullRequestFound,
         PullRequestCreated, Builds
<1>3. /\ plan' \in PlanTable /\ Advances(plan, plan') /\ feature' \in [Plans -> FeatureStatuses]
      /\ feature'[p] \in {feature[p], "draft"} /\ \A q \in Plans \ {p} : feature'[q] = feature[q]
  <2>1. CASE UNCHANGED <<plan, feature>>
    BY <1>1, <2>1 DEF DeliveryTypes, Advances
  <2>2. CASE Builds(p) /\ UNCHANGED feature
    BY <1>1, <2>2, BuildTakesLease DEF DeliveryTypes
  <2>3. CASE FeatureCreated(p)
    BY <2>3, FeatureIsCreated
  <2> QED BY <1>2, <2>1, <2>2, <2>3
<1>4. /\ pr' \in [Plans -> PrRow] /\ (pr[p].state = "merged" => pr'[p].state = "merged")
      /\ \A q \in Plans \ {p} : pr'[q] = pr[q]
  <2> DEFINE fresh == [state |-> "open", gate |-> "draft", head |-> pr[p].head + 1]
  <2>1. \/ pr' = pr
        \/ pr[p].state \in {"none", "closed"} /\ pr' = [pr EXCEPT ![p] = fresh]
    BY DEF AssemblyStarts, AssemblyNotified, WorkValidated, WorkRejected, PullRequestFound,
           PullRequestCreated, Builds
  <2>2. fresh \in PrRow
    BY <1>1 DEF DeliveryTypes, PrRow
  <2> HIDE DEF fresh
  <2> QED BY <1>1, <2>1, <2>2 DEF DeliveryTypes
<1>5. PlansAdvance
  BY <1>1, <1>3, QueueAdvances
<1> QED BY <1>1, <1>3, <1>4, <1>5, FeatureMoves

\* People act on pull requests, Tasks and plans.
LEMMA SurroundingsMoveOn ==
  ASSUME DeliveryInv, NEW p \in Plans, PrEvent(p) \/ ChecksPass(p) \/ TaskReopened(p) \/ PlanStep(p)
  PROVE  DeliveryInv'
<1>1. DeliveryTypes /\ QueueInv
  BY DEF DeliveryInv
<1>2. CASE PrEvent(p) \/ ChecksPass(p)
  <2>1. UNCHANGED <<plan, deps, members, feature, listed, work, outbox, approved, mergedByUs>>
    BY <1>2 DEF PrEvent, ChecksPass, queueVars
  <2>2. pr[p].state = "open" /\ pr \in [Plans -> PrRow]
    BY <1>1, <1>2 DEF PrEvent, ChecksPass, DeliveryTypes
  <2>3. pr' \in [Plans -> PrRow] /\ \A q \in Plans \ {p} : pr'[q] = pr[q]
    <3> DEFINE gate == IF pr[p].gate = "draft" THEN "draft" ELSE "waiting"
               gate2 == IF pr[p].gate = "draft" THEN "waiting" ELSE "conflict"
               row == [[pr[p] EXCEPT !.head = pr[p].head + 1] EXCEPT !.gate = gate]
    <3>1. gate \in {"draft", "waiting"} /\ gate2 \in {"waiting", "conflict"} /\ pr[p].head + 1 \in Nat
      BY <2>2 DEF PrRow
    <3>2. \/ pr' = [pr EXCEPT ![p] = row]
          \/ pr' = [pr EXCEPT ![p] = [pr[p] EXCEPT !.gate = gate2]]
          \/ pr' = [pr EXCEPT ![p].state = "closed"]
          \/ pr' = [pr EXCEPT ![p].state = "merged"]
          \/ pr' = [pr EXCEPT ![p].gate = "ready"]
      <4>1. [pr EXCEPT ![p].head = @ + 1, ![p].gate = IF @ = "draft" THEN @ ELSE "waiting"]
              = [pr EXCEPT ![p] = row]
        BY <2>2 DEF PrRow
      <4>2. [pr EXCEPT ![p].gate = IF @ = "draft" THEN "waiting" ELSE "conflict"]
              = [pr EXCEPT ![p] = [pr[p] EXCEPT !.gate = gate2]]
        BY <2>2 DEF PrRow
      <4> HIDE DEF row, gate2
      <4>3. CASE ChecksPass(p)
        BY <4>3 DEF ChecksPass
      <4>4. CASE PrEvent(p)
        <5>1. \/ pr' = [pr EXCEPT ![p].head = @ + 1, ![p].gate = IF @ = "draft" THEN @ ELSE "waiting"]
              \/ pr' = [pr EXCEPT ![p].gate = IF @ = "draft" THEN "waiting" ELSE "conflict"]
              \/ pr' = [pr EXCEPT ![p].state = "closed"]
              \/ pr' = Merged(p)
          BY <4>4 DEF PrEvent
        <5> QED BY <4>1, <4>2, <5>1 DEF Merged
      <4> QED BY <1>2, <4>3, <4>4
    <3> HIDE DEF gate, gate2
    <3>3. row \in PrRow
      <4>1. [pr[p] EXCEPT !.head = pr[p].head + 1] \in PrRow
        BY <2>2, <3>1 DEF PrRow
      <4> QED BY <4>1, <3>1 DEF PrRow
    <3>4. [pr[p] EXCEPT !.gate = gate2] \in PrRow
      BY <2>2, <3>1 DEF PrRow
    <3> HIDE DEF row
    <3>5. CASE pr' = [pr EXCEPT ![p] = row] \/ pr' = [pr EXCEPT ![p] = [pr[p] EXCEPT !.gate = gate2]]
      BY <2>2, <3>3, <3>4, <3>5
    <3>6. CASE pr' = [pr EXCEPT ![p].state = "closed"] \/ pr' = [pr EXCEPT ![p].state = "merged"]
      BY <2>2, <3>6 DEF PrRow
    <3>7. CASE pr' = [pr EXCEPT ![p].gate = "ready"]
      BY <2>2, <3>7 DEF PrRow
    <3> QED BY <3>2, <3>5, <3>6, <3>7
  <2>4. PlansAdvance
    BY <1>1, <2>1, QueueRests
  <2>5. feature' \in [Plans -> FeatureStatuses]
    BY <1>1, <2>1 DEF DeliveryTypes
  <2>6. pr[p].state # "merged"
    BY <2>2
  <2> QED BY <2>1, <2>3, <2>4, <2>5, <2>6, FeatureMoves
<1>3. CASE TaskReopened(p)
  <2>1. UNCHANGED <<plan, deps, members, feature, pr, listed, work, outbox, approved, mergedByUs>>
    BY <1>3 DEF TaskReopened, queueVars
  <2> QED BY <1>1, <2>1, QueueRests, FeaturesRest DEF DeliveryTypes
<1>4. CASE PlanStep(p)
  <2>1. /\ QueueCommand(p) /\ UNCHANGED <<feature, pr, listed, work, outbox, approved, mergedByUs>>
    BY <1>4 DEF PlanStep, QueueCommand, CreateFeaturePlan, ReplanFeaturePlan, PauseOrResume,
       UpdateFeaturePlanPriority, AddFeaturePlanDependency, RemoveFeaturePlanDependency, SetQueueStatus,
       AdmitFeaturePlan, RetryFeaturePlan, CancelFeaturePlan
  <2>2. PlansAdvance
    BY <1>1, <2>1, QueueCommanded DEF PlansAdvance
  <2> QED BY <1>1, <2>1, <2>2, FeaturesRest DEF DeliveryTypes
<1> QED BY <1>2, <1>3, <1>4

\* A crash forgets the segments, of which one command may still take effect.
LEMMA CrashIsSurvived ==
  ASSUME DeliveryInv, Crash
  PROVE  DeliveryInv'
<1>1. /\ DeliveryTypes /\ QueueInv /\ plan \in PlanTable
      /\ plan' = RevalidatedQueue(plan, deps) /\ work' = [p \in Plans |-> NoWork]
      /\ listed' = [p \in Plans |-> "none"]
      /\ UNCHANGED <<deps, members, feature, outbox, approved>>
  BY DEF DeliveryInv, QueueInv, Crash
<1>2. PlansAdvance
  BY <1>1, Revalidation, QueueAdvances
<1>3. /\ pr' \in [Plans -> PrRow] /\ mergedByUs' \in [Plans -> SUBSET Nat]
      /\ \A q \in Plans : /\ pr[q].state = "merged" => pr'[q].state = "merged"
                          /\ mergedByUs'[q] \subseteq approved[q]
  <2>1. \A q \in Plans : mergedByUs[q] \subseteq approved[q]
    BY DEF DeliveryInv, MergeIsApproved
  <2>2. CASE UNCHANGED <<pr, mergedByUs>>
    BY <1>1, <2>1, <2>2 DEF DeliveryTypes
  <2>3. ASSUME NEW p \in Plans, work[p].pc = "merge", Accepts(p), pr' = Merged(p),
               mergedByUs' = [mergedByUs EXCEPT ![p] = @ \cup {pr[p].head}]
        PROVE  /\ pr' \in [Plans -> PrRow] /\ mergedByUs' \in [Plans -> SUBSET Nat]
               /\ \A q \in Plans : /\ pr[q].state = "merged" => pr'[q].state = "merged"
                                   /\ mergedByUs'[q] \subseteq approved[q]
    <3>1. pr[p].head \in approved[p] /\ pr[p].head \in Nat
      BY <1>1, <2>3 DEF DeliveryInv, MergeIsApproved, Accepts, DeliveryTypes, PrRow
    <3>2. mergedByUs' \in [Plans -> SUBSET Nat] /\ \A q \in Plans : mergedByUs'[q] \subseteq approved[q]
      BY <1>1, <2>1, <2>3, <3>1 DEF DeliveryTypes
    <3>3. pr' = [pr EXCEPT ![p].state = "merged"] /\ pr \in [Plans -> PrRow]
      BY <1>1, <2>3 DEF Merged, DeliveryTypes
    <3>4. pr' \in [Plans -> PrRow] /\ \A q \in Plans : pr[q].state = "merged" => pr'[q].state = "merged"
      BY <3>3 DEF PrRow
    <3> QED BY <3>2, <3>4
  <2>4. ASSUME NEW p \in Plans, pr[p].state = "none", UNCHANGED mergedByUs,
               pr' = [pr EXCEPT ![p] = [state |-> "open", gate |-> "draft", head |-> 1]]
        PROVE  /\ pr' \in [Plans -> PrRow] /\ mergedByUs' \in [Plans -> SUBSET Nat]
               /\ \A q \in Plans : /\ pr[q].state = "merged" => pr'[q].state = "merged"
                                   /\ mergedByUs'[q] \subseteq approved[q]
    <3> DEFINE row == [state |-> "open", gate |-> "draft", head |-> 1]
    <3>1. row \in PrRow
      BY DEF PrRow
    <3>2. pr' = [pr EXCEPT ![p] = row]
      BY <2>4
    <3> HIDE DEF row
    <3> QED BY <1>1, <2>1, <2>4, <3>1, <3>2 DEF DeliveryTypes
  <2> QED BY <2>2, <2>3, <2>4 DEF Crash
<1>4. DeliveryTypes'
  <2>1. "none" \in FeatureStatuses
    BY DEF FeatureStatuses
  <2> QED BY <1>1, <1>3, <2>1, NoWorkRow DEF DeliveryTypes
<1>5. ASSUME NEW q \in Plans PROVE MergeIsApproved(q)' /\ CompletionIsSeen(q)'
  <2>1. CompletionIsSeen(q)
    BY DEF DeliveryInv
  <2>2. plan[q].status = "completed" => plan'[q].status = "completed"
    BY <1>2 DEF PlansAdvance, FinalStays, Final
  <2>3. work'[q] = NoWork
    BY <1>1
  <2> QED BY <1>1, <1>3, <2>1, <2>2, <2>3, NothingSeen DEF MergeIsApproved, CompletionIsSeen
<1> QED BY <1>2, <1>4, <1>5 DEF DeliveryInv, PlansAdvance

LEMMA DeliveryStep ==
  ASSUME DeliveryInv, [DeliveryNext]_deliveryVars
  PROVE  DeliveryInv'
<1>1. ASSUME NEW p \in Plans,
             \/ FeatureTurn(p) \/ ReviewStep(p) \/ GitHubFails(p)
             \/ \E isRetry \in BOOLEAN : ManualReview(p, isRetry)
             \/ CancelFeature(p) \/ CancelStep(p) \/ AssemblyStarts(p) \/ AssemblyStep(p)
             \/ PrEvent(p) \/ ChecksPass(p) \/ TaskReopened(p) \/ PlanStep(p)
      PROVE  DeliveryInv'
  BY <1>1, TurnIsTaken, ReviewMovesOn, ManualReviewStarts, CancellationMovesOn, AssemblyMovesOn,
     SurroundingsMoveOn
<1>2. CASE UNCHANGED deliveryVars
  <2>1. UNCHANGED <<plan, deps, members, feature, pr, listed, work, outbox, approved, mergedByUs>>
    BY <1>2 DEF deliveryVars, queueVars
  <2> QED BY <2>1, QueueRests, FeaturesRest DEF DeliveryInv, DeliveryTypes
<1> QED BY <1>1, <1>2, FeaturesAreListed, CrashIsSurvived DEF DeliveryNext

LEMMA DeliveryBegins == DeliveryInit => DeliveryInv
<1> SUFFICES ASSUME DeliveryInit PROVE DeliveryInv
  OBVIOUS
<1>1. PICK mb \in Loaded : members = mb /\ plan = [p \in Plans |-> IF mb[p] = {} THEN NoPlan ELSE NewPlan]
  BY DEF DeliveryInit, PlansLoaded
<1>2. /\ NewPlan \in PlanRow /\ NewPlan.status = "queued" /\ NoPlan \in PlanRow /\ NoPlan.status = "none"
  <2>1. 1 \in 1..MaxRevision /\ 0 \in 0..MaxPriority
    BY QueueBounds
  <2> QED BY <2>1 DEF NoPlan, NewPlan, PlanRow, PlanStatuses, Reasons
<1>3. plan \in PlanTable /\ members \in [Plans -> SUBSET Tasks] /\ TaskInOneOpenPlan
  BY <1>1, <1>2, QueueBounds DEF PlanTable, TaskInOneOpenPlan
<1>4. deps \in DepTable /\ \A p \in Plans : deps[p] = IF p = 2 THEN {1} ELSE {}
  BY DeliveryBounds DEF DeliveryInit, DepTable
<1>5. Acyclic(deps)
  <2>1. Closed({1}, deps)
    BY <1>4, DeliveryBounds DEF Closed
  <2>2. Reaches(deps, 1) \subseteq {1}
    BY <1>4, <2>1, DeliveryBounds, ReachesLess
  <2> QED BY <1>4, <2>2 DEF Acyclic
<1>6. 1 \in Created(plan)
  BY <1>1, <1>2, DeliveryBounds DEF Created
<1>7. QueueInv
  BY <1>3, <1>4, <1>5, <1>6 DEF QueueInv
<1>8. DeliveryTypes /\ \A p \in Plans : work[p] = NoWork /\ mergedByUs[p] = {} /\ feature[p] = "none"
  <2>1. "none" \in FeatureStatuses
    BY DEF FeatureStatuses
  <2> QED BY <2>1, NoWorkRow DEF DeliveryInit, PlansLoaded, DeliveryStarts, DeliveryTypes
<1> QED BY <1>7, <1>8, NothingSeen DEF DeliveryInv, MergeIsApproved, CompletionIsSeen

LEMMA DeliveryInvariant == DeliverySpec => []DeliveryInv
BY DeliveryBegins, DeliveryStep, PTL DEF DeliverySpec

\* Whatever Maestro merged was approved at exactly that head, and a Feature that is
\* completed has its pull request merged, its plan completed and its review in the
\* outbox, whatever failed, crashed or was retried on the way (mergeReviewedFeature,
\* completeFeature).
THEOREM CompletionIsEarnedHolds == DeliverySpec => []CompletionIsEarned
<1>1. DeliveryInv => CompletionIsEarned
  BY DEF DeliveryInv, CompletionIsEarned, MergedHeadWasApproved, CompletionIsWhole, MergeIsApproved,
         CompletionIsSeen
<1> QED BY <1>1, DeliveryInvariant, PTL

\* The plans stay in order too while they are assembled, reviewed, completed, cancelled
\* and recovered from crashes (revalidateQueuedFeaturePlans, completeFeature).
THEOREM DeliveryKeepsPlansInOrder == DeliverySpec => []PlansStayInOrder
<1>1. DeliveryInv => PlansStayInOrder
  BY DEF DeliveryInv, QueueInv, PlansStayInOrder, PlansStayAcyclic, Acyclic
<1> QED BY <1>1, DeliveryInvariant, PTL

-----------------------------------------------------------------------------
(* Admission by the commands of the queue                                  *)

LegalAdmission ==
  \A p \in Admitted : /\ \A d \in deps[p] : plan'[d].status = "completed"
                      /\ Writers(plan') = {p} /\ ~plan'[p].paused

LEMMA CarriedAdmission ==
  ASSUME deps \in DepTable, Carries(plan, plan', deps)
  PROVE  LegalAdmission
<1>1. "queued" \notin Writing /\ "blocked" \notin Writing
  BY DEF Writing
<1>2. Legal(plan, plan, deps)
  BY <1>1 DEF Legal
<1>3. Legal(plan, plan', deps)
  BY <1>2 DEF Carries
<1>4. \A p \in Plans : deps[p] \cap Plans = deps[p]
  BY DEF DepTable
<1> QED BY <1>3, <1>4 DEF Legal, LegalAdmission, Admitted

LEMMA CommandAdmits ==
  ASSUME QueueInv, NEW p \in Plans, AdmitFeaturePlan(p) \/ RetryFeaturePlan(p) \/ CancelFeaturePlan(p)
  PROVE  LegalAdmission
<1>1. plan \in PlanTable /\ deps \in DepTable
  BY DEF QueueInv
<1>2. CASE AdmitFeaturePlan(p)
  <2> DEFINE live == ReconciledAll(plan, Created(plan))
  <2>1. Created(plan) \in SUBSET Plans
    BY DEF Created
  <2>2. live \in PlanTable /\ Carries(plan, live, deps)
    BY <1>1, <2>1, ReconciledTable, ReconcilingShrinks, ShrinkingCarries
  <2>3. Eligible(live, deps, p) /\ plan' = StatusUpdated(live, p, "admitted", "none")
    BY <1>2 DEF AdmitFeaturePlan
  <2> HIDE DEF live
  <2>4. Carries(live, plan', deps)
    BY <2>2, <2>3, AdmissionCarries
  <2>5. Carries(plan, plan', deps)
    BY <2>2, <2>4 DEF Carries
  <2> QED BY <1>1, <2>5, CarriedAdmission
<1>3. CASE RetryFeaturePlan(p)
  <2> DEFINE a == StatusUpdated(plan, p, "queued", "none")
  <2>1. plan' = RevalidatedQueue(a, deps) /\ plan[p].status = "blocked"
    BY <1>3 DEF RetryFeaturePlan
  <2>2. "queued" \in PlanStatuses \ {"none"} /\ "none" \in Reasons /\ "queued" \notin Writing
    BY DEF PlanStatuses, Reasons, Writing
  <2>3. a \in PlanTable
    BY <1>1, <2>2, StatusUpdatedCell DEF Updated
  <2>4. Carries(plan, a, deps)
    BY <1>1, <2>1, <2>2, StatusShrinks, ShrinkingCarries
  <2> HIDE DEF a
  <2>5. Carries(a, plan', deps)
    BY <2>1, <2>3, Revalidation
  <2>6. Carries(plan, plan', deps)
    BY <2>4, <2>5 DEF Carries
  <2> QED BY <1>1, <2>6, CarriedAdmission
<1>4. CASE CancelFeaturePlan(p)
  <2> DEFINE a == [plan EXCEPT ![p].status = "cancelled"]
  <2>1. plan' = RevalidatedQueue(a, deps) /\ plan[p].status \notin Final /\ "cancelled" \in Final
    BY <1>4 DEF CancelFeaturePlan, Final
  <2>2. a \in PlanTable
    BY <1>1, <2>1, RowSettled
  <2>3. Shrinks(plan, a)
    BY <1>1, <2>1 DEF Shrinks, Writing, Final, PlanTable, PlanRow
  <2> HIDE DEF a
  <2>4. Carries(plan, a, deps) /\ Carries(a, plan', deps)
    BY <2>1, <2>2, <2>3, ShrinkingCarries, Revalidation
  <2>5. Carries(plan, plan', deps)
    BY <2>4 DEF Carries
  <2> QED BY <1>1, <2>5, CarriedAdmission
<1> QED BY <1>2, <1>3, <1>4

LEMMA RevalidationAdmits ==
  ASSUME QueueInv, RevalidateFeaturePlanQueue
  PROVE  LegalAdmission
<1>1. plan \in PlanTable /\ deps \in DepTable /\ plan' = RevalidatedQueue(plan, deps)
  BY DEF QueueInv, RevalidateFeaturePlanQueue
<1> QED BY <1>1, Revalidation, CarriedAdmission

-----------------------------------------------------------------------------
(* What a tick of the autopilot works on                                   *)

RunRow == [of : Tasks, status : RunStatuses, cat : Categories]
TickState ==
  [plan : PlanTable, task : [Tasks -> TaskStatuses], run : Seq(RunRow), worktree : SUBSET Tasks,
   recovering : SUBSET Tasks, retries : [1..MaxRuns -> Nat], backoff : SUBSET Nat,
   out : {"looking", "notify", "started"}, rest : Seq(Tasks), seen : [Tasks -> TaskStatuses],
   active : SUBSET Tasks]

\* A run that stopped because it proved a loop.
Down(r) == r.status \in {"blocked", "failed"} /\ r.cat = "loop"

\* Runs were resumed, none of them after a loop.
RunsKept(a, b) ==
  /\ Len(b) = Len(a)
  /\ \A i \in 1 .. Len(a) : /\ b[i].of = a[i].of /\ b[i].cat = a[i].cat
                            /\ b[i].status \in {a[i].status, "running"}
                            /\ Down(a[i]) => b[i].status = a[i].status

\* Besides Tasks and runs, what the loop knows and decides is the same.
Steady(s, r) ==
  /\ r \in TickState /\ r.plan = s.plan /\ r.seen = s.seen /\ r.active = s.active
  /\ r.out = s.out /\ RunsKept(s.run, r.run)

\* A Task that was taken up again has a run that is running.
Busy(rs, t) == \E i \in 1 .. Len(rs) : rs[i].of = t /\ rs[i].status = "running"
Lifts(s, r) == \A t \in Tasks : r.task[t] # s.task[t] => Busy(r.run, t)

LEMMA RunsKeptTransitively ==
  ASSUME NEW a, NEW b, NEW c, RunsKept(a, b), RunsKept(b, c)
  PROVE  RunsKept(a, c)
BY DEF RunsKept, Down

LEMMA SteadyTransitively ==
  ASSUME NEW s, NEW r, NEW q, Steady(s, r), Steady(r, q)
  PROVE  Steady(s, q)
BY RunsKeptTransitively DEF Steady

LEMMA LiftsTransitively ==
  ASSUME NEW s, NEW r, NEW q, Lifts(s, r), Lifts(r, q), RunsKept(r.run, q.run)
  PROVE  Lifts(s, q)
<1>1. ASSUME NEW t, Busy(r.run, t) PROVE Busy(q.run, t)
  BY <1>1 DEF Busy, RunsKept
<1> QED BY <1>1 DEF Lifts

LEMMA NothingKept ==
  ASSUME NEW s \in TickState
  PROVE  Steady(s, s) /\ Lifts(s, s)
BY DEF Steady, Lifts, RunsKept

LEMMA LatestIsOne ==
  ASSUME NEW n \in Nat, NEW is \in SUBSET (1 .. n), is # {}
  PROVE  Latest(is) \in is
<1> DEFINE below == {k \in Nat : n - k \in is}
<1>1. PICK i \in is : TRUE
  OBVIOUS
<1>2. n - i \in below
  BY <1>1
<1>3. PICK m \in below : \A k \in below : m <= k
  BY <1>2, Smallest
<1>4. n - m \in is /\ \A j \in is : j <= n - m
  <2>1. ASSUME NEW j \in is PROVE j <= n - m
    <3>1. n - j \in below
      OBVIOUS
    <3>2. m <= n - j /\ m \in Nat /\ j \in Nat
      BY <1>3, <3>1
    <3> QED BY <3>2
  <2> QED BY <1>3, <2>1
<1> QED BY <1>4 DEF Latest

LEMMA ResumedState ==
  ASSUME NEW s \in TickState, NEW i \in 1 .. Len(s.run), ~Down(s.run[i])
  PROVE  Steady(s, Resumed(s, i)) /\ Lifts(s, Resumed(s, i))
<1> DEFINE t == s.run[i].of
           rs == [s.run EXCEPT ![i].status = "running"]
           ts == [s.task EXCEPT ![t] = "planning"]
           r == [s EXCEPT !.run = rs, !.task = ts]
<1>1. s.run \in Seq(RunRow) /\ s.run[i] \in RunRow /\ t \in Tasks
  <2>1. s.run \in Seq(RunRow)
    BY DEF TickState
  <2>2. s.run[i] \in RunRow
    BY <2>1
  <2> QED BY <2>1, <2>2 DEF RunRow
<1>2. [s.run[i] EXCEPT !.status = "running"] \in RunRow
  BY <1>1 DEF RunRow, RunStatuses
<1>3. /\ rs \in Seq(RunRow) /\ Len(rs) = Len(s.run)
      /\ \A j \in 1 .. Len(s.run) :
           rs[j] = IF j = i THEN [s.run[i] EXCEPT !.status = "running"] ELSE s.run[j]
  BY <1>1, <1>2
<1>4. ts \in [Tasks -> TaskStatuses] /\ \A u \in Tasks : u # t => ts[u] = s.task[u]
  BY DEF TickState, TaskStatuses
<1>5. Resumed(s, i) = r
  BY DEF Resumed
<1>6. RunsKept(s.run, rs)
  BY <1>1, <1>3 DEF RunsKept, RunRow
<1>7. Busy(rs, t)
  BY <1>1, <1>3 DEF Busy, RunRow
<1> HIDE DEF rs, ts, t
<1>8. /\ r \in TickState /\ r.run = rs /\ r.task = ts /\ r.plan = s.plan /\ r.seen = s.seen
      /\ r.active = s.active /\ r.out = s.out
  BY <1>3, <1>4 DEF TickState
<1> QED BY <1>4, <1>5, <1>6, <1>7, <1>8 DEF Steady, Lifts

LEMMA RetriedState ==
  ASSUME NEW s \in TickState, NEW i \in 1 .. Len(s.run)
  PROVE  Steady(s, AutoRetried(s, i)) /\ Lifts(s, AutoRetried(s, i))
<1> DEFINE t == s.run[i].of
           lifted == Retryable(s, t)
           r == AutoRetried(s, i)
<1>1. s.run \in Seq(RunRow) /\ s.retries \in [1..MaxRuns -> Nat] /\ s.backoff \in SUBSET Nat
  BY DEF TickState
<1>2. ASSUME NEW q \in TickState
      PROVE  /\ [q EXCEPT !.retries[i] = @ + 1] \in TickState
             /\ Steady(q, [q EXCEPT !.retries[i] = @ + 1]) /\ Lifts(q, [q EXCEPT !.retries[i] = @ + 1])
  <2> DEFINE x == [k \in 1..MaxRuns |-> IF k = i THEN q.retries[k] + 1 ELSE q.retries[k]]
             b == [q EXCEPT !.retries = x]
  <2>1. x \in [1..MaxRuns -> Nat]
    <3>1. q.retries \in [1..MaxRuns -> Nat]
      BY DEF TickState
    <3>2. \A k \in 1..MaxRuns : q.retries[k] \in Nat
      BY <3>1
    <3> HIDE <3>1
    <3>3. \A k \in 1..MaxRuns : (IF k = i THEN q.retries[k] + 1 ELSE q.retries[k]) \in Nat
      BY <3>2
    <3> QED BY <3>3
  <2>2. [q EXCEPT !.retries[i] = @ + 1] = b
    <3>1. q.retries \in [1..MaxRuns -> Nat]
      BY DEF TickState
    <3>2. [q.retries EXCEPT ![i] = @ + 1] = x
      BY <3>1
    <3> QED BY <3>2
  <2> HIDE DEF x
  <2>3. /\ b \in TickState /\ b.plan = q.plan /\ b.seen = q.seen /\ b.active = q.active
        /\ b.out = q.out /\ b.run = q.run /\ b.task = q.task
    BY <2>1 DEF TickState
  <2> QED BY <2>2, <2>3 DEF Steady, RunsKept, Lifts
<1>3. ASSUME NEW q \in TickState
      PROVE  /\ [q EXCEPT !.backoff = @ \cup {i}] \in TickState
             /\ Steady(q, [q EXCEPT !.backoff = @ \cup {i}]) /\ Lifts(q, [q EXCEPT !.backoff = @ \cup {i}])
  <2> DEFINE x == q.backoff \cup {i}
             b == [q EXCEPT !.backoff = x]
  <2>1. x \in SUBSET Nat
    BY <1>1 DEF TickState
  <2> HIDE DEF x
  <2>3. /\ b \in TickState /\ b.plan = q.plan /\ b.seen = q.seen /\ b.active = q.active
        /\ b.out = q.out /\ b.run = q.run /\ b.task = q.task
    BY <2>1 DEF TickState
  <2> QED BY <2>3 DEF Steady, RunsKept, Lifts, x
<1> DEFINE spared == i \in s.backoff \/ s.retries[i] >= MaxAutoRetries
<1>4. CASE spared
  <2>1. r = s
    BY <1>4 DEF AutoRetried
  <2> QED BY <2>1, NothingKept
<1>5. CASE ~spared /\ lifted # {}
  <2> DEFINE j == Latest(lifted)
             q == Resumed(s, j)
             n == [q EXCEPT !.retries[i] = @ + 1]
  <2>1. r = [n EXCEPT !.backoff = @ \cup {i}]
    BY <1>5 DEF AutoRetried
  <2>2. lifted \in SUBSET (1 .. Len(s.run)) /\ \A k \in lifted : s.run[k].cat = "budget_exhausted"
    BY <1>1 DEF Retryable, RunsOf
  <2>3. j \in 1 .. Len(s.run) /\ ~Down(s.run[j])
    <3>1. Len(s.run) \in Nat
      BY <1>1
    <3> QED BY <1>5, <2>2, <3>1, LatestIsOne DEF Down
  <2>4. Steady(s, q) /\ Lifts(s, q)
    BY <2>3, ResumedState
  <2> HIDE DEF q, j
  <2>5. n \in TickState /\ Steady(q, n) /\ Lifts(q, n)
    BY <1>2, <2>4 DEF Steady
  <2> HIDE DEF n
  <2>6. Steady(n, r) /\ Lifts(n, r)
    BY <1>3, <2>1, <2>5
  <2>7. Steady(s, n) /\ Lifts(s, n)
    BY <2>4, <2>5, SteadyTransitively, LiftsTransitively DEF Steady
  <2>8. RunsKept(n.run, r.run)
    BY <2>6 DEF Steady
  <2> HIDE DEF r
  <2> QED BY <2>6, <2>7, <2>8, SteadyTransitively, LiftsTransitively DEF r
<1>6. CASE ~spared /\ lifted = {}
  <2>1. r = [s EXCEPT !.retries[i] = @ + 1]
    BY <1>6 DEF AutoRetried
  <2> QED BY <1>2, <2>1
<1> QED BY <1>4, <1>5, <1>6

LEMMA ForgottenState ==
  ASSUME NEW s \in TickState
  PROVE  Steady(s, Forgotten(s)) /\ Lifts(s, Forgotten(s)) /\ Forgotten(s).run = s.run
<1> DEFINE ended == {i \in DOMAIN s.run : s.run[i].status \in {"completed", "failed", "cancelled"}}
           x == [i \in 1..MaxRuns |-> IF i \in ended THEN 0 ELSE s.retries[i]]
           y == s.backoff \ ended
           b == [s EXCEPT !.retries = x, !.backoff = y]
<1>1. x \in [1..MaxRuns -> Nat] /\ y \in SUBSET Nat
  BY DEF TickState
<1>2. Forgotten(s) = b
  BY DEF Forgotten
<1> HIDE DEF x, y
<1>3. /\ b \in TickState /\ b.plan = s.plan /\ b.seen = s.seen /\ b.active = s.active
      /\ b.out = s.out /\ b.run = s.run /\ b.task = s.task
  BY <1>1 DEF TickState
<1> QED BY <1>2, <1>3 DEF Steady, RunsKept, Lifts

\* Goals stopped by their budget are lifted, those that looped are not.
LEMMA BudgetsLifted ==
  ASSUME NEW s \in TickState
  PROVE  Steady(s, RecoverBudgetBlockedGoals(s)) /\ Lifts(s, RecoverBudgetBlockedGoals(s))
<1> DEFINE blocked == BudgetBlocked(s.run)
           others == blocked \ {Latest(blocked)}
           f == Forgotten(s)
           first == AutoRetried(f, Latest(blocked))
           r == RecoverBudgetBlockedGoals(s)
<1>1. s.run \in Seq(RunRow)
  BY DEF TickState
<1>2. /\ blocked \in SUBSET (1 .. Len(s.run)) /\ others \in SUBSET (1 .. Len(s.run))
      /\ Len(s.run) \in Nat
  BY <1>1 DEF BudgetBlocked
<1>3. f \in TickState /\ f.run = s.run /\ Steady(s, f) /\ Lifts(s, f)
  BY ForgottenState DEF Steady
<1> HIDE DEF f
<1>4. CASE blocked = {}
  <2>1. r = f
    BY <1>4 DEF RecoverBudgetBlockedGoals, f
  <2> QED BY <1>3, <2>1
<1>5. CASE blocked # {}
  <2>1. Latest(blocked) \in 1 .. Len(f.run)
    BY <1>2, <1>3, <1>5, LatestIsOne
  <2>2. Steady(f, first) /\ Lifts(f, first)
    BY <1>3, <2>1, RetriedState
  <2>3. Steady(s, first) /\ Lifts(s, first) /\ first \in TickState /\ Len(first.run) = Len(s.run)
    BY <1>3, <2>2, SteadyTransitively, LiftsTransitively DEF Steady, RunsKept
  <2> HIDE DEF first
  <2>4. CASE others = {}
    <3>1. r = first
      BY <1>5, <2>4 DEF RecoverBudgetBlockedGoals, first, f
    <3> QED BY <2>3, <3>1
  <2>5. CASE others # {}
    <3>1. r = AutoRetried(first, Latest(others))
      BY <1>5, <2>5 DEF RecoverBudgetBlockedGoals, first, f
    <3>2. Latest(others) \in 1 .. Len(first.run)
      BY <1>2, <2>3, <2>5, LatestIsOne
    <3>3. Steady(first, r) /\ Lifts(first, r)
      BY <2>3, <3>1, <3>2, RetriedState
    <3>4. RunsKept(first.run, r.run)
      BY <3>3 DEF Steady
    <3> HIDE DEF r
    <3> QED BY <2>3, <3>3, <3>4, SteadyTransitively, LiftsTransitively DEF r
  <2> QED BY <2>4, <2>5
<1> QED BY <1>4, <1>5

\* A run of Task t is created and the tick is done.
NewRun(t) == [of |-> t, status |-> "running", cat |-> "none"]
Launches(s, r, t) ==
  /\ r \in TickState /\ r.plan = s.plan /\ r.seen = s.seen /\ r.active = s.active
  /\ r.out = "started" /\ r.run = Append(s.run, NewRun(t))
  /\ \A u \in Tasks : r.task[u] = IF u = t THEN "planning" ELSE s.task[u]

LEMMA StartedState ==
  ASSUME NEW s \in TickState, NEW t \in Tasks
  PROVE  Launches(s, Stop(Started(s, t), "started"), t)
<1> DEFINE rs == Append(s.run, NewRun(t))
           ts == [s.task EXCEPT ![t] = "planning"]
           r == [s EXCEPT !.run = rs, !.task = ts, !.out = "started"]
<1>1. NewRun(t) \in RunRow
  BY DEF NewRun, RunRow, RunStatuses, Categories
<1>2. rs \in Seq(RunRow)
  BY <1>1 DEF TickState
<1>3. ts \in [Tasks -> TaskStatuses] /\ \A u \in Tasks : ts[u] = IF u = t THEN "planning" ELSE s.task[u]
  BY DEF TickState, TaskStatuses
<1>4. Stop(Started(s, t), "started") = r
  BY DEF Stop, Started, NewRun
<1> HIDE DEF rs, ts
<1>5. /\ r \in TickState /\ r.run = rs /\ r.task = ts /\ r.plan = s.plan /\ r.seen = s.seen
      /\ r.active = s.active /\ r.out = "started"
  BY <1>2, <1>3 DEF TickState
<1> QED BY <1>3, <1>4, <1>5 DEF Launches, rs

\* A Task was prepared and has no run at work, and one is created.
LEMMA AdoptedState ==
  ASSUME NEW s \in TickState, NEW busy, NEW failing
  PROVE  \/ Adopted(s, busy, failing) = s
         \/ \E t \in Tasks : /\ s.task[t] = "planning" /\ ~Busy(s.run, t)
                             /\ Launches(s, Adopted(s, busy, failing), t)
<1> DEFINE tried == {t \in Orphans(s, busy) : Cardinality({u \in Orphans(s, busy) : u < t}) < 2}
           able == {t \in tried \ failing : CanStart(s, t)}
           first == CHOOSE t \in able : \A u \in able : t <= u
<1>1. Adopted(s, busy, failing) = IF able = {} THEN s ELSE Stop(Started(s, first), "started")
  BY DEF Adopted
<1>2. \A t \in able : t \in Tasks /\ s.task[t] = "planning" /\ CanStart(s, t)
  BY DEF Orphans
<1> HIDE DEF able
<1>3. CASE able = {}
  BY <1>1, <1>3
<1>4. CASE able # {}
  <2>1. able \in SUBSET Nat
    BY <1>2, AutopilotBounds
  <2>2. first \in able
    BY <1>4, <2>1, Smallest
  <2> HIDE DEF first
  <2>3. first \in Tasks /\ s.task[first] = "planning" /\ CanStart(s, first)
    BY <1>2, <2>2
  <2>4. s.run \in Seq(RunRow)
    BY DEF TickState
  <2>5. ~Busy(s.run, first)
    BY <2>3, <2>4 DEF CanStart, Busy, RunsOf, Unfinished
  <2>6. Adopted(s, busy, failing) = Stop(Started(s, first), "started")
    BY <1>1, <1>4
  <2> QED BY <2>3, <2>5, <2>6, StartedState
<1> QED BY <1>3, <1>4

LEMMA TaskWritten ==
  ASSUME NEW s \in TickState, NEW t \in Tasks, NEW to \in TaskStatuses
  PROVE  /\ Steady(s, [s EXCEPT !.task[t] = to])
         /\ [s EXCEPT !.task[t] = to].run = s.run
         /\ [s EXCEPT !.task[t] = to].task = [s.task EXCEPT ![t] = to]
<1> DEFINE ts == [s.task EXCEPT ![t] = to]
           r == [s EXCEPT !.task = ts]
<1>1. ts \in [Tasks -> TaskStatuses]
  BY DEF TickState
<1>2. [s EXCEPT !.task[t] = to] = r
  OBVIOUS
<1> HIDE DEF ts
<1>3. /\ r \in TickState /\ r.plan = s.plan /\ r.seen = s.seen /\ r.active = s.active
      /\ r.out = s.out /\ r.run = s.run /\ r.task = ts
  BY <1>1 DEF TickState
<1> QED BY <1>2, <1>3 DEF Steady, RunsKept, ts

LEMMA RecoveryAwaited ==
  ASSUME NEW s \in TickState, NEW t \in Tasks
  PROVE  Steady(s, WaitForRecovery(s, t))
<1> DEFINE ts == [s.task EXCEPT ![t] = "waiting_provider"]
           x == s.recovering \cup {t}
           r == [s EXCEPT !.task = ts, !.recovering = x]
<1>1. ts \in [Tasks -> TaskStatuses] /\ x \in SUBSET Tasks
  BY DEF TickState, TaskStatuses
<1>2. WaitForRecovery(s, t) = r
  BY DEF WaitForRecovery
<1> HIDE DEF ts, x
<1>3. /\ r \in TickState /\ r.plan = s.plan /\ r.seen = s.seen /\ r.active = s.active
      /\ r.out = s.out /\ r.run = s.run
  BY <1>1 DEF TickState
<1> QED BY <1>2, <1>3 DEF Steady, RunsKept

LEMMA TaskBlocked ==
  ASSUME NEW s \in TickState, NEW t \in Tasks
  PROVE  /\ BlockTask(s, t) \in TickState /\ BlockTask(s, t).plan = s.plan
         /\ BlockTask(s, t).seen = s.seen /\ BlockTask(s, t).active = s.active
         /\ BlockTask(s, t).out = "notify" /\ BlockTask(s, t).run = s.run
<1> DEFINE ts == [s.task EXCEPT ![t] = "blocked"]
           r == [s EXCEPT !.task = ts, !.out = "notify"]
<1>1. ts \in [Tasks -> TaskStatuses]
  BY DEF TickState, TaskStatuses
<1>2. BlockTask(s, t) = r
  BY DEF BlockTask, Stop
<1> HIDE DEF ts
<1>3. /\ r \in TickState /\ r.plan = s.plan /\ r.seen = s.seen /\ r.active = s.active
      /\ r.out = "notify" /\ r.run = s.run
  BY <1>1 DEF TickState
<1> QED BY <1>2, <1>3

LEMMA DependencyAwaited ==
  ASSUME NEW s \in TickState, NEW t \in Tasks, NEW on, NEW seen
  PROVE  Steady(s, WaitForDependency(s, t, on, seen))
<1> DEFINE i == Latest(Resumable(s.run, on))
           r == IF on = 0 THEN s ELSE Recover(s, on)
<1>1. s.run \in Seq(RunRow)
  BY DEF TickState
<1>2. Steady(s, s)
  BY NothingKept
<1>3. Steady(s, Recover(s, on))
  <2>1. CASE ~Recoverable(s.run, on)
    BY <1>2, <2>1 DEF Recover
  <2>2. CASE Recoverable(s.run, on)
    <3>1. Resumable(s.run, on) \in SUBSET (1 .. Len(s.run)) /\ Resumable(s.run, on) # {}
      BY <1>1, <2>2 DEF Resumable, RunsOf, Recoverable
    <3>2. Len(s.run) \in Nat
      BY <1>1
    <3>3. i \in 1 .. Len(s.run)
      BY <3>1, <3>2, LatestIsOne
    <3>4. ~Down(s.run[i])
      BY <2>2 DEF Down, Recoverable
    <3>5. Steady(s, Resumed(s, i))
      BY <3>3, <3>4, ResumedState
    <3>6. Recover(s, on) \in {s, Resumed(s, i)}
      BY DEF Recover
    <3> QED BY <1>2, <3>5, <3>6
  <2> QED BY <2>1, <2>2
<1>4. Steady(s, r) /\ r \in TickState
  BY <1>2, <1>3 DEF Steady
<1>5. WaitForDependency(s, t, on, seen) \in {r, [r EXCEPT !.task[t] = "waiting_dependency"]}
  BY DEF WaitForDependency
<1> HIDE DEF r
<1>6. Steady(r, [r EXCEPT !.task[t] = "waiting_dependency"])
  <2>1. "waiting_dependency" \in TaskStatuses
    BY DEF TaskStatuses
  <2> QED BY <1>4, <2>1, TaskWritten
<1> QED BY <1>4, <1>5, <1>6, SteadyTransitively

LEMMA PreparedState ==
  ASSUME NEW s \in TickState, NEW t \in Tasks, NEW failing
  PROVE  \/ Steady(s, PrepareAndStart(s, t, failing))
         \/ s.task[t] = "queued" /\ Launches(s, PrepareAndStart(s, t, failing), t)
<1> DEFINE ts == [s.task EXCEPT ![t] = "planning"]
           x == s.worktree \cup {t}
           prepared == [s EXCEPT !.task = ts, !.worktree = x]
           r == PrepareAndStart(s, t, failing)
<1>1. ts \in [Tasks -> TaskStatuses] /\ x \in SUBSET Tasks
  BY DEF TickState, TaskStatuses
<1>2. prepared = [s EXCEPT !.task[t] = "planning", !.worktree = @ \cup {t}]
  OBVIOUS
<1>3. \A u \in Tasks : ts[u] = IF u = t THEN "planning" ELSE s.task[u]
  BY DEF TickState
<1> HIDE DEF ts, x
<1>4. /\ prepared \in TickState /\ prepared.plan = s.plan /\ prepared.seen = s.seen
      /\ prepared.active = s.active /\ prepared.out = s.out /\ prepared.run = s.run /\ prepared.task = ts
  BY <1>1 DEF TickState
<1>5. Steady(s, prepared) /\ Steady(s, s)
  BY <1>4, NothingKept DEF Steady, RunsKept
<1>6. CASE s.task[t] # "queued"
  <2>1. r = s
    BY <1>6 DEF PrepareAndStart
  <2> QED BY <1>5, <2>1
<1>7. CASE s.task[t] = "queued" /\ t \in failing
  <2>1. r = WaitForRecovery(s, t)
    BY <1>7 DEF PrepareAndStart
  <2> QED BY <2>1, RecoveryAwaited
<1>8. CASE s.task[t] = "queued" /\ t \notin failing /\ ~CanStart(prepared, t)
  <2>1. r = WaitForRecovery(prepared, t)
    BY <1>2, <1>8 DEF PrepareAndStart
  <2> HIDE DEF prepared
  <2>2. Steady(prepared, r)
    BY <1>4, <2>1, RecoveryAwaited
  <2> QED BY <1>5, <2>2, SteadyTransitively
<1>9. CASE s.task[t] = "queued" /\ t \notin failing /\ CanStart(prepared, t)
  <2>1. r = Stop(Started(prepared, t), "started")
    BY <1>2, <1>9 DEF PrepareAndStart
  <2> HIDE DEF prepared
  <2>2. Launches(prepared, r, t)
    BY <1>4, <2>1, StartedState
  <2>3. Launches(s, r, t)
    BY <1>3, <1>4, <2>2 DEF Launches
  <2> QED BY <1>9, <2>3
<1> QED BY <1>6, <1>7, <1>8, <1>9

-----------------------------------------------------------------------------
(* The readiness of a Task                                                 *)

\* In a graph that was validated no Task comes to depend on itself.
LEMMA DependenciesAreEarlier ==
  ASSUME NEW scope \in SUBSET Tasks, ValidTaskGraph(scope, TaskDeps), NEW t \in scope
  PROVE  t \notin TransitiveDependencies(scope, TaskDeps, t)
<1> DEFINE T == SUBSET Tasks
           more(D) == D \cup UNION {TaskDeps[d] : d \in D}
           Walk(f) == f = [n \in Nat |-> IF n = 0 THEN TaskDeps[t] ELSE more(f[n - 1])]
           within == CHOOSE f : Walk(f)
           F == [x \in Nat \X T |-> more(x[2])]
<1>1. TransitiveDependencies(scope, TaskDeps, t) = within[t] \cap scope
  BY DEF TransitiveDependencies, DependenciesWithin
<1>2. t \in Nat /\ Tasks \in SUBSET Nat /\ TaskDeps \in [Tasks -> T] /\ TaskDeps[t] \in T
  BY AutopilotBounds
<1>3. ASSUME NEW D \in T PROVE more(D) \in T
  BY <1>2
<1> HIDE DEF T, more
<1>4. F \in [Nat \X T -> T]
  BY <1>3
<1>5. \A n \in Nat, D \in T : F[<<n, D>>] = more(D)
  OBVIOUS
<1> HIDE DEF F
<1>6. PICK f : Recursive(f, TaskDeps[t], F, T)
  BY <1>2, <1>4, Recursion
<1>7. Walk(f)
  <2>1. ASSUME NEW n \in Nat PROVE f[n] = IF n = 0 THEN TaskDeps[t] ELSE more(f[n - 1])
    <3>1. CASE n = 0
      BY <1>6, <3>1 DEF Recursive
    <3>2. CASE n # 0
      <4>1. n \in Nat \ {0} /\ n - 1 \in Nat
        BY <3>2
      <4>2. f[n - 1] \in T /\ f[n] = F[<<n, f[n - 1]>>]
        BY <1>6, <4>1 DEF Recursive
      <4> QED BY <1>5, <3>2, <4>2
    <3> QED BY <3>1, <3>2
  <2> QED BY <2>1, <1>6 DEF Recursive
<1>8. Walk(within)
  BY <1>7
<1> HIDE DEF within
<1>9. \A n \in Nat : \A d \in within[n] : d \in scope /\ d < t
  <2> DEFINE S == {n \in Nat : \A d \in within[n] : d \in scope /\ d < t}
  <2>1. within[0] = TaskDeps[t] /\ \A n \in Nat \ {0} : within[n] = more(within[n - 1])
    BY <1>8
  <2>2. \A u \in scope : \A d \in TaskDeps[u] : d \in scope /\ d < u
    BY DEF ValidTaskGraph
  <2>3. 0 \in S
    BY <2>1, <2>2
  <2>4. ASSUME NEW n \in S PROVE n + 1 \in S
    <3>1. n + 1 \in Nat \ {0} /\ (n + 1) - 1 = n /\ \A d \in within[n] : d \in scope /\ d < t
      OBVIOUS
    <3>2. within[n + 1] = more(within[n])
      BY <2>1, <3>1
    <3>3. ASSUME NEW d \in more(within[n]) PROVE d \in scope /\ d < t
      <4>1. CASE d \in within[n]
        BY <3>1, <4>1
      <4>2. CASE d \notin within[n]
        <5>1. PICK u \in within[n] : d \in TaskDeps[u]
          BY <4>2 DEF more
        <5>2. u \in scope /\ u < t /\ d \in scope /\ d < u
          BY <2>2, <3>1, <5>1
        <5>3. u \in Nat /\ d \in Nat
          BY <1>2, <5>2
        <5> QED BY <1>2, <5>2, <5>3
      <4> QED BY <4>1, <4>2
    <3> QED BY <3>1, <3>2, <3>3
  <2> HIDE DEF S
  <2>5. S \in SUBSET Nat
    BY DEF S
  <2>6. \A n \in Nat : n \in S
    BY <2>3, <2>4, <2>5, Induction
  <2> QED BY <2>6 DEF S
<1> QED BY <1>1, <1>2, <1>9

\* No Feature completes behind the queue's back: the deliveries do not act here.
FeaturesIdle == \A p \in Plans : feature[p] = "none"
GraphsValid == \A p \in Plans : members[p] \in SUBSET Tasks /\ ValidTaskGraph(members[p], TaskDeps)
Apart(pl) ==
  \A p, q \in Plans : p # q /\ IsOpen(pl, p) /\ IsOpen(pl, q) => members[p] \cap members[q] = {}

\* Plans are admitted and start, and that is all.
PlansMove(a, b) ==
  /\ b \in PlanTable /\ Advances(a, b) /\ Carries(a, b, deps)
  /\ \A p \in Plans : IsOpen(a, p) <=> IsOpen(b, p)

LEMMA PlansMoveTransitively ==
  ASSUME NEW a, NEW b, NEW c, PlansMove(a, b), PlansMove(b, c)
  PROVE  PlansMove(a, c)
<1>1. Advances(a, c)
  BY AdvancesTransitively DEF PlansMove
<1> QED BY <1>1 DEF PlansMove, Carries

LEMMA StatusMoves ==
  ASSUME FeaturesIdle, NEW a \in PlanTable, NEW p \in Plans, NEW to \in {"admitted", "active"},
         IsOpen(a, p), Carries(a, StatusUpdated(a, p, to, "none"), deps)
  PROVE  PlansMove(a, StatusUpdated(a, p, to, "none"))
<1> DEFINE b == StatusUpdated(a, p, to, "none")
<1>1. to \in PlanStatuses \ {"none"} /\ to \notin Final /\ "none" \in Reasons
  BY DEF PlanStatuses, Reasons, Final
<1>2. feature[p] # "completed"
  BY DEF FeaturesIdle
<1>3. Updated(a, b, p, to)
  BY <1>1, StatusUpdatedCell
<1> HIDE DEF b
<1>4. /\ b \in PlanTable /\ b[p].status = to
      /\ \A q \in Plans : q # p => b[q].status = a[q].status
  BY <1>2, <1>3 DEF Updated
<1>5. Advances(a, b) /\ \A q \in Plans : IsOpen(a, q) <=> IsOpen(b, q)
  BY <1>1, <1>4 DEF Advances, IsOpen
<1> QED BY <1>4, <1>5 DEF PlansMove, b

\* The plans of a Task, and that it may start: its plan has the lease and is not paused,
\* its dependencies are delivered, none of them by a run of `rs` that ended in a loop.
ReadyIn(pl, ts, rs, t) ==
  \A p \in Plans : t \in members[p] /\ IsOpen(pl, p) =>
    /\ pl[p].status \in Writing /\ ~pl[p].paused
    /\ \A d \in TransitiveDependencies(members[p], TaskDeps, t) :
         ts[d] \in Satisfied /\ ~LoopEnded(rs, d)

LEMMA VerdictOfPlan ==
  ASSUME FeaturesIdle, NEW s \in TickState, NEW t \in Tasks, NEW active,
         NEW p \in Plans, t \in members[p], IsOpen(s.plan, p)
  PROVE  LET v == PlanReadiness(s, p, t, active)
         IN /\ PlansMove(s.plan, v.plan)
            /\ v.state = "ready" =>
                 /\ v.plan[p].status \in Writing /\ ~v.plan[p].paused
                 /\ \A d \in TransitiveDependencies(members[p], TaskDeps, t) :
                      s.task[d] \in Satisfied /\ ~LoopEnded(s.run, d)
<1> DEFINE admitted == IF s.plan[p].status = "queued"
                       THEN StatusUpdated(s.plan, p, "admitted", "none") ELSE s.plan
           unmet == UnmetDependencies(s, p, t)
           first == CHOOSE d \in unmet : \A e \in unmet : d <= e
           active1 == IF admitted[p].status = "admitted"
                      THEN StatusUpdated(admitted, p, "active", "none") ELSE admitted
           v == PlanReadiness(s, p, t, active)
<1>1. s.plan \in PlanTable
  BY DEF TickState
<1>2. PlansMove(s.plan, s.plan)
  BY <1>1 DEF PlansMove, Advances, Carries
<1>3. CASE \/ s.plan[p].paused \/ s.plan[p].status = "blocked"
           \/ s.plan[p].status = "queued" /\ ~Eligible(s.plan, deps, p)
  <2>1. v.plan = s.plan /\ v.state # "ready"
    BY <1>3 DEF PlanReadiness, Verdict
  <2> QED BY <1>2, <2>1
<1>4. CASE ~(\/ s.plan[p].paused \/ s.plan[p].status = "blocked"
             \/ s.plan[p].status = "queued" /\ ~Eligible(s.plan, deps, p))
  <2>1. PlansMove(s.plan, admitted)
    <3>1. CASE s.plan[p].status = "queued"
      <4>1. Carries(s.plan, StatusUpdated(s.plan, p, "admitted", "none"), deps)
        BY <1>1, <1>4, <3>1, AdmissionCarries
      <4> QED BY <1>1, <3>1, <4>1, StatusMoves
    <3>2. CASE s.plan[p].status # "queued"
      BY <1>2, <3>2
    <3> QED BY <3>1, <3>2
  <2>2. admitted[p].status \in Writing /\ ~admitted[p].paused /\ IsOpen(admitted, p)
    <3>1. CASE s.plan[p].status = "queued"
      <4>1. "admitted" \in PlanStatuses \ {"none"} /\ "none" \in Reasons /\ "admitted" \in Writing
        BY DEF PlanStatuses, Reasons, Writing
      <4>2. Updated(s.plan, admitted, p, "admitted") /\ feature[p] # "completed"
        BY <1>1, <3>1, <4>1, StatusUpdatedCell DEF FeaturesIdle
      <4>3. admitted[p].status = "admitted" /\ admitted[p].paused = s.plan[p].paused
        BY <4>2 DEF Updated
      <4> QED BY <1>4, <4>1, <4>3 DEF IsOpen, Final
    <3>2. CASE s.plan[p].status # "queued"
      <4>1. s.plan[p].status \in PlanStatuses
        BY <1>1 DEF PlanTable, PlanRow
      <4> QED BY <1>4, <3>2, <4>1 DEF IsOpen, PlanStatuses, Final, Writing
    <3> QED BY <3>1, <3>2
  <2>3. \/ v.plan = admitted /\ v.state # "ready"
        \/ v.plan = active1 /\ v.state = "ready" /\ unmet = {}
    <3> HIDE DEF admitted
    <3>1. v = CASE unmet # {} -> Verdict(IF DependencyFailed(s, first) THEN "blocked" ELSE "waiting", first, admitted)
                [] unmet = {} /\ (\E u \in active : Conflicts(s, p, t, u)) -> Verdict("waiting", 0, admitted)
                [] OTHER -> Verdict("ready", 0, active1)
      BY <1>4 DEF PlanReadiness, admitted
    <3> HIDE DEF v, active1, unmet, first
    <3>2. CASE unmet # {}
      <4>1. v = Verdict(IF DependencyFailed(s, first) THEN "blocked" ELSE "waiting", first, admitted)
        BY <3>1, <3>2
      <4> QED BY <4>1 DEF Verdict
    <3>3. CASE unmet = {} /\ (\E u \in active : Conflicts(s, p, t, u))
      <4>1. v = Verdict("waiting", 0, admitted)
        BY <3>1, <3>3
      <4> QED BY <4>1 DEF Verdict
    <3>4. CASE unmet = {} /\ ~(\E u \in active : Conflicts(s, p, t, u))
      BY <3>1, <3>4 DEF Verdict
    <3> QED BY <3>2, <3>3, <3>4
  <2>4. admitted \in PlanTable
    BY <2>1 DEF PlansMove
  <2> HIDE DEF admitted
  <2>5. PlansMove(s.plan, active1) /\ active1[p].status \in Writing /\ ~active1[p].paused
    <3>1. CASE admitted[p].status # "admitted"
      BY <2>1, <2>2, <3>1
    <3>2. CASE admitted[p].status = "admitted"
      <4> DEFINE b == StatusUpdated(admitted, p, "active", "none")
      <4>1. /\ "active" \in PlanStatuses \ {"none"} /\ "none" \in Reasons
            /\ "active" \in Writing /\ "admitted" # "completed"
        BY DEF PlanStatuses, Reasons, Writing
      <4>2. Carries(admitted, b, deps)
        BY <2>2, <2>4, <3>2, <4>1, StatusShrinks, ShrinkingCarries
      <4>3. PlansMove(admitted, b)
        BY <2>2, <2>4, <4>2, StatusMoves
      <4>4. Updated(admitted, b, p, "active") /\ feature[p] # "completed"
        BY <2>4, <4>1, StatusUpdatedCell DEF FeaturesIdle
      <4>5. active1 = b
        BY <3>2
      <4> HIDE DEF b, active1
      <4>6. b[p].status = "active" /\ b[p].paused = admitted[p].paused
        BY <4>4 DEF Updated
      <4> QED BY <2>1, <2>2, <4>1, <4>3, <4>5, <4>6, PlansMoveTransitively
    <3> QED BY <3>1, <3>2
  <2>6. unmet = {} => \A d \in TransitiveDependencies(members[p], TaskDeps, t) :
                        s.task[d] \in Satisfied /\ ~LoopEnded(s.run, d)
    BY DEF UnmetDependencies
  <2> HIDE DEF v, active1, unmet
  <2> QED BY <2>1, <2>3, <2>5, <2>6 DEF v
<1> QED BY <1>3, <1>4

LEMMA VerdictMoves ==
  ASSUME FeaturesIdle, NEW s \in TickState, Apart(s.plan), NEW t \in Tasks, NEW active
  PROVE  LET v == Readiness(s, t, active)
         IN PlansMove(s.plan, v.plan) /\ (v.state = "ready" => ReadyIn(v.plan, s.task, s.run, t))
<1> DEFINE p == CHOOSE q \in PlanOf(s, t) : TRUE
           v == Readiness(s, t, active)
<1>1. \A q \in Plans : q \in PlanOf(s, t) <=> t \in members[q] /\ IsOpen(s.plan, q)
  BY DEF PlanOf, IsOpen
<1>2. CASE PlanOf(s, t) = {}
  <2>1. v.plan = s.plan
    BY <1>2 DEF Readiness, Verdict
  <2>2. PlansMove(s.plan, s.plan)
    BY DEF PlansMove, Advances, Carries, TickState
  <2>3. ReadyIn(s.plan, s.task, s.run, t)
    BY <1>1, <1>2 DEF ReadyIn
  <2> QED BY <2>1, <2>2, <2>3
<1>3. CASE PlanOf(s, t) # {}
  <2>1. p \in PlanOf(s, t) /\ p \in Plans
    BY <1>3 DEF PlanOf
  <2>2. v = PlanReadiness(s, p, t, active)
    BY <1>3 DEF Readiness
  <2> HIDE DEF p
  <2>3. t \in members[p] /\ IsOpen(s.plan, p)
    BY <1>1, <2>1
  <2>4. /\ PlansMove(s.plan, v.plan)
        /\ v.state = "ready" =>
             /\ v.plan[p].status \in Writing /\ ~v.plan[p].paused
             /\ \A d \in TransitiveDependencies(members[p], TaskDeps, t) :
                  s.task[d] \in Satisfied /\ ~LoopEnded(s.run, d)
    BY <2>1, <2>2, <2>3, VerdictOfPlan
  <2> HIDE DEF v
  <2>5. \A q \in Plans : t \in members[q] /\ IsOpen(v.plan, q) => q = p
    <3>1. \A q \in Plans : IsOpen(v.plan, q) => IsOpen(s.plan, q)
      BY <2>4 DEF PlansMove
    <3> QED BY <2>1, <2>3, <3>1 DEF Apart
  <2>6. v.state = "ready" => ReadyIn(v.plan, s.task, s.run, t)
    BY <2>4, <2>5 DEF ReadyIn
  <2> QED BY <2>4, <2>6 DEF v
<1> QED BY <1>2, <1>3

\* A turn of the loop resumes what did not loop, or starts a Task that is ready.
Turned(s, r) ==
  /\ r \in TickState /\ r.seen = s.seen /\ r.active = s.active /\ PlansMove(s.plan, r.plan)
  /\ \/ r.out \in {"looking", "notify"} /\ RunsKept(s.run, r.run)
     \/ /\ r.out = "started"
        /\ \E t \in Tasks : r.run = Append(s.run, NewRun(t)) /\ ReadyIn(r.plan, r.task, s.run, t)

LEMMA TurnTaken ==
  ASSUME FeaturesIdle, GraphsValid, NEW s \in TickState, s.out = "looking", Apart(s.plan),
         NEW t \in Tasks, NEW failing
  PROVE  Turned(s, QueueTurn(s, t, failing))
<1> DEFINE retried == IF s.seen[t] = "waiting_provider" THEN [s EXCEPT !.task[t] = "queued"] ELSE s
           v == Readiness(retried, t, s.active)
           moved == [retried EXCEPT !.plan = v.plan]
           ready == [retried EXCEPT !.plan = v.plan,
                       !.task[t] = IF s.seen[t] = "waiting_dependency" THEN "queued" ELSE @]
           r == QueueTurn(s, t, failing)
<1>1. Steady(s, s) /\ PlansMove(s.plan, s.plan)
  BY NothingKept DEF PlansMove, Advances, Carries, TickState
<1>2. "queued" \in TaskStatuses
  BY DEF TaskStatuses
<1>3. Steady(s, retried) /\ retried.run = s.run
  BY <1>1, <1>2, TaskWritten
<1>4. /\ retried \in TickState /\ retried.out = "looking" /\ retried.plan = s.plan
      /\ retried.seen = s.seen /\ retried.active = s.active /\ RunsKept(s.run, retried.run)
      /\ retried.run = s.run
  BY <1>3 DEF Steady
<1>5. CASE s.seen[t] = "waiting_provider" /\ t \in s.recovering
  <2>1. r = s
    BY <1>5 DEF QueueTurn
  <2> QED BY <1>1, <2>1 DEF Turned, Steady
<1>6. CASE ~(s.seen[t] = "waiting_provider" /\ t \in s.recovering)
  <2>1. r = CASE Resolved(s, t) -> BlockTask(retried, t)
              [] ~Resolved(s, t) /\ v.state = "blocked" -> BlockTask(moved, t)
              [] ~Resolved(s, t) /\ v.state = "waiting" -> WaitForDependency(moved, t, v.on, s.seen)
              [] OTHER -> PrepareAndStart(ready, t, failing)
    BY <1>6 DEF QueueTurn
  <2>2. v.state \in {"blocked", "waiting", "ready"}
    BY DEF Readiness, PlanReadiness, Verdict
  <2> HIDE DEF retried
  <2>3. PlansMove(s.plan, v.plan) /\ (v.state = "ready" => ReadyIn(v.plan, retried.task, s.run, t))
    BY <1>4, VerdictMoves
  <2>4. v.plan \in PlanTable
    BY <2>3 DEF PlansMove
  <2> HIDE DEF v
  <2>5. /\ moved \in TickState /\ moved.plan = v.plan /\ moved.seen = s.seen /\ moved.active = s.active
        /\ moved.out = "looking" /\ moved.run = retried.run /\ moved.task = retried.task
    BY <1>4, <2>4 DEF TickState
  <2>6. CASE Resolved(s, t)
    <3>1. r = BlockTask(retried, t)
      BY <2>1, <2>6
    <3> QED BY <1>1, <1>4, <3>1, TaskBlocked DEF Turned
  <2>7. CASE ~Resolved(s, t) /\ v.state = "blocked"
    <3>1. r = BlockTask(moved, t)
      BY <2>1, <2>7
    <3> HIDE DEF moved
    <3> QED BY <1>4, <2>3, <2>5, <3>1, TaskBlocked DEF Turned
  <2>8. CASE ~Resolved(s, t) /\ v.state = "waiting"
    <3>1. r = WaitForDependency(moved, t, v.on, s.seen)
      BY <2>1, <2>8
    <3> HIDE DEF moved
    <3>2. Steady(moved, r)
      BY <2>5, <3>1, DependencyAwaited
    <3>3. RunsKept(s.run, r.run)
      BY <1>4, <2>5, <3>2, RunsKeptTransitively DEF Steady
    <3> QED BY <2>3, <2>5, <3>2, <3>3 DEF Turned, Steady
  <2>9. CASE ~Resolved(s, t) /\ v.state = "ready"
    <3>1. r = PrepareAndStart(ready, t, failing)
      BY <2>1, <2>9
    <3> DEFINE to == IF s.seen[t] = "waiting_dependency" THEN "queued" ELSE moved.task[t]
               x == [moved EXCEPT !.task[t] = to]
    <3>2. ready = x
      <4>1. ready = [moved EXCEPT !.task[t] = IF s.seen[t] = "waiting_dependency" THEN "queued" ELSE @]
        BY <1>4 DEF TickState
      <4> QED BY <4>1
    <3>3. to \in TaskStatuses
      BY <1>2, <2>5 DEF TickState
    <3> HIDE DEF ready, moved, to
    <3>4. Steady(moved, x) /\ x.run = moved.run /\ x.task = [moved.task EXCEPT ![t] = to]
      BY <2>5, <3>3, TaskWritten
    <3> HIDE DEF x
    <3>5. /\ x \in TickState /\ x.plan = v.plan /\ x.seen = s.seen /\ x.active = s.active
          /\ x.out = "looking" /\ x.run = retried.run
      BY <2>5, <3>4 DEF Steady
    <3>6. CASE Steady(x, r)
      <4>1. RunsKept(s.run, r.run)
        BY <1>4, <3>5, <3>6, RunsKeptTransitively DEF Steady
      <4> QED BY <2>3, <3>5, <3>6, <4>1 DEF Turned, Steady
    <3>7. CASE Launches(x, r, t)
      <4>1. ReadyIn(v.plan, retried.task, s.run, t)
        BY <2>3, <2>9
      <4>2. ASSUME NEW p \in Plans, t \in members[p], IsOpen(v.plan, p),
                   NEW d \in TransitiveDependencies(members[p], TaskDeps, t)
            PROVE  r.task[d] \in Satisfied /\ ~LoopEnded(s.run, d)
        <5>1. members[p] \in SUBSET Tasks /\ ValidTaskGraph(members[p], TaskDeps)
          BY DEF GraphsValid
        <5>2. d # t
          BY <4>2, <5>1, DependenciesAreEarlier
        <5>3. d \in Tasks
          BY <5>1 DEF TransitiveDependencies
        <5>4. retried.task[d] \in Satisfied /\ ~LoopEnded(s.run, d)
          BY <4>1, <4>2 DEF ReadyIn
        <5>5. r.task[d] = x.task[d] /\ x.task[d] = retried.task[d]
          BY <2>5, <3>4, <3>7, <5>2, <5>3 DEF Launches, TickState
        <5> QED BY <5>4, <5>5
      <4>3. r.plan = v.plan /\ r.run = Append(s.run, NewRun(t)) /\ r.out = "started"
            /\ r \in TickState /\ r.seen = s.seen /\ r.active = s.active
        BY <1>4, <3>5, <3>7 DEF Launches
      <4>4. ReadyIn(r.plan, r.task, s.run, t)
        BY <4>1, <4>2, <4>3 DEF ReadyIn
      <4>5. PlansMove(s.plan, r.plan)
        BY <2>3, <4>3
      <4> HIDE DEF r
      <4>6. Turned(s, r)
        BY <4>3, <4>4, <4>5 DEF Turned
      <4> QED BY <4>6 DEF r
    <3> QED BY <3>1, <3>2, <3>5, <3>6, <3>7, PreparedState
  <2> QED BY <2>2, <2>6, <2>7, <2>8, <2>9
<1> QED BY <1>5, <1>6

-----------------------------------------------------------------------------
(* The loop over the queue                                                 *)

\* Goals were resumed, none after a loop, and perhaps one of a ready Task was started.
Ran(s, r) ==
  /\ r \in TickState /\ r.seen = s.seen /\ r.active = s.active /\ PlansMove(s.plan, r.plan)
  /\ \/ r.out \in {"looking", "notify"} /\ RunsKept(s.run, r.run)
     \/ /\ r.out = "started"
        /\ \E t \in Tasks, rs \in Seq(RunRow) :
             RunsKept(s.run, rs) /\ r.run = Append(rs, NewRun(t)) /\ ReadyIn(r.plan, r.task, rs, t)

\* The rest of the queue is put aside.
Aside(s, r) ==
  /\ r \in TickState /\ r.plan = s.plan /\ r.run = s.run /\ r.task = s.task /\ r.out = s.out
  /\ r.seen = s.seen /\ r.active = s.active

Looped(s, r) == IF s.out = "looking" THEN Ran(s, r) ELSE Aside(s, r)

LEMMA RestPutAside ==
  ASSUME NEW s \in TickState, NEW t \in Tasks
  PROVE  Aside(s, [s EXCEPT !.rest = Append(@, t)])
<1> DEFINE x == Append(s.rest, t)
<1>1. x \in Seq(Tasks)
  BY DEF TickState
<1> HIDE DEF x
<1>2. [s EXCEPT !.rest = x] \in TickState
  BY <1>1 DEF TickState
<1>3. Aside(s, [s EXCEPT !.rest = x])
  BY <1>2 DEF Aside, TickState
<1> QED BY <1>3 DEF x

LEMMA ApartKept ==
  ASSUME NEW a, NEW b, Apart(a), PlansMove(a, b)
  PROVE  Apart(b)
BY DEF Apart, PlansMove

LEMMA TurnLoops ==
  ASSUME FeaturesIdle, GraphsValid, NEW s \in TickState, Apart(s.plan), NEW r \in TickState,
         Looped(s, r), NEW t \in Tasks, NEW failing
  PROVE  Looped(s, QueueTurn(r, t, failing))
<1> DEFINE q == QueueTurn(r, t, failing)
<1>1. CASE r.out # "looking"
  <2>1. q = [r EXCEPT !.rest = Append(@, t)]
    BY <1>1 DEF QueueTurn
  <2> HIDE DEF q
  <2>2. Aside(r, q)
    BY <2>1, RestPutAside
  <2>3. Looped(s, q)
    BY <2>2 DEF Looped, Aside, Ran
  <2> QED BY <2>3 DEF q
<1>2. CASE r.out = "looking"
  <2>1. s.out = "looking" /\ Ran(s, r)
    BY <1>2 DEF Looped, Aside
  <2>2. Apart(r.plan)
    BY <2>1, ApartKept DEF Ran
  <2>3. Turned(r, q)
    BY <1>2, <2>2, TurnTaken
  <2> HIDE DEF q
  <2>4. /\ q \in TickState /\ q.seen = s.seen /\ q.active = s.active
        /\ PlansMove(s.plan, q.plan)
    BY <2>1, <2>3, PlansMoveTransitively DEF Turned, Ran
  <2>5. RunsKept(s.run, r.run) /\ r.run \in Seq(RunRow)
    BY <1>2, <2>1 DEF Ran, TickState
  <2>6. CASE q.out \in {"looking", "notify"} /\ RunsKept(r.run, q.run)
    <3>1. RunsKept(s.run, q.run)
      BY <2>5, <2>6, RunsKeptTransitively
    <3>2. Looped(s, q)
      BY <2>1, <2>4, <2>6, <3>1 DEF Ran, Looped
    <3> QED BY <3>2 DEF q
  <2>7. CASE q.out = "started"
    <3>1. PICK u \in Tasks : q.run = Append(r.run, NewRun(u)) /\ ReadyIn(q.plan, q.task, r.run, u)
      BY <2>3, <2>7 DEF Turned
    <3>2. Looped(s, q)
      BY <2>1, <2>4, <2>5, <2>7, <3>1 DEF Ran, Looped
    <3> QED BY <3>2 DEF q
  <2> QED BY <2>3, <2>6, <2>7 DEF Turned
<1> QED BY <1>1, <1>2

LEMMA LoopRuns ==
  ASSUME FeaturesIdle, GraphsValid, NEW s \in TickState, Apart(s.plan),
         NEW queue \in Seq(Tasks), NEW failing
  PROVE  Looped(s, Loop(s, queue, failing))
<1> DEFINE T == {r \in TickState : Looped(s, r)}
           L == Len(queue)
           F == [x \in Nat \X T |-> IF x[1] \in 1 .. L THEN QueueTurn(x[2], queue[x[1]], failing) ELSE x[2]]
           Walk(f) == f = [n \in 0 .. L |-> IF n = 0 THEN s ELSE QueueTurn(f[n - 1], queue[n], failing)]
           after == CHOOSE f : Walk(f)
<1>1. Loop(s, queue, failing) = after[L]
  BY DEF Loop
<1>2. L \in Nat /\ \A n \in 1 .. L : queue[n] \in Tasks
  OBVIOUS
<1>3. s \in T
  <2>1. PlansMove(s.plan, s.plan) /\ RunsKept(s.run, s.run)
    BY DEF PlansMove, Advances, Carries, TickState, RunsKept
  <2> QED BY <2>1 DEF Looped, Ran, Aside
<1>4. ASSUME NEW r \in T, NEW n \in 1 .. L PROVE QueueTurn(r, queue[n], failing) \in T
  <2>1. Looped(s, QueueTurn(r, queue[n], failing))
    BY <1>2, TurnLoops
  <2> HIDE DEF L
  <2> QED BY <2>1 DEF Looped, Ran, Aside
<1> HIDE DEF L, T
<1>5. F \in [Nat \X T -> T]
  BY <1>4
<1>6. \A n \in 1 .. L, r \in T : F[<<n, r>>] = QueueTurn(r, queue[n], failing)
  BY <1>2
<1> HIDE DEF F
<1>7. PICK f : IsIteration(f, L, s, F, T)
  BY <1>2, <1>3, <1>5, FirstIterates
<1>8. Walk(f)
  <2>1. ASSUME NEW n \in 0 .. L
        PROVE  f[n] = IF n = 0 THEN s ELSE QueueTurn(f[n - 1], queue[n], failing)
    <3>1. CASE n = 0
      BY <1>7, <3>1 DEF IsIteration
    <3>2. CASE n # 0
      <4>1. n \in 1 .. L /\ n - 1 \in 0 .. L
        BY <1>2, <3>2
      <4>2. f[n - 1] \in T /\ f[n] = F[<<n, f[n - 1]>>]
        BY <1>7, <4>1 DEF IsIteration
      <4> QED BY <1>6, <3>2, <4>1, <4>2
    <3> QED BY <3>1, <3>2
  <2> QED BY <2>1, <1>7 DEF IsIteration
<1>9. Walk(after)
  BY <1>8
<1> HIDE DEF after
<1>10. ASSUME NEW n \in 0 .. L PROVE after[n] \in T
  <2> DEFINE S == {k \in Nat : k <= L => after[k] \in T}
  <2>1. 0 \in S
    BY <1>2, <1>3, <1>9
  <2>2. ASSUME NEW k \in S PROVE k + 1 \in S
    <3>1. CASE k + 1 <= L
      <4>1. k + 1 \in 1 .. L /\ k + 1 # 0 /\ (k + 1) - 1 = k /\ after[k] \in T
        BY <1>2, <3>1
      <4>2. k + 1 \in 0 .. L
        BY <1>2, <4>1
      <4>3. after[k + 1] = IF k + 1 = 0 THEN s
                           ELSE QueueTurn(after[(k + 1) - 1], queue[k + 1], failing)
        BY <1>9, <4>2
      <4>4. after[k + 1] = QueueTurn(after[k], queue[k + 1], failing)
        BY <4>1, <4>3
      <4> QED BY <1>4, <4>1, <4>4
    <3>2. CASE ~(k + 1 <= L)
      BY <3>2
    <3> QED BY <3>1, <3>2
  <2>3. S \in SUBSET Nat
    OBVIOUS
  <2> HIDE DEF S
  <2>4. n \in S
    BY <1>2, <2>1, <2>2, <2>3, Induction
  <2> QED BY <1>2, <2>4 DEF S
<1>11. after[L] \in T
  BY <1>2, <1>10
<1> QED BY <1>1, <1>11 DEF T

\* A finite set of numbers has a first, a second, ... up to the last.
LEMMA NthOfTasks ==
  ASSUME NEW S \in SUBSET Nat, IsFiniteSet(S)
  PROVE  \A n \in Nat : n < Cardinality(S) => \E t \in S : Cardinality({u \in S : u < t}) = n
<1> DEFINE upTo(t) == {u \in S : u < t}
           N == {n \in Nat : n < Cardinality(S) => \E t \in S : Cardinality(upTo(t)) = n}
<1>1. Cardinality(S) \in Nat
  BY FS_CardinalityType
<1>2. 0 \in N
  <2>1. CASE S = {}
    BY <2>1, FS_EmptySet
  <2>2. CASE S # {}
    <3>1. PICK m \in S : \A k \in S : m <= k
      BY <2>2, Smallest
    <3>2. ASSUME NEW u \in upTo(m) PROVE FALSE
      <4>1. u \in Nat /\ m \in Nat /\ u < m /\ m <= u
        BY <3>1
      <4> QED BY <4>1
    <3>3. upTo(m) = {}
      BY <3>2
    <3>4. Cardinality(upTo(m)) = 0
      BY <3>3, FS_EmptySet
    <3> QED BY <3>4
  <2> QED BY <2>1, <2>2
<1>3. ASSUME NEW n \in N PROVE n + 1 \in N
  <2>1. SUFFICES ASSUME n + 1 < Cardinality(S)
                 PROVE  \E t \in S : Cardinality(upTo(t)) = n + 1
    OBVIOUS
  <2>2. PICK t \in S : Cardinality(upTo(t)) = n
    BY <1>1, <2>1
  <2> DEFINE D == upTo(t) \cup {t}
  <2>3. IsFiniteSet(upTo(t)) /\ t \notin upTo(t)
    BY FS_Subset
  <2>4. Cardinality(D) = n + 1
    BY <2>2, <2>3, FS_AddElement
  <2>5. S \ D # {}
    <3>1. ASSUME S \ D = {} PROVE FALSE
      <4>1. D = S
        BY <3>1
      <4> QED BY <1>1, <2>1, <2>4, <4>1
    <3> QED BY <3>1
  <2>6. PICK m \in S \ D : \A k \in S \ D : m <= k
    BY <2>5, Smallest
  <2>7. upTo(m) = D
    <3>1. ASSUME NEW u \in S PROVE u < m <=> u \in D
      <4>1. u \in Nat /\ m \in Nat /\ t \in Nat /\ ~(m < t) /\ m # t
        BY <2>6
      <4>2. u \in D <=> u < t \/ u = t
        OBVIOUS
      <4>3. u \notin D => m <= u
        BY <2>6
      <4> HIDE DEF D
      <4> QED BY <4>1, <4>2, <4>3
    <3>2. D \in SUBSET S
      OBVIOUS
    <3> HIDE DEF D
    <3> QED BY <3>1, <3>2
  <2>8. Cardinality(upTo(m)) = n + 1 /\ m \in S
    BY <2>4, <2>6, <2>7
  <2> QED BY <2>8
<1>4. N \in SUBSET Nat
  OBVIOUS
<1> HIDE DEF N
<1>5. \A n \in Nat : n \in N
  BY <1>2, <1>3, <1>4, Induction
<1> QED BY <1>5 DEF N

LEMMA QueueInOrder ==
  ASSUME NEW ts \in SUBSET Tasks
  PROVE  InOrder(ts) \in Seq(Tasks)
<1>1. ts \in SUBSET Nat /\ IsFiniteSet(ts)
  BY AutopilotBounds, FS_Subset
<1>2. Cardinality(ts) \in Nat
  BY <1>1, FS_CardinalityType
<1> DEFINE nth(n) == CHOOSE t \in ts : Cardinality({u \in ts : u < t}) = n - 1
<1>3. ASSUME NEW n \in 1 .. Cardinality(ts) PROVE nth(n) \in Tasks
  <2>1. n - 1 \in Nat /\ n - 1 < Cardinality(ts)
    BY <1>2
  <2>2. \E t \in ts : Cardinality({u \in ts : u < t}) = n - 1
    BY <1>1, <2>1, NthOfTasks
  <2> QED BY <2>2
<1>4. InOrder(ts) = [n \in 1 .. Cardinality(ts) |-> nth(n)]
  BY DEF InOrder
<1> HIDE DEF nth
<1> QED BY <1>2, <1>3, <1>4

-----------------------------------------------------------------------------
(* The autopilot                                                           *)

GoalsTyped ==
  /\ task \in [Tasks -> TaskStatuses] /\ run \in Seq(RunRow)
  /\ worktree \in SUBSET Tasks /\ recovering \in SUBSET Tasks
  /\ retries \in [1..MaxRuns -> Nat] /\ backoff \in SUBSET Nat
  /\ tick \in [pc : {"off", "idle", "due", "notify"}, rest : Seq(Tasks),
               seen : [Tasks -> TaskStatuses], active : SUBSET Tasks]

AutopilotInv == QueueInv /\ FeaturesIdle /\ GraphsValid /\ GoalsTyped

\* What a tick may do: admit and start plans, resume Goals that did not loop, and start
\* the Goal of one Task, which is ready unless it was prepared already.
Ticked(pl, ts, rs) ==
  /\ PlansMove(plan, pl)
  /\ \/ RunsKept(run, rs)
     \/ \E t \in Tasks, before \in Seq(RunRow) :
          /\ RunsKept(run, before) /\ rs = Append(before, NewRun(t))
          /\ ReadyIn(pl, ts, before, t) \/ task[t] = "planning"

LEMMA LoopsAreKept ==
  ASSUME NEW a \in Seq(RunRow), NEW b \in Seq(RunRow), RunsKept(a, b), NEW t \in Tasks
  PROVE  LoopEnded(b, t) <=> LoopEnded(a, t)
<1>1. /\ Len(a) \in Nat /\ DOMAIN a = 1 .. Len(a) /\ DOMAIN b = DOMAIN a
      /\ \A i \in DOMAIN a : b[i].of = a[i].of /\ b[i].cat = a[i].cat
  BY DEF RunsKept
<1>2. RunsOf(a, t) = RunsOf(b, t) /\ RunsOf(a, t) \in SUBSET (1 .. Len(a))
  BY <1>1 DEF RunsOf
<1>3. CASE RunsOf(a, t) # {}
  <2>1. Latest(RunsOf(a, t)) \in DOMAIN a
    BY <1>1, <1>2, <1>3, LatestIsOne
  <2> QED BY <1>1, <1>2, <2>1 DEF LoopEnded
<1> QED BY <1>2, <1>3 DEF LoopEnded

LEMMA TablesTyped ==
  ASSUME AutopilotInv
  PROVE  Tables \in TickState /\ Apart(plan)
<1>1. Apart(plan)
  BY BothOpen DEF AutopilotInv, QueueInv, TaskInOneOpenPlan, Apart
<1>2. <<>> \in Seq(Tasks) /\ {} \in SUBSET Tasks
  OBVIOUS
<1> QED BY <1>1, <1>2 DEF Tables, TickState, AutopilotInv, QueueInv, GoalsTyped

LEMMA LookingState ==
  ASSUME NEW s \in TickState, NEW seen \in [Tasks -> TaskStatuses], NEW active \in SUBSET Tasks
  PROVE  /\ Looking(s, seen, active) \in TickState
         /\ Looking(s, seen, active).plan = s.plan /\ Looking(s, seen, active).run = s.run
         /\ Looking(s, seen, active).task = s.task /\ Looking(s, seen, active).out = s.out
BY DEF Looking, TickState

LEMMA TickTakes ==
  ASSUME AutopilotInv, NEW failing
  PROVE  LET r == TickResult(failing) IN r \in TickState /\ Ticked(r.plan, r.task, r.run)
<1> DEFINE busy == {run[i].of : i \in Unfinished(run)}
           s == RecoverBudgetBlockedGoals(Tables)
           l == Looking(s, s.task, busy)
           a == Adopted(l, busy, failing)
           queue == InOrder(InQueue(s, busy))
           r == TickResult(failing)
<1>1. Tables \in TickState /\ Apart(plan) /\ run \in Seq(RunRow)
  BY TablesTyped DEF AutopilotInv, GoalsTyped
<1>2. Tables.plan = plan /\ Tables.task = task /\ Tables.run = run /\ Tables.out = "looking"
  BY DEF Tables
<1>3. Steady(Tables, s) /\ Lifts(Tables, s)
  BY <1>1, BudgetsLifted
<1>4. busy \in SUBSET Tasks
  <2>1. \A i \in 1 .. Len(run) : run[i] \in RunRow
    BY <1>1
  <2>2. Unfinished(run) \in SUBSET (1 .. Len(run))
    BY <1>1 DEF Unfinished
  <2> QED BY <2>1, <2>2 DEF RunRow
<1>5. queue \in Seq(Tasks)
  BY QueueInOrder DEF InQueue
<1>6. r = Loop(a, queue, failing)
  BY DEF TickResult
<1> HIDE DEF s, busy, queue
<1>7. s \in TickState /\ s.plan = plan /\ s.out = "looking" /\ RunsKept(run, s.run)
  BY <1>2, <1>3 DEF Steady
<1>8. l \in TickState /\ l.plan = plan /\ l.run = s.run /\ l.task = s.task /\ l.out = "looking"
  <2>1. s.task \in [Tasks -> TaskStatuses]
    BY <1>7 DEF TickState
  <2> QED BY <1>4, <1>7, <2>1, LookingState
<1> HIDE DEF l
<1>9. FeaturesIdle /\ GraphsValid
  BY DEF AutopilotInv
<1>10. CASE a = l
  <2>1. Looped(l, r)
    BY <1>1, <1>5, <1>6, <1>8, <1>9, <1>10, LoopRuns
  <2> HIDE DEF r
  <2>2. Ran(l, r)
    BY <1>8, <2>1 DEF Looped
  <2>3. Ticked(r.plan, r.task, r.run)
    BY <1>7, <1>8, <2>2, RunsKeptTransitively DEF Ran, Ticked
  <2> QED BY <2>2, <2>3 DEF r, Ran
<1>11. CASE \E t \in Tasks : l.task[t] = "planning" /\ ~Busy(l.run, t) /\ Launches(l, a, t)
  <2>1. PICK t \in Tasks : l.task[t] = "planning" /\ ~Busy(l.run, t) /\ Launches(l, a, t)
    BY <1>11
  <2> HIDE DEF a
  <2>2. a \in TickState /\ a.plan = plan /\ a.out = "started" /\ a.run = Append(s.run, NewRun(t))
    BY <1>8, <2>1 DEF Launches
  <2>3. Looped(a, r)
    BY <1>1, <1>5, <1>6, <1>9, <2>2, LoopRuns
  <2> HIDE DEF r
  <2>4. Aside(a, r)
    BY <2>2, <2>3 DEF Looped
  <2>5. task[t] = "planning"
    BY <1>2, <1>3, <1>8, <2>1 DEF Lifts
  <2>6. PlansMove(plan, r.plan)
    BY <2>2, <2>4 DEF PlansMove, Advances, Carries, Aside, TickState
  <2>7. s.run \in Seq(RunRow) /\ r.run = Append(s.run, NewRun(t))
    BY <1>7, <2>2, <2>4 DEF Aside, TickState
  <2>8. Ticked(r.plan, r.task, r.run)
    BY <1>7, <2>5, <2>6, <2>7 DEF Ticked
  <2> QED BY <2>4, <2>8 DEF r, Aside
<1> QED BY <1>8, <1>10, <1>11, AdoptedState

LEMMA StoredTick ==
  ASSUME AutopilotInv, NEW r \in TickState, Ticked(r.plan, r.task, r.run), Store(r)
  PROVE  AutopilotInv' /\ Ticked(plan', task', run')
<1>1. /\ plan' = r.plan /\ task' = r.task /\ run' = r.run /\ worktree' = r.worktree
      /\ recovering' = r.recovering /\ retries' = r.retries /\ backoff' = r.backoff
      /\ UNCHANGED <<deps, members, feature>>
  BY DEF Store
<1>2. Ticked(plan', task', run')
  BY <1>1
<1>3. plan' \in PlanTable /\ Settles(plan, plan')
  BY <1>2, AdvancingSettles DEF Ticked, PlansMove
<1>4. QueueInv'
  BY <1>1, <1>3, PlansMoveOn DEF AutopilotInv
<1>5. tick' \in [pc : {"off", "idle", "due", "notify"}, rest : Seq(Tasks),
                 seen : [Tasks -> TaskStatuses], active : SUBSET Tasks]
  <2>1. Idle \in [pc : {"off", "idle", "due", "notify"}, rest : Seq(Tasks),
                  seen : [Tasks -> TaskStatuses], active : SUBSET Tasks]
    <3>1. <<>> \in Seq(Tasks) /\ "queued" \in TaskStatuses
      BY DEF TaskStatuses
    <3> QED BY <3>1 DEF Idle
  <2> QED BY <2>1 DEF Store, TickState
<1>6. GoalsTyped'
  BY <1>1, <1>5 DEF GoalsTyped, TickState
<1> QED BY <1>1, <1>2, <1>4, <1>6 DEF AutopilotInv, FeaturesIdle, GraphsValid

LEMMA TickIsTaken ==
  ASSUME AutopilotInv, TickStep
  PROVE  AutopilotInv' /\ Ticked(plan', task', run')
<1>1. ASSUME NEW failing, Tick(failing) PROVE AutopilotInv' /\ Ticked(plan', task', run')
  <2>1. CASE Store(TickResult(failing))
    BY <2>1, TickTakes, StoredTick
  <2>2. CASE tick' = Idle /\ UNCHANGED <<queueVars, requests, goalVars, retries, backoff, update>>
    <3>1. Tables \in TickState /\ Tables.plan = plan /\ Tables.task = task /\ Tables.run = run
      BY TablesTyped DEF Tables
    <3>2. PlansMove(plan, plan) /\ RunsKept(run, run)
      BY DEF PlansMove, Advances, Carries, RunsKept, AutopilotInv, QueueInv
    <3>3. Ticked(plan, task, run)
      BY <3>2 DEF Ticked
    <3>4. Idle \in [pc : {"off", "idle", "due", "notify"}, rest : Seq(Tasks),
                    seen : [Tasks -> TaskStatuses], active : SUBSET Tasks]
      <4>1. <<>> \in Seq(Tasks) /\ "queued" \in TaskStatuses
        BY DEF TaskStatuses
      <4> QED BY <4>1 DEF Idle
    <3>5. Store(Tables)
      BY <2>2 DEF Store, Tables, queueVars, goalVars
    <3> QED BY <3>1, <3>3, <3>5, StoredTick
  <2> QED BY <1>1, <2>1, <2>2 DEF Tick
<1>2. ASSUME NEW failing, TickGoesOn(failing) PROVE AutopilotInv' /\ Ticked(plan', task', run')
  <2> DEFINE l == Looking(Tables, tick.seen, tick.active)
             r == Loop(l, tick.rest, failing)
  <2>1. tick.rest \in Seq(Tasks) /\ tick.seen \in [Tasks -> TaskStatuses] /\ tick.active \in SUBSET Tasks
    BY DEF AutopilotInv, GoalsTyped
  <2>2. Tables \in TickState /\ Apart(plan) /\ Tables.plan = plan /\ Tables.run = run /\ Tables.out = "looking"
    BY TablesTyped DEF Tables
  <2>3. l \in TickState /\ l.plan = plan /\ l.run = run /\ l.out = "looking"
    BY <2>1, <2>2, LookingState
  <2>4. Store(r)
    BY <1>2 DEF TickGoesOn
  <2> HIDE DEF l
  <2>5. Looped(l, r)
    BY <2>1, <2>2, <2>3, LoopRuns DEF AutopilotInv
  <2> HIDE DEF r
  <2>6. Ran(l, r)
    BY <2>3, <2>5 DEF Looped
  <2>7. Ticked(r.plan, r.task, r.run)
    BY <2>3, <2>6 DEF Ran, Ticked
  <2> QED BY <2>4, <2>6, <2>7, StoredTick DEF Ran
<1> QED BY <1>1, <1>2 DEF TickStep

LEMMA TickWaits ==
  ASSUME NEW pc \in {"off", "idle", "due", "notify"}
  PROVE  [Idle EXCEPT !.pc = pc] \in [pc : {"off", "idle", "due", "notify"}, rest : Seq(Tasks),
                                      seen : [Tasks -> TaskStatuses], active : SUBSET Tasks]
<1>1. <<>> \in Seq(Tasks) /\ "queued" \in TaskStatuses /\ {} \in SUBSET Tasks
  BY DEF TaskStatuses
<1> QED BY <1>1 DEF Idle

LEMMA QueueIsLeft ==
  ASSUME AutopilotInv, UNCHANGED queueVars, GoalsTyped'
  PROVE  AutopilotInv'
BY DEF queueVars, AutopilotInv, QueueInv, TaskInOneOpenPlan, Created, FeaturesIdle, GraphsValid

\* The task and the run of one Goal are rewritten.
LEMMA GoalRewritten ==
  ASSUME AutopilotInv, UNCHANGED <<queueVars, autopilotVars, worktree, recovering>>,
         NEW t \in Tasks, NEW to \in TaskStatuses, task' = [task EXCEPT ![t] = to],
         run' \in Seq(RunRow)
  PROVE  AutopilotInv'
<1>1. task' \in [Tasks -> TaskStatuses]
  BY DEF AutopilotInv, GoalsTyped
<1>2. GoalsTyped'
  BY <1>1 DEF AutopilotInv, GoalsTyped, autopilotVars
<1> QED BY <1>2, QueueIsLeft

LEMMA RunRewritten ==
  ASSUME AutopilotInv, NEW i \in DOMAIN run, NEW status \in RunStatuses, NEW cat \in Categories
  PROVE  /\ run[i] \in RunRow /\ run[i].of \in Tasks /\ run[i].cat \in Categories
         /\ [run EXCEPT ![i].status = status] \in Seq(RunRow)
         /\ [run EXCEPT ![i].status = status, ![i].cat = cat] \in Seq(RunRow)
<1>1. run \in Seq(RunRow) /\ i \in 1 .. Len(run)
  BY DEF AutopilotInv, GoalsTyped
<1>2. run[i] \in RunRow
  BY <1>1
<1>3. [run[i] EXCEPT !.status = status] \in RunRow /\ [run[i] EXCEPT !.status = status, !.cat = cat] \in RunRow
  BY <1>2 DEF RunRow
<1>4. \A row \in RunRow : [run EXCEPT ![i] = row] \in Seq(RunRow)
  BY <1>1
<1>5. /\ [run EXCEPT ![i].status = status] = [run EXCEPT ![i] = [run[i] EXCEPT !.status = status]]
      /\ [run EXCEPT ![i].status = status, ![i].cat = cat]
           = [run EXCEPT ![i] = [run[i] EXCEPT !.status = status, !.cat = cat]]
  BY <1>1
<1> QED BY <1>2, <1>3, <1>4, <1>5 DEF RunRow

LEMMA RunsMoveOn ==
  ASSUME AutopilotInv, NEW i \in DOMAIN run, RunEnds(i) \/ RunResumes(i) \/ ResumeGoal(i)
  PROVE  AutopilotInv'
<1>1. /\ UNCHANGED <<queueVars, autopilotVars, worktree, recovering>>
      /\ run[i].of \in Tasks /\ run[i].cat \in Categories
  <2>1. UNCHANGED <<queueVars, autopilotVars, worktree, recovering>>
    BY DEF RunEnds, RunResumes, ResumeGoal, GoalStep
  <2>2. "running" \in RunStatuses /\ "none" \in Categories
    BY DEF RunStatuses, Categories
  <2> QED BY <2>1, <2>2, RunRewritten
<1>2. /\ {"waiting_provider", "failed", "blocked", "completed", "running"} \subseteq RunStatuses
      /\ {"waiting_provider", "failed", "blocked", "awaiting_human", "planning"} \subseteq TaskStatuses
      /\ {"none", "budget_exhausted", "loop"} \subseteq Categories
  BY DEF RunStatuses, TaskStatuses, Categories
<1>3. ASSUME NEW status \in RunStatuses, NEW cat \in Categories, NEW to \in TaskStatuses,
             run' \in {[run EXCEPT ![i].status = status], [run EXCEPT ![i].status = status, ![i].cat = cat]},
             task' = [task EXCEPT ![run[i].of] = to]
      PROVE  AutopilotInv'
  <2>1. run' \in Seq(RunRow)
    <3>1. /\ [run EXCEPT ![i].status = status] \in Seq(RunRow)
          /\ [run EXCEPT ![i].status = status, ![i].cat = cat] \in Seq(RunRow)
      BY RunRewritten
    <3> QED BY <1>3, <3>1
  <2> QED BY <1>1, <1>3, <2>1, GoalRewritten
<1>4. CASE RunEnds(i)
  <2>1. CASE run' = [run EXCEPT ![i].status = "waiting_provider"] /\ task' = [task EXCEPT ![run[i].of] = "waiting_provider"]
    BY <1>2, <1>3, <2>1
  <2>2. CASE run' = [run EXCEPT ![i].status = "failed"] /\ task' = [task EXCEPT ![run[i].of] = "failed"]
    BY <1>2, <1>3, <2>2
  <2>3. CASE run' = [run EXCEPT ![i].status = "completed"] /\ task' = [task EXCEPT ![run[i].of] = "awaiting_human"]
    BY <1>2, <1>3, <2>3
  <2>4. ASSUME NEW cat \in {run[i].cat, "budget_exhausted", "loop"},
               run' = [run EXCEPT ![i].status = "blocked", ![i].cat = cat],
               task' = [task EXCEPT ![run[i].of] = "blocked"]
        PROVE  AutopilotInv'
    <3>1. cat \in Categories
      BY <1>1, <1>2
    <3> QED BY <1>2, <1>3, <2>4, <3>1
  <2> QED BY <1>4, <2>1, <2>2, <2>3, <2>4 DEF RunEnds
<1>5. CASE RunResumes(i) \/ ResumeGoal(i)
  <2>1. run' = [run EXCEPT ![i].status = "running"] /\ task' = [task EXCEPT ![run[i].of] = "planning"]
    BY <1>5 DEF RunResumes, ResumeGoal
  <2> QED BY <1>2, <1>3, <2>1
<1> QED BY <1>4, <1>5

LEMMA TaskMovesOn ==
  ASSUME AutopilotInv, NEW t \in Tasks, Decide(t) \/ StartGoal(t) \/ RetryTask(t) \/ CancelTask(t)
  PROVE  AutopilotInv'
<1>1. UNCHANGED <<queueVars, autopilotVars, worktree, recovering>>
  BY DEF Decide, StartGoal, RetryTask, CancelTask
<1>2. {"done", "rejected", "planning", "queued", "cancelled"} \subseteq TaskStatuses
  BY DEF TaskStatuses
<1>3. run \in Seq(RunRow)
  BY DEF AutopilotInv, GoalsTyped
<1>4. CASE Decide(t)
  <2>1. PICK status \in {"done", "rejected"} : task' = [task EXCEPT ![t] = status]
    BY <1>4 DEF Decide
  <2>2. run' \in Seq(RunRow)
    BY <1>3, <1>4 DEF Decide
  <2> QED BY <1>1, <1>2, <2>1, <2>2, GoalRewritten
<1>5. CASE StartGoal(t)
  <2>1. NewRun(t) \in RunRow
    BY DEF NewRun, RunRow, RunStatuses, Categories
  <2>2. run' = Append(run, NewRun(t)) /\ task' = [task EXCEPT ![t] = "planning"]
    BY <1>5 DEF StartGoal, NewRun
  <2>3. run' \in Seq(RunRow)
    BY <1>3, <2>1, <2>2
  <2> QED BY <1>1, <1>2, <2>2, <2>3, GoalRewritten
<1>6. CASE RetryTask(t)
  <2>1. \/ task' = [task EXCEPT ![t] = "planning"]
        \/ task' = [task EXCEPT ![t] = "queued"]
    BY <1>6 DEF RetryTask
  <2>2. run' \in Seq(RunRow)
    BY <1>3, <1>6 DEF RetryTask
  <2> QED BY <1>1, <1>2, <2>1, <2>2, GoalRewritten
<1>7. CASE CancelTask(t)
  <2>1. PICK hit \in SUBSET (1 .. Len(run)) :
          run' = [i \in 1 .. Len(run) |-> IF i \in hit THEN [run[i] EXCEPT !.status = "cancelled"] ELSE run[i]]
    <3> DEFINE live == RunsOf(run, t) \cap Unfinished(run)
               struck(i) == /\ i \in live
                            /\ \/ run[i].status = "running"
                               \/ t \notin RunningTasks(run) /\ \A j \in live : i <= j
               hit == {i \in 1 .. Len(run) : struck(i)}
    <3>1. DOMAIN run = 1 .. Len(run)
      BY <1>3
    <3>2. run' = [i \in DOMAIN run |->
                    IF struck(i) THEN [run[i] EXCEPT !.status = "cancelled"] ELSE run[i]]
      BY <1>7 DEF CancelTask
    <3> HIDE DEF struck
    <3>3. run' = [i \in 1 .. Len(run) |-> IF i \in hit THEN [run[i] EXCEPT !.status = "cancelled"] ELSE run[i]]
      BY <3>1, <3>2
    <3>4. hit \in SUBSET (1 .. Len(run))
      OBVIOUS
    <3> HIDE DEF hit
    <3> QED BY <3>3, <3>4
  <2>2. \A i \in 1 .. Len(run) : run[i] \in RunRow
    BY <1>3
  <2>3. \A i \in 1 .. Len(run) : [run[i] EXCEPT !.status = "cancelled"] \in RunRow
    BY <2>2 DEF RunRow, RunStatuses
  <2>4. Len(run) \in Nat
    BY <1>3
  <2>5. run' \in Seq(RunRow)
    BY <2>1, <2>2, <2>3, <2>4
  <2>6. task' = [task EXCEPT ![t] = "cancelled"]
    BY <1>7 DEF CancelTask
  <2> QED BY <1>1, <1>2, <2>5, <2>6, GoalRewritten
<1> QED BY <1>4, <1>5, <1>6, <1>7

LEMMA QueueStepped ==
  ASSUME AutopilotInv, QueueStep
  PROVE  AutopilotInv'
<1>1. UNCHANGED <<goalVars, autopilotVars>>
  BY DEF QueueStep
<1>2. GoalsTyped'
  BY <1>1 DEF goalVars, autopilotVars, AutopilotInv, GoalsTyped
<1>3. ASSUME NEW p \in Plans, QueueCommand(p) PROVE AutopilotInv'
  <2>1. QueueInv'
    BY <1>3, QueueCommanded DEF AutopilotInv
  <2>2. FeaturesIdle'
    <3>1. UNCHANGED feature
      BY <1>3 DEF QueueCommand, CreateFeaturePlan, ReplanFeaturePlan, PauseOrResume,
         UpdateFeaturePlanPriority, AddFeaturePlanDependency, RemoveFeaturePlanDependency,
         SetQueueStatus, AdmitFeaturePlan, RetryFeaturePlan, CancelFeaturePlan
    <3> QED BY <3>1 DEF AutopilotInv, FeaturesIdle
  <2>3. CASE UNCHANGED members
    BY <1>2, <2>1, <2>2, <2>3 DEF AutopilotInv, GraphsValid
  <2>4. ASSUME NEW scope \in PlanScopes, ValidTaskGraph(scope, TaskDeps),
               members' = [members EXCEPT ![p] = scope]
        PROVE  AutopilotInv'
    <3>1. scope \in SUBSET Tasks
      BY QueueBounds
    <3>2. members \in [Plans -> SUBSET Tasks]
      BY DEF AutopilotInv, QueueInv
    <3>3. \A q \in Plans : members'[q] = IF q = p THEN scope ELSE members[q]
      BY <2>4, <3>2
    <3>4. GraphsValid'
      BY <2>4, <3>1, <3>3 DEF AutopilotInv, GraphsValid
    <3> QED BY <1>2, <2>1, <2>2, <3>4 DEF AutopilotInv
  <2>5. \/ UNCHANGED members
        \/ \E scope \in PlanScopes : /\ ValidTaskGraph(scope, TaskDeps)
                                     /\ members' = [members EXCEPT ![p] = scope]
    BY <1>3 DEF QueueCommand, CreateFeaturePlan, ReplanFeaturePlan, PauseOrResume,
       UpdateFeaturePlanPriority, AddFeaturePlanDependency, RemoveFeaturePlanDependency,
       SetQueueStatus, AdmitFeaturePlan, RetryFeaturePlan, CancelFeaturePlan
  <2> QED BY <2>3, <2>4, <2>5
<1>4. CASE RevalidateFeaturePlanQueue
  <2>1. UNCHANGED <<deps, members, feature>> /\ plan' = RevalidatedQueue(plan, deps)
    BY <1>4 DEF RevalidateFeaturePlanQueue
  <2>2. QueueInv'
    BY <2>1, Revalidation, AdvancingSettles, PlansMoveOn DEF AutopilotInv, QueueInv
  <2> QED BY <1>2, <2>1, <2>2 DEF AutopilotInv, FeaturesIdle, GraphsValid
<1> QED BY <1>3, <1>4 DEF QueueStep

LEMMA PlanIsCompleted ==
  ASSUME AutopilotInv, NEW p \in Plans, PlanCompletes(p)
  PROVE  AutopilotInv'
<1>1. /\ plan' = [plan EXCEPT ![p].status = "completed"] /\ plan[p].status = "active"
      /\ UNCHANGED <<deps, members, feature, goalVars, autopilotVars>>
  BY DEF PlanCompletes
<1>2. "completed" \in Final /\ "active" \notin Final
  BY DEF Final
<1>3. plan' \in PlanTable /\ Settles(plan, plan')
  BY <1>1, <1>2, RowSettled DEF AutopilotInv, QueueInv
<1>4. QueueInv'
  BY <1>1, <1>3, PlansMoveOn DEF AutopilotInv
<1>5. GoalsTyped'
  BY <1>1 DEF goalVars, autopilotVars, AutopilotInv, GoalsTyped
<1> QED BY <1>1, <1>4, <1>5 DEF AutopilotInv, FeaturesIdle, GraphsValid

LEMMA AutopilotBegins == AutopilotInit => AutopilotInv
<1> SUFFICES ASSUME AutopilotInit PROVE AutopilotInv
  OBVIOUS
<1>1. PICK mb \in Loaded : members = mb /\ plan = [p \in Plans |-> IF mb[p] = {} THEN NoPlan ELSE NewPlan]
  BY DEF AutopilotInit, PlansLoaded
<1>2. /\ NewPlan \in PlanRow /\ NewPlan.status = "queued" /\ NoPlan \in PlanRow /\ NoPlan.status = "none"
  <2>1. 1 \in 1..MaxRevision /\ 0 \in 0..MaxPriority
    BY QueueBounds
  <2> QED BY <2>1 DEF NoPlan, NewPlan, PlanRow, PlanStatuses, Reasons
<1>3. plan \in PlanTable /\ members \in [Plans -> SUBSET Tasks] /\ TaskInOneOpenPlan
  BY <1>1, <1>2, QueueBounds DEF PlanTable, TaskInOneOpenPlan
<1>4. deps \in DepTable /\ \A p \in Plans : deps[p] = {}
  BY DEF AutopilotInit, DepTable
<1>5. QueueInv
  BY <1>3, <1>4 DEF QueueInv, Acyclic
<1>6. FeaturesIdle
  BY DEF AutopilotInit, PlansLoaded, FeaturesIdle
<1>7. GraphsValid
  BY <1>1, <1>3, AutopilotBounds DEF GraphsValid
<1>8. GoalsTyped
  <2>1. "queued" \in TaskStatuses /\ <<>> \in Seq(RunRow)
    BY DEF TaskStatuses
  <2>2. tick \in [pc : {"off", "idle", "due", "notify"}, rest : Seq(Tasks),
                  seen : [Tasks -> TaskStatuses], active : SUBSET Tasks]
    BY TickWaits DEF AutopilotInit, AutopilotStarts
  <2> QED BY <2>1, <2>2 DEF AutopilotInit, AutopilotStarts, GoalsTyped
<1> QED BY <1>5, <1>6, <1>7, <1>8 DEF AutopilotInv

LEMMA AutopilotStep == AutopilotInv /\ [AutopilotNext]_backlogVars => AutopilotInv'
<1> SUFFICES ASSUME AutopilotInv, [AutopilotNext]_backlogVars PROVE AutopilotInv'
  OBVIOUS
<1>1. CASE TimerFires
  <2>1. tick' = [tick EXCEPT !.pc = "due"] /\ UNCHANGED <<queueVars, goalVars, retries, backoff>>
    BY <1>1 DEF TimerFires
  <2>2. GoalsTyped'
    BY <2>1 DEF AutopilotInv, GoalsTyped, goalVars
  <2> QED BY <2>1, <2>2, QueueIsLeft
<1>2. CASE TickStep
  BY <1>2, TickIsTaken
<1>3. CASE QueueStep
  BY <1>3, QueueStepped
<1>4. CASE \E i \in DOMAIN run : RunEnds(i) \/ RunResumes(i) \/ ResumeGoal(i)
  BY <1>4, RunsMoveOn
<1>5. CASE TimePasses
  <2>1. /\ UNCHANGED <<queueVars, task, worktree, run, retries, tick>>
        /\ backoff' \in {{}, backoff} /\ recovering' \in {{}, recovering}
    BY <1>5 DEF TimePasses
  <2>2. GoalsTyped'
    BY <2>1 DEF AutopilotInv, GoalsTyped
  <2> QED BY <2>1, <2>2, QueueIsLeft
<1>6. CASE \E t \in Tasks : Decide(t) \/ StartGoal(t) \/ RetryTask(t) \/ CancelTask(t)
  BY <1>6, TaskMovesOn
<1>7. CASE \E p \in Plans : PlanCompletes(p)
  BY <1>7, PlanIsCompleted
<1>8. CASE UpdateQueued \/ UpdateSettles \/ UNCHANGED backlogVars
  <2>1. UNCHANGED <<queueVars, goalVars, autopilotVars>>
    BY <1>8 DEF UpdateQueued, UpdateSettles, backlogVars
  <2>2. GoalsTyped'
    BY <2>1 DEF AutopilotInv, GoalsTyped, goalVars, autopilotVars
  <2> QED BY <2>1, <2>2, QueueIsLeft
<1> QED BY <1>1, <1>2, <1>3, <1>4, <1>5, <1>6, <1>7, <1>8 DEF AutopilotNext

LEMMA AutopilotInvariant == AutopilotSpec => []AutopilotInv
BY AutopilotBegins, AutopilotStep, PTL DEF AutopilotSpec

\* With the autopilot at work beside the user's commands, no Task is ever in two open
\* plans and no plan waits for itself (validateFeaturePlanTaskAvailability,
\* checkDependencyCycle).
THEOREM AutopilotKeepsPlansInOrder == AutopilotSpec => []PlansStayInOrder
<1>1. AutopilotInv => PlansStayInOrder
  BY DEF AutopilotInv, QueueInv, PlansStayInOrder, PlansStayAcyclic, Acyclic
<1> QED BY <1>1, AutopilotInvariant, PTL

\* A plan is admitted by the autopilot, by a revalidation pass or by a human's admission,
\* retry or cancellation only when its predecessors are completed, and then alone writes
\* unpaused (evaluateFeaturePlanEligibility, revalidateQueuedFeaturePlans).  Only the
\* status endpoint is not spoken of.
THEOREM AdmissionIsLegalHolds == AutopilotSpec => AdmissionIsLegal
<1> DEFINE Legally == AdmittingStep => \A p \in Admitted :
             /\ \A d \in deps[p] : plan'[d].status = "completed"
             /\ Writers(plan') = {p} /\ ~plan'[p].paused
<1>1. ASSUME AutopilotInv, AdmittingStep PROVE LegalAdmission
  <2>1. QueueInv /\ deps \in DepTable
    BY <1>1 DEF AutopilotInv, QueueInv
  <2>2. CASE TickStep
    <3>1. Carries(plan, plan', deps)
      BY <1>1, <2>2, TickIsTaken DEF Ticked, PlansMove
    <3> QED BY <2>1, <3>1, CarriedAdmission
  <2>3. CASE \E p \in Plans : AdmitFeaturePlan(p) \/ RetryFeaturePlan(p) \/ CancelFeaturePlan(p)
    BY <2>1, <2>3, CommandAdmits
  <2>4. CASE RevalidateFeaturePlanQueue
    BY <2>1, <2>4, RevalidationAdmits
  <2> QED BY <1>1, <2>2, <2>3, <2>4 DEF AdmittingStep
<1>2. AutopilotInv => [Legally]_backlogVars
  BY <1>1 DEF LegalAdmission
<1> QED BY <1>2, AutopilotInvariant, PTL DEF AdmissionIsLegal

\* Whatever the tick read before it awaited Telegram, a Task it takes from its queue has
\* its direct and indirect dependencies delivered, none by a run that once ended as a
\* loop, and its plan holds the lease unpaused (evaluateFeatureTaskReadiness, right
\* before prepareAndStart).
THEOREM QueueStartsReadyTasksHolds == AutopilotSpec => QueueStartsReadyTasks
<1> DEFINE Ready(t, p) ==
             /\ plan'[p].status \in Writing /\ ~plan'[p].paused
             /\ \A d \in TransitiveDependencies(members[p], TaskDeps, t) :
                  task'[d] \in Satisfied /\ ~LoopEnded(run, d)
           Readily == TickStep => \A t \in LaunchedFromQueue : \A p \in PlanOf(Tables, t) : Ready(t, p)
<1>1. ASSUME AutopilotInv, TickStep, NEW t \in LaunchedFromQueue, NEW p \in PlanOf(Tables, t)
      PROVE  Ready(t, p)
  <2>1. t \in Tasks /\ task[t] # "planning" /\ Len(run') > Len(run) /\ run'[Len(run')].of = t
    BY <1>1 DEF LaunchedFromQueue
  <2>2. p \in Plans /\ t \in members[p] /\ IsOpen(plan, p)
    BY <1>1 DEF PlanOf, Tables, IsOpen
  <2>3. Ticked(plan', task', run')
    BY <1>1, TickIsTaken
  <2>4. run \in Seq(RunRow) /\ Len(run) \in Nat
    BY <1>1 DEF AutopilotInv, GoalsTyped
  <2>5. ~RunsKept(run, run')
    BY <2>1, <2>4 DEF RunsKept
  <2>6. PICK u \in Tasks, before \in Seq(RunRow) :
          /\ RunsKept(run, before) /\ run' = Append(before, NewRun(u))
          /\ ReadyIn(plan', task', before, u) \/ task[u] = "planning"
    BY <2>3, <2>5 DEF Ticked
  <2>7. run'[Len(run')] = NewRun(u)
    BY <2>6
  <2>8. u = t
    BY <2>1, <2>7 DEF NewRun
  <2>9. IsOpen(plan', p)
    BY <2>2, <2>3 DEF Ticked, PlansMove
  <2>10. \A d \in Tasks : LoopEnded(before, d) <=> LoopEnded(run, d)
    BY <2>4, <2>6, LoopsAreKept
  <2>11. \A d \in TransitiveDependencies(members[p], TaskDeps, t) : d \in Tasks
    BY <1>1, <2>2 DEF AutopilotInv, GraphsValid, TransitiveDependencies
  <2> QED BY <2>1, <2>2, <2>6, <2>8, <2>9, <2>10, <2>11 DEF ReadyIn
<1>2. AutopilotInv => [Readily]_backlogVars
  BY <1>1
<1> QED BY <1>2, AutopilotInvariant, PTL DEF QueueStartsReadyTasks

\* No tick resumes a run that proved a loop, as a budget retry or as a dependency
\* (recoverBudgetBlockedGoals, GoalCoordinator.recover).
THEOREM LoopsStayDownHolds == AutopilotSpec => LoopsStayDown
<1> DEFINE StaysDown == TickStep => \A i \in DOMAIN run :
             run[i].status \in {"blocked", "failed"} /\ run[i].cat = "loop"
               => run'[i].status = run[i].status
<1>1. ASSUME AutopilotInv, TickStep, NEW i \in DOMAIN run, Down(run[i])
      PROVE  run'[i].status = run[i].status
  <2>1. Ticked(plan', task', run')
    BY <1>1, TickIsTaken
  <2>2. run \in Seq(RunRow) /\ i \in 1 .. Len(run)
    BY <1>1 DEF AutopilotInv, GoalsTyped
  <2>3. CASE RunsKept(run, run')
    BY <1>1, <2>2, <2>3 DEF RunsKept
  <2>4. ASSUME NEW t \in Tasks, NEW before \in Seq(RunRow), RunsKept(run, before),
               run' = Append(before, NewRun(t))
        PROVE  run'[i].status = run[i].status
    <3>1. i \in 1 .. Len(before) /\ before[i].status = run[i].status
      BY <1>1, <2>2, <2>4 DEF RunsKept
    <3>2. run'[i] = before[i]
      BY <2>4, <3>1
    <3> QED BY <3>1, <3>2
  <2> QED BY <2>1, <2>3, <2>4 DEF Ticked
<1>2. AutopilotInv => [StaysDown]_backlogVars
  BY <1>1 DEF Down
<1> QED BY <1>2, AutopilotInvariant, PTL DEF LoopsStayDown
=============================================================================
